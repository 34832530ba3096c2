---------------------------- MODULE KencConverter ----------------------------
(***************************************************************************)
(* The installed conversion command (tools/converter_runtime.py): it wants *)
(* a licence receipt, copies its pinned inputs into sealed descriptors,    *)
(* runs the bundled tools on them in a sandbox, and verifies what they     *)
(* wrote.  Around it: somebody rewriting the inputs, signals, the          *)
(* deadline, and the processes of the sandbox, which fork, write, close    *)
(* the pipe and die when they like.                                        *)
(*                                                                         *)
(* A file is a sequence of blocks, Good where they are the pinned bytes.   *)
(* An action is what the command does between two points at which another  *)
(* process can be seen; every error raised in between is one step to the   *)
(* finally clause.                                                         *)
(***************************************************************************)
EXTENDS Integers, Sequences, FiniteSets

CONSTANTS Sources,   \* the pinned files in the order they are read: the
                     \* bundle first, then the inputs of the profile
          Outputs,   \* names of OUTPUTS
          Blocks,    \* blocks of a pinned file
          Procs,     \* processes the sandbox may ever have; one is the child
          Child,
          Command,   \* this process, the subreaper
          Gone,      \* the parent of a process that was collected
          MaxEdits,  \* bound on the rewriting of the inputs
          Good, Bad

ASSUME ConverterAssumption ==
    /\ Blocks \in Nat \ {0} /\ Len(Sources) \in Nat
    /\ Child \in Procs /\ {Command, Gone} \cap Procs = {} /\ Command # Gone
    /\ IsFiniteSet(Procs)
    /\ Good # Bad

VARIABLES stage,     \* where run() is
          outcome,   \* running, converted or refused
          ask,       \* what the caller gave: timeout, store, digest, authority
          place,     \* the output directory: private, shared or full
          receipt,   \* require_receipt returned
          late,      \* the deadline has passed
          stopping,  \* STOPPING
          disk,      \* source -> its blocks, as anyone may rewrite them
          edits,
          copy,      \* source -> blocks in its snapshot
          held,      \* open descriptors
          parent,    \* process -> its parent, itself before it is started
          piping,    \* processes that hold the standard output
          code,      \* exit status of the child, none, zero or nonzero
          status,    \* what child.wait returned
          written,   \* output -> none, Good or Bad
          stray,     \* there is another name in the output directory
          verified   \* outputs whose bytes were compared

vars == <<stage, outcome, ask, place, receipt, late, stopping, disk, edits, copy, held,
          parent, piping, code, status, written, stray, verified>>

asked == <<ask, place>>
world == <<late, stopping, disk, edits>>
sandbox == <<parent, piping, code, written, stray>>

-----------------------------------------------------------------------------
Alive == {p \in Procs : parent[p] \notin {p, Gone}}
Children == {p \in Procs : parent[p] = Command}
Pinned == [b \in 1..Blocks |-> Good]
NoSource == Len(Sources) + 1
Output == 0    \* the descriptor of the output directory

\* check(deadline).
Checked == ~ stopping /\ ~ late

\* An error is raised: what is left is the finally clause.
Raise == stage' = "finally" /\ outcome' = "refused"

Init ==
    /\ stage = "gate" /\ outcome = "running"
    /\ ask \in [timeout : BOOLEAN, store : {"none", "shared", "private"},
                digest : BOOLEAN, authority : BOOLEAN, covered : BOOLEAN]
    /\ place \in {"private", "shared", "full"}
    /\ receipt = FALSE
    /\ late = FALSE /\ stopping = FALSE
    /\ disk = [s \in 1..Len(Sources) |-> Pinned] /\ edits = 0
    /\ copy = [s \in 1..Len(Sources) |-> << >>]
    /\ held = {}
    /\ parent = [p \in Procs |-> p] /\ piping = {}
    /\ code = "none" /\ status = "none"
    /\ written = [o \in Outputs |-> "none"] /\ stray = FALSE
    /\ verified = {}

\* require_receipt: a private store is given, the digest is well formed, the
\* embedded authority is whole, and it finds a receipt that covers the record.
RequireReceipt ==
    /\ ask.store = "private" /\ ask.digest /\ ask.authority
    /\ ask.covered

Gate ==
    /\ stage = "gate"
    /\ IF ask.timeout /\ RequireReceipt
       THEN /\ receipt' = TRUE
            /\ stage' \in {"output", "done"}     \* done: prctl failed
            /\ outcome' = IF stage' = "done" THEN "refused" ELSE outcome
       ELSE stage' = "done" /\ outcome' = "refused" /\ UNCHANGED receipt
    /\ UNCHANGED <<asked, world, copy, held, sandbox, status, verified>>

OpenOutput ==
    /\ stage = "output"
    /\ IF place = "shared"
       THEN stage' = "done" /\ outcome' = "refused" /\ UNCHANGED held
       ELSE /\ held' = {Output}
            /\ IF place = "full" THEN Raise
               ELSE stage' = "seal" /\ UNCHANGED outcome
    /\ UNCHANGED <<asked, receipt, world, copy, sandbox, status, verified>>

\* The source that is being copied: the first one without a descriptor.
Reading == CHOOSE s \in 1..NoSource :
               /\ s \notin held
               /\ \A t \in 1..s - 1 : t \in held

\* sealed: the metadata of the source, then a block at a time.
OpenSource ==
    /\ stage = "seal" /\ Reading # NoSource
    /\ IF Len(disk[Reading]) = Blocks /\ Checked
       THEN stage' = "copy" /\ UNCHANGED outcome ELSE Raise
    /\ UNCHANGED <<asked, receipt, world, copy, held, sandbox, status, verified>>

CopyBlock ==
    /\ stage = "copy" /\ Len(copy[Reading]) < Blocks
    /\ LET next == Len(copy[Reading]) + 1
       IN  IF Checked /\ next <= Len(disk[Reading])
           THEN /\ copy' = [copy EXCEPT ![Reading] = Append(@, disk[Reading][next])]
                /\ UNCHANGED <<stage, outcome>>
           ELSE Raise /\ UNCHANGED copy
    /\ UNCHANGED <<asked, receipt, world, held, sandbox, status, verified>>

\* Mutant of Sealed: the digest is taken of the file, not of what was copied.
SealedReread(s) == Len(disk[s]) = Blocks /\ disk[s] = Pinned

\* No byte more, and the digest of the bytes copied is the pinned one.
Sealed(s) == Len(disk[s]) <= Blocks /\ copy[s] = Pinned

Seal ==
    /\ stage = "copy" /\ Len(copy[Reading]) = Blocks
    /\ IF Sealed(Reading) /\ Checked
       THEN held' = held \cup {Reading} /\ stage' = "seal" /\ UNCHANGED outcome
       ELSE Raise /\ UNCHANGED held
    /\ UNCHANGED <<asked, receipt, world, copy, sandbox, status, verified>>

\* Popen of the sandbox; the command keeps the output directory only.
Spawn ==
    /\ stage = "seal" /\ Reading = NoSource
    /\ \/ /\ parent' = [parent EXCEPT ![Child] = Command]
          /\ piping' = {Child}
          /\ held' = {Output}
          /\ stage' = "pipe"
          /\ UNCHANGED outcome
       \/ Raise /\ UNCHANGED <<parent, piping, held>>
    /\ UNCHANGED <<asked, receipt, world, copy, code, status, written, stray, verified>>

\* The selector loop ends when nobody holds the pipe any more.
Select ==
    /\ stage = "pipe"
    /\ IF piping = {} THEN stage' = "wait" /\ UNCHANGED outcome
       ELSE ~ Checked /\ Raise
    /\ UNCHANGED <<asked, receipt, world, copy, held, sandbox, status, verified>>

\* Mutant of Wait: without a timeout.
WaitForever ==
    /\ stage = "wait" /\ code # "none"
    /\ status' = code /\ stage' = "reap" /\ UNCHANGED outcome
    /\ UNCHANGED <<asked, receipt, world, copy, held, sandbox, verified>>

\* child.wait: for the rest of the time the deadline leaves.
Wait ==
    /\ stage = "wait"
    /\ \/ /\ code # "none"
          /\ status' = code /\ stage' = "reap" /\ UNCHANGED outcome
       \/ code = "none" /\ late /\ Raise /\ UNCHANGED status
    /\ UNCHANGED <<asked, receipt, world, copy, held, sandbox, verified>>

\* Those of these processes that lose their parent come to the subreaper.
Without(gone) ==
    [p \in Procs |->
        IF p \in gone THEN Gone ELSE IF parent[p] \in gone THEN Command ELSE parent[p]]

\* A round of reap_owned: kill the children there are and collect them.
Reap ==
    /\ parent' = Without(Children)
    /\ piping' = piping \ Children
    /\ code' = IF Child \in Children THEN "nonzero" ELSE code
    /\ UNCHANGED <<written, stray>>

\* Mutant of ReapOwned: the child it started is all there is to collect.
ReapOwnedChild(then) ==
    IF Child \in Children
    THEN /\ parent' = Without({Child}) /\ piping' = piping \ {Child} /\ code' = "nonzero"
         /\ UNCHANGED <<stage, outcome, held, written, stray>>
    ELSE then /\ UNCHANGED sandbox

\* reap_owned returns once waitpid finds no child.
ReapOwned(then) ==
    \/ /\ Children # {} /\ Reap
       /\ UNCHANGED <<stage, outcome, held>>
    \/ Children = {} /\ then /\ UNCHANGED sandbox

ReapAfterWait ==
    /\ stage = "reap"
    /\ ReapOwned(stage' = "judge" /\ UNCHANGED <<outcome, held>>)
    /\ UNCHANGED <<asked, receipt, world, copy, status, verified>>

\* The population of the output directory.
Judge ==
    /\ stage = "judge"
    /\ IF /\ Checked /\ status = "zero"
          /\ ~ stray /\ \A o \in Outputs : written[o] # "none"
       THEN stage' = "verify" /\ UNCHANGED outcome ELSE Raise
    /\ UNCHANGED <<asked, receipt, world, copy, held, sandbox, status, verified>>

Verify ==
    /\ stage = "verify"
    /\ \/ /\ Checked /\ verified = Outputs
          /\ stage' = "finally" /\ outcome' = "converted"
          /\ UNCHANGED verified
       \/ \E o \in Outputs \ verified :
             IF Checked /\ written[o] = Good
             THEN verified' = verified \cup {o} /\ UNCHANGED <<stage, outcome>>
             ELSE Raise /\ UNCHANGED verified
       \/ ~ Checked /\ Raise /\ UNCHANGED verified
    /\ UNCHANGED <<asked, receipt, world, copy, held, sandbox, status>>

\* The finally clause: kill and collect every process, then close everything.
Finally ==
    /\ stage = "finally"
    /\ ReapOwned(stage' = "done" /\ held' = {} /\ UNCHANGED outcome)
    /\ UNCHANGED <<asked, receipt, world, copy, status, verified>>

Run == \/ Gate \/ OpenOutput \/ OpenSource \/ CopyBlock \/ Seal \/ Spawn \/ Select
       \/ Wait \/ ReapAfterWait \/ Judge \/ Verify \/ Finally

-----------------------------------------------------------------------------
\* The rest of the world.
conversion == <<stage, outcome, asked, receipt, copy, held, status, verified>>

Expire == ~ late /\ receipt /\ late' = TRUE /\ UNCHANGED <<conversion, stopping, disk, edits, sandbox>>

\* main's handler of SIGINT and SIGTERM.
Stop == ~ stopping /\ stopping' = TRUE /\ UNCHANGED <<conversion, late, disk, edits, sandbox>>

\* Bounded to the time in which somebody still reads them.
Edit ==
    /\ edits < MaxEdits /\ edits' = edits + 1
    /\ stage \in {"gate", "output", "seal", "copy"}
    /\ \E s \in DOMAIN disk :
          \/ \E b \in DOMAIN disk[s], v \in {Good, Bad} : disk' = [disk EXCEPT ![s][b] = v]
          \/ disk' = [disk EXCEPT ![s] = Append(@, Bad)]
          \/ disk[s] # << >> /\ disk' = [disk EXCEPT ![s] = SubSeq(@, 1, Len(@) - 1)]
    /\ UNCHANGED <<conversion, late, stopping, sandbox>>

\* What a process of the sandbox does.
Fork ==
    /\ \E p \in Alive, q \in Procs \ {Child} :
          /\ parent[q] = q
          /\ parent' = [parent EXCEPT ![q] = p]
          /\ piping' = IF p \in piping THEN piping \cup {q} ELSE piping
    /\ UNCHANGED <<conversion, world, code, written, stray>>

CloseOutput ==
    /\ \E p \in piping : piping' = piping \ {p}
    /\ UNCHANGED <<conversion, world, parent, code, written, stray>>

Exit ==
    /\ \E p \in Alive :
          /\ parent' = Without({p})
          /\ piping' = piping \ {p}
          /\ IF p = Child THEN code' \in {"zero", "nonzero"} ELSE UNCHANGED code
    /\ UNCHANGED <<conversion, world, written, stray>>

\* The bootstrap unpacked the bundle it was given and the tools write.
Write ==
    /\ Alive # {}
    /\ \/ \E o \in Outputs, v \in {Good, Bad} : written' = [written EXCEPT ![o] = v]
          /\ UNCHANGED stray
       \/ stray' = TRUE /\ UNCHANGED written
    /\ UNCHANGED <<conversion, world, parent, piping, code>>

Next == Run \/ Expire \/ Stop \/ Edit \/ Fork \/ CloseOutput \/ Exit \/ Write

\* Python runs on, and the clock does.
Spec == Init /\ [][Next]_vars /\ WF_vars(Run) /\ WF_vars(Expire)

-----------------------------------------------------------------------------
\* Whatever was done to the inputs meanwhile, the sandbox only ever reads bytes
\* with the pinned digests.
ReadsPinnedBytes == Alive # {} => \A s \in DOMAIN copy : copy[s] = Pinned

\* A command that reports success leaves exactly the pinned outputs: what was
\* compared is what is there, for no process was left to change it afterwards.
ConvertedIsWhole ==
    outcome = "converted" =>
        /\ status = "zero"
        /\ ~ stray /\ \A o \in Outputs : written[o] = Good

\* It returns, whatever the sandbox does or does not do.
Returns == <>(stage = "done")

-----------------------------------------------------------------------------
\* What holds between any two steps.
Preparing == {"gate", "output", "seal", "copy"}
Running == {"pipe", "wait", "reap"}
Judging == {"judge", "verify"}

ConverterTypeOK ==
    /\ stage \in Preparing \cup Running \cup Judging \cup {"finally", "done"}
    /\ outcome \in {"running", "converted", "refused"}
    /\ parent \in [Procs -> Procs \cup {Command, Gone}]
    /\ DOMAIN copy = 1..Len(Sources)
    /\ DOMAIN written = Outputs
    /\ verified \subseteq Outputs

\* The parent of a process is one of them or the subreaper, and no processes are
\* all one another's descendants: whoever is left, somebody's parent is not.
Orphans ==
    /\ \A p \in Alive : parent[p] \in Alive \cup {Command}
    /\ \A S \in SUBSET Alive : S = {} \/ \E p \in S : parent[p] \notin S

\* The sources are sealed in order, and no process sees one that is not.
SealedInOrder ==
    /\ stage \in {"seal", "copy"} =>
          \E k \in 0..Len(Sources) :
              held = 0..k /\ \A s \in 1..k : copy[s] = Pinned
    /\ stage = "copy" => Reading # NoSource
    /\ stage \in Preparing => Alive = {}

\* From the collection on nobody is left to write; what was compared stays.
ComparedStays ==
    /\ outcome = "converted" <=> stage \in {"finally", "done"} /\ outcome # "refused"
    /\ stage \in Judging \/ outcome = "converted" => Alive = {}
    /\ stage \notin {"verify", "finally", "done"} => verified = {}
    /\ stage = "verify" =>
          status = "zero" /\ ~ stray /\ \A o \in verified : written[o] = Good

ConverterInv ==
    /\ ConverterTypeOK /\ Orphans /\ SealedInOrder /\ ComparedStays
    /\ ReadsPinnedBytes /\ ConvertedIsWhole
=============================================================================
