----------------------------- MODULE KencAdmission -----------------------------
(***************************************************************************)
(* kenc_installed_assets_open (src/src/admission.c): a helper process is   *)
(* started, answers over a socket with one record and its descriptors, and *)
(* exits; the caller watches a deadline and a cancellation meanwhile.      *)
(*                                                                         *)
(* The helper of the sealed bundle sends one record                        *)
(* (src/python/content_worker.py).  Here it may send any few of them, with *)
(* any number of descriptors, and end at any time: the caller answers for  *)
(* itself, whatever runs at the other end.                                 *)
(***************************************************************************)
EXTENDS Integers, Sequences

CONSTANTS Wanted,      \* descriptors of the profile: 9, or 4 of stereo
          Room,        \* of kenc_installed_assets: 9
          MostFds,     \* bound: descriptors in a record
          MostRecords  \* bound: records the helper sends

ASSUME AdmissionAssumption ==
    /\ Wanted \in 1..Room
    /\ Room \in Nat /\ MostFds \in Nat /\ MostRecords \in Nat

VARIABLES a_pc,
          a_process,  \* process > 0
          a_received, a_reaped, a_result,
          a_held,     \* assets->set.count
          a_out,      \* what the caller has been given
          open,       \* descriptors the process has open
          channel,    \* records on the way
          sent,       \* history: all the records of the helper
          helper,     \* none, running, zombie, gone (waited for)
          closed,     \* its end of the socket, maybe before it ends
          status,     \* how it ended
          late,       \* the deadline has passed
          cancel,     \* what the callback answers
          reaps,      \* somebody else in the process waits for its children, or
                      \* SIGCHLD is ignored
          flickers,   \* the callback may take a cancellation back
          killed      \* history: what the helper was when it was killed

parentVars == <<a_pc, a_process, a_received, a_reaped, a_result, a_held, a_out, open, killed>>
helperVars == <<sent, helper, closed, status>>
host == <<reaps, flickers>>
admissionVars == <<parentVars, helperVars, channel, late, cancel, host>>

AdmissionInit ==
    /\ a_pc = "spawn"
    /\ a_process = FALSE /\ a_received = FALSE /\ a_reaped = FALSE
    /\ a_result = "KENC_ERR_MODEL"
    /\ a_held = 0 /\ a_out = 0 /\ open = 0
    /\ channel = << >> /\ sent = << >>
    /\ helper = "none" /\ closed = FALSE /\ status = "none"
    /\ late = FALSE /\ cancel \in BOOLEAN
    /\ reaps \in BOOLEAN /\ flickers \in BOOLEAN
    /\ killed = "none"

\* stopped()
Stopped == late \/ cancel

Goto(where) == a_pc' = where
Elsewhere == <<helperVars, channel, late, cancel, host>>

-----------------------------------------------------------------------------
(* The helper, the clock and the callback *)

Records == [valid : BOOLEAN, fds : 0..MostFds]

\* A record the caller takes: its size, its header, the credentials of the
\* helper, and the number and kind of its descriptors.
Acceptable(record) == record.valid /\ record.fds = Wanted

HelperSends ==
    /\ helper = "running" /\ ~closed
    /\ Len(sent) < MostRecords
    /\ \E record \in Records :
          channel' = Append(channel, record) /\ sent' = Append(sent, record)
    /\ UNCHANGED <<parentVars, helper, closed, status, late, cancel, host>>

HelperCloses ==
    /\ helper = "running" /\ ~closed
    /\ closed' = TRUE
    /\ UNCHANGED <<parentVars, sent, helper, status, channel, late, cancel, host>>

\* It exits, or a resource ceiling ends it.
HelperEnds ==
    /\ helper = "running"
    /\ helper' = "zombie"
    /\ closed' = TRUE
    /\ status' \in {"success", "failure"}
    /\ UNCHANGED <<parentVars, sent, channel, late, cancel, host>>

SomebodyReaps ==
    /\ reaps /\ helper = "zombie"
    /\ helper' = "gone"
    /\ UNCHANGED <<parentVars, sent, closed, status, channel, late, cancel, host>>

DeadlinePasses == ~late /\ late' = TRUE /\ UNCHANGED <<parentVars, helperVars, channel, cancel, host>>

CallbackChanges ==
    /\ ~cancel \/ flickers
    /\ cancel' = ~cancel
    /\ UNCHANGED <<parentVars, helperVars, channel, late, host>>

-----------------------------------------------------------------------------
(* The caller *)

\* Up to posix_spawn: nothing to stop for yet, and everything it needs is made.
Spawn ==
    /\ a_pc = "spawn"
    /\ \/ /\ Stopped
          /\ a_result' = "KENC_ERR_RUNTIME" /\ Goto("returned")
          /\ UNCHANGED <<a_process, helper>>
       \/ /\ ~Stopped /\ Goto("done")
          /\ UNCHANGED <<a_process, a_result, helper>>
       \/ /\ ~Stopped /\ Goto("request")
          /\ a_process' = TRUE
          /\ helper' = "running"
          /\ UNCHANGED a_result
    /\ UNCHANGED <<a_received, a_reaped, a_held, a_out, open, killed,
                   sent, closed, status, channel, late, cancel, host>>

\* PID 1 starts no helper.
SpawnAsInit ==
    /\ a_pc = "spawn" /\ ~Stopped
    /\ a_result' = "KENC_ERR_RUNTIME" /\ Goto("returned")
    /\ UNCHANGED <<a_process, a_received, a_reaped, a_held, a_out, open, killed, Elsewhere>>

\* send: to a helper that has ended it fails.
SendRequest ==
    /\ a_pc = "request"
    /\ Goto(IF closed THEN "done" ELSE "loop")
    /\ UNCHANGED <<a_process, a_received, a_reaped, a_result, a_held, a_out, open, killed, Elsewhere>>

\* Mutant of Loop: only the callback is asked.
LoopAsksCallback ==
    /\ a_pc = "loop"
    /\ Goto(IF cancel THEN "verdict" ELSE IF a_received THEN "wait" ELSE "receive")
    /\ UNCHANGED <<a_process, a_received, a_reaped, a_result, a_held, a_out, open, killed, Elsewhere>>

Loop ==
    /\ a_pc = "loop"
    /\ Goto(IF Stopped THEN "verdict" ELSE IF a_received THEN "wait" ELSE "receive")
    /\ UNCHANGED <<a_process, a_received, a_reaped, a_result, a_held, a_out, open, killed, Elsewhere>>

\* Mutant of Take: the descriptors there is no room for are left open.
TakeAndForget(record, good, bad) ==
    /\ a_held' = IF record.fds < Room THEN record.fds ELSE Room
    /\ open' = open + record.fds
    /\ IF Acceptable(record) THEN a_received' = TRUE /\ Goto(good)
       ELSE Goto(bad) /\ UNCHANGED a_received

\* receive_assets of a record: as many descriptors as there is room for are
\* kept, for now, and the others closed.
Take(record, good, bad) ==
    /\ a_held' = IF record.fds < Room THEN record.fds ELSE Room
    /\ open' = open + a_held'
    /\ IF Acceptable(record) THEN a_received' = TRUE /\ Goto(good)
       ELSE Goto(bad) /\ UNCHANGED a_received

\* recvmsg finds a record, the end of the channel, or nothing so far.
ReceiveAssets(good, bad, none) ==
    /\ IF channel # << >>
       THEN Take(Head(channel), good, bad) /\ channel' = Tail(channel)
       ELSE /\ Goto(IF closed THEN bad ELSE none)
            /\ UNCHANGED <<a_received, a_held, open, channel>>
    /\ UNCHANGED <<a_process, a_reaped, a_result, a_out, killed, helperVars, late, cancel, host>>

Receive == a_pc = "receive" /\ ReceiveAssets("wait", "done", "wait")

\* Mutant of Wait: the process is still to be killed.
WaitKeepsProcess ==
    /\ a_pc = "wait"
    /\ \/ /\ helper = "running" /\ Goto("loop")
          /\ UNCHANGED <<a_process, a_reaped, helper>>
       \/ /\ helper = "zombie" /\ helper' = "gone"
          /\ a_reaped' = TRUE
          /\ Goto("verdict")
          /\ UNCHANGED a_process
       \/ /\ helper = "gone" /\ Goto("done")
          /\ a_process' = FALSE
          /\ UNCHANGED <<a_reaped, helper>>
    /\ UNCHANGED <<a_received, a_result, a_held, a_out, open, killed, sent, closed, status,
                   channel, late, cancel, host>>

\* waitpid with WNOHANG, and what is forgotten of a child that is no more; then
\* poll.
Wait ==
    /\ a_pc = "wait"
    /\ \/ /\ helper = "running" /\ Goto("loop")
          /\ UNCHANGED <<a_process, a_reaped, helper>>
       \/ /\ helper = "zombie" /\ helper' = "gone"
          /\ a_reaped' = TRUE /\ a_process' = FALSE
          /\ Goto("verdict")
       \/ /\ helper = "gone" /\ Goto("done")
          /\ a_process' = FALSE
          /\ UNCHANGED <<a_reaped, helper>>
    /\ UNCHANGED <<a_received, a_result, a_held, a_out, open, killed, sent, closed, status,
                   channel, late, cancel, host>>

\* Mutant of Verdict: how the helper ended is not looked at.
VerdictAnyStatus ==
    /\ a_pc = "verdict"
    /\ IF Stopped THEN a_result' = "KENC_ERR_RUNTIME" /\ Goto("done")
       ELSE /\ Goto(IF ~a_reaped THEN "done"
                    ELSE IF a_received THEN "trailing" ELSE "last")
            /\ UNCHANGED a_result
    /\ UNCHANGED <<a_process, a_received, a_reaped, a_held, a_out, open, killed, Elsewhere>>

\* The loop is over.
Verdict ==
    /\ a_pc = "verdict"
    /\ IF Stopped THEN a_result' = "KENC_ERR_RUNTIME" /\ Goto("done")
       ELSE /\ Goto(IF ~a_reaped \/ status # "success" THEN "done"
                    ELSE IF a_received THEN "trailing" ELSE "last")
            /\ UNCHANGED a_result
    /\ UNCHANGED <<a_process, a_received, a_reaped, a_held, a_out, open, killed, Elsewhere>>

\* The helper may have answered between the last look and its end.
ReceiveLast == a_pc = "last" /\ ReceiveAssets("trailing", "done", "done")

\* Nothing may follow: the descriptors of what does are closed.
Trailing ==
    /\ a_pc = "trailing"
    /\ IF channel = << >>
       THEN /\ a_result' = "KENC_OK"
            /\ a_out' = a_held /\ a_held' = 0
            /\ UNCHANGED channel
       ELSE channel' = Tail(channel) /\ UNCHANGED <<a_result, a_out, a_held>>
    /\ Goto("done")
    /\ UNCHANGED <<a_process, a_received, a_reaped, open, killed, helperVars, late, cancel, host>>

\* SIGKILL to what has not been waited for.
Kill ==
    /\ a_pc = "done" /\ a_process
    /\ killed' = IF ~closed /\ sent = << >> THEN "at work" ELSE helper
    /\ IF helper = "running" THEN helper' = "zombie" /\ closed' = TRUE /\ status' = "failure"
       ELSE UNCHANGED <<helper, closed, status>>
    /\ Goto("reap")
    /\ UNCHANGED <<a_process, a_received, a_reaped, a_result, a_held, a_out, open,
                   sent, channel, late, cancel, host>>

\* Mutant of Reap: killed, and left at that.
ReapNothing ==
    /\ a_pc = "reap" /\ helper \in {"zombie", "gone"}
    /\ a_process' = FALSE
    /\ Goto("done")
    /\ UNCHANGED <<a_received, a_reaped, a_result, a_held, a_out, open, killed,
                   sent, helper, closed, status, channel, late, cancel, host>>

\* ... and now is.
Reap ==
    /\ a_pc = "reap" /\ helper \in {"zombie", "gone"}
    /\ helper' = "gone"
    /\ a_process' = FALSE
    /\ Goto("done")
    /\ UNCHANGED <<a_received, a_reaped, a_result, a_held, a_out, open, killed,
                   sent, closed, status, channel, late, cancel, host>>

\* The socket is closed, with all that is still in it, and so is what was kept.
Return ==
    /\ a_pc = "done" /\ ~a_process
    /\ open' = open - a_held
    /\ a_held' = 0
    /\ channel' = << >>
    /\ Goto("returned")
    /\ UNCHANGED <<a_process, a_received, a_reaped, a_result, a_out, killed, helperVars, late, cancel, host>>

Caller ==
    \/ Spawn \/ SpawnAsInit \/ SendRequest \/ Loop \/ Receive \/ Wait
    \/ Verdict \/ ReceiveLast \/ Trailing \/ Kill \/ Reap \/ Return

AdmissionNext ==
    \/ Caller
    \/ HelperSends \/ HelperCloses \/ HelperEnds \/ SomebodyReaps
    \/ DeadlinePasses \/ CallbackChanges

\* The caller runs on, and time passes.  Nothing is asked of the helper.
AdmissionSpec ==
    AdmissionInit /\ [][AdmissionNext]_admissionVars
        /\ WF_admissionVars(Caller) /\ WF_admissionVars(DeadlinePasses)

-----------------------------------------------------------------------------
(* Properties *)

Returned == a_pc = "returned"

\* However the call ends, the process has exactly the descriptors open that its
\* caller was given: all of the profile on success, none otherwise, whatever
\* number of them came in whatever number of records at whatever time.
DescriptorsAccounted ==
    /\ open = a_held + a_out
    /\ Returned => open = IF a_result = "KENC_OK" THEN Wanted ELSE 0

\* Assets come only from a helper that said all it had to say and then exited
\* with success: one record, in full, and nothing after it.
OneCompleteAnswer ==
    Returned /\ a_result = "KENC_OK" =>
        /\ status = "success"
        /\ Len(sent) = 1 /\ Acceptable(sent[1])

\* No helper and no zombie is left behind.
HelperIsGone == Returned => helper \in {"none", "gone"}

\* "kills/reaps only its own helper on cancellation or deadline" (README.md):
\* once a process has been waited for, its number may be another's.  Where others
\* wait for children as well, this is not to be had from kill and waitpid.
KillsOnlyItsOwn == ~reaps => killed # "gone"

\* The call returns, also when the helper hangs.
CallReturns == <>Returned

-----------------------------------------------------------------------------
\* What holds between any two steps.
Looping == {"loop", "receive", "wait", "verdict"}

AdmissionTypeOK ==
    /\ a_pc \in Looping \cup {"spawn", "request", "last", "trailing", "done", "reap", "returned"}
    /\ a_process \in BOOLEAN /\ a_received \in BOOLEAN /\ a_reaped \in BOOLEAN
    /\ a_result \in {"KENC_OK", "KENC_ERR_MODEL", "KENC_ERR_RUNTIME"}
    /\ a_held \in Nat /\ a_out \in Nat /\ open \in Nat
    /\ channel \in Seq(Records) /\ sent \in Seq(Records)
    /\ helper \in {"none", "running", "zombie", "gone"}
    /\ status \in {"none", "success", "failure"}

\* The caller knows of the helper until it has been waited for, by whomever.
HelperStands ==
    /\ a_pc = "spawn" => helper = "none" /\ ~ a_process
    /\ a_pc = "returned" => ~ a_process
    /\ ~ a_process => helper \in {"none", "gone"}
    /\ a_process => helper # "none"
    /\ a_process /\ ~ reaps => helper # "gone"
    /\ a_reaped => helper = "gone" /\ ~ a_process
    /\ a_pc \in {"last", "trailing"} => a_reaped /\ status = "success"

\* What has been taken is the first record, in full, and the channel the rest.
AnswerStands ==
    /\ a_pc \in {"spawn", "request", "receive", "last"} => ~ a_received
    /\ a_pc = "trailing" => a_received
    /\ a_pc \in Looping \cup {"spawn", "request", "last"} /\ ~ a_received => channel = sent
    /\ a_pc \in Looping \cup {"trailing"} /\ a_received =>
          Len(sent) = Len(channel) + 1 /\ Acceptable(sent[1])

\* Nothing is held before the record came, the profile's descriptors after it, and
\* the caller gets them when all is over.
DescriptorsStand ==
    /\ open = a_held + a_out
    /\ a_pc \in Looping \cup {"spawn", "request", "last"} /\ ~ a_received => a_held = 0
    /\ a_pc \in Looping \cup {"trailing"} /\ a_received => a_held = Wanted
    /\ a_result # "KENC_OK" => a_out = 0 /\ (a_pc = "returned" => a_held = 0)
    /\ a_result = "KENC_OK" =>
          /\ a_pc \in {"done", "returned"} /\ a_held = 0 /\ a_out = Wanted
          /\ a_reaped /\ status = "success" /\ Len(sent) = 1 /\ Acceptable(sent[1])

AdmissionInv ==
    AdmissionTypeOK /\ HelperStands /\ AnswerStands /\ DescriptorsStand /\ KillsOnlyItsOwn
=============================================================================
