----------------------------- MODULE KencInstalled -----------------------------
(***************************************************************************)
(* admitted_assets (src/python/installed_assets.py): the files of an       *)
(* installed asset are copied and checked one after the other while an     *)
(* installer, or anyone, may change them, the directory they are in and    *)
(* the licence receipt.                                                    *)
(*                                                                         *)
(* Every change of a member shows in its identity (inode, links, size and  *)
(* the two time stamps).  Directories and names are looked at one by one;  *)
(* the way down to the content root is walked once, and what is below it   *)
(* is looked at again.                                                     *)
(***************************************************************************)
EXTENDS Integers, FiniteSets

CONSTANTS Members,    \* the files the manifest declares
          Kept,       \* those of the native population; the others are notices
          Undeclared, \* names that it does not have
          Ancestors,  \* the content root and the directories above it
          Directories, \* those below it, of the asset and on the way to it
          Receipts,   \* receipts that cover the asset
          MaxChanges  \* bound: changes of the tree and the store

ASSUME InstalledAssumption ==
    /\ Kept \subseteq Members /\ Members \cap Undeclared = {}
    /\ Ancestors \cap Directories = {}
    /\ MaxChanges \in Nat

VARIABLES content,   \* of each member: pinned, other or missing
          identity,  \* of each member, as stat tells it
          linked,    \* of each directory: its name leads to the one that was
                     \* opened (here), to another one or nowhere (elsewhere),
                     \* or it is open to other users (exposed)
          strays,    \* the undeclared names that there are
          receipt,   \* in the store: none, or one of Receipts
          store,     \* the receipt store is private to this user
          packaged,  \* catalogue and licence record of the bundle are those
                     \* this consumer was compiled for, others, or not there
          changes    \* how often any of this has changed

VARIABLES i_pc, todo,
          covering,    \* the receipt found first
          before,      \* of the member being read: what fstat said
          copy,        \* what has been read of it
          identities,  \* of the members read
          descriptors, \* sealed copies: member -> content
          handles,     \* what else is open: the store, the tree, a member
          after        \* history: what was so at some time since the last read

diskVars == <<content, identity, linked, strays, receipt, store, packaged, changes>>
admitVars == <<i_pc, todo, covering, before, copy, identities, descriptors, handles>>
installedVars == <<diskVars, admitVars, after>>

None == "none"
Links == {"here", "elsewhere", "exposed"}
Chain == Ancestors \cup Directories

\* What holds of the tree and the store now.
Now == [whole |-> \A f \in Members : content[f] = "pinned",
        receipt |-> receipt, linked |-> linked, strays |-> strays]

InstalledInit ==
    /\ content \in [Members -> {"pinned", "other", "missing"}]
    /\ identity = [f \in Members |-> 0]
    /\ linked \in [Chain -> {"here", "exposed"}]
    /\ strays \in SUBSET Undeclared
    /\ store \in BOOLEAN /\ packaged \in {"compiled", "other", "absent"}
    /\ receipt \in Receipts \cup {None}
    /\ changes = 0
    /\ i_pc = "start" /\ todo = {}
    /\ covering = None
    /\ before = 0 /\ copy = None
    /\ identities = << >> /\ descriptors = << >> /\ handles = {}
    /\ after = {}

\* The history of a step: reading is over once the second recheck begins.
Remember == after' = IF i_pc \in {"recheck", "rescan", "identities", "receipt", "rehash"}
                     THEN after \cup {Now} ELSE after

-----------------------------------------------------------------------------
(* The others *)

Change(done) ==
    /\ changes < MaxChanges
    /\ changes' = changes + 1
    /\ done
    /\ Remember
    /\ UNCHANGED <<admitVars, store, packaged>>

ChangeMember == \E f \in Members, c \in {"pinned", "other", "missing"} : Change(
    /\ c # content[f] \/ c # "missing"
    /\ content' = [content EXCEPT ![f] = c]
    /\ identity' = [identity EXCEPT ![f] = @ + 1]
    /\ UNCHANGED <<linked, strays, receipt>>)

\* What a name leads to when it is opened is "here".
NotOpened ==
    CASE i_pc \in {"start", "store", "require"} -> Chain
      [] i_pc = "open" -> todo \cup Directories
      [] i_pc = "tree" -> todo
      [] OTHER -> {}

ChangeLink == \E d \in Chain, l \in Links : Change(
    /\ l # linked[d] /\ (l = "elsewhere" => d \notin NotOpened)
    /\ linked' = [linked EXCEPT ![d] = l]
    /\ UNCHANGED <<content, identity, strays, receipt>>)

ChangeStray == \E s \in Undeclared : Change(
    /\ strays' = IF s \in strays THEN strays \ {s} ELSE strays \cup {s}
    /\ UNCHANGED <<content, identity, linked, receipt>>)

ChangeReceipt == \E r \in Receipts \cup {None} : r # receipt /\ Change(
    receipt' = r /\ UNCHANGED <<content, identity, linked, strays>>)

-----------------------------------------------------------------------------
(* admitted_assets *)

Step(from) == i_pc = from /\ UNCHANGED diskVars /\ Remember

\* An exception: every descriptor is closed on the way out.
Refuse ==
    /\ i_pc' = "refused"
    /\ todo' = {} /\ covering' = None
    /\ before' = 0 /\ copy' = None
    /\ identities' = << >> /\ descriptors' = << >> /\ handles' = {}

\* check() finds the deadline passed or the call cancelled, or an OSError.
GivesUp ==
    /\ i_pc \notin {"start", "admitted", "closed", "refused"}
    /\ Step(i_pc)
    /\ Refuse

GoWith(to, members, held) ==
    /\ i_pc' = to /\ todo' = members /\ handles' = held
    /\ UNCHANGED <<covering, before, copy, identities, descriptors>>

Go(to, members) == GoWith(to, members, handles)

\* One of several is looked at, and is as it has to be, or not ...
Each(at, x, holds) ==
    /\ x \in todo
    /\ Step(at)
    /\ IF holds THEN Go(at, todo \ {x}) ELSE Refuse

\* ... until all have been.
EndOf(at, to, next) == todo = {} /\ Step(at) /\ Go(to, next)

\* _Authority: the bundle has the modules, and the names in them, that are asked.
Authority == packaged # "absent"

\* verified_packaged_catalog and the licence record of the bundle: the asset is
\* the one this consumer was compiled for, under its one licence.
Consult ==
    /\ Step("start")
    /\ IF Authority /\ packaged = "compiled" THEN Go("store", {}) ELSE Refuse

\* _Authority.receipts: the store is opened once, and held.
HoldStore ==
    /\ Step("store")
    /\ IF store THEN GoWith("require", {}, {"store"}) ELSE Refuse

\* coverage.require over the held store
RequireReceipt ==
    /\ Step("require")
    /\ IF receipt = None THEN Refuse
       ELSE /\ covering' = receipt
            /\ i_pc' = "open" /\ todo' = Ancestors
            /\ UNCHANGED <<before, copy, identities, descriptors, handles>>

\* _Tree.root, descriptor by descriptor from the top: the directory is there,
\* and nobody else can have put it there.
OpenAncestor(d) == Each("open", d, linked[d] # "exposed")

EndAncestors ==
    /\ todo = {}
    /\ Step("open")
    /\ GoWith("tree", Directories, handles \cup {"tree"})

\* _Tree.open, with _owned_directory: the directory is this user's, and private.
OpenDirectory(d) == Each("tree", d, linked[d] # "exposed")

\* _Tree.recheck, of the links that open() has made: the name still leads to the
\* directory that was opened, and that is still private.
SameDirectory(d) == linked[d] = "here"

\* The first recheck
CheckDirectory(d) == Each("check", d, SameDirectory(d))

\* _population_matches, name by name: nothing is missing, and nothing else is
\* there.  An entry that comes or goes while a directory is listed may show or
\* not, so that each name is looked for by itself.
Names == Members \cup Undeclared
AsDeclared(n) == IF n \in Members THEN content[n] # "missing" ELSE n \notin strays

Scan(n) == Each("scan", n, AsDeclared(n))

\* _snapshot: the member is opened and looked at ...
OpenMember(f) ==
    /\ f \in todo /\ copy = None
    /\ Step("members")
    /\ IF content[f] = "missing" THEN Refuse
       ELSE /\ i_pc' = "read"
            /\ before' = identity[f]
            /\ copy' = f
            /\ handles' = handles \cup {"member"}
            /\ UNCHANGED <<todo, covering, identities, descriptors>>

\* The member on disk is the one that was looked at before.
SameAsBefore(f) == identity[f] = before

\* ... read, with pieces of several contents if it is being written ...
BytesRead(f) == IF identity[f] = before THEN {content[f]} ELSE {content[f], "other", "pinned"}

\* ... and kept, if it has not changed and has the digest of the manifest.
ReadMember ==
    LET f == copy
    IN  /\ Step("read")
        /\ \E bytes \in BytesRead(f) :
              IF bytes = "pinned" /\ SameAsBefore(f)
              THEN /\ i_pc' = "members" /\ todo' = todo \ {f}
                   /\ copy' = None /\ before' = 0
                   /\ identities' = [g \in DOMAIN identities \cup {f} |->
                                        IF g = f THEN identity[f] ELSE identities[g]]
                   /\ descriptors' = [g \in DOMAIN descriptors \cup ({f} \cap Kept) |->
                                        IF g = f THEN bytes ELSE descriptors[g]]
                   /\ handles' = handles \ {"member"}
                   /\ UNCHANGED covering
              ELSE Refuse

\* The second recheck
Recheck(d) == Each("recheck", d, SameDirectory(d))

\* Mutant of Rescan: only what is declared is looked for.
RescanDeclared(n) == Each("rescan", n, n \in Members => AsDeclared(n))

\* The second look at the names
Rescan(n) == Each("rescan", n, AsDeclared(n))

\* Mutant of StillThere: a member is only required to exist.
StillAround(f) == content[f] # "missing"

\* stat of the name gives the identity it was read under.
StillThere(f) == content[f] # "missing" /\ identity[f] = identities[f]

CheckIdentity(f) == Each("identities", f, StillThere(f))

\* From one round over the directories, names or members to the next.
EndRound ==
    \/ EndOf("tree", "check", Directories)
    \/ EndOf("check", "scan", Names)
    \/ EndOf("scan", "members", Members)
    \/ EndOf("members", "recheck", Directories)
    \/ EndOf("recheck", "rescan", Names)
    \/ EndOf("rescan", "identities", Members)
    \/ EndOf("identities", "receipt", {})

\* The receipt is required again, and has to be the same one.
RequireAgain == Step("receipt") /\ IF receipt = covering THEN Go("rehash", {}) ELSE Refuse

\* _descriptor: the sealed copy is hashed once more, through what is handed out.
Rehashed(f) == f \in DOMAIN descriptors /\ descriptors[f] = "pinned"

HandOut ==
    /\ Step("rehash")
    /\ IF \A f \in Kept : Rehashed(f) THEN GoWith("admitted", {}, {}) ELSE Refuse

\* The context manager is left.
Close ==
    /\ Step("admitted")
    /\ i_pc' = "closed"
    /\ descriptors' = << >>
    /\ UNCHANGED <<todo, covering, before, copy, identities, handles>>

InstalledNext ==
    \/ ChangeMember \/ ChangeLink \/ ChangeStray \/ ChangeReceipt
    \/ Consult \/ HoldStore \/ RequireReceipt
    \/ (\E d \in Ancestors : OpenAncestor(d)) \/ EndAncestors
    \/ (\E d \in Directories : OpenDirectory(d) \/ CheckDirectory(d) \/ Recheck(d))
    \/ (\E n \in Names : Scan(n) \/ Rescan(n))
    \/ (\E f \in Members : OpenMember(f) \/ CheckIdentity(f)) \/ ReadMember
    \/ EndRound \/ RequireAgain \/ HandOut \/ Close \/ GivesUp

InstalledSpec == InstalledInit /\ [][InstalledNext]_installedVars

-----------------------------------------------------------------------------
(* Properties *)

Admitted == i_pc = "admitted"

\* The copies handed out are those of one installation: there was one moment,
\* after the last of them was read, at which every declared member, notices
\* included, was the pinned one.  Members read at different times from
\* different installations are refused.
WholeAtOneMoment == Admitted => \E now \in after : now.whole

WasLinked(d) == \E now \in after : now.linked[d] = "here"
WasAbsent(s) == \E now \in after : s \notin now.strays

\* What was asked before reading was also so after it: the same receipt was in
\* the store, the name of every directory below the content root led to the one
\* that was read, and every undeclared name was absent, each at some moment of
\* its own since the last byte was read.  That the path leads to the content
\* root itself is only so when it is walked.
AuthorityOutlivesReading ==
    Admitted =>
        /\ \E now \in after : now.receipt = covering
        /\ \A d \in Directories : WasLinked(d)
        /\ \A s \in Undeclared : WasAbsent(s)

\* Exactly the native population is handed out, every one sealed with pinned
\* bytes, and nothing else is open then; once it is over, however and wherever it
\* ended, nothing at all is.
NothingLeftOpen ==
    /\ Admitted => DOMAIN descriptors = Kept /\ \A f \in Kept : descriptors[f] = "pinned"
    /\ i_pc \in {"admitted", "refused", "closed"} => handles = {}
    /\ i_pc \in {"refused", "closed"} => descriptors = << >>

-----------------------------------------------------------------------------
\* What holds between any two steps.
Preparing == {"start", "store", "require", "open", "tree", "check", "scan"}
Reading == {"members", "read"}
Checking == {"recheck", "rescan", "identities", "receipt", "rehash"}

InstalledTypeOK ==
    /\ content \in [Members -> {"pinned", "other", "missing"}]
    /\ identity \in [Members -> Nat]
    /\ changes \in Nat
    /\ i_pc \in Preparing \cup Reading \cup Checking \cup {"admitted", "closed", "refused"}
    /\ i_pc \in Reading \cup {"identities"} => todo \subseteq Members

\* A member whose identity is still the one it was read under is still the
\* pinned one, and no identity comes back.
ReadStands ==
    /\ i_pc \in Preparing => DOMAIN identities = {}
    /\ i_pc \in Reading => DOMAIN identities = Members \ todo
    /\ i_pc \in Checking => DOMAIN identities = Members
    /\ i_pc = "read" => copy \in todo /\ before \in Nat /\ before <= identity[copy]
    /\ i_pc \in Reading \cup Checking =>
          \A f \in DOMAIN identities :
              /\ identities[f] \in Nat /\ identities[f] <= identity[f]
              /\ identity[f] = identities[f] => content[f] = "pinned"

\* Once the reading is over, there has been a moment at which all was whole, or
\* there is a member that shows otherwise and has not been looked at again.
MomentStands ==
    /\ i_pc \in {"rescan", "identities"} =>
          \/ \E now \in after : now.whole
          \/ \E f \in Members : (i_pc = "identities" => f \in todo) /\ identities[f] # identity[f]
    /\ i_pc \in {"receipt", "rehash", "admitted"} => \E now \in after : now.whole

\* What has been looked at again since the last read was in order then.
AuthorityStands ==
    /\ \A d \in Directories :
          \/ i_pc = "recheck" /\ d \notin todo
          \/ i_pc \in {"rescan", "identities", "receipt", "rehash", "admitted"}
          => WasLinked(d)
    /\ \A s \in Undeclared :
          \/ i_pc = "rescan" /\ s \notin todo
          \/ i_pc \in {"identities", "receipt", "rehash", "admitted"}
          => WasAbsent(s)
    /\ i_pc \in {"rehash", "admitted"} => \E now \in after : now.receipt = covering

KeptStands ==
    /\ DOMAIN descriptors \subseteq Kept
    /\ i_pc \in {"start", "store"} => handles = {}

InstalledInv ==
    /\ InstalledTypeOK /\ ReadStands /\ MomentStands /\ AuthorityStands
    /\ KeptStands /\ NothingLeftOpen
=============================================================================
