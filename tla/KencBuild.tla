------------------------------ MODULE KencBuild ------------------------------
(***************************************************************************)
(* Building and publishing a converter (tools/build_converter.py on        *)
(* tools/converter_build_io.py): several builders of one profile share an  *)
(* output root and a cache of tool archives.  A builder reads its sources, *)
(* takes the tool archive from the cache or downloads it, packs a runtime  *)
(* archive in a private directory and publishes two names, the converter   *)
(* directory and the command, which it takes back when a later step fails: *)
(* it looks whether the entry is its own, and then removes what is there.  *)
(*                                                                         *)
(* Any step may raise, a removal too; a builder may be killed between two  *)
(* steps; anyone may edit the sources, put an entry of his own at a final  *)
(* name, or move the output root away.  The environment is the one that is *)
(* prepared from the lock, never one given with --environment.             *)
(***************************************************************************)
EXTENDS Integers, FiniteSets

CONSTANTS Builders,
          PinnedFiles,   \* sources and metadata packed with an expected digest
          LooseFiles,    \* the rest of the environment, packed as found
          MaxEdits,      \* bound on what others do to sources and root
          Other,         \* who made an entry that no builder made
          None

ASSUME BuildAssumption ==
    /\ Other \notin Builders /\ None \notin Builders \cup {Other}
    /\ PinnedFiles \cap LooseFiles = {}
    /\ MaxEdits \in Nat
    /\ None \notin [by : Builders \cup {Other}, holds : {"part", "whole", "wrong"}]

VARIABLES at,        \* builder -> its stage
          result,    \* builder -> running, built, failed or killed, or
                     \* stranded: it failed to clean up
          stop,      \* builder -> a signal came or the deadline passed
          root,      \* the output root is where it was: same, moved, or
                     \* moved and made again
          bin,       \* who made bin/ in the output root, or None
          target,    \* final name -> who made the entry, or None
          install,   \* builder -> its .converter-install directory is there
          tool,      \* builder -> curl or uv, or a child of theirs, runs
          cache,     \* the archive: None, or who wrote it and what it holds
          source,    \* file -> version: 0 is pinned, 2 has another size
          taken,     \* builder -> the archive it extracted
          sizes,     \* builder -> file -> size seen when it was added
          packed,    \* builder -> file -> version in runtime.tar, or None
          receipt,   \* builder -> file -> version in receipt.json, or None
          edits

vars == <<at, result, stop, root, bin, target, install, tool, cache, source, taken, sizes,
          packed, receipt, edits>>

Files == PinnedFiles \cup LooseFiles
Names == {"directory", "command"}
Size(version) == IF version = 2 THEN 2 ELSE 1
NoFiles == [f \in Files |-> None]

-----------------------------------------------------------------------------
\* checkpoint: nobody asks to stop, and every directory held is still the one
\* its path names.
Checkpoint(b) == ~ stop[b] /\ root = "same"

Init ==
    /\ at = [b \in Builders |-> "start"]
    /\ result = [b \in Builders |-> "running"]
    /\ stop = [b \in Builders |-> FALSE]
    /\ root = "same"
    /\ bin \in {None, Other}
    /\ target \in [Names -> {None, Other}]
    /\ target["command"] # None => bin # None
    /\ install = [b \in Builders |-> FALSE]
    /\ tool = [b \in Builders |-> FALSE]
    /\ cache \in {None, [by |-> Other, holds |-> "whole"], [by |-> Other, holds |-> "wrong"]}
    /\ source = [f \in Files |-> 0]
    /\ taken = [b \in Builders |-> None]
    /\ sizes = [b \in Builders |-> NoFiles]
    /\ packed = [b \in Builders |-> NoFiles]
    /\ receipt = [b \in Builders |-> NoFiles]
    /\ edits = 0

Goto(b, stage) == at' = [at EXCEPT ![b] = stage]

\* An exception: what was published is taken back, from stage undo on.
Raise(b, undo) == Goto(b, undo) /\ result' = [result EXCEPT ![b] = "failed"]

\* A removal raises: what is left to be cleaned up stays.
Strand(b) == Goto(b, "clean") /\ result' = [result EXCEPT ![b] = "stranded"]

\* The step succeeds, and the checkpoint after it too, or it raises.
Try(b, ok, next) ==
    \/ ok /\ Checkpoint(b) /\ Goto(b, next) /\ UNCHANGED result
    \/ Raise(b, "clean")

files == <<cache, source, taken, sizes, packed, receipt>>
seen == <<stop, root, bin, edits>>

\* Neither final name may exist; a directory of the builder's own is made.
Start(b) ==
    /\ at[b] = "start"
    /\ IF Checkpoint(b) /\ \A n \in Names : target[n] = None
       THEN /\ install' = [install EXCEPT ![b] = TRUE]
            /\ Goto(b, "pins") /\ UNCHANGED result
       ELSE Raise(b, "ended") /\ UNCHANGED install
    /\ UNCHANGED <<seen, target, tool, files>>

\* file_bytes of each source with its expected digest.
Pins(b) ==
    /\ at[b] = "pins"
    /\ Try(b, \A f \in PinnedFiles : source[f] = 0, "fetch")
    /\ UNCHANGED <<seen, target, install, tool, files>>

\* build_io.run: the tool's tree of processes is collected however run ends.
Launch(b) ==
    /\ at[b] \in {"fetch", "sync"}
    /\ at[b] = "fetch" => cache = None
    /\ tool' = [tool EXCEPT ![b] = TRUE]
    /\ Goto(b, IF at[b] = "fetch" THEN "curl" ELSE "uv")
    /\ UNCHANGED <<seen, result, target, install, files>>

\* reap_owned.
Collected(b) == tool' = [tool EXCEPT ![b] = FALSE]

ToolReturns(b) ==
    /\ at[b] \in {"curl", "uv"}
    /\ Collected(b)
    /\ Try(b, TRUE, IF at[b] = "curl" THEN "create" ELSE "collect")
    /\ UNCHANGED <<seen, target, install, files>>

UseCache(b) ==
    /\ at[b] = "fetch" /\ cache # None
    /\ Goto(b, "extract")
    /\ UNCHANGED <<seen, result, target, install, tool, files>>

\* A download that is not the pinned archive never reaches the cache; the
\* entry is created exclusively and written in place.
CreateEntry(b) ==
    /\ at[b] = "create"
    /\ \/ /\ Checkpoint(b) /\ cache = None
          /\ cache' = [by |-> b, holds |-> "part"]
          /\ Goto(b, "fill") /\ UNCHANGED result
       \/ Raise(b, "clean") /\ UNCHANGED cache
    /\ UNCHANGED <<seen, target, install, tool, source, taken, sizes, packed, receipt>>

\* Mutant of FillEntry: an entry that could not be completed stays.
FillEntryLeaving(b) ==
    /\ at[b] = "fill"
    /\ \/ /\ Checkpoint(b)
          /\ cache' = [cache EXCEPT !.holds = "whole"]
          /\ Goto(b, "extract") /\ UNCHANGED result
       \/ Raise(b, "clean") /\ UNCHANGED cache
    /\ UNCHANGED <<seen, target, install, tool, source, taken, sizes, packed, receipt>>

\* The rest is written, or the incomplete entry is removed, if it is still ours.
FillEntry(b) ==
    /\ at[b] = "fill"
    /\ \/ /\ Checkpoint(b)
          /\ cache' = [cache EXCEPT !.holds = "whole"]
          /\ Goto(b, "extract") /\ UNCHANGED result
       \/ /\ Raise(b, "clean")
          /\ cache' = IF cache.by = b THEN None ELSE cache
       \/ Strand(b) /\ UNCHANGED cache
    /\ UNCHANGED <<seen, target, install, tool, source, taken, sizes, packed, receipt>>

\* Only bytes with the pinned digest are extracted.
Extract(b) ==
    /\ at[b] = "extract"
    /\ \/ /\ Checkpoint(b) /\ cache # None /\ cache.holds = "whole"
          /\ taken' = [taken EXCEPT ![b] = cache.holds]
          /\ Goto(b, "sync") /\ UNCHANGED result
       \/ Raise(b, "clean") /\ UNCHANGED taken
    /\ UNCHANGED <<seen, target, install, tool, cache, source, sizes, packed, receipt>>

\* build: the pins again, then the population with the size of each file.
Collect(b) ==
    /\ at[b] = "collect"
    /\ Try(b, \A f \in PinnedFiles : source[f] = 0, "pack")
    /\ sizes' = [sizes EXCEPT ![b] = [f \in Files |-> Size(source[f])]]
    /\ UNCHANGED <<seen, target, install, tool, cache, source, taken, packed, receipt>>

\* Mutant of Packable: the pins were checked when the file was added.
PackableOnce(b, f) == Size(source[f]) = sizes[b][f]

\* The bytes handed to tarfile have the size that was seen and, of a pinned
\* file, the expected digest.
Packable(b, f) ==
    /\ Size(source[f]) = sizes[b][f]
    /\ f \in PinnedFiles => source[f] = 0

\* A file is read once, and what was read is archived and recorded.
Pack(b) ==
    /\ at[b] = "pack"
    /\ \/ \E f \in Files :
             /\ packed[b][f] = None /\ Checkpoint(b) /\ Packable(b, f)
             /\ packed' = [packed EXCEPT ![b][f] = source[f]]
             /\ receipt' = [receipt EXCEPT ![b][f] = source[f]]
             /\ UNCHANGED <<at, result>>
       \/ /\ \A f \in Files : packed[b][f] # None
          /\ Try(b, TRUE, "bin")
          /\ UNCHANGED <<packed, receipt>>
       \/ /\ \E f \in Files : packed[b][f] = None
          /\ Raise(b, "clean")
          /\ UNCHANGED <<packed, receipt>>
    /\ UNCHANGED <<seen, target, install, tool, cache, source, taken, sizes>>

\* Directory(..., create=True): bin/ is made where the path leads, together with
\* the output root if that has been moved.  The package is opened by the same
\* path, and the builder knows nothing of its own yet that it would take back.
MakeBin(b) ==
    /\ at[b] = "bin"
    /\ LET made == IF bin = None THEN b ELSE bin
       IN  \/ root = "same" /\ bin' = made /\ Goto(b, "rename") /\ UNCHANGED <<result, root>>
           \/ /\ Raise(b, "clean")
              /\ \/ UNCHANGED <<root, bin>>
                 \/ root = "same" /\ bin' = made /\ UNCHANGED root
                 \/ root # "same" /\ root' = "remade" /\ UNCHANGED bin
    /\ UNCHANGED <<stop, edits, target, install, tool, files>>

\* rename_new: the directory is published, unless the name is taken.
PublishDirectory(b) ==
    /\ at[b] = "rename"
    /\ \/ /\ target["directory"] = None
          /\ target' = [target EXCEPT !["directory"] = b]
          /\ Goto(b, "link") /\ UNCHANGED result
       \/ Raise(b, "look_first") /\ UNCHANGED target
    /\ UNCHANGED <<seen, install, tool, files>>

\* link, too, replaces nothing.
PublishCommand(b) ==
    /\ at[b] = "link"
    /\ \/ /\ target["command"] = None
          /\ target' = [target EXCEPT !["command"] = b]
          /\ Goto(b, "confirm") /\ UNCHANGED result
       \/ Raise(b, "look_first") /\ UNCHANGED target
    /\ UNCHANGED <<seen, install, tool, files>>

\* The root and the directory in it are still what was published.
Confirm(b) ==
    /\ at[b] = "confirm"
    /\ \/ /\ root = "same" /\ target["directory"] = b
          /\ Goto(b, "clean") /\ result' = [result EXCEPT ![b] = "built"]
       \/ Raise(b, "look_first")
    /\ UNCHANGED <<seen, target, install, tool, files>>

\* Mutant of UndoFirst: the directory goes first.
UndoFirstDirectory == "directory"
UndoFirst == "command"

\* The name that the rollback is at, and where it goes from there.
UndoName(b) ==
    IF at[b] \in {"look_first", "remove_first"} THEN UndoFirst
    ELSE CHOOSE n \in Names : n # UndoFirst
Beyond(b) == IF at[b] \in {"look_first", "remove_first"} THEN "look_last" ELSE "clean"

\* Mutant of Own: what stands at the name is taken to be the builder's.
OwnAny(b, n) == target[n] # None

\* stat of the name shows the inode that this builder has put there.
Own(b, n) == target[n] = b

LookBack(b) ==
    /\ at[b] \in {"look_first", "look_last"}
    /\ Goto(b, IF ~ Own(b, UndoName(b)) THEN Beyond(b)
               ELSE IF at[b] = "look_first" THEN "remove_first" ELSE "remove_last")
    /\ UNCHANGED <<seen, result, target, install, tool, files>>

\* unlink, or rmtree: by name, whatever has come to stand there since the look.
TakeBack(b) ==
    /\ at[b] \in {"remove_first", "remove_last"}
    /\ \/ /\ target' = [target EXCEPT ![UndoName(b)] = None]
          /\ Goto(b, Beyond(b)) /\ UNCHANGED result
       \/ Strand(b) /\ UNCHANGED target
    /\ UNCHANGED <<seen, install, tool, files>>

\* The outer finally: collect, and remove the install directory.
Clean(b) ==
    /\ at[b] = "clean"
    /\ Collected(b)
    /\ Goto(b, "ended")
    /\ \/ install' = [install EXCEPT ![b] = FALSE] /\ UNCHANGED result
       \/ result' = [result EXCEPT ![b] = "stranded"] /\ UNCHANGED install
    /\ UNCHANGED <<seen, target, files>>

Step(b) ==
    \/ Start(b) \/ Pins(b) \/ Launch(b) \/ ToolReturns(b) \/ UseCache(b)
    \/ CreateEntry(b) \/ FillEntry(b) \/ Extract(b) \/ Collect(b) \/ Pack(b)
    \/ MakeBin(b) \/ PublishDirectory(b) \/ PublishCommand(b) \/ Confirm(b)
    \/ LookBack(b) \/ TakeBack(b) \/ Clean(b)

-----------------------------------------------------------------------------
Stop(b) ==
    /\ ~ stop[b] /\ at[b] # "ended"
    /\ stop' = [stop EXCEPT ![b] = TRUE]
    /\ UNCHANGED <<at, result, root, bin, target, install, tool, files, edits>>

Kill(b) ==
    /\ at[b] # "ended"
    /\ Goto(b, "ended") /\ result' = [result EXCEPT ![b] = "killed"]
    /\ UNCHANGED <<seen, target, install, tool, files>>

EditSource ==
    /\ edits < MaxEdits /\ edits' = edits + 1
    /\ \E f \in Files, v \in 0..2 : v # source[f] /\ source' = [source EXCEPT ![f] = v]
    /\ UNCHANGED <<at, result, stop, root, bin, target, install, tool, cache, taken, sizes,
                   packed, receipt>>

\* Somebody's entry takes a final name, over what may stand there.
Substitute ==
    /\ edits < MaxEdits /\ edits' = edits + 1
    /\ \E n \in Names :
          /\ target' = [target EXCEPT ![n] = Other]
          /\ bin' = IF n = "command" /\ bin = None THEN Other ELSE bin
    /\ UNCHANGED <<at, result, stop, root, install, tool, files>>

MoveRoot ==
    /\ edits < MaxEdits /\ edits' = edits + 1
    /\ root' = "moved"
    /\ UNCHANGED <<at, result, stop, bin, target, install, tool, files>>

Next ==
    \/ \E b \in Builders : Step(b) \/ Stop(b) \/ Kill(b)
    \/ EditSource \/ Substitute \/ MoveRoot

Spec == Init /\ [][Next]_vars

-----------------------------------------------------------------------------
Removing(b, n) == at[b] \in {"remove_first", "remove_last"} /\ UndoName(b) = n

\* An entry goes only in the rollback of a builder that has found its own entry
\* at the name just before: then it goes, or what somebody has put over it in
\* between.  What another builder has published is never removed or replaced.
OnlyOwnIsTakenBack ==
    [][\A n \in Names : target[n] # None /\ target'[n] \notin {target[n], Other} =>
          /\ target'[n] = None
          /\ \E b \in Builders :
                Removing(b, n) /\ at'[b] # at[b] /\ target[n] \in {b, Other}]_vars

\* A command that can be started never lacks its runtime: while a builder's
\* command is there, so is its directory, whoever fails or is killed in between.
CommandHasItsRuntime ==
    \A b \in Builders : target["command"] = b => target["directory"] \in {b, Other}

\* What there is of a builder when it is over.
LeftBy(b) ==
    {n \in Names : target[n] = b}
    \cup {i \in {"install"} : install[b]} \cup {t \in {"tool"} : tool[b]}
    \cup {d \in {"bin"} : bin = b}
    \cup (IF cache # None /\ cache.by = b THEN {cache.holds} ELSE {})

\* A build that failed, and whose removals did not, leaves nothing of it but bin/
\* in the output root and a whole archive in the cache.
FailedLeavesOnlyBin ==
    \A b \in Builders :
        at[b] = "ended" /\ result[b] = "failed" => LeftBy(b) \subseteq {"bin", "whole"}

\* A build that succeeded packed the pinned bytes, recorded what it packed, and
\* used no archive but the pinned one, also while another builder writes it.
BuiltIsPinned ==
    \A b \in Builders :
        result[b] = "built" =>
            /\ \A f \in PinnedFiles : packed[b][f] = 0
            /\ packed[b] = receipt[b] /\ \A f \in Files : packed[b][f] # None
            /\ taken[b] = "whole"

-----------------------------------------------------------------------------
\* What holds between any two steps.
Unpublished == {"start", "pins", "fetch", "curl", "create", "fill", "extract", "sync",
                "uv", "collect", "pack", "bin", "rename"}
Publishing == {"link", "confirm"}
RollingBack == {"look_first", "remove_first", "look_last", "remove_last"}
Over == {"clean", "ended"}
Extracted == {"sync", "uv", "collect", "pack", "bin", "rename"} \cup Publishing

BuildTypeOK ==
    /\ at \in [Builders -> Unpublished \cup Publishing \cup RollingBack \cup Over]
    /\ result \in [Builders -> {"running", "built", "failed", "killed", "stranded"}]
    /\ target \in [Names -> Builders \cup {None, Other}]
    /\ install \in [Builders -> BOOLEAN] /\ tool \in [Builders -> BOOLEAN]
    /\ cache \in {None} \cup [by : Builders \cup {Other}, holds : {"part", "whole", "wrong"}]
    /\ source \in [Files -> 0..2]
    /\ taken \in [Builders -> {None, "whole"}]
    /\ packed \in [Builders -> [Files -> {None} \cup 0..2]]
    /\ receipt \in [Builders -> [Files -> {None} \cup 0..2]]

\* The result goes with the stage.
ResultStands(b) ==
    /\ at[b] \in Unpublished \cup Publishing => result[b] = "running"
    /\ at[b] \in RollingBack => result[b] = "failed"
    /\ at[b] = "clean" => result[b] \in {"failed", "built", "stranded"}
    /\ at[b] = "ended" => result[b] # "running"

\* Which of the two names a builder may hold, and that the command goes first.
NamesStand(b) ==
    /\ at[b] \in Unpublished => \A n \in Names : target[n] # b
    /\ at[b] \in Publishing => target["directory"] \in {b, Other}
    /\ at[b] \in {"link", "look_last", "remove_last"} => target["command"] # b
    /\ at[b] = "remove_first" => target["command"] \in {b, Other}
    /\ at[b] = "remove_last" => target["directory"] \in {b, Other}
    /\ at[b] \in Over /\ result[b] = "failed" => \A n \in Names : target[n] # b
    /\ target["command"] = b => target["directory"] \in {b, Other}

\* A builder's entry of the cache is whole but while it is being filled.
CacheStands(b) ==
    /\ at[b] = "fill" => cache # None /\ cache.by = b
    /\ cache # None /\ cache.by = b =>
          cache.holds = "whole" \/ at[b] = "fill" \/ result[b] \in {"killed", "stranded"}

ResourcesStand(b) ==
    /\ at[b] = "start" => ~ install[b] /\ ~ tool[b]
    /\ at[b] = "ended" /\ result[b] = "failed" => ~ install[b] /\ ~ tool[b]

\* What was packed is recorded, pinned and, from the rename on, everything.
PackedStands(b) ==
    /\ receipt[b] = packed[b]
    /\ \A f \in PinnedFiles : packed[b][f] \in {None, 0}
    /\ at[b] \in Extracted \/ result[b] = "built" => taken[b] = "whole"
    /\ at[b] \in {"bin", "rename"} \cup Publishing \/ result[b] = "built" =>
          \A f \in Files : packed[b][f] # None

Stands(b) ==
    ResultStands(b) /\ NamesStand(b) /\ CacheStands(b) /\ ResourcesStand(b) /\ PackedStands(b)

\* While one builder is about to remove what stands at a name, no other is, nor
\* has one published, or is publishing, what the removal would take.
OneRemoves ==
    \A b, c \in Builders : b # c =>
        /\ ~ (at[b] = "remove_first" /\ at[c] = "remove_first")
        /\ at[b] = "remove_last" =>
              at[c] \notin {"remove_last"} \cup Publishing /\ target["command"] # c

BuildInv == BuildTypeOK /\ OneRemoves /\ \A b \in Builders : Stands(b)
=============================================================================
