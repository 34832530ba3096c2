----------------------------- MODULE KencCommand -----------------------------
(***************************************************************************)
(* kenc encode and kenc decode (tools/file_command.c): several of them at  *)
(* once on the same paths, while others create and remove the output path  *)
(* and write the input.  A command may be killed anywhere, and the power   *)
(* may fail.                                                               *)
(*                                                                         *)
(* Records and header stand for those of a packet file or a WAV file; how  *)
(* a write tears a record, and how a decoder copies its input, is what     *)
(* KencWriter and KencReader are about.  A version of the input shows in   *)
(* its size and time stamps.  The commands synchronize the file and never  *)
(* its directory, so that the disk may hold any earlier entry of it.       *)
(***************************************************************************)
EXTENDS Integers, Sequences

CONSTANTS Encoders, Decoders, \* the commands
          Records,            \* of the input
          HeaderUnits,
          MaxVersion,         \* bound: how often the input is written
          MaxOthers           \* bound: how often others create the output path

ASSUME CommandAssumption ==
    /\ Encoders \cap Decoders = {}
    /\ Records \in Nat \ {0} /\ HeaderUnits \in Nat \ {0}
    /\ MaxVersion \in Nat /\ MaxOthers \in Nat

VARIABLES input,   \* the version of the input file
          path,    \* what the output path names: none, other, or a command's file
          entries, \* what it has named, which the directory on disk may still say
          files,   \* the files that the commands have created, by command
          others,  \* how often others have created the path, and with
                   \* what the commands have left there since
          c_pc, c_seen, c_result,
          power    \* it has not failed

commandVars == <<input, path, entries, files, others, c_pc, c_seen, c_result, power>>

Commands == Encoders \cup Decoders

\* A new file.  `synced` says that fsync has returned for all there is in it.
Empty == [body |-> << >>, header |-> 0, synced |-> FALSE]

CommandInit ==
    /\ input = 0
    /\ path \in {"none", "other"}
    /\ entries = {path}
    /\ files = << >>
    /\ others = [made |-> 0, content |-> "theirs"]
    /\ c_pc = [c \in Commands |-> "open"]
    /\ c_seen = [c \in Commands |-> 0]
    /\ c_result = [c \in Commands |-> "none"]
    /\ power = TRUE

\* The output path names another file, or none.
PathNames(f) == path' = f /\ entries' = entries \cup {f}

-----------------------------------------------------------------------------
(* The others *)

WriteInput ==
    /\ input < MaxVersion
    /\ input' = input + 1
    /\ UNCHANGED <<path, entries, files, others, c_pc, c_seen, c_result, power>>

OthersCreate ==
    /\ path = "none" /\ others.made < MaxOthers
    /\ PathNames("other")
    /\ others' = [made |-> others.made + 1, content |-> "theirs"]
    /\ UNCHANGED <<input, files, c_pc, c_seen, c_result, power>>

OthersRemove ==
    /\ path # "none"
    /\ PathNames("none")
    /\ UNCHANGED <<input, files, others, c_pc, c_seen, c_result, power>>

Unended(c) == c_pc[c] # "ended"

Kill(c) ==
    /\ Unended(c)
    /\ c_pc' = [c_pc EXCEPT ![c] = "ended"]
    /\ c_result' = [c_result EXCEPT ![c] = "killed"]
    /\ UNCHANGED <<input, path, entries, files, others, c_seen, power>>

Torn(f, n, h) == [f EXCEPT !.body = SubSeq(@, 1, n), !.header = h]

\* Of a file that has not been synchronized any part of the header and any of
\* the records at the beginning remain.
Remains(f) ==
    IF f.synced THEN {f}
    ELSE {Torn(f, n, h) : n \in 0..Len(f.body), h \in 0..f.header}

\* The path names one of those it had, and what it does not name is gone.
PowerFails ==
    /\ power
    /\ power' = FALSE
    /\ path' \in entries
    /\ files' \in {g \in [DOMAIN files \cap {path'} -> UNION {Remains(files[c]) : c \in DOMAIN files}] :
                      \A c \in DOMAIN g : g[c] \in Remains(files[c])}
    /\ c_pc' = [c \in Commands |-> "ended"]
    /\ c_result' = [c \in Commands |-> IF Unended(c) THEN "killed" ELSE c_result[c]]
    /\ UNCHANGED <<input, entries, others, c_seen>>

-----------------------------------------------------------------------------
(* A command *)

At(c, where) == c_pc[c] = where /\ UNCHANGED <<input, power>>
Goto(c, where) == c_pc' = [c_pc EXCEPT ![c] = where]

\* Exit status 1.  The output stays as it is, and where it is.
Fails(c) ==
    /\ Goto(c, "ended")
    /\ c_result' = [c_result EXCEPT ![c] = "failure"]
    /\ UNCHANGED <<path, entries, files, others, c_seen>>

\* Anything before the output is created: the options, the input, the models.
Refuse(c) == At(c, "open") /\ Fails(c)

\* read_wave looks at the input, kenc_file_source_create copies it.
OpenInput(c) ==
    /\ At(c, "open")
    /\ c_seen' = [c_seen EXCEPT ![c] = input]
    /\ Goto(c, "create")
    /\ UNCHANGED <<path, entries, files, others, c_result>>

\* Mutant of CreateOutput: an existing file is opened and cut to nothing.
CreateOrTruncate(c) ==
    /\ At(c, "create")
    /\ IF path = "none"
       THEN /\ PathNames(c)
            /\ files' = [d \in DOMAIN files \cup {c} |-> IF d = c THEN Empty ELSE files[d]]
            /\ Goto(c, "record")
            /\ UNCHANGED <<others, c_seen, c_result>>
       ELSE /\ others' = IF path = "other" THEN [others EXCEPT !.content = "cut"] ELSE others
            /\ files' = [d \in DOMAIN files |-> IF d = path THEN Empty ELSE files[d]]
            /\ Goto(c, "ended")
            /\ UNCHANGED <<path, entries, c_seen, c_result>>

\* O_CREAT | O_EXCL
CreateOutput(c) ==
    /\ At(c, "create")
    /\ IF path = "none"
       THEN /\ PathNames(c)
            /\ files' = [d \in DOMAIN files \cup {c} |-> IF d = c THEN Empty ELSE files[d]]
            /\ Goto(c, "record")
            /\ UNCHANGED <<others, c_seen, c_result>>
       ELSE Fails(c)

Put(c, file) == files' = [files EXCEPT ![c] = file]

\* What a write or fsync makes of a file.
WithRecord(f, version) == [f EXCEPT !.body = Append(@, version), !.synced = FALSE]
WithHeader(f) == [f EXCEPT !.header = @ + 1, !.synced = FALSE]
Synchronized(f) == [f EXCEPT !.synced = TRUE]

\* What a record is made from: the input as it is now, or the copy of it.
Source(c) == IF c \in Encoders THEN input ELSE c_seen[c]

WriteRecord(c) ==
    /\ At(c, "record") /\ Len(files[c].body) < Records
    /\ Put(c, WithRecord(files[c], Source(c)))
    /\ UNCHANGED <<path, entries, others, c_pc, c_seen, c_result>>

\* Mutant of InputUnchanged: it is not looked at again.
InputWasRead(c) == TRUE

\* input_unchanged
InputUnchanged(c) == c \in Decoders \/ input = c_seen[c]

EndRecords(c) ==
    /\ At(c, "record") /\ Len(files[c].body) = Records
    /\ IF InputUnchanged(c)
       THEN Goto(c, "header") /\ UNCHANGED <<path, entries, files, others, c_seen, c_result>>
       ELSE Fails(c)

\* The header is written last.
WriteHeader(c) ==
    /\ At(c, "header") /\ files[c].header < HeaderUnits
    /\ Put(c, WithHeader(files[c]))
    /\ UNCHANGED <<path, entries, others, c_pc, c_seen, c_result>>

\* A read, an inference or a write fails.
GivesUp(c) == (At(c, "record") \/ At(c, "header")) /\ Fails(c)

\* Mutant of Sync: left to the operating system.
SyncLater(c) ==
    /\ At(c, "header") /\ files[c].header = HeaderUnits
    /\ Goto(c, "close")
    /\ UNCHANGED <<path, entries, files, others, c_seen, c_result>>

\* fsync
Sync(c) ==
    /\ At(c, "header") /\ files[c].header = HeaderUnits
    /\ Put(c, Synchronized(files[c]))
    /\ Goto(c, "close")
    /\ UNCHANGED <<path, entries, others, c_seen, c_result>>

SyncFails(c) ==
    /\ At(c, "header") /\ files[c].header = HeaderUnits
    /\ Fails(c)

\* close, and exit status 0 ...
Close(c) ==
    /\ At(c, "close")
    /\ Goto(c, "ended")
    /\ c_result' = [c_result EXCEPT ![c] = "success"]
    /\ UNCHANGED <<path, entries, files, others, c_seen>>

\* ... or an error of close.
CloseFails(c) == At(c, "close") /\ Fails(c)

Proceed(c) ==
    \/ Refuse(c) \/ OpenInput(c) \/ CreateOutput(c)
    \/ WriteRecord(c) \/ EndRecords(c) \/ WriteHeader(c) \/ GivesUp(c)
    \/ Sync(c) \/ SyncFails(c) \/ Close(c) \/ CloseFails(c)

CommandNext ==
    \/ power /\ \E c \in Commands : Proceed(c) \/ Kill(c)
    \/ WriteInput \/ OthersCreate \/ OthersRemove
    \/ PowerFails

CommandSpec == CommandInit /\ [][CommandNext]_commandVars

-----------------------------------------------------------------------------
(* Properties *)

Readable(c) == c \in DOMAIN files /\ files[c].header = HeaderUnits

\* All the records, and all of the input as it was at one time.
Whole(c) == \E version \in 0..MaxVersion : files[c].body = [k \in 1..Records |-> version]

\* "The complete header is written last and synchronized on success"
\* (README.md): an exit status of 0 means that the file this command has
\* created holds the whole of one version of its input.  A power failure from
\* then on may take the file, whose name has not been synchronized, but leaves
\* no part of it.
SuccessIsWhole ==
    \A c \in Commands : c_result[c] = "success" =>
        /\ power => c \in DOMAIN files
        /\ c \in DOMAIN files => Readable(c) /\ files[c].body = [k \in 1..Records |-> c_seen[c]]

\* "A failed conversion retains its newly created incomplete output"
\* (README.md): wherever a command fails or is killed, its file does not read
\* unless it is whole, though it may be whole when all that has failed is fsync
\* or close.  A power failure before the end promises nothing.
IncompleteDoesNotRead ==
    \A c \in Commands : power /\ Readable(c) => Whole(c)

\* "Existing outputs are preserved with exclusive creation ... no path is
\* deleted" (README.md): no command touches what others have put there, nor the
\* file of another command, though each may find the path free before the other
\* creates it.
ExistingPreserved ==
    [][\A c \in Commands : Proceed(c) =>
          /\ others' = others
          /\ \A d \in DOMAIN files \ {c} : files'[d] = files[d]
          /\ path' # path => path = "none" /\ path' = c]_commandVars

-----------------------------------------------------------------------------
(* The inductive invariant *)

FileType == [body : Seq(Nat), header : 0..HeaderUnits, synced : BOOLEAN]

\* The ranges of the variables.
CommandTypeOK ==
    /\ input \in 0..MaxVersion
    /\ DOMAIN files \subseteq Commands
    /\ \A c \in DOMAIN files : files[c] \in FileType
    /\ c_pc \in [Commands -> {"open", "create", "record", "header", "close", "ended"}]
    /\ c_seen \in [Commands -> 0..MaxVersion]
    /\ c_result \in [Commands -> {"none", "success", "failure", "killed"}]
    /\ power \in BOOLEAN

Created(c) == c \in DOMAIN files

\* What a successful end leaves.
BodyWhole(c) == files[c].body = [k \in 1..Records |-> c_seen[c]]
Finished(c) == Created(c) /\ files[c].header = HeaderUnits /\ files[c].synced /\ BodyWhole(c)

\* A version of the input that a record of c may have been made from: no older
\* than the one it looked at first, and that one if it has a copy.
MadeFrom(c) == IF c \in Encoders THEN c_seen[c]..input ELSE {c_seen[c]}

\* Where a command stands: its file is there from its creation on, is whole
\* before there is any of its header, and synchronized before it is closed; that
\* is what is left of a success, if anything is.
Stands(c) ==
    /\ c_seen[c] <= input
    /\ c_pc[c] \in {"open", "create"} => ~Created(c)
    /\ c_pc[c] \in {"record", "header", "close"} => Created(c)
    /\ c_pc[c] = "close" => Finished(c)
    /\ c_result[c] = "success" => c_pc[c] = "ended" /\ (power \/ Created(c) => Finished(c))
    /\ ~power => c_pc[c] = "ended"
    /\ power /\ Created(c) =>
          /\ Len(files[c].body) <= Records
          /\ \A k \in 1..Len(files[c].body) : files[c].body[k] \in MadeFrom(c)
          /\ files[c].header > 0 \/ c_pc[c] = "header" => BodyWhole(c)

CommandInv == CommandTypeOK /\ \A c \in Commands : Stands(c)
=============================================================================
