------------------------------- MODULE KencFile -------------------------------
(***************************************************************************)
(* A reader opens a file, again and again if it has to, and plays and      *)
(* seeks in what it has accepted.  The file is one that a writer of this   *)
(* library is making, or one that was there, and that other programs       *)
(* overwrite, extend and cut short, while it is copied and while it plays. *)
(***************************************************************************)
EXTENDS KencWriter, KencReader

CONSTANTS Versions,    \* the whole files that other programs write
          MaxWrites    \* bound: changes that they make

ASSUME VersionsAssumption ==
    (\A version \in Versions : OfUnits(version)) /\ MaxWrites \in Nat

VARIABLES maker,     \* of the file: writer or others
          writes,
          opened,    \* history: the file at the first fstat of the reader
          blurred    \* history: while it was copied, a change has left the
                     \* stamps as they were

fileVars == <<file, touched, writerVars, readerVars, maker, writes, opened, blurred>>

FileInit ==
    /\ \/ maker = "writer" /\ file = << >>
       \/ maker = "others" /\ file \in Versions
    /\ touched = "no"
    /\ WriterInit
    /\ ReaderInit
    /\ writes = 0
    /\ opened = << >>
    /\ blurred = FALSE

Blurs == blurred' = (blurred \/ (r_pc \in {"header", "copy"} /\ touched' = "hidden"))

WriterActs ==
    /\ maker = "writer" /\ WriterNext /\ Blurs
    /\ UNCHANGED <<readerVars, maker, writes, opened>>

\* Another program leaves the file like this.
Others(units) ==
    /\ maker = "others"
    /\ writes < MaxWrites /\ writes' = writes + 1
    /\ file' = units
    /\ Stamped /\ Blurs
    /\ UNCHANGED <<readerVars, writerVars, maker, opened>>

\* A unit of another version is written at its place, perhaps past the end.
Overwrite ==
    \E version \in Versions : \E k \in DOMAIN version :
        Others(WriteAt(file, k - 1, version[k]))

Cut == \E n \in 0..Len(file) - 1 : Others([k \in 1..n |-> file[k]])

\* What a step of the reader does to the history.
Follows ==
    /\ opened' = IF r_pc = "closed" THEN file ELSE IF r_pc' = "closed" THEN << >> ELSE opened
    /\ blurred' = IF r_pc = "closed" \/ r_pc' = "closed" THEN FALSE ELSE blurred
    /\ UNCHANGED <<writerVars, maker, writes>>

FileNext == WriterActs \/ Overwrite \/ Cut \/ (ReaderNext /\ Follows)

OpeningStep == Opening /\ Follows

\* A call of kenc_file_reader_create runs to its end, and is made again after
\* an error.  Nothing is asked of the writer.
FileSpec == FileInit /\ [][FileNext]_fileVars /\ WF_fileVars(OpeningStep)

-----------------------------------------------------------------------------
(* Properties *)

\* A file of this library's writer that says it is complete is complete: at
\* whatever point the writer stopped, and however often it had to try again, a
\* header that reads back is that of the writer, and behind it are exactly the
\* appended records, found where the index says.
CompleteOrUnreadable ==
    maker = "writer" =>
        \A info \in Infos : HeaderSays(file, info) =>
            /\ info = w_info
            /\ Accepts(file, info)
            /\ RecordsIn(file, info) = appended

HasAll ==
    /\ r_info = w_info
    /\ RecordsIn(r_snapshot, r_info) = appended
    /\ Len(appended) = RecordsFor(w_info)

\* A file of this writer that is accepted has all that was appended, also when it
\* is accepted while finish is under way.
AcceptedHasAll == maker = "writer" /\ r_pc = "ready" => HasAll

\* ... and once finish has returned KENC_OK the file is accepted, whatever failed
\* on the way there and whatever a reader that came too early was told.
ReadWholeInTheEnd == []AcceptedHasAll /\ (w_finished ~> r_pc = "ready")

\* What a reader plays from is the file as it was at one moment, that of its
\* first fstat, however the file was written, extended or cut while its header
\* and its records were read, and whatever becomes of it afterwards.  What no look
\* can tell is left out: a change of the same size that leaves the time stamps as
\* they are.  Then the copy may be a mixture, and PlaysFromIndex says that what
\* is played is still the accepted copy.
CopyIsOfOneMoment == r_pc = "ready" /\ ~blurred => r_snapshot = opened

-----------------------------------------------------------------------------
(* The inductive invariant of the two *)

\* A header unit stays in the writer's file, so a reader that has read a whole
\* header has found a file that nobody changes any more; what it copies is that
\* file.
CopyStands ==
    /\ r_pc = "closed" => r_copied = << >>
    /\ r_pc = "header" =>
          /\ Len(r_copied) <= HeaderUnits
          /\ \A k \in 1..Len(r_copied) :
                r_copied[k].is = "header" => k <= Len(file) /\ file[k] = r_copied[k]
    /\ r_pc \in {"copy", "scan", "ready"} => HeaderSays(file, r_info)
    /\ r_pc = "copy" =>
          /\ Len(r_copied) <= Len(file)
          /\ \A k \in 1..Len(r_copied) : r_copied[k] = file[k]
    /\ r_pc \in {"scan", "ready"} => r_snapshot = file

\* As long as no change can be seen and none was hidden, any file is the one that
\* was opened, and what was read of it is a part of that.
CopyIsSoFar ==
    /\ touched \in {"no", "seen", "hidden"}
    /\ r_pc = "closed" => r_copied = << >>
    /\ r_pc \in {"header", "copy"} =>
          /\ touched = "no" => file = opened
          /\ touched = "hidden" => blurred
          /\ touched = "no" => Len(r_copied) <= Len(file)
          /\ touched = "no" => \A k \in 1..Len(r_copied) : r_copied[k] = file[k]
          /\ touched = "no" => r_size = Len(file)
    /\ r_pc \in {"scan", "ready"} /\ ~blurred => r_snapshot = opened

FileInv ==
    /\ OfUnits(file) /\ ReaderInv /\ CopyIsSoFar
    /\ maker = "writer" => WriterInv /\ CopyStands
=============================================================================
