------------------------------ MODULE KencReader ------------------------------
(***************************************************************************)
(* kenc_file_reader (src/src/container.c): creation, which copies the file *)
(* into a sealed memfd and accepts or refuses the copy, and then playback  *)
(* from it.  Others may write the file while it is copied.                 *)
(***************************************************************************)
EXTENDS KencContainer

CONSTANTS Headers    \* the infos a header may hold

ASSUME ReaderAssumption ==
    \A info \in Headers : info.profile \in {"mono", "stereo"} /\ info.samples \in Nat

VARIABLES r_pc,        \* closed, header, copy, scan, ready
          r_size,      \* identity.st_size
          r_copied,    \* units read: of the header, then of the file
          r_info,      \* from the first header, before the copy
          r_snapshot,  \* the memfd
          r_index, r_position, r_offset,
          delivered,   \* history: the records next has returned since the
                       \* reader was ready or a seek has succeeded
          from         \* history: where that was

\* Where the reader stands in the copy, and what came out of it.
playVars == <<r_position, r_offset, delivered, from>>

readerVars == <<r_pc, r_size, r_copied, r_info, r_snapshot, r_index, playVars>>

diskVars == <<file, touched>>

NotRead == [profile |-> "none"]

ReaderInit ==
    /\ r_pc = "closed"
    /\ r_size = 0
    /\ r_copied = << >>
    /\ r_info = NotRead
    /\ r_snapshot = << >>
    /\ r_index = << >>
    /\ r_position = 0 /\ r_offset = 0
    /\ delivered = << >>
    /\ from = 0

\* done: the reader is freed, and the caller has an error.
Refuse ==
    /\ r_pc' = "closed"
    /\ r_size' = 0
    /\ r_copied' = << >>
    /\ r_info' = NotRead
    /\ r_snapshot' = << >>
    /\ r_index' = << >>
    /\ r_position' = 0 /\ r_offset' = 0
    /\ delivered' = << >>
    /\ from' = 0

\* kenc_file_reader_free
FreeReader ==
    /\ r_pc = "ready"
    /\ Refuse
    /\ UNCHANGED diskVars

-----------------------------------------------------------------------------
\* fstat
OpenReader ==
    /\ r_pc = "closed"
    /\ r_pc' = "header"
    /\ r_size' = Len(file)
    /\ touched' = "no"
    /\ UNCHANGED <<file, r_copied, r_info, r_snapshot, r_index, playVars>>

\* One unit of the file is read, or none is there (KENC_ERR_TRUNCATED).
ReadUnit(units) ==
    /\ Len(r_copied) < units
    /\ IF Len(r_copied) < Len(file)
       THEN /\ r_copied' = Append(r_copied, file[Len(r_copied) + 1])
            /\ UNCHANGED <<r_pc, r_size, r_info, r_snapshot, r_index, playVars>>
       ELSE Refuse
    /\ UNCHANGED diskVars

ReadHeader == r_pc = "header" /\ ReadUnit(HeaderUnits)

LargestFile(info) ==
    FirstOffset(info)
        + RecordsFor(info) * (1 + CHOOSE s \in Sizes : \A t \in Sizes : t <= s)

\* The header is parsed, and bounds what is going to be copied.
ParseHeader ==
    /\ r_pc = "header" /\ Len(r_copied) = HeaderUnits
    /\ \/ \E info \in Headers :
            /\ HeaderSays(r_copied, info)
            /\ r_size <= LargestFile(info)
            /\ r_info' = info
            /\ r_copied' = << >>
            /\ r_pc' = "copy"
            /\ UNCHANGED <<r_size, r_snapshot, r_index, playVars>>
       \/ /\ ~\E info \in Headers : HeaderSays(r_copied, info) /\ r_size <= LargestFile(info)
          /\ Refuse
    /\ UNCHANGED diskVars

\* snapshot_source: what it copies, it has been told the size of.
CopyUnit == r_pc = "copy" /\ ReadUnit(r_size)

\* Mutant of Unchanged: only the size is compared.
UnchangedSize == Len(file) = r_size

\* The file is the one it was, as far as its size and its stamps tell.
Unchanged == Len(file) = r_size /\ touched # "seen"

\* The copy is sealed, and nobody can write it any more.
Seal ==
    /\ r_pc = "copy" /\ Len(r_copied) = r_size
    /\ IF Unchanged
       THEN /\ r_snapshot' = r_copied
            /\ r_copied' = << >>
            /\ r_pc' = "scan"
            /\ UNCHANGED <<r_size, r_info, r_index, playVars>>
       ELSE Refuse
    /\ UNCHANGED diskVars

\* The copy is parsed from its own header, which has to be the first one again.
CopyAccepted == Accepts(r_snapshot, r_info)

\* ... to its end.
Scan ==
    /\ r_pc = "scan"
    /\ IF CopyAccepted
       THEN /\ r_pc' = "ready"
            /\ r_index' = [slot \in 0..IndexesFor(r_info) - 1 |->
                               r_snapshot[HeaderUnits + slot + 1]]
            /\ r_position' = 0
            /\ r_offset' = r_index'[0].offset
            /\ delivered' = << >>
            /\ from' = 0
            /\ UNCHANGED <<r_size, r_copied, r_info, r_snapshot>>
       ELSE Refuse
    /\ UNCHANGED diskVars

-----------------------------------------------------------------------------
\* Mutant of NextRecord: the record is read from the file, as if the reader had
\* kept the descriptor it was given.
NextRecordOnDisk ==
    /\ r_pc = "ready"
    /\ r_position < RecordsFor(r_info)
    /\ RecordThere(file, r_info, r_position, r_offset)
    /\ LET record == file[r_offset + 2].of
       IN  /\ delivered' = Append(delivered, record)
           /\ r_offset' = r_offset + record.size + 1
    /\ r_position' = r_position + 1
    /\ UNCHANGED <<r_pc, r_size, r_copied, r_info, r_snapshot, r_index, from, diskVars>>

\* kenc_file_reader_next, with room for the record.  Without it, and at the end,
\* nothing is assigned.
NextRecord ==
    /\ r_pc = "ready"
    /\ r_position < RecordsFor(r_info)
    /\ RecordThere(r_snapshot, r_info, r_position, r_offset)
    /\ LET record == r_snapshot[r_offset + 2].of
       IN  /\ delivered' = Append(delivered, record)
           /\ r_offset' = r_offset + record.size + 1
    /\ r_position' = r_position + 1
    /\ UNCHANGED <<r_pc, r_size, r_copied, r_info, r_snapshot, r_index, from, diskVars>>

\* The index entry a sample falls under.
SeekSlot(sample) ==
    sample \div (Stride * (IF r_info.profile = "mono" THEN EpochRecords ELSE 1))

\* kenc_file_reader_seek
Seek(sample) ==
    /\ r_pc = "ready"
    /\ sample < r_info.samples
    /\ r_position' = r_index[SeekSlot(sample)].record
    /\ r_offset' = r_index[SeekSlot(sample)].offset
    /\ delivered' = << >>
    /\ from' = sample
    /\ UNCHANGED <<r_pc, r_size, r_copied, r_info, r_snapshot, r_index, diskVars>>

SampleRange == 0..(IF r_pc = "ready" THEN r_info.samples - 1 ELSE 0)

\* kenc_file_reader_create, step by step
Opening ==
    \/ OpenReader \/ ReadHeader \/ ParseHeader
    \/ CopyUnit \/ Seal \/ Scan

ReaderNext ==
    \/ Opening
    \/ NextRecord
    \/ \E sample \in SampleRange : Seek(sample)
    \/ FreeReader

-----------------------------------------------------------------------------
(* Properties *)

\* The record a seek to this sample has to begin with: the nearest one at or
\* before it that can be decoded without what precedes it.
StartFor(info, sample) ==
    LET starts == {n \in 0..RecordsFor(info) - 1 : Indexed(info, n) /\ n * Stride <= sample}
    IN  CHOOSE n \in starts : \A m \in starts : m <= n

\* What next returns after a seek, or from the beginning, are the records of the
\* accepted copy in their order, from the start nearest to the sample, without
\* a gap; and the reader always stands exactly behind the one delivered last.
PlaysFromIndex ==
    r_pc = "ready" =>
        LET start == StartFor(r_info, from)
        IN  /\ r_position = start + Len(delivered)
            /\ r_offset = Offsets(r_snapshot, r_info)[r_position]
            /\ \A k \in 1..Len(delivered) :
                  delivered[k] = RecordAt(r_snapshot, r_info, start + k - 1)

-----------------------------------------------------------------------------
(* The inductive invariant of the reader *)

\* What it plays from is a copy that was accepted, with the index of the copy.
ReaderInv ==
    /\ OfUnits(r_copied) /\ OfUnits(r_snapshot)
    /\ r_pc \in {"copy", "scan", "ready"} => r_info \in Headers
    /\ r_pc = "ready" =>
          /\ Accepts(r_snapshot, r_info)
          /\ r_index = [slot \in 0..IndexesFor(r_info) - 1 |-> r_snapshot[HeaderUnits + slot + 1]]
          /\ from \in 0..r_info.samples - 1
          /\ r_position \in 0..RecordsFor(r_info)
          /\ delivered \in Seq({RecordAt(r_snapshot, r_info, n) : n \in 0..RecordsFor(r_info) - 1})
    /\ PlaysFromIndex
=============================================================================
