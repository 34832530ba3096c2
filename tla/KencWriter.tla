------------------------------ MODULE KencWriter ------------------------------
(***************************************************************************)
(* kenc_file_writer (src/src/container.c).  A write may stop anywhere and  *)
(* return an error, after which the caller may try again, with something   *)
(* else or not at all; or the process ends, and nothing more happens.      *)
(***************************************************************************)
EXTENDS KencContainer

CONSTANT Infos         \* what the caller may declare

ASSUME WriterAssumption ==
    \A info \in Infos : info.profile \in {"mono", "stereo"} /\ info.samples \in Nat

VARIABLES w_info,      \* NoInfo until the writer exists
          w_position, w_offset, w_index, w_finished,
          w_pc,        \* idle, append or finish
          w_record,    \* what is being appended
          w_at,        \* how much of it transfer has written
          appended     \* history: what append has returned KENC_OK for

NoInfo == [profile |-> "none"]
NoRecord == [profile |-> "none"]

writerVars == <<w_info, w_position, w_offset, w_index, w_finished,
                w_pc, w_record, w_at, appended>>

WriterInit ==
    /\ w_info = NoInfo
    /\ w_position = 0 /\ w_offset = 0
    /\ w_index = << >>
    /\ w_finished = FALSE
    /\ w_pc = "idle"
    /\ w_record = NoRecord
    /\ w_at = 0
    /\ appended = << >>

\* kenc_file_writer_create_epoch_start, of an empty file
CreateWriter(info) ==
    /\ w_info = NoInfo
    /\ file = << >>
    /\ ValidInfo(info)
    /\ w_info' = info
    /\ w_index' = [slot \in 0..IndexesFor(info) - 1 |-> IndexUnit(0, 0)]
    /\ w_offset' = FirstOffset(info)
    /\ UNCHANGED <<w_position, w_finished, w_pc, w_record, w_at, appended, file, touched>>

Writing == w_info # NoInfo /\ ~w_finished

\* kenc_file_writer_append, up to its first write
AppendRecord(record) ==
    /\ Writing /\ w_pc = "idle"
    /\ w_position < RecordsFor(w_info)
    /\ ValidRecord(w_info, w_position, record)
    /\ w_index' = IF Indexed(w_info, w_position)
                  THEN [w_index EXCEPT ![IndexSlot(w_info, w_position)] =
                            IndexUnit(w_position, w_offset)]
                  ELSE w_index
    /\ w_record' = record
    /\ w_at' = 0
    /\ w_pc' = "append"
    /\ UNCHANGED <<w_info, w_position, w_offset, w_finished, appended, file, touched>>

\* transfer, unit by unit
Transfer(offset, unit) ==
    /\ file' = WriteAt(file, offset, unit)
    /\ Stamped
    /\ w_at' = w_at + 1
    /\ UNCHANGED <<w_info, w_position, w_offset, w_index, w_finished, w_pc, w_record, appended>>

AppendUnit ==
    /\ w_pc = "append" /\ w_at <= w_record.size
    /\ Transfer(w_offset + w_at,
            IF w_at = 0 THEN LengthUnit(w_record.size) ELSE RecordUnit(w_record, w_at))

Idle == w_pc' = "idle" /\ w_record' = NoRecord /\ w_at' = 0

\* Both writes are through: only now does the writer move on.
AppendReturns ==
    /\ w_pc = "append" /\ w_at = w_record.size + 1
    /\ w_position' = w_position + 1
    /\ w_offset' = w_offset + w_record.size + 1
    /\ appended' = Append(appended, w_record)
    /\ Idle
    /\ UNCHANGED <<w_info, w_index, w_finished, file, touched>>

\* No space, an I/O error: what was written stays.
TransferFails ==
    /\ w_pc \in {"append", "finish"}
    /\ Idle
    /\ UNCHANGED <<w_info, w_position, w_offset, w_index, w_finished, appended, file, touched>>

\* Mutant of Finish: the size of the file is not looked at.
FinishAnySize ==
    /\ Writing /\ w_pc = "idle"
    /\ w_position = RecordsFor(w_info)
    /\ w_at' = 0
    /\ w_pc' = "finish"
    /\ UNCHANGED <<w_info, w_position, w_offset, w_index, w_finished, w_record,
                   appended, file, touched>>

\* kenc_file_writer_finish: all records are there, and nothing behind them.
Finish ==
    /\ Writing /\ w_pc = "idle"
    /\ w_position = RecordsFor(w_info)
    /\ Len(file) = w_offset
    /\ w_at' = 0
    /\ w_pc' = "finish"
    /\ UNCHANGED <<w_info, w_position, w_offset, w_index, w_finished, w_record,
                   appended, file, touched>>

\* Mutant of FinishUnit: the header goes first.
FinishHeaderFirst ==
    /\ w_pc = "finish" /\ w_at < FirstOffset(w_info)
    /\ Transfer(w_at, IF w_at < HeaderUnits THEN HeaderUnit(w_info, w_at + 1)
                      ELSE w_index[w_at - HeaderUnits])

\* The index, and the header last.
FinishUnit ==
    /\ w_pc = "finish" /\ w_at < FirstOffset(w_info)
    /\ IF w_at < IndexesFor(w_info)
       THEN Transfer(HeaderUnits + w_at, w_index[w_at])
       ELSE LET k == w_at - IndexesFor(w_info)
            IN  Transfer(k, HeaderUnit(w_info, k + 1))

FinishReturns ==
    /\ w_pc = "finish" /\ w_at = FirstOffset(w_info)
    /\ w_finished' = TRUE
    /\ Idle
    /\ UNCHANGED <<w_info, w_position, w_offset, w_index, appended, file, touched>>

CallerRecords ==
    MonoRecords(0..RecordsFor(w_info)) \cup StereoRecords

WriterNext ==
    \/ \E info \in Infos : CreateWriter(info)
    \/ w_info # NoInfo /\ \E record \in CallerRecords : AppendRecord(record)
    \/ AppendUnit \/ AppendReturns
    \/ Finish \/ FinishUnit \/ FinishReturns
    \/ TransferFails

-----------------------------------------------------------------------------
\* The records of a file that the reader would accept.
RecordsIn(f, info) == [n \in 1..RecordsFor(info) |-> RecordAt(f, info, n - 1)]

-----------------------------------------------------------------------------
(* The inductive invariant of the writer *)

\* So many units of a record are in the file, from its length on.
WrittenAt(f, record, offset, units) ==
    /\ units > 0 => offset + units <= Len(f) /\ f[offset + 1] = LengthUnit(record.size)
    /\ \A k \in 1..units - 1 : f[offset + 1 + k] = RecordUnit(record, k)

\* Every appended record is whole at its place, one behind the other, and the
\* index in memory has the place of those that begin something.
AppendedStands(place) ==
    /\ place[0] = FirstOffset(w_info) /\ place[w_position] = w_offset
    /\ \A n \in 0..w_position - 1 :
          LET record == appended[n + 1]
          IN  /\ ValidRecord(w_info, n, record)
              /\ place[n + 1] = place[n] + record.size + 1
              /\ place[n + 1] <= w_offset
              /\ WrittenAt(file, record, place[n], record.size + 1)
              /\ Indexed(w_info, n) => w_index[IndexSlot(w_info, n)] = IndexUnit(n, place[n])

\* The record that is being appended is there as far as it was written.
AppendStands ==
    w_pc = "append" =>
        /\ w_position < RecordsFor(w_info)
        /\ w_record \in MonoRecords(Nat) \cup StereoRecords
        /\ ValidRecord(w_info, w_position, w_record)
        /\ w_at <= w_record.size + 1
        /\ WrittenAt(file, w_record, w_offset, w_at)
        /\ Indexed(w_info, w_position) =>
              w_index[IndexSlot(w_info, w_position)] = IndexUnit(w_position, w_offset)

\* All is appended, and the file has nothing else behind its first records.
Appended == w_position = RecordsFor(w_info) /\ Len(file) = w_offset

\* The index on disk is the one in memory, as far as it was written.
FinishStands ==
    w_pc = "finish" =>
        /\ Appended
        /\ w_at <= FirstOffset(w_info)
        /\ \A slot \in 0..IndexesFor(w_info) - 1 :
              slot < w_at => file[HeaderUnits + slot + 1] = w_index[slot]

\* A unit of a header is in the file only when all the rest of the file is, and
\* it is one of this writer's.
HeaderStands ==
    \A k \in 1..HeaderUnits :
        k <= Len(file) /\ file[k].is = "header" =>
            /\ file[k] = HeaderUnit(w_info, k)
            /\ Appended
            /\ \A slot \in 0..IndexesFor(w_info) - 1 : file[HeaderUnits + slot + 1] = w_index[slot]

WriterTypeOK ==
    /\ OfUnits(file)
    /\ w_pc \in {"idle", "append", "finish"}
    /\ w_at \in Nat
    /\ appended \in Seq(MonoRecords(Nat) \cup StereoRecords)
    /\ w_info = NoInfo => file = << >> /\ w_pc = "idle" /\ w_position = 0 /\ appended = << >>
    /\ w_info # NoInfo =>
          /\ w_info \in Infos /\ ValidInfo(w_info)
          /\ w_position \in 0..RecordsFor(w_info) /\ w_position = Len(appended)
          /\ w_offset \in Nat /\ w_offset >= FirstOffset(w_info)
          /\ w_index = [slot \in 0..IndexesFor(w_info) - 1 |-> w_index[slot]]
          /\ \A slot \in 0..IndexesFor(w_info) - 1 : w_index[slot].is = "index"

WriterInv ==
    /\ WriterTypeOK
    /\ w_info # NoInfo =>
          /\ \E place \in [0..w_position -> FirstOffset(w_info)..w_offset] : AppendedStands(place)
          /\ AppendStands /\ FinishStands /\ HeaderStands
=============================================================================
