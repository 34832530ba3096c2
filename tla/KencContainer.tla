---------------------------- MODULE KencContainer ----------------------------
(***************************************************************************)
(* The packet file of FILE-FORMAT.md as src/src/container.c writes and     *)
(* reads it: a header, an index, and records behind their lengths.         *)
(*                                                                         *)
(* A file is a sequence of units, each the least a write may leave behind  *)
(* when it stops in the middle: HeaderUnits of them for the header, one    *)
(* for an index entry, one for the length of a record, and as many for the *)
(* record as its size.  Offsets count units.                               *)
(***************************************************************************)
EXTENDS Integers, Sequences, FiniteSets

CONSTANTS Stride,        \* samples a record stands for
          EpochRecords,  \* 25: mono records from one RESET to the next
          HeaderUnits,
          Sizes,         \* of a record
          Tokens,        \* what tells records apart besides their headers
          HiddenWrites   \* a write may leave the time stamps as they are: the
                         \* clock of the file system has not ticked since

ASSUME ContainerAssumption ==
    /\ Stride \in Nat \ {0}
    /\ EpochRecords \in Nat \ {0}
    /\ HeaderUnits \in Nat \ {0}
    /\ Sizes \subseteq Nat \ {0}
    /\ HiddenWrites \in BOOLEAN

VARIABLES file,     \* the units of the file on disk
          touched   \* since the reader looked at it: no, seen (st_mtime or
                    \* st_ctime is not what it was) or hidden

\* kenc_file_info and the epoch-start marker.  Live framing is never opened.
ValidInfo(info) ==
    /\ info.samples > 0
    /\ info.epoch_start # "C0" => info.profile = "mono"

RecordsFor(info) ==
    info.samples \div Stride + (IF info.samples % Stride # 0 THEN 1 ELSE 0)

IndexesFor(info) ==
    IF info.profile = "mono"
    THEN (RecordsFor(info) + EpochRecords - 1) \div EpochRecords
    ELSE RecordsFor(info)

\* The record at this position has an index entry, and which one.
Indexed(info, position) == info.profile = "stereo" \/ position % EpochRecords = 0
IndexSlot(info, position) ==
    IF info.profile = "mono" THEN position \div EpochRecords ELSE position

FirstOffset(info) == HeaderUnits + IndexesFor(info)

-----------------------------------------------------------------------------
\* What a unit can be.  A hole is what a file grows by when it is written past
\* its end.
Hole == [is |-> "hole"]
HeaderUnit(info, k) == [is |-> "header", of |-> info, part |-> k]
IndexUnit(position, offset) == [is |-> "index", record |-> position, offset |-> offset]
LengthUnit(size) == [is |-> "length", size |-> size]
RecordUnit(record, k) == [is |-> "record", of |-> record, part |-> k]

\* The file once unit is written at offset (pwrite).
WriteAt(f, offset, unit) ==
    [k \in 1..(IF offset < Len(f) THEN Len(f) ELSE offset + 1) |->
        IF k = offset + 1 THEN unit ELSE IF k <= Len(f) THEN f[k] ELSE Hole]

\* A sequence of units, of which those that are a length hold a number.
OfUnits(f) ==
    /\ Len(f) \in Nat /\ f = [k \in 1..Len(f) |-> f[k]]
    /\ \A k \in 1..Len(f) : f[k].is = "length" => f[k].size \in Nat

\* What a write does to the time stamps.
Stamped ==
    \/ touched' = "seen"
    \/ HiddenWrites /\ touched' = IF touched = "no" THEN "hidden" ELSE touched

\* A mono record is a KMA2 packet: it names its place (epoch, index and PTS are
\* functions of it) and a RESET one carries a marker.  A stereo record is a
\* scale and tokens.
MonoRecords(places) ==
    [profile : {"mono"}, at : places, marker : {"C0", "C5R4", "none"},
     size : Sizes, tokens : Tokens]
StereoRecords == [profile : {"stereo"}, size : Sizes, tokens : Tokens]

\* validate_record
ValidRecord(info, position, record) ==
    /\ record.profile = info.profile
    /\ info.profile = "mono" =>
          /\ record.at = position
          /\ record.marker = IF position % EpochRecords = 0 THEN info.epoch_start ELSE "none"

-----------------------------------------------------------------------------
\* header_read: the header is the canonical one of what it says.
HeaderSays(units, info) ==
    /\ \A k \in 1..HeaderUnits : k \in DOMAIN units /\ units[k] = HeaderUnit(info, k)
    /\ ValidInfo(info)

\* next_record finds a whole and valid record at this offset.
RecordThere(f, info, position, offset) ==
    /\ offset < Len(f)
    /\ f[offset + 1].is = "length"
    /\ offset + 1 + f[offset + 1].size <= Len(f)
    /\ f[offset + 2].is = "record"
    /\ LET record == f[offset + 2].of
       IN  /\ f[offset + 1].size = record.size
           /\ \A k \in 1..record.size : f[offset + 1 + k] = RecordUnit(record, k)
           /\ ValidRecord(info, position, record)

Nowhere == -1

\* Where the scan of kenc_file_reader_create finds each record, and the end.
Offsets(f, info) ==
    LET at[n \in 0..RecordsFor(info)] ==
            IF n = 0 THEN FirstOffset(info)
            ELSE IF at[n - 1] # Nowhere /\ RecordThere(f, info, n - 1, at[n - 1])
            THEN at[n - 1] + 1 + f[at[n - 1] + 1].size
            ELSE Nowhere
    IN  at

RecordAt(f, info, n) == f[Offsets(f, info)[n] + 2].of

\* Everything that kenc_file_reader_create demands of a file with this header.
Accepts(f, info) ==
    /\ HeaderSays(f, info)
    /\ Offsets(f, info)[RecordsFor(info)] = Len(f)
    /\ \A n \in 0..RecordsFor(info) - 1 :
          Indexed(info, n) =>
              f[HeaderUnits + IndexSlot(info, n) + 1] = IndexUnit(n, Offsets(f, info)[n])
=============================================================================
