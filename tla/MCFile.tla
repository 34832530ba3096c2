------------------------------- MODULE MCFile -------------------------------
EXTENDS KencFile, TLC

\* The writer's files: three records over two epochs, one, and two of stereo
MCInfos ==
    [profile : {"mono"}, samples : {1, 5}, epoch_start : {"C5R4"}]
    \cup [profile : {"stereo"}, samples : {3}, epoch_start : {"C0"}]

\* Those of other programs
MCMono == [profile |-> "mono", samples |-> 3, epoch_start |-> "C5R4"]
MCHeaders == MCInfos \cup {MCMono}

\* The records of a file, each a length and its units.
MCRecord(place, size, tokens) ==
    [profile |-> "mono", at |-> place, size |-> size, tokens |-> tokens,
     marker |-> IF place = 0 THEN "C5R4" ELSE "none"]

MCUnits(record) ==
    <<LengthUnit(record.size)>> \o [k \in 1..record.size |-> RecordUnit(record, k)]

\* Two records of one epoch behind a header and an index.
MCWhole(first, second) ==
    [k \in 1..HeaderUnits |-> HeaderUnit(MCMono, k)]
        \o <<IndexUnit(0, FirstOffset(MCMono))>>
        \o MCUnits(first) \o MCUnits(second)

\* Two files of one shape, and one of another size.
MCVersions ==
    {MCWhole(MCRecord(0, 1, "x"), MCRecord(1, 1, "x")),
     MCWhole(MCRecord(0, 1, "y"), MCRecord(1, 1, "y")),
     MCWhole(MCRecord(0, 2, "y"), MCRecord(1, 1, "x"))}
=============================================================================
