SPECIFICATION FileSpec
CONSTANTS
    Stride = 2
    EpochRecords = 2
    HeaderUnits = 2
    Sizes = {1, 2}
    Tokens = {"x"}
    Infos <- MCInfos
    Headers <- MCHeaders
    HiddenWrites = TRUE
    Versions <- MCVersions
    MaxWrites = 2
INVARIANTS
    CompleteOrUnreadable
    PlaysFromIndex
    CopyIsOfOneMoment
PROPERTY ReadWholeInTheEnd
CHECK_DEADLOCK FALSE
