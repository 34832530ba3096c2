SPECIFICATION SourceSpec
CONSTANTS
    Preroll = 2
    Junk = Junk
    Audio <- MCAudio
    EpochMax = 2
    PtsMax = 5
    PtsStep = 1
    EpochPackets = 2
    FileSamples = 9
    FileStride = 2
    FileProfiles = {"mono", "stereo"}
    FileStarts = {"C0", "C5R4"}
INVARIANTS
    PlaysAsContinuous
CHECK_DEADLOCK FALSE
