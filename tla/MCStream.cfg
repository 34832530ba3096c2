SPECIFICATION Spec
CONSTANTS
    Preroll = 2
    Junk = Junk
    Audio = {a, b}
    EpochMax = 1
    PtsMax = 2
    PtsStep = 1
    EpochPackets = 2
INVARIANTS
    EpochsIndependent
    TimelineMarked
    DecodesTheEncodersEpoch
    PlayedOnce
PROPERTIES
    EmitsForward
    ImplementsPlayback
SYMMETRY Symmetry
CHECK_DEADLOCK FALSE
