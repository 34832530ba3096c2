CONSTANTS
    Preroll = 2
    EpochPackets = {0, 2}
    MaxPackets = 4
    MaxRaises = 1
    Margin = 6
    None = None
SPECIFICATION Spec
INVARIANTS
    SidesAgree
    NoDamageMisleads
    AsTheNativeStream
    LookaheadIsMeasured
CHECK_DEADLOCK FALSE
