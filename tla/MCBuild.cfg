CONSTANTS
    a = a
    b = b
    Builders = {a, b}
    PinnedFiles = {"lock"}
    LooseFiles = {"lib"}
    MaxEdits = 2
    Other = Other
    None = None
SPECIFICATION Spec
SYMMETRY MCSymmetry
INVARIANTS
    CommandHasItsRuntime
    FailedLeavesOnlyBin
    BuiltIsPinned
PROPERTIES
    OnlyOwnIsTakenBack
CHECK_DEADLOCK FALSE
