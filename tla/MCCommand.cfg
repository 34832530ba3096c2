SPECIFICATION CommandSpec
CONSTANTS
    Encoders = {e}
    Decoders = {d}
    Records = 2
    HeaderUnits = 2
    MaxVersion = 2
    MaxOthers = 1
INVARIANTS
    SuccessIsWhole
    IncompleteDoesNotRead
PROPERTY ExistingPreserved
CHECK_DEADLOCK FALSE
