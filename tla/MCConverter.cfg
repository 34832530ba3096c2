CONSTANTS
    Sources <- MCSources
    Outputs = {"graph"}
    Blocks = 2
    a = a
    b = b
    c = c
    Procs = {a, b, c}
    Child = a
    Command = Command
    Gone = Gone
    MaxEdits = 2
    Good = Good
    Bad = Bad
SPECIFICATION Spec
INVARIANTS
    ReadsPinnedBytes
    ConvertedIsWhole
PROPERTIES
    Returns
CHECK_DEADLOCK FALSE
