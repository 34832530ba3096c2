SPECIFICATION InstalledSpec
CONSTANTS
    Members = {graph, notice}
    Kept = {graph}
    Undeclared = {x, y}
    Ancestors = {root}
    Directories = {asset, notices}
    Receipts = {r, s}
    MaxChanges = 3
INVARIANTS
    WholeAtOneMoment
    AuthorityOutlivesReading
CHECK_DEADLOCK FALSE
