SPECIFICATION ModelSpec
CONSTANTS
    Threads = {t1, t2, t3}
    Files = {encoder, decoder}
INVARIANTS
    UsedIsWhole
    DestroyedByTheLast
    NothingLeaked
SYMMETRY Symmetry
CHECK_DEADLOCK FALSE
