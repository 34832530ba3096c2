CONSTANTS
    Libraries = {"ort.so"}
    Headers = {"ort.h"}
    Papers = {"patch"}
    Versions = {0, 1}
    MaxChanges = 3
    Packages = {"ort", "ssl", "base"}
    Locked = {"ort", "ssl"}
    Direct = {"ort", "ssl"}
    Private = {"ort"}
    Loaded = {"ort", "crypto", "gcc", "stdcxx"}
    OwnerTables <- MCOwners
SPECIFICATION PackageSpec
INVARIANTS
    FloorsHoldTheBuild
    StagedAsRecorded
CHECK_DEADLOCK FALSE
