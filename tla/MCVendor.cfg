CONSTANTS
    Authorities = {"old", "new"}
    Contents = {"c1", "c2", "c3"}
    Paths = {"module", "record", "manual"}
    Embedded = {"module", "record"}
    Files <- MCFiles
    Vendors <- MCVendors
    Names <- MCNames
    MaxFaults = 2
    Broken = "broken"
SPECIFICATION VendorSpec
INVARIANTS
    OfflineCheckMeansOneCommit
    EmbeddedIsOneCommit
    BundleIsItsCommit
CHECK_DEADLOCK FALSE
