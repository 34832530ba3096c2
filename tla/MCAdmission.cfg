SPECIFICATION AdmissionSpec
CONSTANTS
    Wanted = 2
    Room = 2
    MostFds = 3
    MostRecords = 2
INVARIANTS
    DescriptorsAccounted
    OneCompleteAnswer
    HelperIsGone
    KillsOnlyItsOwn
PROPERTY CallReturns
CHECK_DEADLOCK FALSE
