SPECIFICATION FairSpec
CONSTANTS
    N = 2
    Objects = {o1}
    Busy = {0}
    MaxEpoch = 4
INVARIANTS
    TypeOK
    ShortOperationsSafe
PROPERTY EventuallyReclaimed
CHECK_DEADLOCK FALSE
