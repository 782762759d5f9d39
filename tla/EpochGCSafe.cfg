SPECIFICATION Spec
CONSTANTS
    N = 2
    Busy = {0}
    Objects = {o1}
    MaxEpoch = 3
INVARIANT SafeToReclaim
CHECK_DEADLOCK FALSE
