SPECIFICATION FairSpec
CONSTANTS
    Threads = {1, 2, 3, 4}
    NUM_CLIENTS = 3
    MachineOf <- SharedFirst
    MaxCalls = 3
INVARIANTS
    TypeOK
    MutualExclusion
    HolderIsFirst
PROPERTY Acquires
CHECK_DEADLOCK FALSE
