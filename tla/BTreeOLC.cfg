SPECIFICATION FairSpec
CONSTANTS
    Thread = {w1, w2}
    Key = {3, 4, 5, 6, 7, 8, 9, 10}
    Value = {0, 1}
    Loaded = 0
    MaxLeaf = 2
    MaxInner = 5
    MaxNodes = 12
    MaxCalls = 1
    Loader = w1
    Loads <- MCLoads
    Targets = {7, 9, 10}
    Absent = Absent
    NoNode = NoNode
INVARIANTS TypeOK NodesInOrder Routed LocksHeld RootIsCurrent
PROPERTIES IsAtomicMap CallsReturn
CHECK_DEADLOCK FALSE
