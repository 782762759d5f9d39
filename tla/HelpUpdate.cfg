SPECIFICATION FairSpec
CONSTANTS
    replica_num = 2
    MaxVersion = 2
INVARIANTS
    TypeOK
    UnlockedMeansConverged
    PrefixOrder
    BoundedStaleness
PROPERTIES
    NeverBackwards
    CallsReturn
