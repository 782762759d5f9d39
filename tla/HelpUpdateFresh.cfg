SPECIFICATION Spec
CONSTANTS
    replica_num = 2
    MaxVersion = 2
INVARIANT LoadSeesCompletedUpdates
