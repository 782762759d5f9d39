SPECIFICATION FairSpec
CONSTANTS
    Threads = {1, 2, 3}
    Machines = {"A", "B"}
    MachineOf <- TwoMachines
    capacity = 1
    MaxPosition = 2
INVARIANTS
    TypeOK
    SlotExclusive
    DequeuesItsItem
PROPERTIES
    WaitersServed
    TryNeverWaits
CHECK_DEADLOCK FALSE
