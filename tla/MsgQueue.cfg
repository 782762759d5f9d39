SPECIFICATION FairSpec
CONSTANTS
    Senders = {s1, s2}
    Capacity = 5
    Builds <- MCBuilds
    MaxMessages = 5
    MaxLength = 6
INVARIANTS
    TypeOK
    RingHolds
PROPERTIES
    IsChannel
    Delivered
    OneLoadRefusesOnlyFull
CHECK_DEADLOCK FALSE
