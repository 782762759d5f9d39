SPECIFICATION Spec
CONSTANTS
    Senders = {s1}
    Capacity = 3
    Builds <- MCExact
    MaxMessages = 4
    MaxLength = 4
CHECK_DEADLOCK FALSE
INVARIANT EmptyMeansDelivered
