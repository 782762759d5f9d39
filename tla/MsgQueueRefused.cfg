SPECIFICATION Spec
CONSTANTS
    Senders = {s1}
    Capacity = 4
    Builds <- MCDrain
    MaxMessages = 8
    MaxLength = 5
CHECK_DEADLOCK FALSE
PROPERTY FullWhenRefused
