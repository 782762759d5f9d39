CONSTANTS
    Threads = 2
    Roots = 2
    Obj = {o1, o2}
    Home <- MCHome
    Slots = 2
    Sender = 1
    Receiver = 2
    MaxEra = 5
    MAX_THREAD = 3
    None = None
SPECIFICATION Spec
INVARIANTS TypeOK CountsReferences RedoDecides Reclaimed
