CONSTANTS
    a = a
    b = b
    Reaction = {a, b}
    Fd = {1, 2}
    Descriptor <- Apart
    Listening <- ReadClose
    Word <- Words
    Readable = {"data"}
    MayRefuse = {a}
    None = None
    MaxBytes = 2
SPECIFICATION FairSpec
INVARIANTS TypeOK  Watchful
PROPERTIES   ShutdownStops
CHECK_DEADLOCK FALSE
