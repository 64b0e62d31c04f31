CONSTANTS
    a = a
    b = b
    Reaction = {a, b}
    Fd = {1, 2}
    Descriptor <- Apart
    Listening <- ReadClose
    Word <- Words
    Readable = {"data", "broadcast"}
    MayRefuse = {}
    None = None
    MaxBytes = 2
SPECIFICATION FairSpec
PROPERTY EveryEventFires
CHECK_DEADLOCK FALSE
