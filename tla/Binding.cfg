CONSTANTS
    packet = packet
    ping = ping
    Event = {ping}
    Special = {}
    Key <- OwnKey
    None = None
    Fd = {3, 4}
    Listener = {1, 2}
    Workers = 1
    MayFail = {"arguments", "reset"}
    MaxHandlers = 2
    MaxCalls = 1
    MaxTimers = 2
SPECIFICATION FairSpec
INVARIANTS TypeOK OpenIsActive 
PROPERTIES NothingAfterDestroy ChainKept 
CHECK_DEADLOCK FALSE
