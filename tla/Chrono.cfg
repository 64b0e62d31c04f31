CONSTANTS
    every = every
    delay = delay
    dog = dog
    food = food
    Every = {every}
    Delay = {delay}
    Watchdog = {dog}
    Datum = {food}
    Watched <- Feeding
    Period = 2
    Delays = {0}
    Rates = {0, 1}
    Jumps <- Forth
    None = None
    MaxLeft = 3
    MaxLate = 1
    MaxTravels = 2
SPECIFICATION FairSpec
INVARIANTS TypeOK NoDrift
PROPERTIES DueTasksRun WatchdogFires
CHECK_DEADLOCK FALSE
