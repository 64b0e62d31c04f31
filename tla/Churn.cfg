CONSTANTS
    n1 = n1
    n2 = n2
    m1 = m1
    m2 = m2
    m3 = m3
    Everyone = Everyone
    Node = {n1}
    Message = {m2}
    Fragments <- SplitFragments
    Reliable <- SplitReliable
    Target <- SplitTarget
    IdCount = 2
    ByteBits = 2
    RecentSize = 2
    MaxFragments = 3
    Reorder = FALSE
    Duplicate = FALSE
    Expiry = FALSE
    MaxInFlight = 2
    MaxForgets = 1
SPECIFICATION FairSpec
PROPERTIES  EventuallyReleased
CHECK_DEADLOCK FALSE
