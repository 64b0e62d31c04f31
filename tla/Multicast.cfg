CONSTANTS
    n1 = n1
    n2 = n2
    m1 = m1
    m2 = m2
    m3 = m3
    Everyone = Everyone
    Node = {n1, n2}
    Message = {m1, m2, m3}
    Fragments <- WrapFragments
    Reliable <- WrapReliable
    Target <- WrapTarget
    IdCount = 2
    ByteBits = 2
    RecentSize = 2
    MaxFragments = 3
    Reorder = FALSE
    Duplicate = FALSE
    Expiry = TRUE
    MaxInFlight = 1
    MaxForgets = 1
SPECIFICATION Spec
PROPERTIES EntryKept NotReleasedEarly
CHECK_DEADLOCK FALSE
