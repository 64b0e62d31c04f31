CONSTANTS
    n1 = n1
    n2 = n2
    m1 = m1
    m2 = m2
    m3 = m3
    Everyone = Everyone
    Node = {n1}
    Message = {m1, m2, m3}
    Fragments <- MixedFragments
    Reliable <- MixedReliable
    Target <- MixedTarget
    IdCount = 4
    ByteBits = 2
    RecentSize = 2
    MaxFragments = 3
    Reorder = FALSE
    Duplicate = FALSE
    Expiry = FALSE
    MaxInFlight = 2
    MaxForgets = 0
SPECIFICATION Spec
INVARIANTS  Integrity
PROPERTIES LastRemembered 
CHECK_DEADLOCK FALSE
