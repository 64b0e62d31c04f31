CONSTANTS
    k1 = k1
    k2 = k2
    t1 = t1
    t2 = t2
    AnnounceKey = all
    Thread = {t1, t2}
    Key = {k1}
    MaxTargets = 2
    Sends = {"ANNOUNCE", "DATA"}
SPECIFICATION FairSpec
INVARIANT TablesAgree
PROPERTY DepartedForgotten
