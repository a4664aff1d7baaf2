CONSTANTS
    Request = {r1, r2, r3}
    Key = {k1, k2}
    MaxVersion = 2
    MaxFaults = 1
SPECIFICATION FairSpec
INVARIANTS
    PageHasTtl
PROPERTIES
    OnlyLateReadersLeaveStale
    PagesConverge
CHECK_DEADLOCK FALSE
