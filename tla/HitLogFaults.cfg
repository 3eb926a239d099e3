SPECIFICATION FairSpec
CONSTANTS
    p1 = p1
    p2 = p2
    p3 = p3
    Proc = {p1, p2, p3}
    MaxVisits = 3
    MaxDay = 1
    MaxFaults = 2
    Patient = FALSE
INVARIANT NeverOvercounts
PROPERTY EveryRequestEnds
CHECK_DEADLOCK FALSE
