SPECIFICATION LogSpec
CONSTANTS
    p1 = p1
    p2 = p2
    p3 = p3
    Proc = {p1, p2, p3}
    MaxVisits = 3
    MaxDay = 1
    MaxFaults = 0
    Patient = FALSE
INVARIANT NoVisitLost
CHECK_DEADLOCK FALSE
