SPECIFICATION LogSpec
CONSTANTS
    p1 = p1
    p2 = p2
    p3 = p3
    Proc = {p1, p2, p3}
    MaxVisits = 4
    MaxDay = 2
    MaxFaults = 0
    Patient = TRUE
SYMMETRY AnyProcess
INVARIANTS LogTypeOK OneVisitCounts NoVisitLost
PROPERTY CountsAtomically
CHECK_DEADLOCK FALSE
