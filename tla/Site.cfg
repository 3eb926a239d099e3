SPECIFICATION FairSpec
CONSTANTS
    p1 = p1
    p2 = p2
    Proc = {p1, p2}
    Base = {"log", "cfg", "data"}
    Policies <- MCPolicies
    MaxRequests = 3
    MaxKills = 1
    Avoided = {"left open", "bad pattern"}
INVARIANTS TypeOK  TotalWithinVisits
PROPERTIES QuietVisitCounts AccessFollowsRules EveryRequestEnds
CHECK_DEADLOCK FALSE
