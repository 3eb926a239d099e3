SPECIFICATION Spec
CONSTANTS
    Name = {"x", "y"}
    PerBlock = 2
    MaxData = 3
    MaxBlocks = 8
    MaxSteps = 4
    Avoided = {"limit in form", "limit in open"}
INVARIANTS TypeOK HeaderFirst  BlocksApart
 
CHECK_DEADLOCK FALSE
