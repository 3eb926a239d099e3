SPECIFICATION Spec
CONSTANTS
    MaxDepth = 4
    MaxBraces = 6
INVARIANTS TypeOK LiveIffTaken StacksDrain RecordsPresent
 
CHECK_DEADLOCK FALSE
