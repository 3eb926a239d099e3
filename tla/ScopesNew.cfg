SPECIFICATION Spec
CONSTANTS
    f = f
    g = g
    x = x
    y = y
    Name = {x, y}
    Function = {f, g}
    Value = {0}
    Zero = 0
    NoValue = none
    Params <- ParamsOfBoth
    MaxCalls = 2
    Programs <- Short
    Careful = FALSE
PROPERTY NewNodesAreLocal
