SPECIFICATION Spec
VIEW Trees
CONSTANTS
    f = f
    g = g
    x = x
    y = y
    Name = {x, y}
    Function = {f, g}
    Value = {0, 1}
    Zero = 0
    NoValue = none
    Params <- ParamsOfBoth
    MaxCalls = 3
    Programs <- Three
    Careful = TRUE
INVARIANTS TypeOK ReadsWhatItDenotes
PROPERTY KeepsLanguage
