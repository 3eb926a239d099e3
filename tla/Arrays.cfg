SPECIFICATION Spec
VIEW Lists
CONSTANTS
    Name = {"a", "b"}
    Index = {1, 9}
    MaxLen <- Lengths
    Avoided = {"taken number", "copy over array", "array in array", "write after unset", "mask element"}
INVARIANTS TypeOK ListWhole
 
