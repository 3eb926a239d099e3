SPECIFICATION FairSpec
CONSTANTS
    page = page
    lib = lib
    f = f
    g = g
    File = {page, lib}
    Page = page
    Name = {f, g}
    Block = {"if"}
    MaxDepth = 4
    MaxDefs = 3
    MaxBlocks = 2
    MaxBraces = 3
    MaxFd = 4
    Avoided = {"mixing", "unfinished text", "missing file", "redefinition"}
INVARIANTS TypeOK AllClosed
PROPERTIES  ExitEndsPage
CHECK_DEADLOCK FALSE
