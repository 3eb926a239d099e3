SPECIFICATION Spec
CONSTANTS
    Database = {"db1", "db2"}
    Port = {"p1", "p2"}
    MaxCalls = 6
    Avoided = {"late port", "tables listed", "closed connection", "failed connection", "no type list"}
INVARIANTS TypeOK FreedOnce NumbersKeepMeaning SelectedAsThought
PROPERTIES UsesOpen
CHECK_DEADLOCK FALSE
