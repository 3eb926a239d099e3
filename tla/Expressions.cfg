SPECIFICATION Spec
CONSTANTS
    MaxStack = 2
    MaxTexts = 2
    MaxNamed = 2
    Avoided = {"late clear", "lost value", "discarded value", "nested eval", "argument count", "mktime"}
INVARIANTS TypeOK OperandsStay
PROPERTIES CallGivesOneValue
