SPECIFICATION Spec
CONSTANTS
    MaxCpu = 2
    StackSize = 6
    Word = 2
    Loads <- OneWord
    Kinds = {"byte", "int"}
INVARIANTS StackInv
PROPERTIES WritesOwnStack ImplementsStacks
CHECK_DEADLOCK FALSE
CONSTRAINT Followed
