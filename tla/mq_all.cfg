SPECIFICATION Spec
CONSTANTS
    Threads = {c, p, q}
    Consumer = c
    MsgMax = 2
    Ids = {1, 2, 3, 4}
    Mail <- SomeMail
    Values = {0, 1, 2}
    None = None
    Rules = {"fresh", "one", "got"}
SYMMETRY Producers
INVARIANTS ReservedByOne IdsApart FoundIsWanted GetSound
PROPERTIES KeptUntilRead ImplementsMailbox
CHECK_DEADLOCK FALSE
