SPECIFICATION Spec
CONSTANTS
    MaxCpu = 3
    Threads = {t1, t2, t3}
    Mutexes = {m1}
    Program <- ProgramMain
    Discipline = {"joins", "unlocks"}
    None = None
    t1 = t1
    t2 = t2
    t3 = t3
    m1 = m1
SYMMETRY Symmetry
CHECK_DEADLOCK FALSE
INVARIANTS SlotExclusive StackDisjoint ToldWhenAsked OwnersLive
PROPERTIES JoinSound
