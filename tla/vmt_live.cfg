SPECIFICATION FairSpec
CONSTANTS
    MaxCpu = 3
    Threads = {t1, t2, t3}
    Mutexes = {}
    Program <- ProgramReload
    Discipline = {"joins", "waits", "asks"}
    None = None
    t1 = t1
    t2 = t2
    t3 = t3
INVARIANTS MemorySafe ExitCodeIsMains
PROPERTIES JoinTerminates Shutdown ImplementsCoreTable
