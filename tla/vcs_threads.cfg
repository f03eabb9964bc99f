SPECIFICATION FairSpec
CONSTANTS
    MaxVirtCpu = 3
    SchedulerMax = 2
    SchedulerMin = 2
    LongestSlice = 3
    StackSize = 2
    Values = {0, 1}
    Programs <- Threads
    Limit = 2
    None = None
INVARIANTS WaitBound
PROPERTY ImplementsVCpus
CHECK_DEADLOCK FALSE
