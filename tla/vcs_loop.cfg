SPECIFICATION FairSpec
CONSTANTS
    MaxVirtCpu = 2
    SchedulerMax = 2
    SchedulerMin = 2
    LongestSlice = 3
    StackSize = 2
    Values = {0, 1}
    Programs <- Loops
    Limit = 2
    None = None
PROPERTY ImplementsVCpus
CHECK_DEADLOCK FALSE
