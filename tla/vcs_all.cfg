SPECIFICATION Spec
CONSTANTS
    MaxVirtCpu = 3
    SchedulerMax = 2
    SchedulerMin = 2
    LongestSlice = 3
    StackSize = 2
    Values = {0, 1}
    Programs <- Anything
    Limit = 2
    None = None
INVARIANTS CurrentRuns JumpTableLive PastEndAlone
CHECK_DEADLOCK FALSE
