SPECIFICATION Spec
CONSTANTS
    Programs <- Any
    Labels = {0, 1, 2}
    MaxLabels = 2
    CodeMax = 44
    MaxCodeSize = 43
    MaxSubJumps = 2
INVARIANTS OnInstruction JumpsResolved ReturnsBehindCalls
PROPERTY ImplementsSource
CHECK_DEADLOCK FALSE
