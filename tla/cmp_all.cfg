SPECIFICATION Spec
CONSTANTS
    a = a
    b = b
    c = c
    Vars = {a, b, c}
    Shared = {c}
    Values = {0, 1}
    Sum <- Xor
    Programs <- Any
    Zero = b
    MaxReg = 8
    MaxBlocks = 3
    Rules = {"nested", "unread"}
    None = None
INVARIANTS Coherent StackBalanced
PROPERTY ImplementsBlocks
CHECK_DEADLOCK FALSE
