SPECIFICATION Spec
CONSTANTS
    a = a
    b = b
    x = x
    y = y
    Threads = {a, b}
    Ids = {x, y}
    Vals <- SomeVals
    MaxSlots = 2
    Unsettled = 2
    MaxGets = 1
    None = None
SYMMETRY Symmetry
INVARIANTS FileWhole MapExact CleanIsSaved BorrowedUntilChanged
PROPERTIES ImplementsRecordStore
