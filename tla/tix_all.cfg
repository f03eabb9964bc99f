SPECIFICATION Spec
CONSTANTS
    ta = ta
    tb = tb
    tc = tc
    Slots = {1, 2, 3}
    Terms = {ta, tb, tc}
    Texts <- SomeTexts
    Home <- HomeOf
    InitialCap = 4
    MaxTf = 2
    None = None
INVARIANTS FoundAll FoundOnly TotalsExact
