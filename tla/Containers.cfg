CONSTANTS
    a = a
    b = b
    c = c
    d = d
    f1 = f1
    f2 = f2
    d1 = d1
    d2 = d2
    d3 = d3
    d4 = d4
    Addrs = {d1, d2, d3, d4}
    generated <- MCGenerated
    Layouts <- MCLayouts
    fnv <- MCFnv
    W32 = 1
    W64 = 2
    EnumNames = {0}
    Radix = 2
    WideNames = {}
    RepeatedFields = {f1, f2}
    MaxArrays = 2
    MaxLen = 2
    MaxMessages = 3
    Elements <- MCElements
    Keys = {a, b, c, d}
    Vals = {1, 2}
    hash <- MCHash
    InitSize = 2
    MaxSize = 4
    Extensions = {"x", "y"}
    Tags = {1, 2}
    MaxAux = 4
    MaxUnknown = 3
SPECIFICATION Spec
SYMMETRY MCSymmetry
INVARIANTS
    HandlesReachTheField
    NothingIsShared
    MapHoldsWhatWasStored
    IterationsAreComplete
    ScrubKeepsTheRest
    GeneratedDescriptorsStay
