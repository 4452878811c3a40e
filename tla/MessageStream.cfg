CONSTANTS
    e0 = e0
    e1 = e1
    e2 = e2
    Messages = {e0, e1, e2}
    Body <- MCBody
    Json <- MCJson
    Base = 2
    VarintBytes = 4
    Half = 4
    Capacity = 2
    MaxWrites = 3
SPECIFICATION StreamSpec
CHECK_DEADLOCK FALSE
INVARIANTS
    ReadsWhatWasWritten
PROPERTY
    ReadingEnds
