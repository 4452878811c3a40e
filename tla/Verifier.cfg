CONSTANTS
    c1 = c1
    c2 = c2
    k1 = k1
    k2 = k2
    Callers = {c1, c2}
    Keys = {k1, k2}
    RetryInterval = 2
    MaxLatency = 1
    MaxTime = 4
    ClockSkew = 1
    Requests <- MCRequests
    Never = Never
SPECIFICATION Spec
SYMMETRY CallerSymmetry
INVARIANTS
    AcceptedIsValid
    NewKeysAreNoticed
    HeldKeysAreASnapshot
    RefusedKeysAreFresh
CHECK_DEADLOCK FALSE
