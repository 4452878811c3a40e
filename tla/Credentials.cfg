CONSTANTS
    c1 = c1
    c2 = c2
    Callers = {c1, c2}
    Kinds = {"service_account", "authorized_user", "external_account",
             "external_impersonating", "impersonated"}
    Skews = {1}
    WaitLimit = 2
    MaxRetries = 2
    InitialDelay = 1
    BackoffFactor = 2
    Lifetimes = {2}
    MaxLatency = 1
    MaxTime = 3
    Undef = Undef
    Unparsable = Unparsable
SPECIFICATION FairSpec
INVARIANTS
    SingleFlight
    StampSound
    DirectTokenAlive
    WaiterSharesRefresh
PROPERTIES
    EveryCallReturns
    FlagClears
