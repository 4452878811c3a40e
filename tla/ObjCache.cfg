CONSTANTS
    t1 = t1
    t2 = t2
    p1 = p1
    p2 = p2
    h1 = h1
    h2 = h2
    Threads = {t1, t2}
    Ptrs = {p1, p2}
    Handles = {h1, h2}
    NumStripes = 2
    get_stripe <- MCStripe
    Capacities = {0, 2}
    generated_pool_ptr = p2
    Undef = Undef
    None = None
    e1 = e1
    e2 = e2
    AUDIT_LOG_SIZE = 4
    Events = {e1, e2}
    Zeroed = Zeroed
SPECIFICATION MCSpec
SYMMETRY ThreadSymmetry
CHECK_DEADLOCK FALSE
INVARIANTS
    CachedKeysAreListed
    EntriesAreAlive
    OnlyClearMeetsEviction
PROPERTY
    ImplementsAuditLog
