CONSTANTS
    s1 = s1
    s2 = s2
    Streams = {s1, s2}
    FrameLen = 2
    NumMessages = 2
    Timeouts = {1, None}
    Statuses = {0, 13}
    MaxNest = 2
    MaxTime = 2
    None = None
    resolved_ips <- MCIps
    max_retries = 3
    initial_backoff = 1
    max_backoff = 3
    backoff_factor = 2
    MaxPicks = 5
    MaxFrames = 2
    Undef = Undef
SPECIFICATION MCSpec
INVARIANTS
    InOrder
    CompleteAtServerClose
    ClosedOnce
    Balanced
    GivesUpLate
    StreamsAreCounted
PROPERTIES
    ToldOnceAndLast
    DeadlineCloses
