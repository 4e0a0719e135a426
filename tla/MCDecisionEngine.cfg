SPECIFICATION FairSpec
CONSTANTS
    Threads = {t1, t2}
    Keys = {1, 2}
    Responses = {r1, r2}
    MaxEntries = 1
    Ttl = 1
    MaxTime = 1
    MaxTicks = 3
    MayPanic = TRUE
    Timeout = 1
    Waves = 2
    MaxCalls = 3
CHECK_DEADLOCK FALSE
INVARIANTS
    CancelledOnlyReplays
PROPERTIES
    ImplementsService
    EveryCallReturns
