\* Three keys for two slots, entries that expire after two ticks.
CONSTANTS
    Keys = {1, 2, 3}
    Responses = {1, 2}
    MaxEntries = 2
    Ttl = 2
    MaxTime = 3
    MaxTicks = 5
    MayPanic = TRUE
SPECIFICATION CacheSpec
PROPERTY
    LockRecovers
