SPECIFICATION LiveSpec
CONSTANTS
    Caller = {q1, q2}
    TTL = 2
    StaleFor = 3
    RetryAfter = {1, 3}
    MaxTime = 6
INVARIANTS
    CacheSound
PROPERTIES
    KeepsListPromise
    RequestsReturn
