SPECIFICATION Spec
CONSTANTS
    Slots = {s1, s2}
    Budget = 3
    maxEntries = 2
    CompactAt = 3
    Lengths = {0, 4}
    ttl = 1
    MaxNow = 2
    FetchLag = 1
INVARIANTS  FreshOrBlip
PROPERTY InvocationEnds
CHECK_DEADLOCK FALSE
