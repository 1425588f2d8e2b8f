SPECIFICATION Spec
CONSTANTS
    NoUsage = NoUsage
    NoLock = NoLock
    Usages <- MCUsages
    Threshold = 2
    RequestLimit = 6
    TokenLimit = 4
    Requests = {r1, r2, r3}
    Keys = {k1}
    Locks = {l1}
    CacheEnabled = FALSE
    Estimate = 2
    MaxDay = 1
PROPERTIES
    HardStopOnTokens
