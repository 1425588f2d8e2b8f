SPECIFICATION FairSpec
CONSTANTS
    NoUsage = NoUsage
    NoLock = NoLock
    Usages <- MCUsages
    Threshold = 2
    RequestLimit = 3
    TokenLimit = 2
    Requests = {r1, r2, r3}
    Keys = {k1}
    Locks = {l1, l2}
    CacheEnabled = TRUE
    Estimate = 1
    MaxDay = 1
INVARIANTS
    TypeOK
    OneHolderPerKey
    CallsMissedTheCache
    TableHoldsLiveKeys
    ClosedBelowThreshold
PROPERTIES
    HardStopWithinADay
    EveryRequestIsAnswered
