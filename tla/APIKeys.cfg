SPECIFICATION FairSpec
CONSTANTS
    Keys = {k1, k2, k3}
    Used = {k1}
    Tasks = {t1, t2}
    NoKey = NoKey
    NoEntry = NoEntry
    MaxKeys = 1
    FreeRate = 1
    ProRate = 2
    MaxWindow = 3
    MaxFaults = 1
INVARIANTS
    RateBounded
    NoCloudKeyServed
    KeysBounded
PROPERTIES
    RevokedDiesOut
CHECK_DEADLOCK FALSE
