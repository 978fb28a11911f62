SPECIFICATION Spec
CONSTANTS
    Chains = {polygon, solana}
    NullChains = {solana}
    NoChain = NoChain
    Versions = {v1, v2}
    NoEntry = NoEntry
    Tasks = {t1, t2}
    Signers = {"_master"}
    MaxRequests = 3
    MaxFaults = 1
INVARIANTS
    SweptFromSource
SYMMETRY Symmetry
CHECK_DEADLOCK FALSE
