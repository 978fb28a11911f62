SPECIFICATION Spec
CONSTANTS
    Tasks = {t1, t2}
    ChainStart = 1
    Errors = TRUE
    MaxNonce = 4
    MaxExpiries = 1
INVARIANTS
    TypeOK
    UniqueUntilResync
    PendingNeverAdvances
CHECK_DEADLOCK FALSE
