SPECIFICATION FairSpec
CONSTANTS
    Orgs = {o1}
    Amounts = {1, 2}
    Calls = {c1, c2, c3}
    Absent = Absent
    NoCall = NoCall
    Errors = TRUE
    MaxCalls = 4
INVARIANTS
    Exclusive
    LedgerChained
PROPERTIES
    ImplementsLedger
    EveryCallEnds
CHECK_DEADLOCK FALSE
