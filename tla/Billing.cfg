SPECIFICATION FairSpec
CONSTANTS
    Orgs = {o1}
    NoOrg = NoOrg
    Payments = {p1}
    NoPayment = NoPayment
    Tasks = {t1, t2}
    MaxFaults = 2
    Amounts = {999, 1000}
    MonthlyCredits = 10
    Cost = 10
    FreeCap = 1
    HardCap = 2
    HourlyBase = 1
    HourlyPer1k = 1
    MaxRequests = 3
INVARIANTS
    TypeOK
    DoubleCreditExplained
    StatusSettled
    GrantExact
    CapOvershoot
    NothingUncharged
PROPERTIES
    PaidIsCredited
CHECK_DEADLOCK FALSE
