SPECIFICATION Spec
CONSTANTS
    Orgs = {o1, o2}
    Users = {u1, u2}
    Invites = {v1}
    Tasks = {t1, t2}
    GivenRoles = {"admin", "viewer"}
    None = None
    MaxRequests = 5
    MaxFaults = 1
INVARIANTS
    TypeOK
    OwnerStays
    InviteUsedOnce
    DoubleOnboardingExplained
    ProjectlessExplained
SYMMETRY Symmetry
CHECK_DEADLOCK FALSE
