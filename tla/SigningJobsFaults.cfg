SPECIFICATION Spec
CONSTANTS
    Jobs = {j1}
    Instances = {i1}
    Concurrency = 2
    NoJob = NoJob
    MaxRetries = 1
    DefaultRetries = 2
    MaxSubmits = 1
    MaxCrashes = 2
    StoreErrors = TRUE
    RedisErrors = TRUE
    LostReplies = TRUE
    WebhookJobs = {j1}
INVARIANTS
    SingleInv
    AttemptsBounded
CHECK_DEADLOCK FALSE
