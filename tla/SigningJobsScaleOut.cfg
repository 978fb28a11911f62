SPECIFICATION Spec
CONSTANTS
    Jobs = {j1}
    Instances = {i1, i2}
    Concurrency = 1
    NoJob = NoJob
    MaxRetries = 1
    DefaultRetries = 2
    MaxSubmits = 1
    MaxCrashes = 0
    StoreErrors = FALSE
    RedisErrors = FALSE
    LostReplies = FALSE
    WebhookJobs = {j1}
INVARIANTS
    ExactlyOnce
CHECK_DEADLOCK FALSE
