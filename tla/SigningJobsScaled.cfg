SPECIFICATION FairSpec
CONSTANTS
    Jobs = {j1}
    Instances = {i1, i2}
    Concurrency = 1
    NoJob = NoJob
    MaxRetries = 1
    DefaultRetries = 2
    MaxSubmits = 2
    MaxCrashes = 0
    StoreErrors = FALSE
    RedisErrors = FALSE
    LostReplies = FALSE
    WebhookJobs = {}
PROPERTIES
    EveryJobEnds
CHECK_DEADLOCK FALSE
