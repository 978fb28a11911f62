SPECIFICATION FairSpec
CONSTANTS
    Jobs = {j1, j2}
    Instances = {i1}
    Concurrency = 2
    NoJob = NoJob
    MaxRetries = 1
    DefaultRetries = 2
    MaxSubmits = 1
    MaxCrashes = 1
    StoreErrors = FALSE
    RedisErrors = FALSE
    LostReplies = FALSE
    WebhookJobs = {j1}
INVARIANTS
    TypeOK
    SingleHolder
    NoJobForgotten
    SignaturesBounded
    DeadLetters
    WebhookTruthful
PROPERTIES
    FinalIsFinal
    StalledRecovered
CHECK_DEADLOCK FALSE
