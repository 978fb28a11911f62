SPECIFICATION Spec
CONSTANTS
    Jobs = {j1, j2}
    Instances = {i1}
    Concurrency = 2
    NoJob = NoJob
    MaxEnvelopes = 3
    MaxDead = 1
    MaxPushes = 6
PROPERTIES
    ImplementsContract
    NewestFirst
