\* Liveness of two live processes on one database.
CONSTANTS
    PRs = {p1}
    Enabled = {p1}
    Webhooks = TRUE
    p1 = p1
    MaxHead = 0
    Lease = 1
    LockWait = 0
    Workers = {w1, w2}
    w1 = w1
    w2 = w2
    ModesOf <- OnlyLive
    NoWork = NoWork
    MaxJobs = 1
    MaxAttempts = 4
    MaxCrashes = 1
    MaxOverruns = 1
SPECIFICATION FairSpec
PROPERTIES
    JobsSettle
