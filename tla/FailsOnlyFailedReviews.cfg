\* Two live processes: a statement of a comment that they do not keep.
CONSTANTS
    PRs = {p1}
    Enabled = {p1}
    Webhooks = TRUE
    p1 = p1
    MaxHead = 0
    Lease = 2
    LockWait = 0
    Workers = {w1, w2}
    ModesOf <- OnlyLive
    NoWork = NoWork
    MaxJobs = 1
    MaxAttempts = 4
    MaxCrashes = 1
    MaxOverruns = 1
    w1 = w1
    w2 = w2
SPECIFICATION Spec
PROPERTIES
    FailsOnlyFailedReviews
