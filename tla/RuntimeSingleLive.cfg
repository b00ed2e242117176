\* Liveness of one process that may be installed dry and restarted live, with no
\* webhooks: it polls a pull request whose head moves, while GitHub reads fail.
CONSTANTS
    PRs = {p1}
    Enabled = {p1}
    Webhooks = FALSE
    p1 = p1
    MaxHead = 1
    Lease = 1
    LockWait = 0
    Workers = {w1}
    w1 = w1
    ModesOf <- DryOrLive
    NoWork = NoWork
    MaxJobs = 1
    MaxAttempts = 4
    MaxCrashes = 2
    MaxOverruns = 0
SPECIFICATION FairSpec
PROPERTIES
    JobsSettle
    PolledHeadsQueued
