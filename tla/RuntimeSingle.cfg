\* One process per database, in every configuration, with crashes and restarts:
\* one pull request whose head moves once.
CONSTANTS
    PRs = {p1}
    Enabled = {p1}
    Webhooks = TRUE
    p1 = p1
    MaxHead = 1
    Lease = 1
    LockWait = 0
    Workers = {w1}
    ModesOf <- AnyMode
    NoWork = NoWork
    MaxJobs = 2
    MaxAttempts = 4
    MaxCrashes = 1
    MaxOverruns = 1
SPECIFICATION Spec
INVARIANTS
    ResultCoversDelivery
    LabelNotAheadOfDiff
    DeferredIsRequeueable
PROPERTIES
    SettledResultKept
