\* Two live processes on one database; a pull request, delivered and polled, whose
\* statements may wait for each other a tick.
CONSTANTS
    PRs = {p1}
    Enabled = {p1}
    Webhooks = TRUE
    p1 = p1
    MaxHead = 0
    Lease = 2
    LockWait = 1
    Workers = {w1, w2}
    ModesOf <- OnlyLive
    NoWork = NoWork
    MaxJobs = 1
    MaxAttempts = 4
    MaxCrashes = 1
    MaxOverruns = 1
SYMMETRY WorkerSymmetry
SPECIFICATION Spec
INVARIANTS
    CurrentUnlessOverrun
    SucceededHasResult
    AttemptIdentifiesClaim
    NoClaimWithinLease
    IInv
PROPERTIES
    SettledForever
    ImplementsLedger
