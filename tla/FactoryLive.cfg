\* Two workers, one of which may crash and one of which may overrun its lease.
CONSTANTS
    Inputs = {i1, i2}
    Outputs = {o1}
    NoOutput = NoOutput
    Requests <- SmallRequests
    NoRequest = NoRequest
    MaxActiveBudget = 3
    MaxLease = 1
    Workers = {w1, w2}
    RoleOf <- AllQA
    NoWork = NoWork
    MaxCrashes = 1
    MaxOverruns = 1
SPECIFICATION FairSpec
PROPERTIES
    TasksSettle
