\* Two workers of one role; three units of budget for two tasks.
CONSTANTS
    Inputs = {i1, i2}
    Outputs = {o1, o2}
    NoOutput = NoOutput
    Requests <- FewRequests
    NoRequest = NoRequest
    MaxActiveBudget = 3
    MaxLease = 2
    Workers = {w1, w2}
    RoleOf <- AllQA
    NoWork = NoWork
    MaxCrashes = 1
    MaxOverruns = 2
SYMMETRY WorkerSymmetry
SPECIFICATION Spec
INVARIANTS
    BudgetRespected
    ReceiptsMatch
    NoDuplicateWithinLease
    ClaimIsOwn
    IInv
PROPERTIES
    SettledForever
    ImplementsBoard
