SPECIFICATION Spec
CONSTANTS
    ci1 = ci1
    CiRuns <- OneCi
    PageSize = 2
    NoEvent = NoEvent
    MaxMoves = 3
INVARIANTS
    QuietOpenComplies
    ReopenNeedsMaintainer
    ReopenStands
    OneReopenComment
\* Every run ends and people need not move again.
CHECK_DEADLOCK FALSE
