SPECIFICATION Spec
CONSTANTS
    None = None
    Null = Null
    Corrupt = Corrupt
    Torn = Torn
    Limit = 1000
    NoiseFloor = 10
    Cases <- TargetCases
    MaxEntries = 2
INVARIANTS
    LabelIsEarned
    FeedTellsTheVerdict
\* A verdict is published once.
CHECK_DEADLOCK FALSE
