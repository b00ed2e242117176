\* Two controllers on one store, one of which may import the repository's commits.
CONSTANTS
    Writers = {w1, w2}
    Facts <- TwoFacts
    Lags = {1}
    Commits <- TwoCommits
    None = None
    SnapshotLimits = {2, 3}
    Start = 1
    MaxTime = 2
    MaxEvents = 3
SYMMETRY WriterSymmetry
SPECIFICATION Spec
INVARIANTS
    SupersededHasSuccessor
    ViewsAgree
PROPERTIES
    FrozenViewsStay
\* Nobody has to call the store, and the bound may leave no room for a call.
CHECK_DEADLOCK FALSE
