\* plan.md of specs/007-agent-planner against plans that are longer than was asked for.
CONSTANTS
    PromptLimit = 120
    MemoryLimit = 40
    HeaderSize = 5
    FrameSize = 4
    MaxMemoryItems = 2
    EvidenceLimit = 40
    LayoutLimit = 40
    Words <- AnyWord
    N = 2
    SuppressDays = 7
    PressureDays = 28
    PressureCommits = 4
    JustCutLookback = 3
    AutomationMin = 2
    MinPhrase = 8
    MaxFiles = 2
    FileSize = 3
    PlanBudget = 13
    ReviewSize = 6
    Checkouts <- Repositories
    PhilosophyReplies <- Philosophies
    PlanReplies <- Plans
    LensReplies <- Lenses
    DecisionReplies <- Answers
    ReviewReplies <- Verdicts
    Views <- PullViews
SPECIFICATION Spec
INVARIANT
    QueueNeverIgnored
CHECK_DEADLOCK FALSE
