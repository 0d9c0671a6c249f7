SPECIFICATION Spec
CONSTANTS
    MaxImplementCycles = 1
    HookOutcomes = {"pass"}
    PushResults = {"ok"}
    ProtectedBranch = FALSE
    MergeOutcomes = {"ok", "refused", "error"}
    CommentKinds = {"approve", "respond"}
    CheckKinds = {"passed", "failed"}
    MergeableAnswers = {"mergeable"}
    HumanClosings = {"merged", "closed"}
    AutoApprove = TRUE
    RedriveTargets = {"merging"}
    RxCap = 1
    MaxComments = 2
    MaxPushes = 1
    MaxRedrives = 1
    MaxTroubles = 0
    MaxCrashes = 0
    MaxFaults = 1
    MaxDisturbances = 2
CONSTRAINT Bounded
INVARIANTS MergeNeedsApproval NoOrphanWorker
PROPERTY EndedStaysEnded
CHECK_DEADLOCK FALSE
