SPECIFICATION FairSpec
CONSTANTS
    MaxImplementCycles = 1
    HookOutcomes = {"pass"}
    PushResults = {"ok"}
    ProtectedBranch = FALSE
    MergeOutcomes = {"ok"}
    CommentKinds = {"approve", "respond"}
    CheckKinds = {"passed"}
    MergeableAnswers = {"mergeable"}
    HumanClosings = {}
    AutoApprove = FALSE
    RedriveTargets = {"merging"}
    RxCap = 1
    MaxComments = 1
    MaxPushes = 9
    MaxRedrives = 0
    MaxTroubles = 0
    MaxCrashes = 0
    MaxFaults = 0
PROPERTIES NeverSilentlyStuck ApprovedMerges
CHECK_DEADLOCK FALSE
