SPECIFICATION Spec
CONSTANTS
    MaxImplementCycles = 2
    HookOutcomes = {"unconfigured", "pass", "fail"}
    PushResults = {"ok", "rejected", "remote_rejected", "hook_failed", "error"}
    ProtectedBranch = FALSE
    MergeOutcomes = {}
    CommentKinds = {}
    CheckKinds = {"ignored", "running", "failed"}
    MergeableAnswers = {"unknown"}
    HumanClosings = {}
    AutoApprove = FALSE
    RedriveTargets = {"implementing"}
    RxCap = 2
    MaxComments = 0
    MaxPushes = 1
    MaxRedrives = 1
    MaxTroubles = 1
    MaxCrashes = 1
    MaxFaults = 1
INVARIANTS DispatchesBounded
CHECK_DEADLOCK FALSE
