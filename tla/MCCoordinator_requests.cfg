SPECIFICATION MCFairSpec
CONSTANTS
    Tickets = {"t1"}
    Targets = {"merging", "design"}
    TaskIds = {1, 2, 3, 4}
    RxCap = 2
    CancelCap = 1
    CompletionCap = 1
    MaxRequests = 3
    MaxCrashes = 1
    MaxCancels = 1
    MaxRpcs = 1
    MaxFaults = 1
    MaxInputs = 4
CONSTRAINT Bounded
INVARIANTS TypeOK Serialized CrashSafe
PROPERTIES LatestApplied ImplementsQueue
