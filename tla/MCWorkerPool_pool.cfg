SPECIFICATION MCFairSpec
CONSTANTS
    Workers = {"w1", "w2"}
    Processes = {"p1", "p2"}
    StopCalls = {1}
    PoolLimit = 1
    MaxCrashes = 1
    MaxCancels = 1
    MaxFaults = 1
    MaxStops = 1
    MaxLosses = 1
    MaxTroubles = 4
CONSTRAINT Bounded
INVARIANTS ClaimsExact OneWorkerPerSlot WithinLimit
PROPERTIES RestartRepairs ClaimsReleased
