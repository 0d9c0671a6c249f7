SPECIFICATION Spec
CONSTANTS
    Commands = {c1, c2}
    Pids = {p1, p2}
    Workers = {w1}
    Retain = 1
    MaxRuns = 2
    MaxDumps = 3
    MaxTroubles = 1
CHECK_DEADLOCK FALSE
INVARIANTS
    
    GoodDumpKept
PROPERTY StartServes
