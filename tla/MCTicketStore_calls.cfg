SPECIFICATION Spec
CONSTANTS
    Projects = {1, 2}
    Hashes = {1, 2}
    Starts <- MCStarts
    Requests <- MCRequests
    Callers = {c1, c2}
    MaxCalls = 3
SYMMETRY CallerSymmetry
CHECK_DEADLOCK FALSE
INVARIANTS ParentsAcyclic BlockedExact EpicsCloseLast CallsProceed
