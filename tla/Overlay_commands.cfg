SPECIFICATION FairSpec
CONSTANTS
    Cmds = {c1, c2, c3}
    Tracked = {t1}
    Untracked = {u1}
    MaxEdits = 1
    MaxCancels = 1
    MaxFaults = 1
    MaxCrashes = 1
INVARIANTS GitSeesNoOverlay OverlaysBack
PROPERTY CommandsEnd
CHECK_DEADLOCK FALSE
