\* The terminal interface: keys, changes on the server, late and failed answers.
SPECIFICATION UiSpec
CONSTANTS
    Workflows = 2
    FlowPageSize = 1
    Drafts = {1, 2}
    Changing = {1}
    MaxInputs = 5
    MaxKeys = 4
    MaxChanges = 2
    MaxFaults = 1
    MaxRequests = 1
    MaxDepth = 3
INVARIANTS
    OwnHandlerOnTop
    FreshWhenQuiet
    StallAnnounced
    DraftKept
CHECK_DEADLOCK FALSE
