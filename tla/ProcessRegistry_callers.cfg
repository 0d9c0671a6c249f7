SPECIFICATION PRFairSpec
CONSTANTS
    MaxCallers = 3
    ChannelSize = 1
    MaxLines = 1
    MaxStarting = 2
    MaxTroubles = 1
INVARIANTS OneProcess
PROPERTIES ExitHeard StreamsEnd
CHECK_DEADLOCK FALSE
