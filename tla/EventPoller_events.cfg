SPECIFICATION FairSpec
CONSTANTS
    Databases = {"ticket"}
    Listeners = {"l1", "l2"}
    ChannelCap = 1
    MaxId = 2
    MaxFaults = 1
INVARIANTS NotLost OnceInOrder
PROPERTIES EventuallyRead
