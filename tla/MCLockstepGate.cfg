CONSTANTS
    Nodes = {1, 2}
    InputDelay = 2
    InputRing = 4
    ChecksumInterval = 2
    SnapshotCapacity = 2
    TimeoutFrames = 1
    MaxTick = 4
    MaxInFlight = 1
    Fickle = {1}
SPECIFICATION LockstepSpec
INVARIANT NoTickWithoutInputs
CHECK_DEADLOCK FALSE
