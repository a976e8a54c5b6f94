CONSTANTS
    Paths = {p, q}
    p = p
    q = q
    IOMaxThreads = 1
    MaxLoads = 2
    MaxHandles = 2
    Watched = {p}
    MaxEdits = 2
    MaxMisuses = 1
SPECIFICATION MCSpec
INVARIANTS HandlesResolve LatestUnlessLate
PROPERTY LoadsSettle
CHECK_DEADLOCK FALSE
