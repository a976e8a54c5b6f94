CONSTANTS
    col = col
    set = set
    e1 = e1
    e2 = e2
    Inputs = {0, 1}
    Memory = 2
    SnapshotRing = 3
    HistoryCapacity = 4
    LastTick = 4
    MaxRollbacks = 2
    Thing = {e1, e2}
    ColumnType = {col}
    SetType = {set}
    Tracked = col
    Query <- MCQuery
    LastTickOf = 2
    MaxArchetypes = 4
    MaxCalls = 4
    Refs = {1, 2}
    MaxEntities = 4
    MaxRewires = 1
    MaxSlots = 3
    GenMod = 8
    MaxGen = 3
    MaxBatch = 1
    MaxRestarts = 2
SPECIFICATION WorldsSpec
INVARIANTS
    ConfirmedTicksStand
    ChangesReported
    InstancesIsolated
    RestoreConsistent
SYMMETRY MCSymmetry
CHECK_DEADLOCK FALSE
