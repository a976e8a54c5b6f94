CONSTANTS
    MaxSlots = 3
    GenMod = 8
    MaxGen = 3
    MaxBatch = 3
SPECIFICATION Spec
INVARIANTS FreeListConsistent FreshOnReuse
PROPERTY LedgerSpec
