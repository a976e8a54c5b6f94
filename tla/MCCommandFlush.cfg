CONSTANTS
    A = A
    B = B
    S = S
    MaxSlots = 2
    GenMod = 4
    MaxGen = 2
    MaxBatch = 1
    TableComp = {A, B}
    SparseComp = {S}
    Value = {0, 1}
    Zero = 0
    RequiredBy <- MCRequiredBy
    DataSets <- MCDataSets
    sys1 = sys1
    sys2 = sys2
    ExecOrder <- MCExecOrder
    FlushOrders <- MCFlushAny
    Workloads <- MCWorkloads
    InitCap = 4
SPECIFICATION FlushSpec
INVARIANTS StoreConsistent ReservationsKept
 
