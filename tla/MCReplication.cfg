CONSTANTS
    v1 = v1
    v2 = v2
    e1 = e1
    e2 = e2
    c1 = c1
    c2 = c2
    Entities = {e1, e2}
    Comps = {c1, c2}
    Values = {v1, v2}
    Budget = 1
    MaxChangeTick = 1
    MaxQueue = 2
    MaxDeferrals = 2
SPECIFICATION MCSpec
INVARIANT ReplicaSound
SYMMETRY MCSymmetry
CHECK_DEADLOCK FALSE
