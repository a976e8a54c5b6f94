CONSTANTS
    early = early
    late = late
    some = some
    menu = menu
    play = play
    Reader = {early, late, some}
    Position <- MCPosition
    Steady = {early, late}
    State = {menu, play}
    None = None
    InitialState = menu
    Code = {0, 1, 2}
    MaxFrames = 3
    MaxSent = 3
    MaxChanges = 2
    Capacity = 2
    MaxMessages = 4
    MaxReaders = 2
    MaxDepth = 2
    MaxReads = 3
    a = a
    b = b
    c = c
    d = d
    NoEntity = NoEntity
    Entity = {a, b, c, d}
    Bare = {d}
SPECIFICATION FacilitiesSpec
INVARIANTS
    ChangeSeenOnce
    Forest
PROPERTIES
    BusesDeliver RingReadsInOrder
    SubtreeGone GlobalsFollowLinks
SYMMETRY EntitySymmetry
CHECK_DEADLOCK FALSE
