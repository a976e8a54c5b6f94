CONSTANTS
    a1 = a1
    a2 = a2
    a3 = a3
    b1 = b1
    b2 = b2
    plain = plain
    r1 = r1
    r2 = r2
    t1 = t1
    t2 = t2
    k1 = k1
    k2 = k2
    k3 = k3
    c1 = c1
    c2 = c2
    agent = agent
    pipe = pipe
    web = web
    look = look
    edit = edit
    g1 = g1
    n1 = n1
    n2 = n2
    Thief = {t1, t2}
    Cell = {k1, k2, k3}
    MaxPush = 4
    InitSize = 2
    Command = {a1, a2, a3, b1, b2, plain}
    Nested <- MCNested
    NoCommand = NoCommand
    Resource = {r1, r2}
    Pass <- MCPass
    MaxPasses = 3
    MaxHeld = 2
    MaxFrame = 2
    Connection = {t1, t2}
    RpcType = {"move", "chat"}
    TypeRate <- MCRate
    GlobalRate = 1
    Resolution = 2
    LengthBase = 2
    Sizes = {1, 3}
    MaxTime = 4
    MaxSent = 3
    MaxNoise = 1
    Caller = {c1, c2}
    Agent = {agent}
    Link = {pipe, web}
    Stdio = {pipe}
    Method = {look, edit}
    Needs <- MCNeeds
    Grant <- MCGrant
    MaxRequests = 2
    GraphID = {g1}
    GraphNode = {n1, n2}
    MaxTrace = 2
    MaxSteps = 3
    MaxReplays = 2
    Cap = {"read", "net", "fs", "spawn"}
    Automatic = {"read"}
    Prompted = {"net", "fs"}
    MaxSessions = 2
SPECIFICATION ServicesSpec
INVARIANTS
    TasksConserved
    InOrderUnlessNested
    FrameSound
    RpcLimitsExact
    DispatchesAccounted
    DebugFaithful
    PluginContained
SYMMETRY MCSymmetry
CHECK_DEADLOCK FALSE
