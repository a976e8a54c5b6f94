CONSTANTS
    WinCap = 3
    DedupWidth = 2
    AckWidth = 2
    Modes = {"ordered", "unordered"}
    MaxMsg = 4
    MaxDatagram = 3
    p1 = p1
    old = old
    Client = {p1, old}
    Outdated = {old}
    MaxConnections = 1
    EventCap = 4
    MaxConnects = 2
    MaxAccepts = 3
SPECIFICATION NetworkingSpec
INVARIANTS
    ReliableDelivery
    HandshakeSound
CHECK_DEADLOCK FALSE
