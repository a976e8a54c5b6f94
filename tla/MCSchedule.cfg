CONSTANTS
    a = a
    b = b
    c = c
    X = X
    Y = Y
    S = S
    T = T
    NoName = NoName
    Name = {a, b, c}
    Set = {S, T}
    Reads <- MCReads
    Writes <- MCWrites
    Excludes <- MCExcludes
    MaxWork = 3
    MaxCommands = 1
SYMMETRY SetSymmetry
SPECIFICATION ScheduleSpec
INVARIANTS OrderSound FailsOnlyOnCycle CommandsKept
CHECK_DEADLOCK FALSE
