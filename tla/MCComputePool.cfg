CONSTANTS
    s1 = s1
    s2 = s2
    b1 = b1
    r1 = r1
    Worker = {w1, w2}
    Spawner = {s1, s2}
    Blocker = {b1}
    Scoper = {r1}
    Teams <- MCTeams
    Spawns <- MCSpawns
SPECIFICATION Spec
INVARIANTS RunsOnce ScopeOutlivesChildren RestMeansDone
PROPERTY EveryoneReturns
CHECK_DEADLOCK FALSE
