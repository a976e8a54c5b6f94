--------------------------- MODULE MCComputePool ---------------------------
(* TLC instances of ComputePool: two workers with up to two callers at a   *)
(* time, and the smallest set of callers for each violation run.           *)
EXTENDS ComputePool

CONSTANTS s1, s2, b1, r1

MCTeams == {{s1, s2}, {s1, b1}, {r1}, {r1, b1}}
MCSpawnerOnly == {{s1}}
MCBlockerOnly == {{b1}}
MCSpawns == [c \in {s1, s2, b1, r1} |-> IF c = r1 THEN 2 ELSE 1]
MCTwoEach == [c \in {s1, s2, b1, r1} |-> 2]
=============================================================================
