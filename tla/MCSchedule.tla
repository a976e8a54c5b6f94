----------------------------- MODULE MCSchedule -----------------------------
(* TLC instance of Schedule: three systems over two components.  The one   *)
(* that reads both conflicts with the other two.                           *)
EXTENDS Schedule, TLC

CONSTANTS a, b, c, X, Y, S, T

SetSymmetry == Permutations({S, T})

MCReads == (a :> {}) @@ (b :> {X, Y}) @@ (c :> {})
MCWrites == (a :> {X}) @@ (b :> {}) @@ (c :> {})
MCExcludes == (a :> {}) @@ (b :> {}) @@ (c :> {Y})
=============================================================================
