--------------------------- MODULE MCCommandFlush ---------------------------
(* TLC instance of CommandFlush: two slots, two table components of which  *)
(* B requires A, one sparse component, two systems.                        *)
EXTENDS CommandFlush, TLC

CONSTANTS A, B, S, sys1, sys2

MCRequiredBy == (A :> {}) @@ (B :> {A}) @@ (S :> {})
MCDataSets == {Nothing, A :> 1, B :> 1, S :> 1}
MCExecOrder == <<sys1, sys2>>
MCFlushAny == {<<sys1, sys2>>, <<sys2, sys1>>}
MCDirectOnly == {[data |-> MCDataSets, queue |-> 0]}
MCWorkloads == MCDirectOnly \cup {[data |-> {Nothing, A :> 1}, queue |-> 2]}
=============================================================================
