---------------------------- MODULE EntityLedger ----------------------------
(***************************************************************************)
(* What the entity allocator promises to the rest of the engine            *)
(* (l1-entity-system INV-1, INV-2), with no slots, generations or free     *)
(* list: a handle is handed out at most once, is alive from the moment it  *)
(* is handed out until it is retired, and once retired is dead for ever.   *)
(***************************************************************************)
CONSTANT Handle

VARIABLES
    issued,   \* every handle ever handed out
    live      \* the handles IsAlive answers TRUE for

ledgerVars == <<issued, live>>

Init == issued = {} /\ live = {}

(* Hand out handles nobody has seen before; they are alive at once and     *)
(* nobody else dies.                                                       *)
Issue ==
    /\ issued' \subseteq Handle
    /\ issued \subseteq issued'
    /\ issued' # issued
    /\ live' = live \cup (issued' \ issued)

(* A live handle dies; the others are untouched. *)
Retire(e) ==
    /\ e \in live
    /\ live' = live \ {e}
    /\ UNCHANGED issued

Next ==
    \/ Issue
    \/ \E e \in Handle : Retire(e)

Spec == Init /\ [][Next]_ledgerVars
=============================================================================
