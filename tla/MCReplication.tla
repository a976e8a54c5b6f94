---------------------------- MODULE MCReplication ----------------------------
(***************************************************************************)
(* TLC instance of Replication: two entities share a budget of one         *)
(* component.  A behaviour has one of two loads.  With one component,      *)
(* anything may be lost, late, hidden or gone.  With two, an update of     *)
(* both never fits; there nobody goes, nothing is hidden or lost, and one  *)
(* message at a time is on the way.                                        *)
(***************************************************************************)
EXTENDS Replication, TLC

CONSTANTS e1, e2, v1, v2, c1, c2

MCSymmetry == Permutations({e1, e2}) \cup Permutations({v1, v2}) \cup Permutations({c1, c2})

VARIABLE load   \* the components and values that are written

Loads ==
    {[comps |-> {c}, values |-> Values] : c \in Comps} \cup
    {[comps |-> Comps, values |-> {v}] : v \in Values}

WithinLoad ==
    \A e \in Entities, c \in Comps :
        comps'[e][c] # 0 => c \in load.comps /\ comps'[e][c] \in load.values

Calm ==
    /\ alive \subseteq alive' /\ vis \subseteq vis' /\ lost' = {}
    /\ \A e, f \in Entities : wire'[e] # <<>> /\ wire'[f] # <<>> => e = f /\ Len(wire'[e]) = 1

MCInit == ReplicationInit /\ load \in Loads

MCNext ==
    /\ ReplicationNext /\ WithinLoad
    /\ load.comps = Comps => Calm
    /\ UNCHANGED load

MCSpec == MCInit /\ [][MCNext]_<<replicationVars, load>>
=============================================================================
