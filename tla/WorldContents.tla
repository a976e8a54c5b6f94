--------------------------- MODULE WorldContents ---------------------------
(***************************************************************************)
(* What the World promises its users (l1-world-system, l1-component-       *)
(* system): every spawned entity carries a set of components with values,  *)
(* and an operation on one entity leaves every other entity alone.  There  *)
(* are no archetypes, rows, tables or sparse sets here.                    *)
(***************************************************************************)
CONSTANTS
    Handle, Component,
    Data,          \* what an insertion may supply: component -> value
    Resolve(_)     \* the values an insertion writes, required components included

VARIABLE contents  \* entity -> component -> value, for the spawned entities

Init == contents = [e \in {} |-> {}]

Overwrite(old, new) ==
    [c \in DOMAIN old \cup DOMAIN new |-> IF c \in DOMAIN new THEN new[c] ELSE old[c]]

Put(e, v) == [x \in DOMAIN contents \cup {e} |-> IF x = e THEN v ELSE contents[x]]

Spawn(e, data) ==
    /\ e \notin DOMAIN contents
    /\ contents' = Put(e, Resolve(data))

Insert(e, data) ==
    /\ e \in DOMAIN contents
    /\ contents' = Put(e, Overwrite(contents[e], Resolve(data)))

Remove(e, c) ==
    /\ e \in DOMAIN contents
    /\ c \in DOMAIN contents[e]
    /\ contents' = Put(e, [x \in DOMAIN contents[e] \ {c} |-> contents[e][x]])

Despawn(e) ==
    /\ e \in DOMAIN contents
    /\ contents' = [x \in DOMAIN contents \ {e} |-> contents[x]]

Next ==
    \E e \in Handle :
        \/ \E data \in Data : Spawn(e, data) \/ Insert(e, data)
        \/ \E c \in Component : Remove(e, c)
        \/ Despawn(e)

Spec == Init /\ [][Next]_contents
=============================================================================
