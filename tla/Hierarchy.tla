------------------------------ MODULE Hierarchy ------------------------------
(***************************************************************************)
(* internal/ecs/hierarchy: the ChildOf component of a child and the        *)
(* Children component of its parent are two copies of one relation, kept   *)
(* in step by the hierarchy commands, and walked in opposite directions by *)
(* the commands and by transform propagation.  World.Despawn and scene     *)
(* instantiation (internal/definition) touch only one of the copies.       *)
(* A command takes effect when its buffer is flushed; by then its entities *)
(* may be gone.                                                            *)
(***************************************************************************)
EXTENDS Naturals, Sequences, FiniteSets, SequencesExt

CONSTANTS
    Entity,        \* entity handles, never reused
    NoEntity,      \* stands for "no ChildOf component"
    Bare           \* entities without a Transform

ASSUME HierarchyAssumption == IsFiniteSet(Entity) /\ NoEntity \notin Entity /\ Bare \subseteq Entity

VARIABLES
    spawned,    \* entities spawned so far
    alive,
    parent,     \* [Entity -> Entity or NoEntity]: ChildOf
    children,   \* [Entity -> Seq(Entity)]: Children
    global,     \* [Entity -> GlobalTransform]: whose Transforms it is composed of
    unlisted    \* history: children that a scene gave a ChildOf and nothing else

hierarchyVars == <<spawned, alive, parent, children, global, unlisted>>

HierarchyInit ==
    /\ spawned = {} /\ alive = {}
    /\ parent = [e \in Entity |-> NoEntity]
    /\ children = [e \in Entity |-> <<>>]
    /\ global = [e \in Entity |-> <<>>]
    /\ unlisted = {}

Spawn(e) ==
    /\ e \notin spawned
    /\ spawned' = spawned \cup {e} /\ alive' = alive \cup {e}
    /\ UNCHANGED <<parent, children, global, unlisted>>

-----------------------------------------------------------------------------
(* Steps up the ChildOf chain; a dead entity has no component left.        *)
Up(e) == IF e \in alive THEN parent[e] ELSE NoEntity

(* e and what it hangs from.                                               *)
Chain(e) ==
    LET walk[k \in 0 .. Cardinality(Entity)] ==
            IF k = 0 THEN {e} ELSE walk[k - 1] \cup {Up(a) : a \in walk[k - 1] \cap Entity}
    IN  walk[Cardinality(Entity)] \ {NoEntity}

WouldCreateCycle(p, child) == child \in Chain(p)

(* Mutant: the list is left as it is. *)
UnlinkedNever(lists, p, child) == lists

(* unlinkChild: the first occurrence is cut out of p's list. *)
Unlinked(lists, p, child) ==
    IF p \in alive THEN [lists EXCEPT ![p] = RemoveFirst(@, child)] ELSE lists

(* AddChild and SetParent. *)
AddChild(p, child) ==
    /\ p \in alive /\ child \in alive
    /\ ~WouldCreateCycle(p, child)
    /\ LET cut == IF parent[child] # NoEntity THEN Unlinked(children, parent[child], child) ELSE children
       IN  children' = [cut EXCEPT ![p] = Append(@, child)]
    /\ parent' = [parent EXCEPT ![child] = p]
    /\ unlisted' = unlisted \ {child}
    /\ UNCHANGED <<spawned, alive, global>>

RemoveParent(child) ==
    /\ child \in alive /\ parent[child] # NoEntity
    /\ children' = Unlinked(children, parent[child], child)
    /\ parent' = [parent EXCEPT ![child] = NoEntity]
    /\ unlisted' = unlisted \ {child}
    /\ UNCHANGED <<spawned, alive, global>>

Buried(dead) ==
    /\ alive' = alive \ dead
    /\ parent' = [e \in Entity |-> IF e \in dead THEN NoEntity ELSE parent[e]]
    /\ children' = [e \in Entity |-> IF e \in dead THEN <<>> ELSE children[e]]
    /\ unlisted' = unlisted \ dead
    /\ UNCHANGED <<spawned, global>>

(* World.Despawn, from a system or from Instance.Despawn: the components   *)
(* go, and nothing else is told.                                           *)
Despawn(e) == e \in alive /\ Buried({e})

(* Mutant: only the direct children are despawned. *)
DespawnRecursiveShallow(e) == e \in alive /\ Buried({e} \cup (ToSet(children[e]) \cap alive))

(* e and what its Children lists lead to. *)
Below(e) ==
    LET below[k \in 0 .. Cardinality(Entity)] ==
            IF k = 0 THEN {e}
            ELSE below[k - 1] \cup ((UNION {ToSet(children[d]) : d \in below[k - 1]}) \cap alive)
    IN  below[Cardinality(Entity)]

(* DespawnRecursive: down the Children lists; e's own parent keeps it in   *)
(* its list.                                                               *)
DespawnRecursive(e) == e \in alive /\ Buried(Below(e))

(* worldSink.SetParent: a scene inserts ChildOf and leaves Children alone. *)
(* Its entities are new, and form a tree.                                  *)
InstantiateUnder(p, child) ==
    /\ p \in alive /\ child \in alive
    /\ parent[child] = NoEntity /\ children[child] = <<>>
    /\ ~WouldCreateCycle(p, child)
    /\ parent' = [parent EXCEPT ![child] = p]
    /\ unlisted' = unlisted \cup {child}
    /\ UNCHANGED <<spawned, alive, children, global>>

(* Mutant: a child is composed with its parent's own Transform. *)
VisitsLocal ==
    LET visits[k \in 0 .. Cardinality(Entity)] ==
            IF k = 0 THEN {<<e, <<e>>>> : e \in {r \in alive \ Bare : parent[r] = NoEntity}}
            ELSE visits[k - 1] \cup
                 UNION {{<<c, <<v[1]>> \o <<c>>>> : c \in (ToSet(children[v[1]]) \cap alive) \ Bare} : v \in visits[k - 1]}
    IN  visits[Cardinality(Entity)]

(* propagateTransforms: the entities it visits, with what it writes: from  *)
(* the roots that have a Transform down the Children lists, not past an    *)
(* entity without one.                                                     *)
Visits ==
    LET visits[k \in 0 .. Cardinality(Entity)] ==
            IF k = 0 THEN {<<e, <<e>>>> : e \in {r \in alive \ Bare : parent[r] = NoEntity}}
            ELSE visits[k - 1] \cup
                 UNION {{<<c, v[2] \o <<c>>>> : c \in (ToSet(children[v[1]]) \cap alive) \ Bare} : v \in visits[k - 1]}
    IN  visits[Cardinality(Entity)]

PropagateTransforms ==
    /\ UNCHANGED <<spawned, alive, parent, children, unlisted>>
    /\ LET visits == Visits IN
       global' = [e \in Entity |->
                    LET written == {v[2] : v \in {u \in visits : u[1] = e}}
                    IN  IF written = {} THEN global[e] ELSE CHOOSE g \in written : TRUE]

HierarchyNext ==
    \/ \E e \in Entity : Spawn(e)
    \/ \E p, child \in Entity : AddChild(p, child) \/ InstantiateUnder(p, child)
    \/ \E e \in Entity : RemoveParent(e) \/ Despawn(e) \/ DespawnRecursive(e)
    \/ PropagateTransforms

HierarchySpec == HierarchyInit /\ [][HierarchyNext]_hierarchyVars

-----------------------------------------------------------------------------
Occurrences(p, c) == Cardinality({k \in DOMAIN children[p] : children[p][k] = c})

(* l1-hierarchy-system INV-1, INV-2 and INV-5.  The two copies describe    *)
(* one forest, whatever order the commands of a frame are flushed in: no   *)
(* entity hangs from itself, and among living entities a child is listed   *)
(* by nobody but its parent, never twice, and once, unless a scene placed  *)
(* it (ChildrenMaintained is what the documents say of that).              *)
Forest ==
    /\ \A e \in alive : parent[e] # NoEntity => e \notin Chain(parent[e])
    /\ \A p, c \in alive :
          /\ parent[c] # p => Occurrences(p, c) = 0
          /\ parent[c] = p => Occurrences(p, c) <= 1 /\ (Occurrences(p, c) = 1 \/ c \in unlisted)

(* relationship.go:21, l1-hierarchy-system INV-1.  Children is maintained  *)
(* automatically: whoever is given a ChildOf is listed by its parent.      *)
ChildrenMaintained == \A c \in alive : parent[c] \in alive => Occurrences(parent[c], c) = 1

(* l1-hierarchy-system INV-3.  Despawning a parent despawns its children.  *)
NoOrphans == \A c \in alive : parent[c] # NoEntity => parent[c] \in alive

(* l1-hierarchy-system INV-3.  DespawnRecursive leaves no living entity    *)
(* below the one it was called for, except below a child placed by a scene *)
(* or below an entity that World.Despawn took out of the middle.           *)
SubtreeGone ==
    [][\A e \in alive \ alive' : DespawnRecursive(e) =>
          \A d \in alive' : e \in Chain(d) => Chain(d) \cap unlisted # {}]_hierarchyVars

(* The entities a reader of ChildOf expects propagation to reach.          *)
Rooted(e) ==
    Chain(e) \subseteq alive \ (Bare \cup unlisted)

(* The entities from a root down to e, each hanging from the one before.   *)
LeadsTo(path, e) ==
    /\ path \in Seq(Entity) /\ path # <<>> /\ path[Len(path)] = e
    /\ parent[path[1]] = NoEntity
    /\ \A i \in 2 .. Len(path) : parent[path[i]] = path[i - 1]

(* l1-hierarchy-system INV-4.  After propagation the global transform of   *)
(* every entity is the composition of the Transforms along its ChildOf     *)
(* chain.  Only an entity whose chain has a dead or bare entity, or one    *)
(* placed by a scene, may be left as it was; none gets anything else.      *)
GlobalsFollowLinks ==
    [][PropagateTransforms =>
          \A e \in alive \ Bare :
              LeadsTo(global'[e], e) \/ (~Rooted(e) /\ global'[e] = global[e])]_hierarchyVars

(* The same, without the exception for what a scene placed.                *)
GlobalsConsistent ==
    [][PropagateTransforms =>
          \A e \in alive \ Bare : Chain(e) \subseteq alive \ Bare => LeadsTo(global'[e], e)]_hierarchyVars
=============================================================================
