------------------------------- MODULE Scenes -------------------------------
(***************************************************************************)
(* pkg/scene: a DynamicScene is captured from a World and spawned into it  *)
(* any number of times; references between its entities have to lead into  *)
(* the same instance.  A component has an EntityID field and a slice of    *)
(* one EntityID, which is where Go shares memory: a slice is an address,   *)
(* and what it holds is in the heap.  The calls are the application's, one *)
(* at a time.  Entity IDs are not reused: they include the generation.     *)
(***************************************************************************)
EXTENDS Naturals, Sequences, FiniteSets, SequencesExt

CONSTANTS
    Refs,           \* EntityIDs the application stores
    MaxEntities,    \* bound: entities ever spawned
    MaxRewires      \* bound: changes the application makes

ASSUME SceneAssumption == Refs \subseteq Nat /\ {MaxEntities, MaxRewires} \subseteq Nat

VARIABLES
    world,       \* entity -> [field, slice]
    heap,        \* address -> the EntityID the slice holds
    nextEntity,  \* the arena
    scene,       \* DynamicScene.entities: [id, field, slice]
    instances,   \* SceneSpawner.instances: the entities of each, none when despawned
    \* ghosts
    captured,    \* id -> [field, held] as it was when the scene was built
    origin,      \* entity of an instance -> [made, of, captured] of its Spawn
    rewires      \* changes so far

sceneVars == <<world, heap, nextEntity, scene, instances, captured, origin, rewires>>

SceneInit ==
    /\ world = << >> /\ heap = <<>> /\ nextEntity = 1
    /\ scene = <<>> /\ instances = <<>>
    /\ captured = << >> /\ origin = << >> /\ rewires = 0

Merge(f, g) == [x \in DOMAIN f \cup DOMAIN g |-> IF x \in DOMAIN g THEN g[x] ELSE f[x]]

-----------------------------------------------------------------------------
(* The application spawns entities and changes them, slices in place; it   *)
(* despawns one of its own, what is in an instance goes with that.         *)
SpawnRefs(ref) ==
    /\ nextEntity <= MaxEntities
    /\ nextEntity' = nextEntity + 1
    /\ heap' = Append(heap, ref)
    /\ world' = Merge(world, [e \in {nextEntity} |-> [field |-> ref, slice |-> Len(heap) + 1]])
    /\ UNCHANGED <<scene, instances, captured, origin, rewires>>

Rewire(e, ref) ==
    /\ e \notin DOMAIN origin /\ rewires < MaxRewires
    /\ rewires' = rewires + 1
    /\ world' = [world EXCEPT ![e].field = ref]
    /\ heap' = [heap EXCEPT ![world[e].slice] = ref]
    /\ UNCHANGED <<nextEntity, scene, instances, captured, origin>>

(* DynamicSceneBuilder.Build: the copy of a value shares its slice.  Here  *)
(* the entities come by ID, there by archetype and row.                    *)
ByID(only) == {listed \in SetToSeqs(only) : \A j, k \in DOMAIN listed : j < k => listed[j] < listed[k]}

BuildScene(only) ==
    \E listed \in ByID(only) :
    /\ scene' = [k \in DOMAIN listed |-> [id |-> listed[k], field |-> world[listed[k]].field, slice |-> world[listed[k]].slice]]
    /\ captured' = [e \in only |-> [field |-> world[e].field, held |-> heap[world[e].slice]]]
    /\ UNCHANGED <<world, heap, nextEntity, instances, origin, rewires>>

Counterpart(k) == nextEntity + k - 1
Position(id) == SelectInSeq(scene, LAMBDA entry : entry.id = id)

(* Mutant: in one pass, a reference forward has no counterpart yet. *)
RemappedOnePass(k, ref) == IF Position(ref) \in 1 .. k THEN Counterpart(Position(ref)) ELSE ref

(* remapEntityIDs: the table has every entity of the scene by then. *)
Remapped(k, ref) == IF Position(ref) # 0 THEN Counterpart(Position(ref)) ELSE ref

(* SceneSpawner.Spawn and WorldAdapter.  Pass 2 rewrites the field of the  *)
(* copy, and the slice, which the copy shares, where it is.                *)
SpawnInstance ==
    LET entities == {Counterpart(k) : k \in DOMAIN scene}
        position(e) == e - nextEntity + 1
    IN
    /\ scene # <<>> /\ nextEntity + Len(scene) - 1 <= MaxEntities
    /\ nextEntity' = nextEntity + Len(scene)
    /\ world' = Merge(world, [e \in entities |-> [field |-> Remapped(position(e), scene[position(e)].field),
                                                  slice |-> scene[position(e)].slice]])
    /\ heap' = FoldLeft(LAMBDA h, k : [h EXCEPT ![scene[k].slice] = Remapped(k, @)], heap, [k \in DOMAIN scene |-> k])
    /\ instances' = Append(instances, entities)
    /\ origin' = Merge(origin, [e \in entities |->
                    [made |-> [id \in DOMAIN captured |-> Counterpart(Position(id))],
                     of |-> scene[position(e)].id, captured |-> captured]])
    /\ UNCHANGED <<scene, captured, rewires>>

Despawned(gone) ==
    /\ world' = [e \in DOMAIN world \ gone |-> world[e]]
    /\ UNCHANGED <<heap, nextEntity, scene, captured, origin, rewires>>

DespawnOne(e) == e \notin DOMAIN origin /\ Despawned({e}) /\ UNCHANGED instances

DespawnInstance(i) ==
    /\ instances[i] # {}
    /\ Despawned(instances[i])
    /\ instances' = [instances EXCEPT ![i] = {}]

SceneNext ==
    \/ \E ref \in Refs : SpawnRefs(ref)
    \/ \E e \in DOMAIN world : DespawnOne(e) \/ \E ref \in Refs : Rewire(e, ref)
    \/ \E only \in SUBSET DOMAIN world \ {{}} : BuildScene(only)
    \/ SpawnInstance
    \/ \E i \in DOMAIN instances : DespawnInstance(i)

SceneSpec == SceneInit /\ [][SceneNext]_sceneVars

-----------------------------------------------------------------------------
(* What a captured reference has to be in an instance. *)
Translated(o, ref) == IF ref \in DOMAIN o.made THEN o.made[ref] ELSE ref

(* INV-4 and INV-5 (dynamic.go:15, spawn.go:41).  However often a scene is *)
(* spawned, whatever becomes of the entities it was captured from and of   *)
(* its other instances: a field that referred to a captured entity refers  *)
(* to that entity's counterpart of the same instance, any other field to   *)
(* what it did; and no entity belongs to two instances.                    *)
InstancesIsolated ==
    /\ \A e \in DOMAIN world \cap DOMAIN origin :
        LET o == origin[e] IN world[e].field = Translated(o, o.captured[o.of].field)
    /\ \A i, j \in DOMAIN instances : i # j => instances[i] \cap instances[j] = {}
    /\ \A k \in DOMAIN scene : scene[k].field = captured[scene[k].id].field

(* dynamic.go:35, "deep copy -- not connected to the source World".  The   *)
(* scene's slices are the world's.                                         *)
SceneFrozen == \A k \in DOMAIN scene : heap[scene[k].slice] = captured[scene[k].id].held

(* spawn.go:61, "Deep-copy each component value".  Instances share their   *)
(* slices, and the second one finds the first one's entities there.        *)
SlicesIsolated ==
    \A e \in DOMAIN world \cap DOMAIN origin :
        LET o == origin[e] IN heap[world[e].slice] = Translated(o, o.captured[o.of].held)
=============================================================================
