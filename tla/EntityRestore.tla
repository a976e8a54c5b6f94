--------------------------- MODULE EntityRestore ---------------------------
(***************************************************************************)
(* Hot reload seen from the entity allocator: the running process captures *)
(* its world, dies, and a new process pins every captured entity in a      *)
(* fresh allocator (internal/worldsnap, EntityAllocator.PlaceAt and        *)
(* RebuildFreeList).  EntityIDs stored inside components are restored as   *)
(* they were written, with no rewrite pass, so `issued` outlives the       *)
(* process.                                                                *)
(***************************************************************************)
EXTENDS EntityAllocator, FiniteSets, FiniteSetsExt

CONSTANT MaxRestarts   \* bound: number of reload cycles

ASSUME RestartsAssumption == MaxRestarts \in Nat

VARIABLES
    phase,      \* "run", or "place" while the new process restores
    spawned,    \* entities with a row in an archetype: what Capture reads
    reserved,   \* IDs command buffers have reserved and not spawned yet
    snapshot,   \* the captured entities not yet placed
    restarts

restoreVars == <<phase, spawned, reserved, snapshot, restarts>>
vars == <<allocVars, restoreVars>>

RestoreInit ==
    /\ Init
    /\ phase = "run"
    /\ spawned = {} /\ reserved = {} /\ snapshot = {}
    /\ restarts = 0

(* World.Spawn: allocate and park in an archetype. *)
Spawn(e) ==
    /\ phase = "run"
    /\ Allocate(e)
    /\ spawned' = spawned \cup {e}
    /\ UNCHANGED <<phase, reserved, snapshot, restarts>>

(* A command buffer reserves an ID now and spawns it at its flush. *)
Reserve(e) ==
    /\ phase = "run"
    /\ Allocate(e)
    /\ reserved' = reserved \cup {e}
    /\ UNCHANGED <<phase, spawned, snapshot, restarts>>

SpawnReserved(e) ==
    /\ phase = "run"
    /\ IsAlive(e)
    /\ spawned' = spawned \cup {e}
    /\ reserved' = reserved \ {e}
    /\ UNCHANGED <<allocVars, phase, snapshot, restarts>>

Despawn(e) ==
    /\ phase = "run"
    /\ Free(e)
    /\ spawned' = spawned \ {e}
    /\ reserved' = reserved \ {e}
    /\ UNCHANGED <<phase, snapshot, restarts>>

(* Capture, then restart: the new process starts from an empty allocator,  *)
(* and the command buffers with their reservations are gone.               *)
Restart ==
    /\ phase = "run"
    /\ restarts < MaxRestarts
    /\ restarts' = restarts + 1
    /\ phase' = "place"
    /\ snapshot' = spawned
    /\ spawned' = {}
    /\ reserved' = {}
    /\ generations' = [i \in Slots |-> 0]
    /\ size' = 0
    /\ freeList' = <<>>
    /\ alive' = 0
    /\ UNCHANGED issued

(* Mutant: like a fresh slot, the pinned one starts at generation 1. *)
PlaceAtFresh(i, g) ==
    /\ g # 0
    /\ size' = Max({size, i + 1})
    /\ alive' = IF generations[i] = 0 THEN alive + 1 ELSE alive
    /\ generations' = [generations EXCEPT ![i] = 1]
    /\ UNCHANGED <<freeList, issued>>

(* PlaceAt: the arena grows up to the index, slots in between stay unused, *)
(* and the live counter moves only if the slot was unused.                 *)
PlaceAt(i, g) ==
    /\ g # 0
    /\ size' = Max({size, i + 1})
    /\ alive' = IF generations[i] = 0 THEN alive + 1 ELSE alive
    /\ generations' = [generations EXCEPT ![i] = g]
    /\ UNCHANGED <<freeList, issued>>

(* One iteration of Restore's pinning loop. *)
Place(e) ==
    /\ phase = "place"
    /\ e \in snapshot
    /\ PlaceAt(e.index, e.generation)
    /\ snapshot' = snapshot \ {e}
    /\ spawned' = spawned \cup {e}
    /\ UNCHANGED <<phase, reserved, restarts>>

Gaps == {i \in Slots : i < size /\ generations[i] = 0}

(* RebuildFreeList: every unused slot becomes free at generation 1, the    *)
(* lowest index on top.                                                    *)
RebuildFreeList ==
    /\ generations' = [i \in Slots |-> IF i \in Gaps THEN 1 ELSE generations[i]]
    /\ freeList' \in {q \in [1 .. Cardinality(Gaps) -> Gaps] :
                        \A j, k \in 1 .. Cardinality(Gaps) : j < k => q[j] > q[k]}
    /\ UNCHANGED <<size, alive, issued>>

(* Every entity is placed: rebuild the free list and go on running. *)
FinishRestore ==
    /\ phase = "place"
    /\ snapshot = {}
    /\ RebuildFreeList
    /\ phase' = "run"
    /\ UNCHANGED <<spawned, reserved, snapshot, restarts>>

RestoreNext ==
    \/ \E e \in Handle : Spawn(e)
    \/ \E e \in Handle : Reserve(e)
    \/ \E e \in reserved : SpawnReserved(e)
    \/ \E e \in spawned \cup reserved : Despawn(e)
    \/ Restart
    \/ \E e \in Handle : Place(e)
    \/ FinishRestore

RestoreSpec == RestoreInit /\ [][RestoreNext]_vars

-----------------------------------------------------------------------------
(* The state has its declared shape. *)
RestoreTypeOK ==
    /\ TypeOK
    /\ phase \in {"run", "place"}
    /\ spawned \in SUBSET Handle /\ reserved \in SUBSET Handle /\ snapshot \in SUBSET Handle
    /\ restarts \in 0 .. MaxRestarts

(* l1-hot-reload INV-5.  Whatever was spawned when the snapshot was taken  *)
(* is alive under the same EntityID once the new process runs, and stays   *)
(* so until it is despawned.                                               *)
PinnedAlive == phase = "run" => \A e \in spawned : IsAlive(e)

(* allocator.go:197-204.  After any number of reloads the rebuilt free     *)
(* list still agrees with the arena, so Len() is right and no index is     *)
(* offered twice, offered while a restored entity sits on it, or offered   *)
(* at generation 0, which would make index 0 the null entity.              *)
RebuiltConsistent ==
    phase = "run" =>
        /\ FreeListConsistent
        /\ \A k \in 1 .. Len(freeList) : generations[freeList[k]] # 0
        /\ \A e \in spawned : \A k \in 1 .. Len(freeList) : freeList[k] # e.index

(* allocator.go:182-204.  Both: a reload neither loses an entity nor       *)
(* leaves an arena that will hand out one of its slots.                    *)
RestoreConsistent == PinnedAlive /\ RebuiltConsistent
=============================================================================
