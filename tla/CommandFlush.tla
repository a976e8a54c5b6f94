---------------------------- MODULE CommandFlush ----------------------------
(***************************************************************************)
(* Deferred mutation (internal/ecs/command): in a tick every system runs   *)
(* in execution order and pushes commands on its own buffer, reserving the *)
(* IDs of the entities it spawns; World.ApplyDeferred then flushes the     *)
(* buffers, each in FIFO order, in the order they were registered.         *)
(* Exclusive systems also call the World directly while systems run.       *)
(*                                                                         *)
(* Nothing keeps a call from breaking the World: `broken` says whether and *)
(* how one did, and the World is followed no further than that call.       *)
(***************************************************************************)
EXTENDS WorldStore, FiniteSetsExt

CONSTANTS
    ExecOrder,     \* the systems, in the order the executor runs them
    FlushOrders,   \* the orders their buffers may have been registered in
    Workloads      \* bound: [data, queue], the data that is written and the
                   \* number of commands pending at a time, chosen together

System == {ExecOrder[i] : i \in 1 .. Len(ExecOrder)}

ASSUME FlushAssumption ==
    /\ Len(ExecOrder) \in Nat \ {0}
    /\ \A i, j \in 1 .. Len(ExecOrder) : ExecOrder[i] = ExecOrder[j] => i = j
    /\ \A order \in FlushOrders : order \in Seq(System) /\ order # <<>>
    /\ \A w \in Workloads : w.data \subseteq DataSets /\ w.queue \in Nat

VARIABLES
    flushOrder,    \* World.deferredFlushers
    buffer,        \* the pending commands of each system
    phase,         \* "run": systems execute; "flush": ApplyDeferred
    at,            \* position in ExecOrder or in flushOrder
    broken,        \* what the last call did to the World, "no" while it is whole:
                   \*   "stale"     it shortened the entity list of an abandoned archetype
                   \*   "panicked"  it evicted from an empty list
                   \*   "unplaced"  it evicted another entity's row
                   \*   "revived"   it placed an entity that is dead
    reached,       \* history: the Inserts and Despawns that reached an entity
                   \* between its reservation and its spawn command
    load           \* the workload of this run

flushVars == <<flushOrder, buffer, phase, at, broken, reached, load>>
vars == <<allocVars, store, flushVars>>

FlushInit ==
    /\ StoreInit
    /\ flushOrder \in FlushOrders
    /\ buffer = [s \in System |-> <<>>]
    /\ phase = "run" /\ at = 1
    /\ broken = "no"
    /\ reached = {}
    /\ load \in Workloads

Pending == UNION {{buffer[s][i] : i \in 1 .. Len(buffer[s])} : s \in System}

QueueLength == MapThenSumSet(LAMBDA s : Len(buffer[s]), System)

-----------------------------------------------------------------------------
(* The World's operations, called directly (by = "call") or by a command   *)
(* of a flush ("command"), and what they do to it.                         *)

(* The archetype an entity leaves is taken before findOrCreate. *)
Migrating(arch) == IF Stale(store, arch) THEN "stale" ELSE "no"

Reach(e, by) ==
    reached' = IF HasRecord(e) THEN reached ELSE reached \cup {[target |-> e, by |-> by]}

CallInsert(e, data, by) ==
    /\ data # Nothing
    /\ Insert(e, data)
    /\ broken' = IF HasRecord(e) THEN Migrating(store.records[e].arch \cup DOMAIN ResolveData(data))
                 ELSE IF Panics(e, data) THEN "panicked" ELSE "unplaced"
    /\ Reach(e, by)

CallRemove(e, c) ==
    /\ Remove(e, c)
    /\ broken' = Migrating(store.records[e].arch \ {c})
    /\ UNCHANGED reached

CallDespawn(e, by) ==
    /\ Despawn(e)
    /\ Reach(e, by)
    /\ UNCHANGED broken

-----------------------------------------------------------------------------
Running == phase = "run" /\ broken = "no"

(* CommandBuffer.Push, on the buffer of the system that is running. *)
Push(cmd) ==
    /\ Running
    /\ QueueLength < load.queue
    /\ buffer' = [buffer EXCEPT ![ExecOrder[at]] = Append(@, cmd)]
    /\ UNCHANGED <<flushOrder, phase, at, broken, reached, load, store>>

(* Commands.Spawn: the ID is reserved at once and alive from now on. *)
PushSpawn(e, data) ==
    /\ Allocate(e)
    /\ Push([op |-> "spawn", target |-> e, data |-> data])

PushInsert(e, data) ==
    /\ Push([op |-> "insert", target |-> e, data |-> data])
    /\ UNCHANGED allocVars

PushRemove(e, c) ==
    /\ Push([op |-> "remove", target |-> e, comp |-> c])
    /\ UNCHANGED allocVars

PushDespawn(e) ==
    /\ e.generation < MaxGen
    /\ Push([op |-> "despawn", target |-> e])
    /\ UNCHANGED allocVars

(* The next system runs; after the last one comes the apply point.  (A     *)
(* workload without commands never needs one.)                             *)
EndSystem ==
    /\ Running
    /\ load.queue > 0
    /\ IF at < Len(ExecOrder) THEN at' = at + 1 /\ UNCHANGED phase
       ELSE at' = 1 /\ phase' = "flush"
    /\ UNCHANGED <<allocVars, store, flushOrder, buffer, broken, reached, load>>

(* An exclusive system calls the World, on any entity it has heard of. *)
Direct ==
    /\ Running
    /\ \/ \E e \in Handle, data \in load.data : Spawn(e, data) /\ UNCHANGED <<broken, reached>>
       \/ \E e \in issued :
            \/ \E data \in load.data : CallInsert(e, data, "call")
            \/ \E c \in Component : CallRemove(e, c)
            \/ CallDespawn(e, "call")
            \/ OnDead(e) /\ UNCHANGED <<broken, reached>>
    /\ UNCHANGED <<flushOrder, buffer, phase, at, load>>

-----------------------------------------------------------------------------
Flushing == phase = "flush" /\ at <= Len(flushOrder) /\ broken = "no"
Current == buffer[flushOrder[at]]
Cmd == Head(Current)
PopCommand == buffer' = [buffer EXCEPT ![flushOrder[at]] = Tail(@)]

(* SpawnCommand and SpawnEmptyCommand do not ask whether the ID is alive. *)
ApplySpawn ==
    /\ Cmd.op = "spawn"
    /\ store' = Placed(store, Cmd.target, Cmd.data)
    /\ broken' = IF IsAlive(Cmd.target) THEN "no" ELSE "revived"
    /\ UNCHANGED <<allocVars, reached>>

ApplyInsert ==
    /\ Cmd.op = "insert"
    /\ CallInsert(Cmd.target, Cmd.data, "command")

ApplyRemove ==
    /\ Cmd.op = "remove"
    /\ CallRemove(Cmd.target, Cmd.comp)

ApplyDespawn ==
    /\ Cmd.op = "despawn"
    /\ CallDespawn(Cmd.target, "command")

(* A dead target, or a component the entity does not carry. *)
ApplyNothing ==
    /\ Cmd.op # "spawn"
    /\ \/ ~IsAlive(Cmd.target)
       \/ Cmd.op = "remove" /\ Cmd.comp \notin Record(store, Cmd.target).arch
    /\ UNCHANGED <<allocVars, store, broken, reached>>

ApplyCommand ==
    /\ Flushing
    /\ Current # <<>>
    /\ ApplySpawn \/ ApplyInsert \/ ApplyRemove \/ ApplyDespawn \/ ApplyNothing
    /\ PopCommand
    /\ UNCHANGED <<flushOrder, phase, at, load>>

(* Flush of one buffer done: the next one, or the next tick. *)
EndFlush ==
    /\ Flushing
    /\ Current = <<>>
    /\ IF at < Len(flushOrder) THEN at' = at + 1 /\ UNCHANGED phase
       ELSE at' = 1 /\ phase' = "run"
    /\ UNCHANGED <<allocVars, store, flushOrder, buffer, broken, reached, load>>

(* The World is followed no further. *)
Broken == broken # "no" /\ UNCHANGED vars

FlushNext ==
    \/ Direct
    \/ \E e \in Handle, data \in load.data : PushSpawn(e, data)
    \/ \E e \in issued :
        \/ \E data \in load.data \ {Nothing} : PushInsert(e, data)
        \/ \E c \in Component : PushRemove(e, c)
        \/ PushDespawn(e)
    \/ EndSystem
    \/ ApplyCommand
    \/ EndFlush
    \/ Broken

FlushSpec == FlushInit /\ [][FlushNext]_vars
-----------------------------------------------------------------------------
(* archetype.go:28-30 and l1-world-system INV-2.  After every call that    *)
(* left the World whole, whatever systems and commands did before, the     *)
(* records, the entity lists, the tables and the sparse sets agree.        *)
StoreConsistent == broken = "no" => StoreAgrees

(* The IDs that are alive and have no place in the World. *)
Reserved == {e \in issued : IsAlive(e) /\ ~HasRecord(e)}
Reached == {r.target : r \in reached}
ToSpawn == {cmd.target : cmd \in {p \in Pending : p.op = "spawn"}}

(* l1-command-system INV-3 (buffer.go:90-98).  No reservation leaks: an ID *)
(* that is alive and has no place in the World is one whose spawn command  *)
(* is pending.  No spawn command outlives its reservation, unless somebody *)
(* despawned the entity before it had a place.                             *)
ReservationsPending ==
    /\ Reserved = {e \in ToSpawn : IsAlive(e)}
    /\ ToSpawn \subseteq Reserved \cup Reached

(* entity_ops.go:13 and 115-181, command.go:6-7.  While the World is       *)
(* whole, reservations and spawn commands match.  Commands alone never     *)
(* reach an entity ahead of its spawn when the buffers are flushed in      *)
(* execution order; and nothing but such an early call makes a flush       *)
(* panic, evict another entity or revive a dead one.                       *)
ReservationsKept ==
    /\ broken = "no" => ReservationsPending
    /\ flushOrder = ExecOrder => \A r \in reached : r.by = "call"
    /\ broken \in {"panicked", "unplaced", "revived"} => reached # {}

(* entity_ops.go:13: "The entity must already be alive in the              *)
(* EntityAllocator"; l1-command-system INV-4: a command that references a  *)
(* despawned entity is a no-op.                                            *)
NothingRevived == broken # "revived"

(* command.go:6-7: "buffers from multiple systems are flushed in           *)
(* system-execution order at the apply point".                             *)
FlushedInExecutionOrder ==
    Flushing /\ Current # <<>> =>
        \A i, j \in 1 .. Len(ExecOrder) :
            i < j /\ ExecOrder[j] = flushOrder[at] => buffer[ExecOrder[i]] = <<>>
=============================================================================
