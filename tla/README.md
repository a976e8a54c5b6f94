# Verification of neu

TLA+ models of the parts of the neu engine whose correctness depends on the
order in which things happen, the TLC instances that check them, and TLAPS
proofs about them. Paths such as `allocator.go:111` are relative to the package
named beside them; `PROJECT.json` maps each definition to its source lines.

    tlc -workers 2 -config MCEntityAllocator.cfg MCEntityAllocator   # one run
    tlapm EntityProofs.tla                                           # one module of proofs

## 1. Inventory

neu is a Go game engine built on an entity-component system. Its core logic is in
`internal/ecs`, `pkg/task`, `internal/net`, `internal/hotreload`, `internal/plugin`,
`internal/render` and `pkg/asset`.

| Part | State | Operations | Hard behaviour | What makes it correct |
|---|---|---|---|---|
| Entity allocator (`internal/ecs/entity`) | generation per slot, free list, live counter | Allocate, AllocateMany, Free, PlaceAt, RebuildFreeList | stale handles, reuse, gaps after a reload | a handle is handed out once and a dead one stays dead; no slot is offered twice |
| World store (`internal/ecs/world`, `component`) | archetypes, tables, sparse sets, record per entity | Spawn, Insert, Remove, Despawn, Get | swap-and-pop, migration, pointers into a slice that grows | all structures agree; the store is a map from entity to components |
| Command buffers (`internal/ecs/command`) | a FIFO per system | push, reserve an ID, flush | calls on reserved but not spawned entities, order across buffers | every reservation is spawned or freed, and the store stays a map |
| Scheduler (`internal/ecs/scheduler`) | DAG, order, conditions | Build, Run | implicit edges, a panicking system | conflicting systems are ordered; Build fails only on a real cycle; a panic loses no command |
| Events (`internal/ecs/event`) | double buffer and cursors, ring | Send, Swap, read | readers that lag, re-entrant reads | each reader sees each event once |
| Hierarchy (`internal/ecs/hierarchy`) | ChildOf, Children | AddChild, RemoveParent, DespawnRecursive | a plain despawn of parent or child | no cycles; a subtree goes as a whole |
| Change detection (`internal/ecs/changedetect`) | ticks per component, removal lists | stamp, drain | ticks carried through migrations | no change is missed or seen twice |
| States, application frame (`internal/ecs/state`, `pkg/app`) | current and next state, stages, exit code | TransitionTo, apply, Run | a transition or exit asked for at any stage | each system sees a transition once |
| Task deque (`pkg/task/deque.go`) | two atomic cursors, ring, recycled cells | pushBottom, popBottom, steal | lock-free races | a task is taken once; none is lost |
| Compute pool (`pkg/task`) | deques, wake tokens, scopes, handles | Spawn, Detach, BlockOn, RunScope, Shutdown | parking, lost wake-ups, shutdown | tasks run once; scopes and waits end; nothing is dropped |
| Transport (`internal/net/transport`) | window, ack tracker, duplicate filter, reorder buffer, connections | queue, tick, receive, ack, handshake | loss, duplication, reordering, timeouts | exactly once, in order on ordered channels; both ends agree who is connected |
| Replication, RPC, prediction (`internal/net`) | entity map, baselines, token buckets, histories | send, receive, reconcile | late and lost packets, budgets | the replica holds only what the server had; limits are exact |
| Lockstep (`internal/net/lockstep`) | current tick, peers, inputs, checksums | Step, disconnect late peers, compare | stalls, timeouts local to a peer | peers simulate the same inputs; divergence is noticed |
| Plugins (`internal/plugin`) | grants, supervisor, plugin state | ResolveGrants, drive the phases | the process lies, stops or dies at any step | nothing is granted unasked; phases in order |
| Assistant (`pkg/assistant`) | agents, log, pipes | RegisterAgent, Dispatch | deadlines, readers of one pipe, agents that speak unasked | each dispatch is logged once, under its capabilities |
| Graph debugger (`internal/grapheditor`) | trace ring, cursor, breakpoints | record, step, replay | the ring is cut under the cursor | what is shown is what was recorded |
| Asset server (`pkg/asset`) | in-flight map, slots, reference counts, watched files | Load, Watch, Reload, Unload, Clone, Drop, Upgrade | IO answers that come late, files edited before they are watched, counts that reach zero under a lookup | a held handle resolves to its own slot; a slot shows the newest content |
| Render thread (`internal/render`) | command queue, resource counts, graph | Submit, Drain, Close, Build | commands that submit commands | every command runs once, in order |
| Scenes (`pkg/scene`) | captured components, instance tables | capture, spawn, despawn | references inside slices | instances do not share entities |
| Window sync, audio, animation, UI, math, input, tools | | | numeric, parsing or I/O | not modelled |

How they interact: a tick runs the systems in schedule order; systems read and
write the World and push commands on their buffers; `World.ApplyDeferred`
flushes them; the commands call the World, the World calls the allocator. The
compute pool serves parallel iteration, the IO pool the asset server. The
transport delivers to the network systems. Hot reload captures the World, and a
new process pins the captured entities in a fresh allocator.

`PROJECT.json` lists all components, and under `hazards` what is hard to test in
them with the property that watches it or the reason why none does.

## 2. Modules

| Module | Role |
|---|---|
| `EntityLedger` | abstract: handles are issued once, live, and retire for ever |
| `EntityAllocator` | the free-list arena; implements `EntityLedger` |
| `EntityRestore` | extends the allocator with capture, process restart and pinning |
| `WorldContents` | abstract: a map from entity to component values |
| `WorldStore` | archetypes, tables, sparse sets and records, over the allocator |
| `CommandFlush` | systems, buffers and the apply point, over the store; implements `WorldContents` |
| `Schedule` | Build of the system graph, then ticks with skips, panics and the apply point |
| `AppFrame` | startup, frames, buses, the state machine, exit |
| `MessageChannel` | the ring channel of events |
| `Hierarchy` | the commands on ChildOf and Children, propagation |
| `ChangeDetection` | ticks, removal windows, cached query archetypes |
| `Scenes` | capture, instances, remapping |
| `WorkDeque` | the Chase-Lev deque, one action per atomic access |
| `ComputePool` | workers, callers and Shutdown |
| `Handshake` | clients connecting to one server, and both tables of connections |
| `ReliableChannel` | one reliable channel over a lossy network |
| `Replication` | one client's replica under per-tick budgets |
| `Rpc` | sending, decoding and rate limits |
| `Rollback` | snapshots, rollback, prediction and reconciliation |
| `Lockstep` | the tick gate, inputs, timeouts and checksums of N peers |
| `AssetServer` | loads, handles, the watcher, the IO pool |
| `RenderServer`, `RenderFrame` | the command queue; resources, frame graph, order of a frame |
| `PluginHost` | grants and the life of one plugin process |
| `AssistantDispatch` | dispatches of requests to agents |
| `GraphDebug` | the debugger of visual graphs |
| `MC*` | instances for TLC |
| `Induction` | facts for the proofs: induction and recursion over the naturals |
| `*Proofs` | the theorems of section 5 |

An action is one critical section, one atomic access or one turn of the goroutine
that owns the state; the header of each module says which. Ghost variables, marked
as such or as history, record what a property needs to remember and never guard
an action, but for the named bounds.

**EntityAllocator.** `generations`, `size`, `freeList` and `alive` are the fields
of the same name (`size` is the length of `generations`). An action is a critical
section under `a.mu`. `issued` is a ghost: the handles that callers may hold.
`Reserve` changes capacity only and is left out.

**EntityRestore.** `Restart` stands for Capture, the end of the process and the
start of another; `Place` is one iteration of the pinning loop, in any order, as
map iteration gives it; `FinishRestore` is `RebuildFreeList`. The contents of
components are not in the model. The snapshot keeps no generation for a freed
slot, so a slot that was free before the reload restarts at generation 1: an
EntityID that a component still holds for a despawned entity can then name a new
one. The model has this behaviour; no property here speaks of it.

**WorldStore, CommandFlush.** An archetype is named by its component set. The
`archetypes` slice is modelled by its capacity: taking a pointer, then appending
beyond the capacity, makes the pointer stale (operator `Stale`). A system pushes
commands and, if it is exclusive, calls the World directly, on any entity whose
ID was ever handed out, a reserved one too; then every buffer is flushed in the
order of registration, which may be any of `FlushOrders`. Four kinds of call break
the World, and `broken` names the one that did: a migration through a `stale`
pointer; an Insert on a reserved entity, which has no record and so evicts the
first row of the empty archetype (`unplaced`) or panics where there is none
(`panicked`); and a spawn command whose ID was despawned in the meantime
(`revived`). The call is modelled to its end and the World is followed no further:
what comes after works on lists that contradict each other, and in the code on
sparse sets that tell a dead handle from its successor by the slot alone.
`reached` is a history of the early calls. Change ticks are in `ChangeDetection`;
archetype edges, listeners and resources are left out.

**Schedule.** Declarations (systems, explicit edges, set memberships) come in any
order, Build orders what there is; then ticks run systems that may be skipped or
panic. What a system accesses is a constant.
**AppFrame.** One action per stage and per thing a system may do in it; a
StateChanged is seen by the systems before StateTransition in the next frame.
**MessageChannel.** A reader may read again inside its own loop. **Hierarchy.**
A scene sets a ChildOf without the parent's Children, as instantiate.go:71 does
against what the documents say (section 4); the history `unlisted` has these
entities. The global transform of an entity is the path of entities whose
Transforms it is composed of. **ChangeDetection.** Nothing in the engine calls
IncrementChangeTick or ClearTrackers (world.go:144-145, 153-154); the model lets
the program call them at any moment. A change at tick 0 is visible to nobody, as
in the code. **Scenes.** Components of sparse storage are not captured, as in the
code.

**WorkDeque.** `top` and `bottom` are the atomics; `arrays` holds every ring
published, because a slow thief may still read an old one; `fn` is what a cell
carries, and `free` is `cellPool`. Go's `sync/atomic` is sequentially consistent,
so the interleaving of atomic accesses is the whole behaviour.

**ComputePool.** The Normal deque is the sequence `items` with a `top` cursor. A
steal is two steps (look, compare-and-swap), because losing between them is
reported as "empty"; the atomicity of the rest is what `WorkDeque` checks. The
priorities other than Normal never get a task and are left out. `quiet` is a
ghost that says whether every caller was finished when Shutdown closed the pool.

**Handshake.** Control messages are retransmitted until acknowledged, so the
network is the growing set of datagrams ever queued, from which any may arrive
at any time and any number of times. Two things the model shows in passing: a
connection the server never opened has no timeout and one that it rejected is
not removed (handshake.go:95), and nobody reads `EventsCh` (udp.go:77).

**ReliableChannel.** `datagrams` and `acks` are what has been put on the network;
nothing leaves them, so receiving one later or again is reordering and
duplication, and never receiving it is loss. `Tick` takes the frames never sent
and those sent long ago: for each channel the set of frames whose timeout elapsed
is "sent in datagram `upTo` or before", for any `upTo`. The model starts when the
client has just received ConnectAccept. Left out: heartbeat timing, MTU probes,
limits on the size of a datagram, sequence wrap, the opposite direction.

**Replication.** One client that sees everything. A spawn or update may be lost
after the server has noted it as acknowledged, which it does when it sends. The
budget is any number, zero included: an update that is larger is put off in every
frame (section 4), and the history `oversized` has the entities whose update was,
since it last went out.
EntityMap.Remap is never called and MsgComponentRemove never sent by the code.
**Rpc.** Lengths are small numbers to a small base, so the truncation of a length
field is there; a rate below one per tick never admits. **Rollback.** The ring of
snapshots is shorter than the input history (16 to 64 in the code).

**Lockstep.** A peer's goroutine steps, captures, receives or gives up a late
peer. A checksum packet is decoded as an input as well, and may displace one.
`displaced`, `recaptured`, `cut` and `missed` are histories: of peers whose ring
lost an input that way, ticks captured twice, pairs disconnected, checksums
that came when the snapshot was gone.

**AssetServer.** One asset type. A handle belongs to the program, so any goroutine
may clone, drop, upgrade or unload between any two steps of a load. A path is
watched and unwatched at any time, before a load, during one or after; `Watch`
records the version the file has then. A poll collects the changed paths, and
each is reloaded by a step of its own. A handle made by a reload is never
dropped (watch_dev.go), so it is counted and not usable; a closed pool's answer
is ignored (server.go:104); a Load may join an entry whose count is zero
(handle.go:30).

**RenderServer.** A command's body is its own effect and then perhaps one
submission. **RenderFrame.** Pins are never given back, as in the code.
**PluginHost.** Only tests call these functions so far; the host calls them in the
order the comments and the tests give. **AssistantDispatch.** Readers of one pipe
share it without a lock, so any of them may get a line. An agent answers what it
was asked, in any order, and writes lines that nobody asked for, a notification or
a request of its own (`Speak`); the next reader takes them for its answer.
**GraphDebug.** The trace
is a ring, cut in front of the cursor.

## 3. Runs

| Run | What it shows |
|---|---|
| `entity_allocator` | free list and live counter consistent, reuse gives a fresh handle, and the arena implements the ledger |
| `compute_pool` | tasks run once, a scope outlives its children, workers that rest left nothing behind but what the two known races lose, every scope and BlockOn ends |
| `command_flush` | while the World is whole the store's structures agree, no reservation is leaked and the store implements the map; only a call ahead of an entity's spawn makes a flush panic, evict or revive |
| `networking` | the handshake's two tables, and ordered delivery without gap or duplicate |
| `replication` | a replica that holds what the server shows it, under loss, reconnects and a budget; what fits the budget is not put off for ever, with updates among it that never fit |
| `worlds` | entities pinned by a reload stay alive under their IDs and the rebuilt free list is consistent, rollback leaves confirmed ticks alone, no change is missed or reported twice, instances of a scene are isolated |
| `services` | the deque, the render queue, the frame graph, RPC limits, the assistant, the graph debugger and the plugin host |
| `schedule` | the order respects what it must, Build fails only on a cycle, a panic loses no command |
| `facilities` | what a reader of events or states can miss, and what a tree keeps |
| `asset_server` | a held handle resolves, loads settle, and a path shows its newest content unless a reload joined, or the path was first watched after, a load of an older version |
| `lockstep` | the same inputs everywhere, divergence noticed, nobody waits for ever |
| `lockstep_gate` | expects a violation: a tick advances without a peer's input |

`networking`, `worlds`, `services` and `facilities` hold several modules that
share no state. A behaviour moves one of them and leaves the others as they
began: every behaviour of each is checked, and no product of them. In `services`
the two thieves of the deque and the two RPC connections are the same two model
values, so that one symmetry set covers both.

`replication` and `asset_server` choose one of two loads at the start and keep
to it (`load` and `watching` in their MC modules), because the hazards that the
two loads are made for do not meet: what is lost on the way and what never fits
the budget, a count that reaches zero and a file that changes.

### Bounds

| Run | Bounds | Why they are enough to be interesting |
|---|---|---|
| `entity_allocator` | 3 slots, generations to 3, batches of 3 | a batch can be all recycled, mixed and all fresh; a slot is reused twice |
| `compute_pool` | 2 workers, up to 2 callers of 3 kinds, 1 or 2 tasks each | token loss, a lost steal, helping, Shutdown at any step |
| `command_flush` | 2 slots, 3 components (table, table requiring it, sparse), 2 systems, both orders of flushing, a slice of 4 archetypes (16 in the code) | swap-and-pop moves another entity, migration, sparse and table mixed; 8 archetypes can arise, so the slice grows under a pointer; the queue is either empty (all direct calls) or holds up to 2 commands, enough for a spawn and a command on its entity |
| `networking` | window 3, filter and ack width 2, 4 messages, 3 datagrams; 2 clients, one outdated, for 1 place | window larger than the filter as in the code (256 to 64), jumps of less than, exactly and more than the filter; a server that is full, reconnects |
| `replication` | 2 entities, a budget of 1; either 1 component, 2 values and 2 messages under way, or 2 components, no loss, despawn or hiding and 1 message under way | the budget cannot carry both updates; a spawn is behind a despawn on the way; an update of both components never fits, one of a single component does, and they compete |
| `worlds` | 3 slots, 2 reloads; 4 ticks, snapshot ring 3, 2 rollbacks; 2 entities, a column and a sparse type, 4 calls; scenes of up to 4 entities | gaps below, between and above pinned indices, reload of a reloaded world; the ring evicts what the history still holds; migrations carry ticks; a scene refers to itself in every way |
| `services` | ring of 2, 4 pushes, 3 cells, 2 thieves; 6 commands nested two deep; 3 passes over 2 resources; 3 messages at a rate of 1 and 2; 2 requests of 2 callers over a pipe and HTTP; trace of 2; 2 starts of a plugin with 4 capabilities | the deque grows and a cell is recycled under a slow thief; inline submission inside a batch; chains and cycles of passes; a capability of each tier that is required and dropped again |
| `schedule` | 3 systems, one reading both of 2 components that the others write or exclude, 2 sets, 3 declarations and runs in all | all graphs of up to three declarations over these systems, among them the implicit edge that closes a cycle; runs fail and succeed in every order |
| `facilities` | 3 readers, 3 events, 3 frames; ring of 2, 4 messages; 4 entities | a lapped reader, a nested read that breaks off; a despawned parent and child |
| `asset_server` | 2 slots, 2 handles each, 1 permit; either 2 files that do not change and 1 misuse, or 1 file that is watched, 2 edits and no misuse | a load waits for the permit of the other; a count reaches zero under a Load, an Upgrade and an Unload; an edit during and after a load, before and after a watch, a poll and a reload |
| `lockstep` | 2 peers, delay 2, ring 4 (128 in the code), 4 ticks, checksums every 2 ticks, snapshots for 2 | the ring wraps, a timeout of one side only, a checksum before and after its tick |

No choice of constants in `command_flush` rules out a case that the code allows:
reserved entities, both flush orders and a slice that grows are in the instance.
What the properties say is tied to `broken` instead: they hold while the World is
whole, and tell which calls can break it. Histories serve the same purpose
elsewhere: `ReliableDelivery` excuses a frame only if it was the highest one when
the numbers jumped by exactly the filter's width (`reliability.go:300` clears the
field at 64, although 64 is still within it), was skipped while connecting, or
came more than the filter's width behind the highest (`reliability.go:285`).

Deadlock is checked where the bounds do not end the system (`entity_allocator`,
`command_flush`); elsewhere the last frame, tick, restart or message
of the instance, or Shutdown, is where it stops.

### Fairness

`ComputePool`, `AssetServer` and `Lockstep` state liveness. In the pool every
worker and every caller is a goroutine that the Go scheduler runs again and
again, hence weak fairness of each one's next step; Shutdown, once begun, goes
on. Nothing forces a caller to appear or Shutdown to be called, and which of a
token and `quit` a parked worker receives is not fair. Each task is assumed to
return. In the asset server some goroutine of the IO pool goes on while one can.
In lockstep each peer's frame is fair, because its loop goes on, and so is the
network as a whole: as long as packets are under way, one of them arrives, since
the lockstep channel is reliable. Which one arrives is open, and no timeout is
forced.

### Mutants

Each property of a passing run has a mutant: an operator beside the mapped
definition, marked `Mutant`, which is the same definition with a plausible bug.
With it in place TLC finds the property violated, so no property holds by the
shape of its model.

## 4. Disagreements

What the code does and what its comments or documents say differ in the places
below. `lockstep_gate` is run; each of the others is stated by a definition
next to the properties of its module, which TLC refutes when it is put in the
place of the module's invariants in the run that checks that module.
`PROJECT.json` quotes the line that each one contradicts.

| Definition | What the code does |
|---|---|
| `Lockstep.NoTickWithoutInputs` | a checksum packet is decoded as an input as well, and drops the real inputs of its ring slot |
| `ComputePool.DrainedAtExit` | a submission that races Shutdown stays in the deque |
| `ComputePool.ParkedOnlyWhenEmpty` | a worker that loses a steal parks while a task is queued |
| `WorldStore.StoreAgrees` | a migration that grows the archetypes slice beyond its 16 places writes to the abandoned copy |
| `CommandFlush.NothingRevived` | a spawn command places an entity that was despawned while it was reserved |
| `CommandFlush.FlushedInExecutionOrder` | buffers are flushed in the order of their registration |
| `WorldStore.RequiredOnlyWhenMissing` | Insert overwrites a required component that the entity has with its zero value |
| `ReliableChannel.SkippedNotLost` | a game frame that overtakes ConnectAck is acknowledged and lost |
| `Handshake.NobodyStranded`, `NewestReachable` | Connect on a closed transport never returns; an abandoned attempt deletes its successor's address |
| `Schedule.BuildsWhenAcyclic` | an implicit edge closes a cycle although no pair has a direct edge against it |
| `MessageChannel.NeverRewinds` | a nested read that breaks off sets the cursor back |
| `Hierarchy.ChildrenMaintained`, `GlobalsConsistent` | a scene's child is not in its parent's Children, and propagation does not reach it |
| `Hierarchy.NoOrphans` | World.Despawn leaves the children alive under a dead parent |
| `AssetServer.UniqueIDs` | Remove frees an index, and Drop frees it again |
| `Replication.LossRepaired` | what is sent counts as acknowledged, so what is lost is not sent again |
| `Replication.NothingStarves` | an update larger than the budget is put off in every frame |
| `Rollback.EntitiesOnce`, `LateInputsApplied`, `HistoryRefreshed`, `MispredictionCorrected` | a rollback duplicates entities, skips the corrected tick, keeps the old snapshots, and restores the wrong state |
| `RenderServer.GlobalFIFO`, `NothingRunsClosed` | a command that submits overtakes the rest of its batch; a batch outlives Close |
| `RenderFrame.PinsEnd`, `ReleasedReported` | the pins of a frame are never given back |
| `Rpc.OnlyRpcsPay` | packets of other subsystems take RPC tokens |
| `GraphDebug.StepsInTurn` | the trace is cut in front of the cursor, which stays |
| `PluginHost.DecidedOnce`, `CrashNoticed` | a grant that was not required in between is asked for again; nobody listens for a crash |
| `Scenes.SceneFrozen`, `SlicesIsolated` | slices are shared between world, scene and instances |
| `ChangeDetection.RemovalsLastTwoFrames`, `AddedMeansInserted`, `DespawnsAreRemovals` | what a window, a migration and a despawn report |
| `AssistantDispatch.AnswersOwn`, `NeverBlocks` | a dispatch takes the line that was meant for another; a read has no deadline |

The passing properties are what holds in spite of these: they exclude the
situation by a variable that records it (a frame that was `skipped`, a pair in
`overtook`, a connection in `disturbed`, a child that is `unlisted`, a World that
is `broken`), and not more than it.

## 5. Proofs

Each `*Proofs` module is checked by tlapm without an assumption of its own; what
the theorems need of the constants is the `ASSUME` of the module that declares
them, which TLC evaluates in every run. A theorem holds for every value of the
constants, so for any number of slots, threads, peers or commands.

| Module | Component | Theorems | Statement |
|---|---|---|---|
| `EntityProofs` | allocator | `TypeCorrect`, `FreeListCorrect`, `ReuseIsFresh`, `NullNeverIssued` | `Spec => []TypeOK`, `[]FreeListConsistent`, `[]FreshOnReuse`, `[]NeverNull` |
| | | `ArenaImplementsLedger` | `Spec => LedgerSpec`, the refinement of `EntityLedger` |
| | store, commands | `StoreConsistentHolds`, `ReservationsKeptHolds` | `FlushSpec => []StoreConsistent`, `[]ReservationsKept` |
| | | `StoreImplementsContents` | `FlushSpec => ContentsSpec`, the refinement of `WorldContents` |
| `WorldProofs` | restore | `RestoreTypeCorrect`, `RestoreConsistentHolds` | `RestoreSpec => []RestoreTypeOK`, `[]RestoreConsistent` |
| | scheduler | `OrderSoundHolds`, `FailsOnlyOnCycleHolds`, `CommandsKeptHolds` | `ScheduleSpec => []OrderSound`, `[]FailsOnlyOnCycle`, `[]CommandsKept` |
| | scenes | `InstancesIsolatedHolds` | `SceneSpec => []InstancesIsolated` |
| | rollback | `ConfirmedTicksStandHolds` | `RollbackSpec => []ConfirmedTicksStand` |
| `FacilityProofs` | frame, bus | `ChangeSeenOnceHolds`, `BusesDeliverHolds` | `Spec => []ChangeSeenOnce`, `BusesDeliver` |
| | ring channel | `RingReadsInOrderHolds` | `ChannelSpec => RingReadsInOrder` |
| | hierarchy | `ForestHolds`, `SubtreeGoneHolds`, `GlobalsFollowLinksHolds` | `HierarchySpec => []Forest`, `SubtreeGone`, `GlobalsFollowLinks` |
| | change detection | `ChangesReportedHolds` | `ChangeSpec => []ChangesReported` |
| `ComputePoolProofs` | pool | `RunsOnceHolds`, `ScopeOutlivesChildrenHolds`, `RestMeansDoneHolds` | `Spec => []RunsOnce`, `[]ScopeOutlivesChildren`, `[]RestMeansDone` |
| `NetworkProofs` | lockstep | `LockstepTypeCorrect`, `SuppliedHolds`, `AgreeOnInputsHolds`, `DivergenceDetectedHolds` | `LockstepSpec => []LockstepTypeOK`, `[]SuppliedUnlessDisplaced`, `[]AgreeOnInputs`, `[]DivergenceDetected` |
| | handshake | `HandshakeSoundHolds` | `HandshakeSpec => []HandshakeSound` |
| | reliable channel | `ReliableDeliveryHolds` | `Spec => []ReliableDelivery` |
| | replication | `ReplicaSoundHolds` | `ReplicationSpec => []ReplicaSound` |
| | rpc | `RpcLimitsExactHolds` | `RpcSpec => []RpcLimitsExact` |
| `AssetServerProofs` | assets | `HandlesResolveHolds`, `LatestHolds` | `Spec => []HandlesResolve`, `[]LatestUnlessLate` |
| `ServiceProofs` | deque | `DequeTypeCorrect`, `TasksConservedHolds` | `DequeSpec => []DequeTypeOK`, `[]TasksConserved` |
| | plugin host | `PluginContainedHolds` | `PluginSpec => []PluginContained` |
| | render server | `InOrderUnlessNestedHolds` | `ServerSpec => []InOrderUnlessNested` |
| | frame graph | `FrameSoundHolds` | `FrameSpec => []FrameSound` |
| | assistant | `DispatchesAccountedHolds` | `AssistantSpec => []DispatchesAccounted` |
| | graph debugger | `DebugFaithfulHolds` | `DebugSpec => []DebugFaithful` |

So every safety and action property of the passing runs is a theorem, and so are
the two refinements. Each `*Invariant` theorem beside them states that component's
inductive invariant. Few of the properties are inductive by themselves; the
invariants below are, and what they add is why the code is right.

**Allocator** (`IInv`, theorem `AlwaysIInv`). That a listed slot's generation is
new needs to know what the issued handles look like: `TrackedGenerations` (the
generation of a tracked slot is in `1 .. MaxGen`) and `IssuedReached` (an issued
handle has an index below `size` and a generation up to the slot's). Free raises
the generation, so the listed slot is above every issued handle of it. It needs
`1 <= MaxGen < GenMod`: with wrap-around, after 2^32 frees of one slot, the code
does hand out a handle twice. For the refinement an allocation maps to `Issue`, an
effective free to `Retire`, a stale one to a stutter.

**Restore** (`RestoreInv`). In the phase "run" a spawned or reserved entity sits on
a slot of its generation that is not free; in the phase "place" the used slots are
exactly those of the entities placed so far, and those still to be placed have
slots of their own.

**Store and commands** (`GInv`, `FInv`). The store's own operations are taken apart
into an eviction of one row, an addition of one row and a write in place; each
keeps what is stored for every other entity. While the World is whole (`FInv`), the
live entities without a record are those whose spawn command is pending, and a
pending spawn whose entity is dead was reached by a call in between. If buffers are
flushed in execution order, the pending commands are ordered by the place of the
system that pushed them and then by their place in its buffer, and a spawn comes
before every other command on its entity (`InOrder`): so no command reaches an
entity ahead of its spawn, and only a direct call does. The theorems have no
hypothesis on the order or on the number of archetypes. The call that breaks the
World is part of the refinement: through a stale pointer the table and the cells of
the entity list are still shared (`Shares`), and a row evicted from the empty
archetype has no components, so no other entity's contents change.

**Schedule** (`OrderInv`, `CommandInv`). After each round of Kahn's algorithm what
is emitted is an `Emission`: no system twice, and each after all its predecessors.
As many rounds as there are systems leave none out unless those left have a cycle,
by the pigeonhole principle. Every run from a buffered command's own on has failed.

**Scenes** (`SceneInv`). Entities are numbered in the order of spawning, so an
instance's are new; a scene has one entry per captured entity.

**Rollback** (`RollbackInv`). The history of predictions only holds ticks after the
confirmed one: whatever arrives for an earlier tick finds nothing to compare.

**Frame and bus** (`ChangeInv`, `BusInv`). The former says for each stage which
schedules have seen the current state and which are one behind; the latter that the
two buffers hold consecutive events, the numbers of those swapped away, and from
which stage on a reader that has run is past the older buffer.

**Ring channel** (`RingInv`). The cell of message `m` is `m % Capacity` and holds it
until `m + Capacity` is sent. A reader has one cursor in the channel and one in each
of its open iterations; between any two of them every message was received or
overwritten, which is what makes a nested read harmless until it breaks off.

**Hierarchy** (`HierInv`). Links join spawned entities, nobody is above itself, and
among the living a parent lists its child once and nobody else does. `Chain` walks a
fixed number of steps; that it is the least set closed upwards, and `Below` the
least closed downwards, is a pigeonhole argument about the walk. A living entity
below one that went would make the set without it closed, and smaller. What
propagation writes leads, link by link, to the entity it is written for, so it
covers that entity's chain; and an entity whose chain is sound is visited after as
many steps down as its chain is long.

**Change detection** (`StampInv`). Both storages carry the ticks of the last insert
and write of every entity and component, with the exception, during a call, of the
entity in hand: the invariant has that entity as a parameter, and each of the
steps of a call (evict, add, stamp, swap-and-pop) is a lemma under it. The cache
has the matching ones of the archetypes it has scanned. As long as no frame
advances the tick twice, a removal of this frame or the last is kept under a tick
that `DrainBefore` spares.

**Pool** (`PoolInv`). A spawned task waits in one place of one deque, or one
goroutine holds it, or it has run; a scope's `pending` counts exactly its children
that were counted and have not run; and while a task waits at rest, some goroutine
has still to look for it, which is where the two races of section 4 are named.
It needs finitely many workers and at least one.

**Lockstep** (`InputInv`, `ChecksumInv`). The gate looks `InputDelay` ticks ahead,
so what it saw stays buffered until its tick runs: two ticks fewer apart than the
ring has slots never share one, hence the assumption `InputRing > InputDelay + 1`.
An input captured once is the only value of its tick anywhere, because a player
captures again only the tick that is still in its own ring. And when two peers
have run a checksum tick, a checksum is under way from the later one to the
earlier, has been compared, or came when the snapshot was gone.

**Handshake** (`HandshakeInv`). An entry of either table goes back to a datagram that
was sent: a client is connected only after an accept, an accept speaks of a
connection the server has or has ended, an ack answers an accept. Until `EventsCh`
is full its last event of a connection says whether that is open.

**Reliable channel** (`ChannelInv`). At the receiver, whatever arrived is rejected
from then on, or was the highest number at a jump of the filter's width
(`Filtered`), and in the ordered mode the game has an exact prefix
(`OrderedSound`). At the sender a frame was in the datagram it remembers
(`FramesSent`), and whatever the ack tracker covers was received (`AcksTrue`):
hence a frame leaves the window only when it has arrived or is excepted.

**Replication** (`RepInv`). For every entity, replaying what is under way gives
what the client can see (`Following`): from now on if nothing was lost, and from
the next spawn or despawn on in any case. An update that fits the budget and is
put off was overtaken in that frame by one that had waited at least as long and
starts again behind it: so at least as many entities are behind it as frames have
put it off (`Overtaken`), which is fewer than there are. An update larger than the
budget is put off without anybody overtaking it; its entity is in `oversized`
until it has nothing to send or is sent.

**Rpc** (`RpcInv`). Of each limit, over every span the admitted messages, with what
is left in the bucket, are within what the span may grant, and over one span they
are exactly that (`BucketSound`); a refusal then has that span as its witness.
Numbers ascend from the dispatched messages through the queued packets.

**Assets** (`HandleInv`, `LatestInv`). A count reaches zero once, so one onZero is
due for it, and until that has run the slot is in the store under its ID; the
generation of a free index is above every ID made of it. The load in flight for a
path is the last one made for it; and for a watched path that is not `late`, once
the watcher has told the server of the last edit, a load that has opened the file
has opened that version. The histories `unloaded` and `revived` exclude the misuse that
`UniqueIDs` is about.

**Deque** (`DequeInv`). Each cell is in one place: the pool, one live slot of the
current ring, the owner's hand, or the hand of one thief that won it. A thief may
trust the ring it loaded long ago because, as long as `top` is what it read, the
slot it looks at is live, and a live slot has the same cell in every ring.

**Plugin host** (`PluginInv`). What the host has sent, what the process has
answered and what of that is unread are tied to the phase: at most one request is
unanswered, and a reply is read before the next one is sent.

**Render server** (`ServerInv`). A command taken from the queue has a place: the
call on the bound goroutine's stack, and how many are left behind it there. An
accepted command has run, is in one such place, is queued or was dropped, and
these exclude each other; the order of acceptance is the order of the places, but
for the pairs in `overtook`. That a nested command is not accepted before the
command that submits it has run needs the assumption that each command is
submitted at most once.

**Frame graph** (`FrameInv`). What is held is counted and lives; from Build's check
on no external input of the graph is destroyed; and what a pass still to run
reads is written, or its producer comes earlier in the order, which is again an
`Emission`.

**Assistant** (`DispatchInv`). A dispatch under way has a request of its own,
which its agent's capabilities cover and which is not yet in the log; every other
request is in the log once. A connection that is not `disturbed` serves one
dispatch at a time, its agent has written nothing unasked, and a request, a line
or a response that is on it, or was left behind on it, is that dispatch's: so the
line that a reader takes answers what it sent.

**Graph debugger** (`DebugInv`). The place of an event among what the editor hears
is the number of events told up to it. Of each open graph the trace has the newest
steps, each node's last step is one of that node's, and all that was stepped
through is older than what follows the cursor, even when the ring moved under it.

### Recursion

The folds, filters and walks of the models are recursive functions, and the
theorems that unfold one by induction take an operator as a parameter, which none
of the provers used can instantiate. `Induction` states the induction with a set in
place of that operator: the well-foundedness of `<` gives `SetInduction`, and
`RecursionExists` the function with given first value and step. A proof about a
recursive definition first shows that its defining equations hold, and then goes up
its domain.

### Only model-checked

Liveness rests on `WF_` and on `ENABLED`, which tlapm cannot treat:
`EveryoneReturns`, `LoadsSettle` and `NobodyWaitsForever` stay with TLC. So do the
definitions of section 4, which do not hold: a counterexample is TLC's to find.

## 6. Plan

The runs cover every module, and the theorems every safety property of the passing
runs. What would extend the project:

1. Observers, sub-states, and the parallel executor's dispatch of a schedule.
2. The fixed-step clock and the interest policies of replication.
3. The joiner's side of a late join.

## 7. Not modelled

Render backends, audio, animation, math: floating-point functions of one frame. Parsing,
formatting, reflection, HTTP clients and build tools: no state of interest.
Registration of component types: a constant of the store. The goroutines of the
transport: one loop owns all its state, so its handlers are atomic; the channels
by which callers reach it are not in the model. Game time, input, diagnostics,
versions: bookkeeping of one goroutine that nothing else waits for.
