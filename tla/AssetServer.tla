---------------------------- MODULE AssetServer ----------------------------
(***************************************************************************)
(* pkg/asset: Load hands out a counted handle at once and decodes on the   *)
(* IO pool; the store (assets.go) numbers its slots with recycled indices; *)
(* the last Drop frees the slot through onZero.  One asset type, so one    *)
(* store.  Handles are the program's, so any goroutine may clone, drop,    *)
(* upgrade or unload between any two steps of a load.                      *)
(***************************************************************************)
EXTENDS Integers, Sequences, FiniteSets, SequencesExt, Functions

CONSTANTS
    Paths,
    IOMaxThreads,  \* permits of the IO pool
    MaxLoads,      \* bound: slots ever made
    MaxHandles,    \* bound: handles of one slot
    Watched,       \* the paths the program may give to the file watcher
    MaxEdits,      \* bound: edits of a watched file
    MaxMisuses     \* bound: slots unloaded under a handle, or joined at count zero

ASSUME AssetAssumption ==
    IOMaxThreads \in Nat \ {0} /\ MaxLoads \in Nat /\ MaxHandles \in Nat \ {0} /\ MaxEdits \in Nat /\ Watched \subseteq Paths /\ MaxMisuses \in Nat

VARIABLES
    made,      \* the slots made, in order; a slot's rc and its load are fields of it
    slots,     \* Assets.slots: [AssetIDs -> number of a slot in made]
    gens,      \* Assets.gens: [1 .. MaxLoads -> generation]
    free,      \* Assets.free
    next,      \* Assets.next
    locked,    \* store.mu was left locked by a loader that panicked
    inflight,  \* [Paths -> slot, 0 when none]
    loaded,    \* [Paths -> slot last loaded from it, 0 when none]
    closed,    \* IOPool.closed
    zeroing,   \* [slots -> decrements that reached zero and have yet to run onZero]
    upgrading, \* slot found by an Upgrade that has yet to count itself, 0 when none
    disk,      \* [Paths -> version of the file]
    seen,      \* fileWatcher.watched: [Paths -> version last seen, 0 when not watched]
    changed,   \* fileWatcher.poll: found changed and not reloaded yet
    unloaded,  \* history: slots removed by Unload
    revived,   \* history: slots a Load joined although their count was zero
    late       \* history: paths last watched, or reloaded by joining, when their
               \* load had opened an older version

store == <<slots, gens, free, next>>
server == <<inflight, loaded>>
files == <<disk, seen, changed, late>>
vars == <<made, store, locked, server, closed, zeroing, upgrading, files, unloaded, revived>>

Made == 1 .. Len(made)
Held == {k \in Made : made[k].job \in {"running", "opened", "finishing"}}   \* permits taken

Init ==
    /\ made = <<>>
    /\ slots = <<>> /\ gens = [i \in 1 .. MaxLoads |-> 0] /\ free = <<>> /\ next = 1
    /\ locked = FALSE /\ closed = FALSE
    /\ inflight = [p \in Paths |-> 0] /\ loaded = [p \in Paths |-> 0]
    /\ zeroing = [k \in 1 .. MaxLoads |-> 0] /\ upgrading = 0
    /\ disk = [p \in Paths |-> 1] /\ seen = [p \in Paths |-> 0]
    /\ unloaded = {} /\ revived = {} /\ late = {} /\ changed = {}

-----------------------------------------------------------------------------
(* assets.go: the IDs of the store. *)

Without(id) == Restrict(slots, DOMAIN slots \ {id})

FreeID(id) == gens' = [gens EXCEPT ![id[1]] = @ + 1] /\ free' = Append(free, id[1])

(* addLoading: allocID, then addSlot. *)
AddLoading(p, reload) ==
    LET idx == IF free # <<>> THEN Last(free) ELSE next
        id == <<idx, gens[idx]>>
    IN /\ free' = IF free # <<>> THEN Front(free) ELSE free
       /\ next' = IF free # <<>> THEN next ELSE next + 1
       /\ gens' = gens
       /\ slots' = [i \in DOMAIN slots \cup {id} |-> IF i = id THEN Len(made) + 1 ELSE slots[i]]
       /\ made' = Append(made, [id |-> id, path |-> p, n |-> 1, state |-> "loading", read |-> 0, job |-> "submit",
                              reload |-> reload, leaked |-> IF reload THEN 1 ELSE 0])

-----------------------------------------------------------------------------
(* server.go *)

(* Bound: what frees an index twice happens MaxMisuses times. *)
Spared == Cardinality(unloaded) + Cardinality(revived) < MaxMisuses

Join(p, reload) ==
    LET k == inflight[p] IN
    /\ made[k].n < MaxHandles
    /\ made[k].n = 0 => Spared
    /\ made' = [made EXCEPT ![k].n = @ + 1, ![k].leaked = IF reload THEN @ + 1 ELSE @]
    /\ revived' = IF made[k].n = 0 THEN revived \cup {k} ELSE revived
    /\ UNCHANGED <<store, server>>

NewLoad(p, reload) ==
    /\ ~locked /\ Len(made) < MaxLoads
    /\ AddLoading(p, reload)
    /\ inflight' = [inflight EXCEPT ![p] = Len(made) + 1]
    /\ loaded' = [loaded EXCEPT ![p] = Len(made) + 1]
    /\ UNCHANGED revived

(* Mutant: a path that is loaded already is answered with its slot. *)
LoadWithSettingsCached(p, reload) ==
    IF inflight[p] # 0 THEN Join(p, reload)
    ELSE IF loaded[p] # 0 /\ made[loaded[p]].state = "loaded"
    THEN made' = [made EXCEPT ![loaded[p]].n = @ + 1] /\ UNCHANGED <<store, server, revived>>
    ELSE NewLoad(p, reload)

LoadWithSettings(p, reload) == IF inflight[p] # 0 THEN Join(p, reload) ELSE NewLoad(p, reload)

Load(p) ==
    /\ LoadWithSettings(p, FALSE)
    /\ UNCHANGED <<locked, closed, zeroing, upgrading, disk, seen, changed, unloaded>>
    /\ late' = IF inflight[p] = 0 THEN late \ {p} ELSE late

(* watch_dev.go.  Watch records the version of the file as it is now, not  *)
(* the one that the load has opened; to watch it again changes nothing.    *)
Behind(k) == made[k].job \in {"opened", "finishing", "done"} /\ made[k].read # disk[made[k].path]
Lateness(p, k) == IF Behind(k) THEN late \cup {p} ELSE late \ {p}

Watch(p) ==
    /\ seen[p] = 0
    /\ seen' = [seen EXCEPT ![p] = disk[p]]
    /\ late' = IF loaded[p] = 0 THEN late ELSE Lateness(p, loaded[p])
    /\ UNCHANGED <<made, store, locked, server, closed, zeroing, upgrading, disk, changed, unloaded, revived>>

Unwatch(p) ==
    /\ seen[p] # 0
    /\ seen' = [seen EXCEPT ![p] = 0]
    /\ UNCHANGED <<made, store, locked, server, closed, zeroing, upgrading, disk, changed, late, unloaded, revived>>

(* fileWatcher.poll under its mutex; an edit changes the mtime. *)
Poll ==
    /\ changed = {}
    /\ changed' = {p \in Watched : seen[p] \notin {0, disk[p]}}
    /\ changed' # {}
    /\ seen' = [p \in Paths |-> IF p \in changed' THEN disk[p] ELSE seen[p]]
    /\ UNCHANGED <<made, store, locked, server, closed, zeroing, upgrading, disk, late, unloaded, revived>>

(* dispatchReload and Reload, of a type registered with WatchReloads.  The *)
(* handle is not kept and so never dropped.                                *)
Reload(p) ==
    /\ p \in changed /\ changed' = changed \ {p}
    /\ IF loaded[p] = 0 THEN UNCHANGED <<made, store, server, revived, late>>
       ELSE /\ LoadWithSettings(p, TRUE)
            /\ late' = IF inflight[p] = 0 THEN late \ {p} ELSE Lateness(p, inflight[p])
    /\ UNCHANGED <<locked, closed, zeroing, upgrading, disk, seen, unloaded>>

(* Bound: a file is edited after it was loaded, MaxEdits times. *)
Edit(p) ==
    /\ loaded[p] # 0 /\ disk[p] <= MaxEdits
    /\ disk' = [disk EXCEPT ![p] = @ + 1]
    /\ UNCHANGED <<made, store, locked, server, closed, zeroing, upgrading, seen, changed, late, unloaded, revived>>

(* The load's own steps leave the store's IDs and the handles alone. *)
JobStep(k, from, to) ==
    /\ made[k].job = from
    /\ made' = [made EXCEPT ![k] = [@ EXCEPT !.job = to]]
    /\ UNCHANGED <<store, locked, server, closed, zeroing, upgrading, files, unloaded, revived>>

(* IOPool.Go: the answer ErrPoolClosed is dropped by the caller. *)
Submit(k) == JobStep(k, "submit", IF closed THEN "refused" ELSE "blocked")

Acquire(k) == Cardinality(Held) < IOMaxThreads /\ JobStep(k, "blocked", "running")

Result(k, job, state) == made' = [made EXCEPT ![k].job = job, ![k].state = state]

(* The file is opened (its content counts from here), or it is not there.  *)
Open(k) ==
    /\ made[k].job = "running"
    /\ made' = [made EXCEPT ![k].job = "opened", ![k].read = disk[made[k].path]]
    /\ UNCHANGED <<store, locked, server, closed, zeroing, upgrading, files, unloaded, revived>>

(* Mutant: a file that cannot be opened ends the load without a state. *)
FailSilently(k) == JobStep(k, "running", "finishing")

(* No file, or no loader for its extension. *)
Fail(k) ==
    /\ made[k].job \in {"running", "opened"} /\ ~locked
    /\ Result(k, "finishing", "failed")
    /\ UNCHANGED <<store, locked, server, closed, zeroing, upgrading, files, unloaded, revived>>

(* loadFrom under store.mu: a value, an error, or a panic that the pool    *)
(* recovers and that leaves store.mu locked.                               *)
Decode(k) ==
    /\ made[k].job = "opened" /\ ~locked
    /\ \E state \in {"loaded", "failed", "loading"} :
        Result(k, "finishing", state) /\ locked' = (state = "loading")
    /\ UNCHANGED <<store, server, closed, zeroing, upgrading, files, unloaded, revived>>

(* The deferred deletion from inflight; the permit is given back. *)
Finish(k) ==
    /\ made[k].job = "finishing"
    /\ made' = [made EXCEPT ![k].job = "done"]
    /\ inflight' = [inflight EXCEPT ![made[k].path] = 0]
    /\ UNCHANGED <<store, locked, loaded, closed, zeroing, upgrading, files, unloaded, revived>>

Shutdown ==
    /\ ~closed /\ closed' = TRUE
    /\ UNCHANGED <<made, store, locked, server, zeroing, upgrading, files, unloaded, revived>>

(* Handles that can be cloned or dropped: not those of reloads, nor the    *)
(* one of the caller who is still submitting the load.                     *)
Usable(k) ==
    made[k].n > made[k].leaked + (IF ~made[k].reload /\ made[k].job \in {"submit", "blocked"} THEN 1 ELSE 0)

(* Unload, so Assets.Remove, by the holder of a handle. *)
Unload(k) ==
    /\ ~locked /\ Usable(k) /\ Spared
    /\ made[k].id \in DOMAIN slots
    /\ slots' = Without(made[k].id)
    /\ FreeID(made[k].id)
    /\ unloaded' = unloaded \cup {k}
    /\ UNCHANGED <<made, next, locked, server, closed, zeroing, upgrading, files, revived>>

-----------------------------------------------------------------------------
(* handle.go *)

Clone(k) ==
    /\ Usable(k) /\ made[k].n < MaxHandles
    /\ made' = [made EXCEPT ![k].n = @ + 1]
    /\ UNCHANGED <<store, locked, server, closed, zeroing, upgrading, files, unloaded, revived>>

Drop(k) ==
    /\ Usable(k)
    /\ made' = [made EXCEPT ![k].n = @ - 1]
    /\ zeroing' = [zeroing EXCEPT ![k] = IF made[k].n = 1 THEN @ + 1 ELSE @]
    /\ UNCHANGED <<store, locked, server, closed, upgrading, files, unloaded, revived>>

OnZero(k) ==
    /\ ~locked /\ zeroing[k] > 0
    /\ zeroing' = [zeroing EXCEPT ![k] = @ - 1]
    /\ slots' = Without(made[k].id)
    /\ FreeID(made[k].id)
    /\ UNCHANGED <<made, next, locked, server, closed, upgrading, files, unloaded, revived>>

(* Upgrade finds the slot of a weak handle, and later counts itself. *)
UpgradeFind(k) ==
    /\ ~locked /\ upgrading = 0
    /\ made[k].id \in DOMAIN slots
    /\ upgrading' = slots[made[k].id]
    /\ UNCHANGED <<made, store, locked, server, closed, zeroing, files, unloaded, revived>>

(* Mutant: the count is raised whatever it is. *)
UpgradeRCBlind ==
    /\ upgrading # 0 /\ upgrading' = 0
    /\ made[upgrading].n < MaxHandles
    /\ made' = [made EXCEPT ![upgrading].n = @ + 1]
    /\ UNCHANGED <<store, locked, server, closed, zeroing, files, unloaded, revived>>

UpgradeRC ==
    /\ upgrading # 0 /\ upgrading' = 0
    /\ made[upgrading].n < MaxHandles
    /\ made' = [made EXCEPT ![upgrading].n = IF @ > 0 THEN @ + 1 ELSE @]
    /\ UNCHANGED <<store, locked, server, closed, zeroing, files, unloaded, revived>>

-----------------------------------------------------------------------------
Job(k) == Submit(k) \/ Acquire(k) \/ Open(k) \/ Fail(k) \/ Decode(k) \/ Finish(k)

Next ==
    \/ \E p \in Paths : Load(p)
    \/ \E p \in Watched : Edit(p) \/ Watch(p) \/ Unwatch(p) \/ Reload(p)
    \/ Poll
    \/ \E k \in Made : Job(k) \/ Unload(k) \/ Clone(k) \/ Drop(k) \/ OnZero(k) \/ UpgradeFind(k)
    \/ UpgradeRC
    \/ Shutdown

(* Some goroutine of the pool runs on while one can; nothing else has to   *)
(* happen.                                                                 *)
Spec == Init /\ [][Next]_vars /\ WF_vars(\E k \in Made : Job(k))

-----------------------------------------------------------------------------
(* handle.go:29-30, 67-69, assets.go:53-75.  As long as nobody unloads     *)
(* a slot that has handles, and no Load joins a load whose handles are all *)
(* gone, a strong handle keeps its slot: its ID finds that slot and no     *)
(* other, was never that of another slot, and no index is free twice.      *)
HandlesResolve ==
    unloaded = {} /\ revived = {} =>
        /\ \A k \in Made : made[k].n > 0 => made[k].id \in DOMAIN slots /\ slots[made[k].id] = k
        /\ \A j, k \in Made : j # k => made[j].id # made[k].id
        /\ IsInjective(free)

(* server.go:147-151, watch_dev.go:48-105.  Once the watcher has seen the  *)
(* last edit of a file and told the server, and nothing loads, the slot    *)
(* last loaded from the path has its content, unless the reload joined a   *)
(* load, or the path was first watched after one, that had opened an older *)
(* version.                                                                *)
Told(p) == seen[p] # 0 /\ seen[p] = disk[p] /\ p \notin changed

LatestUnlessLate ==
    \A p \in Paths \ late :
        loaded[p] # 0 /\ inflight[p] = 0 /\ Told(p) =>
            (made[loaded[p]].state = "loaded" => made[loaded[p]].read = disk[p])

(* server.go:81-136.  Every load leaves Loading, unless the pool was       *)
(* closed before it was submitted or a loader panicked.                    *)
LoadsSettle ==
    \A k \in 1 .. MaxLoads :
        k \in Made ~> (k \in Made => made[k].state # "loading" \/ made[k].job = "refused" \/ locked)

(* handle.go:17.  "AssetID uniquely identifies an asset slot." *)
UniqueIDs == \A j, k \in Made : j # k => made[j].id # made[k].id
=============================================================================
