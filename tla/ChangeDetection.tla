-------------------------- MODULE ChangeDetection --------------------------
(***************************************************************************)
(* Change ticks and the queries that filter by them: ecs/changedetect, the *)
(* tick arrays of ecs/component's Table and SparseSet, the stamping in     *)
(* ecs/world/entity_ops.go, and ecs/query's cached matching.  The store is *)
(* the one of WorldStore, with ticks in place of values: where an entity   *)
(* is and what its components hold is checked there.                       *)
(*                                                                         *)
(* The World is not thread-safe: one action is one call.  Nothing under    *)
(* internal/ecs calls IncrementChangeTick or ClearTrackers; both are calls *)
(* of the application, at any time.                                        *)
(***************************************************************************)
EXTENDS Integers, Sequences, FiniteSets

CONSTANTS
    Thing,                  \* entities; one is spawned once
    ColumnType, SetType,    \* component types by storage: table, sparse set
    Tracked,                \* the type with a RemovedComponents resource
    Query,                  \* [required, excluded, added, changed], sets of types
    LastTickOf,             \* bound: change ticks
    MaxArchetypes,          \* bound: archetypes ever created
    MaxCalls                \* bound: calls that change an entity

Type == ColumnType \cup SetType

ASSUME ChangeAssumption ==
    /\ ColumnType \cap SetType = {} /\ Tracked \in Type
    /\ LastTickOf \in Nat /\ MaxArchetypes \in Nat /\ MaxCalls \in Nat
    /\ \A q \in Query : q.added \cup q.changed \subseteq q.required

VARIABLES
    archetypes,     \* ArchetypeStore.archetypes: component sets in creation order
    tables,         \* archetype -> the entity of each row
    columnTicks,    \* archetype -> per row, type -> [added, changed]
    setTicks,       \* sparse type -> entity -> [added, changed]
    tick, lastTick, \* World.changeTick, lastChangeTick
    removals,       \* RemovedComponents[Tracked].removals
    cache,          \* a query's [query, matched, nextScan]
    \* ghosts
    changes,        \* calls so far that changed an entity
    inserted, lastWrite,  \* entity -> type -> tick of its insertion, last write
    restamped,      \* <<entity, type>> stamped Added again by a migration
    pace,           \* [ticked, busy]: the tick advanced in this frame, twice in some
    gone            \* <<entity, frames since Tracked was removed from it>>, at most 1

storageVars == <<archetypes, tables, columnTicks, setTicks>>
ghostVars == <<inserted, lastWrite, restamped>>
changeVars == <<storageVars, tick, lastTick, removals, cache, changes, ghostVars, pace, gone>>

In(e, a) == \E i \in DOMAIN tables[a] : tables[a][i] = e
Alive == {e \in Thing : \E a \in DOMAIN tables : In(e, a)}
Home(e) == CHOOSE a \in DOMAIN tables : In(e, a)
RowOf(e) == CHOOSE i \in DOMAIN tables[Home(e)] : tables[Home(e)][i] = e

ChangeInit ==
    /\ archetypes = << {} >>
    /\ tables = [a \in {{}} |-> <<>>] /\ columnTicks = tables
    /\ setTicks = [c \in SetType |-> << >>]
    /\ tick = 0 /\ lastTick = 0
    /\ removals = <<>>
    /\ \E q \in Query : cache = [query |-> q, matched |-> <<>>, nextScan |-> 0]
    /\ inserted = << >> /\ lastWrite = << >> /\ restamped = {} /\ changes = 0
    /\ pace = [ticked |-> FALSE, busy |-> FALSE] /\ gone = {}

-----------------------------------------------------------------------------
(* The storage as one value, [archetypes, rows, columnTicks, setTicks].    *)
Storage == [archetypes |-> archetypes, rows |-> tables, columnTicks |-> columnTicks, setTicks |-> setTicks]

Become(s) ==
    /\ archetypes' = s.archetypes /\ tables' = s.rows
    /\ columnTicks' = s.columnTicks /\ setTicks' = s.setTicks

StampNow == [added |-> tick, changed |-> tick]
Put(f, x, v) == [y \in DOMAIN f \cup {x} |-> IF y = x THEN v ELSE f[y]]
Drop(f, x) == [y \in DOMAIN f \ {x} |-> f[y]]
SwapPopped(s, i) == [j \in 1 .. Len(s) - 1 |-> IF j = i THEN s[Len(s)] ELSE s[j]]

Archetype(s, a) ==
    IF a \in DOMAIN s.rows THEN s
    ELSE [s EXCEPT !.archetypes = Append(@, a), !.rows = Put(@, a, <<>>), !.columnTicks = Put(@, a, <<>>)]

(* Mutant: every component of the new row is stamped as added. *)
AddedFresh(s, a, e, supplied, carry) ==
    [s EXCEPT !.setTicks = [c \in SetType |-> IF c \in a \cap supplied THEN Put(@[c], e, StampNow) ELSE @[c]],
              !.rows[a] = Append(@, e),
              !.columnTicks[a] = Append(@, [c \in a \cap ColumnType |-> StampNow])]

(* addEntityToArchetype: a supplied sparse component is stamped as added,  *)
(* also when the entity has it; a carried column keeps its ticks.          *)
Added(s, a, e, supplied, carry) ==
    [s EXCEPT !.setTicks = [c \in SetType |-> IF c \in a \cap supplied THEN Put(@[c], e, StampNow) ELSE @[c]],
              !.rows[a] = Append(@, e),
              !.columnTicks[a] = Append(@, [c \in a \cap ColumnType |->
                                            IF c \in DOMAIN carry THEN carry[c] ELSE StampNow])]

(* removeEntityFromArchetype: entities and ticks are swapped and popped.   *)
Evicted(s, e, a, i) ==
    [s EXCEPT !.rows[a] = SwapPopped(@, i), !.columnTicks[a] = SwapPopped(@, i)]

(* captureTableTicks, and the migration around it. *)
Migrated(s, e, a, supplied) ==
    LET from == Home(e)
        carry == [c \in from \cap a \cap ColumnType |-> s.columnTicks[from][RowOf(e)][c]]
    IN Added(Evicted(Archetype(s, a), e, from, RowOf(e)), a, e, supplied, carry)

(* StampChangedByID and StampChanged. *)
Stamped(s, e, a, i, types) ==
    [s EXCEPT
        !.columnTicks[a][i] = [c \in DOMAIN @ |-> IF c \in types THEN [@[c] EXCEPT !.changed = tick] ELSE @[c]],
        !.setTicks = [c \in SetType |-> IF c \in types THEN [@[c] EXCEPT ![e].changed = tick] ELSE @[c]]]

-----------------------------------------------------------------------------
SpawnThing(e, types) ==
    /\ e \notin DOMAIN inserted
    /\ Become(Added(Archetype(Storage, types), types, e, types, << >>))
    /\ inserted' = Put(inserted, e, [c \in types |-> tick])
    /\ lastWrite' = Put(lastWrite, e, [c \in types |-> tick])
    /\ UNCHANGED <<tick, lastTick, removals, cache, restamped, pace, gone>>

(* Insert: in place if the entity has every type, else by migration. *)
Insert(e, types) ==
    LET from == Home(e)
        to == from \cup types
        moved == Migrated(Storage, e, to, types)
    IN
    /\ Become(IF to = from THEN Stamped(Storage, e, from, RowOf(e), types)
              ELSE Stamped(moved, e, to, Len(moved.rows[to]), types \cap from \cap ColumnType))
    /\ inserted' = [inserted EXCEPT ![e] = [c \in to |-> IF c \in from THEN @[c] ELSE tick]]
    /\ lastWrite' = [lastWrite EXCEPT ![e] = [c \in to |-> IF c \in types THEN tick ELSE @[c]]]
    /\ restamped' = IF to = from THEN restamped
                    ELSE restamped \cup ({e} \X (types \cap from \cap SetType))
    /\ UNCHANGED <<tick, lastTick, removals, cache, pace, gone>>

(* RemoveByID and Remove[T]: the tracker hears of it. *)
RemoveByID(e, c) ==
    /\ c \in Home(e)
    /\ LET evicted == [Storage EXCEPT !.setTicks = [d \in SetType |-> IF d = c THEN Drop(@[d], e) ELSE @[d]]]
       IN Become(Migrated(evicted, e, Home(e) \ {c}, {}))
    /\ IF c = Tracked
       THEN removals' = Append(removals, [entity |-> e, tick |-> tick])
            /\ gone' = gone \cup {<<e, 0>>}
       ELSE UNCHANGED <<removals, gone>>
    /\ inserted' = [inserted EXCEPT ![e] = Drop(@, c)] /\ lastWrite' = [lastWrite EXCEPT ![e] = Drop(@, c)]
    /\ restamped' = restamped \ {<<e, c>>}
    /\ UNCHANGED <<tick, lastTick, cache, pace>>

(* Despawn evicts the sparse components too, and tells no tracker. *)
DespawnThing(e) ==
    /\ Become([Evicted(Storage, e, Home(e), RowOf(e)) EXCEPT !.setTicks = [c \in SetType |-> Drop(@[c], e)]])
    /\ inserted' = [inserted EXCEPT ![e] = << >>] /\ lastWrite' = [lastWrite EXCEPT ![e] = << >>]
    /\ restamped' = {p \in restamped : p[1] # e}
    /\ UNCHANGED <<tick, lastTick, removals, cache, pace, gone>>

IncrementTick ==
    /\ tick < LastTickOf
    /\ tick' = tick + 1
    /\ pace' = [ticked |-> TRUE, busy |-> pace.busy \/ pace.ticked]
    /\ UNCHANGED <<storageVars, lastTick, removals, cache, ghostVars, gone>>

(* What of s is in keep, in its order. *)
Filtered(s, keep) ==
    LET kept[i \in 0 .. Len(s)] ==
            IF i = 0 THEN <<>> ELSE IF s[i] \in keep THEN Append(kept[i - 1], s[i]) ELSE kept[i - 1]
    IN  kept[Len(s)]

(* DrainBefore: the window is two ticks below the new lastChangeTick. *)
DrainBefore(t) ==
    LET recent == {i \in DOMAIN removals : t < 2 \/ removals[i].tick > t - 2}
    IN  Filtered(removals, {removals[i] : i \in recent})

ClearTrackers ==
    /\ lastTick' = tick
    /\ removals' = DrainBefore(tick)
    /\ pace' = [pace EXCEPT !.ticked = FALSE]
    /\ gone' = {<<g[1], 1>> : g \in {g \in gone : g[2] = 0}}
    /\ UNCHANGED <<storageVars, tick, cache, ghostVars>>

-----------------------------------------------------------------------------
(* QueryState.Matches *)
Matches(q, a) == q.required \subseteq a /\ q.excluded \cap a = {}

(* refresh: the archetypes created since the last scan. *)
Refreshed ==
    [cache EXCEPT !.matched = @ \o Filtered(SubSeq(archetypes, cache.nextScan + 1, Len(archetypes)),
                                            {a \in DOMAIN tables : Matches(cache.query, a)}),
                  !.nextScan = Len(archetypes)]

(* Any terminal method leaves the refreshed cache behind. *)
Refresh ==
    /\ cache' = Refreshed
    /\ UNCHANGED <<storageVars, tick, lastTick, removals, ghostVars, pace, gone>>

RowTicks(a, i, c) == IF c \in SetType THEN setTicks[c][tables[a][i]] ELSE columnTicks[a][i][c]

(* passesPerRow *)
Passes(q, a, i) ==
    /\ \A c \in q.added : RowTicks(a, i, c).added > lastTick
    /\ \A c \in q.changed : RowTicks(a, i, c).changed > lastTick

(* What All yields: the places <<matched archetype, row>> it stops at. *)
Yielded ==
    UNION {{<<k, i>> : i \in {j \in DOMAIN tables[Refreshed.matched[k]] :
                              Passes(cache.query, Refreshed.matched[k], j)}} : k \in DOMAIN Refreshed.matched}

EntityAt(place) == tables[Refreshed.matched[place[1]]][place[2]]

-----------------------------------------------------------------------------
Fits(a) == a \in DOMAIN tables \/ Len(archetypes) < MaxArchetypes

Change ==
    \/ \E e \in Thing, types \in SUBSET Type : Fits(types) /\ SpawnThing(e, types)
    \/ \E e \in Alive, types \in SUBSET Type \ {{}} : Fits(Home(e) \cup types) /\ Insert(e, types)
    \/ \E e \in Alive, c \in Type : Fits(Home(e) \ {c}) /\ RemoveByID(e, c)
    \/ \E e \in Alive : DespawnThing(e)

ChangeNext ==
    \/ changes < MaxCalls /\ Change /\ changes' = changes + 1
    \/ UNCHANGED changes /\ (IncrementTick \/ ClearTrackers \/ Refresh)

ChangeSpec == ChangeInit /\ [][ChangeNext]_changeVars

-----------------------------------------------------------------------------
(* l1-change-detection INV-1 and INV-2, l1-query-system.  However its      *)
(* cache lags and however often entities changed archetype, a query yields *)
(* each entity once, and exactly those that have the required types and    *)
(* whose filtered types were inserted, or written, at a tick after the     *)
(* last ClearTrackers.  A migrating Insert that supplies a sparse type the *)
(* entity has already is the exception: the type then counts as added.     *)
QueriesExact ==
    LET q == cache.query
        since(e) ==
            /\ \A c \in q.added : inserted[e][c] > lastTick \/ <<e, c>> \in restamped
            /\ \A c \in q.changed : lastWrite[e][c] > lastTick
        wanted == {e \in Alive : Matches(q, Home(e)) /\ since(e)}
    IN /\ \A x, y \in Yielded : EntityAt(x) = EntityAt(y) => x = y
       /\ \A x \in Yielded : EntityAt(x) \in wanted
       /\ \A e \in wanted : (\E x \in Yielded : EntityAt(x) = e) \/ \E c \in q.added : <<e, c>> \in restamped

(* removed.go:16-19.  As long as no frame advances the tick twice, a       *)
(* removal can be read in its own frame and in the next.                   *)
RemovalsSeen == pace.busy \/ \A g \in gone : \E i \in DOMAIN removals : removals[i].entity = g[1]

ChangesReported == QueriesExact /\ RemovalsSeen

(* removed.go:16, "Entries persist for two update cycles".                 *)
RemovalsLastTwoFrames == \A g \in gone : \E i \in DOMAIN removals : removals[i].entity = g[1]

(* l1-change-detection INV-2: "added" if and only if it was inserted.      *)
AddedMeansInserted == restamped = {}

(* l1-change-detection 4.6, "(or the entity is despawned)".                *)
DespawnsAreRemovals ==
    [][\A e \in Alive : Tracked \in Home(e) /\ e \notin Alive' => removals' # removals]_changeVars
=============================================================================
