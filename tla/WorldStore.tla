----------------------------- MODULE WorldStore -----------------------------
(***************************************************************************)
(* The archetype storage of internal/ecs/world: one archetype per set of   *)
(* components, an entity list and a column table per archetype, sparse     *)
(* sets beside them, and a record that locates each entity.  The World is  *)
(* not thread-safe; one action is one call.                                *)
(*                                                                         *)
(* An archetype is named by its component set, which ArchetypeStore.index  *)
(* maps one-to-one to its ID.  What is kept of the archetypes slice is its *)
(* capacity, because growing it moves every Archetype: a pointer taken     *)
(* before then refers to the abandoned copy (see Stale).  Rows count from  *)
(* one.  Change ticks, edges and listeners are left out.                   *)
(***************************************************************************)
EXTENDS EntityAllocator, FiniteSets

CONSTANTS
    TableComp, SparseComp,  \* the component types, by storage strategy
    Value,                  \* component values, the zero value among them
    Zero,
    RequiredBy,             \* transitive required components of each type
    DataSets,               \* bound: the data a Spawn or an Insert may carry
    InitCap                 \* capacity of the archetypes slice (16 in the code)

Component == TableComp \cup SparseComp

ASSUME StoreAssumption ==
    /\ IsFiniteSet(Component)
    /\ TableComp \cap SparseComp = {}
    /\ Zero \in Value
    /\ RequiredBy \in [Component -> SUBSET Component]
    /\ DataSets \subseteq UNION {[C -> Value] : C \in SUBSET Component}
    /\ InitCap \in Nat \ {0}

VARIABLE store
(* store.created    the archetypes in ArchetypeStore.index                 *)
(* store.capacity   cap(archetypes)                                        *)
(* store.entities   archetype -> the entity of each row                    *)
(* store.table      archetype -> the row values, <<>> without table columns *)
(* store.sparse     sparse component -> entity -> value                    *)
(* store.records    entity -> [arch, row]                                  *)

Archetype == SUBSET Component
Empty == {}
Nothing == [x \in {} |-> x]
Columns(arch) == arch \cap TableComp
HasTable(arch) == Columns(arch) # {}

(* map and slice helpers *)
With(f, x, v) == [y \in DOMAIN f \cup {x} |-> IF y = x THEN v ELSE f[y]]
Without(f, x) == [y \in DOMAIN f \ {x} |-> f[y]]
Pop(s) == SubSeq(s, 1, Len(s) - 1)
SwapPop(s, row) == Pop([s EXCEPT ![row] = s[Len(s)]])

StoreInit ==
    /\ Init
    /\ store = [created  |-> {Empty},
                capacity |-> InitCap,
                entities |-> [arch \in Archetype |-> <<>>],
                table    |-> [arch \in Archetype |-> <<>>],
                sparse   |-> [c \in SparseComp |-> Nothing],
                records  |-> Nothing]

-----------------------------------------------------------------------------
(* findOrCreate: append the archetype, growing the slice when it is full.  *)
FindOrCreate(s, arch) ==
    IF arch \in s.created THEN s
    ELSE [s EXCEPT !.created = @ \cup {arch},
                   !.capacity = IF Cardinality(s.created) = @ THEN 2 * @ ELSE @]

(* An *Archetype taken before findOrCreate(arch) points into the old array. *)
Stale(s, arch) == arch \notin s.created /\ Cardinality(s.created) = s.capacity

(* resolveData: the supplied values, and the zero value of every required  *)
(* type that was not supplied.                                             *)
ResolveData(data) ==
    [c \in DOMAIN data \cup UNION {RequiredBy[d] : d \in DOMAIN data} |->
        IF c \in DOMAIN data THEN data[c] ELSE Zero]

(* addEntityToArchetype and the record its callers write afterwards. *)
AddEntityToArchetype(s, arch, e, values) ==
    LET row == IF HasTable(arch) THEN Len(s.table[arch]) + 1 ELSE Len(s.entities[arch]) + 1
        cells == [c \in Columns(arch) |-> IF c \in DOMAIN values THEN values[c] ELSE Zero]
    IN [s EXCEPT
        !.sparse = [c \in SparseComp |-> IF c \in arch /\ c \in DOMAIN values
                                         THEN With(s.sparse[c], e, values[c]) ELSE s.sparse[c]],
        !.table[arch] = IF HasTable(arch) THEN Append(@, cells) ELSE @,
        !.entities[arch] = Append(@, e),
        !.records = With(@, e, [arch |-> arch, row |-> row])]

(* The row whose entity moves into `row`, none when it was the last: by    *)
(* the table when there is one, else by the entity list.                   *)
MovedFrom(s, arch, row) ==
    LET last == IF HasTable(arch) THEN Len(s.table[arch]) ELSE Len(s.entities[arch])
    IN {r \in {last} : r # row}

(* Mutant: the entity that moves into the freed row keeps its old record. *)
RemoveEntityUnrecorded(s, arch, e, row, evictSparse, stale) ==
    LET last == Len(s.entities[arch])
        swapped == [s.entities[arch] EXCEPT ![row] = s.entities[arch][last]]
    IN [s EXCEPT
        !.table[arch] = IF HasTable(arch) THEN SwapPop(@, row) ELSE @,
        !.entities[arch] = IF stale THEN swapped ELSE Pop(swapped),
        !.sparse = [c \in SparseComp |-> IF evictSparse /\ c \in arch
                                         THEN Without(s.sparse[c], e) ELSE s.sparse[c]]]

(* removeEntityFromArchetype: swap-and-pop.  Through a stale pointer the   *)
(* entity array and the table are still shared, the new length is not.     *)
RemoveEntityFromArchetype(s, arch, e, row, evictSparse, stale) ==
    LET last == Len(s.entities[arch])
        swapped == [s.entities[arch] EXCEPT ![row] = s.entities[arch][last]]
        moved == {s.entities[arch][r] : r \in MovedFrom(s, arch, row)}
    IN [s EXCEPT
        !.table[arch] = IF HasTable(arch) THEN SwapPop(@, row) ELSE @,
        !.entities[arch] = IF stale THEN swapped ELSE Pop(swapped),
        !.records = [x \in DOMAIN @ |-> IF x \in moved THEN [s.records[x] EXCEPT !.row = row]
                                        ELSE s.records[x]],
        !.sparse = [c \in SparseComp |-> IF evictSparse /\ c \in arch
                                         THEN Without(s.sparse[c], e) ELSE s.sparse[c]]]

(* The table values e leaves its old archetype with. *)
RowValues(s, rec) == IF HasTable(rec.arch) THEN s.table[rec.arch][rec.row] ELSE Nothing

Merge(old, new) ==
    [c \in DOMAIN old \cup DOMAIN new |-> IF c \in DOMAIN new THEN new[c] ELSE old[c]]

(* From rec's archetype to another one, taking `values` along. *)
Migrate(s, e, rec, arch, values) ==
    AddEntityToArchetype(
        RemoveEntityFromArchetype(FindOrCreate(s, arch), rec.arch, e, rec.row, FALSE, Stale(s, arch)),
        arch, e, values)

(* writeComponentValue, for each of the values. *)
WriteValues(s, rec, e, values) ==
    LET rows == s.table[rec.arch]
        new == [c \in Columns(rec.arch) |-> IF c \in DOMAIN values THEN values[c] ELSE rows[rec.row][c]]
    IN [s EXCEPT
        !.table[rec.arch] = IF HasTable(rec.arch) THEN [rows EXCEPT ![rec.row] = new] ELSE rows,
        !.sparse = [c \in SparseComp |-> IF c \in DOMAIN values
                                         THEN With(s.sparse[c], e, values[c]) ELSE s.sparse[c]]]

-----------------------------------------------------------------------------
(* The bodies of the World's operations on an entity that is alive. *)

(* w.records[e.ID()]: a map miss yields the zero record, the first row of  *)
(* the empty archetype.                                                    *)
Record(s, e) == IF e \in DOMAIN s.records THEN s.records[e] ELSE [arch |-> Empty, row |-> 1]

Placed(s, e, data) ==
    LET values == ResolveData(data)
        arch == DOMAIN values
    IN AddEntityToArchetype(FindOrCreate(s, arch), arch, e, values)

Inserted(s, e, data) ==
    LET rec == Record(s, e)
        values == ResolveData(data)
        arch == rec.arch \cup DOMAIN values
    IN IF data = Nothing THEN s
       ELSE IF arch = rec.arch THEN WriteValues(s, rec, e, values)
       ELSE Migrate(s, e, rec, arch, Merge(RowValues(s, rec), values))

(* Mutant: the remaining table values do not move to the new row. *)
RemovedForgetful(s, e, c) ==
    LET rec == s.records[e]
        dropped == IF c \in SparseComp THEN [s EXCEPT !.sparse[c] = Without(@, e)] ELSE s
    IN Migrate(dropped, e, rec, rec.arch \ {c}, Nothing)

Removed(s, e, c) ==
    LET rec == s.records[e]
        dropped == IF c \in SparseComp THEN [s EXCEPT !.sparse[c] = Without(@, e)] ELSE s
        kept == [d \in Columns(rec.arch) \ {c} |-> RowValues(s, rec)[d]]
    IN Migrate(dropped, e, rec, rec.arch \ {c}, kept)

Despawned(s, e) ==
    LET rec == s.records[e] IN
    [RemoveEntityFromArchetype(s, rec.arch, e, rec.row, TRUE, FALSE)
        EXCEPT !.records = Without(@, e)]

-----------------------------------------------------------------------------
HasRecord(e) == e \in DOMAIN store.records

(* Spawn (SpawnEmpty is Spawn of nothing). *)
Spawn(e, data) ==
    /\ Allocate(e)
    /\ store' = Placed(store, e, data)

(* Insert evicts the first row of the empty archetype for an entity        *)
(* without a record, and panics when there is none, findOrCreate done.     *)
Panics(e, data) == ~HasRecord(e) /\ data # Nothing /\ store.entities[Empty] = <<>>

Insert(e, data) ==
    /\ IsAlive(e)
    /\ store' = IF Panics(e, data) THEN FindOrCreate(store, DOMAIN ResolveData(data))
                ELSE Inserted(store, e, data)
    /\ UNCHANGED allocVars

(* Remove[T] and RemoveByID. *)
Remove(e, c) ==
    /\ IsAlive(e) /\ HasRecord(e)
    /\ c \in store.records[e].arch
    /\ store' = Removed(store, e, c)
    /\ UNCHANGED allocVars

(* Mutant: the entity leaves the store but keeps its ID. *)
DespawnLeaking(e) ==
    /\ IsAlive(e)
    /\ store' = IF HasRecord(e) THEN Despawned(store, e) ELSE store
    /\ UNCHANGED allocVars

Despawn(e) ==
    /\ IsAlive(e)
    /\ Free(e)
    /\ store' = IF HasRecord(e) THEN Despawned(store, e) ELSE store

(* Every operation on a dead handle returns ErrEntityNotAlive. *)
OnDead(e) == ~IsAlive(e) /\ UNCHANGED <<allocVars, store>>

-----------------------------------------------------------------------------
(* The store has its declared shape. *)
StoreTypeOK ==
    /\ store.created \subseteq Archetype /\ Empty \in store.created
    /\ Cardinality(store.created) <= store.capacity
    /\ \A arch \in Archetype :
        /\ store.entities[arch] \in Seq(Handle)
        /\ store.table[arch] \in Seq([Columns(arch) -> Value])
    /\ \A e \in DOMAIN store.records :
        store.records[e].arch \in store.created /\ store.records[e].row \in Nat

(* archetype.go:28-30 and l1-world-system INV-2.  The records, the entity  *)
(* lists, the tables and the sparse sets tell one story: each record       *)
(* points at the row that holds its entity, no entity is listed anywhere   *)
(* else, a table has a row for each listed entity, and a sparse set holds  *)
(* exactly the entities whose archetype names it.  Only live entities have *)
(* a place in the store (l1-entity-system INV-3), so a stale handle        *)
(* reaches nobody's components.                                            *)
StoreAgrees ==
    /\ \A e \in DOMAIN store.records : IsAlive(e)
    /\ \A e \in DOMAIN store.records :
        LET r == store.records[e] IN
        r.row \in 1 .. Len(store.entities[r.arch]) /\ store.entities[r.arch][r.row] = e
    /\ \A arch \in Archetype :
        /\ \A i \in 1 .. Len(store.entities[arch]) :
            /\ store.entities[arch][i] \in DOMAIN store.records
            /\ store.records[store.entities[arch][i]] = [arch |-> arch, row |-> i]
        /\ HasTable(arch) => Len(store.table[arch]) = Len(store.entities[arch])
    /\ \A c \in SparseComp :
        DOMAIN store.sparse[c] = {e \in DOMAIN store.records : c \in store.records[e].arch}

(* What Get answers for each entity. *)
Stored(e) ==
    LET rec == store.records[e] IN
    [c \in rec.arch |-> IF c \in TableComp THEN store.table[rec.arch][rec.row][c]
                        ELSE store.sparse[c][e]]

Contents == INSTANCE WorldContents WITH
    contents <- [e \in DOMAIN store.records |-> Stored(e)],
    Data <- DataSets, Resolve <- ResolveData

(* l1-component-system.md:95, "Inserts any missing required components".   *)
(* Inserting one component leaves the others the entity already has alone. *)
(* resolveData does not look at the entity: a required component that is   *)
(* there already is overwritten with its zero value.                       *)
RequiredOnlyWhenMissing ==
    [][\A e \in issued, data \in DataSets :
          HasRecord(e) /\ Insert(e, data) =>
              \A c \in store.records[e].arch \ DOMAIN data : Stored(e)'[c] = Stored(e)[c]]_store

(* The archetype store implements the plain map from entities to their     *)
(* components: migrations and swap-and-pop never touch another entity's    *)
(* values, and lose none of the entity's own.                              *)
ContentsSpec == Contents!Spec
=============================================================================
