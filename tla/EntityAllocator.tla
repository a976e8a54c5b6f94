-------------------------- MODULE EntityAllocator --------------------------
(***************************************************************************)
(* The generational free-list arena of internal/ecs/entity/allocator.go.   *)
(* Every mutation runs under the allocator's write lock, so one action is  *)
(* one critical section.  `issued` is not a field of the allocator: it     *)
(* records the handles its callers may still hold, dead ones included,     *)
(* because the point of a generation is what happens to those.             *)
(***************************************************************************)
EXTENDS Integers, Sequences

CONSTANTS
    MaxSlots,   \* bound: slots the arena may grow to (2^32 indices in the code)
    GenMod,     \* number of values of the generation counter (2^32 in the code)
    MaxGen,     \* bound: the highest generation a slot reaches in a session
    MaxBatch    \* bound: entities per AllocateMany call

ASSUME SlotsAssumption == MaxSlots \in Nat \ {0}
ASSUME GenAssumption == GenMod \in Nat /\ MaxGen \in Nat /\ 1 <= MaxGen /\ MaxGen < GenMod
ASSUME BatchAssumption == MaxBatch \in Nat

VARIABLES
    generations,   \* generations[i], 0 where the slot is not tracked or unused
    size,          \* len(generations)
    freeList,      \* indices available for reuse; the last one is popped first
    alive,         \* the live-entity counter behind Len()
    issued         \* handles handed out so far

allocVars == <<generations, size, freeList, alive, issued>>

Slots == 0 .. MaxSlots - 1
Generation == 0 .. GenMod - 1
Handle == [index : Slots, generation : Generation]
NewEntity(i, g) == [index |-> i, generation |-> g]
Null == NewEntity(0, 0)

Init ==
    /\ generations = [i \in Slots |-> 0]
    /\ size = 0
    /\ freeList = <<>>
    /\ alive = 0
    /\ issued = {}

(* IsAlive: the handle is not null, its slot is tracked and the            *)
(* generations match.                                                      *)
IsAlive(e) ==
    /\ e # Null
    /\ e.index < size
    /\ generations[e.index] = e.generation

(* Allocate, free list not empty: pop the last index. *)
Reuse(e) ==
    LET n == Len(freeList) IN
    /\ n > 0
    /\ e = NewEntity(freeList[n], generations[freeList[n]])
    /\ freeList' = SubSeq(freeList, 1, n - 1)
    /\ alive' = alive + 1
    /\ issued' = issued \cup {e}
    /\ UNCHANGED <<generations, size>>

(* Allocate, free list empty: append a slot at generation 1. *)
Extend(e) ==
    /\ freeList = <<>>
    /\ size < MaxSlots
    /\ e = NewEntity(size, 1)
    /\ generations' = [generations EXCEPT ![size] = 1]
    /\ size' = size + 1
    /\ alive' = alive + 1
    /\ issued' = issued \cup {e}
    /\ UNCHANGED freeList

Allocate(e) == Reuse(e) \/ Extend(e)

(* The handles AllocateMany(n) returns: the top of the free list first,    *)
(* then fresh slots at the end of the arena.                               *)
Batch(n, reuse) ==
    {NewEntity(freeList[k], generations[freeList[k]])
        : k \in Len(freeList) - reuse + 1 .. Len(freeList)}
    \cup {NewEntity(i, 1) : i \in size .. size + (n - reuse) - 1}

(* Mutant: the reused slots start again at generation 1 like the fresh ones. *)
AllocateManyResets(n) ==
    LET reuse == IF Len(freeList) < n THEN Len(freeList) ELSE n
        popped == {freeList[k] : k \in Len(freeList) - reuse + 1 .. Len(freeList)}
        fresh == size .. size + (n - reuse) - 1
    IN
    /\ n > 0
    /\ size + (n - reuse) <= MaxSlots
    /\ freeList' = SubSeq(freeList, 1, Len(freeList) - reuse)
    /\ generations' = [i \in Slots |-> IF i \in popped \cup fresh THEN 1 ELSE generations[i]]
    /\ size' = size + (n - reuse)
    /\ alive' = alive + n
    /\ issued' = issued \cup {NewEntity(i, 1) : i \in popped \cup fresh}

AllocateMany(n) ==
    LET reuse == IF Len(freeList) < n THEN Len(freeList) ELSE n IN
    /\ n > 0
    /\ size + (n - reuse) <= MaxSlots
    /\ freeList' = SubSeq(freeList, 1, Len(freeList) - reuse)
    /\ generations' = [i \in Slots |->
           IF size <= i /\ i < size + (n - reuse) THEN 1 ELSE generations[i]]
    /\ size' = size + (n - reuse)
    /\ alive' = alive + n
    /\ issued' = issued \cup Batch(n, reuse)

(* Mutant: the generation stays, so the freed handle is offered again. *)
FreeInPlace(e) ==
    /\ IsAlive(e)
    /\ freeList' = Append(freeList, e.index)
    /\ alive' = alive - 1
    /\ UNCHANGED <<generations, size, issued>>

(* Mutant: Free does not compare generations, so a stale handle frees      *)
(* whoever lives in its slot now.                                          *)
FreeUnchecked(e) ==
    /\ e # Null
    /\ e.index < size
    /\ generations[e.index] < MaxGen
    /\ generations' = [generations EXCEPT ![e.index] = (@ + 1) % GenMod]
    /\ freeList' = Append(freeList, e.index)
    /\ alive' = alive - 1
    /\ UNCHANGED <<size, issued>>

(* Free of a handle whose generation matches: the slot's generation moves  *)
(* on, so the handle and its copies die, and the index becomes reusable.   *)
Free(e) ==
    /\ e # Null
    /\ e.index < size
    /\ generations[e.index] = e.generation
    /\ e.generation < MaxGen
    /\ generations' = [generations EXCEPT ![e.index] = (@ + 1) % GenMod]
    /\ freeList' = Append(freeList, e.index)
    /\ alive' = alive - 1
    /\ UNCHANGED <<size, issued>>

(* Free of a null, out-of-range or stale handle returns early. *)
FreeStale(e) ==
    /\ \/ e = Null
       \/ e.index >= size
       \/ generations[e.index] # e.generation
    /\ UNCHANGED allocVars

Next ==
    \/ \E e \in Handle : Allocate(e)
    \/ \E n \in 1 .. MaxBatch : AllocateMany(n)
    \/ \E e \in issued : Free(e)
    \/ \E e \in issued \cup {Null} : FreeStale(e)

Spec == Init /\ [][Next]_allocVars

-----------------------------------------------------------------------------
(* The allocator's state has its declared shape. *)
TypeOK ==
    /\ generations \in [Slots -> Generation]
    /\ size \in 0 .. MaxSlots
    /\ freeList \in Seq(Slots)
    /\ alive \in Int
    /\ issued \in SUBSET Handle

(* allocator.go:49-55, :111-113.  The free list and the arena agree: a     *)
(* listed index is tracked and listed once (an index listed twice would be *)
(* handed to two callers), and the counter behind Len() is exactly the     *)
(* number of slots that are not listed.                                    *)
FreeListConsistent ==
    /\ \A k \in 1 .. Len(freeList) : freeList[k] < size
    /\ \A j, k \in 1 .. Len(freeList) : freeList[j] = freeList[k] => j = k
    /\ alive = size - Len(freeList)

(* l1-entity-system INV-1 and INV-2.  The handle the next pop of a free    *)
(* slot would hand out, or the next extension, is one no caller has ever   *)
(* been given: a stale handle is never mistaken for a new entity.          *)
FreshOnReuse ==
    /\ \A k \in 1 .. Len(freeList) :
           NewEntity(freeList[k], generations[freeList[k]]) \notin issued
    /\ \A e \in issued : e.index < size

(* allocator.go:31-34.  The null sentinel is never handed out. *)
NeverNull == Null \notin issued

(* The handles callers hold that IsAlive accepts. *)
liveHandles == {e \in issued : IsAlive(e)}

Ledger == INSTANCE EntityLedger WITH live <- liveHandles

(* The arena implements the ledger: an allocation makes exactly the new    *)
(* handles live and kills or revives nobody, a Free kills at most one.     *)
LedgerSpec == Ledger!Spec
=============================================================================
