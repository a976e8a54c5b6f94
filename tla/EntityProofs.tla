----------------------------- MODULE EntityProofs -----------------------------
(***************************************************************************)
(* Proofs about the entities: EntityAllocator, for every size of the       *)
(* arena, width of the generation counter and batch size; and              *)
(* CommandFlush, for any number of systems, component types, entities and  *)
(* commands.                                                               *)
(***************************************************************************)
EXTENDS EntityAllocator, CommandFlush, SequenceTheorems, FiniteSetTheorems, TLAPS

-----------------------------------------------------------------------------
(* EntityAllocator.  The inductive invariant adds to the checked           *)
(* properties what ties the handles callers hold to the arena: a held      *)
(* handle names a tracked slot and a generation the slot has already       *)
(* reached.  With that, bumping the generation on Free is what makes the   *)
(* slot's next handle unseen.                                              *)

(* A tracked slot's generation lies in 1..MaxGen. *)
TrackedGenerations ==
    \A i \in Slots : i < size => generations[i] \in 1 .. MaxGen

(* A handle some caller holds has a generation its slot already reached. *)
IssuedReached ==
    \A e \in issued :
        e.index < size /\ 1 <= e.generation /\ e.generation <= generations[e.index]

IInv ==
    /\ TypeOK
    /\ FreeListConsistent
    /\ TrackedGenerations
    /\ IssuedReached
    /\ FreshOnReuse

USE SlotsAssumption, GenAssumption, BatchAssumption DEF SlotsAssumption, GenAssumption, BatchAssumption

(* What a prefix of a sequence is: SubSeq from 1 keeps the first n         *)
(* elements.  Popping the free list takes such a prefix.                   *)
LEMMA PrefixFacts ==
    ASSUME NEW S, NEW s \in Seq(S), NEW n \in 0 .. Len(s)
    PROVE  /\ SubSeq(s, 1, n) \in Seq(S)
           /\ Len(SubSeq(s, 1, n)) = n
           /\ \A k \in 1 .. n : SubSeq(s, 1, n)[k] = s[k]
<1>1. n \in Int /\ 1 \in Int /\ \A k \in 1 .. n : s[k] \in S
    BY LenProperties, ElementOfSeq
<1>2. /\ SubSeq(s, 1, n) \in Seq(S)
      /\ Len(SubSeq(s, 1, n)) = IF 1 <= n THEN n - 1 + 1 ELSE 0
      /\ \A k \in 1 .. n - 1 + 1 : SubSeq(s, 1, n)[k] = s[1 + k - 1]
    BY <1>1, SubSeqProperties
<1> QED BY <1>2

(* The empty arena satisfies the inductive invariant. *)
LEMMA InitIInv == Init => IInv
<1> SUFFICES ASSUME Init PROVE IInv
    OBVIOUS
<1>1. Len(freeList) = 0 /\ freeList \in Seq(Slots)
    BY EmptySeq DEF Init
<1>2. TypeOK
    BY <1>1 DEF Init, TypeOK, Slots, Generation
<1>3. FreeListConsistent
    <2>1. alive = 0 /\ size = 0
        BY DEF Init
    <2>2. \A k \in 1 .. Len(freeList) : FALSE
        BY <1>1
    <2>3. alive = size - Len(freeList)
        BY <1>1, <2>1
    <2> QED BY <2>2, <2>3 DEF FreeListConsistent
<1>4. TrackedGenerations /\ IssuedReached /\ FreshOnReuse
    BY <1>1 DEF Init, TrackedGenerations, IssuedReached, FreshOnReuse, Slots
<1> QED BY <1>2, <1>3, <1>4 DEF IInv

(* Popping the free list (allocator.go:46-48) keeps it. *)
LEMMA ReuseIInv == ASSUME IInv, NEW e \in Handle, Reuse(e) PROVE IInv'
<1> DEFINE n == Len(freeList)
<1>1. /\ n \in Nat /\ n > 0 /\ freeList[n] \in Slots /\ freeList[n] < size
      /\ e = NewEntity(freeList[n], generations[freeList[n]])
      /\ size' = size /\ generations' = generations
      /\ alive' = alive + 1 /\ issued' = issued \cup {e}
    BY DEF Reuse, IInv, TypeOK, FreeListConsistent
<1>2. /\ freeList' \in Seq(Slots) /\ Len(freeList') = n - 1
      /\ \A k \in 1 .. n - 1 : freeList'[k] = freeList[k]
    <2>1. n - 1 \in 0 .. Len(freeList) /\ freeList \in Seq(Slots)
        BY <1>1 DEF IInv, TypeOK
    <2>2. freeList' = SubSeq(freeList, 1, n - 1)
        BY DEF Reuse
    <2> QED BY <2>1, <2>2, PrefixFacts
<1>3. e.index < size /\ 1 <= e.generation /\ e.generation <= generations[e.index]
    BY <1>1 DEF IInv, TypeOK, TrackedGenerations, NewEntity, Generation
<1>4. TypeOK'
    BY <1>1, <1>2 DEF IInv, TypeOK
<1>5. FreeListConsistent'
    BY SMTT(30), <1>1, <1>2 DEF IInv, TypeOK, FreeListConsistent
<1>6. TrackedGenerations'
    BY <1>1 DEF IInv, TrackedGenerations
<1>7. IssuedReached'
    BY <1>1, <1>3 DEF IInv, IssuedReached
<1>8. FreshOnReuse'
    <2>1. ASSUME NEW k \in 1 .. n - 1
          PROVE  NewEntity(freeList[k], generations[freeList[k]]) \notin issued'
        <3>1. freeList[k] # freeList[n]
            BY <1>1 DEF IInv, FreeListConsistent
        <3>2. NewEntity(freeList[k], generations[freeList[k]]) # e
            BY <1>1, <3>1 DEF NewEntity
        <3> QED BY <1>1, <3>2 DEF IInv, FreshOnReuse
    <2> QED BY <1>1, <1>2, <1>7, <2>1 DEF FreshOnReuse, IssuedReached
<1> QED BY <1>4, <1>5, <1>6, <1>7, <1>8 DEF IInv

(* Extending the arena (allocator.go:49-51) keeps it. *)
LEMMA ExtendIInv == ASSUME IInv, NEW e \in Handle, Extend(e) PROVE IInv'
<1> USE DEF Extend, IInv
<1>1. TypeOK'
    BY DEF TypeOK, Slots, Generation, Handle
<1>2. FreeListConsistent'
    BY DEF TypeOK, FreeListConsistent, Slots
<1>3. TrackedGenerations'
    BY DEF TrackedGenerations, TypeOK, Slots, Generation
<1>5. IssuedReached'
    BY DEF IssuedReached, TypeOK, Slots, NewEntity, Handle
<1>6. FreshOnReuse'
    BY <1>5 DEF FreshOnReuse, IssuedReached
<1> QED BY <1>1, <1>2, <1>3, <1>5, <1>6

(* A batch allocation (allocator.go:60-93) keeps it. *)
LEMMA AllocateManyIInv ==
    ASSUME IInv, NEW n \in 1 .. MaxBatch, AllocateMany(n) PROVE IInv'
<1> DEFINE L == Len(freeList)
           reuse == IF L < n THEN L ELSE n
           fresh == n - reuse
<1>1. /\ L \in Nat /\ reuse \in Nat /\ fresh \in Nat /\ n \in Nat
      /\ reuse <= L /\ size \in Nat
      /\ (fresh > 0 => reuse = L)
      /\ fresh = n - reuse
    BY DEF IInv, TypeOK
<1>2. /\ size + fresh <= MaxSlots
      /\ freeList' = SubSeq(freeList, 1, L - reuse)
      /\ generations' = [i \in Slots |-> IF size <= i /\ i < size + fresh THEN 1 ELSE generations[i]]
      /\ size' = size + fresh
      /\ alive' = alive + n
      /\ issued' = issued \cup Batch(n, reuse)
    BY DEF AllocateMany
<1>3. /\ freeList' \in Seq(Slots)
      /\ Len(freeList') = L - reuse
      /\ \A k \in 1 .. L - reuse : freeList'[k] = freeList[k]
    <2>1. L - reuse \in 0 .. Len(freeList) /\ freeList \in Seq(Slots)
        BY <1>1 DEF IInv, TypeOK
    <2> HIDE DEF reuse
    <2> QED BY <1>2, <2>1, PrefixFacts
<1> HIDE DEF reuse, fresh
<1>4. \A h \in Batch(n, reuse) :
         /\ h \in Handle /\ h.index < size'
         /\ h.generation = generations'[h.index]
         /\ h.generation \in 1 .. MaxGen
         /\ \/ size <= h.index
            \/ \E k \in L - reuse + 1 .. L : h.index = freeList[k]
    <2>1. ASSUME NEW k \in L - reuse + 1 .. L
          PROVE  LET h == NewEntity(freeList[k], generations[freeList[k]]) IN
                 /\ h \in Handle /\ h.index < size'
                 /\ h.generation = generations'[h.index]
                 /\ h.generation \in 1 .. MaxGen
                 /\ h.index = freeList[k]
        <3>1. k \in 1 .. L /\ freeList[k] \in Slots /\ freeList[k] < size
            BY <1>1 DEF IInv, TypeOK, FreeListConsistent
        <3>2. generations[freeList[k]] \in 1 .. MaxGen /\ generations'[freeList[k]] = generations[freeList[k]]
            BY <1>1, <1>2, <3>1 DEF IInv, TrackedGenerations, Slots
        <3> DEFINE h == NewEntity(freeList[k], generations[freeList[k]])
        <3>3. h.index = freeList[k] /\ h.generation = generations[freeList[k]]
            BY DEF NewEntity
        <3>4. h \in Handle
            BY <3>1, <3>2 DEF NewEntity, Handle, Generation
        <3>5. freeList[k] < size'
            BY <1>1, <1>2, <3>1 DEF Slots
        <3> HIDE DEF h
        <3> QED BY <3>2, <3>3, <3>4, <3>5 DEF h
    <2>2. ASSUME NEW i \in size .. size + (n - reuse) - 1
          PROVE  LET h == NewEntity(i, 1) IN
                 /\ h \in Handle /\ h.index < size'
                 /\ h.generation = generations'[h.index]
                 /\ h.generation \in 1 .. MaxGen
                 /\ size <= h.index
        BY <1>1, <1>2 DEF NewEntity, Handle, Generation, Slots, fresh
    <2> QED BY <2>1, <2>2 DEF Batch
<1>5. TypeOK'
    <2>1. generations' \in [Slots -> Generation]
        BY SMTT(30), <1>1, <1>2 DEF IInv, TypeOK, Slots, Generation
    <2>2. size' \in 0 .. MaxSlots /\ alive' \in Int
        BY <1>1, <1>2 DEF IInv, TypeOK
    <2>3. issued' \in SUBSET Handle
        BY <1>2, <1>4 DEF IInv, TypeOK
    <2> QED BY <1>3, <2>1, <2>2, <2>3 DEF TypeOK
<1>6. FreeListConsistent'
    <2>1. alive' = size' - Len(freeList')
        <3>1. alive \in Int /\ alive = size - L
            BY DEF IInv, TypeOK, FreeListConsistent
        <3>2. /\ Len(freeList') = L - reuse /\ alive' = alive + n /\ size' = size + fresh
            BY <1>2, <1>3
        <3> QED BY <1>1, <3>1, <3>2
    <2>2. \A k \in 1 .. Len(freeList') : k \in 1 .. L /\ freeList'[k] = freeList[k] /\ freeList[k] \in Slots
        BY <1>1, <1>3 DEF IInv, TypeOK
    <2>3. \A k \in 1 .. Len(freeList') : freeList'[k] < size'
        BY SMTT(30), <1>1, <1>2, <2>2 DEF IInv, FreeListConsistent, Slots
    <2> QED BY <2>1, <2>2, <2>3 DEF IInv, FreeListConsistent
<1>7. TrackedGenerations'
    BY <1>1, <1>2 DEF IInv, TypeOK, TrackedGenerations, Slots, fresh
<1>8. IssuedReached'
    <2>1. ASSUME NEW h \in issued
          PROVE  h.index < size' /\ 1 <= h.generation /\ h.generation <= generations'[h.index]
        BY <1>1, <1>2 DEF IInv, TypeOK, IssuedReached, Handle, Slots
    <2> QED BY <1>2, <1>4, <2>1 DEF IssuedReached
<1>9. FreshOnReuse'
    <2>1. ASSUME NEW k \in 1 .. Len(freeList')
          PROVE  NewEntity(freeList'[k], generations'[freeList'[k]]) \notin issued'
        <3>1. k \in 1 .. L /\ k < L - reuse + 1 /\ freeList'[k] = freeList[k] /\ freeList[k] \in Slots /\ freeList[k] < size
            BY <1>1, <1>3 DEF IInv, TypeOK, FreeListConsistent
        <3>2. generations'[freeList[k]] = generations[freeList[k]]
            BY SMTT(30), <1>1, <1>2, <3>1 DEF Slots
        <3>3. NewEntity(freeList[k], generations[freeList[k]]) \notin issued
            BY <3>1 DEF IInv, FreshOnReuse
        <3>4. \A j \in L - reuse + 1 .. L : freeList[j] # freeList[k]
            BY <1>1, <3>1 DEF IInv, FreeListConsistent
        <3>5. NewEntity(freeList[k], generations[freeList[k]]) \notin Batch(n, reuse)
            <4>1. NewEntity(freeList[k], generations[freeList[k]]).index = freeList[k]
                BY DEF NewEntity
            <4>2. ~(size <= freeList[k])
                BY <1>1, <3>1 DEF Slots
            <4> QED BY <1>4, <3>4, <4>1, <4>2
        <3> QED BY <1>2, <3>1, <3>2, <3>3, <3>5
    <2> QED BY <1>8, <2>1 DEF FreshOnReuse, IssuedReached
<1> QED BY <1>5, <1>6, <1>7, <1>8, <1>9 DEF IInv

(* Freeing a live handle (allocator.go:98-114) keeps it. *)
LEMMA FreeIInv == ASSUME IInv, NEW e \in issued, Free(e) PROVE IInv'
<1> DEFINE i == e.index
           g == e.generation
<1>1. /\ e \in Handle /\ i \in Slots /\ i < size /\ generations[i] = g
      /\ g \in 1 .. MaxGen - 1
    BY DEF IInv, TypeOK, TrackedGenerations, Free, Handle, IssuedReached, Generation
<1>2. /\ generations' = [generations EXCEPT ![i] = g + 1]
      /\ freeList' = Append(freeList, i)
      /\ alive' = alive - 1
      /\ size' = size /\ issued' = issued
    <2>1. (g + 1) % GenMod = g + 1
        BY <1>1
    <2> QED BY <1>1, <2>1 DEF Free, IInv, TypeOK
<1>3. \A k \in 1 .. Len(freeList) : freeList[k] # i
    <2> SUFFICES ASSUME NEW k \in 1 .. Len(freeList), freeList[k] = i PROVE FALSE
        OBVIOUS
    <2>1. NewEntity(i, g) = e
        BY <1>1 DEF NewEntity, Handle
    <2> QED BY <1>1, <2>1 DEF IInv, FreshOnReuse
<1>4. TypeOK'
    BY SMTT(30), <1>1, <1>2 DEF IInv, TypeOK, Generation, Slots
<1>5. FreeListConsistent'
    BY <1>1, <1>2, <1>3 DEF IInv, TypeOK, FreeListConsistent
<1>6. TrackedGenerations'
    BY <1>1, <1>2 DEF IInv, TypeOK, TrackedGenerations
<1>7. IssuedReached'
    BY <1>1, <1>2 DEF IInv, TypeOK, IssuedReached, Handle, Generation
<1>8. FreshOnReuse'
    <2>1. ASSUME NEW k \in 1 .. Len(freeList')
          PROVE  NewEntity(freeList'[k], generations'[freeList'[k]]) \notin issued'
        <3>1. CASE k \in 1 .. Len(freeList)
            BY <1>1, <1>2, <1>3, <3>1 DEF IInv, TypeOK, FreshOnReuse
        <3>2. CASE k = Len(freeList) + 1
            <4>1. freeList'[k] = i /\ generations'[i] = g + 1
                BY <1>1, <1>2, <3>2 DEF IInv, TypeOK
            <4>2. NewEntity(i, g + 1) \notin issued
                BY <1>1 DEF IInv, IssuedReached, NewEntity
            <4> QED BY <1>2, <4>1, <4>2
        <3> QED BY <1>2, <3>1, <3>2 DEF IInv, TypeOK
    <2> QED BY <1>7, <2>1 DEF FreshOnReuse, IssuedReached
<1> QED BY <1>4, <1>5, <1>6, <1>7, <1>8 DEF IInv

(* Every step keeps the inductive invariant. *)
LEMMA NextIInv == IInv /\ [Next]_allocVars => IInv'
<1> SUFFICES ASSUME IInv, [Next]_allocVars PROVE IInv'
    OBVIOUS
<1>1. CASE \E e \in Handle : Allocate(e)
    BY <1>1, ReuseIInv, ExtendIInv DEF Allocate
<1>2. CASE \E n \in 1 .. MaxBatch : AllocateMany(n)
    BY <1>2, AllocateManyIInv
<1>3. CASE \E e \in issued : Free(e)
    BY <1>3, FreeIInv
<1>4. CASE UNCHANGED allocVars
    BY <1>4 DEF IInv, TypeOK, FreeListConsistent, TrackedGenerations, IssuedReached,
                FreshOnReuse, allocVars
<1> QED BY <1>1, <1>2, <1>3, <1>4 DEF Next, FreeStale

(* The inductive invariant holds in every reachable state. *)
THEOREM AlwaysIInv == Spec => []IInv
BY InitIInv, NextIInv, PTL DEF Spec

(* The allocator's state always has its declared shape. *)
THEOREM TypeCorrect == Spec => []TypeOK
<1>1. IInv => TypeOK BY DEF IInv
<1> QED BY AlwaysIInv, <1>1, PTL

(* No index is ever listed twice or listed while untracked, and Len()      *)
(* counts exactly the unlisted slots (allocator.go:44-55, :98-114).        *)
THEOREM FreeListCorrect == Spec => []FreeListConsistent
<1>1. IInv => FreeListConsistent BY DEF IInv
<1> QED BY AlwaysIInv, <1>1, PTL

(* The next handle of a free slot is one nobody holds (INV-2). *)
THEOREM ReuseIsFresh == Spec => []FreshOnReuse
<1>1. IInv => FreshOnReuse BY DEF IInv
<1> QED BY AlwaysIInv, <1>1, PTL

(* The null sentinel is never handed out (allocator.go:31-34). *)
THEOREM NullNeverIssued == Spec => []NeverNull
<1>1. IInv => NeverNull BY DEF IInv, IssuedReached, NeverNull, Null, NewEntity
<1> QED BY AlwaysIInv, <1>1, PTL
-----------------------------------------------------------------------------
(* An allocation that leaves the generations of tracked slots alone adds   *)
(* its handles to the live ones and kills nobody.                          *)
LEMMA AllocateIsIssue ==
    ASSUME IInv, IInv', NEW new \in SUBSET Handle, new # {},
           new \cap issued = {},
           issued' = issued \cup new,
           size <= size',
           \A i \in Slots : i < size => generations'[i] = generations[i],
           \A h \in new : h # Null /\ h.index < size' /\ generations'[h.index] = h.generation
    PROVE  Ledger!Issue
<1>1. \A e \in issued : IsAlive(e)' <=> IsAlive(e)
    <2> SUFFICES ASSUME NEW e \in issued PROVE IsAlive(e)' <=> IsAlive(e)
        OBVIOUS
    <2>1. e.index \in Slots /\ e.index < size /\ e.index < size'
        BY DEF IInv, TypeOK, IssuedReached, Handle, Slots
    <2> QED BY <2>1 DEF IsAlive
<1>2. \A h \in new : IsAlive(h)'
    BY DEF IsAlive
<1>3. liveHandles' = liveHandles \cup new
    BY <1>1, <1>2 DEF liveHandles
<1>4. issued' \ issued = new
    OBVIOUS
<1>5. issued' \subseteq Handle
    BY DEF IInv, TypeOK
<1> QED BY <1>3, <1>4, <1>5 DEF Ledger!Issue

(* A Free that matches kills exactly its argument. *)
LEMMA FreeIsRetire ==
    ASSUME IInv, NEW e \in issued, Free(e) PROVE Ledger!Retire(e)
<1>1. e \in liveHandles
    BY DEF Free, liveHandles, IsAlive
<1>2. /\ e \in Handle /\ e.index \in Slots /\ e.generation \in 1 .. MaxGen - 1
      /\ generations[e.index] = e.generation
    BY DEF IInv, TypeOK, IssuedReached, Free, Handle, Generation
<1>3. /\ generations' = [generations EXCEPT ![e.index] = e.generation + 1]
      /\ size' = size /\ issued' = issued
    <2>1. (e.generation + 1) % GenMod = e.generation + 1
        BY <1>2
    <2> QED BY <1>2, <2>1 DEF Free, IInv, TypeOK
<1>4. \A f \in issued : IsAlive(f)' <=> (IsAlive(f) /\ f # e)
    <2> SUFFICES ASSUME NEW f \in issued PROVE IsAlive(f)' <=> (IsAlive(f) /\ f # e)
        OBVIOUS
    <2>1. f \in Handle /\ f.index \in Slots /\ f.generation \in Int
        BY DEF IInv, TypeOK, Handle, Generation
    <2>2. CASE f.index # e.index
        BY <1>2, <1>3, <2>1, <2>2 DEF IsAlive, IInv, TypeOK
    <2>3. CASE f.index = e.index
        <3>1. generations'[f.index] = e.generation + 1 /\ generations[f.index] = e.generation
            BY <1>2, <1>3, <2>3 DEF IInv, TypeOK
        <3>2. f.generation <= e.generation
            BY <3>1 DEF IInv, IssuedReached
        <3>3. ~IsAlive(f)'
            BY <1>2, <2>1, <3>1, <3>2 DEF IsAlive
        <3>4. IsAlive(f) => f = e
            <4>1. \A h \in Handle : h = [index |-> h.index, generation |-> h.generation]
                BY DEF Handle
            <4>2. IsAlive(f) => f.generation = e.generation
                BY <3>1 DEF IsAlive
            <4> QED BY <1>2, <2>1, <2>3, <4>1, <4>2
        <3> QED BY <3>3, <3>4
    <2> QED BY <2>2, <2>3
<1>5. liveHandles' = liveHandles \ {e}
    BY <1>3, <1>4 DEF liveHandles
<1> QED BY <1>1, <1>3, <1>5 DEF Ledger!Retire

(* Popping or extending issues one unseen handle. *)
LEMMA AllocateStep ==
    ASSUME IInv, IInv', NEW e \in Handle, Allocate(e) PROVE Ledger!Issue
<1>1. CASE Reuse(e)
    <2>1. Len(freeList) \in 1 .. Len(freeList) /\ freeList[Len(freeList)] \in Slots
        BY <1>1 DEF Reuse, IInv, TypeOK
    <2>2. e \notin issued
        BY <1>1, <2>1 DEF Reuse, IInv, FreshOnReuse
    <2>3. e.index < size' /\ generations'[e.index] = e.generation /\ 1 <= e.generation
        BY <1>1, <2>1 DEF Reuse, IInv, FreeListConsistent, TrackedGenerations, TypeOK, NewEntity
    <2>4. e # Null
        BY <2>3 DEF Null, NewEntity
    <2>5. size \in Int
        BY DEF IInv, TypeOK
    <2>6. /\ {e} \in SUBSET Handle /\ {e} # {} /\ {e} \cap issued = {}
          /\ issued' = issued \cup {e}
          /\ size <= size'
          /\ \A i \in Slots : i < size => generations'[i] = generations[i]
          /\ \A h \in {e} : h # Null /\ h.index < size' /\ generations'[h.index] = h.generation
        BY <1>1, <2>2, <2>3, <2>4, <2>5 DEF Reuse
    <2> QED BY <2>6, AllocateIsIssue
<1>2. CASE Extend(e)
    <2>1. size \in Slots /\ e.index = size /\ e.generation = 1
        BY <1>2 DEF Extend, IInv, TypeOK, Slots, NewEntity
    <2>2. e \notin issued
        BY <2>1 DEF IInv, FreshOnReuse, Slots
    <2>3. e.index < size' /\ generations'[e.index] = e.generation
        BY <1>2, <2>1 DEF Extend, IInv, TypeOK, Slots
    <2>4. e # Null
        BY <2>1 DEF Null, NewEntity
    <2>5. size <= size' /\ \A i \in Slots : i < size => generations'[i] = generations[i]
        BY <1>2, <2>1 DEF Extend, IInv, TypeOK, Slots
    <2>6. /\ {e} \in SUBSET Handle /\ {e} # {} /\ {e} \cap issued = {}
          /\ issued' = issued \cup {e}
          /\ size <= size'
          /\ \A i \in Slots : i < size => generations'[i] = generations[i]
          /\ \A h \in {e} : h # Null /\ h.index < size' /\ generations'[h.index] = h.generation
        BY <1>2, <2>2, <2>3, <2>4, <2>5 DEF Extend
    <2> QED BY <2>6, AllocateIsIssue
<1> QED BY <1>1, <1>2 DEF Allocate
(* A batch issues handles that were all unseen. *)
LEMMA AllocateManyStep ==
    ASSUME IInv, IInv', NEW n \in 1 .. MaxBatch, AllocateMany(n) PROVE Ledger!Issue
<1> DEFINE L == Len(freeList)
           reuse == IF L < n THEN L ELSE n
           new == Batch(n, reuse)
<1>1. /\ L \in Nat /\ reuse \in 0 .. L /\ n \in Nat /\ n > 0 /\ size \in Nat
      /\ n - reuse \in Nat /\ (reuse = 0 => n - reuse > 0)
    BY DEF IInv, TypeOK
<1>2. /\ generations' = [i \in Slots |-> IF size <= i /\ i < size + (n - reuse) THEN 1 ELSE generations[i]]
      /\ size' = size + (n - reuse) /\ size' <= MaxSlots
      /\ issued' = issued \cup new
    BY DEF AllocateMany
<1> HIDE DEF reuse
<1>3. ASSUME NEW h \in new
      PROVE  /\ h \notin issued /\ h # Null /\ h.index < size'
             /\ generations'[h.index] = h.generation
    <2>1. CASE \E k \in L - reuse + 1 .. L : h = NewEntity(freeList[k], generations[freeList[k]])
        <3>1. PICK k \in L - reuse + 1 .. L : h = NewEntity(freeList[k], generations[freeList[k]])
            BY <2>1
        <3>2. k \in 1 .. L /\ freeList[k] \in Slots /\ freeList[k] < size
            BY <1>1 DEF IInv, TypeOK, FreeListConsistent
        <3>3. h \notin issued
            BY <3>1, <3>2 DEF IInv, FreshOnReuse
        <3>4. h.index = freeList[k] /\ h.generation = generations[freeList[k]]
            BY <3>1 DEF NewEntity
        <3>5. h.generation \in 1 .. MaxGen
            BY <3>2, <3>4 DEF IInv, TrackedGenerations
        <3>6. h.index < size' /\ generations'[h.index] = h.generation
            BY <1>1, <1>2, <3>2, <3>4 DEF Slots
        <3>7. h # Null
            BY <3>5 DEF Null, NewEntity
        <3> QED BY <3>3, <3>6, <3>7
    <2>2. CASE \E i \in size .. size + (n - reuse) - 1 : h = NewEntity(i, 1)
        <3>1. PICK i \in size .. size + (n - reuse) - 1 : h = NewEntity(i, 1)
            BY <2>2
        <3>2. h.index = i /\ h.generation = 1
            BY <3>1 DEF NewEntity
        <3>3. i \in Slots /\ size <= i /\ i < size'
            BY <1>1, <1>2 DEF Slots
        <3>4. h \notin issued
            <4>1. ~(i < size)
                BY <3>3, <1>1 DEF Slots
            <4> QED BY <3>2, <4>1 DEF IInv, FreshOnReuse
        <3>5. h # Null
            BY <3>2 DEF Null, NewEntity
        <3>6. generations'[h.index] = h.generation
            BY <1>1, <1>2, <3>2, <3>3
        <3> QED BY <3>2, <3>3, <3>4, <3>5, <3>6
    <2> QED BY <2>1, <2>2 DEF Batch
<1>4. new # {}
    <2>1. CASE reuse > 0
        <3>1. L \in L - reuse + 1 .. L
            BY <1>1, <2>1
        <3> QED BY <3>1 DEF Batch
    <2>2. CASE reuse = 0
        <3>1. size \in size .. size + (n - reuse) - 1
            BY <1>1, <2>2
        <3> QED BY <3>1 DEF Batch
    <2> QED BY <1>1, <2>1, <2>2
<1>5. size <= size' /\ \A i \in Slots : i < size => generations'[i] = generations[i]
    BY <1>1, <1>2 DEF Slots
<1>6. new \in SUBSET Handle
    BY <1>2 DEF IInv, TypeOK
<1> HIDE DEF new
<1>7. new \cap issued = {}
    BY <1>3
<1> QED BY <1>2, <1>3, <1>4, <1>5, <1>6, <1>7, AllocateIsIssue

(* Every step of the arena is a step of the ledger or changes none of it. *)
LEMMA StepRefines == IInv /\ IInv' /\ [Next]_allocVars => [Ledger!Next]_(Ledger!ledgerVars)
<1> SUFFICES ASSUME IInv, IInv', [Next]_allocVars
             PROVE  [Ledger!Next]_(Ledger!ledgerVars)
    OBVIOUS
<1>1. CASE \E e \in Handle : Allocate(e)
    BY <1>1, AllocateStep DEF Ledger!Next
<1>2. CASE \E n \in 1 .. MaxBatch : AllocateMany(n)
    BY <1>2, AllocateManyStep DEF Ledger!Next
<1>3. CASE \E e \in issued : Free(e)
    <2>1. issued \subseteq Handle
        BY DEF IInv, TypeOK
    <2> QED BY <1>3, <2>1, FreeIsRetire DEF Ledger!Next
<1>4. CASE UNCHANGED allocVars
    BY <1>4 DEF allocVars, Ledger!ledgerVars, liveHandles, IsAlive
<1> QED BY <1>1, <1>2, <1>3, <1>4 DEF Next, FreeStale

(* The arena implements the ledger (l1-entity-system INV-1, INV-2): a      *)
(* handle is handed out once, lives until it is freed and, once freed, is  *)
(* never alive again, whatever slot reuse goes on underneath.              *)
THEOREM ArenaImplementsLedger == Spec => LedgerSpec
<1>1. Init => Ledger!Init
    BY DEF Init, Ledger!Init, liveHandles
<1> QED BY <1>1, AlwaysIInv, StepRefines, PTL DEF Spec, LedgerSpec, Ledger!Spec

-----------------------------------------------------------------------------
(* CommandFlush.  Two conditions are part of every theorem about it, since *)
(* without them the code does not keep what the theorem says: the buffers  *)
(* are flushed in execution order, and the archetypes fit into the first   *)
(* capacity of their slice.                                                *)
(*                                                                         *)
(* The inductive invariant orders the pending commands: by the place of    *)
(* the system that pushed them, then by their place in its buffer.  A      *)
(* pending spawn comes before every other command on its entity, so        *)
(* that whatever reaches the head of the flush names an entity that is in  *)
(* the store or that is dead.                                              *)
(*                                                                         *)
(* The first part is about the store alone: what its operations do to the  *)
(* rows.  It is taken apart in two ways.  Rows(s, X) says that the entity  *)
(* lists hold the entities X, one row each, and that the records point     *)
(* there.  Same(s, t, x) says that t stores for x what s stored.  Every    *)
(* operation is an eviction of one row, an addition of one row or a write  *)
(* in place, and each of the three keeps Same for all other entities.      *)

Partial(D, R) == UNION {[E -> R] : E \in SUBSET D}

Cells == Partial(Component, Value)
Place == [arch : Archetype, row : Nat]

Fields == [created : SUBSET Archetype, capacity : Nat,
           entities : [Archetype -> Seq(Handle)], table : [Archetype -> Seq(Cells)],
           sparse : [SparseComp -> Partial(Handle, Value)], records : Partial(Handle, Place)]

(* A table row has a cell for each column. *)
Shape(s) ==
    /\ s \in Fields
    /\ \A arch \in Archetype : \A i \in 1 .. Len(s.table[arch]) : DOMAIN s.table[arch][i] = Columns(arch)

Rows(s, X) ==
    /\ X \subseteq DOMAIN s.records
    /\ \A x \in X :
        LET r == s.records[x] IN r.row \in 1 .. Len(s.entities[r.arch]) /\ s.entities[r.arch][r.row] = x
    /\ \A arch \in Archetype :
        /\ \A i \in 1 .. Len(s.entities[arch]) :
            s.entities[arch][i] \in X /\ s.records[s.entities[arch][i]] = [arch |-> arch, row |-> i]
        /\ HasTable(arch) => Len(s.table[arch]) = Len(s.entities[arch])

(* The two stores have the same sparse values for x. *)
SameSparse(s, t, x) ==
    \A c \in SparseComp : /\ x \in DOMAIN t.sparse[c] <=> x \in DOMAIN s.sparse[c]
                          /\ x \in DOMAIN s.sparse[c] => t.sparse[c][x] = s.sparse[c][x]

(* They store the same for x, be it in another row. *)
Same(s, t, x) ==
    /\ x \in DOMAIN t.records
    /\ t.records[x].arch = s.records[x].arch
    /\ RowValues(t, t.records[x]) = RowValues(s, s.records[x])
    /\ SameSparse(s, t, x)

-----------------------------------------------------------------------------
(* Partial functions, which stand for maps. *)
LEMMA PartialFacts ==
    ASSUME NEW D, NEW R, NEW f \in Partial(D, R)
    PROVE  DOMAIN f \subseteq D /\ f \in [DOMAIN f -> R] /\ \A x \in DOMAIN f : f[x] \in R
BY DEF Partial

LEMMA PartialIntro ==
    ASSUME NEW D, NEW R, NEW f, DOMAIN f \subseteq D, f \in [DOMAIN f -> R]
    PROVE  f \in Partial(D, R)
BY DEF Partial

LEMMA WithPartial ==
    ASSUME NEW D, NEW R, NEW f \in Partial(D, R), NEW x \in D, NEW v \in R
    PROVE  With(f, x, v) \in Partial(D, R)
<1>1. DOMAIN f \subseteq D /\ \A y \in DOMAIN f : f[y] \in R
    BY PartialFacts
<1>2. With(f, x, v) \in [DOMAIN f \cup {x} -> R]
    BY <1>1 DEF With
<1> QED BY <1>1, <1>2 DEF Partial

LEMMA WithoutPartial ==
    ASSUME NEW D, NEW R, NEW f \in Partial(D, R), NEW x
    PROVE  Without(f, x) \in Partial(D, R)
<1>1. DOMAIN f \subseteq D /\ \A y \in DOMAIN f : f[y] \in R
    BY PartialFacts
<1>2. Without(f, x) \in [DOMAIN f \ {x} -> R]
    BY <1>1 DEF Without
<1> QED BY <1>1, <1>2 DEF Partial

(* Swap-and-pop: the last element takes the place of the removed one.      *)
LEMMA SwapPopFacts ==
    ASSUME NEW S, NEW q \in Seq(S), NEW row \in 1 .. Len(q)
    PROVE  /\ SwapPop(q, row) \in Seq(S) /\ Len(SwapPop(q, row)) = Len(q) - 1
           /\ \A k \in 1 .. Len(q) - 1 : SwapPop(q, row)[k] = IF k = row THEN q[Len(q)] ELSE q[k]
<1> DEFINE n == Len(q)
           r == [q EXCEPT ![row] = q[n]]
<1>1. n \in Nat /\ n >= 1 /\ n \in 1 .. n /\ row \in 1 .. n
    OBVIOUS
<1>2. q \in [1 .. n -> S]
    OBVIOUS
<1>3. r \in [1 .. n -> S] /\ \A k \in 1 .. n : r[k] = IF k = row THEN q[n] ELSE q[k]
    BY <1>1, <1>2
<1>4. r \in Seq(S) /\ Len(r) = n
    BY <1>1, <1>3
<1>5. n - 1 \in Int /\ \A k \in 1 .. n - 1 : r[k] \in S /\ k \in 1 .. n
    BY <1>1, <1>3
<1> HIDE DEF n, r
<1>6. /\ SubSeq(r, 1, n - 1) \in Seq(S)
      /\ Len(SubSeq(r, 1, n - 1)) = IF 1 <= n - 1 THEN n - 1 - 1 + 1 ELSE 0
      /\ \A k \in 1 .. n - 1 - 1 + 1 : SubSeq(r, 1, n - 1)[k] = r[1 + k - 1]
    BY <1>5, SubSeqProperties
<1>7. SwapPop(q, row) = SubSeq(r, 1, n - 1)
    BY <1>4 DEF SwapPop, Pop, r, n
<1>8. \A k \in 1 .. n - 1 : SubSeq(r, 1, n - 1)[k] = r[k]
    BY <1>1, <1>6
<1>9. /\ SwapPop(q, row) \in Seq(S) /\ Len(SwapPop(q, row)) = n - 1
      /\ \A k \in 1 .. n - 1 : SwapPop(q, row)[k] = IF k = row THEN q[n] ELSE q[k]
    BY <1>1, <1>3, <1>5, <1>6, <1>7, <1>8
<1> QED BY <1>9 DEF n

LEMMA AppendFacts ==
    ASSUME NEW S, NEW q \in Seq(S), NEW v \in S
    PROVE  /\ Append(q, v) \in Seq(S) /\ Len(Append(q, v)) = Len(q) + 1 /\ Len(q) \in Nat
           /\ Append(q, v)[Len(q) + 1] = v /\ \A k \in 1 .. Len(q) : Append(q, v)[k] = q[k]
OBVIOUS

(* What a member of Fields has. *)
LEMMA FieldFacts ==
    ASSUME NEW s \in Fields
    PROVE  /\ s.created \in SUBSET Archetype /\ s.capacity \in Nat
           /\ s.entities \in [Archetype -> Seq(Handle)] /\ s.table \in [Archetype -> Seq(Cells)]
           /\ s.sparse \in [SparseComp -> Partial(Handle, Value)] /\ s.records \in Partial(Handle, Place)
           /\ DOMAIN s.records \subseteq Handle
           /\ \A x \in DOMAIN s.records : s.records[x] \in Place /\ s.records[x].arch \in Archetype /\ s.records[x].row \in Nat
           /\ \A c \in SparseComp : DOMAIN s.sparse[c] \subseteq Handle /\ s.sparse[c] \in Partial(Handle, Value)
<1>1. /\ s.created \in SUBSET Archetype /\ s.capacity \in Nat
      /\ s.entities \in [Archetype -> Seq(Handle)] /\ s.table \in [Archetype -> Seq(Cells)]
      /\ s.sparse \in [SparseComp -> Partial(Handle, Value)] /\ s.records \in Partial(Handle, Place)
    BY DEF Fields
<1>2. DOMAIN s.records \subseteq Handle /\ \A x \in DOMAIN s.records : s.records[x] \in Place
    BY <1>1, PartialFacts
<1>3. \A c \in SparseComp : DOMAIN s.sparse[c] \subseteq Handle /\ s.sparse[c] \in Partial(Handle, Value)
    BY <1>1, PartialFacts
<1> QED BY <1>1, <1>2, <1>3 DEF Place

-----------------------------------------------------------------------------
(* findOrCreate changes no row.                                            *)
LEMMA FindOrCreateFacts ==
    ASSUME NEW s \in Fields, NEW arch \in Archetype
    PROVE  /\ FindOrCreate(s, arch) \in Fields
           /\ FindOrCreate(s, arch).created = s.created \cup {arch}
           /\ s.capacity <= FindOrCreate(s, arch).capacity
           /\ FindOrCreate(s, arch).entities = s.entities /\ FindOrCreate(s, arch).table = s.table
           /\ FindOrCreate(s, arch).sparse = s.sparse /\ FindOrCreate(s, arch).records = s.records
<1>1. s.capacity \in Nat /\ s.created \in SUBSET Archetype
    BY FieldFacts
<1>2. CASE arch \in s.created
    BY <1>1, <1>2 DEF FindOrCreate
<1>3. CASE arch \notin s.created
    <2> DEFINE c == IF Cardinality(s.created) = s.capacity THEN 2 * s.capacity ELSE s.capacity
    <2>1. c \in Nat /\ s.capacity <= c
        BY <1>1
    <2>2. FindOrCreate(s, arch) = [s EXCEPT !.created = s.created \cup {arch}, !.capacity = c]
        BY <1>3 DEF FindOrCreate
    <2> HIDE DEF c
    <2>3. s.created \cup {arch} \in SUBSET Archetype
        BY <1>1
    <2> QED BY <2>1, <2>2, <2>3 DEF Fields
<1> QED BY <1>2, <1>3

(* The fields t has after an eviction from s. *)
EvictedFields(s, t, arch, e, row, evict) ==
    /\ t \in Fields /\ t.created = s.created /\ t.capacity = s.capacity
    /\ t.entities = [s.entities EXCEPT ![arch] = SwapPop(s.entities[arch], row)]
    /\ t.table = IF HasTable(arch) THEN [s.table EXCEPT ![arch] = SwapPop(s.table[arch], row)] ELSE s.table
    /\ DOMAIN t.records = DOMAIN s.records
    /\ \A x \in DOMAIN s.records :
        /\ t.records[x].arch = s.records[x].arch
        /\ t.records[x].row = IF row # Len(s.entities[arch]) /\ x = s.entities[arch][Len(s.entities[arch])]
                              THEN row ELSE s.records[x].row
    /\ t.sparse = [c \in SparseComp |-> IF evict /\ c \in arch THEN Without(s.sparse[c], e) ELSE s.sparse[c]]

LEMMA EvictFields ==
    ASSUME NEW s \in Fields, NEW arch \in Archetype, NEW e, NEW row \in 1 .. Len(s.entities[arch]),
           HasTable(arch) => Len(s.table[arch]) = Len(s.entities[arch]),
           NEW evict \in BOOLEAN, NEW t, t = RemoveEntityFromArchetype(s, arch, e, row, evict, FALSE)
    PROVE  EvictedFields(s, t, arch, e, row, evict)
<1> DEFINE last == Len(s.entities[arch])
           moved == {s.entities[arch][r] : r \in MovedFrom(s, arch, row)}
           table == IF HasTable(arch) THEN [s.table EXCEPT ![arch] = SwapPop(s.table[arch], row)] ELSE s.table
           entities == [s.entities EXCEPT ![arch] = SwapPop(s.entities[arch], row)]
           records == [x \in DOMAIN s.records |-> IF x \in moved THEN [s.records[x] EXCEPT !.row = row] ELSE s.records[x]]
           sparse == [c \in SparseComp |-> IF evict /\ c \in arch THEN Without(s.sparse[c], e) ELSE s.sparse[c]]
<1>1. /\ s.entities \in [Archetype -> Seq(Handle)] /\ s.table \in [Archetype -> Seq(Cells)]
      /\ s.sparse \in [SparseComp -> Partial(Handle, Value)] /\ s.records \in Partial(Handle, Place)
      /\ DOMAIN s.records \subseteq Handle /\ \A x \in DOMAIN s.records : s.records[x] \in Place
      /\ last \in Nat /\ row \in Nat
    BY FieldFacts
<1>2. entities \in [Archetype -> Seq(Handle)]
    <2>1. s.entities[arch] \in Seq(Handle)
        BY <1>1
    <2>2. SwapPop(s.entities[arch], row) \in Seq(Handle)
        BY <2>1, SwapPopFacts
    <2> QED BY <1>1, <2>2
<1>3. table \in [Archetype -> Seq(Cells)]
    <2>1. CASE HasTable(arch)
        <3>1. s.table[arch] \in Seq(Cells) /\ row \in 1 .. Len(s.table[arch])
            BY <1>1, <2>1
        <3>2. SwapPop(s.table[arch], row) \in Seq(Cells)
            BY <3>1, SwapPopFacts
        <3> QED BY <1>1, <2>1, <3>2
    <2> QED BY <1>1, <2>1
<1>4. records \in Partial(Handle, Place)
    <2>1. \A x \in DOMAIN s.records : [s.records[x] EXCEPT !.row = row] \in Place
        BY <1>1 DEF Place
    <2> HIDE DEF moved
    <2>2. records \in [DOMAIN s.records -> Place]
        BY <1>1, <2>1
    <2> QED BY <1>1, <2>2 DEF Partial
<1>5. sparse \in [SparseComp -> Partial(Handle, Value)]
    <2>1. \A c \in SparseComp : s.sparse[c] \in Partial(Handle, Value)
        BY <1>1
    <2>2. \A c \in SparseComp : Without(s.sparse[c], e) \in Partial(Handle, Value)
        BY <2>1, WithoutPartial
    <2> QED BY <2>1, <2>2
<1>6. moved = IF row # last THEN {s.entities[arch][last]} ELSE {}
    BY DEF MovedFrom
<1>7. t = [s EXCEPT !.table[arch] = IF HasTable(arch) THEN SwapPop(@, row) ELSE @,
                    !.entities[arch] = SwapPop(@, row), !.records = records, !.sparse = sparse]
    BY DEF RemoveEntityFromArchetype, SwapPop
<1>8. table = [s.table EXCEPT ![arch] = IF HasTable(arch) THEN SwapPop(@, row) ELSE @]
    BY <1>1
<1>9. t = [s EXCEPT !.table = table, !.entities = entities, !.records = records, !.sparse = sparse]
    BY <1>7, <1>8
<1> HIDE DEF table, entities, records, sparse
<1>10. /\ t \in Fields /\ t.created = s.created /\ t.capacity = s.capacity
       /\ t.table = table /\ t.entities = entities /\ t.records = records /\ t.sparse = sparse
    BY <1>2, <1>3, <1>4, <1>5, <1>9 DEF Fields
<1>11. \A x \in DOMAIN s.records :
                /\ records[x].arch = s.records[x].arch
                /\ records[x].row = IF row # last /\ x = s.entities[arch][last] THEN row ELSE s.records[x].row
    <2> HIDE DEF last
    <2> SUFFICES ASSUME NEW x \in DOMAIN s.records
                 PROVE  /\ records[x].arch = s.records[x].arch
                        /\ records[x].row = IF row # last /\ x = s.entities[arch][last] THEN row ELSE s.records[x].row
        OBVIOUS
    <2>1. s.records[x] \in Place
        BY <1>1
    <2>2. [s.records[x] EXCEPT !.row = row].arch = s.records[x].arch /\ [s.records[x] EXCEPT !.row = row].row = row
        BY <2>1 DEF Place
    <2>3. records[x] = IF row # last /\ x = s.entities[arch][last] THEN [s.records[x] EXCEPT !.row = row] ELSE s.records[x]
        BY <1>6 DEF records
    <2> QED BY <2>2, <2>3
<1> QED BY ZenonT(40), <1>10, <1>11 DEF EvictedFields, table, entities, records, sparse

(* t is s without the row of e. *)
Evicted(s, t, X, e, evict) ==
    /\ Shape(t) /\ t.created = s.created /\ t.capacity = s.capacity
    /\ DOMAIN t.records = DOMAIN s.records /\ Rows(t, X \ {e})
    /\ \A x \in X \ {e} : Same(s, t, x)
    /\ \A x : x # e \/ ~evict => SameSparse(s, t, x)
    /\ evict => \A c \in SparseComp :
                 e \in DOMAIN t.sparse[c] <=> e \in DOMAIN s.sparse[c] /\ c \notin s.records[e].arch

(* A row is evicted: the last entity takes its place, its record follows,  *)
(* and its values come along.                                              *)
LEMMA EvictRows ==
    ASSUME NEW s, Shape(s), NEW X, Rows(s, X), NEW e \in X, NEW evict \in BOOLEAN,
           NEW t, t = RemoveEntityFromArchetype(s, s.records[e].arch, e, s.records[e].row, evict, FALSE)
    PROVE  Evicted(s, t, X, e, evict)
<1> DEFINE arch == s.records[e].arch
           row == s.records[e].row
           last == Len(s.entities[arch])
           top == s.entities[arch][last]
<1>1. s \in Fields /\ X \subseteq DOMAIN s.records /\ e \in DOMAIN s.records
    BY DEF Shape, Rows
<1>2. /\ arch \in Archetype /\ row \in 1 .. last /\ s.entities[arch][row] = e
      /\ HasTable(arch) => Len(s.table[arch]) = last
    BY <1>1, FieldFacts DEF Rows
<1>3. /\ s.entities[arch] \in Seq(Handle) /\ s.table[arch] \in Seq(Cells) /\ last \in Nat /\ last \in 1 .. last
      /\ row \in Nat /\ s.entities \in [Archetype -> Seq(Handle)] /\ s.table \in [Archetype -> Seq(Cells)]
      /\ \A c \in SparseComp : s.sparse[c] \in Partial(Handle, Value)
    BY <1>1, <1>2, FieldFacts
<1> HIDE DEF arch, row
<1>4. /\ t \in Fields /\ t.created = s.created /\ t.capacity = s.capacity
      /\ t.entities = [s.entities EXCEPT ![arch] = SwapPop(s.entities[arch], row)]
      /\ t.table = IF HasTable(arch) THEN [s.table EXCEPT ![arch] = SwapPop(s.table[arch], row)] ELSE s.table
      /\ DOMAIN t.records = DOMAIN s.records
      /\ \A x \in DOMAIN s.records :
            /\ t.records[x].arch = s.records[x].arch
            /\ t.records[x].row = IF row # last /\ x = top THEN row ELSE s.records[x].row
      /\ t.sparse = [c \in SparseComp |-> IF evict /\ c \in arch THEN Without(s.sparse[c], e) ELSE s.sparse[c]]
    <2>1. t = RemoveEntityFromArchetype(s, arch, e, row, evict, FALSE)
        BY DEF arch, row
    <2>2. EvictedFields(s, t, arch, e, row, evict)
        BY <1>1, <1>2, <2>1, EvictFields, Zenon
    <2> QED BY <2>2 DEF EvictedFields
<1>5. /\ t.entities[arch] = SwapPop(s.entities[arch], row)
      /\ \A a \in Archetype \ {arch} : t.entities[a] = s.entities[a] /\ t.table[a] = s.table[a]
      /\ HasTable(arch) => t.table[arch] = SwapPop(s.table[arch], row)
      /\ ~HasTable(arch) => t.table[arch] = s.table[arch]
    BY <1>2, <1>3, <1>4
<1>6. /\ Len(t.entities[arch]) = last - 1
      /\ \A k \in 1 .. last - 1 : t.entities[arch][k] = IF k = row THEN top ELSE s.entities[arch][k]
    <2>1. s.entities[arch] \in Seq(Handle) /\ row \in 1 .. Len(s.entities[arch])
        BY <1>2, <1>3
    <2>2. /\ Len(SwapPop(s.entities[arch], row)) = last - 1
          /\ \A k \in 1 .. last - 1 : SwapPop(s.entities[arch], row)[k] = IF k = row THEN top ELSE s.entities[arch][k]
        BY ZenonT(40), <2>1, SwapPopFacts
    <2> QED BY <1>5, <2>2
<1>7. ASSUME HasTable(arch)
      PROVE  /\ Len(t.table[arch]) = last - 1
             /\ \A k \in 1 .. last - 1 : t.table[arch][k] = IF k = row THEN s.table[arch][last] ELSE s.table[arch][k]
    <2> DEFINE q == s.table[arch]
    <2>1. q \in Seq(Cells) /\ row \in 1 .. Len(q) /\ Len(q) = last
        BY <1>2, <1>3, <1>7
    <2>2. t.table[arch] = SwapPop(q, row)
        BY <1>5, <1>7
    <2> HIDE DEF q, last
    <2>3. /\ Len(SwapPop(q, row)) = Len(q) - 1
          /\ \A k \in 1 .. Len(q) - 1 : SwapPop(q, row)[k] = IF k = row THEN q[Len(q)] ELSE q[k]
        BY <2>1, SwapPopFacts
    <2> QED BY <2>1, <2>2, <2>3 DEF q
<1>8. \A a \in Archetype : \A i \in 1 .. Len(s.entities[a]) :
        s.entities[a][i] \in X /\ s.records[s.entities[a][i]].arch = a /\ s.records[s.entities[a][i]].row = i
    <2> SUFFICES ASSUME NEW a \in Archetype, NEW i \in 1 .. Len(s.entities[a])
                 PROVE  s.entities[a][i] \in X /\ s.records[s.entities[a][i]].arch = a /\ s.records[s.entities[a][i]].row = i
        OBVIOUS
    <2>1. s.entities[a][i] \in X /\ s.records[s.entities[a][i]] = [arch |-> a, row |-> i]
        BY DEF Rows
    <2> QED BY <2>1
<1>9. \A x \in X : /\ s.records[x].arch \in Archetype /\ s.records[x].row \in 1 .. Len(s.entities[s.records[x].arch])
                   /\ s.entities[s.records[x].arch][s.records[x].row] = x
                   /\ s.records[x].row \in Nat
    BY <1>1, FieldFacts DEF Rows
<1>10. top \in X /\ s.records[top].arch = arch /\ s.records[top].row = last /\ (row # last => top # e)
    <2>1. top \in X /\ s.records[top].arch = arch /\ s.records[top].row = last
        BY <1>2, <1>3, <1>8
    <2> QED BY <2>1 DEF row
<1>11. \A k \in 1 .. last - 1 : k \in 1 .. last /\ k # last
    BY <1>3
<1> HIDE DEF last, top
<1>12. ASSUME NEW x \in X \ {e}
       PROVE  /\ x \in DOMAIN t.records /\ t.records[x].arch = s.records[x].arch
              /\ t.records[x].row \in 1 .. Len(t.entities[t.records[x].arch])
              /\ t.entities[t.records[x].arch][t.records[x].row] = x
              /\ RowValues(t, t.records[x]) = RowValues(s, s.records[x])
    <2>1. x \in DOMAIN s.records /\ x \in DOMAIN t.records /\ t.records[x].arch = s.records[x].arch /\ x # e
        BY <1>1, <1>4
    <2>2. CASE s.records[x].arch # arch
        <3>1. t.records[x].row = s.records[x].row
            BY <1>4, <1>10, <2>1, <2>2
        <3>2. t.entities[s.records[x].arch] = s.entities[s.records[x].arch] /\ t.table[s.records[x].arch] = s.table[s.records[x].arch]
            BY <1>5, <1>9, <2>2
        <3> QED BY ZenonT(40), <1>9, <2>1, <3>1, <3>2 DEF RowValues
    <2>3. CASE s.records[x].arch = arch /\ x = top
        <3>1. s.records[x].row = last /\ row # last
            BY <1>2, <1>10, <2>1, <2>3, <1>9
        <3>2. t.records[x].row = row /\ row \in 1 .. last - 1
            <4>1. t.records[x].row = row
                BY <1>4, <2>1, <2>3, <3>1
            <4>2. last \in Nat /\ row \in 1 .. last
                BY <1>2, <1>3 DEF last
            <4>3. row # last
                BY <3>1
            <4>4. row \in 1 .. last - 1
                BY <4>2, <4>3
            <4> QED BY <4>1, <4>4
        <3>3. t.entities[arch][row] = x
            BY <1>6, <2>3, <3>2
        <3>4. HasTable(arch) => t.table[arch][row] = s.table[arch][last]
            BY <1>7, <3>2
        <3> QED BY <1>6, <2>1, <2>3, <3>1, <3>2, <3>3, <3>4 DEF RowValues
    <2>4. CASE s.records[x].arch = arch /\ x # top
        <3> DEFINE k == s.records[x].row
        <3>1. k \in 1 .. last /\ s.entities[arch][k] = x
            BY <1>9, <2>4 DEF last
        <3>2. k # last /\ k # row
            BY <1>2, <2>1, <2>4, <3>1 DEF top
        <3>3. k \in 1 .. last - 1 /\ t.records[x].row = k
            <4>1. t.records[x].row = k
                BY <1>4, <2>1, <2>4
            <4>2. last \in Nat
                BY <1>3 DEF last
            <4>3. k \in 1 .. last
                BY <3>1
            <4>4. k \in 1 .. last - 1
                BY <3>2, <4>2, <4>3
            <4> QED BY <4>1, <4>4
        <3> HIDE DEF k
        <3>4. t.entities[arch][k] = x /\ (HasTable(arch) => t.table[arch][k] = s.table[arch][k])
            BY <1>6, <1>7, <3>1, <3>2, <3>3
        <3> QED BY <1>6, <2>1, <2>4, <3>3, <3>4 DEF RowValues, k
    <2> QED BY <2>2, <2>3, <2>4
<1>13. \A x : x # e \/ ~evict => SameSparse(s, t, x)
    <2> SUFFICES ASSUME NEW x, x # e \/ ~evict PROVE SameSparse(s, t, x)
        OBVIOUS
    <2> SUFFICES ASSUME NEW c \in SparseComp
                 PROVE  /\ x \in DOMAIN t.sparse[c] <=> x \in DOMAIN s.sparse[c]
                        /\ x \in DOMAIN s.sparse[c] => t.sparse[c][x] = s.sparse[c][x]
        BY DEF SameSparse
    <2>1. CASE evict /\ c \in arch
        <3>1. t.sparse[c] = Without(s.sparse[c], e) /\ s.sparse[c] \in Partial(Handle, Value)
            BY <1>3, <1>4, <2>1
        <3>2. /\ DOMAIN Without(s.sparse[c], e) = DOMAIN s.sparse[c] \ {e}
              /\ \A y \in DOMAIN s.sparse[c] \ {e} : Without(s.sparse[c], e)[y] = s.sparse[c][y]
            BY DEF Without
        <3> QED BY <2>1, <3>1, <3>2
    <2>2. CASE ~(evict /\ c \in arch)
        BY <1>4, <2>2
    <2> QED BY <2>1, <2>2
<1>14. evict => \A c \in SparseComp :
                        e \in DOMAIN t.sparse[c] <=> e \in DOMAIN s.sparse[c] /\ c \notin arch
    <2> SUFFICES ASSUME evict, NEW c \in SparseComp
                 PROVE  e \in DOMAIN t.sparse[c] <=> e \in DOMAIN s.sparse[c] /\ c \notin arch
        OBVIOUS
    <2>1. CASE c \in arch
        <3>1. t.sparse[c] = Without(s.sparse[c], e) /\ s.sparse[c] \in Partial(Handle, Value)
            BY <1>3, <1>4, <2>1
        <3>2. /\ DOMAIN Without(s.sparse[c], e) = DOMAIN s.sparse[c] \ {e}
              /\ \A y \in DOMAIN s.sparse[c] \ {e} : Without(s.sparse[c], e)[y] = s.sparse[c][y]
            BY DEF Without
        <3> QED BY <2>1, <3>1, <3>2
    <2>2. CASE c \notin arch
        BY <1>4, <2>2
    <2> QED BY <2>1, <2>2
<1>15. Shape(t)
    <2> SUFFICES ASSUME NEW a \in Archetype, NEW i \in 1 .. Len(t.table[a])
                 PROVE  DOMAIN t.table[a][i] = Columns(a)
        BY <1>4 DEF Shape
    <2>1. CASE a # arch \/ ~HasTable(arch)
        <3>1. t.table[a] = s.table[a]
            BY <1>5, <2>1
        <3> QED BY <3>1 DEF Shape
    <2>2. CASE a = arch /\ HasTable(arch)
        <3>1. i \in 1 .. last - 1 /\ Len(s.table[arch]) = last
            BY <1>2, <1>7, <2>2 DEF last
        <3>2. i \in 1 .. last /\ last \in 1 .. last
            BY <1>3, <3>1 DEF last
        <3>3. DOMAIN s.table[arch][i] = Columns(arch) /\ DOMAIN s.table[arch][last] = Columns(arch)
            BY <1>2, <3>1, <3>2 DEF Shape
        <3> QED BY <1>7, <2>2, <3>1, <3>3
    <2> QED BY <2>1, <2>2
<1>16. ASSUME NEW a \in Archetype, NEW i \in 1 .. Len(t.entities[a])
       PROVE  t.entities[a][i] \in X \ {e} /\ t.records[t.entities[a][i]] = [arch |-> a, row |-> i]
    <2>1. ASSUME NEW x \in X \ {e}, t.records[x].arch = a, t.records[x].row = i
          PROVE  t.records[x] = [arch |-> a, row |-> i]
        <3>1. t.records[x] \in Place
            BY <1>4, <1>12, FieldFacts
        <3> QED BY <2>1, <3>1 DEF Place
    <2>2. CASE a # arch
        <3>1. i \in 1 .. Len(s.entities[a]) /\ t.entities[a][i] = s.entities[a][i]
            BY <1>5, <2>2
        <3> DEFINE x == s.entities[a][i]
        <3>2. x \in X /\ s.records[x].arch = a /\ s.records[x].row = i
            BY <1>8, <3>1
        <3>3. x # e /\ x # top
            BY <1>10, <2>2, <3>2 DEF arch
        <3>4. t.records[x].arch = a /\ t.records[x].row = i
            BY <1>1, <1>4, <3>2, <3>3
        <3> QED BY <2>1, <3>1, <3>2, <3>3, <3>4
    <2>3. CASE a = arch /\ i = row
        <3>1. i \in 1 .. last - 1
            BY <1>6, <2>3
        <3>2. row # last /\ t.entities[a][i] = top
            BY <1>6, <1>11, <2>3, <3>1
        <3>3. t.records[top].arch = arch /\ t.records[top].row = row
            BY <1>1, <1>4, <1>10, <3>2
        <3> QED BY <1>10, <2>1, <2>3, <3>2, <3>3
    <2>4. CASE a = arch /\ i # row
        <3>1. i \in 1 .. last - 1
            BY <1>6, <2>4
        <3> DEFINE x == s.entities[arch][i]
        <3>2. i \in 1 .. last /\ i # last /\ t.entities[a][i] = x
            BY <1>6, <1>11, <2>4, <3>1
        <3>3. x \in X /\ s.records[x].arch = arch /\ s.records[x].row = i
            BY <1>2, <1>8, <3>2 DEF last
        <3>4. x # e /\ x # top
            BY <1>10, <2>4, <3>2, <3>3 DEF row
        <3>5. t.records[x].arch = arch /\ t.records[x].row = i
            BY <1>1, <1>4, <3>3, <3>4
        <3> QED BY <2>1, <2>4, <3>2, <3>3, <3>4, <3>5
    <2> QED BY <2>2, <2>3, <2>4
<1>17. ASSUME NEW a \in Archetype, HasTable(a) PROVE Len(t.table[a]) = Len(t.entities[a])
    <2>1. CASE a = arch
        BY <1>6, <1>7, <1>17, <2>1
    <2>2. CASE a # arch
        BY <1>5, <1>17, <2>2 DEF Rows
    <2> QED BY <2>1, <2>2
<1>18. Rows(t, X \ {e})
    <2>1. X \ {e} \subseteq DOMAIN t.records
        BY <1>1, <1>4
    <2>2. \A x \in X \ {e} : LET r == t.records[x] IN r.row \in 1 .. Len(t.entities[r.arch]) /\ t.entities[r.arch][r.row] = x
        BY <1>12
    <2> QED BY <1>16, <1>17, <2>1, <2>2 DEF Rows
<1>19. \A x \in X \ {e} : Same(s, t, x)
    BY <1>12, <1>13 DEF Same
<1> QED BY <1>4, <1>13, <1>14, <1>15, <1>18, <1>19 DEF arch, Evicted

-----------------------------------------------------------------------------
(* The table row of a new entity. *)
NewCells(arch, values) == [c \in Columns(arch) |-> IF c \in DOMAIN values THEN values[c] ELSE Zero]

(* The fields t has after an addition to s. *)
AddedFields(s, t, arch, e, values) ==
    /\ t \in Fields /\ t.created = s.created /\ t.capacity = s.capacity
    /\ t.entities = [s.entities EXCEPT ![arch] = Append(s.entities[arch], e)]
    /\ t.table = IF HasTable(arch) THEN [s.table EXCEPT ![arch] = Append(s.table[arch], NewCells(arch, values))]
                 ELSE s.table
    /\ t.records = With(s.records, e, [arch |-> arch, row |-> IF HasTable(arch) THEN Len(s.table[arch]) + 1
                                                             ELSE Len(s.entities[arch]) + 1])
    /\ t.sparse = [c \in SparseComp |-> IF c \in arch /\ c \in DOMAIN values
                                        THEN With(s.sparse[c], e, values[c]) ELSE s.sparse[c]]

LEMMA NewCellsType ==
    ASSUME NEW arch \in Archetype, NEW values \in Cells
    PROVE  NewCells(arch, values) \in Cells /\ DOMAIN NewCells(arch, values) = Columns(arch)
<1>1. \A c \in DOMAIN values : values[c] \in Value
    BY PartialFacts DEF Cells
<1>2. Columns(arch) \subseteq Component /\ Zero \in Value
    BY StoreAssumption DEF StoreAssumption, Columns, Archetype
<1>3. NewCells(arch, values) \in [Columns(arch) -> Value]
    BY <1>1, <1>2 DEF NewCells
<1> QED BY <1>2, <1>3 DEF Cells, Partial

LEMMA AddFields ==
    ASSUME NEW s \in Fields, NEW arch \in Archetype, NEW e \in Handle, NEW values \in Cells,
           NEW t, t = AddEntityToArchetype(s, arch, e, values)
    PROVE  AddedFields(s, t, arch, e, values)
<1> DEFINE row == IF HasTable(arch) THEN Len(s.table[arch]) + 1 ELSE Len(s.entities[arch]) + 1
           cells == NewCells(arch, values)
           table == IF HasTable(arch) THEN [s.table EXCEPT ![arch] = Append(s.table[arch], cells)] ELSE s.table
           entities == [s.entities EXCEPT ![arch] = Append(s.entities[arch], e)]
           place == [arch |-> arch, row |-> row]
           records == With(s.records, e, place)
           sparse == [c \in SparseComp |-> IF c \in arch /\ c \in DOMAIN values
                                           THEN With(s.sparse[c], e, values[c]) ELSE s.sparse[c]]
<1>1. /\ s.entities \in [Archetype -> Seq(Handle)] /\ s.table \in [Archetype -> Seq(Cells)]
      /\ s.sparse \in [SparseComp -> Partial(Handle, Value)] /\ s.records \in Partial(Handle, Place)
    BY FieldFacts
<1>2. cells \in Cells
    BY NewCellsType
<1>3. entities \in [Archetype -> Seq(Handle)] /\ table \in [Archetype -> Seq(Cells)]
    <2> HIDE DEF cells
    <2>1. Append(s.entities[arch], e) \in Seq(Handle) /\ Append(s.table[arch], cells) \in Seq(Cells)
        BY <1>1, <1>2
    <2> QED BY <1>1, <2>1
<1>4. records \in Partial(Handle, Place)
    <2>1. row \in Nat
        BY <1>1
    <2> HIDE DEF row
    <2>2. place \in Place
        BY <2>1 DEF Place
    <2> HIDE DEF place
    <2> QED BY <1>1, <2>2, WithPartial
<1>5. sparse \in [SparseComp -> Partial(Handle, Value)]
    <2>1. \A c \in DOMAIN values : values[c] \in Value
        BY PartialFacts DEF Cells
    <2>2. \A c \in SparseComp : s.sparse[c] \in Partial(Handle, Value)
        BY <1>1
    <2>3. \A c \in SparseComp : c \in DOMAIN values => With(s.sparse[c], e, values[c]) \in Partial(Handle, Value)
        BY <2>1, <2>2, WithPartial
    <2> QED BY <2>2, <2>3
<1>6. t = [s EXCEPT !.sparse = sparse, !.table[arch] = IF HasTable(arch) THEN Append(@, cells) ELSE @,
                    !.entities[arch] = Append(@, e), !.records = records]
    BY DEF AddEntityToArchetype, NewCells
<1>7. table = [s.table EXCEPT ![arch] = IF HasTable(arch) THEN Append(@, cells) ELSE @]
    BY <1>1
<1>8. t = [s EXCEPT !.sparse = sparse, !.table = table, !.entities = entities, !.records = records]
    BY ZenonT(40), <1>6, <1>7
<1> HIDE DEF table, entities, records, sparse
<1>9. /\ t \in Fields /\ t.created = s.created /\ t.capacity = s.capacity
      /\ t.table = table /\ t.entities = entities /\ t.records = records /\ t.sparse = sparse
    BY <1>3, <1>4, <1>5, <1>8 DEF Fields
<1> QED BY <1>9 DEF AddedFields, table, entities, records, sparse

(* t is s with a row for e. *)
Added(s, t, X, e, arch, values) ==
    /\ Shape(t) /\ t.created = s.created /\ t.capacity = s.capacity
    /\ DOMAIN t.records = DOMAIN s.records \cup {e} /\ Rows(t, X \cup {e})
    /\ \A x \in X : Same(s, t, x)
    /\ \A x : x # e => SameSparse(s, t, x)
    /\ t.records[e].arch = arch /\ RowValues(t, t.records[e]) = NewCells(arch, values)
    /\ \A c \in SparseComp :
         IF c \in arch /\ c \in DOMAIN values
         THEN e \in DOMAIN t.sparse[c] /\ t.sparse[c][e] = values[c]
         ELSE t.sparse[c] = s.sparse[c]

(* A row is added behind the others. *)
LEMMA AddRows ==
    ASSUME NEW s, Shape(s), NEW X, Rows(s, X), NEW e \in Handle, e \notin X,
           NEW arch \in Archetype, NEW values \in Cells,
           NEW t, t = AddEntityToArchetype(s, arch, e, values)
    PROVE  Added(s, t, X, e, arch, values)
<1> DEFINE last == Len(s.entities[arch])
           cells == NewCells(arch, values)
<1>1. s \in Fields /\ X \subseteq DOMAIN s.records
    BY DEF Shape, Rows
<1>2. AddedFields(s, t, arch, e, values)
    BY <1>1, AddFields
<1>3. /\ s.entities[arch] \in Seq(Handle) /\ s.table[arch] \in Seq(Cells) /\ last \in Nat
      /\ s.entities \in [Archetype -> Seq(Handle)] /\ s.table \in [Archetype -> Seq(Cells)]
      /\ HasTable(arch) => Len(s.table[arch]) = last
    BY <1>1, FieldFacts DEF Rows
<1>4. cells \in Cells /\ DOMAIN cells = Columns(arch)
    BY NewCellsType
<1> HIDE DEF cells
<1>5. /\ t \in Fields /\ t.created = s.created /\ t.capacity = s.capacity
      /\ t.entities[arch] = Append(s.entities[arch], e)
      /\ \A a \in Archetype \ {arch} : t.entities[a] = s.entities[a] /\ t.table[a] = s.table[a]
      /\ HasTable(arch) => t.table[arch] = Append(s.table[arch], cells)
      /\ ~HasTable(arch) => t.table[arch] = s.table[arch]
    BY <1>2, <1>3 DEF AddedFields, cells
<1>6. /\ t.records = With(s.records, e, [arch |-> arch, row |-> last + 1])
      /\ t.sparse = [c \in SparseComp |-> IF c \in arch /\ c \in DOMAIN values
                                          THEN With(s.sparse[c], e, values[c]) ELSE s.sparse[c]]
    BY <1>2, <1>3 DEF AddedFields
<1>7. /\ DOMAIN t.records = DOMAIN s.records \cup {e}
      /\ t.records[e] = [arch |-> arch, row |-> last + 1]
      /\ \A x \in DOMAIN s.records \ {e} : t.records[x] = s.records[x]
    BY <1>6 DEF With
<1>8. /\ Len(t.entities[arch]) = last + 1 /\ t.entities[arch][last + 1] = e
      /\ \A k \in 1 .. last : t.entities[arch][k] = s.entities[arch][k]
    BY <1>3, <1>5
<1>9. ASSUME HasTable(arch)
      PROVE  /\ Len(t.table[arch]) = last + 1 /\ t.table[arch][last + 1] = cells
             /\ \A k \in 1 .. last : t.table[arch][k] = s.table[arch][k]
    <2> DEFINE q == s.table[arch]
    <2>1. q \in Seq(Cells) /\ Len(q) = last /\ t.table[arch] = Append(q, cells)
        BY <1>3, <1>5, <1>9
    <2> HIDE DEF q, last
    <2>2. Len(Append(q, cells)) = Len(q) + 1 /\ Append(q, cells)[Len(q) + 1] = cells
          /\ \A k \in 1 .. Len(q) : Append(q, cells)[k] = q[k]
        BY <1>4, <2>1
    <2> QED BY <2>1, <2>2 DEF q
<1>10. \A a \in Archetype : \A i \in 1 .. Len(s.entities[a]) :
        s.entities[a][i] \in X /\ s.records[s.entities[a][i]] = [arch |-> a, row |-> i]
    BY DEF Rows
<1>11. \A x \in X : /\ s.records[x].arch \in Archetype /\ s.records[x].row \in 1 .. Len(s.entities[s.records[x].arch])
                    /\ s.entities[s.records[x].arch][s.records[x].row] = x
    BY <1>1, FieldFacts DEF Rows
<1>12. \A x \in X : x \in DOMAIN t.records /\ t.records[x] = s.records[x]
    BY <1>1, <1>7
<1>13. 1 .. last \subseteq 1 .. last + 1 /\ last + 1 \in 1 .. last + 1
       /\ \A k \in 1 .. last + 1 : k \in 1 .. last \/ k = last + 1
    BY <1>3
<1> HIDE DEF last
<1>14. ASSUME NEW x \in X
       PROVE  /\ t.records[x].row \in 1 .. Len(t.entities[t.records[x].arch])
              /\ t.entities[t.records[x].arch][t.records[x].row] = x
              /\ RowValues(t, t.records[x]) = RowValues(s, s.records[x])
    <2>1. CASE s.records[x].arch # arch
        <3>1. t.records[x] = s.records[x] /\ s.records[x].arch \in Archetype \ {arch}
            BY <1>11, <1>12, <2>1
        <3>2. /\ t.entities[s.records[x].arch] = s.entities[s.records[x].arch]
              /\ t.table[s.records[x].arch] = s.table[s.records[x].arch]
            BY <1>5, <3>1
        <3> QED BY <1>11, <3>1, <3>2 DEF RowValues
    <2>2. CASE s.records[x].arch = arch
        <3> DEFINE k == s.records[x].row
        <3>1. k \in 1 .. last /\ s.entities[arch][k] = x /\ t.records[x] = s.records[x]
            BY <1>11, <1>12, <2>2 DEF last
        <3> HIDE DEF k
        <3>2. k \in 1 .. Len(t.entities[arch]) /\ t.entities[arch][k] = x
            BY <1>8, <1>13, <3>1
        <3>3. HasTable(arch) => t.table[arch][k] = s.table[arch][k]
            BY <1>9, <3>1
        <3> QED BY <2>2, <3>1, <3>2, <3>3 DEF k, RowValues
    <2> QED BY <2>1, <2>2
<1>15. /\ t.records[e].arch = arch /\ t.records[e].row \in 1 .. Len(t.entities[arch])
       /\ t.entities[arch][t.records[e].row] = e
    BY <1>7, <1>8, <1>13
<1>16. RowValues(t, t.records[e]) = cells
    <2>1. CASE HasTable(arch)
        BY <1>7, <1>9, <2>1 DEF RowValues
    <2>2. CASE ~HasTable(arch)
        <3>1. RowValues(t, t.records[e]) = Nothing
            BY <1>7, <2>2 DEF RowValues
        <3> QED BY <2>2, <3>1 DEF Nothing, cells, NewCells, HasTable
    <2> QED BY <2>1, <2>2
<1>17. \A x : x # e => SameSparse(s, t, x)
    <2> SUFFICES ASSUME NEW x, x # e, NEW c \in SparseComp
                 PROVE  /\ x \in DOMAIN t.sparse[c] <=> x \in DOMAIN s.sparse[c]
                        /\ x \in DOMAIN s.sparse[c] => t.sparse[c][x] = s.sparse[c][x]
        BY DEF SameSparse
    <2>1. t.sparse[c] = s.sparse[c] \/ t.sparse[c] = With(s.sparse[c], e, values[c])
        BY <1>6
    <2> QED BY <2>1 DEF With
<1>18. \A c \in SparseComp :
                IF c \in arch /\ c \in DOMAIN values
                THEN e \in DOMAIN t.sparse[c] /\ t.sparse[c][e] = values[c]
                ELSE t.sparse[c] = s.sparse[c]
    BY <1>6 DEF With
<1>19. Shape(t)
    <2> SUFFICES ASSUME NEW a \in Archetype, NEW i \in 1 .. Len(t.table[a])
                 PROVE  DOMAIN t.table[a][i] = Columns(a)
        BY <1>5 DEF Shape
    <2>1. CASE a # arch \/ ~HasTable(arch)
        <3>1. t.table[a] = s.table[a]
            BY <1>5, <2>1
        <3> QED BY <3>1 DEF Shape
    <2>2. CASE a = arch /\ HasTable(arch)
        <3>1. i \in 1 .. last \/ i = last + 1
            BY <1>9, <1>13, <2>2
        <3>2. i \in 1 .. last => DOMAIN s.table[arch][i] = Columns(arch)
            BY <1>3, <2>2 DEF Shape
        <3> QED BY <1>4, <1>9, <2>2, <3>1, <3>2
    <2> QED BY <2>1, <2>2
<1>20. ASSUME NEW a \in Archetype, NEW i \in 1 .. Len(t.entities[a])
       PROVE  t.entities[a][i] \in X \cup {e} /\ t.records[t.entities[a][i]] = [arch |-> a, row |-> i]
    <2>1. CASE a = arch /\ i = last + 1
        BY <1>7, <1>8, <2>1
    <2>2. CASE a # arch \/ i # last + 1
        <3>1. i \in 1 .. Len(s.entities[a]) /\ t.entities[a][i] = s.entities[a][i]
            BY <1>5, <1>8, <1>13, <2>2 DEF last
        <3> QED BY <1>10, <1>12, <3>1
    <2> QED BY <2>1, <2>2
<1>21. ASSUME NEW a \in Archetype, HasTable(a) PROVE Len(t.table[a]) = Len(t.entities[a])
    <2>1. CASE a = arch
        BY <1>8, <1>9, <1>21, <2>1
    <2>2. CASE a # arch
        BY <1>5, <1>21, <2>2 DEF Rows
    <2> QED BY <2>1, <2>2
<1>22. Rows(t, X \cup {e})
    <2>1. X \cup {e} \subseteq DOMAIN t.records
        BY <1>1, <1>7
    <2>2. ASSUME NEW x \in X \cup {e}
          PROVE  LET r == t.records[x] IN r.row \in 1 .. Len(t.entities[r.arch]) /\ t.entities[r.arch][r.row] = x
        BY <1>14, <1>15
    <2> QED BY <1>20, <1>21, <2>1, <2>2 DEF Rows
<1>23. \A x \in X : Same(s, t, x)
    BY <1>12, <1>14, <1>17 DEF Same
<1> QED BY <1>5, <1>7, <1>15, <1>16, <1>17, <1>18, <1>19, <1>22, <1>23 DEF cells, Added

-----------------------------------------------------------------------------
(* A row after a write in place. *)
Rewritten(arch, values, old) == [c \in Columns(arch) |-> IF c \in DOMAIN values THEN values[c] ELSE old[c]]

(* The fields t has after a write in place. *)
WrittenFields(s, t, e, values) ==
    LET rec == s.records[e]
        rows == s.table[rec.arch]
    IN
    /\ t \in Fields /\ t.created = s.created /\ t.capacity = s.capacity
    /\ t.entities = s.entities /\ t.records = s.records
    /\ t.table = IF HasTable(rec.arch)
                 THEN [s.table EXCEPT ![rec.arch] = [rows EXCEPT ![rec.row] = Rewritten(rec.arch, values, rows[rec.row])]]
                 ELSE s.table
    /\ t.sparse = [c \in SparseComp |-> IF c \in DOMAIN values THEN With(s.sparse[c], e, values[c]) ELSE s.sparse[c]]

LEMMA RewrittenType ==
    ASSUME NEW arch \in Archetype, NEW values \in Cells, NEW old \in Cells, DOMAIN old = Columns(arch)
    PROVE  Rewritten(arch, values, old) \in Cells /\ DOMAIN Rewritten(arch, values, old) = Columns(arch)
<1>1. (\A c \in DOMAIN values : values[c] \in Value) /\ (\A c \in DOMAIN old : old[c] \in Value)
    BY PartialFacts DEF Cells
<1>2. Columns(arch) \subseteq Component
    BY DEF Columns, Archetype
<1>3. Rewritten(arch, values, old) \in [Columns(arch) -> Value]
    BY <1>1 DEF Rewritten
<1> QED BY <1>2, <1>3 DEF Cells, Partial

LEMMA WriteFields ==
    ASSUME NEW s, Shape(s), NEW X, Rows(s, X), NEW e \in X, e \in Handle, NEW values \in Cells,
           NEW t, t = WriteValues(s, s.records[e], e, values)
    PROVE  WrittenFields(s, t, e, values)
<1> DEFINE arch == s.records[e].arch
           row == s.records[e].row
           rows == s.table[arch]
           new == Rewritten(arch, values, rows[row])
           table == IF HasTable(arch) THEN [s.table EXCEPT ![arch] = [rows EXCEPT ![row] = new]] ELSE s.table
           sparse == [c \in SparseComp |-> IF c \in DOMAIN values THEN With(s.sparse[c], e, values[c]) ELSE s.sparse[c]]
<1>1. s \in Fields /\ arch \in Archetype
    <2>1. s \in Fields /\ e \in DOMAIN s.records
        BY DEF Shape, Rows
    <2> QED BY <2>1, FieldFacts
<1>2. /\ s.table \in [Archetype -> Seq(Cells)] /\ s.sparse \in [SparseComp -> Partial(Handle, Value)]
    BY <1>1, FieldFacts
<1>3. table \in [Archetype -> Seq(Cells)]
    <2>1. CASE HasTable(arch)
        <3>1. rows \in Seq(Cells) /\ row \in 1 .. Len(rows)
            BY <1>1, <1>2, <2>1 DEF Rows
        <3>2. rows[row] \in Cells /\ DOMAIN rows[row] = Columns(arch)
            BY <1>1, <3>1 DEF Shape
        <3>3. new \in Cells
            BY <1>1, <3>2, RewrittenType
        <3> HIDE DEF new, rows, row
        <3>4. [rows EXCEPT ![row] = new] \in Seq(Cells)
            BY <3>1, <3>3
        <3> HIDE DEF arch
        <3> QED BY <1>2, <2>1, <3>4
    <2>2. CASE ~HasTable(arch)
        BY <1>2, <2>2
    <2> QED BY <2>1, <2>2
<1>4. sparse \in [SparseComp -> Partial(Handle, Value)]
    <2>1. \A c \in DOMAIN values : values[c] \in Value
        BY PartialFacts DEF Cells
    <2>2. \A c \in SparseComp : s.sparse[c] \in Partial(Handle, Value)
        BY <1>2
    <2>3. \A c \in SparseComp : c \in DOMAIN values => With(s.sparse[c], e, values[c]) \in Partial(Handle, Value)
        BY <2>1, <2>2, WithPartial
    <2> QED BY <2>2, <2>3
<1>5. t = [s EXCEPT !.table[arch] = IF HasTable(arch) THEN [rows EXCEPT ![row] = new] ELSE rows,
                    !.sparse = sparse]
    BY DEF WriteValues, Rewritten
<1>6. table = [s.table EXCEPT ![arch] = IF HasTable(arch) THEN [rows EXCEPT ![row] = new] ELSE rows]
    BY <1>2
<1>7. t = [s EXCEPT !.table = table, !.sparse = sparse]
    BY <1>5, <1>6
<1> HIDE DEF table, sparse
<1>8. /\ t \in Fields /\ t.created = s.created /\ t.capacity = s.capacity /\ t.entities = s.entities
      /\ t.records = s.records /\ t.table = table /\ t.sparse = sparse
    BY <1>1, <1>3, <1>4, <1>7 DEF Fields
<1> QED BY <1>8 DEF WrittenFields, table, sparse

(* t is s with other values for e. *)
Written(s, t, X, e, values) ==
    /\ Shape(t) /\ t.created = s.created /\ t.capacity = s.capacity
    /\ t.records = s.records /\ Rows(t, X)
    /\ \A x \in X \ {e} : Same(s, t, x)
    /\ \A x : x # e => SameSparse(s, t, x)
    /\ RowValues(t, t.records[e]) = Rewritten(s.records[e].arch, values, RowValues(s, s.records[e]))
    /\ \A c \in SparseComp :
         IF c \in DOMAIN values
         THEN e \in DOMAIN t.sparse[c] /\ t.sparse[c][e] = values[c]
         ELSE t.sparse[c] = s.sparse[c]

(* A write in place moves nobody. *)
LEMMA WriteRows ==
    ASSUME NEW s, Shape(s), NEW X, Rows(s, X), NEW e \in X, NEW values \in Cells,
           NEW t, t = WriteValues(s, s.records[e], e, values)
    PROVE  Written(s, t, X, e, values)
<1> DEFINE arch == s.records[e].arch
           row == s.records[e].row
           rows == s.table[arch]
           new == Rewritten(arch, values, rows[row])
<1>1. s \in Fields /\ X \subseteq DOMAIN s.records
    BY DEF Shape, Rows
<1>2. e \in Handle /\ arch \in Archetype
    BY <1>1, FieldFacts
<1>3. WrittenFields(s, t, e, values)
    BY <1>2, WriteFields
<1>4. /\ rows \in Seq(Cells) /\ s.table \in [Archetype -> Seq(Cells)]
      /\ row \in 1 .. Len(s.entities[arch]) /\ s.entities[arch][row] = e
      /\ HasTable(arch) => Len(rows) = Len(s.entities[arch])
    BY <1>1, <1>2, FieldFacts DEF Rows
<1>5. ASSUME HasTable(arch) PROVE new \in Cells /\ DOMAIN new = Columns(arch)
    <2>1. row \in 1 .. Len(rows)
        BY <1>4, <1>5
    <2>2. rows[row] \in Cells /\ DOMAIN rows[row] = Columns(arch)
        BY <1>2, <1>4, <2>1 DEF Shape
    <2> QED BY <1>2, <2>2, RewrittenType
<1> HIDE DEF new
<1>6. /\ t \in Fields /\ t.created = s.created /\ t.capacity = s.capacity
      /\ t.entities = s.entities /\ t.records = s.records
      /\ t.table = IF HasTable(arch) THEN [s.table EXCEPT ![arch] = [rows EXCEPT ![row] = new]] ELSE s.table
      /\ t.sparse = [c \in SparseComp |-> IF c \in DOMAIN values THEN With(s.sparse[c], e, values[c]) ELSE s.sparse[c]]
    BY <1>3 DEF WrittenFields, new
<1> HIDE DEF arch, row, rows
<1>7. /\ \A a \in Archetype : a # arch \/ ~HasTable(arch) => t.table[a] = s.table[a]
      /\ HasTable(arch) => t.table[arch] = [rows EXCEPT ![row] = new]
    BY <1>2, <1>4, <1>6
<1>8. ASSUME HasTable(arch)
      PROVE  /\ Len(t.table[arch]) = Len(s.entities[arch]) /\ t.table[arch][row] = new
             /\ \A k \in 1 .. Len(s.entities[arch]) : k # row => t.table[arch][k] = rows[k]
    <2>1. rows \in Seq(Cells) /\ row \in 1 .. Len(rows) /\ Len(rows) = Len(s.entities[arch])
        BY <1>4, <1>8
    <2>2. /\ Len([rows EXCEPT ![row] = new]) = Len(rows) /\ [rows EXCEPT ![row] = new][row] = new
          /\ \A k \in 1 .. Len(rows) : k # row => [rows EXCEPT ![row] = new][k] = rows[k]
        BY <2>1
    <2> QED BY <1>7, <1>8, <2>1, <2>2
<1>9. Rows(t, X)
    <2>1. ASSUME NEW a \in Archetype, HasTable(a) PROVE Len(t.table[a]) = Len(t.entities[a])
        BY <1>6, <1>7, <1>8, <2>1 DEF Rows
    <2>2. t.records = s.records /\ t.entities = s.entities /\ Rows(s, X)
        BY <1>6
    <2>3. X \subseteq DOMAIN t.records
        BY <2>2 DEF Rows
    <2>4. \A x \in X : LET r == t.records[x] IN r.row \in 1 .. Len(t.entities[r.arch]) /\ t.entities[r.arch][r.row] = x
        BY <2>2 DEF Rows
    <2>5. \A a \in Archetype : \A i \in 1 .. Len(t.entities[a]) :
              t.entities[a][i] \in X /\ t.records[t.entities[a][i]] = [arch |-> a, row |-> i]
        <3>1. \A a \in Archetype : \A i \in 1 .. Len(s.entities[a]) :
                  s.entities[a][i] \in X /\ s.records[s.entities[a][i]] = [arch |-> a, row |-> i]
            BY Rows(s, X) DEF Rows
        <3>2. t.entities = s.entities /\ t.records = s.records
            BY <2>2
        <3>3. ASSUME NEW a \in Archetype, NEW i \in 1 .. Len(t.entities[a])
              PROVE  t.entities[a][i] \in X /\ t.records[t.entities[a][i]] = [arch |-> a, row |-> i]
            <4>1. i \in 1 .. Len(s.entities[a])
                BY <3>2, <3>3, Zenon
            <4>2. s.entities[a][i] \in X /\ s.records[s.entities[a][i]] = [arch |-> a, row |-> i]
                BY <3>1, <4>1, Zenon
            <4> QED BY <3>2, <4>2, Zenon
        <3> QED BY <3>3, Zenon
    <2> QED BY <2>1, <2>3, <2>4, <2>5 DEF Rows
<1>10. Shape(t)
    <2> SUFFICES ASSUME NEW a \in Archetype, NEW i \in 1 .. Len(t.table[a])
                 PROVE  DOMAIN t.table[a][i] = Columns(a)
        BY <1>6 DEF Shape
    <2>1. CASE a # arch \/ ~HasTable(arch)
        <3>1. t.table[a] = s.table[a]
            BY <1>7, <2>1
        <3> QED BY <3>1 DEF Shape
    <2>2. CASE a = arch /\ HasTable(arch) /\ i = row
        BY <1>5, <1>8, <2>2
    <2>3. CASE a = arch /\ HasTable(arch) /\ i # row
        <3>1. i \in 1 .. Len(s.entities[arch]) /\ Len(rows) = Len(s.entities[arch])
            BY <1>4, <1>8, <2>3
        <3>2. i \in 1 .. Len(s.table[arch]) /\ t.table[a][i] = s.table[arch][i]
            BY <1>8, <2>3, <3>1 DEF rows
        <3> QED BY <2>3, <3>2 DEF Shape
    <2> QED BY <2>1, <2>2, <2>3
<1>11. \A x : x # e => SameSparse(s, t, x)
    <2> SUFFICES ASSUME NEW x, x # e, NEW c \in SparseComp
                 PROVE  /\ x \in DOMAIN t.sparse[c] <=> x \in DOMAIN s.sparse[c]
                        /\ x \in DOMAIN s.sparse[c] => t.sparse[c][x] = s.sparse[c][x]
        BY DEF SameSparse
    <2>1. t.sparse[c] = s.sparse[c] \/ t.sparse[c] = With(s.sparse[c], e, values[c])
        BY <1>6
    <2> QED BY <2>1 DEF With
<1>12. \A c \in SparseComp :
                IF c \in DOMAIN values
                THEN e \in DOMAIN t.sparse[c] /\ t.sparse[c][e] = values[c]
                ELSE t.sparse[c] = s.sparse[c]
    BY <1>6 DEF With
<1>13. ASSUME NEW x \in X \ {e} PROVE Same(s, t, x)
    <2>1. /\ x \in DOMAIN s.records /\ s.records[x].arch \in Archetype
          /\ s.records[x].row \in 1 .. Len(s.entities[s.records[x].arch])
          /\ s.entities[s.records[x].arch][s.records[x].row] = x
        BY <1>1, FieldFacts DEF Rows
    <2>2. RowValues(t, s.records[x]) = RowValues(s, s.records[x])
        <3>1. CASE s.records[x].arch # arch \/ ~HasTable(arch)
            <4>1. t.table[s.records[x].arch] = s.table[s.records[x].arch]
                BY <1>7, <2>1, <3>1
            <4> QED BY <4>1 DEF RowValues
        <3>2. CASE s.records[x].arch = arch /\ HasTable(arch)
            <4>1. s.records[x].row # row /\ s.records[x].row \in 1 .. Len(s.entities[arch])
                BY <1>4, <2>1, <3>2
            <4>2. t.table[arch][s.records[x].row] = rows[s.records[x].row]
                BY <1>8, <3>2, <4>1
            <4> QED BY <3>2, <4>2 DEF RowValues, rows
        <3> QED BY <3>1, <3>2
    <2> QED BY <1>6, <1>11, <2>1, <2>2 DEF Same
<1>14. RowValues(t, t.records[e]) = Rewritten(arch, values, RowValues(s, s.records[e]))
    <2>1. CASE HasTable(arch)
        BY <1>6, <1>8, <2>1 DEF RowValues, new, arch, row, rows
    <2>2. CASE ~HasTable(arch)
        <3>1. RowValues(t, t.records[e]) = Nothing
            BY <1>6, <2>2 DEF RowValues, arch
        <3> QED BY <2>2, <3>1 DEF Nothing, Rewritten, HasTable
    <2> QED BY <2>1, <2>2
<1> QED BY <1>6, <1>9, <1>10, <1>11, <1>12, <1>13, <1>14 DEF arch, Written

-----------------------------------------------------------------------------
(* What the store holds for x, as Get answers it. *)
What(s, x) ==
    [c \in s.records[x].arch |-> IF c \in TableComp THEN s.table[s.records[x].arch][s.records[x].row][c]
                                 ELSE s.sparse[c][x]]

(* A sparse set holds x exactly when the archetype of x names it. *)
SparseFits(s, x) == \A c \in SparseComp : x \in DOMAIN s.sparse[c] <=> x \in DOMAIN s.records /\ c \in s.records[x].arch

(* The store between two calls. *)
Whole(s) ==
    /\ Shape(s)
    /\ InitCap <= s.capacity
    /\ Rows(s, DOMAIN s.records)
    /\ \A x \in Handle : SparseFits(s, x)

LEMMA ArchetypeFacts ==
    ASSUME NEW arch \in Archetype
    PROVE  /\ Columns(arch) \subseteq arch
           /\ \A c \in arch : c \in TableComp => c \in Columns(arch) /\ HasTable(arch)
           /\ \A c \in arch : c \in TableComp \/ c \in SparseComp
           /\ \A c \in SparseComp : c \notin TableComp /\ c \notin Columns(arch)
BY StoreAssumption DEF StoreAssumption, Archetype, Component, Columns, HasTable

(* What an entity holds: the cells of its row and its sparse values. *)
LEMMA WhatIs ==
    ASSUME NEW s, NEW x, s.records[x].arch \in Archetype
    PROVE  /\ DOMAIN What(s, x) = s.records[x].arch
           /\ \A c \in Columns(s.records[x].arch) : What(s, x)[c] = RowValues(s, s.records[x])[c]
           /\ \A c \in s.records[x].arch \cap SparseComp : What(s, x)[c] = s.sparse[c][x]
BY ArchetypeFacts DEF What, RowValues, Columns

(* Two descriptions of what an entity holds. *)
LEMMA WhatEqual ==
    ASSUME NEW s, NEW x, s.records[x].arch \in Archetype, NEW f, DOMAIN f = s.records[x].arch,
           f = [c \in DOMAIN f |-> f[c]],
           \A c \in Columns(s.records[x].arch) : RowValues(s, s.records[x])[c] = f[c],
           \A c \in s.records[x].arch \cap SparseComp : s.sparse[c][x] = f[c]
    PROVE  What(s, x) = f
<1> DEFINE arch == s.records[x].arch
           w == What(s, x)
<1>1. DOMAIN w = arch /\ w = [c \in arch |-> w[c]]
    BY DEF What
<1>2. \A c \in arch : w[c] = f[c]
    <2> SUFFICES ASSUME NEW c \in arch PROVE w[c] = f[c]
        OBVIOUS
    <2>1. CASE c \in TableComp
        BY <2>1, WhatIs, ArchetypeFacts
    <2>2. CASE c \in SparseComp
        BY <2>2, WhatIs
    <2> QED BY <2>1, <2>2, ArchetypeFacts
<1> HIDE DEF arch, w
<1>3. DOMAIN f = arch
    BY DEF arch
<1>4. w = f
    BY <1>1, <1>2, <1>3
<1> QED BY <1>4 DEF w

(* An entity that was left alone holds what it held. *)
LEMMA SameKeeps ==
    ASSUME NEW s, NEW t, Whole(s), NEW x \in DOMAIN s.records, Same(s, t, x)
    PROVE  What(t, x) = What(s, x) /\ SparseFits(t, x)
<1>1. s \in Fields /\ x \in Handle /\ s.records[x].arch \in Archetype /\ SparseFits(s, x)
    <2>1. s \in Fields
        BY DEF Whole, Shape
    <2> QED BY <2>1, FieldFacts DEF Whole
<1>2. /\ x \in DOMAIN t.records /\ t.records[x].arch = s.records[x].arch
      /\ RowValues(t, t.records[x]) = RowValues(s, s.records[x])
      /\ \A c \in SparseComp : /\ x \in DOMAIN t.sparse[c] <=> x \in DOMAIN s.sparse[c]
                               /\ x \in DOMAIN s.sparse[c] => t.sparse[c][x] = s.sparse[c][x]
    BY DEF Same, SameSparse
<1>3. SparseFits(t, x)
    BY <1>1, <1>2 DEF SparseFits
<1> DEFINE f == What(s, x)
<1>4. DOMAIN f = s.records[x].arch /\ f = [c \in DOMAIN f |-> f[c]]
    BY DEF What
<1>5. \A c \in Columns(s.records[x].arch) : f[c] = RowValues(s, s.records[x])[c]
    BY <1>1, WhatIs
<1>6. \A c \in s.records[x].arch \cap SparseComp : t.sparse[c][x] = f[c]
    BY <1>1, <1>2, WhatIs DEF SparseFits
<1> HIDE DEF f
<1>7. What(t, x) = f
    BY <1>1, <1>2, <1>4, <1>5, <1>6, WhatEqual
<1> QED BY <1>3, <1>7 DEF f

LEMMA MergeFacts ==
    ASSUME NEW old, NEW new
    PROVE  DOMAIN Merge(old, new) = DOMAIN old \cup DOMAIN new
           /\ \A c \in DOMAIN old \cup DOMAIN new :
                Merge(old, new)[c] = IF c \in DOMAIN new THEN new[c] ELSE old[c]
BY DEF Merge

LEMMA ResolveFacts ==
    ASSUME NEW data \in Cells
    PROVE  ResolveData(data) \in Cells
<1>1. DOMAIN data \subseteq Component /\ \A c \in DOMAIN data : data[c] \in Value
    BY PartialFacts DEF Cells
<1> DEFINE D == DOMAIN data \cup UNION {RequiredBy[d] : d \in DOMAIN data}
<1>2. D \subseteq Component /\ Zero \in Value
    BY <1>1, StoreAssumption DEF StoreAssumption
<1> HIDE DEF D
<1>3. ResolveData(data) = [c \in D |-> IF c \in DOMAIN data THEN data[c] ELSE Zero]
    BY DEF ResolveData, D
<1>4. ResolveData(data) \in [D -> Value]
    BY <1>1, <1>2, <1>3
<1> QED BY <1>2, <1>4 DEF Cells, Partial

-----------------------------------------------------------------------------
LEMMA SameTransitive ==
    ASSUME NEW s, NEW t, NEW u, NEW x
    PROVE  /\ SameSparse(s, t, x) /\ SameSparse(t, u, x) => SameSparse(s, u, x)
           /\ Same(s, t, x) /\ Same(t, u, x) => Same(s, u, x)
<1>1. SameSparse(s, t, x) /\ SameSparse(t, u, x) => SameSparse(s, u, x)
    BY DEF SameSparse
<1> QED BY <1>1 DEF Same

(* findOrCreate leaves everybody alone. *)
LEMMA CreateRows ==
    ASSUME NEW s, Shape(s), NEW X, Rows(s, X), NEW arch \in Archetype, NEW u, u = FindOrCreate(s, arch)
    PROVE  /\ Shape(u) /\ Rows(u, X) /\ s.capacity <= u.capacity /\ u.capacity \in Nat
           /\ u.records = s.records /\ u.sparse = s.sparse
           /\ \A x \in X : Same(s, u, x)
           /\ \A x : SameSparse(s, u, x)
<1>1. s \in Fields
    BY DEF Shape
<1>2. /\ u \in Fields /\ s.capacity <= u.capacity /\ u.entities = s.entities /\ u.table = s.table
      /\ u.sparse = s.sparse /\ u.records = s.records
    BY <1>1, FindOrCreateFacts
<1>3. Shape(u) /\ Rows(u, X) /\ u.capacity \in Nat
    BY <1>2, FieldFacts DEF Shape, Rows
<1>4. \A x : SameSparse(s, u, x)
    BY <1>2 DEF SameSparse
<1>5. \A x \in X : Same(s, u, x)
    BY <1>2, <1>4 DEF Same, RowValues, Rows
<1> QED BY <1>2, <1>3, <1>4, <1>5

(* Whoever an operation leaves alone is where it should be and holds what  *)
(* it held.                                                                *)
LEMMA OthersKeep ==
    ASSUME NEW s, Whole(s), NEW t, NEW e,
           \A x \in Handle \ {e} : x \in DOMAIN t.records <=> x \in DOMAIN s.records,
           \A x \in DOMAIN s.records \ {e} : Same(s, t, x),
           \A x : x # e => SameSparse(s, t, x)
    PROVE  /\ \A x \in Handle \ {e} : SparseFits(t, x)
           /\ \A x \in DOMAIN s.records \ {e} : What(t, x) = What(s, x)
<1>1. \A x \in DOMAIN s.records \ {e} : What(t, x) = What(s, x) /\ SparseFits(t, x)
    BY SameKeeps
<1>2. ASSUME NEW x \in Handle \ {e}, x \notin DOMAIN s.records PROVE SparseFits(t, x)
    <2>1. x \notin DOMAIN t.records /\ SameSparse(s, t, x) /\ SparseFits(s, x)
        BY <1>2 DEF Whole
    <2> QED BY <1>2, <2>1 DEF SparseFits, SameSparse
<1> QED BY <1>1, <1>2

(* A row's values are a partial assignment to the archetype's columns. *)
LEMMA RowValuesType ==
    ASSUME NEW s, Shape(s), NEW X, Rows(s, X), NEW e \in X
    PROVE  RowValues(s, s.records[e]) \in Cells /\ DOMAIN RowValues(s, s.records[e]) = Columns(s.records[e].arch)
<1> DEFINE arch == s.records[e].arch
           row == s.records[e].row
<1>1. arch \in Archetype /\ s.table \in [Archetype -> Seq(Cells)]
    <2>1. s \in Fields /\ e \in DOMAIN s.records
        BY DEF Shape, Rows
    <2> QED BY <2>1, FieldFacts
<1>2. CASE HasTable(arch)
    <2>1. row \in 1 .. Len(s.table[arch]) /\ s.table[arch] \in Seq(Cells)
        BY <1>1, <1>2 DEF Rows
    <2>2. s.table[arch][row] \in Cells /\ DOMAIN s.table[arch][row] = Columns(arch)
        BY <1>1, <2>1 DEF Shape
    <2> QED BY <1>2, <2>2 DEF RowValues
<1>3. CASE ~HasTable(arch)
    <2>1. RowValues(s, s.records[e]) = Nothing /\ Columns(arch) = {}
        BY <1>3 DEF RowValues, HasTable
    <2>2. Nothing \in [{} -> Value] /\ DOMAIN Nothing = {}
        BY DEF Nothing
    <2> QED BY <2>1, <2>2 DEF Cells, Partial
<1> QED BY <1>2, <1>3

(* A spawned entity holds what was resolved for it. *)
LEMMA PlacedFacts ==
    ASSUME NEW s, Whole(s), NEW e \in Handle, e \notin DOMAIN s.records, NEW data \in Cells,
           NEW t, t = Placed(s, e, data)
    PROVE  /\ Whole(t) /\ DOMAIN t.records = DOMAIN s.records \cup {e}
           /\ What(t, e) = ResolveData(data)
           /\ \A x \in DOMAIN s.records : What(t, x) = What(s, x)
<1> DEFINE values == ResolveData(data)
           arch == DOMAIN values
           u == FindOrCreate(s, arch)
           X == DOMAIN s.records
<1>1. values \in Cells
    BY ResolveFacts
<1>2. arch \in Archetype
    BY <1>1, PartialFacts DEF Cells, Archetype
<1>3. t = AddEntityToArchetype(u, arch, e, values)
    BY DEF Placed
<1>4. Shape(s) /\ Rows(s, X) /\ InitCap <= s.capacity /\ s.capacity \in Nat /\ InitCap \in Nat
    BY StoreAssumption, FieldFacts DEF Whole, Shape, StoreAssumption
<1> HIDE DEF values, arch, u, X
<1>5. /\ Shape(u) /\ Rows(u, X) /\ s.capacity <= u.capacity /\ u.capacity \in Nat
      /\ u.records = s.records /\ u.sparse = s.sparse
      /\ \A x \in X : Same(s, u, x)
      /\ \A x : SameSparse(s, u, x)
    BY <1>2, <1>4, CreateRows DEF u
<1>6. e \notin X
    BY DEF X
<1>7. /\ Shape(t) /\ t.capacity = u.capacity
      /\ DOMAIN t.records = DOMAIN u.records \cup {e} /\ Rows(t, X \cup {e})
      /\ \A x \in X : Same(u, t, x)
      /\ \A x : x # e => SameSparse(u, t, x)
      /\ t.records[e].arch = arch /\ RowValues(t, t.records[e]) = NewCells(arch, values)
      /\ \A c \in SparseComp :
            IF c \in arch /\ c \in DOMAIN values
            THEN e \in DOMAIN t.sparse[c] /\ t.sparse[c][e] = values[c]
            ELSE t.sparse[c] = u.sparse[c]
    <2>1. Added(u, t, X, e, arch, values)
        BY <1>1, <1>2, <1>3, <1>5, <1>6, AddRows
    <2> QED BY <2>1 DEF Added
<1>8. DOMAIN t.records = DOMAIN s.records \cup {e}
    BY <1>5, <1>7
<1>9. /\ \A x \in Handle \ {e} : x \in DOMAIN t.records <=> x \in DOMAIN s.records
      /\ \A x \in DOMAIN s.records \ {e} : Same(s, t, x)
      /\ \A x : x # e => SameSparse(s, t, x)
    BY <1>5, <1>7, <1>8, SameTransitive DEF X
<1>10. /\ \A x \in Handle \ {e} : SparseFits(t, x)
       /\ \A x \in DOMAIN s.records \ {e} : What(t, x) = What(s, x)
    BY <1>9, OthersKeep
<1>11. SparseFits(t, e)
    <2>1. \A c \in SparseComp : e \notin DOMAIN s.sparse[c]
        BY DEF Whole, SparseFits
    <2> QED BY <1>5, <1>7, <1>8, <2>1 DEF SparseFits, arch
<1>12. What(t, e) = values
    <2>1. values = [c \in DOMAIN values |-> values[c]] /\ DOMAIN values = arch
        BY <1>1, PartialFacts DEF Cells, arch
    <2>2. \A c \in Columns(arch) : RowValues(t, t.records[e])[c] = values[c]
        BY <1>2, <1>7, <2>1, ArchetypeFacts DEF NewCells
    <2>3. \A c \in arch \cap SparseComp : t.sparse[c][e] = values[c]
        BY <1>7, <2>1
    <2> QED BY <1>2, <1>7, <2>1, <2>2, <2>3, WhatEqual
<1>13. Whole(t)
    <2>1. InitCap <= t.capacity
        BY <1>4, <1>5, <1>7
    <2>2. Rows(t, DOMAIN t.records)
        BY <1>7, <1>8 DEF X
    <2> QED BY <1>7, <1>10, <1>11, <2>1, <2>2 DEF Whole
<1> QED BY <1>8, <1>10, <1>12, <1>13 DEF values

(* t is s with e in another archetype. *)
Migrated(s, t, X, e, arch, values) ==
    /\ Shape(t) /\ InitCap <= t.capacity
    /\ DOMAIN t.records = X /\ Rows(t, X)
    /\ \A x \in X \ {e} : Same(s, t, x)
    /\ \A x : x # e => SameSparse(s, t, x)
    /\ t.records[e].arch = arch /\ RowValues(t, t.records[e]) = NewCells(arch, values)
    /\ \A c \in SparseComp :
         IF c \in arch /\ c \in DOMAIN values
         THEN e \in DOMAIN t.sparse[c] /\ t.sparse[c][e] = values[c]
         ELSE /\ e \in DOMAIN t.sparse[c] <=> e \in DOMAIN s.sparse[c]
              /\ e \in DOMAIN s.sparse[c] => t.sparse[c][e] = s.sparse[c][e]

(* A migration that shortens the entity list it should. *)
Fresh(s, e, rec, arch, values) ==
    AddEntityToArchetype(
        RemoveEntityFromArchetype(FindOrCreate(s, arch), rec.arch, e, rec.row, FALSE, FALSE), arch, e, values)

(* What it does, whatever the sparse sets say of the entity. *)
LEMMA MigrateRows ==
    ASSUME NEW s, Shape(s), InitCap <= s.capacity, NEW X, Rows(s, X), X = DOMAIN s.records,
           NEW e \in X, NEW arch \in Archetype, NEW values \in Cells,
           NEW t, t = Fresh(s, e, s.records[e], arch, values)
    PROVE  Migrated(s, t, X, e, arch, values)
<1> DEFINE u == FindOrCreate(s, arch)
           v == RemoveEntityFromArchetype(u, u.records[e].arch, e, u.records[e].row, FALSE, FALSE)
<1>2. e \in Handle
    BY FieldFacts DEF Shape
<1>3. s.capacity \in Nat /\ InitCap \in Nat
    BY StoreAssumption, FieldFacts DEF Shape, StoreAssumption
<1>4. /\ Shape(u) /\ Rows(u, X) /\ s.capacity <= u.capacity /\ u.capacity \in Nat
      /\ u.records = s.records /\ u.sparse = s.sparse
      /\ \A x \in X : Same(s, u, x)
      /\ \A x : SameSparse(s, u, x)
    BY CreateRows
<1>5. t = AddEntityToArchetype(v, arch, e, values)
    BY <1>4 DEF Fresh
<1> HIDE DEF u
<1>6. /\ Shape(v) /\ v.capacity = u.capacity
      /\ DOMAIN v.records = DOMAIN u.records /\ Rows(v, X \ {e})
      /\ \A x \in X \ {e} : Same(u, v, x)
      /\ \A x : x # e \/ ~FALSE => SameSparse(u, v, x)
    <2>1. Evicted(u, v, X, e, FALSE)
        BY <1>4, EvictRows
    <2> QED BY <2>1 DEF Evicted
<1> HIDE DEF v
<1>7. e \notin X \ {e}
    OBVIOUS
<1>8. /\ Shape(t) /\ t.capacity = v.capacity
      /\ DOMAIN t.records = DOMAIN v.records \cup {e} /\ Rows(t, (X \ {e}) \cup {e})
      /\ \A x \in X \ {e} : Same(v, t, x)
      /\ \A x : x # e => SameSparse(v, t, x)
      /\ t.records[e].arch = arch /\ RowValues(t, t.records[e]) = NewCells(arch, values)
      /\ \A c \in SparseComp :
            IF c \in arch /\ c \in DOMAIN values
            THEN e \in DOMAIN t.sparse[c] /\ t.sparse[c][e] = values[c]
            ELSE t.sparse[c] = v.sparse[c]
    <2>1. Added(v, t, X \ {e}, e, arch, values)
        BY <1>2, <1>5, <1>6, <1>7, AddRows
    <2> QED BY <2>1 DEF Added
<1>9. InitCap <= t.capacity
    BY <1>3, <1>4, <1>6, <1>8
<1>10. (X \ {e}) \cup {e} = X /\ DOMAIN t.records = X
    BY <1>4, <1>6, <1>8
<1>11. \A x \in X \ {e} : Same(s, t, x)
    BY <1>4, <1>6, <1>8, SameTransitive
<1>12. \A x : x # e => SameSparse(s, t, x)
    BY <1>4, <1>6, <1>8, SameTransitive
<1>13. SameSparse(s, v, e)
    BY <1>4, <1>6, SameTransitive
<1>14. \A c \in SparseComp :
                IF c \in arch /\ c \in DOMAIN values
                THEN e \in DOMAIN t.sparse[c] /\ t.sparse[c][e] = values[c]
                ELSE /\ e \in DOMAIN t.sparse[c] <=> e \in DOMAIN s.sparse[c]
                     /\ e \in DOMAIN s.sparse[c] => t.sparse[c][e] = s.sparse[c][e]
    BY <1>8, <1>13 DEF SameSparse
<1> QED BY <1>8, <1>9, <1>10, <1>11, <1>12, <1>14 DEF Migrated

(* Insert and Remove with such migrations. *)
InsertedFresh(s, e, data) ==
    LET rec == s.records[e]
        values == ResolveData(data)
        arch == rec.arch \cup DOMAIN values
    IN IF data = Nothing THEN s
       ELSE IF arch = rec.arch THEN WriteValues(s, rec, e, values)
       ELSE Fresh(s, e, rec, arch, Merge(RowValues(s, rec), values))

RemovedFresh(s, e, c) ==
    LET rec == s.records[e]
        dropped == IF c \in SparseComp THEN [s EXCEPT !.sparse[c] = Without(@, e)] ELSE s
        kept == [d \in Columns(rec.arch) \ {c} |-> RowValues(s, rec)[d]]
    IN Fresh(dropped, e, rec, rec.arch \ {c}, kept)

(* An entity holds what it held, overwritten with what was resolved.       *)
LEMMA InsertedFacts ==
    ASSUME NEW s, Whole(s), NEW e \in DOMAIN s.records, NEW data \in Cells,
           NEW t, t = InsertedFresh(s, e, data)
    PROVE  /\ Whole(t) /\ DOMAIN t.records = DOMAIN s.records
           /\ What(t, e) = Merge(What(s, e), ResolveData(data))
           /\ \A x \in DOMAIN s.records \ {e} : What(t, x) = What(s, x)
<1> DEFINE values == ResolveData(data)
           old == s.records[e].arch
           arch == old \cup DOMAIN values
           row == RowValues(s, s.records[e])
           result == Merge(What(s, e), values)
           X == DOMAIN s.records
<1>1. values \in Cells /\ DOMAIN values \subseteq Component
    BY ResolveFacts, PartialFacts DEF Cells
<1>2. /\ Shape(s) /\ Rows(s, X) /\ InitCap <= s.capacity /\ e \in Handle /\ old \in Archetype
      /\ SparseFits(s, e) /\ s.capacity \in Nat /\ InitCap \in Nat
    BY StoreAssumption, FieldFacts DEF Whole, Shape, StoreAssumption
<1>3. arch \in Archetype
    BY <1>1, <1>2 DEF Archetype
<1>4. row \in Cells /\ DOMAIN row = Columns(old)
    BY <1>2, RowValuesType
<1>5. /\ DOMAIN result = arch /\ result = [c \in DOMAIN result |-> result[c]]
      /\ \A c \in arch : result[c] = IF c \in DOMAIN values THEN values[c] ELSE What(s, e)[c]
    BY MergeFacts DEF What, Merge
<1>6. /\ \A c \in Columns(old) : What(s, e)[c] = row[c]
      /\ \A c \in old \cap SparseComp : What(s, e)[c] = s.sparse[c][e] /\ e \in DOMAIN s.sparse[c]
      /\ \A c \in SparseComp : e \in DOMAIN s.sparse[c] => c \in old
    BY <1>2, WhatIs DEF SparseFits
<1>7. \A c \in Columns(arch) : c \in DOMAIN values \/ c \in Columns(old)
    BY DEF Columns
<1> HIDE DEF values, arch, row, result, X
<1>8. CASE data = Nothing
    <2>1. t = s
        BY <1>8 DEF InsertedFresh
    <2>2. DOMAIN values = {}
        BY <1>8 DEF ResolveData, Nothing, values
    <2>3. arch = old
        BY <2>2 DEF arch
    <2>4. What(s, e) = result
        BY <1>5, <2>2, <2>3 DEF What
    <2> QED BY <2>1, <2>4 DEF result, values
<1>9. CASE data # Nothing /\ arch = old
    <2>1. t = WriteValues(s, s.records[e], e, values)
        BY <1>9 DEF InsertedFresh, arch, values
    <2>2. Written(s, t, X, e, values)
        BY <1>1, <1>2, <2>1, WriteRows DEF X
    <2>3. /\ Shape(t) /\ t.capacity = s.capacity /\ t.records = s.records /\ Rows(t, X)
          /\ \A x \in X \ {e} : Same(s, t, x)
          /\ \A x : x # e => SameSparse(s, t, x)
          /\ RowValues(t, t.records[e]) = Rewritten(old, values, row)
          /\ \A c \in SparseComp :
                IF c \in DOMAIN values
                THEN e \in DOMAIN t.sparse[c] /\ t.sparse[c][e] = values[c]
                ELSE t.sparse[c] = s.sparse[c]
        BY <2>2 DEF Written, row
    <2>4. /\ \A x \in Handle \ {e} : SparseFits(t, x)
          /\ \A x \in DOMAIN s.records \ {e} : What(t, x) = What(s, x)
        BY <2>3, OthersKeep DEF X
    <2>5. SparseFits(t, e)
        <3> SUFFICES ASSUME NEW c \in SparseComp PROVE e \in DOMAIN t.sparse[c] <=> c \in old
            BY <2>3 DEF SparseFits
        <3>1. e \in DOMAIN s.sparse[c] <=> c \in old
            BY <1>2 DEF SparseFits
        <3>2. c \in DOMAIN values => c \in old
            BY <1>9 DEF arch
        <3> QED BY <2>3, <3>1, <3>2
    <2>6. What(t, e) = result
        <3>1. \A c \in Columns(old) : RowValues(t, t.records[e])[c] = result[c]
            <4>1. \A c \in Columns(old) : c \in arch
                BY <1>2, <1>9, ArchetypeFacts
            <4> QED BY <1>5, <1>6, <2>3, <4>1 DEF Rewritten
        <3>2. \A c \in old \cap SparseComp : t.sparse[c][e] = result[c]
            BY <1>5, <1>6, <1>9, <2>3
        <3> QED BY <1>2, <1>5, <1>9, <2>3, <3>1, <3>2, WhatEqual
    <2>7. Whole(t)
        BY <1>2, <2>3, <2>4, <2>5 DEF Whole, X
    <2> QED BY <2>3, <2>4, <2>6, <2>7 DEF result, values
<1>10. CASE data # Nothing /\ arch # old
    <2> DEFINE merged == Merge(row, values)
    <2>1. t = Fresh(s, e, s.records[e], arch, merged)
        BY <1>10 DEF InsertedFresh, arch, values, row
    <2>2. DOMAIN merged = Columns(old) \cup DOMAIN values
          /\ \A c \in DOMAIN merged : merged[c] = IF c \in DOMAIN values THEN values[c] ELSE row[c]
        <3>1. DOMAIN merged = DOMAIN row \cup DOMAIN values
              /\ \A c \in DOMAIN merged : merged[c] = IF c \in DOMAIN values THEN values[c] ELSE row[c]
            BY DEF Merge
        <3> QED BY <1>4, <3>1
    <2>3. merged \in Cells
        <3>1. (\A c \in DOMAIN values : values[c] \in Value) /\ (\A c \in Columns(old) : row[c] \in Value)
            BY <1>1, <1>4, PartialFacts DEF Cells
        <3>2. Columns(old) \subseteq Component
            BY <1>2 DEF Columns, Archetype
        <3>3. merged = [c \in DOMAIN merged |-> merged[c]]
            BY MergeFacts DEF Merge
        <3>4. DOMAIN merged \subseteq Component /\ \A c \in DOMAIN merged : merged[c] \in Value
            BY <1>1, <2>2, <3>1, <3>2
        <3> HIDE DEF merged
        <3>5. merged \in [DOMAIN merged -> Value]
            BY <3>3, <3>4
        <3> QED BY <3>4, <3>5 DEF Cells, Partial
    <2> HIDE DEF merged
    <2>4. Migrated(s, t, X, e, arch, merged)
        BY <1>2, <1>3, <2>1, <2>3, MigrateRows DEF X
    <2>5. /\ Shape(t) /\ InitCap <= t.capacity /\ DOMAIN t.records = X /\ Rows(t, X)
          /\ \A x \in X \ {e} : Same(s, t, x)
          /\ \A x : x # e => SameSparse(s, t, x)
          /\ t.records[e].arch = arch /\ RowValues(t, t.records[e]) = NewCells(arch, merged)
          /\ \A c \in SparseComp :
                IF c \in arch /\ c \in DOMAIN merged
                THEN e \in DOMAIN t.sparse[c] /\ t.sparse[c][e] = merged[c]
                ELSE /\ e \in DOMAIN t.sparse[c] <=> e \in DOMAIN s.sparse[c]
                     /\ e \in DOMAIN s.sparse[c] => t.sparse[c][e] = s.sparse[c][e]
        BY <2>4 DEF Migrated
    <2>6. /\ \A x \in Handle \ {e} : SparseFits(t, x)
          /\ \A x \in DOMAIN s.records \ {e} : What(t, x) = What(s, x)
        <3>1. /\ \A x \in Handle \ {e} : x \in DOMAIN t.records <=> x \in DOMAIN s.records
              /\ \A x \in DOMAIN s.records \ {e} : Same(s, t, x)
              /\ \A x : x # e => SameSparse(s, t, x)
            BY <2>5 DEF X
        <3> QED BY <3>1, OthersKeep
    <2>7. \A c \in SparseComp : c \in DOMAIN merged <=> c \in DOMAIN values
        BY <1>2, <2>2, ArchetypeFacts
    <2>8. SparseFits(t, e)
        <3> SUFFICES ASSUME NEW c \in SparseComp PROVE e \in DOMAIN t.sparse[c] <=> c \in arch
            BY <2>5 DEF SparseFits, X
        <3>1. e \in DOMAIN s.sparse[c] <=> c \in old
            BY <1>2 DEF SparseFits
        <3>2. c \in arch <=> c \in old \/ c \in DOMAIN values
            BY DEF arch
        <3> QED BY <2>5, <2>7, <3>1, <3>2
    <2>9. What(t, e) = result
        <3>1. \A c \in Columns(arch) : RowValues(t, t.records[e])[c] = result[c]
            <4> SUFFICES ASSUME NEW c \in Columns(arch) PROVE NewCells(arch, merged)[c] = result[c]
                BY <2>5
            <4>1. c \in arch /\ c \in DOMAIN merged
                BY <1>3, <1>7, <2>2, ArchetypeFacts
            <4>2. NewCells(arch, merged)[c] = merged[c]
                BY <4>1 DEF NewCells
            <4> QED BY <1>5, <1>6, <1>7, <2>2, <4>1, <4>2
        <3>2. \A c \in arch \cap SparseComp : t.sparse[c][e] = result[c]
            <4> SUFFICES ASSUME NEW c \in arch \cap SparseComp PROVE t.sparse[c][e] = result[c]
                OBVIOUS
            <4>1. CASE c \in DOMAIN values
                BY <1>5, <2>2, <2>5, <2>7, <4>1
            <4>2. CASE c \notin DOMAIN values
                <5>1. c \in old
                    BY <4>2 DEF arch
                <5> QED BY <1>5, <1>6, <2>5, <2>7, <4>2, <5>1
            <4> QED BY <4>1, <4>2
        <3> QED BY <1>3, <1>5, <2>5, <3>1, <3>2, WhatEqual
    <2>10. Whole(t)
        BY <2>5, <2>6, <2>8 DEF Whole, X
    <2> QED BY <2>5, <2>6, <2>9, <2>10 DEF result, values, X
<1> QED BY <1>8, <1>9, <1>10

(* An entity holds what it held, without the removed component.            *)
LEMMA RemovedFacts ==
    ASSUME NEW s, Whole(s), NEW e \in DOMAIN s.records, NEW d \in s.records[e].arch,
           NEW t, t = RemovedFresh(s, e, d)
    PROVE  /\ Whole(t) /\ DOMAIN t.records = DOMAIN s.records
           /\ What(t, e) = Without(What(s, e), d)
           /\ \A x \in DOMAIN s.records \ {e} : What(t, x) = What(s, x)
<1> DEFINE old == s.records[e].arch
           arch == old \ {d}
           row == RowValues(s, s.records[e])
           u == IF d \in SparseComp THEN [s EXCEPT !.sparse[d] = Without(@, e)] ELSE s
           kept == [c \in Columns(old) \ {d} |-> row[c]]
           result == Without(What(s, e), d)
           X == DOMAIN s.records
<1>1. /\ Shape(s) /\ s \in Fields /\ Rows(s, X) /\ InitCap <= s.capacity /\ e \in Handle /\ old \in Archetype
      /\ SparseFits(s, e) /\ s.sparse \in [SparseComp -> Partial(Handle, Value)]
    BY FieldFacts DEF Whole, Shape
<1>2. arch \in Archetype
    BY <1>1 DEF Archetype
<1>3. row \in Cells /\ DOMAIN row = Columns(old)
    BY <1>1, RowValuesType
<1>4. /\ DOMAIN result = arch /\ result = [c \in DOMAIN result |-> result[c]]
      /\ \A c \in arch : result[c] = What(s, e)[c]
    BY DEF What, Without
<1>5. /\ \A c \in Columns(old) : What(s, e)[c] = row[c]
      /\ \A c \in old \cap SparseComp : What(s, e)[c] = s.sparse[c][e] /\ e \in DOMAIN s.sparse[c]
      /\ \A c \in SparseComp : e \in DOMAIN s.sparse[c] <=> c \in old
    BY <1>1, WhatIs DEF SparseFits
<1>6. Columns(arch) = Columns(old) \ {d}
    BY DEF Columns
<1>7. kept \in Cells /\ DOMAIN kept = Columns(arch) /\ \A c \in Columns(arch) : kept[c] = row[c]
    <2>1. \A c \in Columns(old) : row[c] \in Value
        BY <1>3, PartialFacts DEF Cells
    <2>2. Columns(old) \subseteq Component
        BY <1>1 DEF Columns, Archetype
    <2> HIDE DEF row, old, arch
    <2>3. kept \in [Columns(old) \ {d} -> Value]
        BY <2>1
    <2>4. kept \in Cells
        <3> HIDE DEF kept
        <3> QED BY <2>2, <2>3 DEF Cells, Partial
    <2> QED BY <1>6, <2>4
<1>8. /\ Shape(u) /\ u.capacity = s.capacity /\ u.records = s.records /\ Rows(u, X)
      /\ \A x \in X : RowValues(u, u.records[x]) = RowValues(s, s.records[x])
      /\ \A c \in SparseComp : u.sparse[c] = IF c = d THEN Without(s.sparse[c], e) ELSE s.sparse[c]
    <2>1. CASE d \notin SparseComp
        BY <1>1, <2>1
    <2>2. CASE d \in SparseComp
        <3> DEFINE sparse == [s.sparse EXCEPT ![d] = Without(s.sparse[d], e)]
        <3>1. s.sparse[d] \in Partial(Handle, Value)
            BY <1>1, <2>2
        <3>2. Without(s.sparse[d], e) \in Partial(Handle, Value)
            BY <3>1, WithoutPartial
        <3>3. sparse \in [SparseComp -> Partial(Handle, Value)]
            BY <1>1, <3>2
        <3>4. u = [s EXCEPT !.sparse = sparse]
            BY <2>2
        <3>5. \A c \in SparseComp : sparse[c] = IF c = d THEN Without(s.sparse[c], e) ELSE s.sparse[c]
            BY <1>1
        <3> HIDE DEF sparse, u
        <3>6. /\ u \in Fields /\ u.capacity = s.capacity /\ u.records = s.records
              /\ u.entities = s.entities /\ u.table = s.table /\ u.sparse = sparse
            BY <1>1, <3>3, <3>4 DEF Fields
        <3> QED BY <1>1, <3>5, <3>6 DEF Shape, Rows, RowValues
    <2> QED BY <2>1, <2>2
<1>9. t = Fresh(u, e, u.records[e], arch, kept)
    BY <1>8 DEF RemovedFresh
<1> HIDE DEF arch, row, u, kept, result, X
<1>10. \A x : x # e => SameSparse(s, u, x)
    <2> SUFFICES ASSUME NEW x, x # e, NEW c \in SparseComp
                 PROVE  /\ x \in DOMAIN u.sparse[c] <=> x \in DOMAIN s.sparse[c]
                        /\ x \in DOMAIN s.sparse[c] => u.sparse[c][x] = s.sparse[c][x]
        BY DEF SameSparse
    <2>1. u.sparse[c] = s.sparse[c] \/ u.sparse[c] = Without(s.sparse[c], e)
        BY <1>8
    <2> QED BY <2>1 DEF Without
<1>11. \A x \in X \ {e} : Same(s, u, x)
    BY <1>8, <1>10 DEF Same, X
<1>12. \A c \in SparseComp : /\ e \in DOMAIN u.sparse[c] <=> c \in arch
                             /\ c \in arch => u.sparse[c][e] = s.sparse[c][e]
    <2> SUFFICES ASSUME NEW c \in SparseComp
                 PROVE  (e \in DOMAIN u.sparse[c] <=> c \in arch) /\ (c \in arch => u.sparse[c][e] = s.sparse[c][e])
        OBVIOUS
    <2>1. CASE c = d
        BY <1>8, <2>1 DEF Without, arch
    <2>2. CASE c # d
        BY <1>5, <1>8, <2>2 DEF arch
    <2> QED BY <2>1, <2>2
<1>13. Migrated(u, t, X, e, arch, kept)
    <2>1. X = DOMAIN u.records /\ e \in X /\ InitCap <= u.capacity
        BY <1>1, <1>8 DEF X
    <2> QED BY <1>2, <1>7, <1>8, <1>9, <2>1, MigrateRows
<1>14. /\ Shape(t) /\ InitCap <= t.capacity /\ DOMAIN t.records = X /\ Rows(t, X)
       /\ \A x \in X \ {e} : Same(u, t, x)
       /\ \A x : x # e => SameSparse(u, t, x)
       /\ t.records[e].arch = arch /\ RowValues(t, t.records[e]) = NewCells(arch, kept)
       /\ \A c \in SparseComp :
             IF c \in arch /\ c \in DOMAIN kept
             THEN e \in DOMAIN t.sparse[c] /\ t.sparse[c][e] = kept[c]
             ELSE /\ e \in DOMAIN t.sparse[c] <=> e \in DOMAIN u.sparse[c]
                  /\ e \in DOMAIN u.sparse[c] => t.sparse[c][e] = u.sparse[c][e]
    BY <1>13 DEF Migrated
<1>15. /\ \A x \in Handle \ {e} : SparseFits(t, x)
       /\ \A x \in DOMAIN s.records \ {e} : What(t, x) = What(s, x)
    <2>1. /\ \A x \in Handle \ {e} : x \in DOMAIN t.records <=> x \in DOMAIN s.records
          /\ \A x \in DOMAIN s.records \ {e} : Same(s, t, x)
          /\ \A x : x # e => SameSparse(s, t, x)
        BY <1>10, <1>11, <1>14, SameTransitive DEF X
    <2> QED BY <2>1, OthersKeep
<1>16. \A c \in SparseComp : c \notin DOMAIN kept
    BY <1>2, <1>7, ArchetypeFacts
<1>17. SparseFits(t, e)
    BY <1>12, <1>14, <1>16 DEF SparseFits, X
<1>18. What(t, e) = result
    <2>1. \A c \in Columns(arch) : RowValues(t, t.records[e])[c] = result[c]
        <3> SUFFICES ASSUME NEW c \in Columns(arch) PROVE NewCells(arch, kept)[c] = result[c]
            BY <1>14
        <3>1. c \in arch /\ c \in Columns(old) /\ c \in DOMAIN kept
            BY <1>2, <1>6, <1>7, ArchetypeFacts
        <3>2. NewCells(arch, kept)[c] = kept[c]
            BY <3>1 DEF NewCells
        <3> QED BY <1>4, <1>5, <1>7, <3>1, <3>2
    <2>2. \A c \in arch \cap SparseComp : t.sparse[c][e] = result[c]
        BY <1>4, <1>5, <1>12, <1>14, <1>16 DEF arch
    <2> QED BY <1>2, <1>4, <1>14, <2>1, <2>2, WhatEqual
<1>19. Whole(t)
    BY <1>14, <1>15, <1>17 DEF Whole, X
<1> QED BY <1>14, <1>15, <1>18, <1>19 DEF result, X

(* A despawned entity is gone, and nobody else is touched.                 *)
LEMMA DespawnedFacts ==
    ASSUME NEW s, Whole(s), NEW e \in DOMAIN s.records, NEW t, t = Despawned(s, e)
    PROVE  /\ Whole(t) /\ DOMAIN t.records = DOMAIN s.records \ {e}
           /\ \A x \in DOMAIN s.records \ {e} : What(t, x) = What(s, x)
<1> DEFINE X == DOMAIN s.records
           v == RemoveEntityFromArchetype(s, s.records[e].arch, e, s.records[e].row, TRUE, FALSE)
           records == Without(v.records, e)
<1>1. Shape(s) /\ Rows(s, X) /\ InitCap <= s.capacity /\ e \in Handle /\ SparseFits(s, e)
    BY FieldFacts DEF Whole, Shape
<1>2. t = [v EXCEPT !.records = records]
    BY DEF Despawned
<1> HIDE DEF v
<1>3. Evicted(s, v, X, e, TRUE)
    BY <1>1, EvictRows DEF v
<1>4. /\ Shape(v) /\ v.capacity = s.capacity /\ DOMAIN v.records = DOMAIN s.records /\ Rows(v, X \ {e})
      /\ \A x \in X \ {e} : Same(s, v, x)
      /\ \A x : x # e => SameSparse(s, v, x)
      /\ \A c \in SparseComp : e \in DOMAIN v.sparse[c] <=> e \in DOMAIN s.sparse[c] /\ c \notin s.records[e].arch
    BY <1>3 DEF Evicted
<1>5. v \in Fields /\ v.records \in Partial(Handle, Place)
    BY <1>4, FieldFacts DEF Shape
<1>6. records \in Partial(Handle, Place)
    BY <1>5, WithoutPartial
<1>7. DOMAIN records = X \ {e} /\ \A x \in X \ {e} : records[x] = v.records[x]
    BY <1>4 DEF Without
<1> HIDE DEF records, X
<1>8. /\ t \in Fields /\ t.capacity = v.capacity /\ t.entities = v.entities /\ t.table = v.table
      /\ t.sparse = v.sparse /\ t.records = records
    BY <1>2, <1>5, <1>6 DEF Fields
<1>9. Shape(t)
    BY <1>4, <1>8 DEF Shape
<1>10. Rows(t, X \ {e})
    <2>1. \A x \in X \ {e} : t.records[x] = v.records[x]
        BY <1>7, <1>8
    <2>2. ASSUME NEW a \in Archetype, NEW i \in 1 .. Len(t.entities[a])
          PROVE  t.entities[a][i] \in X \ {e} /\ t.records[t.entities[a][i]] = [arch |-> a, row |-> i]
        <3>1. v.entities[a][i] \in X \ {e} /\ v.records[v.entities[a][i]] = [arch |-> a, row |-> i]
            BY <1>4, <1>8 DEF Rows
        <3> QED BY <1>8, <2>1, <3>1
    <2>3. ASSUME NEW a \in Archetype, HasTable(a) PROVE Len(t.table[a]) = Len(t.entities[a])
        BY <1>4, <1>8, <2>3 DEF Rows
    <2>4. X \ {e} \subseteq DOMAIN t.records
        BY <1>7, <1>8
    <2>5. ASSUME NEW x \in X \ {e}
          PROVE  LET r == t.records[x] IN r.row \in 1 .. Len(t.entities[r.arch]) /\ t.entities[r.arch][r.row] = x
        BY <1>4, <1>8, <2>1 DEF Rows
    <2> QED BY <2>2, <2>3, <2>4, <2>5 DEF Rows
<1>11. \A x \in X \ {e} : Same(v, t, x)
    BY <1>7, <1>8 DEF Same, SameSparse, RowValues
<1>12. \A x : SameSparse(v, t, x)
    BY <1>8 DEF SameSparse
<1>13. /\ \A x \in Handle \ {e} : x \in DOMAIN t.records <=> x \in DOMAIN s.records
       /\ \A x \in DOMAIN s.records \ {e} : Same(s, t, x)
       /\ \A x : x # e => SameSparse(s, t, x)
    BY <1>4, <1>7, <1>8, <1>11, <1>12, SameTransitive DEF X
<1>14. /\ \A x \in Handle \ {e} : SparseFits(t, x)
       /\ \A x \in DOMAIN s.records \ {e} : What(t, x) = What(s, x)
    BY <1>13, OthersKeep
<1>15. SparseFits(t, e)
    BY <1>1, <1>4, <1>7, <1>8 DEF SparseFits
<1>16. Whole(t)
    BY <1>1, <1>4, <1>7, <1>8, <1>9, <1>10, <1>14, <1>15 DEF Whole
<1> QED BY <1>7, <1>8, <1>14, <1>16 DEF X

-----------------------------------------------------------------------------
(* When findOrCreate moves the archetypes, the entity list that is         *)
(* shortened is the abandoned one.  The records, the tables and the sparse *)
(* sets are shared, so the entities carry what they should all the same.   *)
Shares(s, t) == s.records = t.records /\ s.table = t.table /\ s.sparse = t.sparse

LEMMA MigrateShares ==
    ASSUME NEW s \in Fields, NEW e, NEW rec, NEW arch \in Archetype, rec.arch \in Archetype, rec.arch # arch,
           NEW values
    PROVE  Shares(Migrate(s, e, rec, arch, values), Fresh(s, e, rec, arch, values))
<1> DEFINE u == FindOrCreate(s, arch)
           v == RemoveEntityFromArchetype(u, rec.arch, e, rec.row, FALSE, Stale(s, arch))
           w == RemoveEntityFromArchetype(u, rec.arch, e, rec.row, FALSE, FALSE)
<1>1. u \in Fields /\ Stale(s, arch) \in BOOLEAN
    BY FindOrCreateFacts DEF Stale
<1>2. Shares(v, w) /\ v.entities[arch] = w.entities[arch]
    <2>1. PICK moved \in BOOLEAN : moved = Stale(s, arch)
        BY <1>1
    <2>2. /\ v = RemoveEntityFromArchetype(u, rec.arch, e, rec.row, FALSE, moved)
          /\ w = RemoveEntityFromArchetype(u, rec.arch, e, rec.row, FALSE, FALSE)
        BY <2>1
    <2>3. arch \in Archetype \ {rec.arch}
        OBVIOUS
    <2> HIDE DEF u, v, w
    <2>4. Shares(v, w) /\ \A a \in Archetype \ {rec.arch} : v.entities[a] = w.entities[a]
        BY <1>1, <2>2 DEF RemoveEntityFromArchetype, Shares, Fields
    <2> QED BY <2>3, <2>4
<1>3. Shares(AddEntityToArchetype(v, arch, e, values), AddEntityToArchetype(w, arch, e, values))
    <2>1. DOMAIN v = DOMAIN u /\ DOMAIN w = DOMAIN u
        BY DEF RemoveEntityFromArchetype
    <2>2. DOMAIN u = {"created", "capacity", "entities", "table", "sparse", "records"}
        BY <1>1 DEF Fields
    <2> HIDE DEF u, v, w
    <2> QED BY <1>2, <2>1, <2>2 DEF AddEntityToArchetype, Shares
<1> QED BY <1>3 DEF Migrate, Fresh

LEMMA InsertedShares ==
    ASSUME NEW s, Whole(s), NEW e \in DOMAIN s.records, NEW data \in Cells
    PROVE  Shares(Inserted(s, e, data), InsertedFresh(s, e, data))
<1> DEFINE values == ResolveData(data)
           old == s.records[e].arch
<1>1. s \in Fields /\ old \in Archetype /\ Record(s, e) = s.records[e]
    BY FieldFacts DEF Whole, Shape, Record
<1>2. old \cup DOMAIN values \in Archetype
    BY <1>1, ResolveFacts, PartialFacts DEF Cells, Archetype
<1>3. CASE data # Nothing /\ old \cup DOMAIN values # old
    <2>1. Shares(Migrate(s, e, s.records[e], old \cup DOMAIN values, Merge(RowValues(s, s.records[e]), values)),
                 Fresh(s, e, s.records[e], old \cup DOMAIN values, Merge(RowValues(s, s.records[e]), values)))
        BY <1>1, <1>2, <1>3, MigrateShares
    <2> QED BY <1>1, <1>3, <2>1 DEF Inserted, InsertedFresh
<1>4. CASE ~(data # Nothing /\ old \cup DOMAIN values # old)
    BY <1>1, <1>4 DEF Inserted, InsertedFresh, Shares
<1> QED BY <1>3, <1>4

LEMMA RemovedShares ==
    ASSUME NEW s, Whole(s), NEW e \in DOMAIN s.records, NEW c \in s.records[e].arch
    PROVE  Shares(Removed(s, e, c), RemovedFresh(s, e, c))
<1> DEFINE old == s.records[e].arch
           dropped == IF c \in SparseComp THEN [s EXCEPT !.sparse[c] = Without(@, e)] ELSE s
           kept == [d \in Columns(old) \ {c} |-> RowValues(s, s.records[e])[d]]
<1>1. s \in Fields /\ old \in Archetype
    BY FieldFacts DEF Whole, Shape
<1>2. old \ {c} \in Archetype /\ old # old \ {c}
    BY <1>1 DEF Archetype
<1>3. dropped \in Fields
    <2>1. CASE c \in SparseComp
        <3>1. s.sparse \in [SparseComp -> Partial(Handle, Value)]
            BY <1>1, FieldFacts
        <3>2. Without(s.sparse[c], e) \in Partial(Handle, Value)
            BY <2>1, <3>1, WithoutPartial
        <3> DEFINE sparse == [s.sparse EXCEPT ![c] = Without(s.sparse[c], e)]
        <3>3. sparse \in [SparseComp -> Partial(Handle, Value)]
            BY <3>1, <3>2
        <3>4. dropped = [s EXCEPT !.sparse = sparse]
            BY <2>1
        <3> HIDE DEF sparse, dropped
        <3> QED BY <1>1, <3>3, <3>4 DEF Fields
    <2>2. CASE c \notin SparseComp
        BY <1>1, <2>2
    <2> QED BY <2>1, <2>2
<1>4. Shares(Migrate(dropped, e, s.records[e], old \ {c}, kept), Fresh(dropped, e, s.records[e], old \ {c}, kept))
    <2> HIDE DEF dropped, kept
    <2> QED BY <1>1, <1>2, <1>3, MigrateShares
<1> QED BY <1>4 DEF Removed, RemovedFresh

(* Without a move they are the same. *)
LEMMA FreshUnlessStale ==
    ASSUME NEW s, NEW e \in DOMAIN s.records
    PROVE  /\ \A data : ~Stale(s, s.records[e].arch \cup DOMAIN ResolveData(data)) =>
                Inserted(s, e, data) = InsertedFresh(s, e, data)
           /\ \A c : ~Stale(s, s.records[e].arch \ {c}) => Removed(s, e, c) = RemovedFresh(s, e, c)
<1>1. ASSUME NEW data, ~Stale(s, s.records[e].arch \cup DOMAIN ResolveData(data))
      PROVE  Inserted(s, e, data) = InsertedFresh(s, e, data)
    <2>1. Record(s, e) = s.records[e] /\ Stale(s, s.records[e].arch \cup DOMAIN ResolveData(data)) = FALSE
        BY <1>1 DEF Record, Stale
    <2> QED BY <2>1 DEF Inserted, InsertedFresh, Migrate, Fresh
<1>2. ASSUME NEW c, ~Stale(s, s.records[e].arch \ {c})
      PROVE  Removed(s, e, c) = RemovedFresh(s, e, c)
    <2> DEFINE dropped == IF c \in SparseComp THEN [s EXCEPT !.sparse[c] = Without(@, e)] ELSE s
               a == s.records[e].arch \ {c}
    <2>1. Stale(dropped, a) = FALSE
        <3>1. dropped.created = s.created /\ dropped.capacity = s.capacity
            OBVIOUS
        <3> HIDE DEF dropped
        <3> QED BY <1>2, <3>1 DEF Stale
    <2> QED BY <2>1 DEF Removed, RemovedFresh, Migrate, Fresh
<1> QED BY <1>1, <1>2

LEMMA SharesWhat ==
    ASSUME NEW s, NEW t, Shares(s, t)
    PROVE  DOMAIN s.records = DOMAIN t.records /\ \A x : What(s, x) = What(t, x)
BY DEF Shares, What

(* What an Insert and a Remove leave, wherever the archetypes are.         *)
LEMMA InsertedWhat ==
    ASSUME NEW s, Whole(s), NEW e \in DOMAIN s.records, NEW data \in Cells, NEW t, t = Inserted(s, e, data)
    PROVE  /\ DOMAIN t.records = DOMAIN s.records
           /\ What(t, e) = Merge(What(s, e), ResolveData(data))
           /\ \A x \in DOMAIN s.records \ {e} : What(t, x) = What(s, x)
           /\ ~Stale(s, s.records[e].arch \cup DOMAIN ResolveData(data)) => Whole(t)
<1> DEFINE f == InsertedFresh(s, e, data)
<1>1. /\ Whole(f) /\ DOMAIN f.records = DOMAIN s.records
      /\ What(f, e) = Merge(What(s, e), ResolveData(data))
      /\ \A x \in DOMAIN s.records \ {e} : What(f, x) = What(s, x)
    BY InsertedFacts
<1>2. Shares(t, f)
    BY InsertedShares
<1>3. ~Stale(s, s.records[e].arch \cup DOMAIN ResolveData(data)) => t = f
    BY FreshUnlessStale
<1> HIDE DEF f
<1> QED BY <1>1, <1>2, <1>3, SharesWhat

LEMMA RemovedWhat ==
    ASSUME NEW s, Whole(s), NEW e \in DOMAIN s.records, NEW d \in s.records[e].arch, NEW t, t = Removed(s, e, d)
    PROVE  /\ DOMAIN t.records = DOMAIN s.records
           /\ What(t, e) = Without(What(s, e), d)
           /\ \A x \in DOMAIN s.records \ {e} : What(t, x) = What(s, x)
<1>0. PICK f : f = RemovedFresh(s, e, d)
    OBVIOUS
<1>1. /\ DOMAIN f.records = DOMAIN s.records
      /\ What(f, e) = Without(What(s, e), d)
      /\ \A x \in DOMAIN s.records \ {e} : What(f, x) = What(s, x)
    BY <1>0, RemovedFacts
<1>2. Shares(t, f)
    BY <1>0, RemovedShares
<1> QED BY <1>1, <1>2, SharesWhat

LEMMA RemovedWhole ==
    ASSUME NEW s, Whole(s), NEW e \in DOMAIN s.records, NEW d \in s.records[e].arch, NEW t, t = Removed(s, e, d),
           ~Stale(s, s.records[e].arch \ {d})
    PROVE  Whole(t)
<1>1. PICK f : f = RemovedFresh(s, e, d)
    OBVIOUS
<1>2. Whole(f)
    BY <1>1, RemovedFacts
<1>3. t = f
    BY <1>1, FreshUnlessStale
<1> QED BY <1>2, <1>3

(* An Insert for an entity without a record evicts the first row of the    *)
(* empty archetype: its entity has lost its place, but it carried nothing. *)
LEMMA UnplacedWhat ==
    ASSUME NEW s, Whole(s), NEW e \in Handle, e \notin DOMAIN s.records, NEW data \in Cells, data # Nothing,
           s.entities[Empty] # <<>>, NEW t, t = Inserted(s, e, data)
    PROVE  /\ DOMAIN t.records = DOMAIN s.records \cup {e}
           /\ What(t, e) = ResolveData(data)
           /\ \A x \in DOMAIN s.records : What(t, x) = What(s, x)
<1> DEFINE values == ResolveData(data)
           arch == DOMAIN values
           rec == [arch |-> Empty, row |-> 1]
           X == DOMAIN s.records
           u == FindOrCreate(s, arch)
           d == s.entities[Empty][1]
           v == RemoveEntityFromArchetype(u, Empty, d, 1, FALSE, FALSE)
           f == AddEntityToArchetype(v, arch, e, values)
<1>1. values \in Cells /\ arch \in Archetype /\ Empty \in Archetype
    <2>1. values \in Cells
        BY ResolveFacts
    <2> QED BY <2>1, PartialFacts DEF Cells, Archetype, Empty
<1>2. arch # Empty /\ values = [c \in arch |-> values[c]]
    <2>1. data \in [DOMAIN data -> Value]
        BY PartialFacts DEF Cells
    <2>2. DOMAIN data # {}
        BY <2>1 DEF Nothing
    <2> QED BY <2>2 DEF ResolveData, Empty
<1>3. /\ Shape(s) /\ s \in Fields /\ Rows(s, X) /\ InitCap <= s.capacity /\ \A x \in Handle : SparseFits(s, x)
      /\ X \subseteq Handle /\ \A x \in X : s.records[x].arch \in Archetype
    BY FieldFacts DEF Whole, Shape
<1>4. /\ ~HasTable(Empty) /\ Record(s, e) = rec /\ RowValues(s, rec) = Nothing
      /\ Merge(Nothing, values) = values
    <2>1. ~HasTable(Empty)
        BY DEF HasTable, Columns, Empty
    <2>2. Merge(Nothing, values) = [c \in arch |-> values[c]]
        BY DEF Merge, Nothing
    <2> HIDE DEF values, arch
    <2> QED BY <1>2, <2>1, <2>2 DEF Record, RowValues
<1>5. t = Migrate(s, e, rec, arch, values)
    <2>1. Empty \cup arch = arch
        BY DEF Empty
    <2>2. data # Nothing /\ Record(s, e) = rec /\ rec.arch = Empty
        BY <1>4
    <2>3. PICK r : r = Record(s, e)
        OBVIOUS
    <2>4. Inserted(s, e, data) = IF r.arch \cup DOMAIN values = r.arch THEN WriteValues(s, r, e, values)
                                 ELSE Migrate(s, e, r, r.arch \cup DOMAIN values, Merge(RowValues(s, r), values))
        BY <2>2, <2>3 DEF Inserted
    <2> HIDE DEF values, rec
    <2> QED BY <1>2, <1>4, <2>1, <2>2, <2>3, <2>4
<1>6. Fresh(s, e, rec, arch, values) = f
    <2> HIDE DEF values, arch, u
    <2> QED BY DEF Fresh, RemoveEntityFromArchetype, u
<1>7. Shares(t, f)
    <2>1. rec.arch = Empty
        OBVIOUS
    <2> HIDE DEF rec, arch, values, f
    <2> QED BY <1>1, <1>2, <1>3, <1>5, <1>6, <2>1, MigrateShares
<1> HIDE DEF values, arch
<1>8. /\ Shape(u) /\ u \in Fields /\ Rows(u, X) /\ u.records = s.records /\ u.entities = s.entities
      /\ \A x \in X : Same(s, u, x)
      /\ \A x : SameSparse(s, u, x)
    BY <1>1, <1>3, CreateRows, FindOrCreateFacts DEF Shape
<1>9. d \in X /\ s.records[d] = rec /\ 1 \in 1 .. Len(s.entities[Empty])
    <2>1. s.entities[Empty] \in Seq(Handle)
        BY <1>1, <1>3, FieldFacts
    <2>2. 1 \in 1 .. Len(s.entities[Empty])
        BY <2>1
    <2> QED BY <1>1, <1>3, <2>2 DEF Rows
<1> HIDE DEF u, d, X
<1>10. v = RemoveEntityFromArchetype(u, u.records[d].arch, d, u.records[d].row, FALSE, FALSE)
    BY <1>8, <1>9
<1>11. /\ v.records[d].arch = Empty /\ DOMAIN v.records = X
       /\ \A x \in X : v.records[x].arch = s.records[x].arch
    <2>1. EvictedFields(u, v, Empty, d, 1, FALSE)
        BY <1>1, <1>4, <1>8, <1>9, EvictFields
    <2>2. /\ DOMAIN v.records = DOMAIN u.records
          /\ \A x \in DOMAIN u.records : v.records[x].arch = u.records[x].arch
        BY <2>1 DEF EvictedFields
    <2>3. X = DOMAIN s.records /\ s.records[d].arch = Empty
        BY <1>9 DEF X
    <2> QED BY <1>8, <1>9, <2>2, <2>3
<1>12. /\ Shape(v) /\ Rows(v, X \ {d})
       /\ \A x \in X \ {d} : Same(u, v, x)
       /\ \A x : SameSparse(u, v, x)
    <2>1. Evicted(u, v, X, d, FALSE)
        BY <1>8, <1>9, <1>10, EvictRows
    <2> QED BY <2>1 DEF Evicted
<1> HIDE DEF v
<1>13. Added(v, f, X \ {d}, e, arch, values)
    <2>1. e \notin X \ {d}
        BY DEF X
    <2> QED BY <1>1, <1>12, <2>1, AddRows
<1>14. AddedFields(v, f, arch, e, values)
    <2>1. v \in Fields
        BY <1>12 DEF Shape
    <2> QED BY <1>1, <2>1, AddFields
<1> HIDE DEF f
<1>15. DOMAIN f.records = X \cup {e} /\ f.records[d].arch = Empty /\ d # e
    BY <1>9, <1>11, <1>14 DEF AddedFields, With, X
<1>16. What(f, e) = values
    <2>1. f.records[e].arch = arch /\ RowValues(f, f.records[e]) = NewCells(arch, values)
          /\ \A c \in SparseComp : c \in arch => f.sparse[c][e] = values[c]
        BY <1>13 DEF Added, arch
    <2>2. DOMAIN values = arch
        BY DEF arch
    <2>3. \A c \in Columns(arch) : RowValues(f, f.records[e])[c] = values[c]
        BY <1>1, <2>1, <2>2, ArchetypeFacts DEF NewCells
    <2>4. \A c \in arch \cap SparseComp : f.sparse[c][e] = values[c]
        BY <2>1
    <2> QED BY <1>1, <1>2, <2>1, <2>2, <2>3, <2>4, WhatEqual
<1>17. ASSUME NEW x \in X PROVE What(f, x) = What(s, x)
    <2>1. CASE x = d
        <3>1. What(f, x) = [c \in {} |-> 0] /\ What(s, x) = [c \in {} |-> 0]
            BY <1>9, <1>15, <2>1 DEF What, Empty
        <3> QED BY <3>1
    <2>2. CASE x # d
        <3>1. Same(s, u, x) /\ Same(u, v, x) /\ Same(v, f, x)
            BY <1>8, <1>12, <1>13, <2>2 DEF Added
        <3>2. Same(s, f, x)
            BY <3>1, SameTransitive
        <3> QED BY <3>2, SameKeeps DEF X
    <2> QED BY <2>1, <2>2
<1>18. DOMAIN t.records = DOMAIN f.records /\ \A x : What(t, x) = What(f, x)
    BY <1>7, SharesWhat
<1> QED BY <1>15, <1>16, <1>17, <1>18 DEF X, values

(* The store of an empty World. *)
LEMMA InitWhole == StoreInit => Whole(store) /\ DOMAIN store.records = {}
<1> SUFFICES ASSUME StoreInit PROVE Whole(store) /\ DOMAIN store.records = {}
    OBVIOUS
<1>1. /\ store.created = {Empty} /\ store.capacity = InitCap
      /\ store.entities = [arch \in Archetype |-> <<>>] /\ store.table = [arch \in Archetype |-> <<>>]
      /\ store.sparse = [c \in SparseComp |-> Nothing] /\ store.records = Nothing
    BY DEF StoreInit
<1>2. \A D, R : Nothing \in Partial(D, R)
    <2> SUFFICES ASSUME NEW D, NEW R PROVE Nothing \in Partial(D, R)
        OBVIOUS
    <2>1. Nothing \in [{} -> R] /\ {} \in SUBSET D
        BY DEF Nothing
    <2> QED BY <2>1 DEF Partial
<1>3. DOMAIN Nothing = {}
    BY DEF Nothing
<1>4. store \in Fields
    <2>1. {Empty} \in SUBSET Archetype /\ InitCap \in Nat
        BY StoreAssumption DEF StoreAssumption, Archetype, Empty
    <2>2. /\ [arch \in Archetype |-> <<>>] \in [Archetype -> Seq(Handle)]
          /\ [arch \in Archetype |-> <<>>] \in [Archetype -> Seq(Cells)]
        OBVIOUS
    <2>3. [c \in SparseComp |-> Nothing] \in [SparseComp -> Partial(Handle, Value)]
        BY <1>2
    <2> QED BY <1>2, <2>1, <2>2, <2>3 DEF StoreInit, Fields
<1>5. \A arch \in Archetype : Len(store.entities[arch]) = 0 /\ Len(store.table[arch]) = 0
    BY <1>1
<1>6. Shape(store)
    BY <1>4, <1>5 DEF Shape
<1>7. Rows(store, {})
    BY <1>5 DEF Rows
<1>8. \A x \in Handle : SparseFits(store, x)
    BY <1>1, <1>3 DEF SparseFits
<1>9. InitCap <= store.capacity
    BY <1>1, StoreAssumption DEF StoreAssumption
<1> QED BY <1>1, <1>3, <1>6, <1>7, <1>8, <1>9 DEF Whole

(* The store's part of StoreAgrees. *)
LEMMA WholeConsistent ==
    ASSUME Whole(store), \A e \in DOMAIN store.records : IsAlive(e)
    PROVE  StoreAgrees
<1>1. Rows(store, DOMAIN store.records) /\ store \in Fields /\ \A x \in Handle : SparseFits(store, x)
    BY DEF Whole, Shape
<1>2. DOMAIN store.records \subseteq Handle /\ \A c \in SparseComp : DOMAIN store.sparse[c] \subseteq Handle
    BY <1>1, FieldFacts
<1>3. \A c \in SparseComp :
        DOMAIN store.sparse[c] = {e \in DOMAIN store.records : c \in store.records[e].arch}
    BY <1>1, <1>2 DEF SparseFits
<1> QED BY <1>1, <1>3 DEF StoreAgrees, Rows

-----------------------------------------------------------------------------
N == Len(ExecOrder)
B(i) == buffer[ExecOrder[i]]

Command == [op : {"spawn", "insert"}, target : Handle, data : DataSets]
           \cup [op : {"remove"}, target : Handle, comp : Component]
           \cup [op : {"despawn"}, target : Handle]

FlushTypeOK ==
    /\ buffer \in [System -> Seq(Command)]
    /\ phase \in {"run", "flush"}
    /\ at \in Nat \ {0}
    /\ phase = "run" => at \in 1 .. N
    /\ load \in Workloads
    /\ flushOrder \in FlushOrders

RecordsLive == \A e \in DOMAIN store.records : e \in issued /\ IsAlive(e)

TargetsIssued == \A i \in 1 .. N : \A k \in 1 .. Len(B(i)) : B(i)[k].target \in issued

SpawnsReserved ==
    \A i \in 1 .. N : \A k \in 1 .. Len(B(i)) :
        B(i)[k].op = "spawn" =>
            B(i)[k].target \notin DOMAIN store.records /\ (IsAlive(B(i)[k].target) \/ B(i)[k].target \in Reached)

ReservedSpawns ==
    \A e \in issued : IsAlive(e) /\ e \notin DOMAIN store.records =>
        \E i \in 1 .. N : \E k \in 1 .. Len(B(i)) : B(i)[k].op = "spawn" /\ B(i)[k].target = e

SpawnsOnce ==
    \A i, j \in 1 .. N : \A k \in 1 .. Len(B(i)) : \A l \in 1 .. Len(B(j)) :
        B(i)[k].op = "spawn" /\ B(j)[l].op = "spawn" /\ B(j)[l].target = B(i)[k].target => i = j /\ k = l

(* Flushed in execution order, the systems that have not run yet, or are   *)
(* flushed already, have nothing pending, and of the pending commands on   *)
(* an entity its spawn is the first to come.                               *)
OthersIdle ==
    /\ phase = "run" => \A j \in 1 .. N : j > at => Len(B(j)) = 0
    /\ phase = "flush" => \A j \in 1 .. N : j < at => Len(B(j)) = 0

SpawnFirst ==
    \A i, j \in 1 .. N : \A k \in 1 .. Len(B(i)) : \A l \in 1 .. Len(B(j)) :
        B(i)[k].op = "spawn" /\ B(j)[l].target = B(i)[k].target =>
            i < j \/ (i = j /\ k <= l)

InOrder == flushOrder = ExecOrder => OthersIdle /\ SpawnFirst

FInv ==
    /\ IInv
    /\ Whole(store)
    /\ FlushTypeOK
    /\ RecordsLive
    /\ TargetsIssued
    /\ SpawnsReserved
    /\ ReservedSpawns
    /\ SpawnsOnce
    /\ InOrder

(* The invariant: all of that while the World is whole, and always what    *)
(* the calls that came too early had to do with it.                        *)
GInv ==
    /\ broken = "no" => FInv
    /\ flushOrder = ExecOrder => \A r \in reached : r.by = "call"
    /\ broken \in {"panicked", "unplaced", "revived"} => reached # {}

-----------------------------------------------------------------------------
(* An allocation hands out a new live handle and touches no other.         *)
LEMMA AllocateAlive ==
    ASSUME IInv, NEW e \in Handle, Allocate(e)
    PROVE  /\ IInv' /\ e \notin issued /\ issued' = issued \cup {e} /\ IsAlive(e)'
           /\ \A d \in issued : IsAlive(d)' <=> IsAlive(d)
<1>1. IInv'
    BY ReuseIInv, ExtendIInv DEF Allocate
<1>2. CASE Reuse(e)
    <2> DEFINE n == Len(freeList)
    <2>1. /\ n \in 1 .. n /\ freeList[n] \in Slots /\ freeList[n] < size
          /\ e = NewEntity(freeList[n], generations[freeList[n]])
          /\ size' = size /\ generations' = generations /\ issued' = issued \cup {e}
        BY <1>2 DEF Reuse, IInv, TypeOK, FreeListConsistent
    <2>2. e \notin issued
        BY <2>1 DEF IInv, FreshOnReuse
    <2>3. e.index = freeList[n] /\ e.generation = generations[freeList[n]] /\ e.generation \in 1 .. MaxGen
        BY <2>1 DEF NewEntity, IInv, TrackedGenerations
    <2>4. IsAlive(e)'
        BY <2>1, <2>3 DEF IsAlive, Null, NewEntity
    <2> QED BY <1>1, <2>1, <2>2, <2>4 DEF IsAlive
<1>3. CASE Extend(e)
    <2>1. /\ size \in Nat /\ size \in Slots /\ e = NewEntity(size, 1) /\ generations \in [Slots -> Generation]
          /\ size' = size + 1 /\ generations' = [generations EXCEPT ![size] = 1] /\ issued' = issued \cup {e}
        <3>1. /\ e = NewEntity(size, 1) /\ size' = size + 1
              /\ generations' = [generations EXCEPT ![size] = 1] /\ issued' = issued \cup {e} /\ size < MaxSlots
            BY <1>3 DEF Extend
        <3>2. generations \in [Slots -> Generation] /\ size \in 0 .. MaxSlots
            BY DEF IInv, TypeOK
        <3>3. size \in Nat /\ size \in Slots
            BY <3>1, <3>2 DEF Slots
        <3> QED BY <3>1, <3>2, <3>3
    <2>2. e.index = size /\ e.generation = 1
        BY <2>1 DEF NewEntity
    <2>3. \A d \in issued : d \in Handle /\ d.index < size /\ d.index \in Slots /\ d.index \in Nat
        BY DEF IInv, FreshOnReuse, TypeOK, Handle, Slots
    <2>4. e \notin issued
        BY <2>1, <2>2, <2>3
    <2>5. IsAlive(e)'
        BY <2>1, <2>2 DEF IsAlive, Null, NewEntity
    <2>6. ASSUME NEW d \in issued PROVE IsAlive(d)' <=> IsAlive(d)
        BY <2>1, <2>3 DEF IsAlive
    <2> QED BY <1>1, <2>1, <2>4, <2>5, <2>6
<1> QED BY <1>2, <1>3 DEF Allocate

(* A free kills its handle and no other.                                   *)
LEMMA FreeAlive ==
    ASSUME IInv, NEW e \in issued, Free(e)
    PROVE  /\ IInv' /\ issued' = issued /\ ~IsAlive(e)'
           /\ \A d \in issued \ {e} : IsAlive(d)' <=> IsAlive(d)
<1>1. IInv' /\ issued' = issued
    BY FreeIInv DEF Free
<1>2. \A d \in issued : /\ d \in Handle /\ d.index \in Slots /\ d.index < size
                        /\ d.generation \in Nat /\ d.generation <= generations[d.index]
                        /\ d = NewEntity(d.index, d.generation)
    BY DEF IInv, IssuedReached, TypeOK, Handle, Generation, NewEntity
<1>3. /\ generations[e.index] = e.generation /\ size' = size /\ generations \in [Slots -> Generation]
      /\ e.generation \in 1 .. MaxGen - 1
      /\ generations' = [generations EXCEPT ![e.index] = (generations[e.index] + 1) % GenMod]
    <2>1. /\ generations[e.index] = e.generation /\ size' = size /\ e.generation < MaxGen
          /\ generations' = [generations EXCEPT ![e.index] = (generations[e.index] + 1) % GenMod]
        BY DEF Free
    <2>2. generations \in [Slots -> Generation] /\ 1 <= e.generation
        BY DEF IInv, TypeOK, IssuedReached
    <2>3. e.generation \in 1 .. MaxGen - 1
        BY <1>2, <2>1, <2>2
    <2> QED BY <2>1, <2>2, <2>3
<1>4. generations'[e.index] = e.generation + 1
    <2> DEFINE g == e.generation
    <2>1. generations'[e.index] = (g + 1) % GenMod
        BY <1>2, <1>3
    <2>2. g \in 1 .. MaxGen - 1
        BY <1>3
    <2> HIDE DEF g
    <2>3. (g + 1) % GenMod = g + 1
        BY <2>2
    <2>4. generations'[e.index] = g + 1
        BY <2>1, <2>3
    <2> QED BY <2>4 DEF g
<1>5. ~IsAlive(e)'
    BY <1>2, <1>4 DEF IsAlive
<1>6. ASSUME NEW d \in issued \ {e} PROVE IsAlive(d)' <=> IsAlive(d)
    <2>1. CASE d.index # e.index
        BY <1>2, <1>3, <2>1 DEF IsAlive
    <2>2. CASE d.index = e.index
        <3>1. d.generation # e.generation
            BY <1>2, <2>2
        <3>2. d.generation < e.generation
            BY <1>2, <1>3, <2>2, <3>1
        <3>3. ~IsAlive(d) /\ ~IsAlive(d)'
            BY <1>2, <1>3, <1>4, <2>2, <3>2 DEF IsAlive
        <3> QED BY <3>3
    <2> QED BY <2>1, <2>2
<1> QED BY <1>1, <1>5, <1>6

-----------------------------------------------------------------------------
(* The buffers after a step. *)
NB(i) == buffer'[ExecOrder[i]]

Pushed(cmd) ==
    /\ buffer' \in [System -> Seq(Command)]
    /\ \A i \in 1 .. N : i # at => NB(i) = B(i)
    /\ Len(NB(at)) = Len(B(at)) + 1
    /\ NB(at)[Len(B(at)) + 1] = cmd
    /\ \A k \in 1 .. Len(B(at)) : NB(at)[k] = B(at)[k]

(* The buffer that is being flushed is f's. *)
Popped(f) ==
    /\ buffer' \in [System -> Seq(Command)]
    /\ \A i \in 1 .. N : i # f => NB(i) = B(i)
    /\ Len(NB(f)) = Len(B(f)) - 1
    /\ \A k \in 1 .. Len(NB(f)) : NB(f)[k] = B(f)[k + 1]

LEMMA BufferFacts ==
    ASSUME FlushTypeOK
    PROVE  /\ N \in Nat \ {0}
           /\ \A i \in 1 .. N : ExecOrder[i] \in System /\ B(i) \in Seq(Command) /\ Len(B(i)) \in Nat
           /\ \A i \in 1 .. N : \A k \in 1 .. Len(B(i)) : B(i)[k] \in Command
           /\ \A i, j \in 1 .. N : ExecOrder[i] = ExecOrder[j] => i = j
<1>1. /\ N \in Nat \ {0} /\ \A i, j \in 1 .. N : ExecOrder[i] = ExecOrder[j] => i = j
    BY FlushAssumption DEF FlushAssumption, N
<1>2. \A i \in 1 .. N : ExecOrder[i] \in System
    BY DEF System, N
<1>3. buffer \in [System -> Seq(Command)]
    BY DEF FlushTypeOK
<1>4. ASSUME NEW i \in 1 .. N PROVE B(i) \in Seq(Command) /\ Len(B(i)) \in Nat /\ \A k \in 1 .. Len(B(i)) : B(i)[k] \in Command
    <2>1. B(i) \in Seq(Command)
        BY <1>2, <1>3 DEF B
    <2> QED BY <2>1
<1> QED BY <1>1, <1>2, <1>4

LEMMA PushPushes ==
    ASSUME FlushTypeOK, NEW cmd \in Command, Push(cmd)
    PROVE  Pushed(cmd) /\ at \in 1 .. N
<1> DEFINE q == B(at)
<1>0. at \in 1 .. N
    BY DEF FlushTypeOK, Push, Running
<1>1. /\ buffer' = [buffer EXCEPT ![ExecOrder[at]] = Append(B(at), cmd)]
      /\ buffer \in [System -> Seq(Command)]
    BY DEF Push, FlushTypeOK, B
<1>2. /\ ExecOrder[at] \in System /\ q \in Seq(Command)
      /\ \A i \in 1 .. N : ExecOrder[i] \in System
      /\ \A i \in 1 .. N : i # at => ExecOrder[i] # ExecOrder[at]
    BY <1>0, BufferFacts
<1>3. /\ Append(q, cmd) \in Seq(Command) /\ Len(Append(q, cmd)) = Len(q) + 1
      /\ Append(q, cmd)[Len(q) + 1] = cmd /\ \A k \in 1 .. Len(q) : Append(q, cmd)[k] = q[k]
    <2> HIDE DEF q
    <2> QED BY <1>2, AppendFacts
<1>4. NB(at) = Append(q, cmd)
    BY <1>1, <1>2 DEF NB
<1>5. buffer' \in [System -> Seq(Command)]
    BY <1>1, <1>2, <1>3
<1>6. \A i \in 1 .. N : i # at => NB(i) = B(i)
    BY <1>1, <1>2 DEF NB, B
<1> QED BY <1>0, <1>3, <1>4, <1>5, <1>6 DEF Pushed

LEMMA TailFacts ==
    ASSUME NEW S, NEW q \in Seq(S), q # <<>>
    PROVE  /\ Tail(q) \in Seq(S) /\ Len(Tail(q)) = Len(q) - 1 /\ Len(q) \in Nat \ {0}
           /\ \A k \in 1 .. Len(q) - 1 : Tail(q)[k] = q[k + 1]
           /\ Head(q) = q[1] /\ 1 \in 1 .. Len(q)
OBVIOUS

(* The buffer that a flush has come to is some system's, and that of the   *)
(* same position when the order is the execution order.                    *)
LEMMA FlushedBuffer ==
    ASSUME FlushTypeOK, Flushing
    PROVE  \E f \in 1 .. N : flushOrder[at] = ExecOrder[f] /\ Current = B(f) /\ (flushOrder = ExecOrder => f = at)
<1>1. flushOrder \in Seq(System) /\ at \in 1 .. Len(flushOrder)
    BY FlushAssumption DEF FlushAssumption, FlushTypeOK, Flushing
<1>2. flushOrder[at] \in System
    BY <1>1
<1>3. PICK f \in 1 .. N : ExecOrder[f] = flushOrder[at]
    BY <1>2 DEF System, N
<1>4. Current = B(f)
    BY <1>3 DEF Current, B
<1>5. flushOrder = ExecOrder => f = at
    BY <1>1, <1>3, BufferFacts DEF N
<1> QED BY <1>3, <1>4, <1>5

LEMMA PopPops ==
    ASSUME FlushTypeOK, Flushing, Current # <<>>,
           NEW f \in 1 .. N, flushOrder[at] = ExecOrder[f], Current = B(f)
    PROVE  /\ Len(B(f)) \in Nat \ {0} /\ 1 \in 1 .. Len(B(f)) /\ Cmd = B(f)[1] /\ Cmd \in Command
           /\ PopCommand => Popped(f)
<1> DEFINE q == B(f)
<1>1. buffer \in [System -> Seq(Command)]
    BY DEF FlushTypeOK
<1>2. /\ ExecOrder[f] \in System /\ q \in Seq(Command)
      /\ \A i \in 1 .. N : ExecOrder[i] \in System
      /\ \A i \in 1 .. N : i # f => ExecOrder[i] # ExecOrder[f]
      /\ \A k \in 1 .. Len(q) : q[k] \in Command
    BY BufferFacts
<1>3. q # <<>>
    OBVIOUS
<1>4. /\ Tail(q) \in Seq(Command) /\ Len(Tail(q)) = Len(q) - 1 /\ Len(q) \in Nat \ {0}
      /\ \A k \in 1 .. Len(q) - 1 : Tail(q)[k] = q[k + 1]
      /\ Head(q) = q[1] /\ 1 \in 1 .. Len(q)
    <2> HIDE DEF q
    <2> QED BY <1>2, <1>3, TailFacts
<1>5. ASSUME PopCommand PROVE Popped(f)
    <2>1. buffer' = [buffer EXCEPT ![ExecOrder[f]] = Tail(q)]
        BY <1>5 DEF PopCommand, B
    <2>2. NB(f) = Tail(q)
        BY <1>1, <1>2, <2>1 DEF NB
    <2>3. buffer' \in [System -> Seq(Command)]
        BY <1>1, <1>2, <1>4, <2>1
    <2>4. \A i \in 1 .. N : i # f => NB(i) = B(i)
        BY <1>1, <1>2, <2>1 DEF NB, B
    <2> QED BY <1>4, <2>2, <2>3, <2>4 DEF Popped
<1>6. Cmd = q[1] /\ q[1] \in Command
    BY <1>2, <1>4 DEF Cmd
<1> QED BY <1>4, <1>5, <1>6

-----------------------------------------------------------------------------
(* A step that touches one entity.                                         *)
OnlyTouches(e) ==
    /\ IInv'
    /\ Whole(store')
    /\ issued \subseteq issued' /\ issued' \subseteq issued \cup {e}
    /\ \A x \in issued \ {e} :
        /\ IsAlive(x)' <=> IsAlive(x)
        /\ x \in DOMAIN store'.records <=> x \in DOMAIN store.records
    /\ e \in DOMAIN store'.records => IsAlive(e)'
    /\ DOMAIN store'.records \subseteq issued'
    /\ reached \subseteq reached'

(* It gives the entity neither a place nor life, and takes the life of one *)
(* that is reserved only when that is recorded.                            *)
TakesAway(e) ==
    /\ e \in DOMAIN store'.records => e \in DOMAIN store.records
    /\ IsAlive(e)' => IsAlive(e)
    /\ IsAlive(e)' /\ e \notin DOMAIN store'.records => e \notin DOMAIN store.records
    /\ IsAlive(e) /\ e \notin DOMAIN store.records => IsAlive(e)' \/ e \in Reached'

(* What such a step leaves of the records. *)
LEMMA TouchedRecords ==
    ASSUME FInv, NEW e, OnlyTouches(e)
    PROVE  RecordsLive'
<1> SUFFICES ASSUME NEW x \in DOMAIN store'.records PROVE x \in issued' /\ IsAlive(x)'
    BY DEF RecordsLive
<1>1. x \in issued'
    BY DEF OnlyTouches
<1>2. CASE x = e
    BY <1>1, <1>2 DEF OnlyTouches
<1>3. CASE x # e
    BY <1>1, <1>3 DEF OnlyTouches, FInv, RecordsLive
<1> QED BY <1>1, <1>2, <1>3

(* Whom it leaves waiting for a spawn command. *)
LEMMA TouchedReserved ==
    ASSUME NEW e, OnlyTouches(e), NEW x \in issued,
           x # e \/ TakesAway(e),
           x \notin DOMAIN store.records, IsAlive(x) \/ x \in Reached
    PROVE  x \notin DOMAIN store'.records /\ (IsAlive(x)' \/ x \in Reached')
<1>1. x \in Reached => x \in Reached'
    BY DEF OnlyTouches, Reached
<1>2. CASE x # e
    BY <1>1, <1>2 DEF OnlyTouches
<1>3. CASE x = e
    BY <1>1, <1>3 DEF TakesAway
<1> QED BY <1>2, <1>3

LEMMA TouchedWaiting ==
    ASSUME NEW e, OnlyTouches(e), e \in DOMAIN store'.records \/ (e \in issued /\ TakesAway(e)),
           NEW x \in issued', IsAlive(x)', x \notin DOMAIN store'.records
    PROVE  x \in issued /\ IsAlive(x) /\ x \notin DOMAIN store.records
<1>1. CASE x # e
    BY <1>1 DEF OnlyTouches
<1>2. CASE x = e
    BY <1>2 DEF TakesAway
<1> QED BY <1>1, <1>2

(* A call from outside the buffers: a Spawn of a new entity, or a call on  *)
(* one that was issued.                                                    *)
LEMMA DirectFInv ==
    ASSUME FInv, NEW e, OnlyTouches(e), UNCHANGED <<flushOrder, buffer, phase, at, load>>,
           (e \notin issued /\ e \in DOMAIN store'.records) \/ (e \in issued /\ TakesAway(e))
    PROVE  FInv'
<1>1. /\ buffer' = buffer /\ phase' = phase /\ at' = at
      /\ load' = load /\ flushOrder' = flushOrder
    OBVIOUS
<1>2. IInv' /\ Whole(store') /\ RecordsLive'
    BY TouchedRecords DEF OnlyTouches
<1>3. FlushTypeOK' /\ InOrder' /\ SpawnsOnce'
    <2>1. FlushTypeOK'
        BY <1>1 DEF FInv, FlushTypeOK
    <2>2. OthersIdle <=> OthersIdle'
        BY <1>1 DEF OthersIdle, B
    <2>3. SpawnFirst <=> SpawnFirst'
        BY <1>1 DEF SpawnFirst, B
    <2>4. SpawnsOnce <=> SpawnsOnce'
        BY <1>1 DEF SpawnsOnce, B
    <2> QED BY <1>1, <2>1, <2>2, <2>3, <2>4 DEF FInv, InOrder
<1>4. \A i \in 1 .. N : \A k \in 1 .. Len(B(i)) : B(i)[k].target \in issued
    BY DEF FInv, TargetsIssued
<1>5. TargetsIssued'
    BY <1>1, <1>4 DEF TargetsIssued, B, OnlyTouches
<1>6. SpawnsReserved'
    <2> SUFFICES ASSUME NEW i \in 1 .. N, NEW k \in 1 .. Len(B(i)), B(i)[k].op = "spawn"
                 PROVE  (B(i)[k].target)' \notin DOMAIN store'.records
                        /\ (IsAlive(B(i)[k].target)' \/ (B(i)[k].target \in Reached)')
        BY <1>1 DEF SpawnsReserved, B
    <2>1. PICK x : x = B(i)[k].target
        OBVIOUS
    <2>2. x \in issued /\ (IsAlive(x) \/ x \in Reached) /\ x \notin DOMAIN store.records
        BY <1>4, <2>1 DEF FInv, SpawnsReserved
    <2>3. x \notin DOMAIN store'.records /\ (IsAlive(x)' \/ x \in Reached')
        BY <2>2, TouchedReserved
    <2>4. B(i)[k].target' = x
        BY <1>1, <2>1 DEF B
    <2> QED BY <2>1, <2>3, <2>4 DEF IsAlive
<1>7. ReservedSpawns'
    <2> SUFFICES ASSUME NEW x \in issued', IsAlive(x)', x \notin DOMAIN store'.records
                 PROVE  \E i \in 1 .. N : \E k \in 1 .. Len(B(i)) : B(i)[k].op = "spawn" /\ B(i)[k].target = x
        BY <1>1 DEF ReservedSpawns, B
    <2>1. x \in issued /\ IsAlive(x) /\ x \notin DOMAIN store.records
        BY TouchedWaiting
    <2> QED BY <2>1 DEF FInv, ReservedSpawns
<1> QED BY <1>2, <1>3, <1>5, <1>6, <1>7 DEF FInv

-----------------------------------------------------------------------------
(* In execution order, the command at the head of the flush comes before   *)
(* every other one, so a pending spawn of its entity is that command       *)
(* itself.                                                                 *)
LEMMA HeadFirst ==
    ASSUME FInv, Flushing, flushOrder = ExecOrder, at \in 1 .. N, Len(B(at)) \in Nat \ {0},
           NEW i \in 1 .. N, NEW k \in 1 .. Len(B(i)),
           B(i)[k].op = "spawn", B(at)[1].target = B(i)[k].target
    PROVE  i = at /\ k = 1
<1>1. FlushTypeOK /\ OthersIdle /\ SpawnFirst /\ phase = "flush"
    BY DEF FInv, InOrder, Flushing
<1>2. Len(B(i)) \in Nat /\ N \in Nat
    BY <1>1, BufferFacts
<1>3. 1 \in 1 .. Len(B(at))
    OBVIOUS
<1>4. i < at \/ (i = at /\ k <= 1)
    BY <1>1, <1>2, <1>3 DEF SpawnFirst
<1>5. i < at => Len(B(i)) = 0
    BY <1>1 DEF OthersIdle
<1> QED BY <1>2, <1>4, <1>5

LEMMA PopFInv ==
    ASSUME FInv, Flushing, Current # <<>>, PopCommand,
           UNCHANGED <<flushOrder, phase, at, load>>,
           NEW e, e \in issued, e = Cmd.target, OnlyTouches(e),
           (Cmd.op = "spawn" /\ e \in DOMAIN store'.records) \/ (Cmd.op # "spawn" /\ TakesAway(e))
    PROVE  FInv'
<1>1. FlushTypeOK /\ InOrder /\ TargetsIssued /\ SpawnsReserved /\ ReservedSpawns /\ SpawnsOnce /\ phase = "flush"
    BY DEF FInv, Flushing
<1>2. PICK f \in 1 .. N : flushOrder[at] = ExecOrder[f] /\ Current = B(f) /\ (flushOrder = ExecOrder => f = at)
    BY <1>1, FlushedBuffer
<1>3. Popped(f) /\ Len(B(f)) \in Nat \ {0} /\ 1 \in 1 .. Len(B(f)) /\ B(f)[1] = Cmd
    BY <1>1, <1>2, PopPops
<1>4. /\ N \in Nat \ {0} /\ f \in 1 .. N /\ at' = at /\ phase' = phase /\ flushOrder' = flushOrder
      /\ \A i \in 1 .. N : Len(B(i)) \in Nat
    BY <1>1, BufferFacts
<1>5. /\ buffer' \in [System -> Seq(Command)] /\ \A i \in 1 .. N : i # f => NB(i) = B(i)
      /\ Len(NB(f)) = Len(B(f)) - 1 /\ \A k \in 1 .. Len(NB(f)) : NB(f)[k] = B(f)[k + 1]
    BY <1>3 DEF Popped
<1>6. ASSUME NEW i \in 1 .. N, NEW k \in 1 .. Len(NB(i))
      PROVE  \E m \in 1 .. Len(B(i)) : NB(i)[k] = B(i)[m] /\ m = (IF i = f THEN k + 1 ELSE k) /\ ~(i = f /\ m = 1)
    <2>1. CASE i # f
        <3>1. NB(i) = B(i) /\ k \in 1 .. Len(B(i))
            BY <1>5, <2>1
        <3> QED BY <2>1, <3>1
    <2>2. CASE i = f
        <3>1. k + 1 \in 1 .. Len(B(f)) /\ k + 1 # 1
            BY <1>3, <1>5, <2>2
        <3>2. NB(f)[k] = B(f)[k + 1]
            BY <1>5, <2>2
        <3> QED BY <2>2, <3>1, <3>2
    <2> QED BY <2>1, <2>2
<1>7. FlushTypeOK'
    <2>1. flushOrder' = flushOrder /\ load' = load
        OBVIOUS
    <2> QED BY <1>1, <1>4, <1>5, <2>1 DEF FlushTypeOK
<1>8. IInv' /\ Whole(store') /\ RecordsLive' /\ issued' = issued
    BY TouchedRecords DEF OnlyTouches
<1>9. TargetsIssued'
    <2>1. ASSUME NEW i \in 1 .. N, NEW k \in 1 .. Len(NB(i)) PROVE NB(i)[k].target \in issued
        <3>1. PICK m \in 1 .. Len(B(i)) : NB(i)[k] = B(i)[m]
            BY <1>6
        <3> QED BY <1>1, <3>1 DEF TargetsIssued
    <2> QED BY <1>8, <2>1 DEF TargetsIssued, B, NB
<1>10. SpawnsReserved'
    <2>1. ASSUME NEW i \in 1 .. N, NEW k \in 1 .. Len(NB(i)), NB(i)[k].op = "spawn", NEW x, x = NB(i)[k].target
          PROVE  x \notin DOMAIN store'.records /\ (IsAlive(x)' \/ x \in Reached')
        <3>1. PICK m \in 1 .. Len(B(i)) : NB(i)[k] = B(i)[m] /\ ~(i = f /\ m = 1)
            BY <1>6
        <3>2. x \in issued /\ x \notin DOMAIN store.records /\ (IsAlive(x) \/ x \in Reached)
            BY <1>1, <2>1, <3>1 DEF TargetsIssued, SpawnsReserved
        <3>3. x # e \/ TakesAway(e)
            <4>1. CASE Cmd.op = "spawn"
                BY <1>1, <1>3, <2>1, <3>1, <4>1 DEF SpawnsOnce
            <4>2. CASE Cmd.op # "spawn"
                BY <4>2
            <4> QED BY <4>1, <4>2
        <3> QED BY <3>2, <3>3, TouchedReserved
    <2> QED BY <2>1 DEF SpawnsReserved, B, NB, IsAlive
<1>11. ReservedSpawns'
    <2>1. ASSUME NEW x \in issued', IsAlive(x)', x \notin DOMAIN store'.records
          PROVE  \E i \in 1 .. N : \E k \in 1 .. Len(NB(i)) : NB(i)[k].op = "spawn" /\ NB(i)[k].target = x
        <3>1. x \in issued /\ IsAlive(x) /\ x \notin DOMAIN store.records /\ (Cmd.op = "spawn" => x # e)
            BY <2>1, TouchedWaiting
        <3>2. PICK i \in 1 .. N : \E k \in 1 .. Len(B(i)) : B(i)[k].op = "spawn" /\ B(i)[k].target = x
            BY <1>1, <3>1 DEF ReservedSpawns
        <3>3. PICK k \in 1 .. Len(B(i)) : B(i)[k].op = "spawn" /\ B(i)[k].target = x
            BY <3>2
        <3>4. CASE i # f
            BY <1>5, <3>3, <3>4
        <3>5. CASE i = f
            <4>1. k # 1
                BY <1>3, <3>1, <3>3, <3>5
            <4>2. k - 1 \in 1 .. Len(NB(f)) /\ NB(f)[k - 1] = B(f)[k - 1 + 1] /\ k - 1 + 1 = k
                BY <1>3, <1>5, <3>5, <4>1
            <4> QED BY <3>3, <3>5, <4>2
        <3> QED BY <3>4, <3>5
    <2> QED BY <2>1 DEF ReservedSpawns, B, NB
<1>12. SpawnsOnce'
    <2>1. ASSUME NEW i \in 1 .. N, NEW j \in 1 .. N, NEW k \in 1 .. Len(NB(i)), NEW l \in 1 .. Len(NB(j)),
                 NB(i)[k].op = "spawn", NB(j)[l].op = "spawn", NB(j)[l].target = NB(i)[k].target
          PROVE  i = j /\ k = l
        <3>1. PICK m \in 1 .. Len(B(i)) : NB(i)[k] = B(i)[m] /\ m = (IF i = f THEN k + 1 ELSE k)
            BY <1>6
        <3>2. PICK n \in 1 .. Len(B(j)) : NB(j)[l] = B(j)[n] /\ n = (IF j = f THEN l + 1 ELSE l)
            BY <1>6
        <3>3. i = j /\ m = n
            BY <1>1, <2>1, <3>1, <3>2 DEF SpawnsOnce
        <3>4. k \in Int /\ l \in Int
            OBVIOUS
        <3> QED BY <3>1, <3>2, <3>3, <3>4
    <2> QED BY <2>1 DEF SpawnsOnce, B, NB
<1>13. ASSUME flushOrder' = ExecOrder PROVE OthersIdle' /\ SpawnFirst'
    <2>1. OthersIdle /\ SpawnFirst /\ f = at
        BY <1>1, <1>2, <1>4, <1>13 DEF InOrder
    <2>2. OthersIdle'
        <3>1. ASSUME NEW j \in 1 .. N, j < at PROVE Len(NB(j)) = 0
            <4>1. j # f
                BY <1>4, <2>1, <3>1
            <4>2. Len(B(j)) = 0
                BY <1>1, <2>1, <3>1 DEF OthersIdle
            <4> QED BY <1>5, <4>1, <4>2
        <3> QED BY <1>1, <1>4, <3>1 DEF OthersIdle, B, NB
    <2>3. ASSUME NEW i \in 1 .. N, NEW j \in 1 .. N, NEW k \in 1 .. Len(NB(i)), NEW l \in 1 .. Len(NB(j)),
                 NB(i)[k].op = "spawn", NB(j)[l].target = NB(i)[k].target
          PROVE  i < j \/ (i = j /\ k <= l)
        <3>1. PICK m \in 1 .. Len(B(i)) : NB(i)[k] = B(i)[m] /\ m = (IF i = f THEN k + 1 ELSE k)
            BY <1>6
        <3>2. PICK n \in 1 .. Len(B(j)) : NB(j)[l] = B(j)[n] /\ n = (IF j = f THEN l + 1 ELSE l)
            BY <1>6
        <3>3. i < j \/ (i = j /\ m <= n)
            BY <2>1, <2>3, <3>1, <3>2 DEF SpawnFirst
        <3>4. k \in Int /\ l \in Int
            OBVIOUS
        <3> QED BY <3>1, <3>2, <3>3, <3>4
    <2>4. SpawnFirst'
        BY <2>3 DEF SpawnFirst, B, NB
    <2> QED BY <2>2, <2>4
<1>14. InOrder'
    BY <1>13 DEF InOrder
<1> QED BY <1>7, <1>8, <1>9, <1>10, <1>11, <1>12, <1>14 DEF FInv

(* A push goes to the end of the running system's buffer, and a spawn that *)
(* is pushed names an entity nobody has named before.                      *)
LEMMA PushFInv ==
    ASSUME FInv, NEW cmd \in Command, Push(cmd), IInv', NEW e, e = cmd.target,
           \/ cmd.op # "spawn" /\ e \in issued /\ UNCHANGED allocVars
           \/ /\ cmd.op = "spawn" /\ e \notin issued /\ issued' = issued \cup {e} /\ IsAlive(e)'
              /\ \A d \in issued : IsAlive(d)' <=> IsAlive(d)
    PROVE  FInv'
<1>1. FlushTypeOK /\ InOrder /\ TargetsIssued /\ SpawnsReserved /\ ReservedSpawns /\ SpawnsOnce
      /\ RecordsLive /\ Whole(store)
    BY DEF FInv
<1>2. Pushed(cmd) /\ at \in 1 .. N
    BY <1>1, PushPushes
<1>3. /\ phase = "run" /\ flushOrder' = flushOrder /\ phase' = phase /\ at' = at
      /\ reached' = reached /\ load' = load /\ store' = store /\ Reached' = Reached
    BY DEF Push, Running, Reached
<1>4. /\ N \in Nat \ {0} /\ at \in 1 .. N /\ \A i \in 1 .. N : Len(B(i)) \in Nat
    BY <1>1, <1>2, BufferFacts
<1>5. /\ buffer' \in [System -> Seq(Command)] /\ \A i \in 1 .. N : i # at => NB(i) = B(i)
      /\ Len(NB(at)) = Len(B(at)) + 1 /\ NB(at)[Len(B(at)) + 1] = cmd
      /\ \A k \in 1 .. Len(B(at)) : NB(at)[k] = B(at)[k]
    BY <1>2 DEF Pushed
<1>6. ASSUME NEW i \in 1 .. N, NEW k \in 1 .. Len(NB(i))
      PROVE  \/ k \in 1 .. Len(B(i)) /\ NB(i)[k] = B(i)[k]
             \/ i = at /\ k = Len(B(at)) + 1 /\ NB(i)[k] = cmd
    <2>1. CASE i # at
        BY <1>5, <2>1
    <2>2. CASE i = at
        <3>1. k \in 1 .. Len(B(at)) \/ k = Len(B(at)) + 1
            BY <1>4, <1>5, <2>2
        <3> QED BY <1>5, <2>2, <3>1
    <2> QED BY <2>1, <2>2
<1>7. /\ issued \subseteq issued' /\ issued' \subseteq issued \cup {e} /\ e \in issued'
      /\ \A d \in issued : IsAlive(d)' <=> IsAlive(d)
      /\ \A d \in issued' \ issued : cmd.op = "spawn" /\ d = e
      /\ cmd.op = "spawn" => IsAlive(e)' /\ e \notin issued
    BY DEF allocVars, IsAlive
<1>8. FlushTypeOK'
    BY <1>1, <1>3, <1>4, <1>5 DEF FlushTypeOK
<1>9. RecordsLive' /\ Whole(store')
    BY <1>1, <1>3, <1>7 DEF RecordsLive
<1>10. TargetsIssued'
    <2>1. ASSUME NEW i \in 1 .. N, NEW k \in 1 .. Len(NB(i)) PROVE NB(i)[k].target \in issued'
        BY <1>1, <1>6, <1>7 DEF TargetsIssued
    <2> QED BY <2>1 DEF TargetsIssued, B, NB
<1>11. SpawnsReserved'
    <2>1. ASSUME NEW i \in 1 .. N, NEW k \in 1 .. Len(NB(i)), NB(i)[k].op = "spawn", NEW x, x = NB(i)[k].target
          PROVE  (IsAlive(x)' \/ x \in Reached) /\ x \notin DOMAIN store.records
        <3>1. CASE k \in 1 .. Len(B(i)) /\ NB(i)[k] = B(i)[k]
            <4>1. x \in issued /\ (IsAlive(x) \/ x \in Reached) /\ x \notin DOMAIN store.records
                BY <1>1, <2>1, <3>1 DEF TargetsIssued, SpawnsReserved
            <4> QED BY <1>7, <4>1
        <3>2. CASE NB(i)[k] = cmd
            <4>1. x = e /\ IsAlive(e)' /\ e \notin issued
                BY <1>7, <2>1, <3>2
            <4> QED BY <1>1, <4>1 DEF RecordsLive
        <3> QED BY <1>6, <3>1, <3>2
    <2> QED BY <1>3, <2>1 DEF SpawnsReserved, B, NB, IsAlive
<1>12. ReservedSpawns'
    <2>1. ASSUME NEW x \in issued', IsAlive(x)', x \notin DOMAIN store.records
          PROVE  \E i \in 1 .. N : \E k \in 1 .. Len(NB(i)) : NB(i)[k].op = "spawn" /\ NB(i)[k].target = x
        <3>1. CASE x \in issued
            <4>1. IsAlive(x)
                BY <1>7, <2>1, <3>1
            <4>2. PICK i \in 1 .. N : \E k \in 1 .. Len(B(i)) : B(i)[k].op = "spawn" /\ B(i)[k].target = x
                BY <1>1, <2>1, <3>1, <4>1 DEF ReservedSpawns
            <4>3. PICK k \in 1 .. Len(B(i)) : B(i)[k].op = "spawn" /\ B(i)[k].target = x
                BY <4>2
            <4>4. k \in 1 .. Len(NB(i)) /\ NB(i)[k] = B(i)[k]
                <5>1. CASE i = at
                    BY <1>4, <1>5, <5>1
                <5>2. CASE i # at
                    BY <1>5, <5>2
                <5> QED BY <5>1, <5>2
            <4> QED BY <4>3, <4>4
        <3>2. CASE x \notin issued
            <4>1. cmd.op = "spawn" /\ cmd.target = x
                BY <1>7, <2>1, <3>2
            <4>2. Len(B(at)) + 1 \in 1 .. Len(NB(at))
                BY <1>4, <1>5
            <4> QED BY <1>4, <1>5, <4>1, <4>2
        <3> QED BY <3>1, <3>2
    <2> QED BY <1>3, <2>1 DEF ReservedSpawns, B, NB
<1>13. SpawnsOnce'
    <2>1. ASSUME NEW i \in 1 .. N, NEW j \in 1 .. N, NEW k \in 1 .. Len(NB(i)), NEW l \in 1 .. Len(NB(j)),
                 NB(i)[k].op = "spawn", NB(j)[l].op = "spawn", NB(j)[l].target = NB(i)[k].target
          PROVE  i = j /\ k = l
        <3>1. CASE k \in 1 .. Len(B(i)) /\ NB(i)[k] = B(i)[k] /\ l \in 1 .. Len(B(j)) /\ NB(j)[l] = B(j)[l]
            BY <1>1, <2>1, <3>1 DEF SpawnsOnce
        <3>2. CASE k \in 1 .. Len(B(i)) /\ NB(i)[k] = B(i)[k] /\ NB(j)[l] = cmd
            <4>1. e \notin issued /\ B(i)[k].target = e
                BY <1>7, <2>1, <3>2
            <4> QED BY <1>1, <3>2, <4>1 DEF TargetsIssued
        <3>3. CASE l \in 1 .. Len(B(j)) /\ NB(j)[l] = B(j)[l] /\ NB(i)[k] = cmd
            <4>1. e \notin issued /\ B(j)[l].target = e
                BY <1>7, <2>1, <3>3
            <4> QED BY <1>1, <3>3, <4>1 DEF TargetsIssued
        <3>4. CASE i = at /\ k = Len(B(at)) + 1 /\ j = at /\ l = Len(B(at)) + 1
            BY <3>4
        <3> QED BY <1>6, <3>1, <3>2, <3>3, <3>4
    <2> QED BY <2>1 DEF SpawnsOnce, B, NB
<1>14. ASSUME flushOrder = ExecOrder PROVE OthersIdle' /\ SpawnFirst'
    <2>1. OthersIdle /\ SpawnFirst
        BY <1>1, <1>14 DEF InOrder
    <2>2. OthersIdle'
        <3>1. ASSUME NEW j \in 1 .. N, j > at PROVE Len(NB(j)) = 0
            <4>1. j # at
                BY <1>4, <3>1
            <4>2. Len(B(j)) = 0
                BY <1>3, <2>1, <3>1 DEF OthersIdle
            <4> QED BY <1>5, <4>1, <4>2
        <3> QED BY <1>3, <3>1 DEF OthersIdle, B, NB
    <2>3. ASSUME NEW i \in 1 .. N, NEW j \in 1 .. N, NEW k \in 1 .. Len(NB(i)), NEW l \in 1 .. Len(NB(j)),
                 NB(i)[k].op = "spawn", NB(j)[l].target = NB(i)[k].target
          PROVE  i < j \/ (i = j /\ k <= l)
        <3>1. CASE k \in 1 .. Len(B(i)) /\ NB(i)[k] = B(i)[k] /\ l \in 1 .. Len(B(j)) /\ NB(j)[l] = B(j)[l]
            BY <2>1, <2>3, <3>1 DEF SpawnFirst
        <3>2. CASE k \in 1 .. Len(B(i)) /\ NB(i)[k] = B(i)[k] /\ j = at /\ l = Len(B(at)) + 1
            <4>1. i <= at
                <5>1. i > at => Len(B(i)) = 0
                    BY <1>3, <2>1 DEF OthersIdle
                <5> QED BY <1>4, <3>2, <5>1
            <4> QED BY <1>4, <3>2, <4>1
        <3>3. CASE l \in 1 .. Len(B(j)) /\ NB(j)[l] = B(j)[l] /\ NB(i)[k] = cmd
            <4>1. e \notin issued /\ B(j)[l].target = e
                BY <1>7, <2>3, <3>3
            <4> QED BY <1>1, <3>3, <4>1 DEF TargetsIssued
        <3>4. CASE i = at /\ k = Len(B(at)) + 1 /\ j = at /\ l = Len(B(at)) + 1
            BY <1>4, <3>4
        <3> QED BY <1>6, <3>1, <3>2, <3>3, <3>4
    <2>4. SpawnFirst'
        BY <2>3 DEF SpawnFirst, B, NB
    <2> QED BY <2>2, <2>4
<1>15. InOrder'
    BY <1>3, <1>14 DEF InOrder
<1> QED BY <1>1, <1>8, <1>9, <1>10, <1>11, <1>12, <1>13, <1>15 DEF FInv

-----------------------------------------------------------------------------
(* What the entities of the store carry, as the abstract map sees it.      *)
Carried(s) == [x \in DOMAIN s.records |-> What(s, x)]

LEMMA CarriedIsContents ==
    /\ [e \in DOMAIN store.records |-> Stored(e)] = Carried(store)
    /\ [e \in DOMAIN store.records |-> Stored(e)]' = Carried(store')
<1>1. \A s : Carried(s) = [x \in DOMAIN s.records |->
                 [c \in s.records[x].arch |-> IF c \in TableComp THEN s.table[s.records[x].arch][s.records[x].row][c]
                                 ELSE s.sparse[c][x]]]
    BY DEF Carried, What
<1>2. [e \in DOMAIN store.records |-> Stored(e)] = Carried(store)
    BY <1>1 DEF Stored
<1>3. [e \in DOMAIN store.records |-> Stored(e)]' = Carried(store')
    BY <1>1 DEF Stored
<1> QED BY <1>2, <1>3

(* An entity gets a place. *)
LEMMA PutMove ==
    ASSUME NEW e, e \notin DOMAIN store.records, NEW data,
           DOMAIN store'.records = DOMAIN store.records \cup {e},
           What(store', e) = ResolveData(data),
           \A x \in DOMAIN store.records : What(store', x) = What(store, x)
    PROVE  Contents!Spawn(e, data)
<1>1. DOMAIN Carried(store) = DOMAIN store.records /\ \A x \in DOMAIN store.records : Carried(store)[x] = What(store, x)
    BY DEF Carried
<1>2. Carried(store') = [x \in DOMAIN Carried(store) \cup {e} |-> IF x = e THEN ResolveData(data) ELSE Carried(store)[x]]
    BY <1>1 DEF Carried
<1>3. e \notin DOMAIN Carried(store)
    BY <1>1
<1> QED BY <1>2, <1>3, CarriedIsContents DEF Contents!Spawn, Contents!Put

LEMMA SpawnMove ==
    ASSUME Whole(store), NEW e \in Handle, e \notin DOMAIN store.records, NEW data \in Cells,
           store' = Placed(store, e, data)
    PROVE  /\ Whole(store') /\ DOMAIN store'.records = DOMAIN store.records \cup {e}
           /\ Contents!Spawn(e, data)
<1> DEFINE s == store
           t == store'
<1>1. /\ Whole(t) /\ DOMAIN t.records = DOMAIN s.records \cup {e}
      /\ What(t, e) = ResolveData(data)
      /\ \A x \in DOMAIN s.records : What(t, x) = What(s, x)
    <2>1. Whole(s) /\ e \notin DOMAIN s.records /\ t = Placed(s, e, data)
        OBVIOUS
    <2> HIDE DEF s, t
    <2> QED BY <2>1, PlacedFacts
<1> QED BY <1>1, PutMove

LEMMA UnplacedMove ==
    ASSUME Whole(store), NEW e \in Handle, e \notin DOMAIN store.records, NEW data \in Cells, data # Nothing,
           store.entities[Empty] # <<>>, store' = Inserted(store, e, data)
    PROVE  Contents!Spawn(e, data)
<1> DEFINE s == store
           t == store'
<1>1. /\ DOMAIN t.records = DOMAIN s.records \cup {e}
      /\ What(t, e) = ResolveData(data)
      /\ \A x \in DOMAIN s.records : What(t, x) = What(s, x)
    <2>1. Whole(s) /\ e \notin DOMAIN s.records /\ s.entities[Empty] # <<>> /\ t = Inserted(s, e, data)
        OBVIOUS
    <2> HIDE DEF s, t
    <2> QED BY <2>1, UnplacedWhat
<1> QED BY <1>1, PutMove

(* A panic finds the store with an archetype more at most. *)
LEMMA PanickedMove ==
    ASSUME Whole(store), NEW arch, store' = FindOrCreate(store, arch)
    PROVE  UNCHANGED [e \in DOMAIN store.records |-> Stored(e)]
<1> DEFINE s == store
           t == store'
<1>1. t.records = s.records /\ t.table = s.table /\ t.sparse = s.sparse
    <2>1. t = FindOrCreate(s, arch) /\ s \in Fields
        BY DEF Whole, Shape
    <2> HIDE DEF s, t
    <2> QED BY <2>1 DEF FindOrCreate, Fields
<1> QED BY <1>1 DEF Stored

LEMMA InsertMove ==
    ASSUME Whole(store), NEW e \in DOMAIN store.records, NEW data \in Cells, store' = Inserted(store, e, data)
    PROVE  /\ DOMAIN store'.records = DOMAIN store.records
           /\ ~Stale(store, store.records[e].arch \cup DOMAIN ResolveData(data)) => Whole(store')
           /\ Contents!Insert(e, data)
<1> DEFINE s == store
           t == store'
           new == ResolveData(data)
           result == Merge(What(s, e), new)
<1>1. /\ DOMAIN t.records = DOMAIN s.records /\ e \in DOMAIN s.records
      /\ What(t, e) = result
      /\ \A x \in DOMAIN s.records \ {e} : What(t, x) = What(s, x)
      /\ ~Stale(s, s.records[e].arch \cup DOMAIN ResolveData(data)) => Whole(t)
    <2>1. Whole(s) /\ e \in DOMAIN s.records /\ t = Inserted(s, e, data)
        OBVIOUS
    <2> HIDE DEF s, t
    <2> QED BY <2>1, InsertedWhat
<1>2. Contents!Insert(e, data)
    <2> HIDE DEF s, t, result
    <2>1. DOMAIN Carried(s) = DOMAIN s.records /\ \A x \in DOMAIN s.records : Carried(s)[x] = What(s, x)
        BY DEF Carried
    <2>2. Carried(t) = [x \in DOMAIN Carried(s) \cup {e} |-> IF x = e THEN result ELSE Carried(s)[x]]
        BY <1>1, <2>1 DEF Carried
    <2>3. result = Contents!Overwrite(Carried(s)[e], new)
        BY <1>1, <2>1 DEF result, Merge, Contents!Overwrite
    <2>4. e \in DOMAIN Carried(store)
        BY <1>1, <2>1 DEF s
    <2>5. Carried(store') = [x \in DOMAIN Carried(store) \cup {e} |->
                                IF x = e THEN Contents!Overwrite(Carried(store)[e], new) ELSE Carried(store)[x]]
        BY <2>2, <2>3 DEF s, t
    <2> QED BY <2>4, <2>5, CarriedIsContents DEF Contents!Insert, Contents!Put
<1> QED BY <1>1, <1>2

LEMMA RemoveMove ==
    ASSUME Whole(store), NEW e \in DOMAIN store.records, NEW d \in store.records[e].arch,
           store' = Removed(store, e, d)
    PROVE  /\ DOMAIN store'.records = DOMAIN store.records
           /\ ~Stale(store, store.records[e].arch \ {d}) => Whole(store')
           /\ Contents!Remove(e, d)
<1>0. PICK s, t : s = store /\ t = store'
    OBVIOUS
<1> DEFINE result == Without(What(s, e), d)
<1>1. /\ DOMAIN t.records = DOMAIN s.records /\ e \in DOMAIN s.records
      /\ What(t, e) = result
      /\ \A x \in DOMAIN s.records \ {e} : What(t, x) = What(s, x)
      /\ ~Stale(s, s.records[e].arch \ {d}) => Whole(t)
    <2>1. Whole(s) /\ e \in DOMAIN s.records /\ d \in s.records[e].arch /\ t = Removed(s, e, d)
        BY <1>0
    <2>2. /\ DOMAIN t.records = DOMAIN s.records
          /\ What(t, e) = Without(What(s, e), d)
          /\ \A x \in DOMAIN s.records \ {e} : What(t, x) = What(s, x)
        BY <2>1, RemovedWhat
    <2>3. ~Stale(s, s.records[e].arch \ {d}) => Whole(t)
        BY <2>1, RemovedWhole
    <2> QED BY <2>1, <2>2, <2>3 DEF result
<1>2. Contents!Remove(e, d)
    <2>1. d \in DOMAIN What(s, e)
        BY <1>0 DEF What
    <2> HIDE DEF result
    <2>2. DOMAIN Carried(s) = DOMAIN s.records /\ \A x \in DOMAIN s.records : Carried(s)[x] = What(s, x)
        BY DEF Carried
    <2>3. Carried(t) = [x \in DOMAIN Carried(s) \cup {e} |-> IF x = e THEN result ELSE Carried(s)[x]]
        BY <1>1, <2>2 DEF Carried
    <2>4. result = [c \in DOMAIN Carried(s)[e] \ {d} |-> Carried(s)[e][c]] /\ d \in DOMAIN Carried(s)[e]
        BY <1>1, <2>1, <2>2 DEF result, Without
    <2>5. e \in DOMAIN Carried(store) /\ d \in DOMAIN Carried(store)[e]
        BY <1>0, <1>1, <2>2, <2>4
    <2>6. Carried(store') = [x \in DOMAIN Carried(store) \cup {e} |->
                                IF x = e THEN [c \in DOMAIN Carried(store)[e] \ {d} |-> Carried(store)[e][c]]
                                ELSE Carried(store)[x]]
        BY <1>0, <2>3, <2>4
    <2> QED BY <2>5, <2>6, CarriedIsContents DEF Contents!Remove, Contents!Put
<1> QED BY <1>0, <1>1, <1>2

LEMMA DespawnMove ==
    ASSUME Whole(store), NEW e \in DOMAIN store.records, store' = Despawned(store, e)
    PROVE  /\ Whole(store') /\ DOMAIN store'.records = DOMAIN store.records \ {e}
           /\ Contents!Despawn(e)
<1> DEFINE s == store
           t == store'
<1>1. /\ Whole(t) /\ DOMAIN t.records = DOMAIN s.records \ {e} /\ e \in DOMAIN s.records
      /\ \A x \in DOMAIN s.records \ {e} : What(t, x) = What(s, x)
    <2>1. Whole(s) /\ e \in DOMAIN s.records /\ t = Despawned(s, e)
        OBVIOUS
    <2> HIDE DEF s, t
    <2> QED BY <2>1, DespawnedFacts
<1>2. Contents!Despawn(e)
    <2> HIDE DEF s, t
    <2>1. DOMAIN Carried(s) = DOMAIN s.records /\ \A x \in DOMAIN s.records : Carried(s)[x] = What(s, x)
        BY DEF Carried
    <2>2. Carried(t) = [x \in DOMAIN Carried(s) \ {e} |-> Carried(s)[x]]
        BY <1>1, <2>1 DEF Carried
    <2>3. e \in DOMAIN Carried(store)
        BY <1>1, <2>1 DEF s
    <2>4. Carried(store') = [x \in DOMAIN Carried(store) \ {e} |-> Carried(store)[x]]
        BY <2>2 DEF s, t
    <2> QED BY <2>3, <2>4, CarriedIsContents DEF Contents!Despawn
<1> QED BY <1>1, <1>2

-----------------------------------------------------------------------------
(* A step keeps the invariant and is a step of the abstract map, or none.  *)
MapStep == [Contents!Next]_([e \in DOMAIN store.records |-> Stored(e)])
StepFine == GInv' /\ MapStep

Early == {"panicked", "unplaced", "revived"}

(* What a call on an issued entity does, whoever makes it. *)
CallFine(e, by) ==
    /\ MapStep
    /\ broken' = "no" => OnlyTouches(e) /\ TakesAway(e)
    /\ broken' \in Early => reached' # {}
    /\ \A r \in reached' : r \in reached \/ (r.by = by /\ IsAlive(e) /\ e \notin DOMAIN store.records)

LEMMA StoreSame == ASSUME UNCHANGED store PROVE UNCHANGED [e \in DOMAIN store.records |-> Stored(e)]
BY DEF Stored

LEMMA IssuedHandles == ASSUME FInv PROVE issued \subseteq Handle /\ FlushTypeOK
BY DEF FInv, IInv, TypeOK

LEMMA SpawnTouches ==
    ASSUME FInv, NEW e \in Handle, NEW data \in Cells, Spawn(e, data), reached' = reached
    PROVE  OnlyTouches(e) /\ e \notin issued /\ e \in DOMAIN store'.records /\ Contents!Spawn(e, data)
<1>1. IInv /\ Whole(store) /\ RecordsLive /\ Allocate(e) /\ store' = Placed(store, e, data)
    BY DEF FInv, Spawn
<1>2. /\ IInv' /\ e \notin issued /\ issued' = issued \cup {e} /\ IsAlive(e)'
      /\ \A d \in issued : IsAlive(d)' <=> IsAlive(d)
    BY <1>1, AllocateAlive
<1>3. e \notin DOMAIN store.records
    BY <1>1, <1>2 DEF RecordsLive
<1>4. /\ Whole(store') /\ DOMAIN store'.records = DOMAIN store.records \cup {e}
      /\ Contents!Spawn(e, data)
    BY <1>1, <1>3, SpawnMove
<1>5. DOMAIN store'.records \subseteq issued'
    BY <1>1, <1>2, <1>4 DEF RecordsLive
<1> QED BY <1>2, <1>4, <1>5 DEF OnlyTouches

LEMMA RecordedTouches ==
    ASSUME FInv, NEW e, e \in issued, UNCHANGED allocVars, Whole(store'), reached \subseteq reached',
           DOMAIN store'.records = DOMAIN store.records \/ DOMAIN store'.records = DOMAIN store.records \cup {e},
           e \in DOMAIN store'.records => IsAlive(e)
    PROVE  OnlyTouches(e)
<1>1. IInv /\ RecordsLive
    BY DEF FInv
<1>2. issued' = issued /\ \A d : IsAlive(d)' <=> IsAlive(d)
    BY DEF allocVars, IsAlive
<1>3. IInv'
    BY <1>1, NextIInv
<1>4. DOMAIN store'.records \subseteq issued'
    BY <1>1, <1>2 DEF RecordsLive
<1> QED BY <1>2, <1>3, <1>4 DEF OnlyTouches

(* A call that leaves the records and the allocator alone.                 *)
LEMMA KeepsPlace ==
    ASSUME NEW e, UNCHANGED allocVars, DOMAIN store'.records = DOMAIN store.records
    PROVE  TakesAway(e)
<1>1. IsAlive(e)' <=> IsAlive(e)
    BY DEF allocVars, IsAlive
<1> QED BY <1>1 DEF TakesAway

LEMMA CallInsertFine ==
    ASSUME FInv, NEW e, e \in issued, NEW data \in DataSets, data \in Cells, NEW by, CallInsert(e, data, by)
    PROVE  CallFine(e, by)
<1>1. /\ data # Nothing /\ IsAlive(e) /\ UNCHANGED allocVars /\ e \in Handle /\ Whole(store)
      /\ store' = IF Panics(e, data) THEN FindOrCreate(store, DOMAIN ResolveData(data)) ELSE Inserted(store, e, data)
      /\ Reach(e, by)
    BY IssuedHandles DEF CallInsert, Insert, FInv
<1>2. CASE e \in DOMAIN store.records
    <2>1. /\ store' = Inserted(store, e, data) /\ reached' = reached
          /\ broken' = Migrating(store.records[e].arch \cup DOMAIN ResolveData(data))
        BY <1>1, <1>2 DEF Panics, HasRecord, Reach, CallInsert
    <2>2. /\ DOMAIN store'.records = DOMAIN store.records
          /\ ~Stale(store, store.records[e].arch \cup DOMAIN ResolveData(data)) => Whole(store')
          /\ Contents!Insert(e, data)
        BY <1>1, <1>2, <2>1, InsertMove
    <2>3. MapStep
        BY <1>1, <2>2 DEF MapStep, Contents!Next
    <2>4. broken' \notin Early /\ (broken' = "no" => Whole(store'))
        BY <2>1, <2>2 DEF Migrating, Early
    <2>5. broken' = "no" => OnlyTouches(e) /\ TakesAway(e)
        BY <1>1, <1>2, <2>1, <2>2, <2>4, RecordedTouches, KeepsPlace
    <2> QED BY <2>1, <2>3, <2>4, <2>5 DEF CallFine
<1>3. CASE e \notin DOMAIN store.records
    <2>1. /\ reached' = reached \cup {[target |-> e, by |-> by]} /\ broken' # "no"
          /\ store' = IF store.entities[Empty] = <<>> THEN FindOrCreate(store, DOMAIN ResolveData(data))
                      ELSE Inserted(store, e, data)
        BY <1>1, <1>3 DEF Panics, HasRecord, Reach, CallInsert
    <2>2. MapStep
        <3>1. CASE store.entities[Empty] = <<>>
            BY <1>1, <2>1, <3>1, PanickedMove DEF MapStep
        <3>2. CASE store.entities[Empty] # <<>>
            <4>1. Contents!Spawn(e, data)
                BY <1>1, <1>3, <2>1, <3>2, UnplacedMove
            <4> QED BY <1>1, <4>1 DEF MapStep, Contents!Next
        <3> QED BY <3>1, <3>2
    <2>3. \A r \in reached' : r \in reached \/ (r.by = by /\ IsAlive(e) /\ e \notin DOMAIN store.records)
        BY <1>1, <1>3, <2>1
    <2>4. reached' # {}
        BY <2>1
    <2> QED BY <2>1, <2>2, <2>3, <2>4 DEF CallFine
<1> QED BY <1>2, <1>3

LEMMA CallRemoveFine ==
    ASSUME FInv, NEW e, e \in issued, NEW c \in Component, NEW by, CallRemove(e, c)
    PROVE  CallFine(e, by)
<1>1. /\ IsAlive(e) /\ UNCHANGED allocVars /\ e \in Handle /\ Whole(store) /\ e \in DOMAIN store.records
      /\ c \in store.records[e].arch /\ store' = Removed(store, e, c)
      /\ reached' = reached /\ broken' = Migrating(store.records[e].arch \ {c})
    BY IssuedHandles DEF CallRemove, Remove, HasRecord, FInv
<1>2. /\ DOMAIN store'.records = DOMAIN store.records
      /\ ~Stale(store, store.records[e].arch \ {c}) => Whole(store')
      /\ Contents!Remove(e, c)
    BY <1>1, RemoveMove
<1>3. MapStep
    BY <1>1, <1>2 DEF MapStep, Contents!Next
<1>4. broken' \notin Early /\ (broken' = "no" => Whole(store'))
    BY <1>1, <1>2 DEF Migrating, Early
<1>5. broken' = "no" => OnlyTouches(e) /\ TakesAway(e)
    BY <1>1, <1>2, <1>4, RecordedTouches, KeepsPlace
<1> QED BY <1>1, <1>3, <1>4, <1>5 DEF CallFine

LEMMA CallDespawnFine ==
    ASSUME FInv, broken = "no", NEW e, e \in issued, NEW by, CallDespawn(e, by)
    PROVE  CallFine(e, by)
<1>1. /\ IInv /\ Whole(store) /\ RecordsLive /\ IsAlive(e) /\ Free(e) /\ e \in Handle
      /\ store' = IF e \in DOMAIN store.records THEN Despawned(store, e) ELSE store
      /\ Reach(e, by) /\ broken' = "no"
    BY IssuedHandles DEF FInv, HasRecord, CallDespawn, Despawn
<1>2. /\ IInv' /\ issued' = issued /\ ~IsAlive(e)'
      /\ \A d \in issued \ {e} : IsAlive(d)' <=> IsAlive(d)
    BY <1>1, FreeAlive
<1>3. broken' \notin Early
    BY <1>1 DEF Early
<1>4. CASE e \in DOMAIN store.records
    <2>1. reached' = reached /\ store' = Despawned(store, e)
        BY <1>1, <1>4 DEF Reach, HasRecord
    <2>2. /\ Whole(store') /\ DOMAIN store'.records = DOMAIN store.records \ {e} /\ Contents!Despawn(e)
        BY <1>1, <1>4, <2>1, DespawnMove
    <2>3. DOMAIN store'.records \subseteq issued'
        BY <1>1, <1>2, <2>2 DEF RecordsLive
    <2>4. OnlyTouches(e)
        BY <1>2, <2>1, <2>2, <2>3 DEF OnlyTouches
    <2>5. TakesAway(e)
        BY <1>2, <1>4, <2>2 DEF TakesAway
    <2>6. MapStep
        BY <1>1, <2>2 DEF MapStep, Contents!Next
    <2> QED BY <1>3, <2>1, <2>4, <2>5, <2>6 DEF CallFine
<1>5. CASE e \notin DOMAIN store.records
    <2>1. store' = store /\ reached' = reached \cup {[target |-> e, by |-> by]}
        BY <1>1, <1>5 DEF Reach, HasRecord
    <2>2. DOMAIN store'.records \subseteq issued' /\ Whole(store')
        BY <1>1, <1>2, <2>1 DEF RecordsLive
    <2>3. OnlyTouches(e)
        BY <1>2, <1>5, <2>1, <2>2 DEF OnlyTouches
    <2>4. e \in Reached'
        <3>1. [target |-> e, by |-> by] \in reached' /\ [target |-> e, by |-> by].target = e
            BY <2>1
        <3> QED BY <3>1 DEF Reached
    <2>5. TakesAway(e)
        BY <1>2, <1>5, <2>1, <2>4 DEF TakesAway
    <2>6. MapStep
        BY <2>1, StoreSame DEF MapStep
    <2>7. \A r \in reached' : r \in reached \/ (r.by = by /\ IsAlive(e) /\ e \notin DOMAIN store.records)
        BY <1>1, <1>5, <2>1
    <2> QED BY <1>3, <2>3, <2>5, <2>6, <2>7 DEF CallFine
<1> QED BY <1>4, <1>5

LEMMA NothingFine ==
    ASSUME FInv, broken = "no", NEW e, e \in issued, UNCHANGED <<allocVars, store, broken, reached>>, NEW by
    PROVE  CallFine(e, by)
<1>1. /\ Whole(store') /\ DOMAIN store'.records = DOMAIN store.records /\ UNCHANGED allocVars
      /\ e \in DOMAIN store.records => IsAlive(e)
    BY DEF FInv, RecordsLive
<1>2. OnlyTouches(e) /\ TakesAway(e)
    BY <1>1, RecordedTouches, KeepsPlace
<1>3. MapStep
    BY StoreSame DEF MapStep
<1>4. broken' \notin Early
    BY DEF Early
<1> QED BY <1>2, <1>3, <1>4 DEF CallFine

-----------------------------------------------------------------------------
(* The World starts empty, with nothing pending.                           *)
LEMMA InitGInv == ASSUME FlushInit PROVE GInv
<1>1. /\ StoreInit /\ Init /\ flushOrder \in FlushOrders /\ buffer = [s \in System |-> <<>>]
      /\ phase = "run" /\ at = 1 /\ broken = "no" /\ reached = {} /\ load \in Workloads
    BY DEF FlushInit, StoreInit
<1>2. IInv /\ issued = {} /\ Whole(store) /\ DOMAIN store.records = {}
    BY <1>1, InitIInv, InitWhole DEF Init
<1>3. N \in Nat \ {0} /\ \A i \in 1 .. N : ExecOrder[i] \in System
    BY FlushAssumption DEF FlushAssumption, N, System
<1>4. <<>> \in Seq(Command) /\ \A i \in 1 .. N : Len(B(i)) = 0
    BY <1>1, <1>3 DEF B
<1>5. FlushTypeOK
    BY <1>1, <1>3, <1>4 DEF FlushTypeOK
<1>6. OthersIdle
    BY <1>1, <1>4 DEF OthersIdle
<1>7. \A i \in 1 .. N : \A k \in 1 .. Len(B(i)) : FALSE
    BY <1>4
<1>8. RecordsLive /\ TargetsIssued /\ SpawnsReserved /\ ReservedSpawns /\ SpawnsOnce /\ SpawnFirst
    BY <1>2, <1>7 DEF RecordsLive, TargetsIssued, SpawnsReserved, ReservedSpawns, SpawnsOnce, SpawnFirst
<1>9. FInv
    BY <1>2, <1>5, <1>6, <1>8 DEF FInv, InOrder
<1> QED BY <1>1, <1>9 DEF GInv

(* Data that a workload writes.                                            *)
LEMMA DataAreCells == DataSets \subseteq Cells
BY StoreAssumption DEF StoreAssumption, Cells, Partial

LEMMA LoadFacts == ASSUME FlushTypeOK, NEW data \in load.data PROVE data \in DataSets /\ data \in Cells
<1>1. data \in DataSets
    BY FlushAssumption DEF FlushAssumption, FlushTypeOK
<1> QED BY <1>1, DataAreCells

(* A step without calls on a whole World. *)
LEMMA QuietFine ==
    ASSUME GInv, broken = "no", UNCHANGED <<flushOrder, broken, reached>>, FInv', MapStep PROVE StepFine
BY DEF GInv, StepFine

LEMMA DirectFine == ASSUME GInv, Direct PROVE StepFine
<1>1. FInv /\ broken = "no" /\ issued \subseteq Handle /\ FlushTypeOK /\ UNCHANGED <<flushOrder, buffer, phase, at, load>>
    BY IssuedHandles DEF Direct, Running, GInv
<1>2. CASE \E e \in Handle, data \in load.data : Spawn(e, data) /\ UNCHANGED <<broken, reached>>
    <2>1. PICK e \in Handle, data \in load.data : Spawn(e, data) /\ UNCHANGED <<broken, reached>>
        BY <1>2
    <2>2. data \in DataSets /\ data \in Cells
        BY <1>1, LoadFacts
    <2>3. OnlyTouches(e) /\ e \notin issued /\ e \in DOMAIN store'.records /\ Contents!Spawn(e, data)
        BY <1>1, <2>1, <2>2, SpawnTouches
    <2>4. FInv'
        BY <1>1, <2>3, DirectFInv
    <2>5. MapStep
        BY <2>2, <2>3 DEF MapStep, Contents!Next
    <2> QED BY <1>1, <2>1, <2>4, <2>5, QuietFine
<1>3. ASSUME NEW e \in issued, CallFine(e, "call") PROVE StepFine
    <2>1. broken' = "no" => FInv'
        BY <1>1, <1>3, DirectFInv DEF CallFine
    <2>2. MapStep /\ (broken' \in Early => reached' # {})
        BY <1>3 DEF CallFine
    <2>3. ASSUME flushOrder' = ExecOrder, NEW r \in reached' PROVE r.by = "call"
        <3>1. flushOrder = ExecOrder
            BY <1>1, <2>3
        <3>2. r \in reached \/ r.by = "call"
            BY <1>3 DEF CallFine
        <3> QED BY <3>1, <3>2 DEF GInv
    <2> QED BY <2>1, <2>2, <2>3 DEF StepFine, GInv, Early
<1>4. ASSUME NEW e \in issued, NEW data \in load.data, CallInsert(e, data, "call") PROVE StepFine
    <2>1. data \in DataSets /\ data \in Cells
        BY <1>1, LoadFacts
    <2> QED BY <1>1, <1>3, <1>4, <2>1, CallInsertFine
<1>5. ASSUME NEW e \in issued, NEW c \in Component, CallRemove(e, c) PROVE StepFine
    BY <1>1, <1>3, <1>5, CallRemoveFine
<1>6. ASSUME NEW e \in issued, CallDespawn(e, "call") PROVE StepFine
    BY <1>1, <1>3, <1>6, CallDespawnFine
<1>7. ASSUME NEW e \in issued, OnDead(e), UNCHANGED <<broken, reached>> PROVE StepFine
    <2>1. CallFine(e, "call")
        BY <1>1, <1>7, NothingFine DEF OnDead
    <2> QED BY <1>3, <2>1
<1> QED BY <1>2, <1>4, <1>5, <1>6, <1>7 DEF Direct

LEMMA PushSpawnFine ==
    ASSUME GInv, NEW e \in Handle, NEW data, data \in load.data, PushSpawn(e, data) PROVE StepFine
<1> DEFINE cmd == [op |-> "spawn", target |-> e, data |-> data]
<1>1. FInv /\ FlushTypeOK /\ IInv /\ broken = "no" /\ UNCHANGED <<flushOrder, broken, reached, store>>
    BY DEF GInv, FInv, PushSpawn, Push, Running
<1>2. data \in DataSets
    BY <1>1, LoadFacts
<1>3. cmd \in Command /\ cmd.op = "spawn" /\ e = cmd.target
    BY <1>2 DEF Command
<1>4. Allocate(e) /\ Push(cmd)
    BY DEF PushSpawn
<1> HIDE DEF cmd
<1>5. /\ IInv' /\ e \notin issued /\ issued' = issued \cup {e} /\ IsAlive(e)'
      /\ \A d \in issued : IsAlive(d)' <=> IsAlive(d)
    BY <1>1, <1>4, AllocateAlive
<1>6. FInv'
    BY <1>1, <1>3, <1>4, <1>5, PushFInv
<1>7. MapStep
    BY <1>1, StoreSame DEF MapStep
<1> QED BY <1>1, <1>6, <1>7, QuietFine

LEMMA PushOtherFine ==
    ASSUME GInv, NEW e, e \in issued, NEW cmd \in Command, cmd.op # "spawn", e = cmd.target,
           Push(cmd), UNCHANGED allocVars
    PROVE  StepFine
<1>1. FInv /\ IInv /\ broken = "no" /\ UNCHANGED <<flushOrder, broken, reached, store>>
    BY DEF GInv, FInv, Push, Running
<1>2. IInv'
    BY <1>1, NextIInv
<1>3. FInv'
    BY <1>1, <1>2, PushFInv
<1>4. MapStep
    BY <1>1, StoreSame DEF MapStep
<1> QED BY <1>1, <1>3, <1>4, QuietFine

LEMMA PushFine ==
    ASSUME GInv, NEW e \in issued,
           \/ \E data \in load.data \ {Nothing} : PushInsert(e, data)
           \/ \E c \in Component : PushRemove(e, c)
           \/ PushDespawn(e)
    PROVE  StepFine
<1>1. e \in Handle /\ FlushTypeOK
    <2>1. broken = "no"
        BY DEF PushInsert, PushRemove, PushDespawn, Push, Running
    <2> QED BY <2>1, IssuedHandles DEF GInv
<1>2. CASE \E data \in load.data \ {Nothing} : PushInsert(e, data)
    <2>1. PICK data \in load.data : PushInsert(e, data)
        BY <1>2
    <2> DEFINE cmd == [op |-> "insert", target |-> e, data |-> data]
    <2>2. data \in DataSets
        BY <1>1, LoadFacts
    <2>3. cmd \in Command /\ cmd.op = "insert" /\ e = cmd.target
        BY <1>1, <2>2 DEF Command
    <2>4. Push(cmd) /\ UNCHANGED allocVars
        BY <2>1 DEF PushInsert
    <2> HIDE DEF cmd
    <2>5. cmd.op # "spawn"
        BY <2>3
    <2> QED BY <2>3, <2>4, <2>5, PushOtherFine
<1>3. CASE \E c \in Component : PushRemove(e, c)
    <2>1. PICK c \in Component : PushRemove(e, c)
        BY <1>3
    <2> DEFINE cmd == [op |-> "remove", target |-> e, comp |-> c]
    <2>2. cmd \in Command /\ cmd.op = "remove" /\ e = cmd.target
        BY <1>1 DEF Command
    <2>3. Push(cmd) /\ UNCHANGED allocVars
        BY <2>1 DEF PushRemove
    <2> HIDE DEF cmd
    <2>4. cmd.op # "spawn"
        BY <2>2
    <2> QED BY <2>2, <2>3, <2>4, PushOtherFine
<1>4. CASE PushDespawn(e)
    <2> DEFINE cmd == [op |-> "despawn", target |-> e]
    <2>1. cmd \in Command /\ cmd.op = "despawn" /\ e = cmd.target
        BY <1>1 DEF Command
    <2>2. Push(cmd) /\ UNCHANGED allocVars
        BY <1>4 DEF PushDespawn
    <2> HIDE DEF cmd
    <2>3. cmd.op # "spawn"
        BY <2>1
    <2> QED BY <2>1, <2>2, <2>3, PushOtherFine
<1> QED BY <1>2, <1>3, <1>4

(* From one system, or one buffer, to the next.                            *)
LEMMA TurnFine ==
    ASSUME GInv, broken = "no", UNCHANGED <<allocVars, store, flushOrder, buffer, broken, reached, load>>,
           at' \in Nat \ {0}, phase' \in {"run", "flush"}, phase' = "run" => at' \in 1 .. N,
           flushOrder = ExecOrder => OthersIdle'
    PROVE  StepFine
<1>1. /\ \A d : IsAlive(d)' <=> IsAlive(d)
      /\ issued' = issued /\ store' = store /\ buffer' = buffer
      /\ flushOrder' = flushOrder /\ reached' = reached /\ load' = load /\ Reached' = Reached
    BY DEF allocVars, IsAlive, Reached
<1>2. FInv /\ IInv /\ FlushTypeOK /\ InOrder /\ SpawnsReserved /\ SpawnsOnce /\ TargetsIssued /\ ReservedSpawns
    BY DEF GInv, FInv
<1>3. IInv'
    BY <1>2, NextIInv
<1>4. FlushTypeOK'
    BY <1>1, <1>2 DEF FlushTypeOK
<1>5. Whole(store') /\ RecordsLive' /\ TargetsIssued' /\ SpawnsOnce'
    <2>1. Whole(store') /\ RecordsLive'
        BY <1>1, <1>2 DEF FInv, RecordsLive
    <2>2. buffer' = buffer /\ issued' = issued
        BY <1>1
    <2>3. TargetsIssued'
        BY <1>2, <2>2 DEF TargetsIssued, B
    <2>4. SpawnsOnce'
        <3>1. SpawnsOnce
            BY <1>2
        <3> QED BY <2>2, <3>1 DEF SpawnsOnce, B
    <2> QED BY <2>1, <2>3, <2>4
<1>6. SpawnsReserved'
    <2>1. generations' = generations /\ size' = size /\ store' = store /\ buffer' = buffer
        BY DEF allocVars
    <2> QED BY <1>1, <1>2, <2>1 DEF SpawnsReserved, B, IsAlive, Null
<1>7. ReservedSpawns'
    BY <1>1, <1>2 DEF ReservedSpawns, B
<1>8. SpawnFirst <=> SpawnFirst'
    BY <1>1 DEF SpawnFirst, B
<1>9. InOrder'
    BY <1>1, <1>2, <1>8 DEF InOrder
<1>10. FInv'
    BY <1>3, <1>4, <1>5, <1>6, <1>7, <1>9 DEF FInv
<1>11. MapStep
    BY StoreSame DEF MapStep
<1> QED BY <1>10, <1>11, QuietFine

LEMMA EndSystemFine == ASSUME GInv, EndSystem PROVE StepFine
<1>1. /\ FInv /\ FlushTypeOK /\ phase = "run" /\ broken = "no" /\ at \in 1 .. N /\ N \in Nat \ {0}
      /\ flushOrder = ExecOrder => OthersIdle
    BY BufferFacts DEF GInv, FInv, InOrder, FlushTypeOK, EndSystem, Running
<1>2. UNCHANGED <<allocVars, store, flushOrder, buffer, broken, reached, load>>
    BY DEF EndSystem
<1>3. flushOrder = ExecOrder => \A j \in 1 .. N : j > at => Len(B(j)) = 0
    BY <1>1 DEF OthersIdle
<1>4. CASE at < N
    <2>1. at' = at + 1 /\ phase' = "run"
        BY <1>1, <1>4 DEF EndSystem, N
    <2>2. at' \in 1 .. N /\ \A j \in 1 .. N : j > at' => j > at
        BY <1>1, <1>4, <2>1
    <2>3. flushOrder = ExecOrder => OthersIdle'
        BY <1>2, <1>3, <2>1, <2>2 DEF OthersIdle, B
    <2> QED BY <1>1, <1>2, <2>1, <2>2, <2>3, TurnFine
<1>5. CASE ~(at < N)
    <2>1. at' = 1 /\ phase' = "flush"
        BY <1>5 DEF EndSystem, N
    <2>2. OthersIdle'
        BY <1>1, <2>1 DEF OthersIdle
    <2> QED BY <1>1, <1>2, <2>1, <2>2, TurnFine
<1> QED BY <1>4, <1>5

LEMMA EndFlushFine == ASSUME GInv, EndFlush PROVE StepFine
<1>1. /\ FInv /\ FlushTypeOK /\ phase = "flush" /\ broken = "no" /\ at \in Nat \ {0} /\ N \in Nat \ {0}
      /\ Flushing /\ Current = <<>> /\ (flushOrder = ExecOrder => OthersIdle)
    BY BufferFacts DEF GInv, FInv, InOrder, EndFlush, Flushing, FlushTypeOK
<1>2. UNCHANGED <<allocVars, store, flushOrder, buffer, broken, reached, load>>
    BY DEF EndFlush
<1>3. flushOrder = ExecOrder => /\ at \in 1 .. N
                                /\ \A j \in 1 .. N : j <= at => Len(B(j)) = 0
    <2> SUFFICES ASSUME flushOrder = ExecOrder
                 PROVE  at \in 1 .. N /\ \A j \in 1 .. N : j <= at => Len(B(j)) = 0
        OBVIOUS
    <2>1. at \in 1 .. N
        BY <1>1 DEF Flushing, N
    <2>2. Len(B(at)) = 0
        BY <1>1 DEF Current, B
    <2> QED BY <1>1, <2>1, <2>2 DEF OthersIdle
<1>4. CASE at < Len(flushOrder)
    <2>1. at' = at + 1 /\ phase' = "flush"
        BY <1>1, <1>4 DEF EndFlush
    <2>2. \A j \in 1 .. N : j < at' => j <= at
        BY <1>1, <2>1
    <2>3. flushOrder = ExecOrder => OthersIdle'
        BY <1>2, <1>3, <2>1, <2>2 DEF OthersIdle, B
    <2>4. at' \in Nat \ {0}
        BY <1>1, <2>1
    <2> QED BY <1>1, <1>2, <2>1, <2>3, <2>4, TurnFine
<1>5. CASE ~(at < Len(flushOrder))
    <2>1. at' = 1 /\ phase' = "run"
        BY <1>5 DEF EndFlush
    <2>2. flushOrder = ExecOrder => \A j \in 1 .. N : j <= at
        BY <1>1, <1>5 DEF N
    <2>3. flushOrder = ExecOrder => OthersIdle'
        BY <1>2, <1>3, <2>1, <2>2 DEF OthersIdle, B
    <2>4. at' \in Nat \ {0} /\ at' \in 1 .. N
        BY <1>1, <2>1
    <2> QED BY <1>1, <1>2, <2>1, <2>3, <2>4, TurnFine
<1> QED BY <1>4, <1>5

(* What reaches the head of the flush: a reserved ID, or one that was      *)
(* reached early, if it is a spawn.  In execution order, the target of     *)
(* another command is dead or in the store.                                *)
LEMMA HeadFacts ==
    ASSUME FInv, Flushing, Current # <<>>, NEW e, e = Cmd.target
    PROVE  /\ e \in issued /\ e \in Handle /\ Cmd \in Command
           /\ Cmd.op = "spawn" => e \notin DOMAIN store.records /\ (IsAlive(e) \/ e \in Reached)
           /\ Cmd.op # "spawn" /\ flushOrder = ExecOrder /\ IsAlive(e) => e \in DOMAIN store.records
<1>1. FlushTypeOK /\ issued \subseteq Handle
    BY IssuedHandles
<1>2. TargetsIssued /\ SpawnsReserved /\ ReservedSpawns
    BY DEF FInv
<1>3. PICK f \in 1 .. N : flushOrder[at] = ExecOrder[f] /\ Current = B(f) /\ (flushOrder = ExecOrder => f = at)
    BY <1>1, FlushedBuffer
<1>4. Len(B(f)) \in Nat \ {0} /\ 1 \in 1 .. Len(B(f)) /\ Cmd = B(f)[1] /\ Cmd \in Command
    BY <1>1, <1>3, PopPops
<1>5. e \in issued
    BY <1>2, <1>4 DEF TargetsIssued
<1>6. Cmd.op = "spawn" => e \notin DOMAIN store.records /\ (IsAlive(e) \/ e \in Reached)
    BY <1>2, <1>4 DEF SpawnsReserved
<1>7. ASSUME Cmd.op # "spawn", flushOrder = ExecOrder, IsAlive(e), e \notin DOMAIN store.records PROVE FALSE
    <2>1. PICK i \in 1 .. N : \E k \in 1 .. Len(B(i)) : B(i)[k].op = "spawn" /\ B(i)[k].target = e
        BY <1>2, <1>5, <1>7 DEF ReservedSpawns
    <2>2. PICK k \in 1 .. Len(B(i)) : B(i)[k].op = "spawn" /\ B(i)[k].target = e
        BY <2>1
    <2>3. f = at
        BY <1>3, <1>7
    <2>4. i = at /\ k = 1
        BY <1>4, <1>7, <2>2, <2>3, HeadFirst
    <2> QED BY <1>4, <1>7, <2>2, <2>3, <2>4
<1> QED BY <1>1, <1>4, <1>5, <1>6, <1>7

(* A command of the flush. *)
LEMMA ApplyFine == ASSUME GInv, ApplyCommand PROVE StepFine
<1>1. /\ Flushing /\ Current # <<>> /\ PopCommand /\ UNCHANGED <<flushOrder, phase, at, load>>
      /\ ApplySpawn \/ ApplyInsert \/ ApplyRemove \/ ApplyDespawn \/ ApplyNothing
    BY DEF ApplyCommand
<1>2. PICK e : e = Cmd.target
    OBVIOUS
<1>3. FInv /\ broken = "no" /\ Whole(store)
    BY <1>1 DEF GInv, Flushing, FInv
<1>4. /\ e \in issued /\ e \in Handle /\ Cmd \in Command
      /\ Cmd.op = "spawn" => e \notin DOMAIN store.records /\ (IsAlive(e) \/ e \in Reached)
      /\ Cmd.op # "spawn" /\ flushOrder = ExecOrder /\ IsAlive(e) => e \in DOMAIN store.records
    BY <1>1, <1>2, <1>3, HeadFacts
<1>5. ASSUME Cmd.op # "spawn", CallFine(e, "command") PROVE StepFine
    <2>1. broken' = "no" => FInv'
        BY <1>1, <1>2, <1>3, <1>4, <1>5, PopFInv DEF CallFine
    <2>2. MapStep /\ (broken' \in Early => reached' # {})
        BY <1>5 DEF CallFine
    <2>3. ASSUME flushOrder' = ExecOrder, NEW r \in reached' PROVE r.by = "call"
        <3>1. flushOrder = ExecOrder
            BY <1>1, <2>3
        <3>2. r \in reached
            BY <1>4, <1>5, <3>1 DEF CallFine
        <3> QED BY <3>1, <3>2 DEF GInv
    <2> QED BY <2>1, <2>2, <2>3 DEF StepFine, GInv, Early
<1>6. CASE ApplySpawn
    <2>1. /\ Cmd.op = "spawn" /\ store' = Placed(store, e, Cmd.data) /\ UNCHANGED allocVars /\ reached' = reached
          /\ broken' = IF IsAlive(e) THEN "no" ELSE "revived"
        BY <1>2, <1>6 DEF ApplySpawn
    <2>2. PICK data \in DataSets : data = Cmd.data
        BY <1>4, <2>1 DEF Command
    <2>3. /\ Whole(store') /\ DOMAIN store'.records = DOMAIN store.records \cup {e}
          /\ Contents!Spawn(e, data)
        BY <1>3, <1>4, <2>1, <2>2, DataAreCells, SpawnMove
    <2>4. MapStep
        BY <1>4, <2>3 DEF MapStep, Contents!Next
    <2>5. CASE IsAlive(e)
        <3>1. OnlyTouches(e) /\ e \in DOMAIN store'.records
            BY <1>3, <1>4, <2>1, <2>3, <2>5, RecordedTouches
        <3>2. FInv'
            BY <1>1, <1>2, <1>3, <1>4, <2>1, <3>1, PopFInv
        <3> QED BY <1>1, <1>3, <2>1, <2>4, <2>5, <3>2, QuietFine
    <2>6. CASE ~IsAlive(e)
        <3>1. reached # {} /\ broken' = "revived"
            BY <1>4, <2>1, <2>6 DEF Reached
        <3> QED BY <1>1, <2>1, <2>4, <3>1 DEF StepFine, GInv
    <2> QED BY <2>5, <2>6
<1>7. CASE ApplyInsert
    <2>1. Cmd.op = "insert" /\ CallInsert(e, Cmd.data, "command")
        BY <1>2, <1>7 DEF ApplyInsert
    <2>2. PICK data \in DataSets : data = Cmd.data
        BY <1>4, <2>1 DEF Command
    <2>3. CallFine(e, "command")
        BY <1>3, <1>4, <2>1, <2>2, DataAreCells, CallInsertFine
    <2> QED BY <1>5, <2>1, <2>3
<1>8. CASE ApplyRemove
    <2>1. Cmd.op = "remove" /\ CallRemove(e, Cmd.comp)
        BY <1>2, <1>8 DEF ApplyRemove
    <2>2. PICK c \in Component : c = Cmd.comp
        BY <1>4, <2>1 DEF Command
    <2>3. CallFine(e, "command")
        BY <1>3, <1>4, <2>1, <2>2, CallRemoveFine
    <2> QED BY <1>5, <2>1, <2>3
<1>9. CASE ApplyDespawn
    <2>1. Cmd.op = "despawn" /\ CallDespawn(e, "command")
        BY <1>2, <1>9 DEF ApplyDespawn
    <2>2. CallFine(e, "command")
        BY <1>3, <1>4, <2>1, CallDespawnFine
    <2> QED BY <1>5, <2>1, <2>2
<1>10. CASE ApplyNothing
    <2>1. Cmd.op # "spawn" /\ UNCHANGED <<allocVars, store, broken, reached>>
        BY <1>10 DEF ApplyNothing
    <2>2. CallFine(e, "command")
        BY <1>3, <1>4, <2>1, NothingFine
    <2> QED BY <1>5, <2>1, <2>2
<1> QED BY <1>1, <1>6, <1>7, <1>8, <1>9, <1>10

LEMMA StutterFine == ASSUME GInv, UNCHANGED vars PROVE StepFine
<1>1. /\ UNCHANGED <<allocVars, store, flushOrder, buffer, broken, reached, load>> /\ at' = at /\ phase' = phase
    BY DEF vars, flushVars
<1>2. CASE broken = "no"
    <2>1. FlushTypeOK /\ InOrder
        BY <1>2 DEF GInv, FInv
    <2>2. OthersIdle <=> OthersIdle'
        BY <1>1 DEF OthersIdle, B
    <2>3. /\ at' \in Nat \ {0} /\ phase' \in {"run", "flush"} /\ (phase' = "run" => at' \in 1 .. N)
          /\ flushOrder = ExecOrder => OthersIdle'
        BY <1>1, <2>1, <2>2 DEF FlushTypeOK, InOrder
    <2> QED BY <1>1, <1>2, <2>3, TurnFine
<1>3. CASE broken # "no"
    <2>1. GInv'
        BY <1>1, <1>3 DEF GInv
    <2> QED BY <1>1, <2>1, StoreSame DEF StepFine, MapStep
<1> QED BY <1>2, <1>3

LEMMA NextFine == ASSUME GInv, [FlushNext]_vars PROVE StepFine
<1>1. ASSUME NEW e \in Handle, NEW data \in load.data, PushSpawn(e, data) PROVE StepFine
    BY <1>1, PushSpawnFine
<1>2. CASE Broken
    BY <1>2, StutterFine DEF Broken
<1> QED BY <1>1, <1>2, DirectFine, PushFine, EndSystemFine, ApplyFine, EndFlushFine, StutterFine DEF FlushNext

-----------------------------------------------------------------------------
(* The invariant gives the two checked ones.                               *)
LEMMA GInvConsistent == ASSUME GInv PROVE StoreConsistent
BY WholeConsistent DEF GInv, FInv, RecordsLive, StoreConsistent

LEMMA FInvReservations == ASSUME FInv PROVE ReservationsPending
<1>1. /\ FlushTypeOK /\ TargetsIssued /\ SpawnsReserved /\ ReservedSpawns
    BY DEF FInv
<1>2. \A i \in 1 .. N : ExecOrder[i] \in System
    BY <1>1, BufferFacts
<1>3. ASSUME NEW e \in Reserved PROVE e \in ToSpawn /\ IsAlive(e)
    <2>1. e \in issued /\ IsAlive(e) /\ e \notin DOMAIN store.records
        BY DEF Reserved, HasRecord
    <2>2. PICK i \in 1 .. N : \E k \in 1 .. Len(B(i)) : B(i)[k].op = "spawn" /\ B(i)[k].target = e
        BY <1>1, <2>1 DEF ReservedSpawns
    <2>3. PICK k \in 1 .. Len(B(i)) : B(i)[k].op = "spawn" /\ B(i)[k].target = e
        BY <2>2
    <2>4. B(i)[k] \in Pending
        BY <1>2, <2>3 DEF Pending, B
    <2> QED BY <2>1, <2>3, <2>4 DEF ToSpawn
<1>4. ASSUME NEW e \in ToSpawn PROVE (IsAlive(e) => e \in Reserved) /\ e \in Reserved \cup Reached
    <2>1. PICK cmd \in Pending : cmd.op = "spawn" /\ cmd.target = e
        BY DEF ToSpawn
    <2>2. PICK s \in System : \E k \in 1 .. Len(buffer[s]) : buffer[s][k] = cmd
        BY <2>1 DEF Pending
    <2>3. PICK i \in 1 .. N : ExecOrder[i] = s
        BY DEF System, N
    <2>4. PICK k \in 1 .. Len(B(i)) : B(i)[k] = cmd
        BY <2>2, <2>3 DEF B
    <2>5. e \in issued /\ e \notin DOMAIN store.records /\ (IsAlive(e) \/ e \in Reached)
        BY <1>1, <2>1, <2>4 DEF TargetsIssued, SpawnsReserved
    <2> QED BY <2>5 DEF Reserved, HasRecord
<1> QED BY <1>3, <1>4 DEF ReservationsPending

LEMMA AlwaysGInv == FlushSpec => []GInv
<1>1. FlushInit => GInv
    BY InitGInv
<1>2. GInv /\ [FlushNext]_vars => GInv'
    BY NextFine DEF StepFine
<1> QED BY <1>1, <1>2, PTL DEF FlushSpec

(* Records, rows, tables and sparse sets tell one story after any sequence *)
(* of direct calls, pushes and flushes (archetype.go:28-30,                *)
(* l1-world-system INV-2) as long as none of them migrated an entity while *)
(* the archetypes moved or came before an entity's spawn: swap-and-pop     *)
(* re-points the moved entity, and a dead entity has no row.               *)
THEOREM StoreConsistentHolds == FlushSpec => []StoreConsistent
<1>1. GInv => StoreConsistent
    BY GInvConsistent
<1> QED BY <1>1, AlwaysGInv, PTL

(* The live IDs without a place in the World are those of the pending      *)
(* spawns, and only a call that came before an entity's spawn makes a      *)
(* flush panic, evict or revive; commands flushed in execution order never *)
(* come that early (buffer.go:90-105, entity_ops.go:115-181).              *)
THEOREM ReservationsKeptHolds == FlushSpec => []ReservationsKept
<1>1. GInv => ReservationsKept
    BY FInvReservations DEF GInv, ReservationsKept
<1> QED BY <1>1, AlwaysGInv, PTL

(* The archetype store under its command buffers implements the plain map  *)
(* from entities to components (world.go, entity_ops.go): a migration      *)
(* carries the entity's own values along, and a call on one entity changes *)
(* no other's, not even the call that breaks the World.                    *)
THEOREM StoreImplementsContents == FlushSpec => ContentsSpec
<1>1. FlushInit => Contents!Init
    BY InitWhole DEF FlushInit, Contents!Init
<1>2. GInv /\ [FlushNext]_vars => [Contents!Next]_([e \in DOMAIN store.records |-> Stored(e)])
    BY NextFine DEF StepFine, MapStep
<1> QED BY <1>1, <1>2, AlwaysGInv, PTL DEF FlushSpec, ContentsSpec, Contents!Spec
=============================================================================
