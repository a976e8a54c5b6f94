----------------------------- MODULE WorldProofs -----------------------------
(***************************************************************************)
(* Proofs about the world's frame, what is built on it and its end:        *)
(* Schedule, for any systems, sets, constraints and access sets and any    *)
(* runs; Scenes, for any scenes and instances; Rollback, for any inputs    *)
(* and ring capacities; and EntityRestore, for arenas of any size and any  *)
(* number of reload cycles.                                                *)
(***************************************************************************)
EXTENDS EntityRestore, Schedule, Scenes, Rollback, Induction, SequenceTheorems, FiniteSetTheorems, TLAPS

-----------------------------------------------------------------------------
(* EntityRestore.  The inductive invariant says what the arena is in each phase.  While    *)
(* the process runs, a spawned or reserved entity sits on a slot of its    *)
(* generation that is not listed as free.  While the new process places,   *)
(* the used slots are exactly those of the entities placed so far, and     *)
(* those still to be placed have slots of their own.                       *)

USE SlotsAssumption, GenAssumption, BatchAssumption, RestartsAssumption
    DEF SlotsAssumption, GenAssumption, BatchAssumption, RestartsAssumption

Held == spawned \cup reserved

Used == {i \in Slots : generations[i] # 0}

(* An entity sits on its slot, and no slot of 1 .. MaxGen generations is   *)
(* shared.                                                                 *)
OnItsSlot(e) == e.index < size /\ generations[e.index] = e.generation /\ e.generation \in 1 .. MaxGen

Running ==
    /\ snapshot = {}
    /\ FreeListConsistent
    /\ \A i \in Slots : i < size => generations[i] \in 1 .. MaxGen
    /\ \A e \in Held : OnItsSlot(e) /\ \A k \in 1 .. Len(freeList) : freeList[k] # e.index

Placing ==
    /\ freeList = <<>> /\ reserved = {}
    /\ \A i \in Used : i < size
    /\ \A e \in spawned : OnItsSlot(e)
    /\ \A i \in Used : \E e \in spawned : e.index = i
    /\ \A e \in snapshot : e.generation \in 1 .. MaxGen /\ e.index \notin Used
    /\ \A d, e \in snapshot : d.index = e.index => d = e
    /\ alive = Cardinality(Used)

RestoreInv == RestoreTypeOK /\ (phase = "run" => Running) /\ (phase = "place" => Placing)

-----------------------------------------------------------------------------
(* The slots are finitely many. *)
LEMMA SlotsFinite ==
    ASSUME NEW S \in SUBSET Slots
    PROVE  IsFiniteSet(S) /\ Cardinality(S) \in Nat
<1>1. IsFiniteSet(0 .. MaxSlots - 1)
    BY FS_Interval
<1> QED BY <1>1, FS_Subset, FS_CardinalityType DEF Slots

LEMMA HandleFacts ==
    /\ \A e \in Handle : e.index \in Slots /\ e.generation \in Generation /\ e = NewEntity(e.index, e.generation)
    /\ \A i \in Slots, g \in Generation : NewEntity(i, g) \in Handle /\ NewEntity(i, g).index = i
                                          /\ NewEntity(i, g).generation = g
    /\ \A i \in Slots : i \in Nat /\ i < MaxSlots
    /\ Null.generation = 0
BY DEF Handle, NewEntity, Slots, Null

(* The arena grows up to the placed index. *)
LEMMA MaxOfTwo ==
    ASSUME NEW a \in Nat, NEW b \in Nat
    PROVE  Max({a, b}) = IF a >= b THEN a ELSE b
<1>1. \E x \in {a, b} : \A y \in {a, b} : x >= y
    OBVIOUS
<1>2. Max({a, b}) \in {a, b} /\ \A y \in {a, b} : Max({a, b}) >= y
    BY <1>1 DEF Max
<1> QED BY <1>2

(* Allocation hands out a slot that is not listed any more and that nobody *)
(* sits on.                                                                *)
LEMMA AllocateRuns ==
    ASSUME RestoreTypeOK, Running, NEW e \in Handle, Allocate(e), snapshot' = {},
           NEW S \in SUBSET Handle, S \subseteq Held \cup {e}, spawned' \cup reserved' = S
    PROVE  TypeOK' /\ Running'
<1>1. CASE Reuse(e)
    <2> DEFINE n == Len(freeList)
    <2>1. /\ n \in Nat /\ n > 0 /\ freeList[n] \in Slots /\ freeList[n] < size
          /\ e = NewEntity(freeList[n], generations[freeList[n]])
          /\ size' = size /\ generations' = generations
          /\ alive' = alive + 1 /\ issued' = issued \cup {e}
          /\ freeList' = SubSeq(freeList, 1, n - 1)
        BY <1>1 DEF Reuse, RestoreTypeOK, TypeOK, Running, FreeListConsistent
    <2>2. /\ freeList' \in Seq(Slots) /\ Len(freeList') = n - 1
          /\ \A k \in 1 .. n - 1 : freeList'[k] = freeList[k] /\ freeList[k] # freeList[n]
        <3>1. freeList \in Seq(Slots)
            BY DEF RestoreTypeOK, TypeOK
        <3>2. \A k \in 1 .. n - 1 : k \in 1 .. n /\ k # n
            BY <2>1
        <3>3. \A k \in 1 .. n - 1 : freeList[k] # freeList[n]
            BY <2>1, <3>2 DEF Running, FreeListConsistent
        <3>4. n - 1 \in Int /\ \A k \in 1 .. n - 1 : freeList[k] \in Slots
            BY <2>1, <3>1, ElementOfSeq
        <3> HIDE DEF n
        <3>5. /\ SubSeq(freeList, 1, n - 1) \in Seq(Slots)
              /\ Len(SubSeq(freeList, 1, n - 1)) = IF 1 <= n - 1 THEN n - 1 - 1 + 1 ELSE 0
              /\ \A k \in 1 .. n - 1 - 1 + 1 : SubSeq(freeList, 1, n - 1)[k] = freeList[1 + k - 1]
            BY <3>4, SubSeqProperties
        <3> QED BY <2>1, <3>3, <3>5
    <2>3. e.index = freeList[n] /\ e.generation = generations[freeList[n]]
        BY <2>1 DEF NewEntity
    <2>4. TypeOK'
        BY <2>1, <2>2 DEF RestoreTypeOK, TypeOK
    <2>5. FreeListConsistent'
        <3>1. \A k \in 1 .. n - 1 : k \in 1 .. n
            BY <2>1
        <3>2. alive' = size' - Len(freeList')
            <4>1. alive = size - n /\ size \in Nat
                BY DEF RestoreTypeOK, TypeOK, Running, FreeListConsistent
            <4>2. alive' = alive + 1 /\ size' = size /\ Len(freeList') = n - 1 /\ n \in Nat
                BY <2>1, <2>2
            <4> HIDE DEF n
            <4> QED BY <4>1, <4>2
        <3> HIDE DEF n
        <3>3. Running
            OBVIOUS
        <3> QED BY SMTT(30), <2>1, <2>2, <3>1, <3>2, <3>3 DEF n, Running, FreeListConsistent
    <2>6. OnItsSlot(e)' /\ \A k \in 1 .. Len(freeList') : freeList'[k] # e.index
        BY <2>1, <2>2, <2>3 DEF OnItsSlot, Running
    <2>7. \A d \in Held : OnItsSlot(d)' /\ \A k \in 1 .. Len(freeList') : freeList'[k] # d.index
        <3>1. \A k \in 1 .. Len(freeList') : k \in 1 .. Len(freeList)
            BY <2>1, <2>2
        <3> QED BY <2>1, <2>2, <3>1 DEF OnItsSlot, Running
    <2>8. \A d \in Held' : d \in Held \/ d = e
        BY DEF Held
    <2> QED BY <2>1, <2>4, <2>5, <2>6, <2>7, <2>8 DEF Running
<1>2. CASE Extend(e)
    <2>1. /\ freeList = <<>> /\ size \in Nat /\ size < MaxSlots /\ size \in Slots /\ e = NewEntity(size, 1)
          /\ generations' = [generations EXCEPT ![size] = 1] /\ size' = size + 1
          /\ alive' = alive + 1 /\ issued' = issued \cup {e} /\ freeList' = freeList
        BY <1>2 DEF Extend, RestoreTypeOK, TypeOK, Slots
    <2>2. e.index = size /\ e.generation = 1
        BY <2>1 DEF NewEntity
    <2>3. TypeOK'
        BY <2>1 DEF RestoreTypeOK, TypeOK, Slots, Generation
    <2>4. FreeListConsistent'
        BY <2>1 DEF RestoreTypeOK, TypeOK, Running, FreeListConsistent, Slots
    <2>5. \A i \in Slots : i < size' => generations'[i] \in 1 .. MaxGen
        BY <2>1 DEF RestoreTypeOK, TypeOK, Running, Slots
    <2>6. Len(freeList') = 0
        BY <2>1
    <2>7. OnItsSlot(e)'
        BY <2>1, <2>2 DEF OnItsSlot, RestoreTypeOK, TypeOK
    <2>8. \A d \in Held : OnItsSlot(d)'
        <3>1. \A d \in Held : d \in Handle /\ OnItsSlot(d) /\ d.index \in Slots
            BY HandleFacts DEF Held, RestoreTypeOK, Running
        <3> QED BY <2>1, <3>1 DEF OnItsSlot, RestoreTypeOK, TypeOK, Slots
    <2>9. \A d \in Held' : d \in Held \/ d = e
        BY DEF Held
    <2> QED BY <2>3, <2>4, <2>5, <2>6, <2>7, <2>8, <2>9 DEF Running
<1> QED BY <1>1, <1>2 DEF Allocate

LEMMA SpawnInv == ASSUME RestoreInv, NEW e \in Handle, Spawn(e) \/ Reserve(e) PROVE RestoreInv'
<1>1. /\ phase = "run" /\ phase' = "run" /\ Allocate(e) /\ UNCHANGED <<snapshot, restarts>>
      /\ spawned' \in {spawned, spawned \cup {e}} /\ reserved' \in {reserved, reserved \cup {e}}
    BY DEF Spawn, Reserve
<1>2. /\ RestoreTypeOK /\ Running
      /\ spawned' \in SUBSET Handle /\ reserved' \in SUBSET Handle
      /\ snapshot' = {} /\ restarts' \in 0 .. MaxRestarts
    BY <1>1 DEF RestoreInv, RestoreTypeOK, Running
<1>3. spawned' \cup reserved' \in SUBSET Handle /\ spawned' \cup reserved' \subseteq Held \cup {e}
    BY <1>1, <1>2 DEF Held
<1>4. TypeOK' /\ Running'
    BY <1>1, <1>2, <1>3, AllocateRuns
<1> QED BY <1>1, <1>2, <1>4 DEF RestoreInv, RestoreTypeOK

LEMMA SpawnReservedInv == ASSUME RestoreInv, NEW e \in reserved, SpawnReserved(e) PROVE RestoreInv'
<1>1. /\ phase = "run" /\ UNCHANGED <<allocVars, phase, snapshot, restarts>>
      /\ spawned' = spawned \cup {e} /\ reserved' = reserved \ {e} /\ Held' = Held
    BY DEF SpawnReserved, Held
<1>2. Running'
    BY <1>1 DEF RestoreInv, Running, OnItsSlot, FreeListConsistent, allocVars
<1> QED BY <1>1, <1>2 DEF RestoreInv, RestoreTypeOK, TypeOK, allocVars

LEMMA DespawnInv == ASSUME RestoreInv, NEW e \in spawned \cup reserved, Despawn(e) PROVE RestoreInv'
<1> DEFINE i == e.index
           g == e.generation
<1>1. /\ phase = "run" /\ phase' = "run" /\ Running /\ RestoreTypeOK /\ e \in Held
      /\ UNCHANGED <<snapshot, restarts, size, issued>>
      /\ spawned' = spawned \ {e} /\ reserved' = reserved \ {e} /\ Held' = Held \ {e}
      /\ freeList' = Append(freeList, i) /\ alive' = alive - 1 /\ g < MaxGen
    BY DEF Despawn, Free, Held, RestoreInv
<1>2. e \in Handle /\ i \in Slots /\ i < size /\ generations[i] = g /\ g \in 1 .. MaxGen
    BY <1>1, HandleFacts DEF Held, RestoreTypeOK, Running, OnItsSlot
<1>3. generations' = [generations EXCEPT ![i] = g + 1]
    <2> HIDE DEF i, g
    <2>1. g \in Nat /\ g + 1 < GenMod
        BY <1>1, <1>2
    <2>2. (g + 1) % GenMod = g + 1
        BY <2>1
    <2> QED BY <1>2, <2>2 DEF Despawn, Free, i, g
<1>4. \A k \in 1 .. Len(freeList) : freeList[k] # i /\ freeList[k] \in Slots
    BY <1>1 DEF Running, RestoreTypeOK, TypeOK
<1>5. /\ freeList' \in Seq(Slots) /\ Len(freeList') = Len(freeList) + 1 /\ Len(freeList) \in Nat
      /\ freeList'[Len(freeList) + 1] = i /\ \A k \in 1 .. Len(freeList) : freeList'[k] = freeList[k]
    BY <1>1, <1>2 DEF RestoreTypeOK, TypeOK
<1> HIDE DEF i, g
<1>6. TypeOK'
    BY <1>1, <1>2, <1>3, <1>5 DEF RestoreTypeOK, TypeOK, Generation
<1>7. FreeListConsistent'
    <2>1. \A k \in 1 .. Len(freeList') : k = Len(freeList) + 1 \/ k \in 1 .. Len(freeList)
        BY <1>5
    <2>2. alive' = size' - Len(freeList')
        BY <1>1, <1>5 DEF RestoreTypeOK, TypeOK, Running, FreeListConsistent
    <2> QED BY <1>1, <1>2, <1>4, <1>5, <2>1, <2>2 DEF Running, FreeListConsistent
<1>8. \A j \in Slots : j < size' => generations'[j] \in 1 .. MaxGen
    BY <1>1, <1>2, <1>3 DEF Running, RestoreTypeOK, TypeOK
<1>9. \A d \in Held' : OnItsSlot(d)' /\ \A k \in 1 .. Len(freeList') : freeList'[k] # d.index
    <2> SUFFICES ASSUME NEW d \in Held, d # e
                 PROVE  OnItsSlot(d)' /\ \A k \in 1 .. Len(freeList') : freeList'[k] # d.index
        BY <1>1
    <2>1. d \in Handle /\ OnItsSlot(d) /\ \A k \in 1 .. Len(freeList) : freeList[k] # d.index
        BY <1>1 DEF Running, Held, RestoreTypeOK
    <2>2. d.index # i
        BY <1>2, <2>1, HandleFacts DEF OnItsSlot, i, g
    <2>3. OnItsSlot(d)'
        BY <1>1, <1>2, <1>3, <2>1, <2>2, HandleFacts DEF OnItsSlot, RestoreTypeOK, TypeOK
    <2>4. \A k \in 1 .. Len(freeList') : k = Len(freeList) + 1 \/ k \in 1 .. Len(freeList)
        BY <1>5
    <2> QED BY <1>5, <2>1, <2>2, <2>3, <2>4
<1>10. Running'
    BY <1>1, <1>7, <1>8, <1>9 DEF Running
<1> QED BY <1>1, <1>6, <1>10 DEF RestoreInv, RestoreTypeOK

(* The snapshot is taken of entities that sit on slots of their own.       *)
LEMMA RestartInv == ASSUME RestoreInv, Restart PROVE RestoreInv'
<1>1. /\ phase = "run" /\ Running /\ RestoreTypeOK /\ phase' = "place"
      /\ snapshot' = spawned /\ spawned' = {} /\ reserved' = {} /\ generations' = [i \in Slots |-> 0]
      /\ size' = 0 /\ freeList' = <<>> /\ alive' = 0 /\ issued' = issued
      /\ restarts' = restarts + 1 /\ restarts < MaxRestarts
    BY DEF Restart, RestoreInv
<1>2. TypeOK'
    BY <1>1 DEF RestoreTypeOK, TypeOK, Generation
<1>3. RestoreTypeOK'
    BY <1>1, <1>2 DEF RestoreTypeOK
<1>4. Used' = {}
    BY <1>1 DEF Used
<1>5. \A e \in spawned : e \in Handle /\ OnItsSlot(e)
    BY <1>1 DEF Running, Held, RestoreTypeOK
<1>6. \A d, e \in spawned : d.index = e.index => d = e
    BY <1>5, HandleFacts DEF OnItsSlot
<1>7. Placing'
    BY <1>1, <1>4, <1>5, <1>6, FS_EmptySet DEF Placing, OnItsSlot
<1> QED BY <1>1, <1>3, <1>7 DEF RestoreInv

(* A pinned entity takes a slot that was unused.                           *)
LEMMA PlaceInv == ASSUME RestoreInv, NEW e \in Handle, Place(e) PROVE RestoreInv'
<1> DEFINE i == e.index
           g == e.generation
<1>1. /\ phase = "place" /\ phase' = "place" /\ Placing /\ RestoreTypeOK /\ e \in snapshot
      /\ PlaceAt(i, g) /\ UNCHANGED <<reserved, restarts, freeList, issued>>
      /\ snapshot' = snapshot \ {e} /\ spawned' = spawned \cup {e}
    BY DEF Place, PlaceAt, RestoreInv
<1>2. i \in Slots /\ i \in Nat /\ i < MaxSlots /\ g \in 1 .. MaxGen /\ i \notin Used /\ generations[i] = 0
    BY <1>1, HandleFacts DEF Placing, Used
<1>3. /\ generations' = [generations EXCEPT ![i] = g] /\ alive' = alive + 1
      /\ size' = Max({size, i + 1})
    BY <1>1, <1>2 DEF PlaceAt
<1>4. size \in Nat /\ size' \in Nat /\ size <= size' /\ i < size' /\ size' <= MaxSlots
    <2>1. size \in Nat /\ size <= MaxSlots
        BY <1>1 DEF RestoreTypeOK, TypeOK
    <2>2. size' = IF size >= i + 1 THEN size ELSE i + 1
        BY <1>2, <1>3, <2>1, MaxOfTwo
    <2> QED BY <1>2, <2>1, <2>2
<1> HIDE DEF i, g
<1>5. TypeOK'
    BY <1>1, <1>2, <1>3, <1>4 DEF RestoreTypeOK, TypeOK, Generation
<1>6. RestoreTypeOK'
    BY <1>1, <1>5 DEF RestoreTypeOK
<1>7. Used' = Used \cup {i}
    BY <1>1, <1>2, <1>3 DEF Used, RestoreTypeOK, TypeOK
<1>8. alive' = Cardinality(Used')
    <2>1. IsFiniteSet(Used)
        BY SlotsFinite DEF Used
    <2> HIDE DEF Used
    <2>2. Cardinality(Used \cup {i}) = Cardinality(Used) + 1
        BY <1>2, <2>1, FS_AddElement
    <2> QED BY <1>1, <1>3, <1>7, <2>2 DEF Placing
<1>9. \A d \in spawned' : OnItsSlot(d)'
    <2>1. OnItsSlot(e)'
        BY <1>1, <1>2, <1>3, <1>4 DEF OnItsSlot, RestoreTypeOK, TypeOK, i, g
    <2>2. ASSUME NEW d \in spawned PROVE OnItsSlot(d)'
        <3>1. d \in Handle /\ d.index \in Slots /\ d.index \in Nat /\ OnItsSlot(d)
            BY <1>1, HandleFacts DEF Placing, RestoreTypeOK
        <3>2. d.index # i
            BY <1>2, <3>1 DEF OnItsSlot
        <3> QED BY <1>1, <1>2, <1>3, <1>4, <3>1, <3>2 DEF OnItsSlot, RestoreTypeOK, TypeOK
    <2> QED BY <1>1, <2>1, <2>2
<1>10. /\ \A j \in Used' : j < size'
       /\ \A j \in Used' : \E d \in spawned' : d.index = j
    <2>1. \A j \in Used : j \in Nat /\ j < size
        BY <1>1, HandleFacts DEF Placing, Used
    <2>2. \A j \in Used : \E d \in spawned' : d.index = j
        BY <1>1 DEF Placing
    <2>3. \E d \in spawned' : d.index = i
        BY <1>1 DEF i
    <2> QED BY <1>4, <1>7, <2>1, <2>2, <2>3
<1>11. \A d \in snapshot' : d.generation \in 1 .. MaxGen /\ d.index \notin Used'
    BY <1>1, <1>7 DEF Placing, i
<1>12. Placing'
    BY <1>1, <1>8, <1>9, <1>10, <1>11 DEF Placing
<1> QED BY <1>1, <1>6, <1>12 DEF RestoreInv

(* Once all are placed, the unused slots below the size are listed once    *)
(* each, so that as many slots are unlisted as entities were placed.       *)
LEMMA FinishInv == ASSUME RestoreInv, FinishRestore PROVE RestoreInv'
<1> DEFINE n == Cardinality(Gaps)
<1>1. /\ phase = "place" /\ phase' = "run" /\ Placing /\ RestoreTypeOK /\ snapshot = {}
      /\ UNCHANGED <<spawned, reserved, snapshot, restarts, size, alive, issued>>
      /\ generations' = [i \in Slots |-> IF i \in Gaps THEN 1 ELSE generations[i]]
    BY DEF FinishRestore, RebuildFreeList, RestoreInv
<1>2. freeList' \in [1 .. n -> Gaps] /\ \A j, k \in 1 .. n : j < k => freeList'[j] > freeList'[k]
    BY DEF FinishRestore, RebuildFreeList
<1>3. Gaps \in SUBSET Slots /\ Used \in SUBSET Slots /\ Gaps \cap Used = {}
    BY DEF Gaps, Used
<1>4. n \in Nat /\ IsFiniteSet(Gaps) /\ IsFiniteSet(Used)
    BY <1>3, SlotsFinite
<1>5. size \in Nat /\ size <= MaxSlots
    BY <1>1 DEF RestoreTypeOK, TypeOK
<1>6. Gaps \cup Used = 0 .. size - 1
    BY <1>1, <1>5 DEF Gaps, Used, Placing, Slots
<1>7. size = n + Cardinality(Used)
    <2>1. Cardinality(0 .. size - 1) = size
        BY <1>5, FS_Interval
    <2>2. Cardinality(Gaps \cap Used) = 0
        BY <1>3, FS_EmptySet
    <2>3. Cardinality(Used) \in Nat
        BY <1>4, FS_CardinalityType
    <2> HIDE DEF Gaps, Used
    <2>4. Cardinality(Gaps \cup Used) = Cardinality(Gaps) + Cardinality(Used) - Cardinality(Gaps \cap Used)
        BY <1>4, FS_Union
    <2>5. size = n + Cardinality(Used) - 0
        BY <1>6, <2>1, <2>2, <2>4
    <2> QED BY <1>4, <2>3, <2>5
<1> HIDE DEF n
<1>8. freeList' \in Seq(Slots) /\ Len(freeList') = n /\ \A k \in 1 .. n : freeList'[k] \in Gaps
    BY <1>2, <1>3, <1>4
<1>9. FreeListConsistent'
    <2>1. \A k \in 1 .. n : freeList'[k] \in Nat /\ freeList'[k] < size
        BY <1>8, HandleFacts DEF Gaps
    <2>2. \A j, k \in 1 .. n : freeList'[j] = freeList'[k] => j = k
        <3> SUFFICES ASSUME NEW j \in 1 .. n, NEW k \in 1 .. n, freeList'[j] = freeList'[k], j # k PROVE FALSE
            OBVIOUS
        <3>1. j < k \/ k < j
            BY <1>4
        <3> QED BY <1>2, <2>1, <3>1
    <2>3. alive' = size' - Len(freeList')
        <3>1. Cardinality(Used) \in Nat
            BY <1>4, FS_CardinalityType
        <3> QED BY <1>1, <1>4, <1>5, <1>7, <1>8, <3>1 DEF Placing
    <2> QED BY <1>1, <1>8, <2>1, <2>2, <2>3 DEF FreeListConsistent
<1>10. \A e \in spawned : /\ OnItsSlot(e) /\ e.index \in Slots /\ e.index \notin Gaps
                          /\ generations'[e.index] = generations[e.index]
    <2> SUFFICES ASSUME NEW e \in spawned
                 PROVE  /\ OnItsSlot(e) /\ e.index \in Slots /\ e.index \notin Gaps
                        /\ generations'[e.index] = generations[e.index]
        OBVIOUS
    <2>1. OnItsSlot(e) /\ e.index \in Slots
        BY <1>1, HandleFacts DEF Placing, RestoreTypeOK
    <2>2. e.index \notin Gaps
        BY <2>1 DEF OnItsSlot, Gaps
    <2> QED BY <1>1, <2>1, <2>2
<1>11. \A e \in Held' : OnItsSlot(e)' /\ \A k \in 1 .. Len(freeList') : freeList'[k] # e.index
    <2>1. Held' = spawned
        BY <1>1 DEF Held, Placing
    <2> QED BY <1>1, <1>8, <1>10, <2>1 DEF OnItsSlot
<1>12. \A i \in Slots : i < size' => generations'[i] \in 1 .. MaxGen
    <2> SUFFICES ASSUME NEW i \in Slots, i < size PROVE generations'[i] \in 1 .. MaxGen
        BY <1>1
    <2>1. CASE i \in Gaps
        BY <1>1, <2>1
    <2>2. CASE i \notin Gaps
        <3>1. i \in Used
            BY <2>2 DEF Gaps, Used
        <3>2. PICK e \in spawned : e.index = i
            BY <1>1, <3>1 DEF Placing
        <3> QED BY <1>1, <2>2, <3>2 DEF Placing, OnItsSlot
    <2> QED BY <2>1, <2>2
<1>13. Running'
    BY <1>1, <1>9, <1>11, <1>12 DEF Running
<1>14. TypeOK'
    <2>1. generations' \in [Slots -> Generation]
        BY <1>1 DEF RestoreTypeOK, TypeOK, Generation
    <2> QED BY <1>1, <1>8, <2>1 DEF RestoreTypeOK, TypeOK
<1> QED BY <1>1, <1>13, <1>14 DEF RestoreInv, RestoreTypeOK

-----------------------------------------------------------------------------
LEMMA InitRestore == RestoreInit => RestoreInv
<1> SUFFICES ASSUME RestoreInit PROVE RestoreInv
    OBVIOUS
<1>1. freeList = <<>> /\ Len(freeList) = 0 /\ freeList \in Seq(Slots)
    BY DEF RestoreInit, Init
<1>2. RestoreTypeOK
    BY <1>1 DEF RestoreInit, Init, RestoreTypeOK, TypeOK, Generation
<1>3. Running
    BY <1>1 DEF RestoreInit, Init, Running, FreeListConsistent, Held, Slots
<1> QED BY <1>2, <1>3 DEF RestoreInv, RestoreInit

LEMMA StepRestore == RestoreInv /\ [RestoreNext]_vars => RestoreInv'
<1> SUFFICES ASSUME RestoreInv, [RestoreNext]_vars PROVE RestoreInv'
    OBVIOUS
<1>1. ASSUME UNCHANGED vars PROVE RestoreInv'
    BY <1>1 DEF RestoreInv, RestoreTypeOK, TypeOK, Running, Placing, FreeListConsistent, Held, Used, OnItsSlot,
       vars, restoreVars, allocVars
<1> QED BY <1>1, SpawnInv, SpawnReservedInv, DespawnInv, RestartInv, PlaceInv, FinishInv DEF RestoreNext

(* The state keeps its shape through any number of reloads. *)
THEOREM RestoreTypeCorrect == RestoreSpec => []RestoreTypeOK
<1>1. RestoreInv => RestoreTypeOK
    BY DEF RestoreInv
<1> QED BY <1>1, InitRestore, StepRestore, PTL DEF RestoreSpec

(* A reload neither loses an entity nor leaves an arena that will hand out *)
(* one of its slots (allocator.go:182-204).                                *)
THEOREM RestoreConsistentHolds == RestoreSpec => []RestoreConsistent
<1>1. RestoreInv => RestoreConsistent
    <2> SUFFICES ASSUME RestoreInv, phase = "run"
                 PROVE  (\A e \in spawned : IsAlive(e)) /\
                        /\ FreeListConsistent
                        /\ \A k \in 1 .. Len(freeList) : generations[freeList[k]] # 0
                        /\ \A e \in spawned : \A k \in 1 .. Len(freeList) : freeList[k] # e.index
        BY DEF RestoreConsistent, PinnedAlive, RebuiltConsistent
    <2>1. Running /\ RestoreTypeOK
        BY DEF RestoreInv
    <2>2. \A e \in spawned : IsAlive(e)
        <3>1. \A e \in spawned : OnItsSlot(e)
            BY <2>1 DEF Running, Held
        <3> QED BY <3>1, HandleFacts DEF IsAlive, OnItsSlot
    <2>3. \A k \in 1 .. Len(freeList) : generations[freeList[k]] # 0
        BY <2>1 DEF Running, FreeListConsistent, RestoreTypeOK, TypeOK
    <2> QED BY <2>1, <2>2, <2>3 DEF Running, Held
<1> QED BY <1>1, InitRestore, StepRestore, PTL DEF RestoreSpec

-----------------------------------------------------------------------------
(* Schedule.                                                               *)
(* DAG.Build emits in rounds, each of which goes on from the last.          *)
Rounds(E, m, f) == f = [k \in 0 .. m |-> IF k = 0 THEN <<>> ELSE KahnStep(E, f[k - 1])]

LEMMA RoundsExist ==
    ASSUME NEW E
    PROVE  \A m \in Nat : \E f : Rounds(E, m, f)
<1> DEFINE S == {m \in Nat : \E f : Rounds(E, m, f)}
<1>1. 0 \in S
  <2> DEFINE f == [k \in 0 .. 0 |-> <<>>]
  <2>1. Rounds(E, 0, f)
    BY DEF Rounds
  <2> QED
    BY <2>1
<1>2. ASSUME NEW n \in Nat, n \in S PROVE n + 1 \in S
  <2>1. PICK f : Rounds(E, n, f)
    BY <1>2
  <2> DEFINE g == [k \in 0 .. n + 1 |-> IF k = n + 1 THEN KahnStep(E, f[n]) ELSE f[k]]
  <2>2. \A k \in 0 .. n : g[k] = f[k]
    OBVIOUS
  <2>3. \A k \in 0 .. n : f[k] = IF k = 0 THEN <<>> ELSE KahnStep(E, f[k - 1])
    BY <2>1 DEF Rounds
  <2>4. ASSUME NEW k \in 0 .. n + 1 PROVE g[k] = IF k = 0 THEN <<>> ELSE KahnStep(E, g[k - 1])
    <3>1. CASE k = n + 1
      <4>1. g[k] = KahnStep(E, f[n]) /\ k - 1 = n /\ n \in 0 .. n
        BY <3>1
      <4>2. g[n] = f[n]
        BY <2>2, <4>1
      <4> QED
        BY <3>1, <4>1, <4>2
    <3>2. CASE k \in 0 .. n /\ k # 0
      <4>1. k - 1 \in 0 .. n
        BY <3>2
      <4> QED
        BY <2>2, <2>3, <3>2, <4>1
    <3>3. CASE k = 0
      BY <2>2, <2>3, <3>3
    <3> QED
      BY <3>1, <3>2, <3>3
  <2>5. g = [k \in 0 .. n + 1 |-> g[k]]
    OBVIOUS
  <2> HIDE DEF g
  <2>6. g = [k \in 0 .. n + 1 |-> IF k = 0 THEN <<>> ELSE KahnStep(E, g[k - 1])]
    BY <2>4, <2>5
  <2> QED
    BY <2>6 DEF Rounds
<1> HIDE DEF S
<1>3. \A m \in Nat : m \in S
  BY <1>1, <1>2, SetInduction
<1> QED
  BY <1>3 DEF S

LEMMA KahnRounds ==
    ASSUME NEW E, Len(nodes) \in Nat
    PROVE  \E f : Rounds(E, Len(nodes), f) /\ Kahn(E) = f[Len(nodes)]
<1> DEFINE f == CHOOSE f : Rounds(E, Len(nodes), f)
<1>1. Rounds(E, Len(nodes), f)
  BY RoundsExist
<1>2. Kahn(E) = f[Len(nodes)]
  BY DEF Kahn, Rounds
<1> QED
  BY <1>1, <1>2

(* What DAG.Build has emitted after some rounds: systems of the schedule,  *)
(* each once, each after all the systems an edge puts before it.           *)
Emission(E, s) ==
    /\ s \in Seq(IDs)
    /\ \A k, l \in DOMAIN s : s[k] = s[l] => k = l
    /\ \A l \in DOMAIN s : \A e \in E : e[2] = s[l] => \E k \in DOMAIN s : k < l /\ s[k] = e[1]

Emittable(E, s) == {i \in IDs \ ToSet(s) : \A e \in E : e[2] = i => e[1] \in ToSet(s)}

(* A round emits one more system, as long as there is one to emit.         *)
LEMMA KahnStepEmits ==
    ASSUME NEW E, NEW s, Emission(E, s), nodes \in Seq(Name)
    PROVE  /\ Emission(E, KahnStep(E, s))
           /\ Emittable(E, s) = {} => KahnStep(E, s) = s
           /\ Emittable(E, s) # {} => Len(KahnStep(E, s)) = Len(s) + 1
<1>1. KahnStep(E, s) = IF Emittable(E, s) = {} THEN s
                       ELSE Append(s, CHOOSE i \in Emittable(E, s) : \A j \in Emittable(E, s) : i <= j)
  BY DEF KahnStep, Emittable
<1>2. CASE Emittable(E, s) = {}
  BY <1>1, <1>2
<1>3. CASE Emittable(E, s) # {}
  <2> DEFINE next == CHOOSE i \in Emittable(E, s) : \A j \in Emittable(E, s) : i <= j
  <2>1. Emittable(E, s) \in SUBSET Nat
    BY DEF Emittable, IDs
  <2>2. next \in Emittable(E, s)
    BY <1>3, <2>1, LeastElement
  <2> HIDE DEF next
  <2>3. KahnStep(E, s) = Append(s, next)
    BY <1>1, <1>3 DEF next
  <2>4. next \in IDs /\ next \notin ToSet(s) /\ \A e \in E : e[2] = next => e[1] \in ToSet(s)
    BY <2>2 DEF Emittable
  <2>5. PICK n \in Nat : n = Len(s)
    BY DEF Emission
  <2>6. s \in Seq(IDs) /\ DOMAIN s = 1 .. n
    BY <2>5 DEF Emission
  <2> DEFINE t == Append(s, next)
  <2>7. t \in Seq(IDs) /\ Len(t) = n + 1 /\ DOMAIN t = 1 .. n + 1
    BY <2>4, <2>5, <2>6
  <2>8. t[n + 1] = next /\ \A k \in 1 .. n : t[k] = s[k]
    BY <2>4, <2>5, <2>6
  <2> HIDE DEF t
  <2>9. \A k \in 1 .. n : s[k] # next
    BY <2>4, <2>6 DEF ToSet
  <2>10. ASSUME NEW k \in DOMAIN t, NEW l \in DOMAIN t, t[k] = t[l] PROVE k = l
    <3>1. CASE k \in 1 .. n /\ l \in 1 .. n
      BY <2>6, <2>8, <2>10, <3>1 DEF Emission
    <3>2. CASE k = n + 1 /\ l \in 1 .. n
      BY <2>8, <2>9, <2>10, <3>2
    <3>3. CASE l = n + 1 /\ k \in 1 .. n
      BY <2>8, <2>9, <2>10, <3>3
    <3> QED
      BY <2>7, <3>1, <3>2, <3>3
  <2>11. ASSUME NEW l \in DOMAIN t, NEW e \in E, e[2] = t[l] PROVE \E k \in DOMAIN t : k < l /\ t[k] = e[1]
    <3>1. CASE l \in 1 .. n
      <4>1. PICK k \in 1 .. n : k < l /\ s[k] = e[1]
        BY <2>6, <2>8, <2>11, <3>1 DEF Emission
      <4> QED
        BY <2>7, <2>8, <4>1
    <3>2. CASE l = n + 1
      <4>1. e[1] \in ToSet(s)
        BY <2>4, <2>8, <2>11, <3>2
      <4>2. PICK k \in 1 .. n : s[k] = e[1]
        BY <2>6, <4>1 DEF ToSet
      <4> QED
        BY <2>7, <2>8, <3>2, <4>2
    <3> QED
      BY <2>7, <3>1, <3>2
  <2>12. Emission(E, t)
    BY <2>7, <2>10, <2>11 DEF Emission
  <2> QED
    BY <1>3, <2>3, <2>5, <2>7, <2>12 DEF t
<1> QED
  BY <1>2, <1>3

(* After all its rounds DAG.Build has emitted every system, or none of the *)
(* others is ready.                                                        *)
LEMMA KahnEmits ==
    ASSUME NEW E, nodes \in Seq(Name)
    PROVE  /\ Emission(E, Kahn(E))
           /\ Len(Kahn(E)) <= Len(nodes)
           /\ Len(Kahn(E)) = Len(nodes) \/ Emittable(E, Kahn(E)) = {}
<1>1. PICK N \in Nat : N = Len(nodes)
  OBVIOUS
<1>2. PICK f : Rounds(E, N, f) /\ Kahn(E) = f[N]
  BY <1>1, KahnRounds
<1>3. f[0] = <<>> /\ \A k \in 0 .. N : k # 0 => f[k] = KahnStep(E, f[k - 1])
  BY <1>1, <1>2 DEF Rounds
<1> DEFINE Good(k) == /\ Emission(E, f[k])
                      /\ Len(f[k]) <= k
                      /\ Len(f[k]) = k \/ Emittable(E, f[k]) = {}
           S == {k \in Nat : k <= N => Good(k)}
<1>4. 0 \in S
  <2>1. Emission(E, <<>>)
    BY DEF Emission
  <2>2. Len(<<>>) = 0
    OBVIOUS
  <2> QED
    BY <1>3, <2>1, <2>2
<1>5. ASSUME NEW k \in Nat, k \in S PROVE k + 1 \in S
  <2>1. SUFFICES ASSUME k + 1 <= N PROVE Good(k + 1)
    OBVIOUS
  <2>2. Good(k)
    BY <1>1, <1>5, <2>1
  <2>3. k + 1 \in 0 .. N /\ k + 1 # 0 /\ (k + 1) - 1 = k
    BY <1>1, <2>1
  <2>4. f[k + 1] = KahnStep(E, f[k])
    BY <1>3, <2>3
  <2>5. PICK n \in Nat : n = Len(f[k])
    BY <2>2 DEF Emission
  <2>6. /\ Emission(E, f[k + 1])
        /\ Emittable(E, f[k]) = {} => f[k + 1] = f[k]
        /\ Emittable(E, f[k]) # {} => Len(f[k + 1]) = n + 1
    BY <2>2, <2>4, <2>5, KahnStepEmits
  <2>7. CASE Emittable(E, f[k]) = {}
    <3>1. n <= k
      BY <2>2, <2>5
    <3> QED
      BY <2>5, <2>6, <2>7, <3>1
  <2>8. CASE Emittable(E, f[k]) # {}
    <3>1. n = k
      BY <2>2, <2>5, <2>8
    <3> QED
      BY <2>6, <2>8, <3>1
  <2> QED
    BY <2>7, <2>8
<1> HIDE DEF S
<1>6. \A k \in Nat : k \in S
  BY <1>4, <1>5, SetInduction
<1>7. Good(N)
  <2>1. N \in S /\ N <= N
    BY <1>6
  <2> HIDE DEF Good
  <2> QED
    BY <2>1 DEF S
<1> QED
  BY <1>1, <1>2, <1>7

(* An emission shorter than the schedule leaves a system out.              *)
LEMMA ShortEmission ==
    ASSUME NEW E, NEW s, Emission(E, s), nodes \in Seq(Name), Len(s) < Len(nodes)
    PROVE  IDs \ ToSet(s) # {}
<1>1. PICK N \in Nat : N = Len(nodes)
  OBVIOUS
<1>2. PICK n \in Nat : n = Len(s)
  BY DEF Emission
<1>3. IDs = 1 .. N /\ DOMAIN s = 1 .. n /\ n < N
  BY <1>1, <1>2 DEF Emission, IDs
<1>4. SUFFICES ASSUME IDs \subseteq ToSet(s) PROVE FALSE
  OBVIOUS
<1> DEFINE at(i) == CHOOSE k \in 1 .. n : s[k] = i
           f == [i \in 1 .. N |-> at(i)]
<1>5. ASSUME NEW i \in 1 .. N PROVE at(i) \in 1 .. n /\ s[at(i)] = i
  <2>1. \E k \in 1 .. n : s[k] = i
    BY <1>3, <1>4 DEF ToSet
  <2> QED
    BY <2>1
<1>6. f \in [1 .. N -> 1 .. n] /\ \A i \in 1 .. N : s[f[i]] = i
  BY <1>5
<1> HIDE DEF f, at
<1>7. IsFiniteSet(1 .. N) /\ Cardinality(1 .. N) = N /\ IsFiniteSet(1 .. n) /\ Cardinality(1 .. n) = n
  <2>1. 0 \in Int /\ 1 \in Int /\ N \in Int /\ n \in Int
    OBVIOUS
  <2>2. IsFiniteSet(1 .. N) /\ Cardinality(1 .. N) = IF 1 > N THEN 0 ELSE N - 1 + 1
    BY <2>1, FS_Interval
  <2>3. IsFiniteSet(1 .. n) /\ Cardinality(1 .. n) = IF 1 > n THEN 0 ELSE n - 1 + 1
    BY <2>1, FS_Interval
  <2> QED
    BY <2>2, <2>3
<1>8. PICK i \in 1 .. N, j \in 1 .. N : i # j /\ f[i] = f[j]
  <2>1. Cardinality(1 .. n) < Cardinality(1 .. N)
    BY <1>3, <1>7
  <2> QED
    BY <1>6, <1>7, <2>1, FS_PigeonHole
<1> QED
  BY <1>6, <1>8

-----------------------------------------------------------------------------
(* The program orders systems it has added, before or after a target of    *)
(* any name.                                                               *)
Declared ==
    /\ nodes \in Seq(Name)
    /\ \A p \in befores \cup afters : p[1] \in Known

constraintVars == <<nodes, sets, befores, afters, setBefores, setAfters>>

OrderInv == Declared /\ OrderSound /\ FailsOnlyOnCycle

LEMMA ConstraintsUnchanged ==
    ASSUME UNCHANGED constraintVars
    PROVE  /\ Declared' = Declared /\ Required' = Required
           /\ IDs' = IDs /\ Unknown' = Unknown /\ SelfReference' = SelfReference
<1>1. IDs' = IDs /\ Known' = Known
  BY DEF IDs, Known, constraintVars
<1>2. Unknown' = Unknown /\ SelfReference' = SelfReference /\ Declared' = Declared
  BY <1>1 DEF Unknown, SelfReference, Declared, constraintVars
<1>3. ExplicitEdges' = ExplicitEdges
  BY <1>1 DEF ExplicitEdges, ID, MembersOf, constraintVars, IDs
<1>4. Required' = Required
  BY <1>1, <1>3 DEF Required, constraintVars, Conflicts
<1> QED
  BY <1>1, <1>2, <1>4

LEMMA OrderUnchanged ==
    ASSUME OrderInv, UNCHANGED constraintVars, UNCHANGED buildVars
    PROVE  OrderInv'
<1>1. built' = built /\ order' = order /\ err' = err
  BY DEF buildVars
<1>2. OrderSound'
  BY <1>1, ConstraintsUnchanged DEF OrderSound, OrderInv, Orders, Respects
<1>3. FailsOnlyOnCycle'
  BY <1>1, ConstraintsUnchanged DEF FailsOnlyOnCycle, OrderInv, Cyclic
<1> QED
  BY <1>2, <1>3, ConstraintsUnchanged DEF OrderInv

(* A declaration that asks for a rebuild leaves nothing to be sound.       *)
LEMMA OrderInvalidated ==
    ASSUME Invalidate, Declared'
    PROVE  OrderInv'
  BY DEF Invalidate, OrderInv, OrderSound, FailsOnlyOnCycle

(* The edges Build sorts are the required ones, between added systems.     *)
LEMMA RequiredEdges == Edges = Required
  BY DEF Edges, Required, ImplicitEdges

LEMMA EdgesBetweenSystems ==
    ASSUME Declared, ~Unknown
    PROVE  Required \subseteq IDs \X IDs
<1>1. ASSUME NEW n \in Known PROVE ID(n) \in IDs
  BY DEF Known, ID, IDs, ToSet
<1>2. \A p \in befores \cup afters : p[1] \in Known /\ p[2] \in Known
  BY DEF Declared, Unknown
<1>3. \A s : MembersOf(s) \subseteq IDs
  BY DEF MembersOf
<1>4. {<<ID(p[1]), ID(p[2])>> : p \in befores} \subseteq IDs \X IDs
  BY <1>1, <1>2
<1>5. {<<ID(p[2]), ID(p[1])>> : p \in afters} \subseteq IDs \X IDs
  BY <1>1, <1>2
<1>6. UNION {MembersOf(p[1]) \X MembersOf(p[2]) : p \in setBefores} \subseteq IDs \X IDs
  BY <1>3
<1>7. UNION {MembersOf(p[2]) \X MembersOf(p[1]) : p \in setAfters} \subseteq IDs \X IDs
  BY <1>3
<1>8. ExplicitEdges \subseteq IDs \X IDs
  BY <1>4, <1>5, <1>6, <1>7, Zenon DEF ExplicitEdges
<1> QED
  BY <1>8 DEF Required

(* A sort that emits every system is an order that respects every edge.    *)
LEMMA FullSortSound ==
    ASSUME NEW E, nodes \in Seq(Name), Len(Kahn(E)) = Len(nodes)
    PROVE  Kahn(E) \in Orders /\ Respects(Kahn(E), E)
<1> DEFINE s == Kahn(E)
<1>1. Emission(E, s)
  BY KahnEmits
<1> HIDE DEF s
<1>2. PICK N \in Nat : N = Len(nodes)
  OBVIOUS
<1>3. Len(s) = N /\ s \in Seq(IDs) /\ IDs = 1 .. N
  BY <1>1, <1>2 DEF Emission, IDs, s
<1>4. DOMAIN s = IDs /\ s \in [IDs -> IDs]
  BY <1>2, <1>3
<1>5. s \in Orders
  BY <1>1, <1>4 DEF Orders, Emission
<1>6. ASSUME NEW k \in IDs, NEW l \in IDs, <<s[k], s[l]>> \in E PROVE k < l
  <2> DEFINE e == <<s[k], s[l]>>
  <2>3. e \in E /\ e[1] = s[k] /\ e[2] = s[l]
    BY <1>6
  <2> HIDE DEF e
  <2>4. \A f \in E : f[2] = s[l] => \E m \in DOMAIN s : m < l /\ s[m] = f[1]
    BY <1>1, <1>4, Zenon DEF Emission
  <2>1. PICK m \in DOMAIN s : m < l /\ s[m] = s[k]
    BY <2>3, <2>4
  <2>2. m = k
    BY <1>1, <1>4, <2>1 DEF Emission
  <2> QED
    BY <2>1, <2>2
<1> QED
  BY <1>5, <1>6 DEF Respects, s

(* A sort that leaves a system out leaves a loop out.                      *)
LEMMA ShortSortCyclic ==
    ASSUME NEW E, E \subseteq IDs \X IDs, nodes \in Seq(Name), Len(Kahn(E)) # Len(nodes)
    PROVE  Cyclic(E)
<1> DEFINE s == Kahn(E)
           loop == IDs \ ToSet(s)
<1>1. Emission(E, s) /\ Len(s) <= Len(nodes) /\ Emittable(E, s) = {}
  BY KahnEmits
<1> HIDE DEF s
<1>2. Len(s) < Len(nodes)
  <2>1. PICK n \in Nat : n = Len(s)
    BY <1>1 DEF Emission
  <2>2. PICK N \in Nat : N = Len(nodes)
    OBVIOUS
  <2> QED
    BY <1>1, <2>1, <2>2 DEF s
<1>3. loop # {} /\ loop \subseteq IDs
  BY <1>1, <1>2, ShortEmission
<1>4. ASSUME NEW j \in loop PROVE \E i \in loop : <<i, j>> \in E
  <2>1. PICK e \in E : e[2] = j /\ e[1] \notin ToSet(s)
    BY <1>1 DEF Emittable
  <2>2. e \in IDs \X IDs
    OBVIOUS
  <2>3. e = <<e[1], e[2]>> /\ e[1] \in IDs
    BY <2>2
  <2> QED
    BY <2>1, <2>3
<1> QED
  BY <1>3, <1>4 DEF Cyclic

LEMMA OrderStep ==
    ASSUME OrderInv, ScheduleNext
    PROVE  OrderInv'
<1> USE DEF Declaring
<1>1. ASSUME NEW n \in Name, AddSystem(n) PROVE OrderInv'
  <2>1. nodes' = Append(nodes, n) /\ nodes \in Seq(Name)
    BY <1>1 DEF AddSystem, OrderInv, Declared
  <2>2. nodes' \in Seq(Name)
    BY <2>1
  <2>3. Known \subseteq Known'
    BY <2>1 DEF Known, ToSet
  <2>4. befores' = befores /\ afters' = afters
    BY <1>1 DEF AddSystem
  <2>5. Declared'
    BY <2>2, <2>3, <2>4 DEF Declared, OrderInv
  <2> QED
    BY <1>1, <2>5, OrderInvalidated DEF AddSystem
<1>2. ASSUME NEW n \in Name, NEW t \in Name \cup {NoName}, Before(n, t) \/ After(n, t) PROVE OrderInv'
  <2>1. nodes' = nodes /\ Known' = Known /\ n \in Known
    BY <1>2 DEF Before, After, Known
  <2>2. befores' \cup afters' = (befores \cup afters) \cup {<<n, t>>}
    BY <1>2 DEF Before, After
  <2>3. \A p \in befores' \cup afters' : p[1] \in Known
    BY <2>1, <2>2 DEF OrderInv, Declared
  <2>4. Declared'
    BY <2>1, <2>3 DEF Declared, OrderInv
  <2> QED
    BY <1>2, <2>4, OrderInvalidated DEF Before, After
<1>3. ASSUME NEW n \in Name, NEW s \in Set, InSet(n, s) PROVE OrderInv'
  <2>1. Declared'
    BY <1>3 DEF InSet, Declared, OrderInv, Known
  <2> QED
    BY <1>3, <2>1, OrderInvalidated DEF InSet
<1>4. ASSUME NEW s \in Set, NEW t \in Set, SetBefore(s, t) \/ SetAfter(s, t) PROVE OrderInv'
  <2>1. Declared'
    BY <1>4 DEF SetBefore, SetAfter, Declared, OrderInv, Known
  <2> QED
    BY <1>4, <2>1, OrderInvalidated DEF SetBefore, SetAfter
<1>5. ASSUME NEW n \in Name, RunIf(n) PROVE OrderInv'
  BY <1>5, OrderUnchanged DEF RunIf, constraintVars
<1>6. ASSUME NEW s \in Set, SetRunIf(s) PROVE OrderInv'
  <2>1. Declared'
    BY <1>6 DEF SetRunIf, Declared, OrderInv, Known
  <2> QED
    BY <1>6, <2>1, OrderInvalidated DEF SetRunIf
<1>7. ASSUME Build PROVE OrderInv'
  <2>1. UNCHANGED constraintVars /\ ~built
    BY <1>7 DEF Build, declVars, constraintVars
  <2>2. Declared' /\ nodes \in Seq(Name) /\ Declared
    BY <2>1, ConstraintsUnchanged DEF OrderInv, Declared
  <2>3. CASE Unknown /\ err' = "unknown" /\ UNCHANGED <<built, order>>
    <3>1. OrderSound' /\ FailsOnlyOnCycle'
      BY <2>1, <2>3 DEF OrderSound, FailsOnlyOnCycle
    <3> QED
      BY <2>2, <3>1 DEF OrderInv
  <2>4. CASE SelfReference /\ err' = "cycle" /\ UNCHANGED <<built, order>>
    <3>1. OrderSound'
      BY <2>1, <2>4 DEF OrderSound
    <3>2. FailsOnlyOnCycle'
      BY <2>1, <2>4, ConstraintsUnchanged DEF FailsOnlyOnCycle
    <3> QED
      BY <2>2, <3>1, <3>2 DEF OrderInv
  <2>5. CASE /\ ~Unknown /\ Len(Kahn(Edges)) = Len(nodes)
             /\ err' = "none" /\ built' = TRUE /\ order' = Kahn(Edges)
    <3>1. order' \in Orders /\ Respects(order', Required)
      BY <2>2, <2>5, FullSortSound, RequiredEdges
    <3>2. OrderSound'
      BY <2>1, <2>5, <3>1, ConstraintsUnchanged DEF OrderSound, Orders, Respects
    <3>3. FailsOnlyOnCycle'
      BY <2>5 DEF FailsOnlyOnCycle
    <3> QED
      BY <2>2, <3>2, <3>3 DEF OrderInv
  <2>6. CASE ~Unknown /\ Len(Kahn(Edges)) # Len(nodes) /\ err' = "cycle" /\ UNCHANGED <<built, order>>
    <3>1. Cyclic(Required)
      BY <2>2, <2>6, ShortSortCyclic, RequiredEdges, EdgesBetweenSystems
    <3>2. FailsOnlyOnCycle'
      BY <2>1, <2>6, <3>1, ConstraintsUnchanged DEF FailsOnlyOnCycle, Cyclic
    <3>3. OrderSound'
      BY <2>1, <2>6 DEF OrderSound
    <3> QED
      BY <2>2, <3>2, <3>3 DEF OrderInv
  <2> QED
    BY <1>7, <2>3, <2>4, <2>5, <2>6 DEF Build
<1>8. ASSUME StartRun \/ RunSystem \/ SkipSystem \/ Panic \/ Flush PROVE OrderInv'
  <2>1. UNCHANGED declVars /\ UNCHANGED buildVars
    BY <1>8 DEF StartRun, RunSystem, SkipSystem, Panic, Flush
  <2> QED
    BY <2>1, OrderUnchanged DEF declVars, constraintVars
<1> QED
  BY <1>1, <1>2, <1>3, <1>4, <1>5, <1>6, <1>7, <1>8 DEF ScheduleNext

(* The schedule's order invariant holds for any systems, sets, constraints *)
(* and access sets, declared in any order.                                 *)
THEOREM OrderInvariant == ScheduleSpec => []OrderInv
<1>1. ScheduleInit => OrderInv
  <2> SUFFICES ASSUME ScheduleInit PROVE OrderInv
    OBVIOUS
  <2>1. Declared
    BY DEF ScheduleInit, Declared
  <2> QED
    BY <2>1 DEF ScheduleInit, OrderInv, OrderSound, FailsOnlyOnCycle
<1>2. OrderInv /\ [ScheduleNext]_scheduleVars => OrderInv'
  <2> SUFFICES ASSUME OrderInv, [ScheduleNext]_scheduleVars PROVE OrderInv'
    OBVIOUS
  <2>1. CASE UNCHANGED scheduleVars
    BY <2>1, OrderUnchanged DEF scheduleVars, declVars, constraintVars
  <2> QED
    BY <2>1, OrderStep
<1> QED
  BY <1>1, <1>2, PTL DEF ScheduleSpec

(* dag.go, schedule.go:73-78.  The order Build emits has every system      *)
(* once, and each after all that the constraints and conflicts put before. *)
THEOREM OrderSoundHolds == ScheduleSpec => []OrderSound
<1>1. OrderInv => OrderSound
  BY DEF OrderInv
<1> QED
  BY <1>1, OrderInvariant, PTL

(* dag.go.  When Build reports a cycle, a system is ordered against itself *)
(* or the edges it has to respect have one.                                *)
THEOREM FailsOnlyOnCycleHolds == ScheduleSpec => []FailsOnlyOnCycle
<1>1. OrderInv => FailsOnlyOnCycle
  BY DEF OrderInv
<1> QED
  BY <1>1, OrderInvariant, PTL

-----------------------------------------------------------------------------
AllFailed(from, to) == from .. to \subseteq failed

(* Every run since a buffered command's ended in a panic, but the current  *)
(* one; no flush was in a run that did.                                    *)
CommandInv ==
    /\ run \in Nat /\ running \in BOOLEAN
    /\ failed \subseteq 1 .. run
    /\ running => run # 0 /\ run \notin failed
    /\ \A c \in buffered :
        /\ c = [system |-> c.system, run |-> c.run]
        /\ c.run \in 1 .. run
        /\ AllFailed(c.run, IF running THEN run - 1 ELSE run)
    /\ \A f \in flushed :
        /\ f.run \in Nat /\ f.at \in f.run .. run
        /\ running => f.at # run
        /\ f.at \notin failed
        /\ AllFailed(f.run, f.at - 1)
    /\ given = buffered \cup {[system |-> f.system, run |-> f.run] : f \in flushed}

LEMMA CommandStep ==
    ASSUME CommandInv, ScheduleNext
    PROVE  CommandInv'
<1> USE DEF Declaring, runVars, CommandInv
<1>1. ASSUME \/ \E n \in Name : AddSystem(n) \/ RunIf(n)
             \/ \E n \in Name, t \in Name \cup {NoName} : Before(n, t) \/ After(n, t)
             \/ \E n \in Name, s \in Set : InSet(n, s)
             \/ \E s \in Set, t \in Set : SetBefore(s, t) \/ SetAfter(s, t)
             \/ \E s \in Set : SetRunIf(s)
             \/ Build
      PROVE  CommandInv'
  <2>1. UNCHANGED runVars
    BY <1>1 DEF AddSystem, RunIf, Before, After, InSet, SetBefore, SetAfter, SetRunIf, Build
  <2> QED
    BY <2>1 DEF AllFailed
<1>2. ASSUME StartRun PROVE CommandInv'
  <2>1. /\ ~running /\ running' = TRUE /\ run' = run + 1
        /\ buffered' = buffered /\ flushed' = flushed /\ given' = given /\ failed' = failed
    BY <1>2 DEF StartRun
  <2>2. run \in Nat /\ run' \in Nat /\ failed' \subseteq 1 .. run' /\ run' \notin failed'
    BY <2>1
  <2>3. ASSUME NEW c \in buffered'
        PROVE  /\ c = [system |-> c.system, run |-> c.run] /\ c.run \in 1 .. run'
               /\ c.run .. run' - 1 \subseteq failed'
    BY <2>1, <2>2 DEF AllFailed
  <2>4. ASSUME NEW f \in flushed'
        PROVE  /\ f.run \in Nat /\ f.at \in f.run .. run' /\ f.at # run'
               /\ f.at \notin failed' /\ f.run .. f.at - 1 \subseteq failed'
    BY <2>1, <2>2 DEF AllFailed
  <2> QED
    BY <2>1, <2>2, <2>3, <2>4 DEF AllFailed
<1>3. ASSUME NEW n, MayBuffer(n), running
      PROVE  /\ given' = buffered' \cup {[system |-> f.system, run |-> f.run] : f \in flushed}
             /\ \A c \in buffered' :
                    /\ c = [system |-> c.system, run |-> c.run] /\ c.run \in 1 .. run
                    /\ c.run .. run - 1 \subseteq failed
  <2>1. PICK cmds \in SUBSET {[system |-> n, run |-> run]} :
            buffered' = buffered \cup cmds /\ given' = given \cup cmds
    BY <1>3 DEF MayBuffer
  <2>2. run # 0
    BY <1>3
  <2>3. \A c \in cmds : c = [system |-> n, run |-> run]
    OBVIOUS
  <2>4. \A c \in cmds : c.run = run /\ c.system = n
    BY <2>3
  <2> QED
    BY <1>3, <2>1, <2>2, <2>3, <2>4 DEF AllFailed
<1>4. ASSUME RunSystem \/ SkipSystem PROVE CommandInv'
  <2>1. running /\ running' = running /\ run' = run /\ flushed' = flushed /\ failed' = failed
    BY <1>4 DEF RunSystem, SkipSystem
  <2>2. /\ given' = buffered' \cup {[system |-> f.system, run |-> f.run] : f \in flushed}
        /\ \A c \in buffered' :
            /\ c = [system |-> c.system, run |-> c.run] /\ c.run \in 1 .. run
            /\ c.run .. run - 1 \subseteq failed
    BY <1>3, <1>4, <2>1 DEF RunSystem, SkipSystem, AllFailed
  <2> QED
    BY <2>1, <2>2 DEF AllFailed
<1>5. ASSUME Panic PROVE CommandInv'
  <2>1. running /\ running' = FALSE /\ run' = run /\ flushed' = flushed /\ failed' = failed \cup {run}
    BY <1>5 DEF Panic
  <2>2. /\ given' = buffered' \cup {[system |-> f.system, run |-> f.run] : f \in flushed}
        /\ \A c \in buffered' :
            /\ c = [system |-> c.system, run |-> c.run] /\ c.run \in 1 .. run
            /\ c.run .. run - 1 \subseteq failed
    BY <1>3, <1>5, <2>1 DEF Panic
  <2>3. failed' \subseteq 1 .. run'
    BY <2>1
  <2>4. ASSUME NEW c \in buffered'
        PROVE  c.run .. run' \subseteq failed'
    <3>1. c.run \in 1 .. run /\ c.run .. run - 1 \subseteq failed /\ run \in Nat
      BY <2>2
    <3> QED
      BY <2>1, <3>1
  <2>5. ASSUME NEW f \in flushed'
        PROVE  /\ f.run \in Nat /\ f.at \in f.run .. run'
               /\ f.at \notin failed' /\ f.run .. f.at - 1 \subseteq failed'
    BY <2>1 DEF AllFailed
  <2> QED
    BY <2>1, <2>2, <2>3, <2>4, <2>5 DEF AllFailed
<1>6. ASSUME Flush PROVE CommandInv'
  <2>1. /\ running /\ running' = FALSE /\ run' = run /\ given' = given /\ failed' = failed
        /\ buffered' = {}
        /\ flushed' = flushed \cup {[system |-> c.system, run |-> c.run, at |-> run] : c \in buffered}
    BY <1>6 DEF Flush
  <2>2. ASSUME NEW c \in buffered
        PROVE  c = [system |-> c.system, run |-> c.run] /\ c.run \in 1 .. run /\ c.run .. run - 1 \subseteq failed
    BY <2>1 DEF AllFailed
  <2>3. run \in Nat /\ run \notin failed
    BY <2>1
  <2>4. ASSUME NEW f \in flushed'
        PROVE  /\ f.run \in Nat /\ f.at \in f.run .. run
               /\ f.at \notin failed /\ f.run .. f.at - 1 \subseteq failed
    <3>1. CASE f \in flushed
      BY <3>1 DEF AllFailed
    <3>2. CASE f \notin flushed
      <4>1. PICK c \in buffered : f = [system |-> c.system, run |-> c.run, at |-> run]
        BY <2>1, <3>2
      <4>2. f.run = c.run /\ f.at = run
        BY <4>1
      <4>3. c.run \in Nat /\ run \in c.run .. run
        BY <2>2, <2>3
      <4> QED
        BY <2>2, <2>3, <4>2, <4>3
    <3> QED
      BY <3>1, <3>2
  <2> DEFINE of(f) == [system |-> f.system, run |-> f.run]
  <2>5. {of(f) : f \in flushed'} = {of(f) : f \in flushed} \cup buffered
    <3> DEFINE done(c) == [system |-> c.system, run |-> c.run, at |-> run]
    <3>1. ASSUME NEW c \in buffered PROVE of(done(c)) = c
      <4>1. done(c).system = c.system /\ done(c).run = c.run
        OBVIOUS
      <4> QED
        BY <2>2, <4>1
    <3>2. flushed' = flushed \cup {done(c) : c \in buffered}
      BY <2>1
    <3> HIDE DEF of, done
    <3> QED
      BY <3>1, <3>2
  <2>6. given' = buffered' \cup {of(f) : f \in flushed'}
    BY <2>1, <2>5
  <2> QED
    BY <2>1, <2>3, <2>4, <2>6 DEF AllFailed
<1> QED
  BY <1>1, <1>2, <1>4, <1>5, <1>6 DEF ScheduleNext

LEMMA CommandInvKeeps == CommandInv => CommandsKept
  BY DEF CommandInv, CommandsKept, AllFailed

(* The invariant of the command buffers a schedule keeps over its runs,    *)
(* however many of them end in a panic.                                    *)
THEOREM CommandInvariant == ScheduleSpec => []CommandInv
<1>1. ScheduleInit => CommandInv
  <2> SUFFICES ASSUME ScheduleInit PROVE CommandInv
    OBVIOUS
  <2>1. run = 0 /\ ~running /\ running \in BOOLEAN /\ failed = {} /\ buffered = {} /\ flushed = {} /\ given = {}
    BY DEF ScheduleInit
  <2>2. given = buffered \cup {[system |-> f.system, run |-> f.run] : f \in flushed}
    BY <2>1
  <2> QED
    BY <2>1, <2>2 DEF CommandInv
<1>2. CommandInv /\ [ScheduleNext]_scheduleVars => CommandInv'
  <2>1. CommandInv /\ UNCHANGED scheduleVars => CommandInv'
    BY DEF scheduleVars, runVars, CommandInv, AllFailed
  <2> QED
    BY <2>1, CommandStep
<1> QED
  BY <1>1, <1>2, PTL DEF ScheduleSpec

(* executor.go:45-52.  No buffered command is lost when a run ends in a    *)
(* panic: the first run that does not flushes it.                          *)
THEOREM CommandsKeptHolds == ScheduleSpec => []CommandsKept
  BY CommandInvariant, CommandInvKeeps, PTL

-----------------------------------------------------------------------------
(* Scenes. *)

(* The entities so far; what the world, the scene and the instances hold.  *)
Spawned == 1 .. nextEntity - 1

WorldSound ==
    /\ nextEntity \in Nat \ {0}
    /\ DOMAIN world \subseteq Spawned /\ world = [e \in DOMAIN world |-> world[e]]

(* A scene has the entities that were captured, with their fields.         *)
SceneSound ==
    /\ Len(scene) \in Nat /\ DOMAIN scene = 1 .. Len(scene)
    /\ \A id : id \in DOMAIN captured <=> \E k \in DOMAIN scene : scene[k].id = id
    /\ \A k \in DOMAIN scene : scene[k].field = captured[scene[k].id].field

InstancesSound ==
    /\ instances \in Seq(SUBSET Spawned)
    /\ \A i, j \in DOMAIN instances : i # j => instances[i] \cap instances[j] = {}

OriginsSound ==
    /\ DOMAIN origin \subseteq Spawned
    /\ \A e \in DOMAIN world \cap DOMAIN origin :
            world[e].field = Translated(origin[e], origin[e].captured[origin[e].of].field)

SceneInv == WorldSound /\ SceneSound /\ InstancesSound /\ OriginsSound

LEMMA SceneInvInit == SceneInit => SceneInv
<1> SUFFICES ASSUME SceneInit PROVE SceneInv
  OBVIOUS
<1>1. WorldSound
  BY DEF SceneInit, WorldSound
<1>2. SceneSound
  BY DEF SceneInit, SceneSound
<1>3. InstancesSound
  BY DEF SceneInit, InstancesSound
<1>4. OriginsSound
  BY DEF SceneInit, OriginsSound
<1> QED
  BY <1>1, <1>2, <1>3, <1>4 DEF SceneInv

LEMMA SpawnRefsStep ==
    ASSUME SceneInv, NEW ref \in Refs, SpawnRefs(ref)
    PROVE  SceneInv'
<1> DEFINE n == nextEntity
           new == [e \in {n} |-> [field |-> ref, slice |-> Len(heap) + 1]]
<1>1. /\ n \in Nat \ {0} /\ DOMAIN world \subseteq 1 .. n - 1 /\ DOMAIN origin \subseteq 1 .. n - 1
  BY DEF SceneInv, WorldSound, OriginsSound, Spawned
<1>2. nextEntity' = n + 1 /\ world' = Merge(world, new) /\ UNCHANGED <<scene, instances, captured, origin>>
  BY DEF SpawnRefs
<1>3. /\ DOMAIN world' = DOMAIN world \cup {n}
      /\ \A e \in DOMAIN world' : world'[e] = IF e = n THEN new[n] ELSE world[e]
      /\ world' = [e \in DOMAIN world' |-> world'[e]]
  BY <1>2 DEF Merge
<1> HIDE DEF new
<1>4. WorldSound'
  <2>1. DOMAIN world' \subseteq 1 .. n /\ Spawned' = 1 .. n
    BY <1>1, <1>2, <1>3 DEF Spawned
  <2> QED
    BY <1>1, <1>2, <1>3, <2>1 DEF WorldSound
<1>5. Spawned \subseteq Spawned'
  BY <1>1, <1>2 DEF Spawned
<1>6. SceneSound'
  BY <1>2 DEF SceneInv, SceneSound
<1>7. InstancesSound'
  BY <1>2, <1>5 DEF SceneInv, InstancesSound
<1>8. OriginsSound'
  <2>1. ASSUME NEW e \in DOMAIN world' \cap DOMAIN origin' PROVE world'[e] = world[e] /\ e \in DOMAIN world \cap DOMAIN origin
    <3>1. e # n
      BY <1>1, <1>2
    <3> QED
      BY <1>2, <1>3, <3>1
  <2> QED
    BY <1>2, <1>5, <2>1 DEF SceneInv, OriginsSound, Translated
<1> QED
  BY <1>4, <1>6, <1>7, <1>8 DEF SceneInv

LEMMA RewireStep ==
    ASSUME SceneInv, NEW e \in DOMAIN world, NEW ref \in Refs, Rewire(e, ref)
    PROVE  SceneInv'
<1>1. nextEntity \in Nat \ {0} /\ DOMAIN world \subseteq Spawned /\ world = [x \in DOMAIN world |-> world[x]]
  BY DEF SceneInv, WorldSound
<1>2. /\ world' = [world EXCEPT ![e].field = ref]
      /\ UNCHANGED <<nextEntity, scene, instances, captured, origin>>
      /\ e \notin DOMAIN origin
  BY DEF Rewire
<1>3. /\ DOMAIN world' = DOMAIN world /\ world' = [x \in DOMAIN world' |-> world'[x]]
      /\ \A x \in DOMAIN world : x # e => world'[x] = world[x]
  BY <1>2
<1>4. WorldSound'
  BY <1>1, <1>2, <1>3 DEF WorldSound, Spawned
<1>5. SceneSound' /\ InstancesSound'
  BY <1>2 DEF SceneInv, SceneSound, InstancesSound, Spawned
<1>6. OriginsSound'
  BY <1>2, <1>3 DEF SceneInv, OriginsSound, Spawned, Translated
<1> QED
  BY <1>4, <1>5, <1>6 DEF SceneInv

LEMMA BuildSceneStep ==
    ASSUME SceneInv, NEW only \in SUBSET DOMAIN world, BuildScene(only)
    PROVE  SceneInv'
<1>1. nextEntity \in Nat \ {0} /\ DOMAIN world \subseteq 1 .. nextEntity - 1
  BY DEF SceneInv, WorldSound, Spawned
<1>2. PICK listed \in ByID(only) :
        /\ scene' = [k \in DOMAIN listed |-> [id |-> listed[k], field |-> world[listed[k]].field, slice |-> world[listed[k]].slice]]
        /\ captured' = [e \in only |-> [field |-> world[e].field, held |-> heap[world[e].slice]]]
        /\ UNCHANGED <<world, heap, nextEntity, instances, origin>>
  BY DEF BuildScene
<1> DEFINE n == Cardinality(only)
<1>3. IsFiniteSet(only) /\ n \in Nat
  <2>1. IsFiniteSet(1 .. nextEntity - 1)
    <3>1. 1 \in Int /\ nextEntity - 1 \in Int
      BY <1>1
    <3> QED
      BY <3>1, FS_Interval, Zenon
  <2>2. only \subseteq 1 .. nextEntity - 1
    BY <1>1
  <2>3. IsFiniteSet(only)
    BY <2>1, <2>2, FS_Subset, Zenon
  <2> QED
    BY <2>3, FS_CardinalityType
<1>4. listed \in [1 .. n -> only] /\ \A i, j \in 1 .. n : i # j => listed[i] # listed[j]
  BY <1>2 DEF ByID, SetToSeqs
<1>5. \A d \in only : \E k \in 1 .. n : listed[k] = d
  <2>1. listed \in Injection(1 .. n, only)
    BY <1>4 DEF Injection, IsInjective
  <2>2. IsFiniteSet(1 .. n) /\ Cardinality(1 .. n) = n
    <3>1. 1 \in Int /\ n \in Int
      BY <1>3
    <3>2. IsFiniteSet(1 .. n) /\ Cardinality(1 .. n) = IF 1 > n THEN 0 ELSE n - 1 + 1
      BY <3>1, FS_Interval
    <3> QED
      BY <1>3, <3>2
  <2>3. listed \in Surjection(1 .. n, only)
    BY <1>3, <2>1, <2>2, FS_Injection
  <2> QED
    BY <2>3 DEF Surjection
<1> HIDE DEF n
<1>6. DOMAIN scene' = 1 .. n /\ DOMAIN captured' = only /\ Len(scene') = n
  BY <1>2, <1>3, <1>4
<1>7. ASSUME NEW k \in 1 .. n
      PROVE  scene'[k].id = listed[k] /\ scene'[k].field = captured'[listed[k]].field /\ listed[k] \in only
  <2>1. listed[k] \in only
    BY <1>4
  <2>2. scene'[k] = [id |-> listed[k], field |-> world[listed[k]].field, slice |-> world[listed[k]].slice]
    BY <1>2, <1>4
  <2>3. captured'[listed[k]].field = world[listed[k]].field
    BY <1>2, <2>1
  <2> QED
    BY <2>1, <2>2, <2>3
<1>8. SceneSound'
  BY <1>3, <1>5, <1>6, <1>7 DEF SceneSound
<1>9. WorldSound' /\ InstancesSound' /\ OriginsSound'
  BY <1>2 DEF SceneInv, WorldSound, InstancesSound, OriginsSound, Spawned, Translated
<1> QED
  BY <1>8, <1>9 DEF SceneInv

(* Position finds an entity exactly if the scene has it.                   *)
LEMMA PositionFinds ==
    ASSUME SceneSound, NEW id
    PROVE  Position(id) # 0 <=> id \in DOMAIN captured
<1> DEFINE I == {k \in 1 .. Len(scene) : scene[k].id = id}
<1>1. DOMAIN scene = 1 .. Len(scene) /\ Len(scene) \in Nat
  BY DEF SceneSound
<1>2. Position(id) = IF I # {} THEN Min(I) ELSE 0
  BY DEF Position, SelectInSeq
<1>3. I # {} <=> id \in DOMAIN captured
  BY <1>1 DEF SceneSound
<1>4. ASSUME I # {} PROVE Min(I) # 0
  <2>1. I \in SUBSET Nat
    BY <1>1
  <2>2. PICK m \in I : \A j \in I : m <= j
    BY <1>4, <2>1, LeastElement
  <2>3. Min(I) \in I
    BY <2>2 DEF Min
  <2> QED
    BY <2>3
<1> QED
  BY <1>2, <1>3, <1>4

LEMMA SpawnInstanceStep ==
    ASSUME SceneInv, SpawnInstance
    PROVE  SceneInv'
<1> DEFINE n == nextEntity
           len == Len(scene)
           entities == {Counterpart(k) : k \in DOMAIN scene}
           position(e) == e - n + 1
           fresh == [e \in entities |-> [field |-> Remapped(position(e), scene[position(e)].field), slice |-> scene[position(e)].slice]]
           made == [id \in DOMAIN captured |-> Counterpart(Position(id))]
           born == [e \in entities |-> [made |-> made, of |-> scene[position(e)].id, captured |-> captured]]
<1>1. /\ n \in Nat \ {0} /\ DOMAIN world \subseteq 1 .. n - 1 /\ DOMAIN origin \subseteq 1 .. n - 1
      /\ len \in Nat /\ DOMAIN scene = 1 .. len
  BY DEF SceneInv, WorldSound, SceneSound, OriginsSound, Spawned
<1>2. /\ nextEntity' = n + len /\ world' = Merge(world, fresh) /\ origin' = Merge(origin, born)
      /\ instances' = Append(instances, entities) /\ UNCHANGED <<scene, captured>>
  BY DEF SpawnInstance
<1>3. entities = n .. n + len - 1 /\ \A e \in entities : position(e) \in 1 .. len
  <2>1. \A k \in 1 .. len : Counterpart(k) = n + k - 1
    BY DEF Counterpart
  <2>2. ASSUME NEW e \in n .. n + len - 1 PROVE e - n + 1 \in 1 .. len /\ e = n + (e - n + 1) - 1
    BY <1>1
  <2>3. ASSUME NEW k \in 1 .. len PROVE n + k - 1 \in n .. n + len - 1
    BY <1>1
  <2>4. entities = {n + k - 1 : k \in 1 .. len}
    BY <1>1, <2>1
  <2>5. entities = n .. n + len - 1
    BY <2>2, <2>3, <2>4
  <2> QED
    BY <2>2, <2>5
<1>4. entities \cap (1 .. n - 1) = {} /\ Spawned' = Spawned \cup entities /\ Spawned \cap entities = {}
  <2>1. Spawned = 1 .. n - 1 /\ Spawned' = 1 .. n + len - 1
    <3>1. Spawned' = 1 .. nextEntity' - 1
      BY DEF Spawned
    <3>2. nextEntity' = n + len
      BY <1>2, Zenon
    <3>3. Spawned = 1 .. n - 1
      BY DEF Spawned
    <3>4. n + len - 1 = (n + len) - 1
      BY <1>1
    <3> QED
      BY <3>1, <3>2, <3>3, <3>4, Zenon
  <2>2. 1 .. n + len - 1 = (1 .. n - 1) \cup (n .. n + len - 1)
    BY <1>1
  <2>3. (n .. n + len - 1) \cap (1 .. n - 1) = {}
    BY <1>1
  <2> QED
    BY <1>3, <2>1, <2>2, <2>3, Zenon
<1>5. /\ DOMAIN world' = DOMAIN world \cup entities /\ world' = [e \in DOMAIN world' |-> world'[e]]
      /\ \A e \in DOMAIN world' : world'[e] = IF e \in entities THEN fresh[e] ELSE world[e]
  BY <1>2 DEF Merge
<1>6. /\ DOMAIN origin' = DOMAIN origin \cup entities
      /\ \A e \in DOMAIN origin' : origin'[e] = IF e \in entities THEN born[e] ELSE origin[e]
  BY <1>2 DEF Merge
<1>7. ASSUME NEW e \in entities
      PROVE  fresh[e].field = Translated(born[e], born[e].captured[born[e].of].field)
  <2> DEFINE entry == scene[position(e)]
             ref == entry.field
  <2>1. /\ fresh[e].field = Remapped(position(e), ref)
        /\ born[e].made = made /\ born[e].of = entry.id /\ born[e].captured = captured
    OBVIOUS
  <2>2. ref = captured[entry.id].field
    <3>1. position(e) \in 1 .. len
      BY <1>3
    <3> QED
      BY <1>1, <3>1 DEF SceneInv, SceneSound
  <2> HIDE DEF entry
  <2>3. Position(ref) # 0 <=> ref \in DOMAIN captured
    BY PositionFinds DEF SceneInv
  <2>4. Translated(born[e], ref) = IF ref \in DOMAIN captured THEN Counterpart(Position(ref)) ELSE ref
    <3>1. DOMAIN made = DOMAIN captured /\ (ref \in DOMAIN captured => made[ref] = Counterpart(Position(ref)))
      OBVIOUS
    <3> HIDE DEF made, born, ref
    <3> QED
      BY <2>1, <3>1 DEF Translated
  <2>5. Remapped(position(e), ref) = IF Position(ref) # 0 THEN Counterpart(Position(ref)) ELSE ref
    BY DEF Remapped
  <2> HIDE DEF fresh, born, position, ref
  <2> QED
    BY <2>1, <2>2, <2>3, <2>4, <2>5
<1> HIDE DEF fresh, born, entities, position, made
<1>8. WorldSound'
  <2>1. nextEntity' \in Nat \ {0}
    BY <1>1, <1>2
  <2>2. DOMAIN world' \subseteq Spawned'
    BY <1>4, <1>5 DEF SceneInv, WorldSound
  <2> QED
    BY <1>5, <2>1, <2>2 DEF WorldSound
<1>9. SceneSound'
  BY <1>2 DEF SceneInv, SceneSound
<1>10. InstancesSound'
  <2>1. instances \in Seq(SUBSET Spawned) /\ \A i, j \in DOMAIN instances : i # j => instances[i] \cap instances[j] = {}
    BY DEF SceneInv, InstancesSound
  <2>2. \A s : s \in Seq(SUBSET Spawned) => s \in Seq(SUBSET Spawned')
    BY <1>4
  <2>3. instances' \in Seq(SUBSET Spawned')
    BY <1>2, <1>4, <2>1, <2>2
  <2>4. ASSUME NEW i \in DOMAIN instances', NEW j \in DOMAIN instances', i # j PROVE instances'[i] \cap instances'[j] = {}
    <3> DEFINE l == Len(instances)
    <3>1. /\ DOMAIN instances' = 1 .. l + 1 /\ l \in Nat /\ DOMAIN instances = 1 .. l
          /\ instances'[l + 1] = entities /\ \A k \in 1 .. l : instances'[k] = instances[k] /\ instances[k] \subseteq Spawned
      BY <1>2, <2>1
    <3> HIDE DEF l
    <3>2. i \in 1 .. l \/ i = l + 1
      BY <3>1
    <3>3. j \in 1 .. l \/ j = l + 1
      BY <3>1
    <3> QED
      BY <1>4, <2>1, <2>4, <3>1, <3>2, <3>3
  <2> QED
    BY <2>3, <2>4 DEF InstancesSound
<1>11. OriginsSound'
  <2>1. DOMAIN origin' \subseteq Spawned'
    BY <1>4, <1>6 DEF SceneInv, OriginsSound
  <2>2. ASSUME NEW e \in DOMAIN world' \cap DOMAIN origin'
        PROVE  world'[e].field = Translated(origin'[e], origin'[e].captured[origin'[e].of].field)
    <3>1. CASE e \in entities
      BY <1>5, <1>6, <1>7, <3>1
    <3>2. CASE e \notin entities
      BY <1>5, <1>6, <3>2 DEF SceneInv, OriginsSound
    <3> QED
      BY <3>1, <3>2
  <2> QED
    BY <2>1, <2>2 DEF OriginsSound, Translated
<1> QED
  BY <1>8, <1>9, <1>10, <1>11 DEF SceneInv

LEMMA DespawnedKeeps ==
    ASSUME SceneInv, NEW gone, Despawned(gone), instances' \in Seq(SUBSET Spawned),
           \A i, j \in DOMAIN instances' : i # j => instances'[i] \cap instances'[j] = {}
    PROVE  SceneInv'
<1>1. world' = [e \in DOMAIN world \ gone |-> world[e]] /\ UNCHANGED <<nextEntity, scene, captured, origin>>
  BY DEF Despawned
<1>2. /\ DOMAIN world' = DOMAIN world \ gone /\ world' = [e \in DOMAIN world' |-> world'[e]]
      /\ \A e \in DOMAIN world' : world'[e] = world[e]
  BY <1>1
<1>3. Spawned' = Spawned
  BY <1>1 DEF Spawned
<1>4. WorldSound' /\ SceneSound' /\ InstancesSound'
  BY <1>1, <1>2, <1>3 DEF SceneInv, WorldSound, SceneSound, InstancesSound
<1>5. OriginsSound'
  BY <1>1, <1>2, <1>3 DEF SceneInv, OriginsSound, Translated
<1> QED
  BY <1>4, <1>5 DEF SceneInv

LEMMA DespawnInstanceStep ==
    ASSUME SceneInv, NEW i \in DOMAIN instances, DespawnInstance(i)
    PROVE  SceneInv'
<1>1. Despawned(instances[i]) /\ instances' = [instances EXCEPT ![i] = {}]
  BY DEF DespawnInstance
<1>2. instances \in Seq(SUBSET Spawned) /\ \A j, k \in DOMAIN instances : j # k => instances[j] \cap instances[k] = {}
  BY DEF SceneInv, InstancesSound
<1>3. instances' \in Seq(SUBSET Spawned) /\ DOMAIN instances' = DOMAIN instances
  BY <1>1, <1>2
<1>4. \A j \in DOMAIN instances : instances'[j] = IF j = i THEN {} ELSE instances[j]
  BY <1>1
<1> QED
  BY <1>1, <1>2, <1>3, <1>4, DespawnedKeeps

(* The inductive invariant of scenes: the world and the instances have     *)
(* entities that were spawned, a scene has what was captured, and what     *)
(* refers within an instance was translated with its own table.            *)
THEOREM SceneInvariant == SceneSpec => []SceneInv
<1>1. SceneInv /\ [SceneNext]_sceneVars => SceneInv'
  <2> SUFFICES ASSUME SceneInv, [SceneNext]_sceneVars PROVE SceneInv'
    OBVIOUS
  <2>1. ASSUME NEW ref \in Refs, SpawnRefs(ref) PROVE SceneInv'
    BY <2>1, SpawnRefsStep
  <2>2. ASSUME NEW e \in DOMAIN world, DespawnOne(e) PROVE SceneInv'
    <3>1. Despawned({e}) /\ instances' = instances
      BY <2>2 DEF DespawnOne
    <3>2. InstancesSound
      BY DEF SceneInv
    <3> QED
      BY <3>1, <3>2, DespawnedKeeps DEF InstancesSound
  <2>3. ASSUME NEW e \in DOMAIN world, NEW ref \in Refs, Rewire(e, ref) PROVE SceneInv'
    BY <2>3, RewireStep
  <2>4. ASSUME NEW only \in SUBSET DOMAIN world \ {{}}, BuildScene(only) PROVE SceneInv'
    BY <2>4, BuildSceneStep
  <2>5. ASSUME SpawnInstance PROVE SceneInv'
    BY <2>5, SpawnInstanceStep
  <2>6. ASSUME NEW i \in DOMAIN instances, DespawnInstance(i) PROVE SceneInv'
    BY <2>6, DespawnInstanceStep
  <2>7. ASSUME UNCHANGED sceneVars PROVE SceneInv'
    BY <2>7 DEF sceneVars, SceneInv, WorldSound, SceneSound, InstancesSound, OriginsSound, Spawned, Translated
  <2> QED
    BY <2>1, <2>2, <2>3, <2>4, <2>5, <2>6, <2>7 DEF SceneNext
<1> QED
  BY <1>1, SceneInvInit, PTL DEF SceneSpec

(* INV-4 and INV-5 of scenes (dynamic.go:15, spawn.go:41): instances are   *)
(* isolated, for any entities, references and listed of captures, spawns,   *)
(* changes and despawns.                                                   *)
THEOREM InstancesIsolatedHolds == SceneSpec => []InstancesIsolated
<1>1. SceneInv => InstancesIsolated
  BY DEF SceneInv, SceneSound, InstancesSound, OriginsSound, InstancesIsolated
<1> QED
  BY <1>1, SceneInvariant, PTL

-----------------------------------------------------------------------------
(* Rollback. *)

(* Entries of a history, of ticks between two, with any of these sums.     *)
Recorded(lo, hi, Sums) == [tick : lo .. hi, sum : Sums]

LEMMA RecordTickFine ==
    ASSUME NEW lo \in Nat, NEW hi \in Nat, NEW Sums, NEW ring \in Seq(Recorded(lo, hi, Sums)),
           NEW t \in lo .. hi, NEW sum \in Sums
    PROVE  RecordTick(ring, t, sum) \in Seq(Recorded(lo, hi, Sums))
<1> DEFINE E == Recorded(lo, hi, Sums)
<1>1. [tick |-> t, sum |-> sum] \in E
  BY DEF Recorded
<1>2. ASSUME NEW k PROVE [ring EXCEPT ![k].sum = sum] \in Seq(E)
  <2> DEFINE new == [ring EXCEPT ![k].sum = sum]
  <2>1. DOMAIN new = DOMAIN ring /\ new = [i \in DOMAIN new |-> new[i]] /\ DOMAIN ring = 1 .. Len(ring) /\ Len(ring) \in Nat
    OBVIOUS
  <2>2. ASSUME NEW i \in DOMAIN ring PROVE new[i] \in E
    <3>1. ring[i] \in E
      OBVIOUS
    <3>2. [ring[i] EXCEPT !.sum = sum] \in E
      BY <3>1 DEF Recorded
    <3>3. new[i] = ring[i] \/ new[i] = [ring[i] EXCEPT !.sum = sum]
      OBVIOUS
    <3> QED
      BY <3>1, <3>2, <3>3, Zenon
  <2> HIDE DEF new, E
  <2>3. new \in [1 .. Len(ring) -> E]
    BY <2>1, <2>2
  <2>4. new \in Seq(E)
    BY <2>1, <2>3, SeqDef
  <2> QED
    BY <2>4 DEF new
<1>3. Stored(ring, HistoryCapacity, [tick |-> t, sum |-> sum]) \in Seq(E)
  <2> HIDE DEF E
  <2>1. ring \in Seq(E)
    BY DEF E
  <2>2. ASSUME Len(ring) >= HistoryCapacity PROVE Tail(ring) \in Seq(E)
    <3>1. ring # <<>>
      BY <2>2, RollbackAssumption
    <3> QED
      BY <2>1, <3>1
  <2> QED
    BY <1>1, <2>1, <2>2 DEF Stored
<1> QED
  BY <1>2, <1>3 DEF RecordTick

LEMMA DiscardBeforeFine ==
    ASSUME NEW E, NEW ring \in Seq(E), NEW t
    PROVE  DiscardBefore(ring, t) \in Seq({x \in E : x.tick >= t})
<1> DEFINE n == Len(ring)
           T == Seq({x \in E : x.tick >= t})
           Good(f) == f = [i \in 0 .. n |-> IF i = 0 THEN <<>>
                                            ELSE IF ring[i].tick >= t THEN Append(f[i - 1], ring[i]) ELSE f[i - 1]]
           step == [p \in (1 .. n) \X T |-> IF ring[p[1]].tick >= t THEN Append(p[2], ring[p[1]]) ELSE p[2]]
<1>1. n \in Nat
  OBVIOUS
<1>2. step \in Steps(n, T)
  <2>1. ASSUME NEW i \in 1 .. n, NEW s \in T PROVE (IF ring[i].tick >= t THEN Append(s, ring[i]) ELSE s) \in T
    <3>1. ring[i] \in E
      OBVIOUS
    <3> QED
      BY <3>1
  <2> HIDE DEF T
  <2> QED
    BY <2>1 DEF Steps
<1>3. <<>> \in T
  OBVIOUS
<1>4. PICK f : Recursion(f, n, T, <<>>, step)
  <2> HIDE DEF step, T, n
  <2> QED
    BY <1>1, <1>2, <1>3, RecursionExists, Zenon
<1>5. Good(f)
  <2>1. ASSUME NEW k \in 1 .. n PROVE f[k] = IF ring[k].tick >= t THEN Append(f[k - 1], ring[k]) ELSE f[k - 1]
    <3>1. k - 1 \in 0 .. n
      BY <1>1
    <3> HIDE DEF T
    <3>2. f[k - 1] \in T
      BY <1>4, <3>1 DEF Recursion
    <3> QED
      BY <1>4, <3>2 DEF Recursion
  <2>2. f = [i \in 0 .. n |-> f[i]]
    BY <1>4 DEF Recursion
  <2>3. \A i \in 0 .. n : i = 0 \/ i \in 1 .. n
    BY <1>1
  <2> HIDE DEF n, T, step
  <2>4. \A i \in 0 .. n : f[i] = IF i = 0 THEN <<>> ELSE IF ring[i].tick >= t THEN Append(f[i - 1], ring[i]) ELSE f[i - 1]
    BY <1>4, <2>1, <2>3 DEF Recursion
  <2> QED
    BY <2>2, <2>4
<1> DEFINE g == CHOOSE g : Good(g)
<1>6. Good(g)
  BY <1>5, Zenon
<1>7. DiscardBefore(ring, t) = g[n]
  BY DEF DiscardBefore
<1> HIDE DEF g
<1>8. ASSUME NEW k \in 1 .. n, g[k - 1] \in T PROVE g[k] \in T
  <2>1. k \in 0 .. n /\ k # 0 /\ ring[k] \in E
    BY <1>1
  <2>2. g[k] = IF ring[k].tick >= t THEN Append(g[k - 1], ring[k]) ELSE g[k - 1]
    BY <1>6, <2>1
  <2> QED
    BY <1>8, <2>1, <2>2
<1>9. g[0] \in T /\ n \in 0 .. n
  <2>1. 0 \in 0 .. n /\ n \in 0 .. n
    BY <1>1
  <2> QED
    BY <1>3, <1>6, <2>1
<1> HIDE DEF T, n
<1>10. \A k \in 0 .. n : g[k] \in T
  <2>1. \A k \in 1 .. n : g[k - 1] \in T => g[k] \in T
    BY <1>8
  <2> QED
    BY <1>1, <1>9, <2>1, RecursionKeeps
<1>11. g[n] \in T
  BY <1>9, <1>10, Zenon
<1> QED
  BY <1>7, <1>11 DEF T

LEMMA RerecordedFine ==
    ASSUME NEW lo \in Nat, NEW from \in Nat, NEW to \in Nat, lo <= from + 1, from <= to, NEW resimulated, NEW Sums,
           predictions \in Seq(Recorded(lo, to, Sums)), \A t \in Nat : Get(resimulated, t).rows \in Sums
    PROVE  Rerecorded(from, to, resimulated) \in Seq(Recorded(lo, to, Sums))
<1> DEFINE n == to - from
           T == Seq(Recorded(lo, to, Sums))
           sum(i) == Get(resimulated, from + i).rows
           Good(f) == f = [i \in 0 .. n |-> IF i = 0 THEN predictions
                                            ELSE IF Has(resimulated, from + i) THEN RecordTick(f[i - 1], from + i, sum(i))
                                            ELSE f[i - 1]]
           step == [p \in (1 .. n) \X T |-> IF Has(resimulated, from + p[1]) THEN RecordTick(p[2], from + p[1], sum(p[1])) ELSE p[2]]
<1>1. n \in Nat
  OBVIOUS
<1>2. ASSUME NEW i \in 1 .. n, NEW s \in T PROVE RecordTick(s, from + i, sum(i)) \in T
  <2>1. from + i \in lo .. to /\ from + i \in Nat
    OBVIOUS
  <2>2. sum(i) \in Sums
    BY <2>1
  <2> HIDE DEF sum
  <2> QED
    BY <2>1, <2>2, RecordTickFine
<1>3. step \in Steps(n, T)
  <2> HIDE DEF T, sum
  <2> QED
    BY <1>2 DEF Steps
<1>4. PICK f : Recursion(f, n, T, predictions, step)
  <2>1. predictions \in T
    OBVIOUS
  <2> HIDE DEF step, T, n
  <2> QED
    BY <1>1, <1>3, <2>1, RecursionExists, Zenon
<1>5. Good(f)
  <2>1. ASSUME NEW k \in 1 .. n
        PROVE  f[k] = IF Has(resimulated, from + k) THEN RecordTick(f[k - 1], from + k, sum(k)) ELSE f[k - 1]
    <3>1. k - 1 \in 0 .. n
      BY <1>1
    <3> HIDE DEF T, sum
    <3>2. f[k - 1] \in T
      BY <1>4, <3>1 DEF Recursion
    <3> QED
      BY <1>4, <3>2 DEF Recursion
  <2>2. f = [i \in 0 .. n |-> f[i]]
    BY <1>4 DEF Recursion
  <2>3. \A i \in 0 .. n : i = 0 \/ i \in 1 .. n
    BY <1>1
  <2> HIDE DEF n, T, step, sum
  <2>4. \A i \in 0 .. n : f[i] = IF i = 0 THEN predictions
                                  ELSE IF Has(resimulated, from + i) THEN RecordTick(f[i - 1], from + i, sum(i))
                                  ELSE f[i - 1]
    BY <1>4, <2>1, <2>3 DEF Recursion
  <2> QED
    BY <2>2, <2>4
<1> DEFINE g == CHOOSE g : Good(g)
<1>6. Good(g)
  BY <1>5, Zenon
<1>7. Rerecorded(from, to, resimulated) = g[n]
  BY DEF Rerecorded
<1> HIDE DEF g
<1>8. ASSUME NEW k \in 1 .. n, g[k - 1] \in T PROVE g[k] \in T
  <2>1. k \in 0 .. n /\ k # 0
    BY <1>1
  <2> HIDE DEF sum, T, n
  <2>2. g[k] = IF Has(resimulated, from + k) THEN RecordTick(g[k - 1], from + k, sum(k)) ELSE g[k - 1]
    BY <1>6, <2>1, Zenon
  <2> QED
    BY <1>2, <1>8, <2>2
<1>9. g[0] \in T /\ n \in 0 .. n
  <2>1. 0 \in 0 .. n /\ n \in 0 .. n
    BY <1>1
  <2> QED
    BY <1>6, <2>1
<1> HIDE DEF T, n
<1>10. \A k \in 0 .. n : g[k] \in T
  <2>1. \A k \in 1 .. n : g[k - 1] \in T => g[k] \in T
    BY <1>8
  <2> QED
    BY <1>1, <1>9, <2>1, RecursionKeeps
<1>11. g[n] \in T
  BY <1>9, <1>10, Zenon
<1> QED
  BY <1>7, <1>11 DEF T

(* The history holds ticks after the confirmed one, so a server update for *)
(* a confirmed tick finds nothing to compare.                              *)
RollbackInv ==
    /\ current \in Nat /\ confirmed \in 0 .. current /\ undone = FALSE
    /\ state.tick \in Nat
    /\ \E Sums : predictions \in Seq(Recorded(confirmed + 1, current, Sums))

LEMMA RecordedGrows ==
    ASSUME NEW a \in Nat, NEW b \in Nat, NEW c \in Nat, NEW d \in Nat, c <= a, b <= d, NEW S, NEW R, S \subseteq R,
           NEW ring \in Seq(Recorded(a, b, S))
    PROVE  ring \in Seq(Recorded(c, d, R))
<1> DEFINE A == Recorded(a, b, S)
           B == Recorded(c, d, R)
<1>1. A \subseteq B
  BY DEF Recorded
<1>2. ring \in Seq(A)
  OBVIOUS
<1> HIDE DEF A, B
<1>3. ring \in Seq(B)
  BY <1>1, <1>2
<1> QED
  BY <1>3 DEF B

LEMMA PredictStep ==
    ASSUME RollbackInv, Predict
    PROVE  RollbackInv'
<1>1. /\ current \in Nat /\ confirmed \in 0 .. current /\ undone = FALSE /\ state.tick \in Nat
      /\ current' = current + 1 /\ UNCHANGED <<state, confirmed, undone>>
      /\ predictions' = RecordTick(predictions, current + 1, Get(snaps', current + 1).rows)
  BY DEF RollbackInv, Predict
<1>2. PICK Sums : predictions \in Seq(Recorded(confirmed + 1, current, Sums))
  BY DEF RollbackInv
<1> DEFINE sum == Get(snaps', current + 1).rows
           All == Sums \cup {sum}
<1> HIDE DEF sum
<1>3. predictions \in Seq(Recorded(confirmed + 1, current + 1, All))
  BY <1>1, <1>2, RecordedGrows
<1>4. predictions' \in Seq(Recorded(confirmed + 1, current + 1, All))
  <2>1. confirmed + 1 \in Nat /\ current + 1 \in Nat /\ current + 1 \in confirmed + 1 .. current + 1 /\ sum \in All
    BY <1>1
  <2> HIDE DEF All
  <2>2. RecordTick(predictions, current + 1, sum) \in Seq(Recorded(confirmed + 1, current + 1, All))
    BY <1>3, <2>1, RecordTickFine
  <2> QED
    BY <1>1, <2>2 DEF sum
<1>5. \E R : predictions' \in Seq(Recorded(confirmed + 1, current + 1, R))
  BY <1>4
<1>6. \E R : predictions' \in Seq(Recorded(confirmed' + 1, current', R))
  BY <1>1, <1>5 DEF Recorded
<1>7. current' \in Nat /\ confirmed' \in 0 .. current' /\ undone' = FALSE /\ state'.tick \in Nat
  BY <1>1
<1> QED
  BY <1>6, <1>7 DEF RollbackInv, Recorded

LEMMA HasMeans ==
    ASSUME NEW a, NEW b, NEW S, NEW ring \in Seq(Recorded(a, b, S)), NEW t, Has(ring, t)
    PROVE  t \in a .. b
<1>1. PICK i \in 1 .. Len(ring) : ring[i].tick = t
  BY DEF Has
<1>2. ring[i] \in Recorded(a, b, S)
  OBVIOUS
<1> QED
  BY <1>1, <1>2 DEF Recorded

LEMMA DiscardBeforeRecorded ==
    ASSUME NEW a \in Nat, NEW b \in Nat, NEW S, NEW ring \in Seq(Recorded(a, b, S)), NEW t \in Nat
    PROVE  DiscardBefore(ring, t) \in Seq(Recorded(a, b, S)) /\ DiscardBefore(ring, t) \in Seq(Recorded(t, b, S))
<1> DEFINE E == Recorded(a, b, S)
           F == {x \in E : x.tick >= t}
           G == Recorded(t, b, S)
           new == DiscardBefore(ring, t)
<1>1. new \in Seq(F)
  <2> HIDE DEF E
  <2>1. ring \in Seq(E)
    BY DEF E
  <2> QED
    BY <2>1, DiscardBeforeFine
<1>2. F \subseteq E /\ F \subseteq G
  BY DEF Recorded
<1> HIDE DEF E, F, G, new
<1>3. new \in Seq(E) /\ new \in Seq(G)
  BY <1>1, <1>2
<1> QED
  BY <1>3 DEF E, G, new

LEMMA ReconcileStep ==
    ASSUME RollbackInv, Reconcile
    PROVE  RollbackInv'
<1> DEFINE t == state.tick
<1>1. /\ current \in Nat /\ confirmed \in 0 .. current /\ confirmed \in Nat /\ undone = FALSE /\ t \in Nat /\ t # 0
      /\ current' = current /\ state' = NoState
  BY DEF RollbackInv, Reconcile
<1>2. PICK Sums : predictions \in Seq(Recorded(confirmed + 1, current, Sums))
  BY DEF RollbackInv
<1>3. confirmed + 1 \in Nat
  BY <1>1
<1>4. SUFFICES undone' = FALSE /\ confirmed' \in 0 .. current
               /\ \E R : predictions' \in Seq(Recorded(confirmed' + 1, current, R))
  BY <1>1 DEF RollbackInv, NoState, Recorded
<1>5. CASE ~Has(predictions, t)
  <2>1. predictions' = DiscardBefore(predictions, t) /\ UNCHANGED <<confirmed, undone>>
    BY <1>5 DEF Reconcile
  <2> HIDE DEF t
  <2>2. DiscardBefore(predictions, t) \in Seq(Recorded(confirmed + 1, current, Sums))
    BY <1>1, <1>2, <1>3, DiscardBeforeRecorded
  <2> QED
    BY <1>1, <2>1, <2>2
<1>6. CASE Has(predictions, t) /\ Get(predictions, t).sum = state.sum
  <2>1. predictions' = DiscardBefore(predictions, t + 1) /\ confirmed' = t /\ undone' = undone
    BY <1>6 DEF Reconcile, DiscardThrough
  <2>2. t \in confirmed + 1 .. current
    BY <1>2, <1>6, HasMeans
  <2> HIDE DEF t
  <2>3. predictions' \in Seq(Recorded(t + 1, current, Sums))
    <3>1. t + 1 \in Nat
      BY <1>1
    <3>2. DiscardBefore(predictions, t + 1) \in Seq(Recorded(t + 1, current, Sums))
      BY <1>1, <1>2, <1>3, <3>1, DiscardBeforeRecorded
    <3> QED
      BY <2>1, <3>2
  <2>4. t \in 0 .. current
    BY <1>1, <2>2
  <2>5. predictions' \in Seq(Recorded(confirmed' + 1, current, Sums))
    BY <2>1, <2>3, Zenon
  <2> QED
    BY <1>1, <2>1, <2>4, <2>5
<1>7. CASE Has(predictions, t) /\ Get(predictions, t).sum # state.sum
  <2>1. t \in confirmed + 1 .. current
    BY <1>2, <1>7, HasMeans
  <2>2. undone' = (undone \/ t <= confirmed) /\ confirmed' = confirmed
    BY <1>7 DEF Reconcile
  <2>3. undone' = FALSE
    <3>1. ~(t <= confirmed)
      BY <1>1, <2>1
    <3> QED
      BY <1>1, <2>2, <3>1, Zenon
  <2>4. CASE ~Has(snaps, t)
    <3>1. predictions' = predictions
      BY <1>7, <2>4 DEF Reconcile
    <3> QED
      BY <1>1, <1>2, <2>2, <2>3, <3>1
  <2>5. CASE Has(snaps, t)
    <3> DEFINE again == Rerecorded(t, current, snaps')
               All == Sums \cup {Get(snaps', u).rows : u \in Nat}
    <3>1. predictions' = DiscardBefore(again, t + 1)
      BY <1>7, <2>5 DEF Reconcile, DiscardThrough
    <3>2. predictions \in Seq(Recorded(confirmed + 1, current, All))
      BY <1>1, <1>2, <1>3, RecordedGrows
    <3>3. confirmed + 1 <= t + 1 /\ t <= current
      BY <1>1, <2>1
    <3>4. \A u \in Nat : Get(snaps', u).rows \in All
      OBVIOUS
    <3> HIDE DEF All, t
    <3>5. again \in Seq(Recorded(confirmed + 1, current, All))
      BY <1>1, <1>3, <3>2, <3>3, <3>4, RerecordedFine
    <3> HIDE DEF again
    <3>6. predictions' \in Seq(Recorded(confirmed + 1, current, All))
      BY <1>1, <1>3, <3>1, <3>5, DiscardBeforeRecorded
    <3> QED
      BY <1>1, <2>2, <2>3, <3>6
  <2> QED
    BY <2>4, <2>5
<1> QED
  BY <1>5, <1>6, <1>7

(* The inductive invariant of prediction: no tick that was confirmed is in *)
(* the history, however often it was recorded again.                       *)
THEOREM RollbackInvariant == RollbackSpec => []RollbackInv
<1>1. RollbackInit => RollbackInv
  <2> SUFFICES ASSUME RollbackInit PROVE RollbackInv
    OBVIOUS
  <2>1. predictions \in Seq(Recorded(1, 0, {}))
    BY DEF RollbackInit
  <2>2. \E Sums : predictions \in Seq(Recorded(1, 0, Sums))
    BY <2>1
  <2> QED
    BY <2>2 DEF RollbackInit, RollbackInv, NoState
<1>2. RollbackInv /\ [RollbackNext]_rollbackVars => RollbackInv'
  <2> SUFFICES ASSUME RollbackInv, [RollbackNext]_rollbackVars PROVE RollbackInv'
    OBVIOUS
  <2>1. ASSUME NEW t \in 1 .. LastTick, ServerUpdate(t) PROVE RollbackInv'
    <3>1. state'.tick = t /\ t \in Nat /\ UNCHANGED <<current, predictions, confirmed, undone>>
      BY <2>1, RollbackAssumption DEF ServerUpdate
    <3> QED
      BY <3>1 DEF RollbackInv, Recorded
  <2>2. ASSUME NEW t \in 1 .. LastTick, RemoteInput(t) PROVE RollbackInv'
    <3>1. UNCHANGED <<current, predictions, state, confirmed, undone>>
      BY <2>2 DEF RemoteInput
    <3> QED
      BY <3>1 DEF RollbackInv, Recorded
  <2>3. ASSUME UNCHANGED rollbackVars PROVE RollbackInv'
    BY <2>3 DEF rollbackVars, RollbackInv, Recorded
  <2> QED
    BY <2>1, <2>2, <2>3, PredictStep, ReconcileStep DEF RollbackNext
<1> QED
  BY <1>1, <1>2, PTL DEF RollbackSpec

(* reconcile.go:59-63.  A server update for a tick up to a confirmed one   *)
(* never leads to a rollback, for any inputs, orders of arrival and ring   *)
(* capacities.                                                             *)
THEOREM ConfirmedTicksStandHolds == RollbackSpec => []ConfirmedTicksStand
<1>1. RollbackInv => ConfirmedTicksStand
  BY DEF RollbackInv, ConfirmedTicksStand
<1> QED
  BY <1>1, RollbackInvariant, PTL
=============================================================================
