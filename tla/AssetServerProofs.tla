------------------------- MODULE AssetServerProofs -------------------------
(***************************************************************************)
(* Proofs about AssetServer, for any number of paths, loads, handles and   *)
(* permits.                                                                *)
(*                                                                         *)
(* HandlesResolve needs to know why a slot is freed only once: a count     *)
(* reaches zero once, so one onZero is due for it, and until that has run  *)
(* the slot is still there.  LatestUnlessLate needs to know that the *)
(* load in flight for a path is the last one made for it.                  *)
(***************************************************************************)
EXTENDS AssetServer, SequenceTheorems, TLAPS

USE AssetAssumption DEF AssetAssumption

Jobs == {"submit", "refused", "blocked", "running", "opened", "finishing", "done"}
AssetIDs == (1 .. MaxLoads) \X Nat
Slot ==
    [id : AssetIDs, path : Paths, n : Nat, state : {"loading", "loaded", "failed"}, read : Nat, job : Jobs,
     reload : BOOLEAN, leaked : Nat]

IdsOK ==
    /\ DOMAIN slots \subseteq AssetIDs /\ slots = [i \in DOMAIN slots |-> slots[i]]
    /\ \A i \in DOMAIN slots : slots[i] \in Made
    /\ gens \in [1 .. MaxLoads -> Nat]
    /\ free \in Seq(1 .. MaxLoads) /\ \A i \in 1 .. Len(free) : free[i] < next
    /\ next \in 1 .. Len(made) + 1
    /\ \A k \in Made : made[k].id[1] < next

AssetTypeOK ==
    /\ made \in Seq(Slot) /\ Len(made) <= MaxLoads
    /\ IdsOK
    /\ zeroing \in [1 .. MaxLoads -> Nat] /\ \A k \in 1 .. MaxLoads : k > Len(made) => zeroing[k] = 0
    /\ upgrading \in 0 .. Len(made)
    /\ inflight \in [Paths -> 0 .. Len(made)] /\ loaded \in [Paths -> 0 .. Len(made)]
    /\ disk \in [Paths -> Nat] /\ seen \in [Paths -> Nat]

(* A slot is in the store under its ID. *)
Live(k) == made[k].id \in DOMAIN slots /\ slots[made[k].id] = k

(* A slot that has handles, or one onZero to come, is live. *)
Counted ==
    \A k \in Made : /\ made[k].n > 0 => zeroing[k] = 0
                    /\ made[k].n > 0 \/ zeroing[k] > 0 => Live(k)
                    /\ zeroing[k] <= 1

(* The generation of an index is that of the live ID, and no ID ever made  *)
(* of the index was later; a free index has gone on from all of them.      *)
Generations ==
    /\ \A i \in DOMAIN slots : gens[i[1]] = i[2] /\ made[slots[i]].id = i /\ \A j \in 1 .. Len(free) : free[j] # i[1]
    /\ \A k \in Made : made[k].id[2] <= gens[made[k].id[1]]
    /\ \A k \in Made : \A j \in 1 .. Len(free) : free[j] = made[k].id[1] => made[k].id[2] < gens[made[k].id[1]]

Distinct ==
    /\ \A j, k \in Made : j # k => made[j].id # made[k].id
    /\ \A i, j \in 1 .. Len(free) : free[i] = free[j] => i = j

Clean == unloaded = {} /\ revived = {}

HandleInv == Clean => Counted /\ Generations /\ Distinct

-----------------------------------------------------------------------------
(* A step that writes one slot, and keeps its ID and path. *)
Touches(k, new) ==
    /\ k \in Made /\ new \in Slot /\ new.id = made[k].id /\ new.path = made[k].path
    /\ made' = [made EXCEPT ![k] = new]

LEMMA SlotFacts ==
    ASSUME AssetTypeOK, NEW k \in Made
    PROVE  /\ made[k] \in Slot /\ made[k].id \in AssetIDs /\ made[k].id[1] \in 1 .. MaxLoads /\ made[k].id[2] \in Nat
           /\ made[k].id = <<made[k].id[1], made[k].id[2]>>
           /\ made[k].path \in Paths /\ made[k].n \in Nat /\ made[k].read \in Nat /\ made[k].leaked \in Nat
           /\ made[k].job \in Jobs /\ k \in Nat /\ k \in 1 .. MaxLoads
<1>1. made[k] \in Slot /\ k \in Nat /\ k \in 1 .. MaxLoads
    BY DEF AssetTypeOK, Made
<1>2. made[k].id \in AssetIDs
    BY <1>1 DEF Slot
<1>3. made[k].id[1] \in 1 .. MaxLoads /\ made[k].id[2] \in Nat /\ made[k].id = <<made[k].id[1], made[k].id[2]>>
    BY <1>2 DEF AssetIDs
<1> QED BY <1>1, <1>2, <1>3 DEF Slot

LEMMA TouchFacts ==
    ASSUME AssetTypeOK, NEW k, NEW new, Touches(k, new)
    PROVE  /\ made' \in Seq(Slot) /\ Len(made') = Len(made) /\ Made' = Made
           /\ made'[k] = new /\ \A j \in Made : j # k => made'[j] = made[j]
           /\ \A j \in Made : made'[j].id = made[j].id /\ made'[j].path = made[j].path
<1>1. made \in Seq(Slot) /\ k \in 1 .. Len(made) /\ new \in Slot /\ made' = [made EXCEPT ![k] = new]
    BY DEF AssetTypeOK, Touches, Made
<1>2. made' \in Seq(Slot) /\ Len(made') = Len(made)
    BY <1>1
<1>3. made'[k] = new /\ \A j \in 1 .. Len(made) : j # k => made'[j] = made[j]
    BY <1>1
<1> QED BY <1>1, <1>2, <1>3 DEF Made, Touches

(* Writing a slot that keeps its ID keeps the shape of the store ... *)
LEMMA TouchType ==
    ASSUME AssetTypeOK, NEW k, NEW new, Touches(k, new), UNCHANGED <<slots, gens, free, next>>,
           inflight' \in [Paths -> 0 .. Len(made)], loaded' \in [Paths -> 0 .. Len(made)],
           zeroing' \in [1 .. MaxLoads -> Nat], \A j \in 1 .. MaxLoads : j > Len(made) => zeroing'[j] = 0,
           upgrading' \in 0 .. Len(made), disk' \in [Paths -> Nat], seen' \in [Paths -> Nat]
    PROVE  AssetTypeOK'
<1>1. /\ made' \in Seq(Slot) /\ Len(made') = Len(made) /\ Made' = Made
      /\ \A j \in Made : made'[j].id = made[j].id
    BY TouchFacts
<1>2. IdsOK'
    BY <1>1 DEF AssetTypeOK, IdsOK
<1> QED BY <1>1, <1>2 DEF AssetTypeOK

(* ... and, when it neither gets its first handle nor loses its last one,  *)
(* HandleInv.                                                              *)
LEMMA TouchHandles ==
    ASSUME AssetTypeOK, HandleInv, NEW k, NEW new, Touches(k, new), UNCHANGED <<slots, gens, free, next, zeroing>>,
           Clean' => Clean, Clean' => (new.n > 0 <=> made[k].n > 0)
    PROVE  HandleInv'
<1> SUFFICES ASSUME Clean' PROVE Counted' /\ Generations' /\ Distinct'
    BY DEF HandleInv
<1>1. Counted /\ Generations /\ Distinct
    BY DEF HandleInv
<1>2. /\ Made' = Made /\ made'[k] = new /\ \A j \in Made : j # k => made'[j] = made[j]
      /\ \A j \in Made : made'[j].id = made[j].id
    BY TouchFacts
<1>3. \A j \in Made : made'[j].n > 0 <=> made[j].n > 0
    BY <1>2
<1>4. Counted'
    BY <1>1, <1>2, <1>3 DEF Counted, Live
<1>5. Generations'
    <2>1. \A i \in DOMAIN slots : slots[i] \in Made
        BY DEF AssetTypeOK, IdsOK
    <2>2. \A i \in DOMAIN slots : gens[i[1]] = i[2] /\ made'[slots[i]].id = i /\ \A j \in 1 .. Len(free) : free[j] # i[1]
        BY <1>1, <1>2, <2>1 DEF Generations
    <2>3. \A j \in Made : made'[j].id[2] <= gens[made'[j].id[1]]
        BY <1>1, <1>2 DEF Generations
    <2>4. \A j \in Made : \A i \in 1 .. Len(free) : free[i] = made'[j].id[1] => made'[j].id[2] < gens[made'[j].id[1]]
        BY <1>1, <1>2 DEF Generations
    <2> QED BY <1>2, <2>2, <2>3, <2>4 DEF Generations
<1>6. Distinct'
    BY <1>1, <1>2 DEF Distinct
<1> QED BY <1>4, <1>5, <1>6

-----------------------------------------------------------------------------
(* Freeing the ID of slot k: OnZero and Unload. *)
Frees(k) == slots' = Without(made[k].id) /\ FreeID(made[k].id) /\ made' = made /\ next' = next

LEMMA FreeFacts ==
    ASSUME AssetTypeOK, NEW k \in Made, Frees(k)
    PROVE  LET i == made[k].id IN
           /\ DOMAIN slots' = DOMAIN slots \ {i} /\ \A j \in DOMAIN slots' : slots'[j] = slots[j]
           /\ slots' = [j \in DOMAIN slots' |-> slots'[j]]
           /\ gens' \in [1 .. MaxLoads -> Nat] /\ gens'[i[1]] = gens[i[1]] + 1
           /\ \A x \in 1 .. MaxLoads : x # i[1] => gens'[x] = gens[x]
           /\ free' \in Seq(1 .. MaxLoads) /\ Len(free') = Len(free) + 1 /\ free'[Len(free) + 1] = i[1]
           /\ \A j \in 1 .. Len(free) : free'[j] = free[j]
<1> DEFINE i == made[k].id
<1>1. i[1] \in 1 .. MaxLoads
    BY SlotFacts
<1>2. slots' = Restrict(slots, DOMAIN slots \ {i}) /\ gens' = [gens EXCEPT ![i[1]] = gens[i[1]] + 1] /\ free' = Append(free, i[1])
    BY DEF Frees, Without, FreeID
<1>3. gens \in [1 .. MaxLoads -> Nat] /\ free \in Seq(1 .. MaxLoads)
    BY DEF AssetTypeOK, IdsOK
<1> HIDE DEF i
<1>4. /\ DOMAIN slots' = DOMAIN slots \ {i} /\ \A j \in DOMAIN slots' : slots'[j] = slots[j]
      /\ slots' = [j \in DOMAIN slots' |-> slots'[j]]
    BY <1>2 DEF Restrict
<1>5. /\ gens' \in [1 .. MaxLoads -> Nat] /\ gens'[i[1]] = gens[i[1]] + 1
      /\ \A x \in 1 .. MaxLoads : x # i[1] => gens'[x] = gens[x]
    BY <1>1, <1>2, <1>3
<1>6. /\ free' \in Seq(1 .. MaxLoads) /\ Len(free') = Len(free) + 1 /\ free'[Len(free) + 1] = i[1]
      /\ \A j \in 1 .. Len(free) : free'[j] = free[j]
    BY <1>1, <1>2, <1>3
<1> QED BY <1>4, <1>5, <1>6 DEF i

LEMMA FreeType ==
    ASSUME AssetTypeOK, NEW k \in Made, Frees(k), UNCHANGED <<inflight, loaded, disk, seen, upgrading>>,
           zeroing' \in [1 .. MaxLoads -> Nat], \A j \in 1 .. MaxLoads : j > Len(made) => zeroing'[j] = 0
    PROVE  AssetTypeOK'
<1>1. made' = made /\ next' = next /\ Made' = Made
    BY DEF Frees, Made
<1>2. /\ DOMAIN slots' \subseteq DOMAIN slots /\ \A j \in DOMAIN slots' : slots'[j] = slots[j]
      /\ slots' = [j \in DOMAIN slots' |-> slots'[j]]
      /\ gens' \in [1 .. MaxLoads -> Nat]
    BY FreeFacts
<1>3. /\ free' \in Seq(1 .. MaxLoads) /\ Len(free') = Len(free) + 1 /\ free'[Len(free) + 1] = made[k].id[1]
      /\ \A j \in 1 .. Len(free) : free'[j] = free[j]
    BY FreeFacts
<1>4. \A j \in 1 .. Len(free') : free'[j] < next
    <2>1. \A j \in 1 .. Len(free') : j \in 1 .. Len(free) \/ j = Len(free) + 1
        BY <1>3 DEF AssetTypeOK, IdsOK
    <2> QED BY <1>3, <2>1 DEF AssetTypeOK, IdsOK
<1>5. IdsOK'
    BY <1>1, <1>2, <1>3, <1>4 DEF AssetTypeOK, IdsOK
<1> QED BY <1>1, <1>5 DEF AssetTypeOK

(* onZero, of a slot that is live and whose last decrement is this one's.  *)
LEMMA OnZeroHandles ==
    ASSUME AssetTypeOK, HandleInv, NEW k \in Made, OnZero(k)
    PROVE  AssetTypeOK' /\ HandleInv'
<1>1. /\ Frees(k) /\ zeroing[k] > 0 /\ zeroing' = [zeroing EXCEPT ![k] = zeroing[k] - 1]
      /\ UNCHANGED <<inflight, loaded, disk, seen, upgrading, unloaded, revived>>
    BY DEF OnZero, Frees, server, files
<1>2. k \in 1 .. MaxLoads /\ zeroing \in [1 .. MaxLoads -> Nat] /\ k <= Len(made) /\ Made' = Made /\ made' = made
    <2>1. k \in 1 .. MaxLoads /\ k <= Len(made)
        BY SlotFacts DEF Made
    <2>2. zeroing \in [1 .. MaxLoads -> Nat]
        BY DEF AssetTypeOK
    <2>3. Made' = Made /\ made' = made
        BY <1>1 DEF Made, Frees
    <2> QED BY <2>1, <2>2, <2>3
<1>3. /\ zeroing' \in [1 .. MaxLoads -> Nat] /\ zeroing'[k] = zeroing[k] - 1
      /\ \A j \in 1 .. MaxLoads : j # k => zeroing'[j] = zeroing[j]
    BY <1>1, <1>2
<1>4. AssetTypeOK'
    <2>1. \A j \in 1 .. MaxLoads : j > Len(made) => zeroing'[j] = 0
        BY <1>2, <1>3 DEF AssetTypeOK
    <2> QED BY <1>1, <1>3, <2>1, FreeType
<1> DEFINE i == made[k].id
<1>5. /\ DOMAIN slots' = DOMAIN slots \ {i} /\ \A j \in DOMAIN slots' : slots'[j] = slots[j]
      /\ gens'[i[1]] = gens[i[1]] + 1 /\ \A x \in 1 .. MaxLoads : x # i[1] => gens'[x] = gens[x]
      /\ Len(free') = Len(free) + 1 /\ free'[Len(free) + 1] = i[1]
      /\ \A j \in 1 .. Len(free) : free'[j] = free[j]
    BY <1>1, FreeFacts
<1>6. \A j \in 1 .. Len(free') : (j \in 1 .. Len(free) /\ free'[j] = free[j]) \/ (j = Len(free) + 1 /\ free'[j] = i[1])
    <2>1. Len(free) \in Nat
        BY DEF AssetTypeOK, IdsOK
    <2>2. \A j \in 1 .. Len(free') : j \in 1 .. Len(free) \/ j = Len(free) + 1
        BY <1>5, <2>1
    <2> QED BY <1>5, <2>2
<1> SUFFICES ASSUME Clean' PROVE Counted' /\ Generations' /\ Distinct'
    BY <1>4 DEF HandleInv
<1>7. Counted /\ Generations /\ Distinct
    BY <1>1 DEF HandleInv, Clean
<1>8. \A j \in Made : /\ made[j].id[1] \in 1 .. MaxLoads /\ made[j].id[2] \in Nat /\ made[j].id = <<made[j].id[1], made[j].id[2]>>
                      /\ j \in 1 .. MaxLoads /\ made[j].n \in Nat
    BY SlotFacts
<1>9. Live(k) /\ zeroing[k] = 1 /\ ~(made[k].n > 0)
    BY <1>1, <1>2, <1>7, <1>8 DEF Counted
<1> HIDE DEF i
<1>10. i \in DOMAIN slots /\ slots[i] = k /\ gens[i[1]] = i[2] /\ \A j \in 1 .. Len(free) : free[j] # i[1]
    BY <1>7, <1>9 DEF Live, Generations, i
<1>11. \A j \in Made : j # k => made[j].id # i
    BY <1>2, <1>7 DEF Distinct, i
<1>12. gens \in [1 .. MaxLoads -> Nat] /\ i[1] \in 1 .. MaxLoads /\ i[2] \in Nat
    BY <1>2, <1>8 DEF AssetTypeOK, IdsOK, i
<1>13. Counted'
    <2>1. ASSUME NEW j \in Made
          PROVE  /\ made[j].n > 0 => zeroing'[j] = 0
                 /\ made[j].n > 0 \/ zeroing'[j] > 0 => made[j].id \in DOMAIN slots' /\ slots'[made[j].id] = j
                 /\ zeroing'[j] <= 1
        <3>1. CASE j = k
            BY <1>3, <1>9, <3>1
        <3>2. CASE j # k
            BY <1>3, <1>5, <1>7, <1>8, <1>11, <3>2 DEF Counted, Live
        <3> QED BY <3>1, <3>2
    <2> QED BY <1>2, <2>1 DEF Counted, Live
<1>14. Generations'
    <2>1. ASSUME NEW x \in DOMAIN slots'
          PROVE  gens'[x[1]] = x[2] /\ made[slots'[x]].id = x /\ \A j \in 1 .. Len(free') : free'[j] # x[1]
        <3>1. x \in DOMAIN slots /\ x # i /\ gens[x[1]] = x[2] /\ made[slots[x]].id = x /\ \A j \in 1 .. Len(free) : free[j] # x[1]
            BY <1>5, <1>7, <2>1 DEF Generations
        <3>2. x \in AssetIDs /\ i \in AssetIDs
            BY <1>10, <3>1 DEF AssetTypeOK, IdsOK
        <3>3. x[1] # i[1] /\ x[1] \in 1 .. MaxLoads
            <4>1. x = <<x[1], x[2]>> /\ i = <<i[1], i[2]>> /\ x[1] \in 1 .. MaxLoads
                BY <3>2 DEF AssetIDs
            <4> QED BY <1>10, <3>1, <4>1
        <3> QED BY <1>5, <1>6, <2>1, <3>1, <3>3
    <2>2. ASSUME NEW j \in Made
          PROVE  /\ made[j].id[2] <= gens'[made[j].id[1]]
                 /\ \A y \in 1 .. Len(free') : free'[y] = made[j].id[1] => made[j].id[2] < gens'[made[j].id[1]]
        <3>1. /\ made[j].id[2] <= gens[made[j].id[1]]
              /\ \A y \in 1 .. Len(free) : free[y] = made[j].id[1] => made[j].id[2] < gens[made[j].id[1]]
            BY <1>7 DEF Generations
        <3>2. made[j].id[1] \in 1 .. MaxLoads /\ made[j].id[2] \in Nat
            BY <1>8
        <3>3. CASE made[j].id[1] = i[1]
            BY <1>5, <1>12, <3>1, <3>2, <3>3, SMTT(40)
        <3>4. CASE made[j].id[1] # i[1]
            <4>1. gens'[made[j].id[1]] = gens[made[j].id[1]]
                BY <1>5, <3>2, <3>4
            <4> QED BY <1>6, <3>1, <3>4, <4>1
        <3> QED BY <3>3, <3>4
    <2> QED BY <1>2, <2>1, <2>2 DEF Generations
<1>15. Distinct'
    <2>1. \A x, y \in 1 .. Len(free') : free'[x] = free'[y] => x = y
        BY <1>6, <1>7, <1>10 DEF Distinct
    <2> QED BY <1>2, <1>7, <2>1 DEF Distinct
<1> QED BY <1>13, <1>14, <1>15

-----------------------------------------------------------------------------
LEMMA FrontFacts ==
    ASSUME NEW S, NEW s \in Seq(S), s # <<>>
    PROVE  /\ Len(s) \in Nat /\ Len(s) >= 1 /\ Front(s) \in Seq(S) /\ Len(Front(s)) = Len(s) - 1
           /\ \A j \in 1 .. Len(Front(s)) : Front(s)[j] = s[j]
<1>1. Len(s) \in Nat /\ Len(s) >= 1
    OBVIOUS
<1>2. PICK l \in Nat : l = Len(s) - 1
    BY <1>1
<1>3. Front(s) = SubSeq(s, 1, l) /\ l \in 0 .. Len(s)
    BY <1>1, <1>2 DEF Front
<1>4. Front(s) \in Seq(S) /\ Len(Front(s)) = l /\ \A j \in 1 .. l : Front(s)[j] = s[j]
    BY <1>1, <1>3
<1> QED BY <1>1, <1>2, <1>4

(* A new slot.  Its ID is new: a recycled index has gone on to a later     *)
(* generation, and another index was never used.                           *)
LEMMA NewLoadHandles ==
    ASSUME AssetTypeOK, HandleInv, NEW p \in Paths, NEW reload \in BOOLEAN, NewLoad(p, reload),
           UNCHANGED <<zeroing, upgrading, unloaded>>, disk' \in [Paths -> Nat], seen' \in [Paths -> Nat]
    PROVE  AssetTypeOK' /\ HandleInv'
<1> DEFINE m == Len(made) + 1
           idx == IF free # <<>> THEN Last(free) ELSE next
           id == <<idx, gens[idx]>>
           new == [id |-> id, path |-> p, n |-> 1, state |-> "loading", read |-> 0, job |-> "submit",
                   reload |-> reload, leaked |-> IF reload THEN 1 ELSE 0]
<1>1. /\ Len(made) < MaxLoads /\ gens' = gens
      /\ free' = IF free # <<>> THEN Front(free) ELSE free
      /\ next' = IF free # <<>> THEN next ELSE next + 1
      /\ slots' = [i \in DOMAIN slots \cup {id} |-> IF i = id THEN m ELSE slots[i]]
      /\ made' = Append(made, new)
      /\ inflight' = [inflight EXCEPT ![p] = m] /\ loaded' = [loaded EXCEPT ![p] = m] /\ revived' = revived
    BY DEF NewLoad, AddLoading
<1>2. /\ made \in Seq(Slot) /\ Len(made) \in Nat /\ m = Len(made) + 1
      /\ gens \in [1 .. MaxLoads -> Nat] /\ free \in Seq(1 .. MaxLoads) /\ Len(free) \in Nat
      /\ next \in 1 .. Len(made) + 1 /\ next \in Nat
      /\ \A j \in 1 .. Len(free) : free[j] < next /\ free[j] \in 1 .. MaxLoads
    <2>1. /\ made \in Seq(Slot) /\ gens \in [1 .. MaxLoads -> Nat] /\ free \in Seq(1 .. MaxLoads)
          /\ next \in 1 .. Len(made) + 1 /\ \A j \in 1 .. Len(free) : free[j] < next
        BY DEF AssetTypeOK, IdsOK
    <2>2. Len(made) \in Nat /\ Len(free) \in Nat /\ next \in Nat
        BY <2>1
    <2>3. \A j \in 1 .. Len(free) : free[j] \in 1 .. MaxLoads
        BY <2>1, SMTT(40)
    <2> QED BY <2>1, <2>2, <2>3
<1>3. /\ \/ /\ free # <<>> /\ Len(free) >= 1 /\ idx = free[Len(free)] /\ next' = next
            /\ Len(free') = Len(free) - 1 /\ free' \in Seq(1 .. MaxLoads) /\ \A j \in 1 .. Len(free') : free'[j] = free[j]
         \/ free = <<>> /\ idx = next /\ next' = next + 1 /\ free' = free
    <2>1. CASE free # <<>>
        <3>1. Len(free) >= 1 /\ idx = free[Len(free)] /\ next' = next
            BY <1>1, <1>2, <2>1, FrontFacts DEF Last
        <3> HIDE DEF idx
        <3>2. free' = Front(free)
            BY <1>1, <2>1
        <3> QED BY <1>2, <2>1, <3>1, <3>2, FrontFacts
    <2>2. CASE free = <<>>
        BY <1>1, <2>2
    <2> QED BY <2>1, <2>2
<1>4. idx \in 1 .. MaxLoads /\ idx < next' /\ next' \in 1 .. m + 1 /\ next <= next' /\ next' \in Nat
    <2> HIDE DEF idx, m
    <2>1. CASE free # <<>>
        <3>1. Len(free) \in 1 .. Len(free) /\ idx = free[Len(free)] /\ next' = next
            BY <1>2, <1>3, <2>1
        <3>2. idx \in 1 .. MaxLoads /\ idx < next
            BY <1>2, <3>1
        <3>3. next' \in 1 .. m + 1 /\ next' \in Nat
            BY <1>2, <3>1
        <3> QED BY <1>2, <3>1, <3>2, <3>3
    <2>2. CASE free = <<>>
        BY <1>1, <1>2, <1>3, <2>2
    <2> QED BY <2>1, <2>2
<1> HIDE DEF idx
<1>5. id \in AssetIDs /\ id[1] = idx /\ id[2] = gens[idx] /\ gens[idx] \in Nat
    BY <1>2, <1>4 DEF AssetIDs
<1> HIDE DEF id
<1>6. new \in Slot /\ new.id = id /\ new.n = 1
    BY <1>5 DEF Slot, Jobs
<1> HIDE DEF new
<1>7. /\ made' \in Seq(Slot) /\ Len(made') = m /\ made'[m] = new /\ \A j \in Made : made'[j] = made[j]
      /\ m \in Made' /\ \A j \in Made' : j \in Made \/ j = m
      /\ m \notin Made /\ m \in 1 .. MaxLoads /\ \A j \in Made : j \in Made'
    <2>1. made' \in Seq(Slot) /\ Len(made') = m /\ made'[m] = new /\ \A j \in 1 .. Len(made) : made'[j] = made[j]
        BY <1>1, <1>2, <1>6
    <2> HIDE DEF m
    <2>2. Made' = 1 .. m /\ Made = 1 .. Len(made)
        BY <2>1 DEF Made
    <2>3. /\ m \in Made' /\ \A j \in Made' : j \in Made \/ j = m
          /\ m \notin Made /\ m \in 1 .. MaxLoads /\ \A j \in Made : j \in Made'
        BY <1>1, <1>2, <2>2, SMTT(40)
    <2> QED BY <2>1, <2>2, <2>3
<1>8. /\ DOMAIN slots' = DOMAIN slots \cup {id} /\ slots'[id] = m /\ slots' = [i \in DOMAIN slots' |-> slots'[i]]
      /\ \A i \in DOMAIN slots : i # id => slots'[i] = slots[i]
    BY <1>1
<1>9. AssetTypeOK'
    <2> HIDE DEF m
    <2>0. IdsOK
        BY DEF AssetTypeOK
    <2>1. /\ DOMAIN slots' \subseteq AssetIDs /\ \A i \in DOMAIN slots' : slots'[i] \in Made'
        BY <1>5, <1>7, <1>8, <2>0, SMTT(40) DEF IdsOK
    <2>2. free' \in Seq(1 .. MaxLoads) /\ \A j \in 1 .. Len(free') : free'[j] < next'
        <3>1. CASE free # <<>>
            <4>1. \A j \in 1 .. Len(free') : j \in 1 .. Len(free) /\ free'[j] = free[j]
                BY <1>2, <1>3, <3>1
            <4> QED BY <1>2, <1>3, <3>1, <4>1
        <3>2. CASE free = <<>>
            BY <1>2, <1>3, <3>2
        <3> QED BY <3>1, <3>2
    <2>3. \A j \in Made' : made'[j].id[1] < next'
        <3>1. \A j \in Made : made[j].id[1] < next /\ made[j].id[1] \in Nat
            <4>1. \A j \in Made : made[j].id[1] \in 1 .. MaxLoads
                BY SlotFacts
            <4>2. \A j \in Made : made[j].id[1] < next
                BY <2>0 DEF IdsOK
            <4> QED BY <4>1, <4>2
        <3>2. \A j \in Made : made'[j].id[1] < next'
            <4>1. \A x \in Nat : x < next => x < next'
                BY <1>2, <1>4
            <4> QED BY <1>7, <3>1, <4>1
        <3> QED BY <1>4, <1>5, <1>6, <1>7, <3>2
    <2>4. IdsOK'
        BY <1>1, <1>2, <1>4, <1>7, <1>8, <2>1, <2>2, <2>3 DEF IdsOK
    <2>5. /\ inflight' \in [Paths -> 0 .. Len(made')] /\ loaded' \in [Paths -> 0 .. Len(made')]
          /\ upgrading' \in 0 .. Len(made') /\ Len(made') <= MaxLoads
        <3>1. inflight \in [Paths -> 0 .. Len(made)] /\ loaded \in [Paths -> 0 .. Len(made)] /\ upgrading \in 0 .. Len(made)
            BY DEF AssetTypeOK
        <3>2. 0 .. Len(made) \subseteq 0 .. m /\ m \in 0 .. m /\ m <= MaxLoads
            BY <1>1, <1>2, SMTT(40)
        <3>3. inflight \in [Paths -> 0 .. m] /\ loaded \in [Paths -> 0 .. m]
            BY <3>1, <3>2
        <3> QED BY <1>1, <1>7, <3>1, <3>2, <3>3
    <2>6. zeroing' \in [1 .. MaxLoads -> Nat] /\ \A j \in 1 .. MaxLoads : j > Len(made') => zeroing'[j] = 0
        <3>1. zeroing \in [1 .. MaxLoads -> Nat] /\ \A j \in 1 .. MaxLoads : j > Len(made) => zeroing[j] = 0
            BY DEF AssetTypeOK
        <3>2. \A j \in 1 .. MaxLoads : j > m => j > Len(made)
            BY <1>2
        <3> QED BY <1>7, <3>1, <3>2
    <2> QED BY <1>7, <2>4, <2>5, <2>6 DEF AssetTypeOK
<1> SUFFICES ASSUME Clean' PROVE Counted' /\ Generations' /\ Distinct'
    BY <1>9 DEF HandleInv
<1>10. Counted /\ Generations /\ Distinct
    BY <1>1 DEF HandleInv, Clean
<1>11. \A j \in Made : /\ made[j].id[1] \in 1 .. MaxLoads /\ made[j].id[2] \in Nat /\ made[j].id[1] < next
                       /\ made[j].id[2] <= gens[made[j].id[1]]
                       /\ \A y \in 1 .. Len(free) : free[y] = made[j].id[1] => made[j].id[2] < gens[made[j].id[1]]
    BY <1>10, SlotFacts DEF Generations, AssetTypeOK, IdsOK
<1>12. \A j \in Made : made[j].id # id
    <2>1. ASSUME NEW j \in Made, made[j].id = id PROVE FALSE
        <3>1. made[j].id[1] = idx /\ made[j].id[2] = gens[idx]
            BY <1>5, <2>1
        <3>2. CASE free # <<>>
            <4>1. Len(free) \in 1 .. Len(free) /\ free[Len(free)] = made[j].id[1]
                BY <1>2, <1>3, <3>1, <3>2, SMTT(40)
            <4>2. made[j].id[2] < gens[made[j].id[1]]
                BY <1>11, <4>1
            <4> QED BY <1>5, <3>1, <4>2
        <3>3. CASE free = <<>>
            BY <1>2, <1>3, <1>11, <3>1, <3>3
        <3> QED BY <3>2, <3>3
    <2> QED BY <2>1
<1>13. id \notin DOMAIN slots
    BY <1>10, <1>12 DEF Generations, AssetTypeOK, IdsOK
<1>14. Counted'
    <2>1. zeroing'[m] = 0
        BY <1>2, <1>7 DEF AssetTypeOK
    <2>2. ASSUME NEW j \in Made'
          PROVE  /\ made'[j].n > 0 => zeroing'[j] = 0
                 /\ made'[j].n > 0 \/ zeroing'[j] > 0 => made'[j].id \in DOMAIN slots' /\ slots'[made'[j].id] = j
                 /\ zeroing'[j] <= 1
        <3>1. CASE j = m
            BY <1>6, <1>7, <1>8, <2>1, <3>1
        <3>2. CASE j \in Made
            BY <1>7, <1>8, <1>10, <1>12, <3>2 DEF Counted, Live
        <3> QED BY <1>7, <3>1, <3>2
    <2> QED BY <2>2 DEF Counted, Live
<1>15. \A y \in 1 .. Len(free') : y \in 1 .. Len(free) /\ free'[y] = free[y] /\ free'[y] # idx
    <2>1. CASE free # <<>>
        <3>1. \A y \in 1 .. Len(free') : y \in 1 .. Len(free) /\ y # Len(free) /\ Len(free) \in 1 .. Len(free)
            BY <1>2, <1>3, <2>1
        <3> QED BY <1>3, <1>10, <2>1, <3>1 DEF Distinct
    <2>2. CASE free = <<>>
        BY <1>3, <2>2
    <2> QED BY <2>1, <2>2
<1>16. Generations'
    <2>1. ASSUME NEW x \in DOMAIN slots'
          PROVE  gens'[x[1]] = x[2] /\ made'[slots'[x]].id = x /\ \A j \in 1 .. Len(free') : free'[j] # x[1]
        <3>1. CASE x = id
            BY <1>1, <1>5, <1>6, <1>7, <1>8, <1>15, <3>1
        <3>2. CASE x \in DOMAIN slots /\ x # id
            <4>1. slots[x] \in Made /\ slots'[x] = slots[x] /\ made'[slots[x]] = made[slots[x]]
                BY <1>7, <1>8, <3>2 DEF AssetTypeOK, IdsOK
            <4>2. gens[x[1]] = x[2] /\ made[slots[x]].id = x /\ \A j \in 1 .. Len(free) : free[j] # x[1]
                BY <1>10, <3>2 DEF Generations
            <4> QED BY <1>1, <1>15, <4>1, <4>2
        <3> QED BY <1>8, <3>1, <3>2
    <2>2. ASSUME NEW j \in Made'
          PROVE  /\ made'[j].id[2] <= gens'[made'[j].id[1]]
                 /\ \A y \in 1 .. Len(free') : free'[y] = made'[j].id[1] => made'[j].id[2] < gens'[made'[j].id[1]]
        <3>1. CASE j = m
            BY <1>1, <1>5, <1>6, <1>7, <1>15, <3>1
        <3>2. CASE j \in Made
            BY <1>1, <1>7, <1>11, <1>15, <3>2
        <3> QED BY <1>7, <3>1, <3>2
    <2> QED BY <2>1, <2>2 DEF Generations
<1>17. Distinct'
    <2>1. \A x, y \in 1 .. Len(free') : free'[x] = free'[y] => x = y
        BY <1>10, <1>15 DEF Distinct
    <2>2. ASSUME NEW i \in Made', NEW j \in Made', i # j PROVE made'[i].id # made'[j].id
        <3>1. CASE i \in Made /\ j \in Made
            BY <1>7, <1>10, <2>2, <3>1 DEF Distinct
        <3>2. CASE i = m \/ j = m
            BY <1>6, <1>7, <1>12, <2>2, <3>2
        <3> QED BY <1>7, <3>1, <3>2
    <2> QED BY <2>1, <2>2 DEF Distinct
<1> QED BY <1>14, <1>16, <1>17

-----------------------------------------------------------------------------
(* What a load's own steps do to its slot: the count stays, and only the   *)
(* end of the load takes it out of inflight.                               *)
Advanced(k, new) ==
    /\ Touches(k, new) /\ new.n = made[k].n /\ new.read \in {made[k].read, disk[made[k].path]}
    /\ made[k].job # "done"
    /\ \/ new.job # "done" /\ inflight' = inflight
       \/ made[k].job = "finishing" /\ new.job = "done" /\ new.state = made[k].state /\ new.read = made[k].read
          /\ inflight' = [inflight EXCEPT ![made[k].path] = 0]
    /\ new.job = "opened" => new.read = disk[made[k].path]
    /\ new.job = "finishing" => new.state = "failed" \/ (made[k].job = "opened" /\ new.read = made[k].read)

LEMMA JobShape ==
    ASSUME AssetTypeOK, NEW k \in Made, Job(k)
    PROVE  /\ \E new \in Slot : Advanced(k, new)
           /\ UNCHANGED <<slots, gens, free, next, loaded, zeroing, upgrading, disk, seen, changed, late, unloaded, revived>>
<1> DEFINE rec == made[k]
<1>1. rec \in Slot /\ rec.path \in Paths /\ disk[rec.path] \in Nat
    BY SlotFacts DEF AssetTypeOK
<1>2. \A new \in Slot : new.id = rec.id /\ new.path = rec.path /\ made' = [made EXCEPT ![k] = new] => Touches(k, new)
    BY DEF Touches
<1>3. UNCHANGED <<slots, gens, free, next, loaded, zeroing, upgrading, disk, seen, changed, late, unloaded, revived>>
    BY DEF Job, Submit, Acquire, Open, Fail, Decode, Finish, JobStep, store, server, files
<1>4. ASSUME NEW from, NEW to \in Jobs, JobStep(k, from, to), from \notin {"done", "opened"}, to \notin {"done", "opened", "finishing"}
      PROVE  \E new \in Slot : Advanced(k, new)
    <2> DEFINE new == [rec EXCEPT !.job = to]
    <2>1. new \in Slot /\ new.id = rec.id /\ new.path = rec.path /\ new.n = rec.n /\ new.job = to /\ new.read = rec.read
        BY <1>1 DEF Slot
    <2>2. made' = [made EXCEPT ![k] = new] /\ rec.job = from /\ inflight' = inflight
        BY <1>4 DEF JobStep, server
    <2> HIDE DEF new
    <2> QED BY <1>2, <1>4, <2>1, <2>2 DEF Advanced
<1>5. CASE Submit(k)
    <2>1. PICK to \in {"refused", "blocked"} : JobStep(k, "submit", to)
        BY <1>5 DEF Submit
    <2>2. to \in Jobs /\ to \notin {"done", "opened", "finishing"} /\ "submit" \notin {"done", "opened"}
        BY DEF Jobs
    <2> QED BY <1>3, <1>4, <2>1, <2>2
<1>6. CASE Acquire(k)
    <2>1. JobStep(k, "blocked", "running")
        BY <1>6 DEF Acquire
    <2>2. "running" \in Jobs /\ "running" \notin {"done", "opened", "finishing"} /\ "blocked" \notin {"done", "opened"}
        BY DEF Jobs
    <2> QED BY <1>3, <1>4, <2>1, <2>2
<1>7. CASE Open(k)
    <2> DEFINE new == [rec EXCEPT !.job = "opened", !.read = disk[rec.path]]
    <2>1. new \in Slot /\ new.id = rec.id /\ new.path = rec.path /\ new.n = rec.n /\ new.job = "opened" /\ new.read = disk[rec.path]
        BY <1>1 DEF Slot, Jobs
    <2>2. made' = [made EXCEPT ![k] = new] /\ rec.job = "running" /\ inflight' = inflight
        BY <1>7 DEF Open, server
    <2> HIDE DEF new
    <2>3. Touches(k, new)
        BY <1>2, <2>1, <2>2
    <2>4. Advanced(k, new)
        BY <2>1, <2>2, <2>3 DEF Advanced
    <2> QED BY <1>3, <2>1, <2>4
<1>8. ASSUME NEW state \in {"loading", "loaded", "failed"}, Result(k, "finishing", state), inflight' = inflight,
             rec.job \in {"running", "opened"}, state = "failed" \/ rec.job = "opened"
      PROVE  \E new \in Slot : Advanced(k, new)
    <2> DEFINE new == [rec EXCEPT !.job = "finishing", !.state = state]
    <2>1. /\ new \in Slot /\ new.id = rec.id /\ new.path = rec.path /\ new.n = rec.n /\ new.job = "finishing"
          /\ new.read = rec.read /\ new.state = state
        BY <1>1, <1>8 DEF Slot, Jobs
    <2>2. made' = [made EXCEPT ![k] = new]
        BY <1>8 DEF Result
    <2> HIDE DEF new
    <2> QED BY <1>2, <1>8, <2>1, <2>2 DEF Advanced
<1>9. CASE Fail(k)
    <2>1. Result(k, "finishing", "failed") /\ inflight' = inflight /\ rec.job \in {"running", "opened"}
        BY <1>9 DEF Fail, server
    <2> QED BY <1>3, <1>8, <2>1
<1>10. CASE Decode(k)
    <2>1. PICK state \in {"loading", "loaded", "failed"} : Result(k, "finishing", state)
        BY <1>10 DEF Decode
    <2>2. inflight' = inflight /\ rec.job = "opened"
        BY <1>10 DEF Decode, server
    <2> QED BY <1>3, <1>8, <2>1, <2>2
<1>11. CASE Finish(k)
    <2> DEFINE new == [rec EXCEPT !.job = "done"]
    <2>1. /\ new \in Slot /\ new.id = rec.id /\ new.path = rec.path /\ new.n = rec.n /\ new.job = "done"
          /\ new.read = rec.read /\ new.state = rec.state
        BY <1>1 DEF Slot, Jobs
    <2>2. made' = [made EXCEPT ![k] = new] /\ rec.job = "finishing" /\ inflight' = [inflight EXCEPT ![rec.path] = 0]
        BY <1>11 DEF Finish
    <2> HIDE DEF new
    <2>3. Touches(k, new)
        BY <1>2, <2>1, <2>2
    <2>4. Advanced(k, new)
        BY <2>1, <2>2, <2>3 DEF Advanced
    <2> QED BY <1>3, <2>1, <2>4
<1> QED BY <1>3, <1>5, <1>6, <1>7, <1>9, <1>10, <1>11 DEF Job

(* Clones, drops and joins write the count, and perhaps leaked. *)
Recounted(k, new) ==
    /\ Touches(k, new)
    /\ new.job = made[k].job /\ new.state = made[k].state /\ new.read = made[k].read

LEMMA RecountFacts ==
    ASSUME AssetTypeOK, NEW k \in Made, NEW n \in Nat, NEW l \in Nat,
           made' = [made EXCEPT ![k].n = n, ![k].leaked = l] \/ (l = made[k].leaked /\ made' = [made EXCEPT ![k].n = n])
    PROVE  \E new \in Slot : Recounted(k, new) /\ new.n = n
<1> DEFINE rec == made[k]
           new == [rec EXCEPT !.n = n, !.leaked = l]
<1>1. rec \in Slot
    BY SlotFacts
<1>2. /\ new \in Slot /\ new.n = n /\ new.id = rec.id /\ new.path = rec.path /\ new.job = rec.job
      /\ new.state = rec.state /\ new.read = rec.read
    BY <1>1 DEF Slot
<1>3. made' = [made EXCEPT ![k] = new]
    <2>1. CASE made' = [made EXCEPT ![k].n = n, ![k].leaked = l]
        BY <1>1, <2>1 DEF Slot, AssetTypeOK, Made
    <2>2. CASE l = made[k].leaked /\ made' = [made EXCEPT ![k].n = n]
        <3>1. new = [rec EXCEPT !.n = n]
            BY <1>1, <2>2 DEF Slot
        <3> QED BY <2>2, <3>1
    <2> QED BY <2>1, <2>2
<1> HIDE DEF new
<1> QED BY <1>2, <1>3 DEF Recounted, Touches

LEMMA JoinShape ==
    ASSUME AssetTypeOK, NEW p \in Paths, inflight[p] # 0, NEW reload \in BOOLEAN, Join(p, reload)
    PROVE  LET k == inflight[p] IN
           /\ k \in Made /\ \E new \in Slot : Recounted(k, new) /\ new.n = made[k].n + 1
           /\ UNCHANGED <<slots, gens, free, next, inflight, loaded>>
           /\ (revived' = {} => revived = {} /\ made[k].n > 0)
<1> DEFINE k == inflight[p]
<1>1. k \in Made
    BY DEF AssetTypeOK, Made
<1>2. made[k].n \in Nat /\ made[k].leaked \in Nat
    BY <1>1, SlotFacts
<1>3. /\ made' = [made EXCEPT ![k].n = made[k].n + 1, ![k].leaked = IF reload THEN made[k].leaked + 1 ELSE made[k].leaked]
      /\ revived' = IF made[k].n = 0 THEN revived \cup {k} ELSE revived
      /\ UNCHANGED <<slots, gens, free, next, inflight, loaded>>
    BY DEF Join, store, server
<1> HIDE DEF k
<1>4. PICK l \in Nat : l = IF reload THEN made[k].leaked + 1 ELSE made[k].leaked
    BY <1>2
<1>5. \E new \in Slot : Recounted(k, new) /\ new.n = made[k].n + 1
    <2>1. PICK n \in Nat : n = made[k].n + 1
        BY <1>2
    <2>2. made' = [made EXCEPT ![k].n = n, ![k].leaked = l]
        BY <1>3, <1>4, <2>1
    <2> QED BY <1>1, <2>1, <2>2, RecountFacts
<1> QED BY <1>1, <1>2, <1>3, <1>5 DEF k

LEMMA LoadHandles ==
    ASSUME AssetTypeOK, HandleInv, NEW p \in Paths, NEW reload \in BOOLEAN, LoadWithSettings(p, reload),
           UNCHANGED <<zeroing, upgrading, unloaded>>, disk' \in [Paths -> Nat], seen' \in [Paths -> Nat]
    PROVE  AssetTypeOK' /\ HandleInv'
<1>1. CASE inflight[p] = 0
    BY <1>1, NewLoadHandles DEF LoadWithSettings
<1>2. CASE inflight[p] # 0
    <2>1. Join(p, reload)
        BY <1>2 DEF LoadWithSettings
    <2> DEFINE k == inflight[p]
    <2>2. /\ k \in Made /\ \E new \in Slot : Recounted(k, new) /\ new.n = made[k].n + 1
          /\ UNCHANGED <<slots, gens, free, next, inflight, loaded>>
          /\ (revived' = {} => revived = {} /\ made[k].n > 0)
        BY <1>2, <2>1, JoinShape
    <2> HIDE DEF k
    <2>3. PICK new \in Slot : Recounted(k, new) /\ new.n = made[k].n + 1
        BY <2>2
    <2>4. Touches(k, new) /\ made[k].n \in Nat
        BY <2>2, <2>3, SlotFacts DEF Recounted
    <2>5. AssetTypeOK'
        BY <2>2, <2>4, TouchType DEF AssetTypeOK
    <2>6. (Clean' => Clean) /\ (Clean' => (new.n > 0 <=> made[k].n > 0))
        BY <2>2, <2>3, <2>4 DEF Clean
    <2> QED BY <2>2, <2>4, <2>5, <2>6, TouchHandles
<1> QED BY <1>1, <1>2

LEMMA DropHandles ==
    ASSUME AssetTypeOK, HandleInv, NEW k \in Made, Drop(k)
    PROVE  AssetTypeOK' /\ HandleInv'
<1>1. made[k].n \in Nat /\ made[k].leaked \in Nat /\ k \in 1 .. MaxLoads /\ k <= Len(made)
    BY SlotFacts DEF Made
<1>2. /\ made[k].n > 0 /\ made' = [made EXCEPT ![k].n = made[k].n - 1]
      /\ zeroing' = [zeroing EXCEPT ![k] = IF made[k].n = 1 THEN zeroing[k] + 1 ELSE zeroing[k]]
      /\ UNCHANGED <<slots, gens, free, next, inflight, loaded, upgrading, disk, seen, unloaded, revived>>
    <2>1. made[k].n > 0
        BY <1>1, SMTT(40) DEF Drop, Usable
    <2> QED BY <2>1, SMTT(40) DEF Drop, store, server, files
<1>3. PICK n \in Nat : n = made[k].n - 1
    BY <1>1, <1>2
<1>4. PICK new \in Slot : Recounted(k, new) /\ new.n = n
    BY <1>1, <1>2, <1>3, RecountFacts
<1>5. Touches(k, new)
    BY <1>4 DEF Recounted
<1>6. zeroing \in [1 .. MaxLoads -> Nat] /\ \A j \in 1 .. MaxLoads : j > Len(made) => zeroing[j] = 0
    BY DEF AssetTypeOK
<1>7. /\ zeroing' \in [1 .. MaxLoads -> Nat] /\ zeroing'[k] = IF made[k].n = 1 THEN zeroing[k] + 1 ELSE zeroing[k]
      /\ \A j \in 1 .. MaxLoads : j # k => zeroing'[j] = zeroing[j]
    <2>1. zeroing[k] \in Nat /\ zeroing[k] + 1 \in Nat
        BY <1>1, <1>6
    <2> QED BY <1>1, <1>2, <1>6, <2>1, SMTT(40)
<1>8. AssetTypeOK'
    <2>1. \A j \in 1 .. MaxLoads : j > Len(made) => zeroing'[j] = 0
        BY <1>1, <1>6, <1>7
    <2> QED BY <1>2, <1>5, <1>7, <2>1, TouchType DEF AssetTypeOK
<1>9. ASSUME Clean' PROVE Counted' /\ Generations' /\ Distinct'
    <2>1. Counted /\ Generations /\ Distinct
        BY <1>2, <1>9 DEF HandleInv, Clean
    <2>2. /\ Made' = Made /\ made'[k] = new /\ \A j \in Made : j # k => made'[j] = made[j]
          /\ \A j \in Made : made'[j].id = made[j].id
        BY <1>5, TouchFacts
    <2>3. Live(k) /\ zeroing[k] = 0
        BY <1>2, <2>1 DEF Counted
    <2>4. ASSUME NEW j \in Made
          PROVE  /\ made'[j].n > 0 => zeroing'[j] = 0
                 /\ made'[j].n > 0 \/ zeroing'[j] > 0 => made[j].id \in DOMAIN slots /\ slots[made[j].id] = j
                 /\ zeroing'[j] <= 1
        <3>1. CASE j = k
            BY <1>1, <1>3, <1>4, <1>7, <2>2, <2>3, <3>1 DEF Live
        <3>2. CASE j # k
            <4>1. j \in 1 .. MaxLoads
                BY SlotFacts
            <4> QED BY <1>7, <2>1, <2>2, <3>2, <4>1 DEF Counted, Live
        <3> QED BY <3>1, <3>2
    <2>5. Counted'
        BY <1>2, <2>2, <2>4 DEF Counted, Live
    <2>6. Generations'
        <3>1. \A i \in DOMAIN slots : slots[i] \in Made
            BY DEF AssetTypeOK, IdsOK
        <3> QED BY <1>2, <2>1, <2>2, <3>1 DEF Generations
    <2>7. Distinct'
        BY <1>2, <2>1, <2>2 DEF Distinct
    <2> QED BY <2>5, <2>6, <2>7
<1> QED BY <1>8, <1>9 DEF HandleInv

LEMMA HandleStill ==
    ASSUME AssetTypeOK, HandleInv, UNCHANGED <<made, slots, gens, free, next, inflight, loaded, zeroing, unloaded, revived>>,
           upgrading' \in 0 .. Len(made), disk' \in [Paths -> Nat], seen' \in [Paths -> Nat]
    PROVE  AssetTypeOK' /\ HandleInv'
<1>1. AssetTypeOK'
    BY DEF AssetTypeOK, IdsOK, Made
<1>2. HandleInv'
    BY DEF HandleInv, Clean, Counted, Generations, Distinct, Live, Made
<1> QED BY <1>1, <1>2

LEMMA HandleNext ==
    ASSUME AssetTypeOK, HandleInv, [Next]_vars
    PROVE  AssetTypeOK' /\ HandleInv'
<1>1. disk \in [Paths -> Nat] /\ seen \in [Paths -> Nat] /\ upgrading \in 0 .. Len(made)
    BY DEF AssetTypeOK
<1>2. CASE UNCHANGED vars
    BY <1>1, <1>2, HandleStill DEF vars, store, server, files
<1>3. ASSUME NEW p \in Paths, Load(p) PROVE AssetTypeOK' /\ HandleInv'
    BY <1>1, <1>3, LoadHandles DEF Load
<1>4. ASSUME NEW p \in Watched, Edit(p) PROVE AssetTypeOK' /\ HandleInv'
    <2>1. disk' \in [Paths -> Nat]
        BY <1>1, <1>4 DEF Edit
    <2> QED BY <1>1, <1>4, <2>1, HandleStill DEF Edit, store, server
<1>5. ASSUME NEW p \in Watched, Watch(p) \/ Unwatch(p) \/ Reload(p) PROVE AssetTypeOK' /\ HandleInv'
    <2>0. p \in Paths
        OBVIOUS
    <2>1. CASE Watch(p)
        <3>1. seen' \in [Paths -> Nat]
            BY <1>1, <2>0, <2>1 DEF Watch
        <3> QED BY <1>1, <2>1, <3>1, HandleStill DEF Watch, store, server
    <2>2. CASE Unwatch(p)
        <3>1. seen' \in [Paths -> Nat]
            BY <1>1, <2>0, <2>2 DEF Unwatch
        <3> QED BY <1>1, <2>2, <3>1, HandleStill DEF Unwatch, store, server
    <2>3. CASE Reload(p)
        <3>1. seen' = seen /\ disk' = disk /\ UNCHANGED <<zeroing, upgrading, unloaded>>
            BY <2>3 DEF Reload
        <3>2. CASE loaded[p] = 0
            BY <1>1, <2>3, <3>1, <3>2, HandleStill DEF Reload, store, server
        <3>3. CASE loaded[p] # 0
            BY <1>1, <2>0, <2>3, <3>1, <3>3, LoadHandles DEF Reload
        <3> QED BY <3>2, <3>3
    <2> QED BY <1>5, <2>1, <2>2, <2>3
<1>13. CASE Poll
    <2>1. seen' \in [Paths -> Nat]
        BY <1>1, <1>13 DEF Poll
    <2> QED BY <1>1, <1>13, <2>1, HandleStill DEF Poll, store, server
<1>6. ASSUME NEW k \in Made, Job(k) PROVE AssetTypeOK' /\ HandleInv'
    <2>1. UNCHANGED <<slots, gens, free, next, loaded, zeroing, upgrading, disk, seen, changed, late, unloaded, revived>>
        BY <1>6, JobShape
    <2>2. PICK new \in Slot : Advanced(k, new)
        BY <1>6, JobShape
    <2>3. Touches(k, new) /\ new.n = made[k].n
        BY <2>2 DEF Advanced
    <2>4. inflight' \in [Paths -> 0 .. Len(made)]
        <3>1. inflight \in [Paths -> 0 .. Len(made)] /\ 0 \in 0 .. Len(made)
            BY DEF AssetTypeOK
        <3> QED BY <2>2, <3>1 DEF Advanced
    <2>5. AssetTypeOK'
        BY <1>1, <2>1, <2>3, <2>4, TouchType DEF AssetTypeOK
    <2> QED BY <2>1, <2>3, <2>5, TouchHandles DEF Clean
<1>7. ASSUME NEW k \in Made, Unload(k) PROVE AssetTypeOK' /\ HandleInv'
    <2>1. Frees(k) /\ UNCHANGED <<inflight, loaded, disk, seen, upgrading, zeroing>> /\ unloaded' # {}
        BY <1>7 DEF Unload, Frees, server, files
    <2>2. AssetTypeOK'
        BY <2>1, FreeType DEF AssetTypeOK
    <2> QED BY <2>1, <2>2 DEF HandleInv, Clean
<1>8. ASSUME NEW k \in Made, Clone(k) PROVE AssetTypeOK' /\ HandleInv'
    <2>1. made[k].n \in Nat /\ made[k].leaked \in Nat
        BY SlotFacts
    <2>2. /\ made[k].n > 0 /\ made' = [made EXCEPT ![k].n = made[k].n + 1]
          /\ UNCHANGED <<slots, gens, free, next, inflight, loaded, zeroing, upgrading, disk, seen, unloaded, revived>>
        BY <1>8, <2>1 DEF Clone, Usable, store, server, files
    <2>3. PICK n \in Nat : n = made[k].n + 1
        BY <2>1
    <2>4. PICK new \in Slot : Recounted(k, new) /\ new.n = n
        BY <2>1, <2>2, <2>3, RecountFacts
    <2>5. Touches(k, new)
        BY <2>4 DEF Recounted
    <2>6. AssetTypeOK'
        BY <2>2, <2>5, TouchType DEF AssetTypeOK
    <2>7. new.n > 0 /\ made[k].n > 0
        BY <2>1, <2>2, <2>3, <2>4
    <2> QED BY <2>2, <2>5, <2>6, <2>7, TouchHandles DEF Clean
<1>9. ASSUME NEW k \in Made, UpgradeFind(k) PROVE AssetTypeOK' /\ HandleInv'
    <2>1. upgrading' \in 0 .. Len(made)
        <3>1. upgrading' \in Made
            BY <1>9 DEF UpgradeFind, AssetTypeOK, IdsOK
        <3> QED BY <3>1 DEF Made
    <2> QED BY <1>1, <1>9, <2>1, HandleStill DEF UpgradeFind, store, server, files
<1>10. CASE UpgradeRC
    <2>1. PICK k \in Made : k = upgrading
        BY <1>1, <1>10 DEF UpgradeRC, Made
    <2>2. made[k].n \in Nat /\ made[k].leaked \in Nat
        BY SlotFacts
    <2>3. PICK n \in Nat : n = IF made[k].n > 0 THEN made[k].n + 1 ELSE made[k].n
        BY <2>2
    <2>4. /\ upgrading' = 0 /\ made' = [made EXCEPT ![k].n = n]
          /\ UNCHANGED <<slots, gens, free, next, inflight, loaded, zeroing, disk, seen, unloaded, revived>>
        BY <1>10, <2>1, <2>3 DEF UpgradeRC, store, server, files
    <2>5. PICK new \in Slot : Recounted(k, new) /\ new.n = n
        BY <2>2, <2>4, RecountFacts
    <2>6. Touches(k, new)
        BY <2>5 DEF Recounted
    <2>7. upgrading' \in 0 .. Len(made)
        BY <1>1, <2>4
    <2>8. AssetTypeOK'
        BY <2>4, <2>6, <2>7, TouchType DEF AssetTypeOK
    <2>9. new.n > 0 <=> made[k].n > 0
        BY <2>2, <2>3, <2>5
    <2> QED BY <2>4, <2>6, <2>8, <2>9, TouchHandles DEF Clean
<1>11. CASE Shutdown
    BY <1>1, <1>11, HandleStill DEF Shutdown, store, server, files
<1> QED BY <1>2, <1>3, <1>4, <1>5, <1>6, <1>7, <1>8, <1>9, <1>10, <1>11, DropHandles, OnZeroHandles, <1>13 DEF Next

-----------------------------------------------------------------------------
LEMMA AssetInit == ASSUME Init PROVE AssetTypeOK /\ HandleInv
<1>1. Made = {} /\ Len(made) = 0 /\ made \in Seq(Slot)
    BY DEF Init, Made
<1>2. DOMAIN slots = {} /\ slots = [i \in DOMAIN slots |-> slots[i]]
    BY DEF Init
<1>3. AssetTypeOK
    BY <1>1, <1>2 DEF Init, AssetTypeOK, IdsOK
<1>4. HandleInv
    BY <1>1, <1>2 DEF Init, HandleInv, Counted, Generations, Distinct
<1> QED BY <1>3, <1>4

(* handle.go and assets.go.  As long as no slot is unloaded under a handle *)
(* or joined at zero, the counts agree with the handles, a slot that has   *)
(* handles or whose onZero is due is in the store, and IDs are distinct.   *)
THEOREM HandleInvariant == Spec => [](AssetTypeOK /\ HandleInv)
<1>1. Init => AssetTypeOK /\ HandleInv
    BY AssetInit
<1>2. (AssetTypeOK /\ HandleInv) /\ [Next]_vars => (AssetTypeOK /\ HandleInv)'
    BY HandleNext
<1> QED BY <1>1, <1>2, PTL DEF Spec

(* handle.go:29-30, 67-69, assets.go:53-75.  A strong handle keeps its     *)
(* slot, under an ID that no other slot ever had.                          *)
THEOREM HandlesResolveHolds == Spec => []HandlesResolve
<1>1. AssetTypeOK /\ HandleInv => HandlesResolve
    <2> SUFFICES ASSUME AssetTypeOK, HandleInv, Clean
                 PROVE  /\ \A k \in Made : made[k].n > 0 => made[k].id \in DOMAIN slots /\ slots[made[k].id] = k
                        /\ \A j, k \in Made : j # k => made[j].id # made[k].id
                        /\ IsInjective(free)
        BY DEF HandlesResolve, Clean
    <2>1. DOMAIN free = 1 .. Len(free)
        BY DEF AssetTypeOK, IdsOK
    <2> QED BY <2>1 DEF HandleInv, Counted, Distinct, Live, IsInjective
<1> QED BY <1>1, HandleInvariant, PTL

-----------------------------------------------------------------------------
(* What a path was last loaded from: the load in flight is the last one,   *)
(* and a load that opened the file has what the watcher has seen.          *)
Current(p, k) ==
    made[k].job = "opened" \/ (made[k].job \in {"finishing", "done"} /\ made[k].state # "failed") => made[k].read = disk[p]

LatestInv ==
    /\ \A k \in Made : made[k].job # "done" => inflight[made[k].path] = k
    /\ \A p \in Paths :
          /\ inflight[p] # 0 => inflight[p] = loaded[p] /\ made[inflight[p]].job # "done"
          /\ loaded[p] # 0 => made[loaded[p]].path = p
          /\ seen[p] <= disk[p]
          /\ p \notin late /\ loaded[p] # 0 /\ Told(p) => Current(p, loaded[p])

NotOpened(k) == made[k].job \notin {"opened", "finishing", "done"}

(* Steps that leave the loads where they are. *)
LEMMA LatestStill ==
    ASSUME AssetTypeOK, LatestInv, Made' = Made, UNCHANGED <<inflight, loaded>>,
           \A j \in Made : /\ made'[j].job = made[j].job /\ made'[j].state = made[j].state
                           /\ made'[j].read = made[j].read /\ made'[j].path = made[j].path,
           \A p \in Paths : /\ seen'[p] <= disk'[p]
                            /\ p \notin late' /\ Told(p)' /\ loaded[p] # 0 =>
                                  \/ NotOpened(loaded[p]) \/ made[loaded[p]].read = disk'[p]
                                  \/ p \notin late /\ Told(p) /\ disk'[p] = disk[p]
    PROVE  LatestInv'
<1>1. \A p \in Paths : /\ loaded[p] # 0 => loaded[p] \in Made
                       /\ inflight[p] # 0 => inflight[p] \in Made
    BY DEF AssetTypeOK, Made
<1>2. \A k \in Made : made'[k].job # "done" => inflight'[made'[k].path] = k
    BY DEF LatestInv
<1>3. ASSUME NEW p \in Paths
      PROVE  /\ inflight'[p] # 0 => inflight'[p] = loaded'[p] /\ made'[inflight'[p]].job # "done"
             /\ loaded'[p] # 0 => made'[loaded'[p]].path = p
             /\ seen'[p] <= disk'[p]
             /\ p \notin late' /\ loaded'[p] # 0 /\ Told(p)' => Current(p, loaded[p])'
    <2>1. /\ inflight'[p] # 0 => inflight'[p] = loaded'[p] /\ made'[inflight'[p]].job # "done"
          /\ loaded'[p] # 0 => made'[loaded'[p]].path = p
          /\ seen'[p] <= disk'[p]
        BY <1>1 DEF LatestInv
    <2>2. ASSUME p \notin late', loaded'[p] # 0, Told(p)' PROVE Current(p, loaded[p])'
        <3>1. loaded[p] \in Made /\ loaded'[p] = loaded[p]
            BY <1>1, <2>2
        <3>2. CASE NotOpened(loaded[p])
            BY <3>1, <3>2 DEF NotOpened, Current
        <3>4. CASE made[loaded[p]].read = disk'[p]
            BY <3>1, <3>4 DEF Current
        <3>3. CASE p \notin late /\ Told(p) /\ disk'[p] = disk[p]
            <4>1. Current(p, loaded[p])
                BY <2>2, <3>3 DEF LatestInv
            <4>2. /\ made'[loaded[p]].job = made[loaded[p]].job /\ made'[loaded[p]].state = made[loaded[p]].state
                  /\ made'[loaded[p]].read = made[loaded[p]].read
                BY <3>1
            <4> QED BY <3>1, <3>3, <4>1, <4>2 DEF Current
        <3> QED BY <2>2, <3>1, <3>2, <3>3, <3>4
    <2> QED BY <2>1, <2>2
<1> QED BY <1>2, <1>3 DEF LatestInv

LEMMA LatestNew ==
    ASSUME AssetTypeOK, LatestInv, NEW p \in Paths, NEW reload \in BOOLEAN, NewLoad(p, reload), inflight[p] = 0,
           UNCHANGED <<disk, seen>>, changed \ {p} \subseteq changed', late \ {p} \subseteq late'
    PROVE  LatestInv'
<1> DEFINE m == Len(made) + 1
           new == [id |-> <<IF free # <<>> THEN Last(free) ELSE next, gens[IF free # <<>> THEN Last(free) ELSE next]>>,
                   path |-> p, n |-> 1, state |-> "loading", read |-> 0, job |-> "submit",
                   reload |-> reload, leaked |-> IF reload THEN 1 ELSE 0]
<1>1. /\ made' = Append(made, new) /\ inflight' = [inflight EXCEPT ![p] = m] /\ loaded' = [loaded EXCEPT ![p] = m]
      /\ made \in Seq(Slot) /\ Len(made) \in Nat
      /\ inflight \in [Paths -> 0 .. Len(made)] /\ loaded \in [Paths -> 0 .. Len(made)]
    BY DEF NewLoad, AddLoading, AssetTypeOK
<1>2. new.job = "submit" /\ new.path = p
    OBVIOUS
<1> HIDE DEF new
<1>3. made'[m] = new /\ Len(made') = m /\ \A j \in 1 .. Len(made) : made'[j] = made[j]
    BY <1>1
<1>4. /\ \A j \in Made : made'[j] = made[j] /\ j # m
      /\ \A j \in Made' : j = m \/ j \in Made
      /\ m # 0 /\ Made = 1 .. Len(made)
    BY <1>1, <1>3 DEF Made
<1> HIDE DEF m
<1>5. /\ inflight'[p] = m /\ loaded'[p] = m
      /\ \A q \in Paths : q # p => inflight'[q] = inflight[q] /\ loaded'[q] = loaded[q]
    BY <1>1
<1>6. \A q \in Paths : /\ loaded[q] # 0 => loaded[q] \in Made
                       /\ inflight[q] # 0 => inflight[q] \in Made
    BY DEF AssetTypeOK, Made
<1>7. ASSUME NEW k \in Made', made'[k].job # "done" PROVE inflight'[made'[k].path] = k
    <2>1. CASE k = m
        BY <1>2, <1>3, <1>5, <2>1
    <2>2. CASE k \in Made
        <3>1. made[k].path \in Paths /\ inflight[made[k].path] = k /\ k # 0 /\ made'[k] = made[k]
            BY <1>4, <1>7, <2>2, SlotFacts DEF LatestInv
        <3> QED BY <1>5, <3>1
    <2> QED BY <1>4, <2>1, <2>2
<1>8. ASSUME NEW q \in Paths
      PROVE  /\ inflight'[q] # 0 => inflight'[q] = loaded'[q] /\ made'[inflight'[q]].job # "done"
             /\ loaded'[q] # 0 => made'[loaded'[q]].path = q
             /\ seen'[q] <= disk'[q]
             /\ q \notin late' /\ loaded'[q] # 0 /\ Told(q)' =>
                    (made'[loaded'[q]].job = "opened" \/ (made'[loaded'[q]].job \in {"finishing", "done"} /\ made'[loaded'[q]].state # "failed")
                        => made'[loaded'[q]].read = disk'[q])
    <2>1. CASE q = p
        BY <1>2, <1>3, <1>5, <2>1 DEF LatestInv
    <2>2. CASE q # p
        <3>1. /\ inflight'[q] = inflight[q] /\ loaded'[q] = loaded[q] /\ seen'[q] = seen[q] /\ seen[q] <= disk[q] /\ disk' = disk
              /\ q \notin late' => q \notin late
              /\ Told(q)' => Told(q)
            BY <1>5, <2>2 DEF LatestInv, Told
        <3>2. /\ loaded[q] # 0 => made'[loaded[q]] = made[loaded[q]]
              /\ inflight[q] # 0 => made'[inflight[q]] = made[inflight[q]]
            BY <1>4, <1>6
        <3> QED BY <3>1, <3>2 DEF LatestInv, Current
    <2> QED BY <2>1, <2>2
<1> QED BY <1>7, <1>8 DEF LatestInv, Current

LEMMA LatestJob ==
    ASSUME AssetTypeOK, LatestInv, NEW k \in Made, Job(k)
    PROVE  LatestInv'
<1>1. UNCHANGED <<loaded, disk, seen, changed, late>>
    BY JobShape
<1>2. PICK new \in Slot : Advanced(k, new)
    BY JobShape
<1>3. /\ Made' = Made /\ made'[k] = new /\ \A j \in Made : j # k => made'[j] = made[j]
      /\ \A j \in Made : made'[j].path = made[j].path
    BY <1>2, TouchFacts DEF Advanced
<1>4. inflight \in [Paths -> 0 .. Len(made)]
    BY DEF AssetTypeOK
<1>5. \A p \in Paths : /\ loaded[p] # 0 => loaded[p] \in Made
                       /\ inflight[p] # 0 => inflight[p] \in Made
    BY DEF AssetTypeOK, Made
<1>6. PICK path \in Paths : path = made[k].path
    BY SlotFacts
<1>7. inflight[path] = k /\ made[k].job # "done" /\ k # 0
    BY <1>2, <1>6, SlotFacts DEF Advanced, LatestInv, Made
<1>8. \/ new.job # "done" /\ inflight' = inflight
      \/ new.job = "done" /\ inflight'[path] = 0 /\ \A p \in Paths : p # path => inflight'[p] = inflight[p]
    BY <1>2, <1>4, <1>6 DEF Advanced
<1>9. ASSUME NEW j \in Made, made'[j].job # "done" PROVE inflight'[made'[j].path] = j
    <2>1. CASE j = k
        BY <1>3, <1>6, <1>7, <1>8, <1>9, <2>1
    <2>2. CASE j # k
        <3>1. made[j].path \in Paths /\ inflight[made[j].path] = j /\ made'[j].path = made[j].path
            BY <1>3, <1>9, <2>2, SlotFacts DEF LatestInv
        <3> QED BY <1>7, <1>8, <2>2, <3>1
    <2> QED BY <2>1, <2>2
<1>10. ASSUME NEW p \in Paths
       PROVE  /\ inflight'[p] # 0 => inflight'[p] = loaded'[p] /\ made'[inflight'[p]].job # "done"
              /\ loaded'[p] # 0 => made'[loaded'[p]].path = p
              /\ seen'[p] <= disk'[p]
    <2>1. ASSUME inflight'[p] # 0 PROVE inflight'[p] = loaded'[p] /\ made'[inflight'[p]].job # "done"
        <3>1. inflight'[p] = inflight[p] /\ inflight[p] = loaded[p] /\ inflight[p] \in Made /\ made[inflight[p]].job # "done"
            BY <1>5, <1>8, <2>1 DEF LatestInv
        <3>2. inflight[p] = k => new.job # "done"
            <4>1. CASE inflight[p] = k
                <5>1. p = path
                    BY <1>6, <1>7, <3>1, <4>1 DEF LatestInv
                <5> QED BY <1>8, <2>1, <5>1
            <4> QED BY <4>1
        <3> QED BY <1>1, <1>3, <3>1, <3>2
    <2>2. loaded'[p] # 0 => made'[loaded'[p]].path = p
        BY <1>1, <1>3, <1>5 DEF LatestInv
    <2> QED BY <1>1, <2>1, <2>2 DEF LatestInv
<1>11. ASSUME NEW p \in Paths, p \notin late, loaded[p] # 0, Told(p),
              made'[loaded[p]].job = "opened" \/ (made'[loaded[p]].job \in {"finishing", "done"} /\ made'[loaded[p]].state # "failed")
       PROVE  made'[loaded[p]].read = disk[p]
    <2>1. Current(p, loaded[p]) /\ made[loaded[p]].path = p /\ loaded[p] \in Made
        BY <1>5, <1>11 DEF LatestInv
    <2>2. CASE loaded[p] # k
        BY <1>3, <1>11, <2>1, <2>2 DEF Current
    <2>3. CASE loaded[p] = k
        <3>1. Current(p, k) /\ path = p /\ made'[k] = new
            BY <1>3, <1>6, <2>1, <2>3
        <3>2. CASE new.job = "opened"
            BY <1>2, <1>6, <2>3, <3>1, <3>2 DEF Advanced
        <3>3. CASE new.job = "finishing"
            BY <1>2, <1>11, <2>3, <3>1, <3>3 DEF Advanced, Current
        <3>4. CASE new.job = "done"
            BY <1>2, <1>11, <2>3, <3>1, <3>4 DEF Advanced, Current
        <3> QED BY <1>11, <2>3, <3>1, <3>2, <3>3, <3>4
    <2> QED BY <2>2, <2>3
<1>12. \A p \in Paths : Told(p)' => Told(p)
    BY <1>1 DEF Told
<1> QED BY <1>1, <1>3, <1>9, <1>10, <1>11, <1>12 DEF LatestInv, Current

LEMMA RecountLatest ==
    ASSUME AssetTypeOK, LatestInv, NEW k, NEW new, Recounted(k, new), UNCHANGED <<inflight, loaded>>,
           \A p \in Paths : /\ seen'[p] <= disk'[p]
                            /\ p \notin late' /\ Told(p)' /\ loaded[p] # 0 =>
                                  \/ NotOpened(loaded[p]) \/ made[loaded[p]].read = disk'[p]
                                  \/ p \notin late /\ Told(p) /\ disk'[p] = disk[p]
    PROVE  LatestInv'
<1>1. /\ Made' = Made /\ made'[k] = new /\ \A j \in Made : j # k => made'[j] = made[j]
      /\ \A j \in Made : made'[j].path = made[j].path
    BY TouchFacts DEF Recounted
<1>2. \A j \in Made : /\ made'[j].job = made[j].job /\ made'[j].state = made[j].state
                      /\ made'[j].read = made[j].read /\ made'[j].path = made[j].path
    BY <1>1 DEF Recounted
<1> QED BY <1>1, <1>2, LatestStill

LEMMA LatestNext ==
    ASSUME AssetTypeOK, LatestInv, [Next]_vars
    PROVE  LatestInv'
<1>0. disk \in [Paths -> Nat] /\ seen \in [Paths -> Nat] /\ \A p \in Paths : seen[p] <= disk[p]
    BY DEF AssetTypeOK, LatestInv
<1>1. ASSUME Made' = Made, UNCHANGED <<inflight, loaded, disk, seen, changed, late>>,
             \A j \in Made : /\ made'[j].job = made[j].job /\ made'[j].state = made[j].state
                             /\ made'[j].read = made[j].read /\ made'[j].path = made[j].path
      PROVE  LatestInv'
    <2>1. \A p \in Paths : Told(p)' => Told(p)
        BY <1>1 DEF Told
    <2> QED BY <1>0, <1>1, <2>1, LatestStill
<1>2. ASSUME made' = made, UNCHANGED <<inflight, loaded, disk, seen, changed, late>> PROVE LatestInv'
    BY <1>1, <1>2 DEF Made
<1>3. ASSUME NEW k \in Made, NEW new, Recounted(k, new), UNCHANGED <<inflight, loaded, disk, seen, changed, late>> PROVE LatestInv'
    <2>1. \A p \in Paths : Told(p)' => Told(p)
        BY <1>3 DEF Told
    <2> QED BY <1>0, <1>3, <2>1, RecountLatest
<1>4. CASE UNCHANGED vars
    BY <1>2, <1>4 DEF vars, server, files
<1>5. ASSUME NEW p \in Paths, Load(p) PROVE LatestInv'
    <2>1. /\ LoadWithSettings(p, FALSE) /\ disk' = disk /\ seen' = seen /\ changed' = changed
          /\ late' = IF inflight[p] = 0 THEN late \ {p} ELSE late
        BY <1>5 DEF Load
    <2>2. CASE inflight[p] = 0
        <3>1. NewLoad(p, FALSE)
            BY <2>1, <2>2 DEF LoadWithSettings
        <3>2. late \ {p} \subseteq late' /\ changed \ {p} \subseteq changed'
            BY <2>1, <2>2
        <3> QED BY <2>1, <2>2, <3>1, <3>2, LatestNew
    <2>3. CASE inflight[p] # 0
        <3>1. Join(p, FALSE)
            BY <2>1, <2>3 DEF LoadWithSettings
        <3>2. /\ inflight[p] \in Made /\ \E new \in Slot : Recounted(inflight[p], new)
              /\ UNCHANGED <<inflight, loaded>>
            BY <2>3, <3>1, JoinShape
        <3> QED BY <1>3, <2>1, <2>3, <3>2
    <2> QED BY <2>2, <2>3
<1>6. ASSUME NEW p \in Watched, Edit(p) PROVE LatestInv'
    <2>1. made' = made /\ Made' = Made /\ UNCHANGED <<inflight, loaded, seen, changed, late>> /\ disk' = [disk EXCEPT ![p] = disk[p] + 1] /\ p \in Paths
        BY <1>6 DEF Edit, server, Made
    <2>2. \A q \in Paths : seen'[q] <= disk'[q] /\ (Told(q)' => Told(q) /\ disk'[q] = disk[q])
        BY <1>0, <2>1 DEF Told
    <2> QED BY <2>1, <2>2, LatestStill
<1>7. ASSUME NEW p \in Watched, Reload(p) PROVE LatestInv'
    <2>0. p \in Paths
        OBVIOUS
    <2>1. disk' = disk /\ seen' = seen /\ changed' = changed \ {p} /\ p \in changed
        BY <1>7 DEF Reload
    <2>2. \A q \in Paths : q # p => (Told(q)' => Told(q))
        BY <2>1 DEF Told
    <2>3. CASE loaded[p] = 0
        <3>1. made' = made /\ Made' = Made /\ UNCHANGED <<inflight, loaded, late>>
            BY <1>7, <2>3 DEF Reload, server, Made
        <3> QED BY <1>0, <2>1, <2>2, <2>3, <3>1, LatestStill
    <2>4. CASE loaded[p] # 0 /\ inflight[p] = 0
        <3>1. NewLoad(p, TRUE) /\ late' = late \ {p}
            BY <1>7, <2>4 DEF Reload, LoadWithSettings
        <3> QED BY <2>0, <2>1, <2>4, <3>1, LatestNew
    <2>5. CASE loaded[p] # 0 /\ inflight[p] # 0
        <3> DEFINE k == inflight[p]
        <3>1. Join(p, TRUE) /\ late' = Lateness(p, k)
            BY <1>7, <2>5 DEF Reload, LoadWithSettings
        <3>2. k \in Made /\ (\E new \in Slot : Recounted(k, new)) /\ UNCHANGED <<inflight, loaded>>
            BY <2>0, <2>5, <3>1, JoinShape
        <3>3. k = loaded[p] /\ made[k].path = p
            BY <2>0, <2>5 DEF LatestInv
        <3> HIDE DEF k
        <3>4. p \notin late' => NotOpened(loaded[p]) \/ made[loaded[p]].read = disk'[p]
            BY <2>1, <3>1, <3>3 DEF NotOpened, Lateness, Behind
        <3>5. \A q \in Paths : q # p => (q \notin late' => q \notin late)
            BY <3>1 DEF Lateness
        <3>6. \A q \in Paths : /\ seen'[q] <= disk'[q]
                               /\ q \notin late' /\ Told(q)' /\ loaded[q] # 0 =>
                                     \/ NotOpened(loaded[q]) \/ made[loaded[q]].read = disk'[q]
                                     \/ q \notin late /\ Told(q) /\ disk'[q] = disk[q]
            BY <1>0, <2>1, <2>2, <3>4, <3>5
        <3> QED BY <3>2, <3>6, RecountLatest
    <2> QED BY <2>3, <2>4, <2>5
<1>13. ASSUME NEW p \in Watched, Watch(p) \/ Unwatch(p) PROVE LatestInv'
    <2>1. made' = made /\ Made' = Made /\ UNCHANGED <<inflight, loaded, disk, changed>> /\ p \in Paths
        BY <1>13 DEF Watch, Unwatch, server, Made
    <2>2. \A q \in Paths : q # p => seen'[q] = seen[q] /\ (Told(q)' => Told(q)) /\ (q \in late <=> q \in late')
        BY <1>0, <1>13, <2>1 DEF Watch, Unwatch, Told, Lateness
    <2>3. CASE Watch(p)
        <3>1. seen'[p] = disk[p] /\ (loaded[p] # 0 => late' = Lateness(p, loaded[p]))
            BY <1>0, <2>1, <2>3 DEF Watch
        <3>2. p \notin late' /\ loaded[p] # 0 => NotOpened(loaded[p]) \/ made[loaded[p]].read = disk'[p]
            <4>1. loaded[p] # 0 => made[loaded[p]].path = p
                BY <2>1 DEF LatestInv
            <4> QED BY <2>1, <3>1, <4>1 DEF NotOpened, Lateness, Behind
        <3>3. \A q \in Paths : seen'[q] <= disk'[q]
            BY <1>0, <2>1, <2>2, <3>1
        <3> QED BY <2>1, <2>2, <3>2, <3>3, LatestStill
    <2>4. CASE Unwatch(p)
        <3>1. seen'[p] = 0 /\ ~Told(p)'
            BY <1>0, <2>1, <2>4 DEF Unwatch, Told
        <3>2. \A q \in Paths : seen'[q] <= disk'[q]
            BY <1>0, <2>1, <2>2, <3>1
        <3> QED BY <2>1, <2>2, <3>1, <3>2, LatestStill
    <2> QED BY <1>13, <2>3, <2>4
<1>14. CASE Poll
    <2>1. made' = made /\ Made' = Made /\ UNCHANGED <<inflight, loaded, disk, late>>
        BY <1>14 DEF Poll, server, Made
    <2>2. \A q \in Paths : IF q \in changed' THEN seen'[q] = disk[q] ELSE seen'[q] = seen[q] /\ q \notin changed
        BY <1>14 DEF Poll
    <2>3. \A q \in Paths : seen'[q] <= disk'[q] /\ (Told(q)' => Told(q))
        BY <1>0, <2>1, <2>2 DEF Told
    <2> QED BY <2>1, <2>3, LatestStill
<1>8. ASSUME NEW k \in Made, Clone(k) PROVE LatestInv'
    <2>1. made[k].n \in Nat /\ made[k].leaked \in Nat
        BY SlotFacts
    <2>2. PICK n \in Nat : n = made[k].n + 1
        BY <2>1
    <2>3. made' = [made EXCEPT ![k].n = n] /\ UNCHANGED <<inflight, loaded, disk, seen, changed, late>>
        BY <1>8, <2>2 DEF Clone, server, files
    <2> QED BY <1>3, <2>1, <2>3, RecountFacts
<1>9. ASSUME NEW k \in Made, Drop(k) PROVE LatestInv'
    <2>1. made[k].n \in Nat /\ made[k].leaked \in Nat
        BY SlotFacts
    <2>2. made[k].n > 0
        BY <1>9, <2>1 DEF Drop, Usable
    <2>3. PICK n \in Nat : n = made[k].n - 1
        BY <2>1, <2>2
    <2>4. made' = [made EXCEPT ![k].n = n] /\ UNCHANGED <<inflight, loaded, disk, seen, changed, late>>
        BY <1>9, <2>3 DEF Drop, server, files
    <2> QED BY <1>3, <2>1, <2>4, RecountFacts
<1>10. CASE UpgradeRC
    <2>1. PICK k \in Made : k = upgrading
        BY <1>10 DEF UpgradeRC, Made, AssetTypeOK
    <2>2. made[k].n \in Nat /\ made[k].leaked \in Nat
        BY SlotFacts
    <2>3. PICK n \in Nat : n = IF made[k].n > 0 THEN made[k].n + 1 ELSE made[k].n
        BY <2>2
    <2>4. made' = [made EXCEPT ![k].n = n] /\ UNCHANGED <<inflight, loaded, disk, seen, changed, late>>
        BY <1>10, <2>1, <2>3 DEF UpgradeRC, server, files
    <2> QED BY <1>3, <2>2, <2>4, RecountFacts
<1>11. ASSUME NEW k \in Made, Unload(k) \/ OnZero(k) \/ UpgradeFind(k) PROVE LatestInv'
    BY <1>2, <1>11 DEF Unload, OnZero, UpgradeFind, server, files
<1>12. CASE Shutdown
    BY <1>2, <1>12 DEF Shutdown, server, files
<1> QED BY <1>4, <1>5, <1>6, <1>7, <1>8, <1>9, <1>10, <1>11, <1>12, <1>13, <1>14, LatestJob DEF Next

(* server.go:147-151, watch_dev.go:48-105.  A path has the content that    *)
(* the watcher saw last, unless the reload joined a load that was too far  *)
(* on, or the path was first watched after one.                            *)
THEOREM LatestHolds == Spec => []LatestUnlessLate
<1>1. Init => LatestInv
    BY DEF Init, LatestInv, Made
<1>2. (AssetTypeOK /\ HandleInv) /\ LatestInv /\ [Next]_vars => LatestInv'
    BY LatestNext
<1>3. (AssetTypeOK /\ HandleInv) /\ LatestInv => LatestUnlessLate
    <2> SUFFICES ASSUME AssetTypeOK, LatestInv, NEW p \in Paths \ late, loaded[p] # 0, inflight[p] = 0, Told(p),
                        made[loaded[p]].state = "loaded"
                 PROVE  made[loaded[p]].read = disk[p]
        BY DEF LatestUnlessLate
    <2>1. loaded[p] \in Made /\ made[loaded[p]].path = p
        BY DEF AssetTypeOK, Made, LatestInv
    <2>2. made[loaded[p]].job = "done"
        BY <2>1 DEF LatestInv
    <2> QED BY <2>2 DEF LatestInv, Current
<1> QED BY <1>1, <1>2, <1>3, HandleInvariant, PTL DEF Spec
=============================================================================
