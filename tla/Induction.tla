------------------------------ MODULE Induction ------------------------------
(***************************************************************************)
(* Induction over the naturals as facts about sets of naturals, from the   *)
(* well-foundedness of <: how the proofs reason about recursive functions  *)
(* and about the first or the last of what a set or a sequence holds.      *)
(***************************************************************************)
EXTENDS Naturals, FiniteSetsExt, WellFoundedInduction, TLAPS

(* Induction over the naturals, with a set in place of a predicate.        *)
LEMMA SetInduction ==
    ASSUME NEW S, 0 \in S, \A n \in Nat : n \in S => n + 1 \in S
    PROVE  \A n \in Nat : n \in S
<1> DEFINE Bad == Nat \ S
<1>1. SUFFICES ASSUME Bad # {} PROVE FALSE
  OBVIOUS
<1>2. PICK m \in Bad : \A y \in Bad : <<y, m>> \notin OpToRel(<,Nat)
  <2>1. Bad \subseteq Nat
    OBVIOUS
  <2> HIDE DEF Bad
  <2> QED
    BY <1>1, <2>1, WFMin, NatLessThanWellFounded
<1>3. m # 0 /\ m \in Nat
  OBVIOUS
<1>4. m - 1 \in Nat /\ (m - 1) + 1 = m /\ m - 1 < m
  BY <1>3
<1>5. <<m - 1, m>> \in OpToRel(<,Nat)
  BY <1>3, <1>4 DEF OpToRel
<1>6. m - 1 \notin Bad
  BY <1>2, <1>5
<1>7. m - 1 \in S
  BY <1>4, <1>6
<1> QED
  BY <1>4, <1>7

(* A nonempty set of naturals has a least element.                         *)
LEMMA LeastElement ==
    ASSUME NEW S \in SUBSET Nat, S # {}
    PROVE  \E i \in S : \A j \in S : i <= j
<1>1. PICK i \in S : \A j \in S : <<j, i>> \notin OpToRel(<,Nat)
  BY WFMin, NatLessThanWellFounded
<1>2. ASSUME NEW j \in S PROVE i <= j
  <2>1. SUFFICES ASSUME j < i PROVE FALSE
    OBVIOUS
  <2>2. <<j, i>> \in OpToRel(<,Nat)
    BY <2>1 DEF OpToRel
  <2> QED
    BY <1>1, <2>2
<1> QED
  BY <1>2

(* So has a nonempty set of naturals with an upper bound a greatest one.   *)
LEMMA GreatestElement ==
    ASSUME NEW S \in SUBSET Nat, S # {}, NEW n \in Nat, \A i \in S : i <= n
    PROVE  Max(S) \in S /\ \A i \in S : Max(S) >= i
<1> DEFINE Bounds == {m \in Nat : \A i \in S : i <= m}
<1>1. Bounds \in SUBSET Nat /\ Bounds # {}
  OBVIOUS
<1>2. PICK m \in Bounds : \A j \in Bounds : m <= j
  <2> HIDE DEF Bounds
  <2> QED
    BY <1>1, LeastElement
<1>3. m \in S
  <2>1. SUFFICES ASSUME m \notin S PROVE FALSE
    OBVIOUS
  <2>2. \A i \in S : i < m
    BY <1>2, <2>1
  <2>3. m - 1 \in Bounds
    <3>1. PICK x \in S : x \in Nat /\ x < m
      BY <2>2
    <3>2. m \in Nat /\ m - 1 \in Nat
      BY <3>1
    <3>3. \A i \in S : i <= m - 1
      BY <2>2, <3>2
    <3> QED
      BY <3>2, <3>3
  <2> QED
    BY <1>2, <2>3
<1>4. \A i \in S : m >= i
  BY <1>2
<1> QED
  BY <1>3, <1>4 DEF Max

(* Recursion: a function on 0 .. n is defined by its first value and by    *)
(* what each value makes of the one before.                                *)
Steps(n, T) == [(1 .. n) \X T -> T]

Recursion(f, n, T, first, step) ==
    f \in [0 .. n -> T] /\ f[0] = first /\ \A k \in 1 .. n : f[k] = step[<<k, f[k - 1]>>]

LEMMA RecursionExists ==
    ASSUME NEW T, NEW first \in T, NEW n \in Nat, NEW step \in Steps(n, T)
    PROVE  \E f : Recursion(f, n, T, first, step)
<1> DEFINE Builds(m, f) == f[0] = first /\ \A k \in 1 .. m : f[k] = step[<<k, f[k - 1]>>]
           S == {m \in Nat : m <= n => \E f \in [0 .. m -> T] : Builds(m, f)}
<1>1. 0 \in S
  <2> DEFINE f == [k \in 0 .. 0 |-> first]
  <2>1. f \in [0 .. 0 -> T] /\ Builds(0, f)
    OBVIOUS
  <2> QED
    BY <2>1
<1>2. ASSUME NEW m \in Nat, m \in S PROVE m + 1 \in S
  <2>1. SUFFICES ASSUME m + 1 <= n PROVE \E g \in [0 .. m + 1 -> T] : Builds(m + 1, g)
    OBVIOUS
  <2>2. PICK f \in [0 .. m -> T] : Builds(m, f)
    BY <1>2, <2>1
  <2> DEFINE g == [k \in 0 .. m + 1 |-> IF k = m + 1 THEN step[<<m + 1, f[m]>>] ELSE f[k]]
  <2>3. f[m] \in T /\ m + 1 \in 1 .. n
    BY <2>1
  <2>4. step[<<m + 1, f[m]>>] \in T
    BY <2>3 DEF Steps
  <2>5. g \in [0 .. m + 1 -> T]
    <3>1. \A k \in 0 .. m + 1 : k # m + 1 => k \in 0 .. m
      OBVIOUS
    <3> QED
      BY <2>4, <3>1
  <2>6. g[0] = first
    BY <2>2
  <2>7. ASSUME NEW k \in 1 .. m + 1 PROVE g[k] = step[<<k, g[k - 1]>>]
    <3>1. CASE k = m + 1
      <4>1. k - 1 = m /\ m \in 0 .. m + 1 /\ m # m + 1
        BY <3>1
      <4>2. g[m] = f[m] /\ g[k] = step[<<m + 1, f[m]>>]
        BY <3>1, <4>1
      <4> HIDE DEF g
      <4> QED
        BY <3>1, <4>1, <4>2
    <3>2. CASE k # m + 1
      <4>1. k \in 1 .. m /\ k - 1 \in 0 .. m + 1 /\ k - 1 # m + 1
        BY <3>2
      <4>2. g[k] = f[k] /\ g[k - 1] = f[k - 1]
        BY <3>2, <4>1
      <4>3. f[k] = step[<<k, f[k - 1]>>]
        BY <2>2, <4>1
      <4> HIDE DEF g
      <4> QED
        BY <4>2, <4>3
    <3> QED
      BY <3>1, <3>2
  <2> HIDE DEF g
  <2> QED
    BY <2>5, <2>6, <2>7
<1> HIDE DEF S
<1>3. n \in S
  BY <1>1, <1>2, SetInduction
<1> QED
  BY <1>3 DEF S, Recursion

(* What holds of the first value and is kept by each step holds of all.    *)
LEMMA RecursionKeeps ==
    ASSUME NEW n \in Nat, NEW f, NEW T, f[0] \in T, \A k \in 1 .. n : f[k - 1] \in T => f[k] \in T
    PROVE  \A k \in 0 .. n : f[k] \in T
<1> DEFINE S == {k \in Nat : k <= n => f[k] \in T}
<1>1. 0 \in S
  OBVIOUS
<1>2. ASSUME NEW k \in Nat, k \in S PROVE k + 1 \in S
  <2>1. SUFFICES ASSUME k + 1 <= n PROVE f[k + 1] \in T
    OBVIOUS
  <2>2. k + 1 \in 1 .. n /\ (k + 1) - 1 = k /\ k <= n
    BY <2>1
  <2>3. f[k] \in T
    BY <1>2, <2>2
  <2>4. f[(k + 1) - 1] \in T => f[k + 1] \in T
    BY <2>2
  <2> QED
    BY <2>2, <2>3, <2>4
<1> HIDE DEF S
<1>3. \A k \in Nat : k \in S
  BY <1>1, <1>2, SetInduction
<1> QED
  BY <1>3 DEF S
=============================================================================
