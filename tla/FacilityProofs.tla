---------------------------- MODULE FacilityProofs ----------------------------
(***************************************************************************)
(* Proofs about the facilities a game uses every frame: AppFrame, for any  *)
(* readers in any schedules, states and requests; MessageChannel, for any  *)
(* capacity, number of readers and nesting of their iterators; Hierarchy,  *)
(* for any number of entities; and ChangeDetection, for any entities, any  *)
(* component types and any query.                                          *)
(***************************************************************************)
EXTENDS AppFrame, MessageChannel, Hierarchy, ChangeDetection, Induction, SequenceTheorems, FiniteSetTheorems, TLAPS

-----------------------------------------------------------------------------
(* AppFrame.  The state machine: what each schedule saw last.              *)
Told(p) == changed <=> state # seenState[p]
UpToDate(p) == seenState[p] = state
Scheduled == {"Early", "First", "Update"}

ChangeInv ==
    /\ stage \in 1 .. 7
    /\ seenState = [p \in UserStages |-> seenState[p]]
    /\ stage = 1 => ~changed /\ \A p \in UserStages : UpToDate(p)
    /\ stage = 2 => Told("Early") /\ Told("First") /\ UpToDate("Update")
    /\ stage \in {3, 4} => UpToDate("Early") /\ Told("First") /\ UpToDate("Update")
    /\ stage = 5 => \A p \in Scheduled : UpToDate(p)
    /\ stage = 6 => \A p \in Scheduled : Told(p)
    /\ stage = 7 => Told("Early") /\ Told("First") /\ UpToDate("Update")

LEMMA StageNames ==
    /\ Stages[1] = "Startup" /\ Stages[2] = "Early" /\ Stages[3] = "Swap" /\ Stages[4] = "First"
    /\ Stages[5] = "StateTransition" /\ Stages[6] = "Update" /\ Stages[7] = "Tail"
BY DEF Stages

LEMMA Places ==
    ASSUME stage \in 1 .. 7
    PROVE  /\ Here = "Startup" <=> stage = 1
           /\ Here = "Early" <=> stage = 2
           /\ Here = "Swap" <=> stage = 3
           /\ Here = "First" <=> stage = 4
           /\ Here = "StateTransition" <=> stage = 5
           /\ Here = "Update" <=> stage = 6
           /\ Here = "Tail" <=> stage = 7
<1>1. stage = 1 \/ stage = 2 \/ stage = 3 \/ stage = 4 \/ stage = 5 \/ stage = 6 \/ stage = 7
    OBVIOUS
<1> QED BY <1>1, StageNames DEF Here

(* What a step does to the place in the frame. *)
LEMMA Turns ==
    ASSUME stage \in 1 .. 7, Loop
    PROVE  /\ stage' \in 1 .. 7
           /\ Advance => stage \in {2, 4, 6} /\ stage' = stage + 1
           /\ SwapEvents => stage = 3 /\ stage' = 4
           /\ ApplyTransition => stage = 5 /\ stage' = 6
           /\ Start => stage = 1 /\ stage' \in {1, 2}
           /\ DrainExitEvents => stage = 7 /\ stage' \in {7, 2}
<1>1. Advance => stage \in {2, 4, 6} /\ stage' = stage + 1
    BY Places DEF Advance, InSystem, UserStages, Enter
<1>2. SwapEvents => stage = 3 /\ stage' = 4
    BY Places DEF SwapEvents, Enter
<1>3. ApplyTransition => stage = 5 /\ stage' = 6
    BY Places DEF ApplyTransition, Enter
<1>4. Start => stage = 1 /\ stage' \in {1, 2}
    BY Places DEF Start, Enter, NextFrame
<1>5. DrainExitEvents => stage = 7 /\ stage' \in {7, 2}
    BY Places DEF DrainExitEvents, Enter, NextFrame
<1> QED BY <1>1, <1>2, <1>3, <1>4, <1>5 DEF Loop

LEMMA ChangeStart == Init => ChangeInv
<1> SUFFICES ASSUME Init PROVE ChangeInv
    OBVIOUS
<1> QED BY DEF Init, ChangeInv, UpToDate, UserStages

LEMMA ChangeStep == ChangeInv /\ [Next]_vars => ChangeInv'
<1> SUFFICES ASSUME ChangeInv, [Next]_vars PROVE ChangeInv'
    OBVIOUS
<1>1. stage \in 1 .. 7 /\ seenState = [p \in UserStages |-> seenState[p]]
    BY DEF ChangeInv
<1>2. ASSUME UNCHANGED <<stage, state, changed, seenState>> PROVE ChangeInv'
    BY <1>2 DEF ChangeInv, Told, UpToDate
<1>3. CASE Advance
    <2>1. stage \in {2, 4, 6} /\ stage' = stage + 1 /\ UNCHANGED <<state, changed>>
          /\ seenState' = [seenState EXCEPT ![Here] = state]
        BY <1>1, <1>3, Turns DEF Advance, Loop
    <2>2. Here \in UserStages
        BY <1>3 DEF Advance, InSystem
    <2>3. seenState'[Here] = state /\ (\A p \in UserStages : p # Here => seenState'[p] = seenState[p])
          /\ seenState' = [p \in UserStages |-> seenState'[p]]
        BY <1>1, <2>1, <2>2
    <2>4. CASE stage = 2
        BY <1>1, <2>1, <2>3, <2>4, Places DEF ChangeInv, Told, UpToDate, UserStages
    <2>5. CASE stage = 4
        <3>1. Here = "First" /\ stage' = 5
            BY <1>1, <2>1, <2>5, Places
        <3> QED BY <1>1, <2>1, <2>3, <2>5, <3>1 DEF ChangeInv, Told, UpToDate, UserStages, Scheduled
    <2>6. CASE stage = 6
        <3>1. Here = "Update" /\ stage' = 7
            BY <1>1, <2>1, <2>6, Places
        <3> QED BY <1>1, <2>1, <2>3, <2>6, <3>1 DEF ChangeInv, Told, UpToDate, UserStages, Scheduled
    <2> QED BY <2>1, <2>4, <2>5, <2>6
<1>4. CASE SwapEvents
    <2>1. stage = 3 /\ stage' = 4 /\ UNCHANGED <<state, changed, seenState>>
        BY <1>1, <1>4, Turns DEF SwapEvents, Loop, stateVars
    <2> QED BY <2>1 DEF ChangeInv, Told, UpToDate
<1>5. CASE ApplyTransition
    <2>1. stage = 5 /\ stage' = 6 /\ UNCHANGED seenState /\ (changed' <=> state' # state)
        BY <1>1, <1>5, Turns DEF ApplyTransition, Loop
    <2> QED BY <1>1, <2>1 DEF ChangeInv, Told, UpToDate
<1>6. CASE Start
    <2>1. stage = 1 /\ stage' \in {1, 2} /\ UNCHANGED <<state, changed, seenState>>
        BY <1>1, <1>6, Turns DEF Start, Loop, stateVars
    <2> QED BY <1>1, <2>1 DEF ChangeInv, Told, UpToDate, UserStages
<1>7. CASE DrainExitEvents
    <2>1. stage = 7 /\ stage' \in {7, 2} /\ UNCHANGED <<state, changed, seenState>>
        BY <1>1, <1>7, Turns DEF DrainExitEvents, Loop, stateVars
    <2> QED BY <1>1, <2>1 DEF ChangeInv, Told, UpToDate
<1>8. CASE Send \/ (\E r \in Reader : Read(r)) \/ (\E s \in State : TransitionTo(s)) \/ (\E code \in Code : RequestExit(code))
    BY <1>2, <1>8 DEF Send, Read, TransitionTo, RequestExit, appVars, stateVars
<1>9. CASE Exit \/ Panic \/ UNCHANGED vars
    BY <1>2, <1>9 DEF Exit, Panic, vars, appVars, stateVars
<1> QED BY <1>3, <1>4, <1>5, <1>6, <1>7, <1>8, <1>9 DEF Next, Loop

(* state.go.  At each stage of a frame it is settled which schedules have  *)
(* seen the current state and which are one state behind.                  *)
THEOREM ChangeInvariant == Spec => []ChangeInv
<1> QED BY ChangeStart, ChangeStep, PTL DEF Spec

(* state.go:42-44, 75-103.  For any states, readers and requests, at every *)
(* position of every frame a transition is seen once and not twice.        *)
THEOREM ChangeSeenOnceHolds == Spec => []ChangeSeenOnce
<1>1. ChangeInv => ChangeSeenOnce
    <2> SUFFICES ASSUME ChangeInv, Here \in UserStages PROVE changed <=> state # seenState[Here]
        BY DEF ChangeSeenOnce
    <2>1. stage \in 1 .. 7
        BY DEF ChangeInv
    <2>2. CASE stage = 1
        BY <2>2 DEF ChangeInv, UpToDate
    <2>3. CASE stage \in {2, 4}
        BY <2>1, <2>3, Places DEF ChangeInv, Told
    <2>4. CASE stage = 6
        BY <2>1, <2>4, Places DEF ChangeInv, Told, Scheduled
    <2>5. stage \notin {3, 5, 7}
        BY <2>1, Places DEF UserStages
    <2> QED BY <2>1, <2>2, <2>3, <2>4, <2>5
<1> QED BY <1>1, ChangeInvariant, PTL

-----------------------------------------------------------------------------
(* AppFrame.  The bus: what its buffers hold, and how far the readers are. *)
Bus == [prev : Seq(Nat), cur : Seq(Nat), base : Nat, sent : Nat]

(* The numbers after `from`, one by one.                                   *)
Counts(s, from) == \A i \in 1 .. Len(s) : s[i] = from + i

Numbered(b) ==
    /\ Len(b.prev) <= b.base /\ b.sent = b.base + Len(b.cur)
    /\ Counts(b.prev, Oldest(b)) /\ Counts(b.cur, b.base)

Swept ==
    /\ swaps \in Nat /\ sentAt \in Seq(Nat) /\ Len(sentAt) = bus.sent
    /\ \A e \in 1 .. bus.sent : sentAt[e] <= swaps
    /\ \A e \in 1 .. bus.base : sentAt[e] + 1 <= swaps
    /\ \A e \in 1 .. Oldest(bus) : sentAt[e] + 2 <= swaps

(* The stages at which a reader that has run has done so since the swap.   *)
Since(p) == CASE p = "Early" -> 1 .. 3 [] p = "First" -> 1 .. 7 [] p = "Update" -> {1, 2, 3, 6, 7}

Kept ==
    /\ waiting \subseteq {r \in Steady : Position[r] = Here}
    /\ \A r \in Steady : cursor[r] >= Oldest(bus)
    /\ \A r \in Steady : r \notin waiting /\ stage \in Since(Position[r]) => cursor[r] >= bus.base

BusInv ==
    /\ stage \in 1 .. 7
    /\ bus \in Bus /\ Numbered(bus)
    /\ cursor \in [Reader -> Nat] /\ \A r \in Reader : cursor[r] <= bus.sent
    /\ got \in [Reader -> Seq(Nat)]
    /\ Swept /\ Kept /\ SteadyReadersMissNothing

LEMMA MaxOfTwo ==
    ASSUME NEW a \in Nat, NEW b \in Nat
    PROVE  Max({a, b}) = IF a >= b THEN a ELSE b
<1>1. PICK m : m = IF a >= b THEN a ELSE b
    OBVIOUS
<1>2. m \in {a, b} /\ \A y \in {a, b} : m >= y
    BY <1>1
<1>3. Max({a, b}) \in {a, b} /\ \A y \in {a, b} : Max({a, b}) >= y
    BY <1>2 DEF Max
<1> QED BY <1>1, <1>2, <1>3

(* What is left of the numbers behind `base` from `from` on.               *)
Rest(s, base, from, t) ==
    /\ s \in Seq(Nat) /\ base \in Nat /\ Counts(s, base)
    /\ from \in Nat /\ from >= base /\ from <= base + Len(s)
    /\ t = SubSeq(s, from - base + 1, Len(s))

LEMMA RestCounts ==
    ASSUME NEW s, NEW base, NEW from, NEW t, Rest(s, base, from, t)
    PROVE  t \in Seq(Nat) /\ Len(t) = base + Len(s) - from /\ Counts(t, from)
<1>1. PICK n \in Nat : n = Len(s)
    BY LenProperties DEF Rest
<1>2. base \in Nat /\ from \in Nat /\ from >= base /\ from <= base + n
    BY <1>1 DEF Rest
<1>3. PICK m \in Nat : m = from - base + 1
    BY <1>2
<1>4. m \in Int /\ n \in Int /\ m <= n + 1 /\ m >= 1 /\ n - m + 1 = base + n - from /\ base + m = from + 1
    BY <1>1, <1>2, <1>3
<1>5. \A i \in m .. n : s[i] \in Nat /\ s[i] = base + i
    BY <1>1, <1>4 DEF Counts, Rest
<1>6. t = SubSeq(s, m, n)
    BY <1>1, <1>3 DEF Rest
<1>7. \A i \in m .. n : s[i] \in Nat
    BY <1>5
<1>8. /\ t \in Seq(Nat) /\ Len(t) = (IF m <= n THEN n - m + 1 ELSE 0)
      /\ \A i \in 1 .. n - m + 1 : t[i] = s[m + i - 1]
    <2>1. /\ SubSeq(s, m, n) \in Seq(Nat) /\ Len(SubSeq(s, m, n)) = (IF m <= n THEN n - m + 1 ELSE 0)
          /\ \A i \in 1 .. n - m + 1 : SubSeq(s, m, n)[i] = s[m + i - 1]
        BY <1>4, <1>7, SubSeqProperties
    <2> QED BY <1>6, <2>1
<1>9. Len(t) = n - m + 1
    BY <1>4, <1>8
<1>10. ASSUME NEW i \in 1 .. Len(t) PROVE t[i] = from + i
    <2>1. i \in 1 .. n - m + 1 /\ m + i - 1 \in m .. n /\ base + (m + i - 1) = from + i
        BY <1>2, <1>4, <1>9, <1>10
    <2>2. s[m + i - 1] = base + (m + i - 1)
        BY <1>5, <2>1
    <2> QED BY <1>8, <2>1, <2>2
<1> QED BY <1>1, <1>4, <1>8, <1>9, <1>10 DEF Counts

(* A reader gets the events behind its cursor that are still there.        *)
LEMMA UnreadFacts ==
    ASSUME NEW b \in Bus, Numbered(b), NEW c \in Nat, c <= b.sent
    PROVE  LET from == IF c >= Oldest(b) THEN c ELSE Oldest(b)
           IN  /\ from \in Nat /\ from <= b.sent /\ Oldest(b) \in Nat
               /\ \A n : After(b, c, n) = from + n
               /\ Unread(b, c) \in Seq(Nat) /\ Len(Unread(b, c)) = b.sent - from
               /\ Counts(Unread(b, c), from)
<1>1. PICK prev \in Seq(Nat), cur \in Seq(Nat), base \in Nat, sent \in Nat :
        prev = b.prev /\ cur = b.cur /\ base = b.base /\ sent = b.sent
    BY DEF Bus
<1>2. PICK old : old = Oldest(b)
    OBVIOUS
<1>3. PICK p \in Nat, q \in Nat : p = Len(prev) /\ q = Len(cur)
    BY LenProperties
<1>4. /\ old = base - p /\ p <= base /\ sent = base + q /\ old \in Nat /\ c <= sent
      /\ Counts(prev, old) /\ Counts(cur, base)
    BY <1>1, <1>2, <1>3 DEF Oldest, Numbered
<1>5. PICK from \in Nat : from = IF c >= old THEN c ELSE old
    BY <1>4
<1>6. from = Max({c, old}) /\ from >= old /\ from <= sent
    <2>1. Max({c, old}) = IF c >= old THEN c ELSE old
        BY <1>4, MaxOfTwo, Zenon
    <2> QED BY <1>4, <1>5, <2>1
<1>7. PICK both \in Nat : both = IF from >= base THEN from ELSE base
    OBVIOUS
<1>8. both = Max({from, base}) /\ both >= base /\ both <= sent
    <2>1. Max({from, base}) = IF from >= base THEN from ELSE base
        BY <1>1, <1>5, MaxOfTwo, Zenon
    <2> QED BY <1>4, <1>6, <1>7, <2>1
<1>9. PICK older : older = SubSeq(prev, from - old + 1, p)
    OBVIOUS
<1>10. PICK newer : newer = SubSeq(cur, both - base + 1, q)
    OBVIOUS
<1>11. Unread(b, c) = older \o newer
    BY <1>1, <1>2, <1>3, <1>6, <1>8, <1>9, <1>10 DEF Unread
<1>12. older \in Seq(Nat) /\ Len(older) = both - from /\ Counts(older, from)
    <2>1. CASE from <= base
        <3>1. both = base /\ from <= old + p /\ both - from = old + p - from
            BY <1>4, <1>7, <2>1
        <3>2. Rest(prev, old, from, older)
            BY <1>3, <1>4, <1>6, <1>9, <3>1 DEF Rest
        <3> QED BY <1>3, <3>1, <3>2, RestCounts
    <2>2. CASE from > base
        <3>1. both = from /\ from - old + 1 \in Int /\ p \in Int /\ p < from - old + 1
            BY <1>4, <1>7, <2>2
        <3>2. older = <<>>
            BY <1>9, <3>1, SubSeqEmpty
        <3> QED BY <3>1, <3>2 DEF Counts
    <2> QED BY <2>1, <2>2
<1>13. newer \in Seq(Nat) /\ Len(newer) = sent - both /\ Counts(newer, both)
    <2>1. Rest(cur, base, both, newer)
        BY <1>3, <1>4, <1>8, <1>10 DEF Rest
    <2> QED BY <1>3, <1>4, <2>1, RestCounts
<1>14. PICK unread : unread = older \o newer
    OBVIOUS
<1>15. unread \in Seq(Nat) /\ Len(unread) = Len(older) + Len(newer)
       /\ \A i \in 1 .. Len(older) + Len(newer) : unread[i] = IF i <= Len(older) THEN older[i] ELSE newer[i - Len(older)]
    BY <1>12, <1>13, <1>14, ConcatProperties
<1>16. PICK v \in Nat, w \in Nat : v = Len(older) /\ w = Len(newer)
    BY <1>12, <1>13, LenProperties
<1>17. v = both - from /\ w = sent - both
    BY <1>12, <1>13, <1>16
<1>18. ASSUME NEW k \in 1 .. v + w PROVE unread[k] = from + k
    <2>1. CASE k <= v
        BY <1>12, <1>15, <1>16, <1>18, <2>1 DEF Counts
    <2>2. CASE k > v
        <3>1. k - v \in 1 .. w /\ both + (k - v) = from + k /\ ~(k <= v)
            BY <1>17, <1>18, <2>2
        <3>2. newer[k - v] = from + k
            BY <1>13, <1>16, <3>1 DEF Counts
        <3> QED BY <1>15, <1>16, <1>18, <3>1, <3>2
    <2> QED BY <2>1, <2>2
<1>19. \A n : After(b, c, n) = from + n
    BY <1>2, <1>6 DEF After
<1>20. /\ Unread(b, c) \in Seq(Nat) /\ Len(Unread(b, c)) = sent - from
       /\ Counts(Unread(b, c), from)
    BY <1>11, <1>14, <1>15, <1>16, <1>17, <1>18 DEF Counts
<1> QED BY <1>1, <1>2, <1>4, <1>5, <1>6, <1>19, <1>20

LEMMA SwappedFields ==
    ASSUME NEW b \in Bus
    PROVE  /\ Swapped(b).prev = b.cur /\ Swapped(b).cur = <<>>
           /\ Swapped(b).base = b.sent /\ Swapped(b).sent = b.sent
           /\ Swapped(b) \in Bus
<1>1. /\ Swapped(b).prev = b.cur /\ Swapped(b).cur = <<>>
      /\ Swapped(b).base = b.sent /\ Swapped(b).sent = b.sent
    BY DEF Swapped, Bus
<1>2. b.cur \in Seq(Nat) /\ b.sent \in Nat /\ <<>> \in Seq(Nat)
    BY DEF Bus
<1>3. Swapped(b) \in Bus
    BY <1>2 DEF Bus, Swapped
<1> QED BY <1>1, <1>3

LEMMA SendOnFields ==
    ASSUME NEW b \in Bus, NEW e \in Nat
    PROVE  /\ SendOn(b, e).prev = b.prev /\ SendOn(b, e).cur = Append(b.cur, e)
           /\ SendOn(b, e).base = b.base /\ SendOn(b, e).sent = b.sent + 1
           /\ SendOn(b, e) \in Bus
<1>1. /\ SendOn(b, e).prev = b.prev /\ SendOn(b, e).cur = Append(b.cur, e)
      /\ SendOn(b, e).base = b.base /\ SendOn(b, e).sent = b.sent + 1
    BY DEF SendOn, Bus
<1>2. b.cur \in Seq(Nat) /\ b.sent \in Nat /\ Append(b.cur, e) \in Seq(Nat)
    BY DEF Bus
<1>3. PICK cur \in Seq(Nat) : cur = Append(b.cur, e)
    BY <1>2
<1>4. PICK sent \in Nat : sent = b.sent + 1
    BY <1>2
<1>5. SendOn(b, e) = [b EXCEPT !.cur = cur, !.sent = sent]
    BY <1>3, <1>4 DEF SendOn
<1>6. SendOn(b, e) \in Bus
    BY <1>5 DEF Bus
<1> QED BY <1>1, <1>6

(* A step within a stage that does not touch the bus.                      *)
LEMMA BusKept ==
    ASSUME BusInv, UNCHANGED <<stage, busVars>>
    PROVE  BusInv'
BY DEF BusInv, busVars, Numbered, Oldest, Swept, Kept, SteadyReadersMissNothing, Here

LEMMA BusSend ==
    ASSUME BusInv, Send
    PROVE  BusInv'
<1>1. /\ bus \in Bus /\ Numbered(bus) /\ Swept /\ Kept /\ stage \in 1 .. 7 /\ SteadyReadersMissNothing
      /\ bus' = SendOn(bus, bus.sent + 1) /\ sentAt' = Append(sentAt, swaps)
      /\ UNCHANGED <<stage, cursor, waiting, got, swaps>>
    BY DEF BusInv, Send, appVars
<1>2. bus.prev \in Seq(Nat) /\ bus.cur \in Seq(Nat) /\ bus.base \in Nat /\ bus.sent \in Nat
    BY <1>1 DEF Bus
<1>3. /\ bus'.prev = bus.prev /\ bus'.cur = Append(bus.cur, bus.sent + 1) /\ bus'.base = bus.base
      /\ bus'.sent = bus.sent + 1 /\ bus' \in Bus
    <2>1. bus.sent + 1 \in Nat
        BY <1>2
    <2> QED BY <1>1, <2>1, SendOnFields
<1>4. Oldest(bus') = Oldest(bus) /\ Oldest(bus)' = Oldest(bus)
    BY <1>3 DEF Oldest
<1>5. Numbered(bus')
    <2>1. Len(bus'.cur) = Len(bus.cur) + 1 /\ Len(bus.cur) \in Nat /\ bus'.cur[Len(bus.cur) + 1] = bus.sent + 1
          /\ \A i \in 1 .. Len(bus.cur) : bus'.cur[i] = bus.cur[i]
        BY <1>2, <1>3
    <2>2. \A i \in 1 .. Len(bus'.cur) : i \in 1 .. Len(bus.cur) \/ i = Len(bus.cur) + 1
        BY <2>1
    <2>3. ASSUME NEW i \in 1 .. Len(bus'.cur) PROVE bus'.cur[i] = bus.base + i
        <3>1. CASE i \in 1 .. Len(bus.cur)
            BY <1>1, <2>1, <3>1 DEF Numbered, Counts
        <3>2. CASE i = Len(bus.cur) + 1
            <4>1. PICK len \in Nat, base \in Nat : len = Len(bus.cur) /\ base = bus.base /\ bus.sent = base + len
                BY <1>1, <1>2, <2>1 DEF Numbered
            <4>2. bus'.cur[i] = bus.sent + 1 /\ i = len + 1
                BY <2>1, <3>2, <4>1
            <4>3. bus.sent + 1 = base + i
                BY <4>1, <4>2
            <4> QED BY <4>1, <4>2, <4>3
        <3> QED BY <2>2, <3>1, <3>2
    <2>4. Counts(bus'.cur, bus.base)
        BY <2>3 DEF Counts
    <2> QED BY <1>1, <1>2, <1>3, <1>4, <2>1, <2>4 DEF Numbered
<1>6. Swept'
    <2>1. /\ sentAt' \in Seq(Nat) /\ Len(sentAt') = bus.sent + 1 /\ sentAt'[bus.sent + 1] = swaps /\ swaps \in Nat
          /\ \A e \in 1 .. bus.sent : sentAt'[e] = sentAt[e]
        BY <1>1, <1>2 DEF Swept
    <2>2. \A e \in 1 .. bus.sent + 1 : e \in 1 .. bus.sent \/ e = bus.sent + 1
        BY <1>2
    <2>3. /\ \A e \in 1 .. bus.base : e \in 1 .. bus.sent
          /\ \A e \in 1 .. Oldest(bus) : e \in 1 .. bus.sent
        BY <1>1, <1>2 DEF Numbered, Oldest
    <2>4. \A e \in 1 .. bus.sent + 1 : sentAt'[e] <= swaps
        BY <1>1, <2>1, <2>2 DEF Swept
    <2>5. /\ \A e \in 1 .. bus.base : sentAt'[e] + 1 <= swaps
          /\ \A e \in 1 .. Oldest(bus) : sentAt'[e] + 2 <= swaps
        BY <1>1, <2>1, <2>3 DEF Swept
    <2> QED BY <1>1, <1>3, <1>4, <2>1, <2>4, <2>5 DEF Swept
<1>7. Kept' /\ SteadyReadersMissNothing'
    BY <1>1, <1>3, <1>4 DEF Kept, Here, SteadyReadersMissNothing
<1>8. cursor' \in [Reader -> Nat] /\ (\A r \in Reader : cursor'[r] <= bus'.sent) /\ got' \in [Reader -> Seq(Nat)] /\ stage' \in 1 .. 7
    BY <1>1, <1>2, <1>3 DEF BusInv
<1> QED BY <1>3, <1>5, <1>6, <1>7, <1>8 DEF BusInv

(* What a reader that runs gets.                                           *)
Gets(r, from, n) ==
    /\ from = IF cursor[r] >= Oldest(bus) THEN cursor[r] ELSE Oldest(bus)
    /\ from + n <= bus.sent
    /\ r \in Steady => from + n = bus.sent
    /\ cursor' = [cursor EXCEPT ![r] = from + n]
    /\ got' = [got EXCEPT ![r] = got'[r]]
    /\ got'[r] \in Seq(Nat) /\ Len(got'[r]) = Len(got[r]) + n
    /\ \A k \in 1 .. Len(got[r]) : got'[r][k] = got[r][k]
    /\ \A k \in 1 .. n : got'[r][Len(got[r]) + k] = from + k

LEMMA ReadGets ==
    ASSUME BusInv, NEW r \in Reader, Read(r)
    PROVE  \E from \in Nat, n \in Nat : Gets(r, from, n)
<1>1. bus \in Bus /\ Numbered(bus) /\ cursor[r] \in Nat /\ cursor[r] <= bus.sent /\ got \in [Reader -> Seq(Nat)]
      /\ cursor \in [Reader -> Nat] /\ bus.sent \in Nat
    BY DEF BusInv, Bus
<1>2. PICK unread : unread = Unread(bus, cursor[r])
    OBVIOUS
<1>3. PICK from \in Nat :
        /\ from = IF cursor[r] >= Oldest(bus) THEN cursor[r] ELSE Oldest(bus)
        /\ from <= bus.sent
        /\ unread \in Seq(Nat) /\ Len(unread) = bus.sent - from /\ Counts(unread, from)
        /\ \A n : After(bus, cursor[r], n) = from + n
    BY <1>1, <1>2, UnreadFacts
<1>4. PICK n \in 0 .. Len(unread) :
        /\ r \in Steady => n = Len(unread)
        /\ got' = [got EXCEPT ![r] = @ \o SubSeq(unread, 1, n)]
        /\ cursor' = [cursor EXCEPT ![r] = After(bus, cursor[r], n)]
    BY <1>2 DEF Read
<1>5. PICK len \in Nat : len = Len(unread)
    BY <1>3, LenProperties
<1>6. n \in Nat /\ n <= len
    BY <1>4, <1>5
<1>7. PICK had \in Seq(Nat) : had = got[r]
    BY <1>1
<1>8. PICK h \in Nat : h = Len(had)
    BY LenProperties
<1>9. PICK more : more = SubSeq(unread, 1, n)
    OBVIOUS
<1>10. \A k \in 1 .. n : unread[k] \in Nat /\ unread[k] = from + k
    BY <1>3, <1>5, <1>6 DEF Counts
<1>11. more \in Seq(Nat) /\ Len(more) = n /\ \A k \in 1 .. n : more[k] = from + k
    <2>1. /\ more \in Seq(Nat) /\ Len(more) = (IF 1 <= n THEN n - 1 + 1 ELSE 0)
          /\ \A k \in 1 .. n - 1 + 1 : more[k] = unread[1 + k - 1]
        BY <1>6, <1>9, <1>10, SubSeqProperties
    <2>2. \A k \in 1 .. n : k \in 1 .. n - 1 + 1 /\ 1 + k - 1 = k
        BY <1>6
    <2>3. Len(more) = n
        BY <1>6, <2>1
    <2> QED BY <1>10, <2>1, <2>2, <2>3
<1>12. PICK now : now = had \o more
    OBVIOUS
<1>13. /\ now \in Seq(Nat) /\ Len(now) = h + n
       /\ \A i \in 1 .. h + n : now[i] = IF i <= h THEN had[i] ELSE more[i - h]
    BY <1>8, <1>11, <1>12, ConcatProperties
<1>14. \A k \in 1 .. h : now[k] = had[k]
    BY <1>6, <1>13
<1>15. ASSUME NEW k \in 1 .. n PROVE now[h + k] = from + k
    <2>1. h + k \in 1 .. h + n /\ ~(h + k <= h) /\ h + k - h = k
        BY <1>6, <1>15
    <2> QED BY <1>11, <1>13, <2>1
<1>16. got'[r] = now /\ got' = [got EXCEPT ![r] = now]
    BY <1>1, <1>4, <1>7, <1>9, <1>12
<1>17. cursor' = [cursor EXCEPT ![r] = from + n]
    BY <1>3, <1>4
<1>18. from + n <= bus.sent /\ (r \in Steady => from + n = bus.sent)
    <2>1. PICK sent \in Nat : sent = bus.sent
        BY <1>1
    <2>2. len = sent - from
        BY <1>3, <1>5, <2>1
    <2>3. r \in Steady => n = len
        BY <1>4, <1>5
    <2>4. from + len = sent /\ from + n <= from + len
        BY <1>6, <2>2
    <2> QED BY <2>1, <2>3, <2>4
<1>19. Gets(r, from, n)
    BY <1>3, <1>7, <1>8, <1>13, <1>14, <1>15, <1>16, <1>17, <1>18 DEF Gets
<1> QED BY <1>6, <1>19

LEMMA BusRead ==
    ASSUME BusInv, NEW r \in Reader, Read(r)
    PROVE  BusInv' /\ LostOnlyAfterTwoSwaps
<1>1. /\ bus \in Bus /\ Numbered(bus) /\ Swept /\ Kept /\ stage \in 1 .. 7 /\ SteadyReadersMissNothing
      /\ cursor \in [Reader -> Nat] /\ (\A q \in Reader : cursor[q] <= bus.sent) /\ got \in [Reader -> Seq(Nat)]
      /\ bus.sent \in Nat
    BY DEF BusInv, Bus
<1>2. UNCHANGED <<stage, bus, sentAt, swaps>> /\ waiting' = waiting \ {r} /\ Position[r] = Here
    BY DEF Read, appVars
<1>3. PICK from \in Nat, n \in Nat : Gets(r, from, n)
    BY ReadGets
<1>4. /\ from = (IF cursor[r] >= Oldest(bus) THEN cursor[r] ELSE Oldest(bus))
      /\ from + n <= bus.sent /\ (r \in Steady => from + n = bus.sent)
      /\ got'[r] \in Seq(Nat) /\ Len(got'[r]) = Len(got[r]) + n
      /\ \A k \in 1 .. Len(got[r]) : got'[r][k] = got[r][k]
      /\ \A k \in 1 .. n : got'[r][Len(got[r]) + k] = from + k
    BY <1>3 DEF Gets
<1>5. /\ cursor'[r] = from + n /\ from + n \in Nat /\ cursor' \in [Reader -> Nat] /\ got' \in [Reader -> Seq(Nat)]
      /\ \A q \in Reader : q # r => cursor'[q] = cursor[q] /\ got'[q] = got[q]
      /\ \A q \in Reader : cursor'[q] <= bus.sent
    <2>1. cursor' = [cursor EXCEPT ![r] = from + n] /\ got' = [got EXCEPT ![r] = got'[r]]
        BY <1>3 DEF Gets
    <2>2. cursor'[r] = from + n /\ cursor' \in [Reader -> Nat] /\ \A q \in Reader : q # r => cursor'[q] = cursor[q]
        BY <1>1, <2>1
    <2>3. got' \in [Reader -> Seq(Nat)] /\ \A q \in Reader : q # r => got'[q] = got[q]
        BY <1>1, <1>4, <2>1
    <2>4. \A q \in Reader : cursor'[q] <= bus.sent
        BY <1>1, <1>4, <2>2
    <2> QED BY <2>2, <2>3, <2>4
<1>6. Oldest(bus) \in Nat /\ bus.base \in Nat /\ bus.base <= bus.sent /\ Oldest(bus) <= bus.base
    BY <1>1 DEF Bus, Numbered, Oldest
<1>7. Steady \subseteq Reader
    BY FrameAssumption DEF FrameAssumption
<1>8. Kept'
    <2>1. \A q \in Steady : cursor'[q] >= Oldest(bus)
        <3>1. from >= Oldest(bus)
            BY <1>1, <1>4, <1>6
        <3>2. \A q \in Steady : q \in Reader /\ cursor[q] >= Oldest(bus)
            BY <1>1, <1>7 DEF Kept
        <3>3. cursor'[r] >= Oldest(bus)
            BY <1>5, <1>6, <3>1
        <3>4. \A q \in Steady : q # r => cursor'[q] >= Oldest(bus)
            BY <1>5, <3>2
        <3> QED BY <3>3, <3>4
    <2>2. ASSUME NEW q \in Steady, q \notin waiting', stage \in Since(Position[q]) PROVE cursor'[q] >= bus.base
        <3>1. CASE q = r
            BY <1>3, <1>4, <1>5, <1>6, <3>1
        <3>2. CASE q # r
            BY <1>1, <1>2, <1>5, <1>7, <2>2, <3>2 DEF Kept
        <3> QED BY <3>1, <3>2
    <2>3. waiting' \subseteq {q \in Steady : Position[q] = Here'}
        BY <1>1, <1>2 DEF Kept, Here
    <2> QED BY <1>2, <2>1, <2>2, <2>3 DEF Kept
<1>9. SteadyReadersMissNothing'
    <2>1. ASSUME NEW q \in Steady PROVE got'[q] = [e \in 1 .. cursor'[q] |-> e]
        <3>1. CASE q # r
            BY <1>1, <1>5, <1>7, <3>1 DEF SteadyReadersMissNothing
        <3>2. CASE q = r
            <4>1. from = cursor[r] /\ from + n = bus.sent /\ got[r] = [e \in 1 .. from |-> e] /\ r \in Steady
                BY <1>1, <1>3, <1>4, <1>6, <3>2 DEF Kept, SteadyReadersMissNothing
            <4>2. Len(got[r]) = from
                <5>1. DOMAIN got[r] = 1 .. from
                    BY <4>1
                <5>2. got[r] \in Seq(Nat)
                    BY <1>1
                <5> QED BY <1>4, <5>1, <5>2, LenProperties
            <4>3. \A k \in 1 .. from : got'[r][k] = k
                BY <1>4, <4>1, <4>2
            <4>4. \A k \in 1 .. n : got'[r][from + k] = from + k
                BY <1>4, <4>2
            <4>5. ASSUME NEW e \in 1 .. from + n PROVE got'[r][e] = e
                <5>1. CASE e > from
                    <6>1. e - from \in 1 .. n /\ from + (e - from) = e
                        BY <1>4, <1>5, <5>1
                    <6> QED BY <4>4, <6>1
                <5>2. CASE ~(e > from)
                    <6>1. e \in 1 .. from
                        BY <1>4, <1>5, <5>2
                    <6> QED BY <4>3, <6>1
                <5> QED BY <5>1, <5>2
            <4>6. got'[r] \in [1 .. from + n -> Nat]
                BY <1>4, <4>2, LenProperties
            <4>7. got'[r] = [e \in 1 .. from + n |-> e]
                BY <4>5, <4>6
            <4> QED BY <1>5, <3>2, <4>7
        <3> QED BY <3>1, <3>2
    <2> QED BY <2>1 DEF SteadyReadersMissNothing
<1>10. Swept' /\ Numbered(bus')
    BY <1>1, <1>2 DEF Swept
<1>11. BusInv'
    BY <1>1, <1>2, <1>5, <1>8, <1>9, <1>10 DEF BusInv
<1>12. LostOnlyAfterTwoSwaps
    <2> SUFFICES ASSUME NEW q \in Reader, NEW e \in cursor[q] + 1 .. cursor'[q]
                 PROVE  e \in ToSet(got'[q]) \/ sentAt[e] + 2 <= swaps
        BY DEF LostOnlyAfterTwoSwaps
    <2>1. cursor[q] \in Nat /\ cursor'[q] \in Nat
        BY <1>1, <1>5
    <2>2. q = r
        BY <1>5, <2>1
    <2>3. CASE e <= Oldest(bus)
        <3>1. e \in 1 .. Oldest(bus)
            BY <1>6, <2>1, <2>3
        <3> QED BY <1>1, <3>1 DEF Swept
    <2>4. CASE e > Oldest(bus)
        <3>1. e - from \in 1 .. n /\ from + (e - from) = e
            <4>1. e > from /\ e <= from + n
                BY <1>4, <1>5, <2>1, <2>2, <2>4
            <4> QED BY <2>1, <4>1
        <3>2. got'[r][Len(got[r]) + (e - from)] = e
            BY <1>4, <3>1
        <3>3. Len(got[r]) \in Nat /\ DOMAIN got'[r] = 1 .. Len(got[r]) + n
            BY <1>1, <1>4, LenProperties
        <3>4. Len(got[r]) + (e - from) \in DOMAIN got'[r]
            <4>1. PICK had \in Nat : had = Len(got[r])
                BY <3>3
            <4>2. had + (e - from) \in 1 .. had + n
                BY <3>1
            <4> QED BY <3>3, <4>1, <4>2
        <3> QED BY <2>2, <3>2, <3>4 DEF ToSet
    <2> QED BY <1>6, <2>1, <2>3, <2>4
<1> QED BY <1>11, <1>12

(* The frame goes on to a stage, with the same bus.                        *)
LEMMA BusEnters ==
    ASSUME BusInv, UNCHANGED <<bus, cursor, got, sentAt, swaps>>, stage' \in 1 .. 7,
           waiting' = {r \in Steady : Position[r] = Here'},
           \A r \in Steady : Position[r] # Here' /\ stage' \in Since(Position[r])
                => r \notin waiting /\ stage \in Since(Position[r])
    PROVE  BusInv'
<1>1. /\ bus \in Bus /\ Numbered(bus) /\ Swept /\ Kept /\ SteadyReadersMissNothing
      /\ cursor \in [Reader -> Nat] /\ (\A q \in Reader : cursor[q] <= bus.sent) /\ got \in [Reader -> Seq(Nat)]
    BY DEF BusInv
<1>2. Swept' /\ Numbered(bus') /\ SteadyReadersMissNothing'
    BY <1>1 DEF Swept, SteadyReadersMissNothing
<1>3. Kept'
    BY <1>1 DEF Kept
<1> QED BY <1>1, <1>2, <1>3 DEF BusInv

LEMMA BusSwap ==
    ASSUME BusInv, SwapEvents
    PROVE  BusInv'
<1>1. /\ bus \in Bus /\ Numbered(bus) /\ Swept /\ Kept /\ stage \in 1 .. 7 /\ SteadyReadersMissNothing
      /\ cursor \in [Reader -> Nat] /\ (\A q \in Reader : cursor[q] <= bus.sent) /\ got \in [Reader -> Seq(Nat)]
    BY DEF BusInv
<1>2. /\ stage = 3 /\ stage' = 4 /\ bus' = Swapped(bus) /\ swaps' = swaps + 1 /\ UNCHANGED <<cursor, got, sentAt>>
      /\ waiting' = {r \in Steady : Position[r] = Stages[4]}
    BY <1>1, Turns DEF SwapEvents, Loop, Enter
<1>3. bus.prev \in Seq(Nat) /\ bus.cur \in Seq(Nat) /\ bus.base \in Nat /\ bus.sent \in Nat /\ Len(bus.cur) \in Nat
      /\ bus.sent = bus.base + Len(bus.cur)
    BY <1>1 DEF Bus, Numbered
<1>4. /\ bus'.prev = bus.cur /\ bus'.cur = <<>> /\ bus'.base = bus.sent /\ bus'.sent = bus.sent /\ bus' \in Bus
    BY <1>1, <1>2, SwappedFields
<1>5. Oldest(bus') = bus.base
    BY <1>3, <1>4 DEF Oldest
<1>6. Numbered(bus')
    <2>1. Counts(bus'.prev, Oldest(bus'))
        BY <1>1, <1>4, <1>5 DEF Numbered
    <2>2. Len(bus'.prev) <= bus'.base
        BY <1>3, <1>4
    <2>3. Len(bus'.cur) = 0 /\ bus'.sent = bus'.base + Len(bus'.cur)
        BY <1>3, <1>4
    <2>4. Counts(bus'.cur, bus'.base)
        BY <2>3 DEF Counts
    <2> QED BY <2>1, <2>2, <2>3, <2>4 DEF Numbered
<1>7. Swept'
    <2>1. Oldest(bus)' = Oldest(bus')
        BY DEF Oldest
    <2>2. swaps \in Nat /\ sentAt \in Seq(Nat) /\ Len(sentAt) = bus.sent
        BY <1>1 DEF Swept
    <2>3. \A e \in 1 .. bus.sent : sentAt[e] \in Nat
        BY <2>2
    <2>4. \A e \in 1 .. bus.base : e \in 1 .. bus.sent
        BY <1>3
    <2>5. \A e \in 1 .. bus.sent : sentAt[e] <= swaps + 1 /\ sentAt[e] + 1 <= swaps + 1
        BY <1>1, <2>2, <2>3 DEF Swept
    <2>6. \A e \in 1 .. bus.base : sentAt[e] + 2 <= swaps + 1
        BY <1>1, <2>2, <2>3, <2>4 DEF Swept
    <2> QED BY <1>2, <1>4, <1>5, <2>1, <2>2, <2>5, <2>6 DEF Swept
<1>8. Kept'
    <2>1. Here = "Swap" /\ Here' = "First" /\ Oldest(bus)' = bus.base
        BY <1>2, <1>5, StageNames DEF Here, Oldest
    <2>2. \A r \in Steady : Position[r] \in Scheduled
        BY FrameAssumption DEF FrameAssumption, UserStages, Scheduled
    <2>3. \A r \in Steady : r \notin waiting /\ stage \in Since(Position[r])
        <3>1. \A p \in Scheduled : 3 \in Since(p) /\ p # "Swap"
            BY DEF Scheduled, Since
        <3> QED BY <1>1, <1>2, <2>1, <2>2, <3>1 DEF Kept
    <2>4. \A r \in Steady : cursor[r] >= bus.base
        BY <1>1, <2>3 DEF Kept
    <2>5. \A r \in Steady : stage' \in Since(Position[r]) => Position[r] = "First"
        <3>1. \A p \in Scheduled : 4 \in Since(p) => p = "First"
            BY DEF Scheduled, Since
        <3> QED BY <1>2, <2>2, <3>1
    <2>6. waiting' = {r \in Steady : Position[r] = Here'}
        BY <1>2, <2>1, StageNames
    <2> QED BY <1>2, <2>1, <2>4, <2>5, <2>6 DEF Kept
<1>9. SteadyReadersMissNothing'
    BY <1>1, <1>2 DEF SteadyReadersMissNothing
<1> QED BY <1>1, <1>2, <1>4, <1>6, <1>7, <1>8, <1>9 DEF BusInv

LEMMA BusStart == Init => BusInv
<1> SUFFICES ASSUME Init PROVE BusInv
    OBVIOUS
<1>1. /\ stage = 1 /\ bus = [prev |-> <<>>, cur |-> <<>>, base |-> 0, sent |-> 0] /\ cursor = [r \in Reader |-> 0]
      /\ got = [r \in Reader |-> <<>>] /\ sentAt = <<>> /\ swaps = 0 /\ waiting = {}
    BY DEF Init, NewBus
<1>2. bus \in Bus /\ Oldest(bus) = 0 /\ Numbered(bus)
    <2>1. <<>> \in Seq(Nat) /\ Len(<<>>) = 0
        OBVIOUS
    <2>2. bus.prev = <<>> /\ bus.cur = <<>> /\ bus.base = 0 /\ bus.sent = 0 /\ bus \in Bus
        BY <1>1, <2>1 DEF Bus
    <2>3. Len(bus.prev) = 0 /\ Len(bus.cur) = 0
        BY <2>1, <2>2
    <2>4. Oldest(bus) = 0
        <3>1. bus.base = 0 /\ 0 - 0 = 0
            BY <2>2
        <3> QED BY <2>3, <3>1 DEF Oldest
    <2>5. Counts(bus.prev, 0) /\ Counts(bus.cur, 0)
        BY <2>3 DEF Counts
    <2> QED BY <2>2, <2>3, <2>4, <2>5 DEF Numbered
<1>3. Steady \subseteq Reader
    BY FrameAssumption DEF FrameAssumption
<1>4. Kept
    BY <1>1, <1>2, <1>3 DEF Kept
<1>5. Swept
    BY <1>1, <1>2 DEF Swept
<1>6. SteadyReadersMissNothing
    <2>1. <<>> = [e \in 1 .. 0 |-> e]
        OBVIOUS
    <2> QED BY <1>1, <1>3, <2>1 DEF SteadyReadersMissNothing
<1> QED BY <1>1, <1>2, <1>4, <1>5, <1>6 DEF BusInv

LEMMA BusStep == BusInv /\ [Next]_vars => BusInv' /\ (LostOnlyAfterTwoSwaps \/ UNCHANGED vars)
<1> SUFFICES ASSUME BusInv, [Next]_vars PROVE BusInv' /\ (LostOnlyAfterTwoSwaps \/ UNCHANGED vars)
    OBVIOUS
<1>1. stage \in 1 .. 7 /\ cursor \in [Reader -> Nat] /\ Kept
    BY DEF BusInv
<1>2. ASSUME UNCHANGED cursor PROVE LostOnlyAfterTwoSwaps
    BY <1>1, <1>2 DEF LostOnlyAfterTwoSwaps
<1>3. \A r \in Steady : Position[r] \in Scheduled
    BY FrameAssumption DEF FrameAssumption, UserStages, Scheduled
(* Readers of the stage that is left have run; the next one's wait.        *)
<1>4. ASSUME UNCHANGED <<bus, cursor, got, sentAt, swaps>>, stage' \in 1 .. 7, waiting' = {r \in Steady : Position[r] = Here'},
             waiting = {},
             <<stage, stage'>> \in {<<2, 3>>, <<4, 5>>, <<6, 7>>, <<5, 6>>, <<1, 2>>, <<7, 2>>}
      PROVE  BusInv'
    <2>1. /\ stage' = 2 => Here' = "Early"
          /\ stage' = 6 => Here' = "Update"
        BY <1>4, StageNames DEF Here
    <2>2. ASSUME NEW p \in Scheduled, p # Here', stage' \in Since(p) PROVE stage \in Since(p)
        BY <1>4, <2>1, <2>2 DEF Scheduled, Since
    <2> QED BY <1>3, <1>4, <2>2, BusEnters
(* Nobody waits at a stage of the engine.                                  *)
<1>5. stage \in {1, 5, 7} => waiting = {}
    <2>1. stage \in {1, 5, 7} => Here \notin Scheduled
        BY <1>1, Places DEF Scheduled
    <2> QED BY <1>1, <1>3, <2>1 DEF Kept
<1>6. CASE Send
    BY <1>2, <1>6, BusSend DEF Send
<1>7. CASE \E r \in Reader : Read(r)
    BY <1>7, BusRead
<1>8. CASE (\E s \in State : TransitionTo(s)) \/ (\E code \in Code : RequestExit(code)) \/ Exit \/ Panic
    BY <1>2, <1>8, BusKept DEF TransitionTo, RequestExit, Exit, Panic, appVars, busVars
<1>9. CASE Advance
    <2>1. stage \in {2, 4, 6} /\ stage' = stage + 1 /\ stage' \in 1 .. 7
        BY <1>1, <1>9, Turns DEF Loop
    <2>2. waiting = {} /\ waiting' = {r \in Steady : Position[r] = Here'} /\ UNCHANGED <<bus, cursor, got, sentAt, swaps>>
        BY <1>9 DEF Advance, Enter, Here
    <2>3. <<stage, stage'>> \in {<<2, 3>>, <<4, 5>>, <<6, 7>>}
        BY <2>1
    <2> QED BY <1>2, <1>4, <2>1, <2>2, <2>3
<1>10. CASE SwapEvents
    BY <1>2, <1>10, BusSwap DEF SwapEvents
<1>11. CASE ApplyTransition
    <2>1. stage = 5 /\ stage' = 6
        BY <1>1, <1>11, Turns DEF Loop
    <2>2. waiting' = {r \in Steady : Position[r] = Here'} /\ UNCHANGED <<bus, cursor, got, sentAt, swaps>>
        BY <1>11 DEF ApplyTransition, Enter, Here
    <2> QED BY <1>2, <1>4, <1>5, <2>1, <2>2
<1>12. CASE Start \/ DrainExitEvents
    <2>1. UNCHANGED <<bus, cursor, got, sentAt, swaps>>
        BY <1>12 DEF Start, DrainExitEvents
    <2>2. (stage = 1 /\ stage' \in {1, 2}) \/ (stage = 7 /\ stage' \in {7, 2})
        BY <1>1, <1>12, Turns DEF Loop
    <2>3. CASE UNCHANGED <<stage, waiting>>
        BY <1>2, <2>1, <2>3, BusKept DEF busVars
    <2>4. CASE Enter(2)
        <3>1. stage' = 2 /\ waiting' = {r \in Steady : Position[r] = Here'}
            BY <2>4 DEF Enter, Here
        <3> QED BY <1>2, <1>4, <1>5, <2>1, <2>2, <3>1
    <2>5. UNCHANGED <<stage, waiting>> \/ Enter(2)
        BY <1>12 DEF Start, DrainExitEvents, NextFrame
    <2> QED BY <2>3, <2>4, <2>5
<1>13. CASE UNCHANGED vars
    BY <1>13, BusKept DEF vars, appVars, busVars
<1> QED BY <1>6, <1>7, <1>8, <1>9, <1>10, <1>11, <1>12, <1>13 DEF Next, Loop

(* bus.go.  The two buffers hold consecutive events up to the last one     *)
(* sent, and a reader that runs in every frame is never behind the older   *)
(* buffer.                                                                 *)
THEOREM BusInvariant == Spec => []BusInv
<1> QED BY BusStart, BusStep, PTL DEF Spec

(* plugin.go:11-15, bus.go:12-20, 75-110.  For any readers in any          *)
(* schedules: one that runs every frame receives every event once, in      *)
(* order; what another passes over has been through two swaps.             *)
THEOREM BusesDeliverHolds == Spec => BusesDeliver
<1>1. BusInv /\ [Next]_vars => [SteadyReadersMissNothing' /\ LostOnlyAfterTwoSwaps]_vars
    BY BusStep DEF BusInv
<1> QED BY <1>1, BusInvariant, PTL DEF Spec, BusesDeliver

-----------------------------------------------------------------------------
(* MessageChannel.  The slots, and what the cursors of one reader mean: the *)
(* registered one and those of its running iterators.                      *)
Iteration == [id : IDs, cursor : Nat, body : BOOLEAN]

Newest == \A m \in 1 .. head : m + Capacity > head => buffer[(m - 1) % Capacity] = m

Runs(id, k) == k \in DOMAIN reads /\ reads[k].id = id

Holds(id, x) ==
    \/ id \in DOMAIN readers /\ readers[id] = x
    \/ \E k \in DOMAIN reads : reads[k].id = id /\ reads[k].cursor = x

Passed(id, m) == m \in ToSet(received[id]) \/ m + Capacity <= head

(* Between two cursors of a reader nothing is left to be received.         *)
Covered == \A id \in IDs : \A x, y \in Nat :
    Holds(id, x) /\ Holds(id, y) => \A m \in x + 1 .. y : Passed(id, m)

UpTo(id, x) == \A i \in DOMAIN received[id] : received[id][i] <= x

Orderly(id) ==
    /\ \A j, k \in DOMAIN reads : reads[j].id = id /\ reads[k].id = id => j = k
    /\ \A k \in DOMAIN reads : reads[k].id = id => reads[k].cursor + Capacity >= head /\ UpTo(id, reads[k].cursor)
    /\ id \notin Reading /\ id \in DOMAIN readers => UpTo(id, readers[id])
    /\ Increasing(received[id])

RingType ==
    /\ head \in Nat /\ nextID \in Nat /\ nextID <= MaxReaders
    /\ buffer \in [0 .. Capacity - 1 -> Nat] /\ reads \in Seq(Iteration)
    /\ received \in [IDs -> Seq(Nat)]

Bounded ==
    /\ DOMAIN readers \subseteq IDs
    /\ \A id \in IDs : \A x : Holds(id, x) => x \in Nat /\ x <= head /\ id <= nextID
    /\ \A id \in IDs : id > nextID => received[id] = <<>>

RingInv ==
    /\ RingType /\ Newest /\ Bounded /\ Covered
    /\ \A id \in IDs \ (lapped \cup reentered) : Orderly(id)

LEMMA RingSize == Capacity \in Nat /\ Capacity > 0 /\ MaxReaders \in Nat
BY ChannelAssumption DEF ChannelAssumption

LEMMA DivMod ==
    ASSUME NEW R \in Nat, R > 0, NEW a \in Nat
    PROVE  a \div R \in Int /\ a = R * (a \div R) + (a % R)
<1>1. a = R * (a \div R) + (a % R)
    BY SMT
<1>2. a \div R \in Int
    BY SMT
<1> QED BY <1>1, <1>2

(* Messages that are fewer apart than the ring has slots have slots of     *)
(* their own.                                                              *)
LEMMA SlotsApart ==
    ASSUME NEW a \in Nat, NEW b \in Nat, a < b, b - a < Capacity
    PROVE  a % Capacity # b % Capacity
<1>1. PICK R \in Nat : R = Capacity /\ R > 0
    BY RingSize
<1>2. PICK p \in Int, q \in Int : a = R * p + (a % R) /\ b = R * q + (b % R)
    <2>1. a \div R \in Int /\ a = R * (a \div R) + (a % R)
        BY <1>1, DivMod
    <2>2. b \div R \in Int /\ b = R * (b \div R) + (b % R)
        BY <1>1, DivMod
    <2> QED BY <2>1, <2>2
<1>3. ASSUME a % R = b % R PROVE FALSE
    <2>1. b - a = R * q - R * p
        <3>1. a % R \in Int
            BY <1>1
        <3> QED BY <1>1, <1>2, <1>3, <3>1
    <2>2. R * q - R * p = R * (q - p)
        BY <1>1, <1>2
    <2>3. PICK d \in Int : d = q - p
        BY <1>2
    <2>4. b - a = R * d
        BY <2>1, <2>2, <2>3
    <2>5. CASE d <= 0
        <3>1. R * d <= 0
            BY <1>1, <2>3, <2>5
        <3> QED BY <2>4, <3>1
    <2>6. CASE d >= 1
        <3>1. R * d >= R
            BY <1>1, <2>3, <2>6
        <3> QED BY <1>1, <2>4, <3>1
    <2> QED BY <2>3, <2>5, <2>6
<1> QED BY <1>1, <1>3

LEMMA SlotRange == ASSUME NEW m \in Nat PROVE m % Capacity \in 0 .. Capacity - 1
BY RingSize

(* Write.  The message displaces the one that is a ring's length older.    *)
LEMMA NewestWrite ==
    ASSUME RingInv, Write
    PROVE  Newest'
<1>1. head \in Nat /\ buffer \in [0 .. Capacity - 1 -> Nat] /\ Newest
    BY DEF RingInv, RingType
<1>2. head' = head + 1 /\ buffer' = [buffer EXCEPT ![head % Capacity] = head + 1]
    BY DEF Write
<1> SUFFICES ASSUME NEW m \in 1 .. head + 1, m + Capacity > head + 1 PROVE buffer'[(m - 1) % Capacity] = m
    BY <1>2 DEF Newest
<1>3. Capacity \in Nat /\ head % Capacity \in 0 .. Capacity - 1 /\ m - 1 \in Nat
    BY <1>1, RingSize, SlotRange
<1>4. CASE m = head + 1
    <2>1. m - 1 = head
        BY <1>1, <1>4
    <2> QED BY <1>1, <1>2, <1>3, <1>4, <2>1
<1>5. CASE m # head + 1
    <2>1. m - 1 < head /\ head - (m - 1) < Capacity /\ m \in 1 .. head /\ m + Capacity > head
        BY <1>1, <1>3, <1>5
    <2>2. (m - 1) % Capacity # head % Capacity /\ (m - 1) % Capacity \in 0 .. Capacity - 1
        BY <1>1, <1>3, <2>1, SlotsApart, SlotRange
    <2>3. buffer[(m - 1) % Capacity] = m
        BY <1>1, <2>1 DEF Newest
    <2> QED BY <1>1, <1>2, <2>2, <2>3
<1> QED BY <1>4, <1>5

-----------------------------------------------------------------------------
(* What a step adds to the cursors, and what Covered asks of it.           *)
LEMMA CoveredKept ==
    ASSUME Covered,
           \A id \in IDs : \A m \in Nat : Passed(id, m) => Passed(id, m)',
           \A id \in IDs : \A x : Holds(id, x)' => Holds(id, x)
    PROVE  Covered'
<1> SUFFICES ASSUME NEW id \in IDs, NEW x \in Nat, NEW y \in Nat, Holds(id, x)', Holds(id, y)', NEW m \in x + 1 .. y
             PROVE  Passed(id, m)'
    BY DEF Covered
<1>1. Holds(id, x) /\ Holds(id, y) /\ m \in Nat
    OBVIOUS
<1>2. Passed(id, m)
    BY <1>1 DEF Covered
<1> QED BY <1>1, <1>2

(* A cursor of i goes from `old` on to `new`.                              *)
LEMMA CoveredMoved ==
    ASSUME Covered,
           \A id \in IDs : \A m \in Nat : Passed(id, m) => Passed(id, m)',
           NEW i \in IDs, NEW old \in Nat, NEW new \in Nat, Holds(i, old), old <= new,
           \A m \in old + 1 .. new : Passed(i, m)',
           \A id \in IDs : \A x : Holds(id, x)' => Holds(id, x) \/ (id = i /\ x = new)
    PROVE  Covered'
<1> SUFFICES ASSUME NEW id \in IDs, NEW x \in Nat, NEW y \in Nat, Holds(id, x)', Holds(id, y)', NEW m \in x + 1 .. y
             PROVE  Passed(id, m)'
    BY DEF Covered
<1>1. m \in Nat /\ m > x /\ m <= y
    OBVIOUS
<1>2. ASSUME NEW u \in Nat, NEW v \in Nat, Holds(id, u), Holds(id, v), m > u, m <= v PROVE Passed(id, m)'
    <2>1. m \in u + 1 .. v
        BY <1>1, <1>2
    <2>2. Passed(id, m)
        BY <1>2, <2>1 DEF Covered
    <2> QED BY <1>1, <2>2
<1>3. CASE Holds(id, x) /\ Holds(id, y)
    BY <1>1, <1>2, <1>3
<1>4. CASE id = i /\ x = new
    <2>1. CASE y = new
        BY <1>1, <1>4, <2>1
    <2>2. CASE Holds(id, y)
        BY <1>1, <1>2, <1>4, <2>2
    <2> QED BY <1>4, <2>1, <2>2
<1>5. CASE id = i /\ y = new /\ Holds(id, x)
    <2>1. CASE m <= old
        BY <1>1, <1>2, <1>5, <2>1
    <2>2. CASE m > old
        BY <1>1, <1>5, <2>2
    <2> QED BY <1>1, <2>1, <2>2
<1> QED BY <1>3, <1>4, <1>5

LEMMA PassedKept ==
    ASSUME RingType, UNCHANGED received, head' \in Nat, head' >= head, NEW id, NEW m \in Nat, Passed(id, m)
    PROVE  Passed(id, m)'
BY RingSize DEF Passed, RingType

LEMMA Iterations ==
    ASSUME RingType
    PROVE  /\ Len(reads) \in Nat /\ DOMAIN reads = 1 .. Len(reads)
           /\ \A k \in DOMAIN reads : reads[k] \in Iteration /\ reads[k].id \in IDs /\ reads[k].cursor \in Nat
<1>1. reads \in Seq(Iteration)
    BY DEF RingType
<1>2. Len(reads) \in Nat /\ DOMAIN reads = 1 .. Len(reads)
    BY <1>1
<1>3. \A k \in DOMAIN reads : reads[k] \in Iteration
    BY <1>1, <1>2
<1>4. \A k \in DOMAIN reads : reads[k].id \in IDs /\ reads[k].cursor \in Nat
    BY <1>3 DEF Iteration
<1> QED BY <1>2, <1>3, <1>4

LEMMA RingWrite ==
    ASSUME RingInv, Write
    PROVE  RingInv'
<1>1. RingType /\ Bounded /\ Covered /\ \A id \in IDs \ (lapped \cup reentered) : Orderly(id)
    BY DEF RingInv
<1>2. /\ head' = head + 1 /\ buffer' = [buffer EXCEPT ![head % Capacity] = head + 1]
      /\ UNCHANGED <<readers, nextID, reads, received, reentered>>
      /\ lapped' = lapped \cup {reads[k].id : k \in {j \in DOMAIN reads : head + 1 > reads[j].cursor + Capacity}}
    BY DEF Write
<1>3. head \in Nat /\ head' \in Nat /\ head' >= head /\ Capacity \in Nat
    BY <1>1, <1>2, RingSize DEF RingType
<1>4. RingType'
    BY <1>1, <1>2, <1>3 DEF RingType
<1>5. Bounded'
    <2>1. \A id \in IDs : \A x : Holds(id, x)' => Holds(id, x)
        BY <1>2 DEF Holds
    <2> QED BY <1>1, <1>2, <1>3, <2>1 DEF Bounded
<1>6. Covered'
    <2>1. \A id \in IDs : \A x : Holds(id, x)' => Holds(id, x)
        BY <1>2 DEF Holds
    <2>2. \A id \in IDs : \A m \in Nat : Passed(id, m) => Passed(id, m)'
        BY <1>1, <1>2, <1>3, PassedKept
    <2> QED BY <1>1, <2>1, <2>2, CoveredKept
<1>7. ASSUME NEW id \in IDs \ (lapped' \cup reentered') PROVE Orderly(id)'
    <2>1. Orderly(id) /\ id \notin lapped'
        BY <1>1, <1>2, <1>7
    <2>2. ASSUME NEW k \in DOMAIN reads, reads[k].id = id PROVE reads[k].cursor + Capacity >= head'
        <3>1. ~(head + 1 > reads[k].cursor + Capacity)
            BY <1>2, <2>1, <2>2
        <3>2. reads[k].cursor \in Nat
            BY <1>1, Iterations
        <3> QED BY <1>2, <1>3, <3>1, <3>2
    <2>3. Reading' = Reading /\ \A x : UpTo(id, x)' <=> UpTo(id, x)
        BY <1>2 DEF Reading, UpTo
    <2> QED BY <1>2, <2>1, <2>2, <2>3 DEF Orderly, Increasing
<1> QED BY <1>4, <1>5, <1>6, <1>7, NewestWrite DEF RingInv

(* A new reader begins at the end of the ring.                             *)
LEMMA RingRegister ==
    ASSUME RingInv, RegisterReader
    PROVE  RingInv'
<1>1. RingType /\ Newest /\ Bounded /\ Covered /\ \A id \in IDs \ (lapped \cup reentered) : Orderly(id)
    BY DEF RingInv
<1>2. /\ nextID' = nextID + 1 /\ nextID < MaxReaders
      /\ UNCHANGED <<buffer, head, reads, received, lapped, reentered>>
      /\ readers' = [id \in DOMAIN readers \cup {nextID + 1} |-> IF id \in DOMAIN readers THEN readers[id] ELSE head]
    BY DEF RegisterReader, channelHistory
<1>3. head \in Nat /\ nextID \in Nat /\ nextID + 1 \in IDs /\ nextID + 1 > nextID
    BY <1>1, <1>2, RingSize DEF RingType, IDs
<1>4. RingType' /\ Newest'
    BY <1>1, <1>2, <1>3, RingSize DEF RingType, Newest
<1>5. \A x : ~Holds(nextID + 1, x)
    BY <1>1, <1>3 DEF Bounded
<1>6. nextID + 1 \notin DOMAIN readers
    BY <1>5 DEF Holds
<1>7. /\ \A id \in DOMAIN readers : readers'[id] = readers[id]
      /\ readers'[nextID + 1] = head /\ DOMAIN readers' = DOMAIN readers \cup {nextID + 1}
    BY <1>2, <1>6
<1>8. \A id \in IDs : \A x : Holds(id, x)' => Holds(id, x) \/ (id = nextID + 1 /\ x = head)
    BY <1>2, <1>7 DEF Holds
<1>9. Bounded'
    <2>1. \A id \in IDs : id > nextID' => id > nextID
        BY <1>2, <1>3 DEF IDs
    <2>2. \A id \in IDs : id <= nextID => id <= nextID'
        BY <1>2, <1>3 DEF IDs
    <2> QED BY <1>1, <1>2, <1>3, <1>7, <1>8, <2>1, <2>2 DEF Bounded
<1>10. Covered'
    <2> SUFFICES ASSUME NEW id \in IDs, NEW x \in Nat, NEW y \in Nat, Holds(id, x)', Holds(id, y)', NEW m \in x + 1 .. y
                 PROVE  Passed(id, m)'
        BY DEF Covered
    <2>1. CASE id = nextID + 1
        <3>1. x = head /\ y = head
            BY <1>5, <1>8, <2>1
        <3> QED BY <3>1
    <2>2. CASE id # nextID + 1
        <3>1. Holds(id, x) /\ Holds(id, y)
            BY <1>8, <2>2
        <3> QED BY <1>1, <1>2, <3>1 DEF Covered, Passed
    <2> QED BY <2>1, <2>2
<1>11. ASSUME NEW id \in IDs \ (lapped' \cup reentered') PROVE Orderly(id)'
    <2>1. Orderly(id)
        BY <1>1, <1>2, <1>11
    <2>2. Reading' = Reading /\ \A x : UpTo(id, x)' <=> UpTo(id, x)
        BY <1>2 DEF Reading, UpTo
    <2>3. id \notin Reading /\ id \in DOMAIN readers' => UpTo(id, readers'[id])
        <3>1. CASE id = nextID + 1
            BY <1>1, <1>3, <3>1 DEF Bounded, UpTo
        <3>2. CASE id # nextID + 1
            BY <1>7, <2>1, <3>2 DEF Orderly
        <3> QED BY <3>1, <3>2
    <2> QED BY <1>2, <2>1, <2>2, <2>3 DEF Orderly, Increasing
<1> QED BY <1>4, <1>9, <1>10, <1>11 DEF RingInv

LEMMA RingUnregister ==
    ASSUME RingInv, NEW i \in IDs, UnregisterReader(i)
    PROVE  RingInv'
<1>1. RingType /\ Newest /\ Bounded /\ Covered /\ \A id \in IDs \ (lapped \cup reentered) : Orderly(id)
    BY DEF RingInv
<1>2. /\ readers' = [id \in DOMAIN readers \ {i} |-> readers[id]]
      /\ UNCHANGED <<buffer, head, nextID, reads, received, lapped, reentered>>
    BY DEF UnregisterReader, channelHistory
<1>3. DOMAIN readers' = DOMAIN readers \ {i} /\ \A id \in DOMAIN readers' : readers'[id] = readers[id]
    BY <1>2
<1>4. RingType' /\ Newest'
    BY <1>1, <1>2 DEF RingType, Newest
<1>5. \A id \in IDs : \A x : Holds(id, x)' => Holds(id, x)
    BY <1>2, <1>3 DEF Holds
<1>6. Bounded'
    BY <1>1, <1>2, <1>3, <1>5 DEF Bounded
<1>7. Covered'
    <2>1. \A id \in IDs : \A m \in Nat : Passed(id, m) => Passed(id, m)'
        BY <1>2 DEF Passed
    <2> QED BY <1>1, <1>5, <2>1, CoveredKept
<1>8. ASSUME NEW id \in IDs \ (lapped' \cup reentered') PROVE Orderly(id)'
    <2>1. Orderly(id)
        BY <1>1, <1>2, <1>8
    <2>2. Reading' = Reading /\ \A x : UpTo(id, x)' <=> UpTo(id, x)
        BY <1>2 DEF Reading, UpTo
    <2> QED BY <1>2, <1>3, <2>1, <2>2 DEF Orderly, Increasing
<1> QED BY <1>4, <1>6, <1>7, <1>8 DEF RingInv

LEMMA RingBegin ==
    ASSUME RingInv, NEW i \in IDs, Begin(i)
    PROVE  RingInv'
<1>1. RingType /\ Newest /\ Bounded /\ Covered /\ \A id \in IDs \ (lapped \cup reentered) : Orderly(id)
    BY DEF RingInv
<1>2. PICK new : new = OldestUnread(readers[i])
    OBVIOUS
<1>3. PICK it : it = [id |-> i, cursor |-> new, body |-> FALSE]
    OBVIOUS
<1>4. /\ i \in DOMAIN readers /\ reads' = Append(reads, it)
      /\ reentered' = IF i \in Reading THEN reentered \cup {i} ELSE reentered
      /\ UNCHANGED <<buffer, head, readers, nextID, received, lapped>>
    BY <1>2, <1>3 DEF Begin
<1>5. PICK old : old = readers[i]
    OBVIOUS
<1>6. Holds(i, old) /\ old \in Nat /\ old <= head /\ i <= nextID /\ head \in Nat /\ Capacity \in Nat
    <2>1. Holds(i, old)
        BY <1>4, <1>5 DEF Holds
    <2> QED BY <1>1, <2>1, RingSize DEF Bounded, RingType
<1>7. new \in Nat /\ old <= new /\ new <= head /\ new + Capacity >= head /\ (new = old \/ new + Capacity = head)
    BY <1>2, <1>5, <1>6 DEF OldestUnread
<1>8. PICK n \in Nat : n = Len(reads) /\ DOMAIN reads = 1 .. n
    BY <1>1, Iterations
<1>9. it \in Iteration /\ it.id = i /\ it.cursor = new
    BY <1>3, <1>7 DEF Iteration
<1>10. /\ reads' \in Seq(Iteration) /\ DOMAIN reads' = 1 .. n + 1
       /\ reads'[n + 1] = it /\ \A k \in 1 .. n : reads'[k] = reads[k]
    <2>1. reads \in Seq(Iteration)
        BY <1>1 DEF RingType
    <2>2. /\ reads' \in Seq(Iteration) /\ Len(reads') = n + 1
          /\ reads'[n + 1] = it /\ \A k \in 1 .. n : reads'[k] = reads[k]
        BY <1>4, <1>8, <1>9, <2>1, AppendProperties
    <2> QED BY <2>2
<1>11. \A k \in DOMAIN reads' : k \in DOMAIN reads \/ k = n + 1
    BY <1>8, <1>10
<1>12. RingType' /\ Newest'
    BY <1>1, <1>4, <1>10 DEF RingType, Newest
<1>13. \A id \in IDs : \A x : Holds(id, x)' => Holds(id, x) \/ (id = i /\ x = new)
    BY <1>4, <1>8, <1>9, <1>10, <1>11 DEF Holds
<1>14. Bounded'
    BY <1>1, <1>4, <1>6, <1>7, <1>13 DEF Bounded
<1>15. Covered'
    <2>1. \A id \in IDs : \A m \in Nat : Passed(id, m) => Passed(id, m)'
        BY <1>4 DEF Passed
    <2>2. \A m \in old + 1 .. new : Passed(i, m)'
        BY <1>4, <1>6, <1>7 DEF Passed
    <2> QED BY <1>1, <1>6, <1>7, <1>13, <2>1, <2>2, CoveredMoved
<1>16. ASSUME NEW id \in IDs \ (lapped' \cup reentered') PROVE Orderly(id)'
    <2>1. Orderly(id) /\ (id = i => i \notin Reading)
        BY <1>1, <1>4, <1>16
    <2>2. Reading \subseteq Reading' /\ \A x : UpTo(id, x)' <=> UpTo(id, x)
        BY <1>4, <1>8, <1>10 DEF Reading, UpTo
    <2>3. id # i => \A k \in DOMAIN reads' : reads'[k].id = id => k \in DOMAIN reads /\ reads'[k] = reads[k]
        BY <1>8, <1>9, <1>10, <1>11
    <2>4. id = i => \A k \in DOMAIN reads' : reads'[k].id = id => k = n + 1
        BY <1>8, <1>10, <1>11, <2>1 DEF Reading
    <2>5. CASE id # i
        <3>1. \A j, k \in DOMAIN reads' : reads'[j].id = id /\ reads'[k].id = id => j = k
            BY <2>1, <2>3, <2>5 DEF Orderly
        <3>2. \A k \in DOMAIN reads' : reads'[k].id = id => reads'[k].cursor + Capacity >= head /\ UpTo(id, reads'[k].cursor)
            BY <2>1, <2>3, <2>5 DEF Orderly
        <3> QED BY <1>4, <2>1, <2>2, <3>1, <3>2 DEF Orderly, Increasing
    <2>6. CASE id = i
        <3>1. \A j, k \in DOMAIN reads' : reads'[j].id = id /\ reads'[k].id = id => j = k
            BY <2>4, <2>6
        <3>2. UpTo(i, old)
            BY <1>4, <1>5, <2>1, <2>6 DEF Orderly
        <3>3. \A e \in DOMAIN received[i] : received[i][e] \in Nat
            BY <1>1 DEF RingType
        <3>4. UpTo(i, new)
            BY <1>6, <1>7, <3>2, <3>3 DEF UpTo
        <3>5. \A k \in DOMAIN reads' : reads'[k].id = id => reads'[k].cursor + Capacity >= head /\ UpTo(id, reads'[k].cursor)
            BY <1>7, <1>9, <1>10, <2>4, <2>6, <3>4
        <3>6. id \in Reading'
            BY <1>9, <1>10, <2>6, <1>8 DEF Reading
        <3> QED BY <1>4, <2>1, <2>2, <3>1, <3>5, <3>6 DEF Orderly, Increasing
    <2> QED BY <2>5, <2>6
<1> QED BY <1>12, <1>14, <1>15, <1>16 DEF RingInv

(* End.  The innermost iterator leaves its cursor to its reader.           *)
LEMMA RingEnd ==
    ASSUME RingInv, End
    PROVE  RingInv'
<1>1. RingType /\ Newest /\ Bounded /\ Covered /\ \A id \in IDs \ (lapped \cup reentered) : Orderly(id)
    BY DEF RingInv
<1>2. PICK n \in Nat : n = Len(reads) /\ DOMAIN reads = 1 .. n
    BY <1>1, Iterations
<1>3. /\ reads # <<>> /\ reads' = Front(reads) /\ UNCHANGED <<buffer, head, nextID, received, lapped, reentered>>
      /\ Stored(reads[n].id, reads[n].cursor)
    BY <1>2 DEF End, Top, Last, channelHistory
<1>4. n > 0 /\ n \in DOMAIN reads
    <2>1. reads \in Seq(Iteration)
        BY <1>1 DEF RingType
    <2>2. n # 0
        BY <1>2, <1>3, <2>1
    <2> QED BY <1>2, <2>2
<1>5. PICK i \in IDs, c \in Nat : i = reads[n].id /\ c = reads[n].cursor
    BY <1>1, <1>4, Iterations
<1>6. /\ DOMAIN readers' = DOMAIN readers \cup {i} /\ readers'[i] = c
      /\ \A id \in DOMAIN readers : id # i => readers'[id] = readers[id]
    BY <1>3, <1>5 DEF Stored
<1>7. reads' \in Seq(Iteration) /\ DOMAIN reads' = 1 .. n - 1 /\ \A k \in 1 .. n - 1 : reads'[k] = reads[k]
    <2>1. reads' = SubSeq(reads, 1, n - 1)
        BY <1>2, <1>3 DEF Front
    <2>2. \A k \in 1 .. n - 1 : reads[k] \in Iteration
        BY <1>1, <1>2, Iterations
    <2>3. n - 1 \in Int /\ n - 1 >= 0
        BY <1>4
    <2>4. /\ reads' \in Seq(Iteration) /\ Len(reads') = (IF 1 <= n - 1 THEN (n - 1) - 1 + 1 ELSE 0)
          /\ \A k \in 1 .. (n - 1) - 1 + 1 : reads'[k] = reads[1 + k - 1]
        BY <2>1, <2>2, <2>3, SubSeqProperties
    <2>5. Len(reads') = n - 1
        BY <2>3, <2>4
    <2>6. \A k \in 1 .. n - 1 : k \in 1 .. (n - 1) - 1 + 1 /\ 1 + k - 1 = k
        BY <2>3
    <2>7. \A k \in 1 .. n - 1 : reads'[k] = reads[k]
        BY <2>4, <2>6
    <2> QED BY <2>4, <2>5, <2>7
<1>8. DOMAIN reads' \subseteq DOMAIN reads /\ \A k \in DOMAIN reads : k \in DOMAIN reads' \/ k = n
    BY <1>2, <1>4, <1>7
<1>9. RingType' /\ Newest'
    BY <1>1, <1>3, <1>7 DEF RingType, Newest
<1>10. \A id \in IDs : \A x : Holds(id, x)' => Holds(id, x)
    BY <1>4, <1>5, <1>6, <1>7, <1>8 DEF Holds
<1>11. Bounded'
    BY <1>1, <1>3, <1>5, <1>6, <1>10 DEF Bounded
<1>12. Covered'
    <2>1. \A id \in IDs : \A m \in Nat : Passed(id, m) => Passed(id, m)'
        BY <1>3 DEF Passed
    <2> QED BY <1>1, <1>10, <2>1, CoveredKept
<1>13. ASSUME NEW id \in IDs \ (lapped' \cup reentered') PROVE Orderly(id)'
    <2>1. Orderly(id) /\ \A x : UpTo(id, x)' <=> UpTo(id, x)
        BY <1>1, <1>3, <1>13 DEF UpTo
    <2>2. \A k \in DOMAIN reads' : reads'[k].id = id => k \in DOMAIN reads /\ reads[k].id = id /\ reads'[k] = reads[k]
        BY <1>7, <1>8
    <2>3. \A j, k \in DOMAIN reads' : reads'[j].id = id /\ reads'[k].id = id => j = k
        BY <2>1, <2>2 DEF Orderly
    <2>4. \A k \in DOMAIN reads' : reads'[k].id = id => reads'[k].cursor + Capacity >= head /\ UpTo(id, reads'[k].cursor)
        BY <2>1, <2>2 DEF Orderly
    <2>5. id \notin Reading' /\ id \in DOMAIN readers' => UpTo(id, readers'[id])
        <3>1. CASE id = i
            BY <1>4, <1>5, <1>6, <2>1, <3>1 DEF Orderly
        <3>2. CASE id # i
            <4>1. id \in Reading => id \in Reading'
                BY <1>5, <1>7, <1>8, <3>2 DEF Reading
            <4> QED BY <1>6, <2>1, <3>2, <4>1 DEF Orderly
        <3> QED BY <3>1, <3>2
    <2> QED BY <1>3, <2>1, <2>3, <2>4, <2>5 DEF Orderly, Increasing
<1> QED BY <1>9, <1>11, <1>12, <1>13 DEF RingInv

(* Yield.  The cursor moves past a message, which the body gets unless the *)
(* ring has overtaken the iterator.                                        *)
LEMMA RingYield ==
    ASSUME RingInv, Yield
    PROVE  RingInv'
<1>1. RingType /\ Newest /\ Bounded /\ Covered /\ \A id \in IDs \ (lapped \cup reentered) : Orderly(id)
    BY DEF RingInv
<1>2. PICK n \in Nat : n = Len(reads) /\ DOMAIN reads = 1 .. n
    BY <1>1, Iterations
<1>3. n > 0 /\ n \in DOMAIN reads
    <2>1. reads \in Seq(Iteration) /\ reads # <<>>
        BY <1>1 DEF RingType, Yield
    <2>2. n # 0
        BY <1>2, <2>1
    <2> QED BY <1>2, <2>2
<1>4. PICK i \in IDs, c \in Nat : i = reads[n].id /\ c = reads[n].cursor
    BY <1>1, <1>3, Iterations
<1>5. PICK e : e = buffer[c % Capacity]
    OBVIOUS
<1>6. /\ c < head /\ received' = [received EXCEPT ![i] = Append(@, e)]
      /\ reads' = [reads EXCEPT ![n].cursor = @ + 1, ![n].body = TRUE]
      /\ UNCHANGED <<buffer, head, readers, nextID, lapped, reentered>>
    BY <1>2, <1>4, <1>5 DEF Yield, Top, Last
<1>7. head \in Nat /\ Capacity \in Nat /\ c + 1 \in Nat /\ c + 1 <= head
    <2>1. head \in Nat /\ Capacity \in Nat
        BY <1>1, RingSize DEF RingType
    <2> QED BY <1>6, <2>1
<1>8. e \in Nat /\ (c + Capacity >= head => e = c + 1)
    <2>1. c % Capacity \in 0 .. Capacity - 1
        BY <1>4, SlotRange
    <2>2. e \in Nat
        BY <1>1, <1>5, <2>1 DEF RingType
    <2>3. ASSUME c + Capacity >= head PROVE e = c + 1
        <3>1. c + 1 \in 1 .. head /\ c + 1 + Capacity > head /\ (c + 1) - 1 = c
            BY <1>4, <1>7, <2>3
        <3> QED BY <1>1, <1>5, <3>1 DEF Newest
    <2> QED BY <2>2, <2>3
<1>9. PICK had \in Seq(Nat) : had = received[i]
    BY <1>1, <1>4 DEF RingType
<1>10. PICK h \in Nat : h = Len(had) /\ DOMAIN had = 1 .. h
    BY <1>9
<1>11. PICK now : now = Append(had, e)
    OBVIOUS
<1>12. now \in Seq(Nat) /\ Len(now) = h + 1 /\ DOMAIN now = 1 .. h + 1 /\ now[h + 1] = e /\ \A k \in 1 .. h : now[k] = had[k]
    BY <1>8, <1>9, <1>10, <1>11
<1>13. /\ received'[i] = now /\ received' \in [IDs -> Seq(Nat)]
       /\ \A id \in IDs : id # i => received'[id] = received[id]
    BY <1>1, <1>4, <1>6, <1>9, <1>11, <1>12 DEF RingType
<1>14. PICK it \in Iteration : it.id = i /\ it.cursor = c + 1 /\ reads' = [reads EXCEPT ![n] = it]
    <2>1. reads[n] \in Iteration
        BY <1>1, <1>3, Iterations
    <2>2. PICK it : it = [reads[n] EXCEPT !.cursor = c + 1, !.body = TRUE]
        OBVIOUS
    <2>3. it \in Iteration
        BY <1>7, <2>1, <2>2 DEF Iteration
    <2>4. it.id = i /\ it.cursor = c + 1
        BY <1>4, <2>1, <2>2 DEF Iteration
    <2>5. reads' = [reads EXCEPT ![n] = it]
        BY <1>3, <1>4, <1>6, <2>2
    <2> QED BY <2>3, <2>4, <2>5
<1>15. /\ reads' \in Seq(Iteration) /\ DOMAIN reads' = DOMAIN reads
       /\ reads'[n] = it /\ \A k \in DOMAIN reads : k # n => reads'[k] = reads[k]
    <2>1. reads \in Seq(Iteration)
        BY <1>1 DEF RingType
    <2> QED BY <1>3, <1>14, <2>1
<1>16. RingType' /\ Newest'
    BY <1>1, <1>6, <1>13, <1>15 DEF RingType, Newest
<1>17. Holds(i, c)
    BY <1>3, <1>4 DEF Holds
<1>18. \A id \in IDs : \A x : Holds(id, x)' => Holds(id, x) \/ (id = i /\ x = c + 1)
    <2> SUFFICES ASSUME NEW id \in IDs, NEW x, Holds(id, x)' PROVE Holds(id, x) \/ (id = i /\ x = c + 1)
        OBVIOUS
    <2>1. CASE id \in DOMAIN readers' /\ readers'[id] = x
        BY <1>6, <2>1 DEF Holds
    <2>2. ASSUME NEW k \in DOMAIN reads', reads'[k].id = id /\ reads'[k].cursor = x
          PROVE  Holds(id, x) \/ (id = i /\ x = c + 1)
        <3>1. CASE k = n
            BY <1>14, <1>15, <2>2, <3>1
        <3>2. CASE k # n
            BY <1>15, <2>2, <3>2 DEF Holds
        <3> QED BY <3>1, <3>2
    <2> QED BY <2>1, <2>2 DEF Holds
<1>19. Bounded'
    <2>1. i <= nextID
        BY <1>1, <1>17 DEF Bounded
    <2>2. nextID \in Nat
        BY <1>1 DEF RingType
    <2>3. \A id \in IDs : id > nextID => id # i
        BY <2>1, <2>2 DEF IDs
    <2> QED BY <1>1, <1>6, <1>7, <1>13, <1>18, <2>1, <2>3 DEF Bounded
<1>20. \A id \in IDs : \A k \in DOMAIN received[id] : k \in DOMAIN received'[id] /\ received'[id][k] = received[id][k]
    <2>1. \A k \in DOMAIN received[i] : k \in DOMAIN now /\ now[k] = received[i][k]
        BY <1>9, <1>10, <1>12
    <2> QED BY <1>13, <2>1
<1>21. Covered'
    <2>1. \A id \in IDs : \A m \in Nat : Passed(id, m) => Passed(id, m)'
        BY <1>6, <1>20 DEF Passed, ToSet
    <2>2. ASSUME NEW m \in c + 1 .. c + 1 PROVE Passed(i, m)'
        <3>1. m = c + 1
            BY <1>7, <2>2
        <3>2. CASE c + Capacity >= head
            <4>1. e \in ToSet(received'[i])
                BY <1>12, <1>13 DEF ToSet
            <4> QED BY <1>8, <3>1, <3>2, <4>1 DEF Passed
        <3>3. CASE ~(c + Capacity >= head)
            BY <1>6, <1>7, <3>1, <3>3 DEF Passed
        <3> QED BY <3>2, <3>3
    <2> QED BY <1>1, <1>7, <1>17, <1>18, <2>1, <2>2, CoveredMoved
<1>22. ASSUME NEW id \in IDs \ (lapped' \cup reentered') PROVE Orderly(id)'
    <2>1. Orderly(id)
        BY <1>1, <1>6, <1>22
    <2>2. \A k \in DOMAIN reads : reads'[k].id = reads[k].id
        BY <1>4, <1>14, <1>15
    <2>3. Reading' = Reading
        BY <1>15, <2>2 DEF Reading
    <2>4. \A j, k \in DOMAIN reads' : reads'[j].id = id /\ reads'[k].id = id => j = k
        BY <1>15, <2>1, <2>2 DEF Orderly
    <2>5. CASE id # i
        <3>1. received'[id] = received[id] /\ \A x : UpTo(id, x)' <=> UpTo(id, x)
            BY <1>13, <2>5 DEF UpTo
        <3>2. \A k \in DOMAIN reads' : reads'[k].id = id => reads[k].id = id /\ reads'[k] = reads[k]
            BY <1>14, <1>15, <2>5
        <3>3. \A k \in DOMAIN reads' : reads'[k].id = id => reads'[k].cursor + Capacity >= head /\ UpTo(id, reads'[k].cursor)
            BY <1>15, <2>1, <3>2 DEF Orderly
        <3> QED BY <1>6, <2>1, <2>3, <2>4, <3>1, <3>3 DEF Orderly, Increasing
    <2>6. CASE id = i
        <3>1. c + Capacity >= head /\ UpTo(i, c) /\ Increasing(had)
            BY <1>3, <1>4, <1>9, <2>1, <2>6 DEF Orderly
        <3>2. e = c + 1
            BY <1>8, <3>1
        <3>3. \A k \in 1 .. h : had[k] \in Nat /\ had[k] <= c
            BY <1>9, <1>10, <3>1 DEF UpTo
        <3>4. \A k \in DOMAIN now : now[k] <= c + 1
            <4>1. \A k \in DOMAIN now : k \in 1 .. h \/ k = h + 1
                BY <1>12
            <4> QED BY <1>7, <1>12, <3>2, <3>3, <4>1
        <3>5. Increasing(now)
            <4> SUFFICES ASSUME NEW k \in 2 .. h + 1 PROVE now[k - 1] < now[k]
                BY <1>12 DEF Increasing
            <4>1. k - 1 \in 1 .. h
                OBVIOUS
            <4>2. CASE k = h + 1
                BY <1>12, <3>2, <3>3, <4>1, <4>2
            <4>3. CASE k # h + 1
                <5>1. k \in 2 .. h /\ k \in 1 .. h
                    BY <4>3
                <5> QED BY <1>10, <1>12, <3>1, <4>1, <5>1 DEF Increasing
            <4> QED BY <4>2, <4>3
        <3>6. \A k \in DOMAIN reads' : reads'[k].id = id => k = n
            BY <1>3, <1>4, <1>15, <2>1, <2>2, <2>6 DEF Orderly
        <3>7. ASSUME NEW k \in DOMAIN reads', reads'[k].id = id
              PROVE  /\ reads'[k].cursor + Capacity >= head
                     /\ \A j \in DOMAIN received'[id] : received'[id][j] <= reads'[k].cursor
            <4>1. c + 1 + Capacity >= head
                BY <1>7, <3>1
            <4>2. reads'[k].cursor = c + 1
                BY <1>14, <1>15, <3>6, <3>7
            <4> QED BY <1>13, <2>6, <3>4, <4>1, <4>2
        <3>8. id \in Reading'
            BY <1>3, <1>4, <2>3, <2>6 DEF Reading
        <3> QED BY <1>6, <1>13, <2>4, <2>6, <3>5, <3>7, <3>8 DEF Orderly, UpTo
    <2> QED BY <2>5, <2>6
<1> QED BY <1>16, <1>19, <1>21, <1>22 DEF RingInv

LEMMA RingStart == ChannelInit => RingInv
<1> SUFFICES ASSUME ChannelInit PROVE RingInv
    OBVIOUS
<1>1. /\ buffer = [j \in 0 .. Capacity - 1 |-> 0] /\ head = 0 /\ nextID = 0 /\ readers = <<>> /\ reads = <<>>
      /\ received = [id \in IDs |-> <<>>]
    BY DEF ChannelInit
<1>2. DOMAIN readers = {} /\ DOMAIN reads = {} /\ <<>> \in Seq(Nat) /\ <<>> \in Seq(Iteration) /\ Len(<<>>) = 0 /\ DOMAIN <<>> = {}
    BY <1>1
<1>3. RingType
    BY <1>1, <1>2, RingSize DEF RingType
<1>4. Newest
    BY <1>1 DEF Newest
<1>5. \A id \in IDs : \A x : ~Holds(id, x)
    BY <1>2 DEF Holds
<1>6. Bounded /\ Covered
    BY <1>1, <1>2, <1>5 DEF Bounded, Covered
<1>7. ASSUME NEW id \in IDs PROVE Orderly(id)
    <2>1. received[id] = <<>>
        BY <1>1
    <2>2. Increasing(received[id])
        BY <1>2, <2>1 DEF Increasing
    <2> QED BY <1>2, <2>2 DEF Orderly
<1> QED BY <1>3, <1>4, <1>6, <1>7 DEF RingInv

LEMMA RingStep == RingInv /\ [ChannelNext]_channelVars => RingInv'
<1> SUFFICES ASSUME RingInv, [ChannelNext]_channelVars PROVE RingInv'
    OBVIOUS
<1>1. CASE UNCHANGED channelVars
    <2>1. UNCHANGED <<buffer, head, readers, nextID, reads, received, lapped, reentered>>
        BY <1>1 DEF channelVars, channelHistory
    <2>2. RingType' /\ Newest' /\ RingType /\ Newest /\ Bounded /\ Covered
        BY <2>1 DEF RingInv, RingType, Newest
    <2>3. Bounded' /\ Covered'
        BY <2>1, <2>2 DEF Bounded, Covered, Holds, Passed
    <2>4. ASSUME NEW id \in IDs \ (lapped' \cup reentered') PROVE Orderly(id)'
        <3>1. Orderly(id)
            BY <2>1, <2>4 DEF RingInv
        <3> QED BY <2>1, <3>1 DEF Orderly, UpTo, Reading, Increasing
    <2> QED BY <2>2, <2>3, <2>4 DEF RingInv
<1>2. CASE Write
    BY <1>2, RingWrite
<1>3. CASE RegisterReader
    BY <1>3, RingRegister
<1>4. CASE \E id \in IDs : UnregisterReader(id) \/ Begin(id)
    BY <1>4, RingUnregister, RingBegin
<1>5. CASE Yield
    BY <1>5, RingYield
<1>6. CASE End
    BY <1>6, RingEnd
<1> QED BY <1>1, <1>2, <1>3, <1>4, <1>5, <1>6 DEF ChannelNext

(* What a reader's cursor passes over when an iterator ends.               *)
LEMMA RingPasses ==
    ASSUME RingInv, ChannelNext
    PROVE  PassedOnlyWhenOverwritten
<1> SUFFICES ASSUME NEW id \in DOMAIN readers \cap DOMAIN readers', NEW m \in readers[id] + 1 .. readers'[id]
             PROVE  m \in ToSet(received'[id]) \/ m + Capacity <= head
    BY DEF PassedOnlyWhenOverwritten
<1>1. RingType /\ Bounded /\ Covered
    BY DEF RingInv
<1>2. id \in IDs /\ Holds(id, readers[id]) /\ readers[id] \in Nat
    <2>1. id \in IDs /\ Holds(id, readers[id])
        BY <1>1 DEF Bounded, Holds
    <2> QED BY <1>1, <2>1 DEF Bounded
<1>3. ASSUME readers'[id] = readers[id] PROVE FALSE
    BY <1>2, <1>3
<1>4. CASE Write \/ Yield \/ \E i \in IDs : Begin(i)
    BY <1>3, <1>4 DEF Write, Yield, Begin
<1>5. CASE RegisterReader \/ \E i \in IDs : UnregisterReader(i)
    BY <1>3, <1>5 DEF RegisterReader, UnregisterReader
<1>6. CASE End
    <2>1. PICK n \in Nat : n = Len(reads) /\ DOMAIN reads = 1 .. n
        BY <1>1, Iterations
    <2>2. n \in DOMAIN reads
        <3>1. reads \in Seq(Iteration) /\ reads # <<>>
            BY <1>1, <1>6 DEF RingType, End
        <3>2. n # 0
            BY <2>1, <3>1
        <3> QED BY <2>1, <3>2
    <2>3. Stored(reads[n].id, reads[n].cursor) /\ UNCHANGED received
        BY <1>6, <2>1 DEF End, Top, Last, channelHistory
    <2>4. id = reads[n].id /\ readers'[id] = reads[n].cursor
        BY <1>3, <2>3 DEF Stored
    <2>5. Holds(id, readers'[id])
        BY <2>2, <2>4 DEF Holds
    <2>6. readers'[id] \in Nat
        BY <1>1, <1>2, <2>5 DEF Bounded
    <2>7. Passed(id, m)
        BY <1>1, <1>2, <2>5, <2>6 DEF Covered
    <2> QED BY <2>3, <2>7 DEF Passed
<1> QED BY <1>4, <1>5, <1>6 DEF ChannelNext

(* channel.go.  The ring has the newest messages, no cursor is ahead of    *)
(* the writer, and what lies between two cursors of a reader was received  *)
(* or overwritten.                                                         *)
THEOREM RingInvariant == ChannelSpec => []RingInv
<1> QED BY RingStart, RingStep, PTL DEF ChannelSpec

(* channel.go:12-21, 83-111.  For any capacity, readers and nesting of     *)
(* their iterators: a reader whose body neither reads it again nor lets    *)
(* the ring overtake it receives in order and nothing twice; and whatever  *)
(* the bodies do, a cursor passes only over what was delivered or          *)
(* overwritten.                                                            *)
THEOREM RingReadsInOrderHolds == ChannelSpec => RingReadsInOrder
<1>1. RingInv /\ [ChannelNext]_channelVars => [InOrderUnlessReentered' /\ PassedOnlyWhenOverwritten]_channelVars
    <2> SUFFICES ASSUME RingInv, ChannelNext PROVE InOrderUnlessReentered' /\ PassedOnlyWhenOverwritten
        OBVIOUS
    <2>1. RingInv'
        BY RingStep
    <2>2. InOrderUnlessReentered'
        BY <2>1 DEF RingInv, Orderly, InOrderUnlessReentered
    <2> QED BY <2>2, RingPasses
<1> QED BY <1>1, RingInvariant, PTL DEF ChannelSpec, RingReadsInOrder

-----------------------------------------------------------------------------
(* Hierarchy. *)

(* A walk along R that has taken as many steps as there are places has     *)
(* been everywhere, and nowhere it need not go.                            *)
Walk(walk, n, U, R, s) ==
    walk[0] = {s} /\ \A k \in 1 .. n : walk[k] = walk[k - 1] \cup {y \in U : \E x \in walk[k - 1] : <<x, y>> \in R}

Closed(S, U, R) == \A x \in S, y \in U : <<x, y>> \in R => y \in S

LEMMA WalkExists ==
    ASSUME NEW U, NEW R, NEW s \in U, NEW n \in Nat
    PROVE  \E walk : /\ walk = [k \in 0 .. n |-> IF k = 0 THEN {s}
                                   ELSE walk[k - 1] \cup {y \in U : \E x \in walk[k - 1] : <<x, y>> \in R}]
                     /\ Walk(walk, n, U, R, s)
<1> DEFINE T == SUBSET U
           step == [p \in (1 .. n) \X T |-> p[2] \cup {y \in U : \E x \in p[2] : <<x, y>> \in R}]
<1>1. step \in Steps(n, T)
  BY DEF Steps
<1>2. {s} \in T
  OBVIOUS
<1>3. PICK walk : Recursion(walk, n, T, {s}, step)
  <2> HIDE DEF step, T
  <2> QED
    BY <1>1, <1>2, RecursionExists, Zenon
<1>4. ASSUME NEW k \in 1 .. n PROVE walk[k] = walk[k - 1] \cup {y \in U : \E x \in walk[k - 1] : <<x, y>> \in R}
  <2>1. k - 1 \in 0 .. n
    OBVIOUS
  <2> HIDE DEF T
  <2>2. walk[k - 1] \in T
    BY <1>3, <2>1 DEF Recursion
  <2>3. walk[k] = step[<<k, walk[k - 1]>>]
    BY <1>3 DEF Recursion
  <2>4. <<k, walk[k - 1]>> \in (1 .. n) \X T
    BY <2>2
  <2> QED
    BY <2>3, <2>4
<1>5. walk[0] = {s} /\ walk = [k \in 0 .. n |-> walk[k]]
  BY <1>3 DEF Recursion
<1>6. \A k \in 0 .. n : k = 0 \/ k \in 1 .. n
  OBVIOUS
<1> HIDE DEF T, step
<1>7. \A k \in 0 .. n : walk[k] = IF k = 0 THEN {s}
                                  ELSE walk[k - 1] \cup {y \in U : \E x \in walk[k - 1] : <<x, y>> \in R}
  BY <1>4, <1>5, <1>6
<1>8. Walk(walk, n, U, R, s)
  BY <1>4, <1>5 DEF Walk
<1> QED
  BY <1>5, <1>7, <1>8

LEMMA WalkCloses ==
    ASSUME NEW U, IsFiniteSet(U), NEW R, NEW s \in U, NEW n \in Nat, Cardinality(U) <= n + 1, NEW walk,
           Walk(walk, n, U, R, s)
    PROVE  /\ walk[n] \subseteq U /\ s \in walk[n] /\ Closed(walk[n], U, R)
           /\ \A S : s \in S /\ Closed(S, U, R) => walk[n] \subseteq S
<1> DEFINE Far(k) == walk[k] \subseteq U /\ s \in walk[k] /\ (Closed(walk[k], U, R) \/ Cardinality(walk[k]) >= k + 1)
           P == {k \in Nat : k <= n => Far(k)}
<1>1. 0 \in P
  <2>1. Cardinality({s}) = 1
    BY FS_Singleton
  <2>2. walk[0] = {s}
    BY DEF Walk
  <2>3. walk[0] \subseteq U /\ s \in walk[0] /\ Cardinality(walk[0]) = 1
    BY <2>1, <2>2
  <2>4. Far(0)
    BY <2>3
  <2> HIDE DEF Far
  <2> QED
    BY <2>4
<1>2. ASSUME NEW k \in Nat, k \in P PROVE k + 1 \in P
  <2>1. SUFFICES ASSUME k + 1 <= n PROVE Far(k + 1)
    OBVIOUS
  <2>2. Far(k)
    BY <1>2, <2>1
  <2> DEFINE new == {y \in U : \E x \in walk[k] : <<x, y>> \in R}
  <2>3. walk[k + 1] = walk[k] \cup new
    <3>1. k + 1 \in 1 .. n /\ (k + 1) - 1 = k
      BY <2>1
    <3>2. \A i \in 1 .. n : walk[i] = walk[i - 1] \cup {y \in U : \E x \in walk[i - 1] : <<x, y>> \in R}
      BY DEF Walk
    <3>3. walk[k + 1] = walk[(k + 1) - 1] \cup {y \in U : \E x \in walk[(k + 1) - 1] : <<x, y>> \in R}
      BY <3>1, <3>2, Zenon
    <3> QED
      BY <3>1, <3>3
  <2>4. walk[k + 1] \subseteq U /\ s \in walk[k + 1]
    BY <2>2, <2>3
  <2>5. CASE Closed(walk[k], U, R)
    <3>1. walk[k + 1] = walk[k]
      BY <2>3, <2>5 DEF Closed
    <3> QED
      BY <2>4, <2>5, <3>1
  <2>6. CASE ~Closed(walk[k], U, R)
    <3>1. PICK y \in new : y \notin walk[k]
      BY <2>6 DEF Closed
    <3> HIDE DEF new
    <3>2. IsFiniteSet(walk[k]) /\ IsFiniteSet(walk[k + 1])
      BY <2>2, <2>4, FS_Subset
    <3>3. Cardinality(walk[k] \cup {y}) = Cardinality(walk[k]) + 1 /\ walk[k] \cup {y} \subseteq walk[k + 1]
      BY <2>3, <3>1, <3>2, FS_AddElement
    <3>4. Cardinality(walk[k] \cup {y}) <= Cardinality(walk[k + 1])
      BY <3>2, <3>3, FS_Subset
    <3>5. Cardinality(walk[k]) \in Nat /\ Cardinality(walk[k + 1]) \in Nat
      BY <3>2, FS_CardinalityType
    <3>6. Cardinality(walk[k]) >= k + 1
      BY <2>2, <2>6
    <3>7. Cardinality(walk[k + 1]) >= (k + 1) + 1
      BY <3>3, <3>4, <3>5, <3>6
    <3> QED
      BY <2>4, <3>7
  <2> QED
    BY <2>5, <2>6
<1> HIDE DEF P
<1>3. n \in P
  BY <1>1, <1>2, SetInduction
<1>4. Far(n)
  BY <1>3 DEF P
<1>5. Closed(walk[n], U, R)
  <2>1. ASSUME Cardinality(walk[n]) >= n + 1 PROVE walk[n] = U
    <3>1. Cardinality(walk[n]) <= Cardinality(U) /\ (Cardinality(U) = Cardinality(walk[n]) => U = walk[n])
      BY <1>4, FS_Subset
    <3>2. Cardinality(walk[n]) \in Nat /\ Cardinality(U) \in Nat
      BY <1>4, FS_Subset, FS_CardinalityType
    <3> QED
      BY <2>1, <3>1, <3>2
  <2> QED
    BY <1>4, <2>1 DEF Closed
<1>6. ASSUME NEW S, s \in S, Closed(S, U, R) PROVE walk[n] \subseteq S
  <2> DEFINE T == SUBSET S
  <2>1. walk[0] \in T
    BY <1>6 DEF Walk
  <2>2. ASSUME NEW k \in 1 .. n, walk[k - 1] \in T PROVE walk[k] \in T
    <3>1. walk[k] = walk[k - 1] \cup {y \in U : \E x \in walk[k - 1] : <<x, y>> \in R}
      BY DEF Walk
    <3> QED
      BY <1>6, <2>2, <3>1 DEF Closed
  <2> HIDE DEF T
  <2>3. \A k \in 0 .. n : walk[k] \in T
    BY <2>1, <2>2, RecursionKeeps
  <2>4. n \in 0 .. n
    OBVIOUS
  <2> QED
    BY <2>3, <2>4 DEF T
<1> QED
  BY <1>4, <1>5, <1>6

UpClosed(S) == \A a \in S : Up(a) # NoEntity => Up(a) \in S

(* The chain of an entity is the least set that holds it and what its      *)
(* members hang from.                                                      *)
ChainSound(e) ==
    /\ Chain(e) \subseteq Entity /\ e \in Chain(e) /\ UpClosed(Chain(e))
    /\ \A S \in SUBSET Entity : e \in S /\ UpClosed(S) => Chain(e) \subseteq S

ParentsFine == parent \in [Entity -> Entity \cup {NoEntity}]

LEMMA ChainLeast == ParentsFine => \A e \in Entity : ChainSound(e)
<1> SUFFICES ASSUME ParentsFine, NEW e \in Entity PROVE ChainSound(e)
  OBVIOUS
<1> DEFINE n == Cardinality(Entity)
           U == Entity \cup {NoEntity}
           R == {p \in Entity \X U : p[2] = Up(p[1])}
           Good(f) == f = [k \in 0 .. n |-> IF k = 0 THEN {e} ELSE f[k - 1] \cup {Up(a) : a \in f[k - 1] \cap Entity}]
           walk == CHOOSE f : Good(f)
<1>1. n \in Nat /\ IsFiniteSet(U) /\ Cardinality(U) <= n + 1
  <2>1. IsFiniteSet(Entity)
    BY HierarchyAssumption
  <2>2. n \in Nat
    BY <2>1, FS_CardinalityType
  <2>3. IsFiniteSet(U) /\ Cardinality(U) = IF NoEntity \in Entity THEN n ELSE n + 1
    BY <2>1, FS_AddElement
  <2> QED
    BY <2>2, <2>3
<1>2. \A a \in Entity : Up(a) \in U
  BY DEF Up, ParentsFine
<1>3. ASSUME NEW W \in SUBSET U PROVE {Up(a) : a \in W \cap Entity} = {y \in U : \E x \in W : <<x, y>> \in R}
  BY <1>2
<1>4. PICK f : /\ f = [k \in 0 .. n |-> IF k = 0 THEN {e} ELSE f[k - 1] \cup {y \in U : \E x \in f[k - 1] : <<x, y>> \in R}]
               /\ Walk(f, n, U, R, e)
  <2> HIDE DEF R, n
  <2>1. e \in U
    OBVIOUS
  <2> HIDE DEF U
  <2> QED
    BY <1>1, <2>1, WalkExists
<1>5. \A k \in 0 .. n : f[k] \in SUBSET U
  <2>1. f[0] \in SUBSET U
    BY <1>4 DEF Walk
  <2>2. \A k \in 1 .. n : f[k - 1] \in SUBSET U => f[k] \in SUBSET U
    BY <1>4 DEF Walk
  <2> DEFINE T == SUBSET U
  <2> HIDE DEF T, n
  <2>3. \A k \in 0 .. n : f[k] \in T
    BY <1>1, <2>1, <2>2, RecursionKeeps DEF T
  <2> QED
    BY <2>3 DEF T
<1> HIDE DEF R
<1>6. Good(f)
  <2> HIDE DEF n, U
  <2>1. \A k \in 0 .. n : k = 0 \/ k - 1 \in 0 .. n
    BY <1>1
  <2>2. \A k \in 0 .. n : k # 0 => {Up(a) : a \in f[k - 1] \cap Entity} = {y \in U : \E x \in f[k - 1] : <<x, y>> \in R}
    BY <1>3, <1>5, <2>1
  <2>3. f = [k \in 0 .. n |-> f[k]]
    BY <1>4
  <2>4. \A k \in 0 .. n : f[k] = IF k = 0 THEN {e} ELSE f[k - 1] \cup {Up(a) : a \in f[k - 1] \cap Entity}
    BY <1>4, <2>2
  <2> QED
    BY <2>3, <2>4
<1>7. Good(walk)
  BY <1>6, Zenon
<1>8. Chain(e) = walk[n] \ {NoEntity}
  BY DEF Chain
<1> HIDE DEF walk
<1>9. Walk(walk, n, U, R, e)
  <2> HIDE DEF n
  <2>1. walk[0] = {e}
    BY <1>1, <1>7
  <2>2. ASSUME NEW k \in 1 .. n PROVE walk[k] = walk[k - 1] \cup {Up(a) : a \in walk[k - 1] \cap Entity}
    BY <1>1, <1>7
  <2> DEFINE T == SUBSET U
  <2>3. \A k \in 0 .. n : walk[k] \in T
    <3>1. walk[0] \in T
      BY <2>1
    <3>2. \A k \in 1 .. n : walk[k - 1] \in T => walk[k] \in T
      BY <1>2, <2>2
    <3> HIDE DEF T
    <3> QED
      BY <1>1, <3>1, <3>2, RecursionKeeps
  <2>4. ASSUME NEW k \in 1 .. n PROVE walk[k] = walk[k - 1] \cup {y \in U : \E x \in walk[k - 1] : <<x, y>> \in R}
    <3>1. k - 1 \in 0 .. n
      BY <1>1
    <3> HIDE DEF U
    <3> QED
      BY <1>3, <2>2, <2>3, <3>1
  <2> QED
    BY <2>1, <2>4 DEF Walk
<1>10. /\ walk[n] \subseteq U /\ e \in walk[n] /\ Closed(walk[n], U, R)
       /\ \A S : e \in S /\ Closed(S, U, R) => walk[n] \subseteq S
  <2>1. e \in U
    OBVIOUS
  <2> HIDE DEF U, n
  <2> QED
    BY <1>1, <1>9, <2>1, WalkCloses
<1> HIDE DEF n
<1>11. Chain(e) \subseteq Entity /\ e \in Chain(e)
  BY <1>8, <1>10, HierarchyAssumption
<1>12. UpClosed(Chain(e))
  BY <1>2, <1>8, <1>10, <1>11 DEF UpClosed, Closed, R
<1>13. ASSUME NEW S \in SUBSET Entity, e \in S, UpClosed(S) PROVE Chain(e) \subseteq S
  <2>1. Closed(S \cup {NoEntity}, U, R)
    BY <1>13, HierarchyAssumption DEF Closed, UpClosed, R
  <2>2. walk[n] \subseteq S \cup {NoEntity}
    BY <1>10, <1>13, <2>1
  <2> QED
    BY <1>8, <2>2
<1> QED
  BY <1>11, <1>12, <1>13 DEF ChainSound

(* What is below an entity lives, but for the entity, and is closed under  *)
(* the Children lists.                                                     *)
BelowSound(e) ==
    /\ e \in Below(e) /\ Below(e) \subseteq {e} \cup alive
    /\ \A d \in Below(e) : ToSet(children[d]) \cap alive \subseteq Below(e)

ListsFine == alive \subseteq Entity /\ children \in [Entity -> Seq(Entity)]

LEMMA BelowClosed == ListsFine => \A e \in Entity : BelowSound(e)
<1> SUFFICES ASSUME ListsFine, NEW e \in Entity PROVE BelowSound(e)
  OBVIOUS
<1> DEFINE n == Cardinality(Entity)
           R == {p \in Entity \X Entity : p[2] \in ToSet(children[p[1]]) \cap alive}
           Good(f) == f = [k \in 0 .. n |-> IF k = 0 THEN {e}
                                            ELSE f[k - 1] \cup ((UNION {ToSet(children[d]) : d \in f[k - 1]}) \cap alive)]
           walk == CHOOSE f : Good(f)
<1>1. n \in Nat /\ IsFiniteSet(Entity) /\ n <= n + 1
  BY HierarchyAssumption, FS_CardinalityType
<1>2. ASSUME NEW W \in SUBSET Entity
      PROVE  (UNION {ToSet(children[d]) : d \in W}) \cap alive = {y \in Entity : \E x \in W : <<x, y>> \in R}
  BY DEF ListsFine
<1>3. PICK f : /\ f = [k \in 0 .. n |-> IF k = 0 THEN {e} ELSE f[k - 1] \cup {y \in Entity : \E x \in f[k - 1] : <<x, y>> \in R}]
               /\ Walk(f, n, Entity, R, e)
  <2> HIDE DEF R, n
  <2> QED
    BY <1>1, WalkExists
<1> HIDE DEF R
<1>4. \A k \in 0 .. n : f[k] \in SUBSET Entity
  <2>1. f[0] \in SUBSET Entity
    BY <1>3 DEF Walk
  <2>2. \A k \in 1 .. n : f[k - 1] \in SUBSET Entity => f[k] \in SUBSET Entity
    BY <1>3 DEF Walk
  <2> DEFINE T == SUBSET Entity
  <2> HIDE DEF T, n
  <2>3. \A k \in 0 .. n : f[k] \in T
    BY <1>1, <2>1, <2>2, RecursionKeeps DEF T
  <2> QED
    BY <2>3 DEF T
<1>5. Good(f)
  <2> HIDE DEF n
  <2>1. \A k \in 0 .. n : k = 0 \/ k - 1 \in 0 .. n
    BY <1>1
  <2>2. \A k \in 0 .. n : k # 0 => (UNION {ToSet(children[d]) : d \in f[k - 1]}) \cap alive
                                    = {y \in Entity : \E x \in f[k - 1] : <<x, y>> \in R}
    BY <1>2, <1>4, <2>1
  <2>3. f = [k \in 0 .. n |-> f[k]]
    BY <1>3
  <2>4. \A k \in 0 .. n : f[k] = IF k = 0 THEN {e}
                                 ELSE f[k - 1] \cup ((UNION {ToSet(children[d]) : d \in f[k - 1]}) \cap alive)
    BY <1>3, <2>2
  <2> QED
    BY <2>3, <2>4
<1>6. Good(walk)
  BY <1>5, Zenon
<1>7. Below(e) = walk[n]
  BY DEF Below
<1> HIDE DEF walk
<1>8. Walk(walk, n, Entity, R, e)
  <2> HIDE DEF n
  <2>1. walk[0] = {e}
    BY <1>1, <1>6
  <2>2. ASSUME NEW k \in 1 .. n
        PROVE  walk[k] = walk[k - 1] \cup ((UNION {ToSet(children[d]) : d \in walk[k - 1]}) \cap alive)
    BY <1>1, <1>6
  <2> DEFINE T == SUBSET Entity
  <2>3. \A k \in 0 .. n : walk[k] \in T
    <3>1. walk[0] \in T
      BY <2>1
    <3>2. \A k \in 1 .. n : walk[k - 1] \in T => walk[k] \in T
      BY <2>2 DEF ListsFine
    <3> HIDE DEF T
    <3> QED
      BY <1>1, <3>1, <3>2, RecursionKeeps
  <2>4. ASSUME NEW k \in 1 .. n PROVE walk[k] = walk[k - 1] \cup {y \in Entity : \E x \in walk[k - 1] : <<x, y>> \in R}
    <3>1. k - 1 \in 0 .. n
      BY <1>1
    <3> QED
      BY <1>2, <2>2, <2>3, <3>1
  <2> QED
    BY <2>1, <2>4 DEF Walk
<1>9. /\ walk[n] \subseteq Entity /\ e \in walk[n] /\ Closed(walk[n], Entity, R)
      /\ \A S : e \in S /\ Closed(S, Entity, R) => walk[n] \subseteq S
  <2> HIDE DEF n
  <2>1. Cardinality(Entity) <= n + 1
    BY <1>1 DEF n
  <2> QED
    BY <1>1, <1>8, <2>1, WalkCloses
<1> HIDE DEF n
<1>10. Below(e) \subseteq {e} \cup alive
  <2>1. Closed({e} \cup alive, Entity, R)
    BY DEF Closed, R
  <2> QED
    BY <1>7, <1>9, <2>1
<1>11. ASSUME NEW d \in Below(e), NEW c \in ToSet(children[d]) \cap alive PROVE c \in Below(e)
  <2>1. d \in Entity /\ c \in Entity /\ d \in walk[n]
    BY <1>7, <1>9 DEF ListsFine
  <2>2. <<d, c>> \in R
    BY <2>1 DEF R
  <2> QED
    BY <1>7, <1>9, <2>1, <2>2 DEF Closed
<1> QED
  BY <1>7, <1>9, <1>10, <1>11 DEF BelowSound

-----------------------------------------------------------------------------
(* A list has an entity once, or never. *)
Once(s, c) == \E k \in DOMAIN s : s[k] = c /\ \A j \in DOMAIN s : s[j] = c => j = k

Never(s, c) == \A j \in DOMAIN s : s[j] # c

LEMMA CutOut ==
    ASSUME NEW E, NEW s \in Seq(E), NEW c, Once(s, c) \/ Never(s, c)
    PROVE  /\ RemoveFirst(s, c) \in Seq(E) /\ Never(RemoveFirst(s, c), c)
           /\ \A d : d # c => /\ Once(s, d) => Once(RemoveFirst(s, c), d)
                              /\ Never(s, d) => Never(RemoveFirst(s, c), d)
<1>1. CASE Never(s, c)
  <2>1. RemoveFirst(s, c) = s
    BY <1>1 DEF RemoveFirst, Never
  <2> QED
    BY <1>1, <2>1
<1>2. CASE Once(s, c)
  <2> DEFINE t == RemoveFirst(s, c)
             n == Len(s)
  <2>1. PICK k \in 1 .. n : s[k] = c /\ \A j \in 1 .. n : s[j] = c => j = k
    BY <1>2 DEF Once
  <2>2. n \in Nat /\ k \in Nat /\ n > 0 /\ DOMAIN s = 1 .. n
    BY <2>1
  <2>3. {i \in 1 .. Len(s) : s[i] = c} = {k}
    BY <2>1
  <2>4. t = SubSeq(s, 1, k - 1) \o SubSeq(s, k + 1, n)
    <3>1. SelectInSeq(s, LAMBDA v : v = c) = k
      BY <2>2, <2>3 DEF SelectInSeq, Min
    <3> QED
      BY <2>1, <3>1 DEF RemoveFirst, RemoveAt
  <2> HIDE DEF t
  <2> DEFINE left == SubSeq(s, 1, k - 1)
             right == SubSeq(s, k + 1, n)
  <2>5. \A j \in 1 .. n : s[j] \in E
    BY <2>2
  <2> HIDE DEF n
  <2>6. left \in Seq(E) /\ Len(left) = k - 1 /\ \A j \in 1 .. k - 1 : left[j] = s[j]
    <3>1. k - 1 \in Int /\ 1 .. k - 1 \subseteq 1 .. n
      BY <2>1, <2>2
    <3>2. /\ left \in Seq(E) /\ Len(left) = IF 1 <= k - 1 THEN (k - 1) - 1 + 1 ELSE 0
          /\ \A j \in 1 .. (k - 1) - 1 + 1 : left[j] = s[1 + j - 1]
      BY <2>5, <3>1, SubSeqProperties
    <3>3. Len(left) = k - 1 /\ (k - 1) - 1 + 1 = k - 1 /\ \A j \in 1 .. k - 1 : 1 + j - 1 = j
      BY <2>1, <2>2, <3>2
    <3> QED
      BY <3>2, <3>3
  <2>7. right \in Seq(E) /\ Len(right) = n - k /\ \A j \in 1 .. n - k : right[j] = s[j + k]
    <3>1. k + 1 \in Int /\ n \in Int /\ k + 1 .. n \subseteq 1 .. n
      BY <2>1, <2>2
    <3>2. /\ right \in Seq(E) /\ Len(right) = IF k + 1 <= n THEN n - (k + 1) + 1 ELSE 0
          /\ \A j \in 1 .. n - (k + 1) + 1 : right[j] = s[(k + 1) + j - 1]
      BY <2>5, <3>1, SubSeqProperties
    <3>3. n - (k + 1) + 1 = n - k /\ k <= n /\ \A j \in 1 .. n - k : (k + 1) + j - 1 = j + k
      BY <2>1, <2>2
    <3>4. (IF k + 1 <= n THEN n - (k + 1) + 1 ELSE 0) = n - k
      BY <2>2, <3>3
    <3>5. Len(right) = n - k
      BY <3>2, <3>4
    <3> QED
      BY <3>2, <3>3, <3>5
  <2>8. t = left \o right
    BY <2>4 DEF n
  <2> HIDE DEF left, right
  <2>9. t \in Seq(E) /\ Len(t) = n - 1 /\ DOMAIN t = 1 .. n - 1
    BY <2>1, <2>2, <2>6, <2>7, <2>8
  <2>10. ASSUME NEW j \in 1 .. n - 1 PROVE t[j] = IF j < k THEN s[j] ELSE s[j + 1]
    <3>1. CASE j < k
      <4>1. j \in 1 .. k - 1
        BY <2>2, <3>1
      <4> QED
        BY <2>6, <2>7, <2>8, <3>1, <4>1
    <3>2. CASE ~(j < k)
      <4>1. j - (k - 1) \in 1 .. n - k /\ (j - (k - 1)) + k = j + 1 /\ j \in 1 .. (k - 1) + (n - k) /\ ~(j <= k - 1)
        BY <2>1, <2>2, <3>2
      <4>2. t[j] = right[j - (k - 1)]
        BY <2>6, <2>7, <2>8, <4>1
      <4> QED
        BY <2>7, <3>2, <4>1, <4>2
    <3> QED
      BY <3>1, <3>2
  <2>11. Never(t, c)
    BY <2>1, <2>2, <2>9, <2>10 DEF Never
  <2>12. ASSUME NEW d, d # c, Never(s, d) PROVE Never(t, d)
    <3>1. \A j \in 1 .. n : s[j] # d
      BY <2>2, <2>12 DEF Never
    <3>2. \A j \in 1 .. n - 1 : j \in 1 .. n /\ j + 1 \in 1 .. n
      BY <2>2
    <3>3. \A j \in 1 .. n - 1 : t[j] # d
      BY <2>10, <3>1, <3>2
    <3> QED
      BY <2>9, <3>3 DEF Never
  <2>13. ASSUME NEW d, d # c, Once(s, d) PROVE Once(t, d)
    <3>1. PICK i \in 1 .. n : s[i] = d /\ \A j \in 1 .. n : s[j] = d => j = i
      BY <2>2, <2>13 DEF Once
    <3>2. i # k
      BY <2>1, <2>13, <3>1
    <3> DEFINE m == IF i < k THEN i ELSE i - 1
    <3>3. m \in 1 .. n - 1
      BY <2>1, <2>2, <3>1, <3>2
    <3>4. t[m] = d /\ \A j \in 1 .. n - 1 : t[j] = d => j = m
      BY <2>1, <2>2, <2>10, <3>1, <3>2
    <3> QED
      BY <2>9, <3>3, <3>4 DEF Once
  <2> QED
    BY <2>9, <2>11, <2>12, <2>13 DEF t
<1> QED
  BY <1>1, <1>2

LEMMA PutLast ==
    ASSUME NEW E, NEW s \in Seq(E), NEW c \in E
    PROVE  /\ Append(s, c) \in Seq(E) /\ (Never(s, c) => Once(Append(s, c), c))
           /\ \A d : d # c => /\ Once(s, d) => Once(Append(s, c), d)
                              /\ Never(s, d) => Never(Append(s, c), d)
<1> DEFINE n == Len(s)
           t == Append(s, c)
<1>1. n \in Nat /\ DOMAIN s = 1 .. n /\ t \in Seq(E) /\ DOMAIN t = 1 .. n + 1 /\ t[n + 1] = c
  OBVIOUS
<1>2. \A j \in 1 .. n : t[j] = s[j]
  OBVIOUS
<1> HIDE DEF n, t
<1>3. \A j \in 1 .. n + 1 : j \in 1 .. n \/ j = n + 1
  BY <1>1
<1>4. n + 1 \in 1 .. n + 1 /\ n + 1 \notin 1 .. n /\ 1 .. n \subseteq 1 .. n + 1
  BY <1>1
<1>5. Never(s, c) => Once(t, c)
  <2>1. SUFFICES ASSUME Never(s, c) PROVE t[n + 1] = c /\ \A j \in 1 .. n + 1 : t[j] = c => j = n + 1
    BY <1>1, <1>4 DEF Once
  <2> QED
    BY <1>1, <1>2, <1>3, <1>4, <2>1 DEF Never
<1>6. ASSUME NEW d, d # c, Never(s, d) PROVE Never(t, d)
  BY <1>1, <1>2, <1>3, <1>6 DEF Never
<1>7. ASSUME NEW d, d # c, Once(s, d) PROVE Once(t, d)
  <2>1. PICK i \in 1 .. n : s[i] = d /\ \A j \in 1 .. n : s[j] = d => j = i
    BY <1>1, <1>7 DEF Once
  <2>2. t[i] = d /\ \A j \in 1 .. n + 1 : t[j] = d => j = i
    BY <1>1, <1>2, <1>3, <1>4, <1>7, <2>1
  <2> QED
    BY <1>1, <1>4, <2>2 DEF Once
<1> QED
  BY <1>1, <1>5, <1>6, <1>7 DEF t

LEMMA OccurrencesCount ==
    \A p, c : /\ Once(children[p], c) => Occurrences(p, c) = 1
              /\ Never(children[p], c) => Occurrences(p, c) = 0
<1> SUFFICES ASSUME NEW p, NEW c PROVE /\ Once(children[p], c) => Occurrences(p, c) = 1
                                       /\ Never(children[p], c) => Occurrences(p, c) = 0
  OBVIOUS
<1>1. ASSUME Once(children[p], c) PROVE Occurrences(p, c) = 1
  <2>1. PICK k : {i \in DOMAIN children[p] : children[p][i] = c} = {k}
    BY <1>1 DEF Once
  <2> QED
    BY <2>1, FS_Singleton DEF Occurrences
<1>2. ASSUME Never(children[p], c) PROVE Occurrences(p, c) = 0
  <2>1. {i \in DOMAIN children[p] : children[p][i] = c} = {}
    BY <1>2 DEF Never
  <2> QED
    BY <2>1, FS_EmptySet DEF Occurrences
<1> QED
  BY <1>1, <1>2

-----------------------------------------------------------------------------
(* The inductive invariant of the hierarchy.  Links go between entities    *)
(* that were spawned, and a dead one has none; nobody is above itself; a   *)
(* living parent lists a living child once, and nobody else does.          *)
LinksFine ==
    /\ alive \subseteq spawned /\ spawned \subseteq Entity
    /\ parent \in [Entity -> spawned \cup {NoEntity}] /\ children \in [Entity -> Seq(spawned)]
    /\ \A e \in Entity \ alive : parent[e] = NoEntity /\ children[e] = <<>>
    /\ unlisted \subseteq {e \in alive : parent[e] # NoEntity}

Acyclic == \A e, u \in Entity : Up(e) = u => e \notin Chain(u)

ListedBy(p, c) == parent[c] = p /\ c \notin unlisted

Listed ==
    \A p, c \in alive : /\ ListedBy(p, c) => Once(children[p], c)
                        /\ ~ListedBy(p, c) => Never(children[p], c)

HierInv == LinksFine /\ Acyclic /\ Listed

LEMMA LinksTyped == LinksFine => ParentsFine /\ ListsFine
<1> SUFFICES ASSUME LinksFine PROVE ParentsFine /\ ListsFine
  OBVIOUS
<1>1. ParentsFine
  BY DEF LinksFine, ParentsFine
<1>2. \A e \in Entity : children[e] \in Seq(Entity)
  BY DEF LinksFine
<1>3. children = [e \in Entity |-> children[e]] /\ alive \subseteq Entity
  BY DEF LinksFine
<1>4. ListsFine
  <2>1. children \in [Entity -> Seq(Entity)]
    BY <1>2, <1>3
  <2> QED
    BY <1>3, <2>1 DEF ListsFine
<1> QED
  BY <1>1, <1>4

AllChains == \A e \in Entity : ChainSound(e)

LEMMA ChainsLeast == ParentsFine => AllChains
BY ChainLeast DEF AllChains

LEMMA NextChains ==
    ASSUME ParentsFine'
    PROVE  \A e \in Entity :
              /\ Chain(e)' \subseteq Entity /\ e \in Chain(e)'
              /\ \A a \in Chain(e)' : Up(a)' # NoEntity => Up(a)' \in Chain(e)'
              /\ \A S \in SUBSET Entity :
                    e \in S /\ (\A a \in S : Up(a)' # NoEntity => Up(a)' \in S) => Chain(e)' \subseteq S
<1>1. ParentsFine'
  OBVIOUS
<1>2. AllChains'
  BY <1>1, ChainsLeast, PTL
<1> QED
  BY <1>2 DEF AllChains, ChainSound, UpClosed

(* Cutting links makes chains shorter. *)
LEMMA CutKeeps ==
    ASSUME ParentsFine, ParentsFine', Acyclic, \A a \in Entity : Up(a)' = Up(a) \/ Up(a)' = NoEntity
    PROVE  Acyclic'
<1>1. \A e \in Entity : ChainSound(e)
  BY ChainLeast
<1>2. ASSUME NEW e \in Entity PROVE Chain(e)' \subseteq Chain(e)
  <2>1. ChainSound(e)
    BY <1>1
  <2> DEFINE C == Chain(e)
  <2>2. C \in SUBSET Entity /\ e \in C
    BY <2>1 DEF ChainSound
  <2>3. \A a \in C : Up(a)' # NoEntity => Up(a)' \in C
    BY <2>1, <2>2 DEF ChainSound, UpClosed
  <2> HIDE DEF C
  <2>4. Chain(e)' \subseteq C
    BY <2>2, <2>3, NextChains
  <2> QED
    BY <2>4 DEF C
<1>3. ASSUME NEW e \in Entity, NEW u \in Entity, Up(e)' = u PROVE e \notin Chain(u)'
  <2>1. Up(e) = u
    BY <1>3, HierarchyAssumption
  <2>2. e \notin Chain(u)
    BY <2>1 DEF Acyclic
  <2> QED
    BY <1>2, <2>2
<1> QED
  BY <1>3 DEF Acyclic

(* A new link above an entity that is not above its new parent closes no   *)
(* cycle.                                                                  *)
LEMMA LinkKeeps ==
    ASSUME ParentsFine, ParentsFine', Acyclic, NEW p \in Entity, NEW child \in Entity, child \notin Chain(p),
           \A a \in Entity : Up(a)' = IF a = child THEN p ELSE Up(a)
    PROVE  Acyclic'
<1>1. AllChains
  BY ChainLeast DEF AllChains
<1> DEFINE Above == Chain(p)
<1>2. Above \in SUBSET Entity /\ p \in Above /\ \A a \in Above : Up(a) # NoEntity => Up(a) \in Above
  BY <1>1 DEF AllChains, ChainSound, UpClosed
<1>3. child \notin Above
  OBVIOUS
<1> HIDE DEF Above
<1>4. Chain(p)' \subseteq Above
  BY <1>2, <1>3, NextChains
<1>5. ASSUME NEW e \in Entity, NEW u \in Entity, Up(e)' = u PROVE e \notin Chain(u)'
  <2>1. CASE e = child
    <3>1. u = p
      BY <1>5, <2>1
    <3> QED
      BY <1>3, <1>4, <2>1, <3>1
  <2>2. CASE e # child
    <3> DEFINE C == Chain(u)
    <3>1. /\ C \in SUBSET Entity /\ u \in C /\ \A a \in C : Up(a) # NoEntity => Up(a) \in C
          /\ \A S \in SUBSET Entity : u \in S /\ UpClosed(S) => C \subseteq S
      BY <1>1 DEF AllChains, ChainSound, UpClosed
    <3>2. Up(e) = u /\ e \notin C
      BY <1>5, <2>2 DEF Acyclic
    <3> HIDE DEF C
    <3>3. CASE child \notin C
      <4>1. Chain(u)' \subseteq C
        BY <3>1, <3>3, NextChains
      <4> QED
        BY <3>2, <4>1
    <3>4. CASE child \in C
      <4>1. e \notin Above
        <5>1. SUFFICES ASSUME e \in Above PROVE FALSE
          OBVIOUS
        <5>2. u \in Above
          BY <1>2, <3>2, <5>1, HierarchyAssumption
        <5>3. C \subseteq Above
          BY <1>2, <3>1, <5>2 DEF UpClosed
        <5> QED
          BY <1>3, <3>4, <5>3
      <4> DEFINE S == C \cup Above
      <4>2. S \in SUBSET Entity /\ u \in S
        BY <1>2, <3>1
      <4>3. \A a \in S : Up(a)' # NoEntity => Up(a)' \in S
        BY <1>2, <3>1
      <4> HIDE DEF S
      <4>4. Chain(u)' \subseteq S
        BY <4>2, <4>3, NextChains
      <4> QED
        BY <3>2, <4>1, <4>4 DEF S
    <3> QED
      BY <3>3, <3>4
  <2> QED
    BY <2>1, <2>2
<1> QED
  BY <1>5 DEF Acyclic

-----------------------------------------------------------------------------
(* What a command cuts out of a parent's list. *)
LEMMA UnlinkedSound ==
    ASSUME LinksFine, Listed, NEW child \in alive, NEW p \in Entity, p = parent[child]
    PROVE  LET cut == Unlinked(children, p, child) IN
           /\ cut \in [Entity -> Seq(spawned)] /\ \A e \in Entity \ alive : cut[e] = <<>>
           /\ \A q \in alive : /\ Never(cut[q], child)
                               /\ \A d : d # child => /\ Once(children[q], d) => Once(cut[q], d)
                                                      /\ Never(children[q], d) => Never(cut[q], d)
<1> DEFINE cut == Unlinked(children, p, child)
<1>1. \A q \in alive : q # p => Never(children[q], child)
  BY DEF Listed, ListedBy
<1>2. children \in [Entity -> Seq(spawned)] /\ alive \subseteq Entity /\ \A e \in Entity \ alive : children[e] = <<>>
  BY DEF LinksFine
<1>3. CASE p \notin alive
  <2>1. cut = children
    BY <1>3 DEF Unlinked
  <2>2. \A q \in alive : Never(cut[q], child)
    BY <1>1, <1>3, <2>1
  <2> HIDE DEF cut
  <2>3. /\ cut \in [Entity -> Seq(spawned)] /\ \A e \in Entity \ alive : cut[e] = <<>>
        /\ \A q \in alive : /\ Never(cut[q], child)
                            /\ \A d : d # child => /\ Once(children[q], d) => Once(cut[q], d)
                                                   /\ Never(children[q], d) => Never(cut[q], d)
    BY <1>2, <2>1, <2>2
  <2> QED
    BY <2>3 DEF cut
<1>4. CASE p \in alive
  <2> DEFINE rest == RemoveFirst(children[p], child)
  <2>1. cut = [children EXCEPT ![p] = rest]
    BY <1>4 DEF Unlinked
  <2>2. Once(children[p], child) \/ Never(children[p], child)
    BY <1>4 DEF Listed
  <2>3. /\ rest \in Seq(spawned) /\ Never(rest, child)
        /\ \A d : d # child => /\ Once(children[p], d) => Once(rest, d)
                               /\ Never(children[p], d) => Never(rest, d)
    <3> DEFINE list == children[p]
    <3>1. list \in Seq(spawned) /\ (Once(list, child) \/ Never(list, child))
      BY <1>2, <2>2
    <3> HIDE DEF list
    <3>2. /\ RemoveFirst(list, child) \in Seq(spawned) /\ Never(RemoveFirst(list, child), child)
          /\ \A d : d # child => /\ Once(list, d) => Once(RemoveFirst(list, child), d)
                                 /\ Never(list, d) => Never(RemoveFirst(list, child), d)
      BY <3>1, CutOut
    <3> QED
      BY <3>2 DEF list
  <2> HIDE DEF rest, cut
  <2>4. cut[p] = rest /\ \A q \in Entity : q # p => cut[q] = children[q]
    BY <1>2, <2>1
  <2>5. cut \in [Entity -> Seq(spawned)]
    BY <1>2, <2>1, <2>3
  <2>6. \A e \in Entity \ alive : cut[e] = <<>>
    BY <1>2, <1>4, <2>4
  <2>7. ASSUME NEW q \in alive
        PROVE  /\ Never(cut[q], child)
               /\ \A d : d # child => /\ Once(children[q], d) => Once(cut[q], d)
                                      /\ Never(children[q], d) => Never(cut[q], d)
    <3>1. CASE q = p
      BY <2>3, <2>4, <3>1
    <3>2. CASE q # p
      BY <1>1, <1>2, <2>4, <3>2
    <3> QED
      BY <3>1, <3>2
  <2> QED
    BY <2>5, <2>6, <2>7 DEF cut
<1> QED
  BY <1>3, <1>4

(* A child without a parent is on no living list. *)
LEMMA OrphanNever ==
    ASSUME LinksFine, Listed, NEW child \in alive, parent[child] = NoEntity
    PROVE  \A q \in alive : Never(children[q], child)
BY HierarchyAssumption DEF LinksFine, Listed, ListedBy

LEMMA AddChildStep ==
    ASSUME HierInv, NEW p \in Entity, NEW child \in Entity, AddChild(p, child)
    PROVE  HierInv'
<1> DEFINE cut == IF parent[child] # NoEntity THEN Unlinked(children, parent[child], child) ELSE children
<1>1. /\ p \in alive /\ child \in alive /\ child \notin Chain(p)
      /\ children' = [cut EXCEPT ![p] = Append(@, child)] /\ parent' = [parent EXCEPT ![child] = p]
      /\ unlisted' = unlisted \ {child} /\ UNCHANGED <<spawned, alive>>
  BY DEF AddChild, WouldCreateCycle
<1>2. LinksFine /\ Acyclic /\ Listed
  BY DEF HierInv
<1>3. /\ alive \subseteq spawned /\ spawned \subseteq Entity
      /\ parent \in [Entity -> spawned \cup {NoEntity}] /\ children \in [Entity -> Seq(spawned)]
      /\ \A e \in Entity \ alive : parent[e] = NoEntity /\ children[e] = <<>>
      /\ unlisted \subseteq {e \in alive : parent[e] # NoEntity}
  BY <1>2 DEF LinksFine
<1>4. /\ cut \in [Entity -> Seq(spawned)] /\ \A e \in Entity \ alive : cut[e] = <<>>
      /\ \A q \in alive : /\ Never(cut[q], child)
                          /\ \A d : d # child => /\ Once(children[q], d) => Once(cut[q], d)
                                                 /\ Never(children[q], d) => Never(cut[q], d)
  <2>1. CASE parent[child] = NoEntity
    <3>1. cut = children
      BY <2>1
    <3> HIDE DEF cut
    <3>2. \A q \in alive : Never(children[q], child)
      BY <1>1, <1>2, <2>1, OrphanNever
    <3> QED
      BY <1>3, <3>1, <3>2
  <2>2. CASE parent[child] # NoEntity
    <3> DEFINE old == parent[child]
    <3>1. old \in Entity
      BY <1>3, <2>2
    <3>2. cut = Unlinked(children, old, child)
      BY <2>2
    <3> HIDE DEF cut
    <3>3. old = parent[child]
      OBVIOUS
    <3> HIDE DEF old
    <3> QED
      BY <1>1, <1>2, <3>1, <3>2, <3>3, UnlinkedSound
  <2> QED
    BY <2>1, <2>2
<1> HIDE DEF cut
<1>5. parent' \in [Entity -> spawned' \cup {NoEntity}]
  BY <1>1, <1>3
<1>6. /\ children'[p] = Append(cut[p], child) /\ \A q \in Entity : q # p => children'[q] = cut[q]
  BY <1>1, <1>3, <1>4
<1>7. /\ Append(cut[p], child) \in Seq(spawned) /\ Once(Append(cut[p], child), child)
      /\ \A d : d # child => /\ Once(cut[p], d) => Once(Append(cut[p], child), d)
                             /\ Never(cut[p], d) => Never(Append(cut[p], child), d)
  <2> DEFINE list == cut[p]
  <2>1. list \in Seq(spawned) /\ child \in spawned /\ Never(list, child)
    BY <1>1, <1>3, <1>4
  <2> HIDE DEF list
  <2>2. /\ Append(list, child) \in Seq(spawned) /\ Once(Append(list, child), child)
        /\ \A d : d # child => /\ Once(list, d) => Once(Append(list, child), d)
                               /\ Never(list, d) => Never(Append(list, child), d)
    BY <2>1, PutLast
  <2> QED
    BY <2>2 DEF list
<1>8. children' \in [Entity -> Seq(spawned')]
  <2>1. \A q \in Entity : children'[q] \in Seq(spawned)
    BY <1>4, <1>6, <1>7
  <2>2. children' = [q \in Entity |-> children'[q]]
    BY <1>1, <1>4
  <2> QED
    BY <1>1, <2>1, <2>2, Zenon
<1>9. LinksFine'
  <2>1. \A e \in Entity \ alive : parent'[e] = NoEntity /\ children'[e] = <<>>
    BY <1>1, <1>3, <1>4, <1>6
  <2>2. \A e \in unlisted' : e \in alive /\ parent'[e] # NoEntity
    BY <1>1, <1>3
  <2> QED
    BY <1>1, <1>3, <1>5, <1>8, <2>1, <2>2 DEF LinksFine
<1>10. Acyclic'
  <2>1. ParentsFine /\ ParentsFine'
    BY <1>1, <1>3, <1>5 DEF ParentsFine
  <2>2. \A a \in Entity : Up(a)' = IF a = child THEN p ELSE Up(a)
    BY <1>1, <1>3 DEF Up
  <2> QED
    BY <1>1, <1>2, <2>1, <2>2, LinkKeeps
<1>11. Listed'
  <2>1. ASSUME NEW q \in alive, NEW c \in alive
        PROVE  /\ (ListedBy(q, c))' => Once(children'[q], c)
               /\ (~ListedBy(q, c))' => Never(children'[q], c)
    <3>1. CASE c = child
      <4>1. (ListedBy(q, c))' <=> q = p
        BY <1>1, <1>3, <3>1 DEF ListedBy
      <4>2. q # p => children'[q] = cut[q]
        BY <1>3, <1>6
      <4> QED
        BY <1>4, <1>6, <1>7, <3>1, <4>1, <4>2
    <3>2. CASE c # child
      <4>1. (ListedBy(q, c))' <=> ListedBy(q, c)
        BY <1>1, <1>3, <3>2 DEF ListedBy
      <4>2. /\ ListedBy(q, c) => Once(children[q], c)
            /\ ~ListedBy(q, c) => Never(children[q], c)
        BY <1>2 DEF Listed
      <4>3. q # p => children'[q] = cut[q]
        BY <1>3, <1>6
      <4> QED
        BY <1>4, <1>6, <1>7, <3>2, <4>1, <4>2, <4>3
    <3> QED
      BY <3>1, <3>2
  <2> QED
    BY <1>1, <2>1 DEF Listed
<1> QED
  BY <1>9, <1>10, <1>11 DEF HierInv

LEMMA RemoveParentStep ==
    ASSUME HierInv, NEW child \in Entity, RemoveParent(child)
    PROVE  HierInv'
<1> DEFINE old == parent[child]
           cut == Unlinked(children, old, child)
<1>1. /\ child \in alive /\ old # NoEntity /\ children' = cut /\ parent' = [parent EXCEPT ![child] = NoEntity]
      /\ unlisted' = unlisted \ {child} /\ UNCHANGED <<spawned, alive>>
  BY DEF RemoveParent
<1>2. LinksFine /\ Acyclic /\ Listed
  BY DEF HierInv
<1>3. /\ alive \subseteq spawned /\ spawned \subseteq Entity
      /\ parent \in [Entity -> spawned \cup {NoEntity}] /\ children \in [Entity -> Seq(spawned)]
      /\ \A e \in Entity \ alive : parent[e] = NoEntity /\ children[e] = <<>>
      /\ unlisted \subseteq {e \in alive : parent[e] # NoEntity}
  BY <1>2 DEF LinksFine
<1>4. /\ cut \in [Entity -> Seq(spawned)] /\ \A e \in Entity \ alive : cut[e] = <<>>
      /\ \A q \in alive : /\ Never(cut[q], child)
                          /\ \A d : d # child => /\ Once(children[q], d) => Once(cut[q], d)
                                                 /\ Never(children[q], d) => Never(cut[q], d)
  <2>1. old \in Entity /\ old = parent[child]
    BY <1>1, <1>3
  <2> HIDE DEF old
  <2> QED
    BY <1>1, <1>2, <2>1, UnlinkedSound
<1> HIDE DEF cut, old
<1>5. parent' \in [Entity -> spawned' \cup {NoEntity}]
  BY <1>1, <1>3
<1>6. LinksFine'
  <2>1. \A e \in Entity \ alive : parent'[e] = NoEntity /\ children'[e] = <<>>
    BY <1>1, <1>3, <1>4
  <2>2. \A e \in unlisted' : e \in alive /\ parent'[e] # NoEntity
    BY <1>1, <1>3
  <2> QED
    BY <1>1, <1>3, <1>4, <1>5, <2>1, <2>2 DEF LinksFine
<1>7. Acyclic'
  <2>1. ParentsFine /\ ParentsFine'
    BY <1>1, <1>3, <1>5 DEF ParentsFine
  <2>2. \A a \in Entity : Up(a)' = Up(a) \/ Up(a)' = NoEntity
    BY <1>1, <1>3 DEF Up
  <2> QED
    BY <1>2, <2>1, <2>2, CutKeeps
<1>8. Listed'
  <2>1. ASSUME NEW q \in alive, NEW c \in alive
        PROVE  /\ (ListedBy(q, c))' => Once(children'[q], c)
               /\ (~ListedBy(q, c))' => Never(children'[q], c)
    <3>1. CASE c = child
      <4>1. (~ListedBy(q, c))'
        BY <1>1, <1>3, <3>1, HierarchyAssumption DEF ListedBy
      <4> QED
        BY <1>1, <1>4, <3>1, <4>1
    <3>2. CASE c # child
      <4>1. (ListedBy(q, c))' <=> ListedBy(q, c)
        BY <1>1, <1>3, <3>2 DEF ListedBy
      <4>2. /\ ListedBy(q, c) => Once(children[q], c)
            /\ ~ListedBy(q, c) => Never(children[q], c)
        BY <1>2 DEF Listed
      <4> QED
        BY <1>1, <1>4, <3>2, <4>1, <4>2
    <3> QED
      BY <3>1, <3>2
  <2> QED
    BY <1>1, <2>1 DEF Listed
<1> QED
  BY <1>6, <1>7, <1>8 DEF HierInv

LEMMA BuriedStep ==
    ASSUME HierInv, NEW dead \in SUBSET alive, Buried(dead)
    PROVE  HierInv'
<1>1. /\ alive' = alive \ dead /\ parent' = [e \in Entity |-> IF e \in dead THEN NoEntity ELSE parent[e]]
      /\ children' = [e \in Entity |-> IF e \in dead THEN <<>> ELSE children[e]]
      /\ unlisted' = unlisted \ dead /\ spawned' = spawned
  BY DEF Buried
<1>2. LinksFine /\ Acyclic /\ Listed
  BY DEF HierInv
<1>3. /\ alive \subseteq spawned /\ spawned \subseteq Entity
      /\ parent \in [Entity -> spawned \cup {NoEntity}] /\ children \in [Entity -> Seq(spawned)]
      /\ \A e \in Entity \ alive : parent[e] = NoEntity /\ children[e] = <<>>
      /\ unlisted \subseteq {e \in alive : parent[e] # NoEntity}
  BY <1>2 DEF LinksFine
<1>4. parent' \in [Entity -> spawned' \cup {NoEntity}] /\ children' \in [Entity -> Seq(spawned')]
  BY <1>1, <1>3
<1>5. LinksFine'
  <2>1. \A e \in Entity \ alive' : parent'[e] = NoEntity /\ children'[e] = <<>>
    BY <1>1, <1>3
  <2>2. \A e \in unlisted' : e \in alive' /\ parent'[e] # NoEntity
    BY <1>1, <1>3
  <2> QED
    BY <1>1, <1>3, <1>4, <2>1, <2>2 DEF LinksFine
<1>6. Acyclic'
  <2>1. ParentsFine /\ ParentsFine'
    BY <1>1, <1>3, <1>4 DEF ParentsFine
  <2>2. \A a \in Entity : Up(a)' = Up(a) \/ Up(a)' = NoEntity
    BY <1>1, <1>3 DEF Up
  <2> QED
    BY <1>2, <2>1, <2>2, CutKeeps
<1>7. Listed'
  <2>1. ASSUME NEW q \in alive', NEW c \in alive'
        PROVE  /\ (ListedBy(q, c))' => Once(children'[q], c)
               /\ (~ListedBy(q, c))' => Never(children'[q], c)
    <3>1. q \in alive /\ c \in alive /\ q \notin dead /\ c \notin dead /\ q \in Entity /\ c \in Entity
      BY <1>1, <1>3
    <3>2. (ListedBy(q, c))' <=> ListedBy(q, c)
      BY <1>1, <3>1 DEF ListedBy
    <3>3. children'[q] = children[q]
      BY <1>1, <3>1
    <3> QED
      BY <1>2, <3>1, <3>2, <3>3 DEF Listed
  <2> QED
    BY <2>1 DEF Listed
<1> QED
  BY <1>5, <1>6, <1>7 DEF HierInv

LEMMA InstantiateStep ==
    ASSUME HierInv, NEW p \in Entity, NEW child \in Entity, InstantiateUnder(p, child)
    PROVE  HierInv'
<1>1. /\ p \in alive /\ child \in alive /\ parent[child] = NoEntity /\ child \notin Chain(p)
      /\ parent' = [parent EXCEPT ![child] = p] /\ unlisted' = unlisted \cup {child}
      /\ UNCHANGED <<spawned, alive, children>>
  BY DEF InstantiateUnder, WouldCreateCycle
<1>2. LinksFine /\ Acyclic /\ Listed
  BY DEF HierInv
<1>3. /\ alive \subseteq spawned /\ spawned \subseteq Entity
      /\ parent \in [Entity -> spawned \cup {NoEntity}] /\ children \in [Entity -> Seq(spawned)]
      /\ \A e \in Entity \ alive : parent[e] = NoEntity /\ children[e] = <<>>
      /\ unlisted \subseteq {e \in alive : parent[e] # NoEntity}
  BY <1>2 DEF LinksFine
<1>4. parent' \in [Entity -> spawned' \cup {NoEntity}]
  BY <1>1, <1>3
<1>5. LinksFine'
  <2>1. \A e \in Entity \ alive : parent'[e] = NoEntity /\ children'[e] = <<>>
    BY <1>1, <1>3
  <2>2. \A e \in unlisted' : e \in alive /\ parent'[e] # NoEntity
    BY <1>1, <1>3, HierarchyAssumption
  <2> QED
    BY <1>1, <1>3, <1>4, <2>1, <2>2 DEF LinksFine
<1>6. Acyclic'
  <2>1. ParentsFine /\ ParentsFine'
    BY <1>1, <1>3, <1>4 DEF ParentsFine
  <2>2. \A a \in Entity : Up(a)' = IF a = child THEN p ELSE Up(a)
    BY <1>1, <1>3 DEF Up
  <2> QED
    BY <1>1, <1>2, <2>1, <2>2, LinkKeeps
<1>7. Listed'
  <2>1. ASSUME NEW q \in alive, NEW c \in alive
        PROVE  /\ (ListedBy(q, c))' => Once(children'[q], c)
               /\ (~ListedBy(q, c))' => Never(children'[q], c)
    <3>1. CASE c = child
      <4>1. (~ListedBy(q, c))'
        BY <1>1, <3>1 DEF ListedBy
      <4>2. Never(children[q], c)
        BY <1>1, <1>2, <3>1, OrphanNever
      <4> QED
        BY <1>1, <4>1, <4>2
    <3>2. CASE c # child
      <4>1. (ListedBy(q, c))' <=> ListedBy(q, c)
        BY <1>1, <1>3, <3>2 DEF ListedBy
      <4> QED
        BY <1>1, <1>2, <4>1 DEF Listed
    <3> QED
      BY <3>1, <3>2
  <2> QED
    BY <1>1, <2>1 DEF Listed
<1> QED
  BY <1>5, <1>6, <1>7 DEF HierInv

LEMMA SpawnStep ==
    ASSUME HierInv, NEW e \in Entity, Spawn(e)
    PROVE  HierInv'
<1>1. /\ e \notin spawned /\ spawned' = spawned \cup {e} /\ alive' = alive \cup {e}
      /\ UNCHANGED <<parent, children, unlisted>>
  BY DEF Spawn
<1>2. LinksFine /\ Acyclic /\ Listed
  BY DEF HierInv
<1>3. /\ alive \subseteq spawned /\ spawned \subseteq Entity
      /\ parent \in [Entity -> spawned \cup {NoEntity}] /\ children \in [Entity -> Seq(spawned)]
      /\ \A d \in Entity \ alive : parent[d] = NoEntity /\ children[d] = <<>>
      /\ unlisted \subseteq {d \in alive : parent[d] # NoEntity}
  BY <1>2 DEF LinksFine
<1>4. e \notin alive /\ parent[e] = NoEntity /\ children[e] = <<>>
  BY <1>1, <1>3
<1>5. parent' \in [Entity -> spawned' \cup {NoEntity}] /\ children' \in [Entity -> Seq(spawned')]
  <2>1. \A q \in Entity : children[q] \in Seq(spawned')
    BY <1>1, <1>3
  <2> QED
    BY <1>1, <1>3, <2>1
<1>6. LinksFine'
  BY <1>1, <1>3, <1>5 DEF LinksFine
<1>7. Acyclic'
  <2>1. ParentsFine /\ ParentsFine'
    BY <1>1, <1>3, <1>5 DEF ParentsFine
  <2>2. \A a \in Entity : Up(a)' = Up(a) \/ Up(a)' = NoEntity
    BY <1>1, <1>4 DEF Up
  <2> QED
    BY <1>2, <2>1, <2>2, CutKeeps
<1>8. Listed'
  <2>1. ASSUME NEW q \in alive', NEW c \in alive'
        PROVE  /\ (ListedBy(q, c))' => Once(children'[q], c)
               /\ (~ListedBy(q, c))' => Never(children'[q], c)
    <3>1. (ListedBy(q, c))' <=> ListedBy(q, c)
      BY <1>1 DEF ListedBy
    <3>2. CASE q = e
      <4>1. ~ListedBy(q, c)
        BY <1>1, <1>3, <3>2, HierarchyAssumption DEF ListedBy
      <4> QED
        BY <1>1, <1>4, <3>1, <3>2, <4>1 DEF Never
    <3>3. CASE q # e /\ c = e
      <4>1. ~ListedBy(q, c)
        BY <1>1, <1>3, <1>4, <3>3, HierarchyAssumption DEF ListedBy
      <4>2. children[q] \in Seq(spawned)
        BY <1>1, <1>3, <3>3
      <4>3. Never(children[q], c)
        BY <1>1, <3>3, <4>2 DEF Never
      <4> QED
        BY <1>1, <3>1, <4>1, <4>3
    <3>4. CASE q # e /\ c # e
      BY <1>1, <1>2, <3>1, <3>4 DEF Listed
    <3> QED
      BY <3>2, <3>3, <3>4
  <2> QED
    BY <2>1 DEF Listed
<1> QED
  BY <1>6, <1>7, <1>8 DEF HierInv

LEMMA HierStep ==
    ASSUME HierInv, [HierarchyNext]_hierarchyVars
    PROVE  HierInv'
<1>1. alive \subseteq Entity /\ \A e \in alive : Below(e) \in SUBSET alive
  <2>1. ListsFine /\ alive \subseteq Entity
    BY LinksTyped DEF HierInv, ListsFine
  <2>2. \A e \in Entity : BelowSound(e)
    BY <2>1, BelowClosed
  <2> QED
    BY <2>1, <2>2 DEF BelowSound
<1>2. ASSUME NEW e \in Entity, Despawn(e) PROVE HierInv'
  <2>1. {e} \in SUBSET alive /\ Buried({e})
    BY <1>2 DEF Despawn
  <2> QED
    BY <2>1, BuriedStep
<1>3. ASSUME NEW e \in Entity, DespawnRecursive(e) PROVE HierInv'
  <2> DEFINE dead == Below(e)
  <2>1. dead \in SUBSET alive /\ Buried(dead)
    BY <1>1, <1>3 DEF DespawnRecursive
  <2> HIDE DEF dead
  <2> QED
    BY <2>1, BuriedStep
<1>4. ASSUME UNCHANGED <<spawned, alive, parent, children, unlisted>> PROVE HierInv'
  <2>1. LinksFine /\ Acyclic /\ Listed
    BY DEF HierInv
  <2>2. LinksFine'
    BY <1>4, <2>1 DEF LinksFine
  <2>3. Acyclic'
    <3>1. ParentsFine /\ ParentsFine'
      BY <2>1, <2>2, LinksTyped, <1>4 DEF ParentsFine
    <3>2. \A a \in Entity : Up(a)' = Up(a)
      BY <1>4 DEF Up
    <3> QED
      BY <2>1, <3>1, <3>2, CutKeeps
  <2>4. Listed'
    BY <1>4, <2>1 DEF Listed, ListedBy
  <2> QED
    BY <2>2, <2>3, <2>4 DEF HierInv
<1>5. CASE PropagateTransforms
  BY <1>4, <1>5 DEF PropagateTransforms
<1>6. CASE UNCHANGED hierarchyVars
  BY <1>4, <1>6 DEF hierarchyVars
<1> QED
  BY <1>2, <1>3, <1>5, <1>6, SpawnStep, AddChildStep, RemoveParentStep, InstantiateStep DEF HierarchyNext

(* The inductive invariant of the hierarchy: links join spawned entities,  *)
(* nobody is above itself, and the two copies of the relation agree.       *)
THEOREM HierarchyInvariant == HierarchySpec => []HierInv
<1>1. HierarchyInit => HierInv
  <2> SUFFICES ASSUME HierarchyInit PROVE HierInv
    OBVIOUS
  <2>1. \A e \in Entity : parent[e] = NoEntity /\ children[e] = <<>> /\ Up(e) = NoEntity
    BY DEF HierarchyInit, Up
  <2>2. LinksFine
    BY <2>1 DEF HierarchyInit, LinksFine
  <2>3. Acyclic
    BY <2>1, HierarchyAssumption DEF Acyclic
  <2>4. Listed
    BY DEF HierarchyInit, Listed
  <2> QED
    BY <2>2, <2>3, <2>4 DEF HierInv
<1>2. HierInv /\ [HierarchyNext]_hierarchyVars => HierInv'
  BY HierStep
<1> QED
  BY <1>1, <1>2, PTL DEF HierarchySpec

(* l1-hierarchy-system INV-1, INV-2 and INV-5.  ChildOf and Children       *)
(* describe one forest, for any number of entities and any order of        *)
(* commands: no entity hangs from itself, and among the living a child is  *)
(* listed by nobody but its parent, never twice, and once unless a scene   *)
(* placed it.                                                              *)
THEOREM ForestHolds == HierarchySpec => []Forest
<1>1. HierInv => Forest
  <2> SUFFICES ASSUME HierInv PROVE Forest
    OBVIOUS
  <2>1. LinksFine /\ Acyclic /\ Listed
    BY DEF HierInv
  <2>2. ASSUME NEW e \in alive, parent[e] # NoEntity PROVE e \notin Chain(parent[e])
    <3> DEFINE u == parent[e]
    <3>1. e \in Entity /\ u \in Entity /\ Up(e) = u
      BY <2>1, <2>2 DEF LinksFine, Up
    <3> HIDE DEF u
    <3>2. e \notin Chain(u)
      BY <2>1, <3>1 DEF Acyclic
    <3> QED
      BY <3>2 DEF u
  <2>3. ASSUME NEW p \in alive, NEW c \in alive
        PROVE  /\ parent[c] # p => Occurrences(p, c) = 0
               /\ parent[c] = p => Occurrences(p, c) <= 1 /\ (Occurrences(p, c) = 1 \/ c \in unlisted)
    <3>1. Occurrences(p, c) = IF parent[c] = p /\ c \notin unlisted THEN 1 ELSE 0
      BY <2>1, OccurrencesCount DEF Listed, ListedBy
    <3> QED
      BY <3>1
  <2> QED
    BY <2>2, <2>3 DEF Forest
<1> QED
  BY <1>1, HierarchyInvariant, PTL

(* l1-hierarchy-system INV-3.  DespawnRecursive leaves no living entity    *)
(* below the one it was called for, but below a child placed by a scene:   *)
(* what would be left is closed under ChildOf and lacks that entity.       *)
THEOREM SubtreeGoneHolds == HierarchySpec => SubtreeGone
<1> DEFINE Gone == \A e \in alive \ alive' : DespawnRecursive(e) =>
                      \A d \in alive' : e \in Chain(d) => Chain(d) \cap unlisted # {}
<1>1. HierInv /\ [HierarchyNext]_hierarchyVars => [Gone]_hierarchyVars
  <2> SUFFICES ASSUME HierInv, NEW e \in alive, DespawnRecursive(e), NEW d \in alive', e \in Chain(d), Chain(d) \cap unlisted = {}
               PROVE  FALSE
    OBVIOUS
  <2>1. LinksFine /\ Acyclic /\ Listed
    BY DEF HierInv
  <2>2. ParentsFine /\ ListsFine /\ alive \subseteq Entity
    BY <2>1, LinksTyped DEF ListsFine
  <2> DEFINE C == Chain(d)
             dead == Below(e)
             S == C \ dead
  <2>3. alive' = alive \ dead
    BY DEF DespawnRecursive, Buried
  <2>4. d \in alive /\ d \in Entity /\ d \notin dead /\ e \in Entity
    BY <2>2, <2>3
  <2>5. /\ C \in SUBSET Entity /\ d \in C /\ UpClosed(C)
        /\ \A T \in SUBSET Entity : d \in T /\ UpClosed(T) => C \subseteq T
    BY <2>2, <2>4, ChainLeast DEF ChainSound
  <2>6. /\ e \in dead /\ dead \subseteq alive /\ \A b \in dead : ToSet(children[b]) \cap alive \subseteq dead
    <3>1. BelowSound(e)
      BY <2>2, <2>4, BelowClosed
    <3> QED
      BY <3>1 DEF BelowSound
  <2>7. C \cap unlisted = {} /\ e \in C
    OBVIOUS
  <2> HIDE DEF C, dead
  <2>8. ASSUME NEW a \in S, Up(a) # NoEntity PROVE Up(a) \in S
    <3> DEFINE u == Up(a)
    <3>1. a \in alive /\ u = parent[a] /\ u \in C /\ a \notin unlisted /\ a \notin dead
      BY <2>5, <2>7, <2>8 DEF Up, UpClosed
    <3> HIDE DEF u
    <3>2. SUFFICES ASSUME u \in dead PROVE FALSE
      BY <3>1 DEF u
    <3>3. u \in alive
      BY <2>6, <3>2
    <3>4. Once(children[u], a)
      BY <2>1, <3>1, <3>3 DEF Listed, ListedBy
    <3>5. a \in ToSet(children[u])
      BY <3>4 DEF Once, ToSet
    <3> QED
      BY <2>6, <3>1, <3>2, <3>5
  <2>9. d \in S /\ UpClosed(S) /\ S \in SUBSET Entity
    BY <2>4, <2>5, <2>8 DEF UpClosed
  <2>10. C \subseteq S
    BY <2>5, <2>9
  <2> QED
    BY <2>6, <2>7, <2>10
<1> QED
  BY <1>1, HierarchyInvariant, PTL DEF HierarchySpec, SubtreeGone

(* Propagation, by the number of steps down. *)
FirstVisits == {<<e, <<e>>>> : e \in {r \in alive \ Bare : parent[r] = NoEntity}}
MoreVisits(V) == UNION {{<<c, v[2] \o <<c>>>> : c \in (ToSet(children[v[1]]) \cap alive) \ Bare} : v \in V}

VisitsBuild(f) ==
    LET n == Cardinality(Entity) IN
    /\ f[0] = FirstVisits /\ Visits = f[n]
    /\ \A k \in 1 .. n : f[k] = f[k - 1] \cup MoreVisits(f[k - 1])

LEMMA VisitsAre == ASSUME ListsFine PROVE \E f : VisitsBuild(f)
<1> DEFINE n == Cardinality(Entity)
           T == SUBSET (Entity \X Seq(Entity))
           step == [p \in (1 .. n) \X T |-> p[2] \cup MoreVisits(p[2])]
           Good(f) == f = [k \in 0 .. n |-> IF k = 0 THEN FirstVisits ELSE f[k - 1] \cup MoreVisits(f[k - 1])]
           g == CHOOSE g : Good(g)
<1>1. n \in Nat
  BY HierarchyAssumption, FS_CardinalityType
<1>2. FirstVisits \in T
  <2>1. ASSUME NEW e \in alive PROVE <<e, <<e>>>> \in Entity \X Seq(Entity)
    <3>1. e \in Entity
      BY DEF ListsFine
    <3>2. <<e>> \in Seq(Entity)
      BY <3>1
    <3> QED
      BY <3>1, <3>2
  <2> QED
    BY <2>1 DEF FirstVisits
<1>3. ASSUME NEW V \in T PROVE MoreVisits(V) \in T
  <2>1. ASSUME NEW v \in V, NEW c \in alive PROVE <<c, v[2] \o <<c>>>> \in Entity \X Seq(Entity)
    <3>1. c \in Entity /\ v[2] \in Seq(Entity)
      BY DEF ListsFine
    <3> DEFINE s == v[2]
    <3> HIDE DEF s
    <3>2. s \o <<c>> \in Seq(Entity)
      BY <3>1 DEF s
    <3> QED
      BY <3>1, <3>2 DEF s
  <2> SUFFICES ASSUME NEW w \in MoreVisits(V) PROVE w \in Entity \X Seq(Entity)
    BY DEF T
  <2>2. PICK v \in V : w \in {<<c, v[2] \o <<c>>>> : c \in (ToSet(children[v[1]]) \cap alive) \ Bare}
    BY Zenon DEF MoreVisits
  <2>3. PICK c \in (ToSet(children[v[1]]) \cap alive) \ Bare : w = <<c, v[2] \o <<c>>>>
    BY <2>2, Zenon
  <2>4. c \in alive
    BY <2>3
  <2> QED
    BY <2>1, <2>3, <2>4, Zenon
<1>4. Visits = g[n]
  BY DEF Visits, FirstVisits, MoreVisits
<1> HIDE DEF n, T
<1>5. step \in Steps(n, T)
  <2>1. \A p \in (1 .. n) \X T : p[2] \cup MoreVisits(p[2]) \in T
    <3> TAKE p \in (1 .. n) \X T
    <3> DEFINE V == p[2]
    <3>1. V \in T
      OBVIOUS
    <3> HIDE DEF V
    <3>2. V \cup MoreVisits(V) \in T
      BY <1>3, <3>1 DEF T
    <3> QED
      BY <3>2 DEF V
  <2> QED
    BY <2>1 DEF Steps
<1>6. PICK f : Recursion(f, n, T, FirstVisits, step)
  <2> HIDE DEF step
  <2> QED
    BY <1>1, <1>2, <1>5, RecursionExists, Zenon
<1>7. Good(f)
  <2>1. f \in [0 .. n -> T] /\ f[0] = FirstVisits
    BY <1>6 DEF Recursion
  <2>2. ASSUME NEW k \in 1 .. n PROVE f[k] = f[k - 1] \cup MoreVisits(f[k - 1])
    <3>1. k - 1 \in 0 .. n
      BY <1>1
    <3>2. f[k] = step[<<k, f[k - 1]>>]
      BY <1>6 DEF Recursion
    <3>3. <<k, f[k - 1]>> \in (1 .. n) \X T
      BY <2>1, <3>1
    <3> QED
      BY <3>2, <3>3
  <2>3. \A k \in 0 .. n : k = 0 \/ k \in 1 .. n
    BY <1>1
  <2>4. f = [k \in 0 .. n |-> f[k]]
    BY <2>1
  <2> HIDE DEF step
  <2> QED
    BY <2>1, <2>2, <2>3, <2>4
<1>8. Good(g)
  BY <1>7, Zenon
<1> HIDE DEF g
<1>9. g[0] = FirstVisits /\ \A k \in 1 .. n : g[k] = g[k - 1] \cup MoreVisits(g[k - 1])
  <2>1. 0 \in 0 .. n /\ \A k \in 1 .. n : k \in 0 .. n /\ k # 0
    BY <1>1
  <2> QED
    BY <1>8, <2>1
<1>10. VisitsBuild(g)
  BY <1>4, <1>9 DEF VisitsBuild, n
<1> QED
  BY <1>10

(* What a visit writes leads to the entity it visits, over living entities *)
(* that are listed and have a Transform.                                   *)
Fine == alive \ (Bare \cup unlisted)
Travels(v) == v[1] \in Entity /\ LeadsTo(v[2], v[1]) /\ \A i \in DOMAIN v[2] : v[2][i] \in Fine

LEMMA PathGrows ==
    ASSUME NEW s, NEW p, LeadsTo(s, p), NEW c \in Entity, parent[c] = p
    PROVE  /\ LeadsTo(s \o <<c>>, c)
           /\ \A i \in DOMAIN (s \o <<c>>) : (i \in DOMAIN s /\ (s \o <<c>>)[i] = s[i]) \/ (s \o <<c>>)[i] = c
<1> DEFINE t == s \o <<c>>
           n == Len(s)
<1>1. s \in Seq(Entity) /\ n \in Nat /\ n > 0 /\ s[n] = p /\ parent[s[1]] = NoEntity
      /\ \A i \in 2 .. n : parent[s[i]] = s[i - 1]
  BY DEF LeadsTo
<1>2. t \in Seq(Entity) /\ Len(t) = n + 1 /\ DOMAIN t = 1 .. n + 1 /\ DOMAIN s = 1 .. n
      /\ t[n + 1] = c /\ \A i \in 1 .. n : t[i] = s[i]
  BY <1>1
<1> HIDE DEF t, n
<1>3. ASSUME NEW i \in 2 .. n + 1 PROVE parent[t[i]] = t[i - 1]
  <2>1. CASE i = n + 1
    <3>1. i - 1 = n /\ n \in 1 .. n
      BY <1>1, <2>1
    <3> QED
      BY <1>1, <1>2, <2>1, <3>1
  <2>2. CASE i # n + 1
    <3>1. i \in 2 .. n /\ i - 1 \in 1 .. n /\ i \in 1 .. n
      BY <1>1, <2>2
    <3> QED
      BY <1>1, <1>2, <3>1
  <2> QED
    BY <2>1, <2>2
<1>4. t # <<>> /\ t[Len(t)] = c /\ parent[t[1]] = NoEntity
  <2>1. 1 \in 1 .. n /\ n + 1 # 0
    BY <1>1
  <2>2. t # <<>>
    BY <1>2, <2>1
  <2> QED
    BY <1>1, <1>2, <2>1, <2>2
<1>5. LeadsTo(t, c)
  BY <1>2, <1>3, <1>4 DEF LeadsTo
<1>6. \A i \in 1 .. n + 1 : i \in 1 .. n \/ i = n + 1
  BY <1>1
<1>7. \A i \in DOMAIN t : (i \in DOMAIN s /\ t[i] = s[i]) \/ t[i] = c
  BY <1>2, <1>6
<1> QED
  BY <1>5, <1>7 DEF t

LEMMA FirstTravel == ASSUME HierInv, NEW v \in FirstVisits PROVE Travels(v)
<1>1. PICK e \in alive \ Bare : v = <<e, <<e>>>> /\ parent[e] = NoEntity
  BY DEF FirstVisits
<1>2. e \in Entity /\ e \in Fine
  BY <1>1 DEF HierInv, LinksFine, Fine
<1>3. <<e>> \in Seq(Entity) /\ Len(<<e>>) = 1 /\ <<e>>[1] = e /\ DOMAIN <<e>> = 1 .. 1 /\ <<e>> # <<>>
  BY <1>2
<1>4. LeadsTo(<<e>>, e)
  <2>1. 2 .. 1 = {}
    OBVIOUS
  <2> QED
    BY <1>1, <1>3, <2>1 DEF LeadsTo
<1>5. \A i \in DOMAIN <<e>> : <<e>>[i] \in Fine
  <2>1. \A i \in 1 .. 1 : i = 1
    OBVIOUS
  <2> QED
    BY <1>2, <1>3, <2>1
<1> QED
  BY <1>1, <1>2, <1>4, <1>5 DEF Travels

(* Down the Children lists one goes where ChildOf comes from. *)
LEMMA ListedBelow ==
    ASSUME HierInv, NEW p \in alive, NEW c \in alive
    PROVE  c \in ToSet(children[p]) <=> parent[c] = p /\ c \notin unlisted
<1>1. c \in ToSet(children[p]) <=> \E j \in DOMAIN children[p] : children[p][j] = c
  BY DEF ToSet
<1> QED
  BY <1>1 DEF HierInv, Listed, ListedBy, Once, Never

LEMMA MoreTravel ==
    ASSUME HierInv, NEW V, \A v \in V : Travels(v), NEW w \in MoreVisits(V)
    PROVE  Travels(w)
<1>1. PICK v \in V : w \in {<<c, v[2] \o <<c>>>> : c \in (ToSet(children[v[1]]) \cap alive) \ Bare}
  BY Zenon DEF MoreVisits
<1>2. PICK c \in (ToSet(children[v[1]]) \cap alive) \ Bare : w = <<c, v[2] \o <<c>>>>
  BY <1>1, Zenon
<1> DEFINE p == v[1]
           s == v[2]
<1>3. LeadsTo(s, p) /\ \A i \in DOMAIN s : s[i] \in Fine
  BY DEF Travels
<1>4. w = <<c, s \o <<c>>>> /\ c \in ToSet(children[p]) /\ c \in alive \ Bare
  BY <1>2
<1> HIDE DEF p, s
<1>5. p \in Fine
  <2>1. s \in Seq(Entity) /\ s # <<>> /\ s[Len(s)] = p
    BY <1>3 DEF LeadsTo
  <2>2. Len(s) \in DOMAIN s
    BY <2>1
  <2> QED
    BY <1>3, <2>1, <2>2
<1>6. parent[c] = p /\ c \in Fine /\ c \in Entity
  <2>1. p \in alive /\ c \in alive
    BY <1>4, <1>5 DEF Fine
  <2>2. parent[c] = p /\ c \notin unlisted
    BY <1>4, <2>1, ListedBelow
  <2> QED
    BY <1>4, <2>1, <2>2 DEF Fine, HierInv, LinksFine
<1> DEFINE t == s \o <<c>>
<1>7. LeadsTo(t, c) /\ \A i \in DOMAIN t : (i \in DOMAIN s /\ t[i] = s[i]) \/ t[i] = c
  BY <1>3, <1>6, PathGrows
<1> HIDE DEF t
<1>8. w[1] = c /\ w[2] = t
  BY <1>4 DEF t
<1> QED
  BY <1>3, <1>6, <1>7, <1>8 DEF Travels

LEMMA VisitsTravel ==
    ASSUME HierInv, NEW f, VisitsBuild(f)
    PROVE  \A v \in Visits : Travels(v)
<1> DEFINE n == Cardinality(Entity)
           S == {k \in Nat : k <= n => \A v \in f[k] : Travels(v)}
<1>1. n \in Nat
  BY HierarchyAssumption, FS_CardinalityType
<1>2. f[0] = FirstVisits /\ Visits = f[n] /\ \A k \in 1 .. n : f[k] = f[k - 1] \cup MoreVisits(f[k - 1])
  BY DEF VisitsBuild
<1> HIDE DEF n
<1>3. 0 \in S
  BY <1>2, FirstTravel
<1>4. ASSUME NEW k \in Nat, k \in S PROVE k + 1 \in S
  <2>1. SUFFICES ASSUME k + 1 <= n, NEW v \in f[k + 1] PROVE Travels(v)
    OBVIOUS
  <2>2. k + 1 \in 1 .. n /\ (k + 1) - 1 = k /\ k <= n
    BY <1>1, <2>1
  <2>3. f[k + 1] = f[k] \cup MoreVisits(f[k])
    BY <1>2, <2>2
  <2>4. \A u \in f[k] : Travels(u)
    BY <1>4, <2>2
  <2> QED
    BY <2>3, <2>4, MoreTravel
<1> HIDE DEF S
<1>5. n \in S
  BY <1>1, <1>3, <1>4, SetInduction
<1> QED
  BY <1>1, <1>2, <1>5 DEF S

(* Along such a path lies the whole chain. *)
LEMMA PathRooted ==
    ASSUME HierInv, NEW v, Travels(v)
    PROVE  Rooted(v[1])
<1> DEFINE e == v[1]
           s == v[2]
           P == {s[i] : i \in DOMAIN s}
<1>1. /\ e \in Entity /\ s \in Seq(Entity) /\ s # <<>> /\ s[Len(s)] = e /\ parent[s[1]] = NoEntity
      /\ \A i \in 2 .. Len(s) : parent[s[i]] = s[i - 1]
      /\ \A i \in DOMAIN s : s[i] \in Fine
  BY DEF Travels, LeadsTo
<1> HIDE DEF e, s
<1>2. DOMAIN s = 1 .. Len(s) /\ Len(s) \in DOMAIN s /\ P \in SUBSET Entity
  BY <1>1
<1>3. e \in P
  BY <1>1, <1>2
<1>4. UpClosed(P)
  <2> SUFFICES ASSUME NEW i \in DOMAIN s, Up(s[i]) # NoEntity PROVE Up(s[i]) \in P
    BY DEF UpClosed
  <2>1. Up(s[i]) = parent[s[i]]
    BY <1>1 DEF Fine, Up
  <2>2. i # 1
    BY <1>1, <2>1
  <2>3. i \in 2 .. Len(s) /\ i - 1 \in DOMAIN s
    BY <1>2, <2>2
  <2> QED
    BY <1>1, <2>1, <2>3
<1>5. ChainSound(e)
  <2>1. ParentsFine
    BY LinksTyped DEF HierInv
  <2> QED
    BY <1>1, <2>1, ChainLeast
<1>6. Chain(e) \subseteq P
  BY <1>2, <1>3, <1>4, <1>5 DEF ChainSound
<1>7. P \subseteq Fine
  BY <1>1
<1> HIDE DEF P
<1> QED
  BY <1>6, <1>7 DEF Rooted, Fine, e

(* Who hangs from nobody has no longer chain than who hangs from it. *)
LEMMA ChainShorter ==
    ASSUME HierInv, NEW e \in Entity, Up(e) # NoEntity
    PROVE  /\ Up(e) \in Entity /\ Chain(Up(e)) \subseteq Chain(e) /\ Up(e) \in Chain(e)
           /\ Cardinality(Chain(Up(e))) \in Nat /\ Cardinality(Chain(e)) \in Nat
           /\ Cardinality(Chain(Up(e))) < Cardinality(Chain(e))
<1> DEFINE u == Up(e)
<1>1. LinksFine /\ Acyclic /\ ParentsFine
  BY LinksTyped DEF HierInv
<1>2. u \in Entity
  BY <1>1 DEF ParentsFine, Up
<1> HIDE DEF u
<1>3. ChainSound(e) /\ ChainSound(u)
  BY <1>1, <1>2, ChainLeast
<1>4. u \in Chain(e)
  BY <1>3 DEF ChainSound, UpClosed, u
<1>5. Chain(u) \subseteq Chain(e)
  BY <1>3, <1>4 DEF ChainSound
<1>6. e \notin Chain(u)
  BY <1>1, <1>2 DEF Acyclic, u
<1>7. IsFiniteSet(Chain(u)) /\ IsFiniteSet(Chain(e))
  BY <1>3, HierarchyAssumption, FS_Subset DEF ChainSound
<1>8. Cardinality(Chain(u)) \in Nat /\ Cardinality(Chain(e)) \in Nat
  BY <1>7, FS_CardinalityType
<1>9. Cardinality(Chain(u)) <= Cardinality(Chain(e)) /\ (Cardinality(Chain(e)) = Cardinality(Chain(u)) => Chain(e) = Chain(u))
  BY <1>5, <1>7, FS_Subset
<1>10. e \in Chain(e)
  BY <1>3 DEF ChainSound
<1>11. Cardinality(Chain(u)) < Cardinality(Chain(e))
  BY <1>6, <1>8, <1>9, <1>10
<1> QED
  BY <1>2, <1>4, <1>5, <1>8, <1>11 DEF u

(* An entity whose chain is sound is visited after as many steps down as   *)
(* its chain is long.                                                      *)
LEMMA RootedVisited ==
    ASSUME HierInv, NEW f, VisitsBuild(f), NEW e \in Entity, Rooted(e)
    PROVE  \E v \in Visits : v[1] = e
<1> DEFINE n == Cardinality(Entity)
           Reached(k) == \A d \in Entity : Rooted(d) /\ Cardinality(Chain(d)) <= k + 1 => \E v \in f[k] : v[1] = d
           S == {k \in Nat : k <= n => Reached(k)}
<1>1. n \in Nat /\ IsFiniteSet(Entity)
  BY HierarchyAssumption, FS_CardinalityType
<1>2. f[0] = FirstVisits /\ Visits = f[n] /\ \A k \in 1 .. n : f[k] = f[k - 1] \cup MoreVisits(f[k - 1])
  BY DEF VisitsBuild
<1>3. \A d \in Entity : ChainSound(d)
  <2>1. ParentsFine
    BY LinksTyped DEF HierInv
  <2> QED
    BY <2>1, ChainLeast
<1> HIDE DEF n
<1>4. ASSUME NEW d \in Entity, Rooted(d) PROVE d \in Fine /\ Up(d) = parent[d]
  <2>1. d \in Chain(d)
    BY <1>3 DEF ChainSound
  <2> QED
    BY <1>4, <2>1 DEF Rooted, Fine, Up
<1>5. ASSUME NEW d \in Entity, Rooted(d), Up(d) # NoEntity PROVE Up(d) \in Entity /\ Rooted(Up(d))
  BY <1>5, ChainShorter DEF Rooted
<1>6. ASSUME NEW d \in Entity, Rooted(d), Up(d) = NoEntity PROVE \E v \in FirstVisits : v[1] = d
  <2>1. d \in alive \ Bare /\ parent[d] = NoEntity
    BY <1>4, <1>6 DEF Fine
  <2>2. <<d, <<d>>>> \in FirstVisits /\ <<d, <<d>>>>[1] = d
    BY <2>1 DEF FirstVisits
  <2> QED
    BY <2>2
<1>7. \A k \in 1 .. n : f[k - 1] \subseteq f[k]
  BY <1>2
<1>8. 0 \in S
  <2> SUFFICES ASSUME NEW d \in Entity, Rooted(d), Cardinality(Chain(d)) <= 1 PROVE \E v \in f[0] : v[1] = d
    OBVIOUS
  <2>1. Up(d) = NoEntity
    <3> SUFFICES ASSUME Up(d) # NoEntity PROVE FALSE
      OBVIOUS
    <3> DEFINE u == Up(d)
    <3>1. u \in Entity /\ Cardinality(Chain(u)) \in Nat /\ Cardinality(Chain(d)) \in Nat
          /\ Cardinality(Chain(u)) < Cardinality(Chain(d))
      BY ChainShorter
    <3> HIDE DEF u
    <3>2. u \in Chain(u) /\ IsFiniteSet(Chain(u))
      BY <1>1, <1>3, <3>1, FS_Subset DEF ChainSound
    <3>3. Cardinality(Chain(u)) = 0
      BY <3>1
    <3> QED
      BY <3>2, <3>3, FS_EmptySet
  <2> QED
    BY <1>2, <1>6, <2>1
<1>9. ASSUME NEW k \in Nat, k \in S PROVE k + 1 \in S
  <2>1. SUFFICES ASSUME k + 1 <= n PROVE Reached(k + 1)
    OBVIOUS
  <2>2. k + 1 \in 1 .. n /\ (k + 1) - 1 = k /\ k <= n
    BY <1>1, <2>1
  <2>3. f[k + 1] = f[k] \cup MoreVisits(f[k]) /\ Reached(k)
    BY <1>2, <1>9, <2>2
  <2> SUFFICES ASSUME NEW d \in Entity, Rooted(d), Cardinality(Chain(d)) <= (k + 1) + 1
               PROVE  \E v \in f[k + 1] : v[1] = d
    OBVIOUS
  <2>4. CASE Up(d) # NoEntity
    <3> DEFINE u == Up(d)
    <3>1. u \in Entity /\ Cardinality(Chain(u)) \in Nat /\ Cardinality(Chain(d)) \in Nat
          /\ Cardinality(Chain(u)) < Cardinality(Chain(d)) /\ Rooted(u)
      BY <1>5, <2>4, ChainShorter
    <3>2. u = parent[d] /\ d \in Fine
      BY <1>4
    <3> HIDE DEF u
    <3>3. Cardinality(Chain(u)) <= k + 1
      BY <3>1
    <3>4. PICK v \in f[k] : v[1] = u
      BY <2>3, <3>1, <3>3
    <3>5. u \in Fine
      BY <1>4, <3>1
    <3>6. d \in (ToSet(children[v[1]]) \cap alive) \ Bare
      <4>1. u \in alive /\ d \in alive /\ d \notin unlisted /\ d \notin Bare
        BY <3>2, <3>5 DEF Fine
      <4>2. d \in ToSet(children[u])
        BY <3>2, <4>1, ListedBelow
      <4> QED
        BY <3>4, <4>1, <4>2
    <3> DEFINE w == <<d, v[2] \o <<d>>>>
    <3>7. w \in MoreVisits(f[k])
      <4>1. w \in {<<c, v[2] \o <<c>>>> : c \in (ToSet(children[v[1]]) \cap alive) \ Bare}
        BY <3>6, Zenon
      <4> HIDE DEF w
      <4> QED
        BY <4>1, Zenon DEF MoreVisits
    <3>8. w[1] = d
      OBVIOUS
    <3> HIDE DEF w
    <3> QED
      BY <2>3, <3>7, <3>8
  <2>5. CASE Up(d) = NoEntity
    <3>1. PICK v \in f[0] : v[1] = d
      BY <1>2, <1>6, <2>5
    <3> DEFINE Q == {i \in Nat : i <= n => v \in f[i]}
    <3>2. 0 \in Q
      OBVIOUS
    <3>3. ASSUME NEW i \in Nat, i \in Q PROVE i + 1 \in Q
      <4>1. SUFFICES ASSUME i + 1 <= n PROVE v \in f[i + 1]
        OBVIOUS
      <4>2. i + 1 \in 1 .. n /\ (i + 1) - 1 = i /\ i <= n
        BY <1>1, <4>1
      <4> QED
        BY <1>7, <3>3, <4>2
    <3> HIDE DEF Q
    <3>4. k + 1 \in Q
      BY <3>2, <3>3, SetInduction
    <3> QED
      BY <2>1, <3>1, <3>4 DEF Q
  <2> QED
    BY <2>4, <2>5
<1> HIDE DEF S
<1>10. n \in S
  BY <1>1, <1>8, <1>9, SetInduction
<1>11. Cardinality(Chain(e)) <= n + 1
  <2>1. Chain(e) \subseteq Entity
    BY <1>3 DEF ChainSound
  <2>2. Cardinality(Chain(e)) <= n
    BY <1>1, <2>1, FS_Subset DEF n
  <2>3. Cardinality(Chain(e)) \in Nat
    BY <1>1, <2>1, FS_Subset, FS_CardinalityType
  <2> QED
    BY <1>1, <2>2, <2>3
<1> QED
  BY <1>1, <1>2, <1>10, <1>11 DEF S

(* l1-hierarchy-system INV-4.  Propagation writes, for every entity that   *)
(* hangs from a root over living, listed entities with a Transform, the    *)
(* composition along its chain, and leaves every other as it is.           *)
THEOREM GlobalsFollowLinksHolds == HierarchySpec => GlobalsFollowLinks
<1> DEFINE Followed == \A e \in alive \ Bare : LeadsTo(global'[e], e) \/ (~Rooted(e) /\ global'[e] = global[e])
<1>1. HierInv /\ [HierarchyNext]_hierarchyVars => [PropagateTransforms => Followed]_hierarchyVars
  <2> SUFFICES ASSUME HierInv, PropagateTransforms, NEW e \in alive \ Bare
               PROVE  LeadsTo(global'[e], e) \/ (~Rooted(e) /\ global'[e] = global[e])
    OBVIOUS
  <2> DEFINE written == {v[2] : v \in {u \in Visits : u[1] = e}}
  <2>1. e \in Entity
    BY DEF HierInv, LinksFine
  <2>2. global'[e] = IF written = {} THEN global[e] ELSE CHOOSE g \in written : TRUE
    BY <2>1, Zenon DEF PropagateTransforms
  <2>3. PICK f : VisitsBuild(f)
    BY VisitsAre, LinksTyped DEF HierInv
  <2>4. \A v \in Visits : Travels(v)
    BY <2>3, VisitsTravel
  <2>5. CASE Rooted(e)
    <3>1. PICK v \in Visits : v[1] = e
      BY <2>1, <2>3, <2>5, RootedVisited
    <3>2. v[2] \in written
      BY <3>1
    <3>3. global'[e] \in written
      <4> HIDE DEF written
      <4> QED
        BY <2>2, <3>2
    <3>4. PICK u \in Visits : u[1] = e /\ global'[e] = u[2]
      BY <3>3
    <3> QED
      BY <2>4, <2>5, <3>4 DEF Travels
  <2>6. CASE ~Rooted(e)
    <3>1. \A v \in Visits : v[1] # e
      BY <2>4, <2>6, PathRooted
    <3>2. written = {}
      BY <3>1
    <3> HIDE DEF written
    <3> QED
      BY <2>2, <2>6, <3>2
  <2> QED
    BY <2>5, <2>6
<1> QED
  BY <1>1, HierarchyInvariant, PTL DEF HierarchySpec, GlobalsFollowLinks

-----------------------------------------------------------------------------
(* ChangeDetection.  A storage: archetypes A, rows R, column ticks C and   *)
(* sparse ticks S.                                                         *)
Stamp == [added : Nat, changed : Nat]

StorageOf(A, R, C, S) == [archetypes |-> A, rows |-> R, columnTicks |-> C, setTicks |-> S]

StorageShape(A, R, C, S) ==
    /\ A \in Seq(SUBSET Type) /\ \A i, j \in DOMAIN A : A[i] = A[j] => i = j
    /\ R \in [{A[i] : i \in DOMAIN A} -> Seq(Thing)]
    /\ DOMAIN C = DOMAIN R /\ C = [a \in DOMAIN R |-> C[a]]
    /\ \A a \in DOMAIN R : C[a] \in Seq([a \cap ColumnType -> Stamp]) /\ Len(C[a]) = Len(R[a])
    /\ DOMAIN S = SetType /\ S = [c \in SetType |-> S[c]]
    /\ \A c \in SetType : S[c] \in [DOMAIN S[c] -> Stamp]

(* An entity has one place. *)
OnePlace(R) ==
    \A a, b \in DOMAIN R : \A i \in DOMAIN R[a], j \in DOMAIN R[b] : R[a][i] = R[b][j] => a = b /\ i = j

(* The ticks of entity e in archetype a, in the cell of its row and in S,  *)
(* are those of what was done to it.                                       *)
TicksRight(e, a, cell, S, ins, lw, re) ==
    /\ e \in DOMAIN ins /\ e \in DOMAIN lw /\ DOMAIN ins[e] = a /\ DOMAIN lw[e] = a
    /\ \A c \in a \cap ColumnType : cell[c].added = ins[e][c] /\ cell[c].changed = lw[e][c]
    /\ \A c \in a \cap SetType :
        /\ e \in DOMAIN S[c] /\ S[c][e].changed = lw[e][c]
        /\ S[c][e].added = ins[e][c] \/ <<e, c>> \in re

(* Those of all entities but X. *)
AllRight(R, C, S, ins, lw, re, X) ==
    \A a \in DOMAIN R : \A i \in DOMAIN R[a] : R[a][i] \notin X => TicksRight(R[a][i], a, C[a][i], S, ins, lw, re)

StorageSound(A, R, C, S, ins, lw, re, X) ==
    StorageShape(A, R, C, S) /\ OnePlace(R) /\ AllRight(R, C, S, ins, lw, re, X)

PlacedAt(R, e, a, i) == a \in DOMAIN R /\ i \in DOMAIN R[a] /\ R[a][i] = e
Absent(e, R) == \A a \in DOMAIN R : \A i \in DOMAIN R[a] : R[a][i] # e

(* What is known of the entities but e is known still. *)
AlikeBut(e, S, ins, lw, re, S2, ins2, lw2, re2) ==
    \A f \in Thing \ {e} :
        /\ f \in DOMAIN ins => f \in DOMAIN ins2 /\ ins2[f] = ins[f]
        /\ f \in DOMAIN lw => f \in DOMAIN lw2 /\ lw2[f] = lw[f]
        /\ \A c \in SetType : /\ f \in DOMAIN S[c] => f \in DOMAIN S2[c] /\ S2[c][f] = S[c][f]
                              /\ <<f, c>> \in re => <<f, c>> \in re2

-----------------------------------------------------------------------------
LEMMA StorageFields ==
    ASSUME NEW A, NEW R, NEW C, NEW S
    PROVE  LET s == StorageOf(A, R, C, S) IN
           /\ s.archetypes = A /\ s.rows = R /\ s.columnTicks = C /\ s.setTicks = S
           /\ \A B : [s EXCEPT !.archetypes = B] = StorageOf(B, R, C, S)
           /\ \A Q : [s EXCEPT !.rows = Q] = StorageOf(A, Q, C, S)
           /\ \A D : [s EXCEPT !.columnTicks = D] = StorageOf(A, R, D, S)
           /\ \A T : [s EXCEPT !.setTicks = T] = StorageOf(A, R, C, T)
BY DEF StorageOf

(* Where row j of the n rows but the popped i comes from. *)
SwapFrom(n, i, j) == IF j = i THEN n ELSE j

LEMMA SwapPoppedAs ==
    ASSUME NEW T, NEW s \in Seq(T), NEW i \in 1 .. Len(s)
    PROVE  /\ SwapPopped(s, i) \in Seq(T) /\ Len(SwapPopped(s, i)) = Len(s) - 1
           /\ DOMAIN SwapPopped(s, i) = 1 .. Len(s) - 1
           /\ \A j \in 1 .. Len(s) - 1 : SwapPopped(s, i)[j] = s[SwapFrom(Len(s), i, j)]
<1> DEFINE n == Len(s) - 1
           new == [j \in 1 .. n |-> IF j = i THEN s[Len(s)] ELSE s[j]]
<1>1. n \in Nat /\ Len(s) \in 1 .. Len(s) /\ \A j \in 1 .. n : j \in 1 .. Len(s)
  OBVIOUS
<1>2. \A j \in 1 .. Len(s) : s[j] \in T
  OBVIOUS
<1>3. new \in [1 .. n -> T]
  <2> HIDE DEF n
  <2> QED
    BY <1>1, <1>2
<1>4. new \in Seq(T) /\ Len(new) = n /\ DOMAIN new = 1 .. n
  <2> HIDE DEF n
  <2>1. new \in Seq(T)
    BY <1>1, <1>3, SeqDef
  <2> HIDE DEF new
  <2> QED
    BY <1>1, <1>3, <2>1
<1> QED
  BY <1>4 DEF SwapPopped, SwapFrom

(* Where a row comes from: the popped one is skipped, the others are told  *)
(* apart.                                                                  *)
LEMMA SwapPlaces ==
    ASSUME NEW n \in Nat, NEW i \in 1 .. n
    PROVE  /\ \A j \in 1 .. n - 1 : SwapFrom(n, i, j) \in 1 .. n /\ SwapFrom(n, i, j) # i
           /\ \A j, k \in 1 .. n - 1 : SwapFrom(n, i, j) = SwapFrom(n, i, k) => j = k
BY DEF SwapFrom

(* removeEntityFromArchetype: the others keep their ticks. *)
LEMMA EvictedSound ==
    ASSUME NEW A, NEW R, NEW C, NEW S, NEW ins, NEW lw, NEW re, NEW X,
           StorageSound(A, R, C, S, ins, lw, re, X),
           NEW a \in DOMAIN R, NEW i \in DOMAIN R[a]
    PROVE  LET R2 == [R EXCEPT ![a] = SwapPopped(@, i)]
               C2 == [C EXCEPT ![a] = SwapPopped(@, i)]
           IN  /\ StorageSound(A, R2, C2, S, ins, lw, re, X) /\ Absent(R[a][i], R2)
               /\ Evicted(StorageOf(A, R, C, S), R[a][i], a, i) = StorageOf(A, R2, C2, S)
<1> DEFINE R2 == [R EXCEPT ![a] = SwapPopped(@, i)]
           C2 == [C EXCEPT ![a] = SwapPopped(@, i)]
           n == Len(R[a])
           from(j) == SwapFrom(n, i, j)
           cells == [a \cap ColumnType -> Stamp]
<1>1. StorageShape(A, R, C, S) /\ OnePlace(R) /\ AllRight(R, C, S, ins, lw, re, X)
  BY DEF StorageSound
<1>2. /\ R \in [{A[k] : k \in DOMAIN A} -> Seq(Thing)] /\ R[a] \in Seq(Thing) /\ DOMAIN R[a] = 1 .. n /\ n \in Nat
      /\ C[a] \in Seq(cells) /\ Len(C[a]) = n /\ DOMAIN C = DOMAIN R /\ C = [b \in DOMAIN R |-> C[b]]
      /\ \A b \in DOMAIN R : C[b] \in Seq([b \cap ColumnType -> Stamp]) /\ Len(C[b]) = Len(R[b])
  <2>1. /\ R \in [{A[k] : k \in DOMAIN A} -> Seq(Thing)] /\ DOMAIN C = DOMAIN R /\ C = [b \in DOMAIN R |-> C[b]]
        /\ \A b \in DOMAIN R : C[b] \in Seq([b \cap ColumnType -> Stamp]) /\ Len(C[b]) = Len(R[b])
    BY <1>1 DEF StorageShape
  <2>2. R[a] \in Seq(Thing)
    BY <2>1
  <2>3. DOMAIN R[a] = 1 .. n /\ n \in Nat
    BY <2>2
  <2>4. C[a] \in Seq(cells) /\ Len(C[a]) = n
    BY <2>1
  <2> QED
    BY <2>1, <2>2, <2>3, <2>4
<1>3. /\ SwapPopped(R[a], i) \in Seq(Thing) /\ Len(SwapPopped(R[a], i)) = n - 1
      /\ DOMAIN SwapPopped(R[a], i) = 1 .. n - 1
      /\ \A j \in 1 .. n - 1 : SwapPopped(R[a], i)[j] = R[a][from(j)]
  <2>1. i \in 1 .. Len(R[a])
    BY <1>2
  <2> HIDE DEF R2, C2, cells
  <2>2. /\ SwapPopped(R[a], i) \in Seq(Thing) /\ Len(SwapPopped(R[a], i)) = Len(R[a]) - 1
        /\ DOMAIN SwapPopped(R[a], i) = 1 .. Len(R[a]) - 1
        /\ \A j \in 1 .. Len(R[a]) - 1 : SwapPopped(R[a], i)[j] = R[a][SwapFrom(Len(R[a]), i, j)]
    BY <1>2, <2>1, SwapPoppedAs
  <2> QED
    BY <2>2
<1>4. /\ SwapPopped(C[a], i) \in Seq(cells) /\ Len(SwapPopped(C[a], i)) = n - 1
      /\ \A j \in 1 .. n - 1 : SwapPopped(C[a], i)[j] = C[a][from(j)]
  <2> DEFINE w == C[a]
  <2>1. w \in Seq(cells) /\ Len(w) = n /\ i \in 1 .. Len(w)
    BY <1>2
  <2> HIDE DEF R2, C2, cells, w
  <2>2. /\ SwapPopped(w, i) \in Seq(cells) /\ Len(SwapPopped(w, i)) = Len(w) - 1
        /\ \A j \in 1 .. Len(w) - 1 : SwapPopped(w, i)[j] = w[SwapFrom(Len(w), i, j)]
    BY <2>1, SwapPoppedAs
  <2> QED
    BY <2>1, <2>2 DEF w
<1>5. /\ \A j \in 1 .. n - 1 : from(j) \in 1 .. n /\ from(j) # i
      /\ \A j, k \in 1 .. n - 1 : from(j) = from(k) => j = k
  <2>1. n \in Nat /\ i \in 1 .. n
    BY <1>2
  <2> HIDE DEF n
  <2> QED
    BY <2>1, SwapPlaces
<1> HIDE DEF from, n
<1>6. /\ DOMAIN R2 = DOMAIN R /\ R2[a] = SwapPopped(R[a], i) /\ \A b \in DOMAIN R : b # a => R2[b] = R[b]
      /\ DOMAIN C2 = DOMAIN C /\ C2[a] = SwapPopped(C[a], i) /\ \A b \in DOMAIN R : b # a => C2[b] = C[b]
      /\ R2 = [b \in DOMAIN R |-> R2[b]] /\ C2 = [b \in DOMAIN R |-> C2[b]]
  BY <1>2
<1> HIDE DEF R2, C2
<1>7. \A b \in DOMAIN R2 : \A j \in DOMAIN R2[b] :
        \E m \in DOMAIN R[b] : R2[b][j] = R[b][m] /\ C2[b][j] = C[b][m] /\ (b = a => m = from(j) /\ m # i) /\ (b # a => m = j)
  <2> SUFFICES ASSUME NEW b \in DOMAIN R2, NEW j \in DOMAIN R2[b]
               PROVE  \E m \in DOMAIN R[b] : /\ R2[b][j] = R[b][m] /\ C2[b][j] = C[b][m]
                                             /\ (b = a => m = from(j) /\ m # i) /\ (b # a => m = j)
    OBVIOUS
  <2>1. CASE b = a
    <3>1. j \in 1 .. n - 1
      BY <1>3, <1>6, <2>1
    <3>2. from(j) \in DOMAIN R[b] /\ from(j) # i /\ R2[b][j] = R[b][from(j)] /\ C2[b][j] = C[b][from(j)]
      BY <1>2, <1>3, <1>4, <1>5, <1>6, <2>1, <3>1
    <3> QED
      BY <2>1, <3>2
  <2>2. CASE b # a
    BY <1>6, <2>2
  <2> QED
    BY <2>1, <2>2
<1>8. StorageShape(A, R2, C2, S)
  <2>1. R2 \in [{A[k] : k \in DOMAIN A} -> Seq(Thing)]
    BY <1>2, <1>3, <1>6
  <2>2. ASSUME NEW b \in DOMAIN R2 PROVE C2[b] \in Seq([b \cap ColumnType -> Stamp]) /\ Len(C2[b]) = Len(R2[b])
    <3>1. CASE b = a
      BY <1>3, <1>4, <1>6, <3>1
    <3>2. CASE b # a
      BY <1>2, <1>6, <3>2
    <3> QED
      BY <3>1, <3>2
  <2>3. DOMAIN C2 = DOMAIN R2 /\ C2 = [b \in DOMAIN R2 |-> C2[b]]
    BY <1>2, <1>6
  <2> QED
    BY <1>1, <2>1, <2>2, <2>3 DEF StorageShape
<1>9. OnePlace(R2)
  <2> SUFFICES ASSUME NEW b \in DOMAIN R2, NEW d \in DOMAIN R2, NEW j \in DOMAIN R2[b], NEW k \in DOMAIN R2[d],
                      R2[b][j] = R2[d][k]
               PROVE  b = d /\ j = k
    BY DEF OnePlace
  <2>1. PICK m \in DOMAIN R[b] : R2[b][j] = R[b][m] /\ (b = a => m = from(j)) /\ (b # a => m = j)
    BY <1>7
  <2>2. PICK l \in DOMAIN R[d] : R2[d][k] = R[d][l] /\ (d = a => l = from(k)) /\ (d # a => l = k)
    BY <1>7
  <2>3. b = d /\ m = l
    <3>1. b \in DOMAIN R /\ d \in DOMAIN R /\ R[b][m] = R[d][l]
      BY <1>6, <2>1, <2>2
    <3> QED
      BY <1>1, <3>1 DEF OnePlace
  <2>4. CASE b = a
    BY <1>3, <1>5, <1>6, <2>1, <2>2, <2>3, <2>4
  <2> QED
    BY <2>1, <2>2, <2>3, <2>4
<1>10. AllRight(R2, C2, S, ins, lw, re, X)
  <2> SUFFICES ASSUME NEW b \in DOMAIN R2, NEW j \in DOMAIN R2[b], R2[b][j] \notin X
               PROVE  TicksRight(R2[b][j], b, C2[b][j], S, ins, lw, re)
    BY DEF AllRight
  <2>1. PICK m \in DOMAIN R[b] : R2[b][j] = R[b][m] /\ C2[b][j] = C[b][m]
    BY <1>7
  <2>2. TicksRight(R[b][m], b, C[b][m], S, ins, lw, re)
    BY <1>1, <1>6, <2>1 DEF AllRight
  <2> QED
    BY <2>1, <2>2
<1>11. Absent(R[a][i], R2)
  <2> SUFFICES ASSUME NEW b \in DOMAIN R2, NEW j \in DOMAIN R2[b], R2[b][j] = R[a][i] PROVE FALSE
    BY DEF Absent
  <2>1. PICK m \in DOMAIN R[b] : R2[b][j] = R[b][m] /\ (b = a => m # i)
    BY <1>7
  <2> QED
    <3>1. b \in DOMAIN R /\ a \in DOMAIN R /\ m \in DOMAIN R[b] /\ i \in DOMAIN R[a] /\ R[b][m] = R[a][i]
      BY <1>6, <2>1
    <3>2. OnePlace(R)
      BY <1>1
    <3>3. b = a /\ m = i
      <4> HIDE DEF R2, C2
      <4> QED
        BY <3>1, <3>2, SMTT(30) DEF OnePlace
    <3> QED
      BY <2>1, <3>3
<1>12. Evicted(StorageOf(A, R, C, S), R[a][i], a, i) = StorageOf(A, R2, C2, S)
  <2> DEFINE s == StorageOf(A, R, C, S)
  <2>1. s.rows = R /\ s.columnTicks = C
    BY StorageFields
  <2>2. Evicted(s, R[a][i], a, i) = [[s EXCEPT !.rows = R2] EXCEPT !.columnTicks = C2]
    <3> HIDE DEF s
    <3> QED
      BY <2>1, Zenon DEF Evicted, R2, C2
  <2>3. [s EXCEPT !.rows = R2] = StorageOf(A, R2, C, S)
    BY StorageFields
  <2>4. [StorageOf(A, R2, C, S) EXCEPT !.columnTicks = C2] = StorageOf(A, R2, C2, S)
    BY StorageFields
  <2> QED
    BY <2>2, <2>3, <2>4, Zenon
<1> QED
  BY <1>8, <1>9, <1>10, <1>11, <1>12 DEF StorageSound, R2, C2

(* findOrCreate: an archetype is there once, new ones are empty. *)
LEMMA ArchetypeSound ==
    ASSUME NEW A, NEW R, NEW C, NEW S, NEW ins, NEW lw, NEW re, NEW X,
           StorageSound(A, R, C, S, ins, lw, re, X), NEW a \in SUBSET Type
    PROVE  \E A2, R2, C2 :
               /\ Archetype(StorageOf(A, R, C, S), a) = StorageOf(A2, R2, C2, S)
               /\ StorageSound(A2, R2, C2, S, ins, lw, re, X)
               /\ a \in DOMAIN R2 /\ A2 \in {A, Append(A, a)}
               /\ \A b \in DOMAIN R : b \in DOMAIN R2 /\ R2[b] = R[b] /\ C2[b] = C[b]
               /\ \A e : Absent(e, R) => Absent(e, R2)
<1>1. StorageShape(A, R, C, S) /\ OnePlace(R) /\ AllRight(R, C, S, ins, lw, re, X)
  BY DEF StorageSound
<1>2. CASE a \in DOMAIN R
  <2>1. Archetype(StorageOf(A, R, C, S), a) = StorageOf(A, R, C, S)
    BY <1>2 DEF Archetype, StorageOf
  <2> QED
    BY <1>2, <2>1
<1>3. CASE a \notin DOMAIN R
  <2> DEFINE A2 == Append(A, a)
             R2 == Put(R, a, <<>>)
             C2 == Put(C, a, <<>>)
  <2>1. Archetype(StorageOf(A, R, C, S), a) = StorageOf(A2, R2, C2, S)
    BY <1>3 DEF Archetype, StorageOf
  <2>2. /\ A \in Seq(SUBSET Type) /\ \A i, j \in DOMAIN A : A[i] = A[j] => i = j
        /\ R \in [{A[i] : i \in DOMAIN A} -> Seq(Thing)]
        /\ DOMAIN C = DOMAIN R /\ C = [b \in DOMAIN R |-> C[b]]
        /\ \A b \in DOMAIN R : C[b] \in Seq([b \cap ColumnType -> Stamp]) /\ Len(C[b]) = Len(R[b])
    BY <1>1 DEF StorageShape
  <2>3. /\ A2 \in Seq(SUBSET Type) /\ DOMAIN A2 = 1 .. Len(A) + 1 /\ DOMAIN A = 1 .. Len(A) /\ Len(A) \in Nat
        /\ A2[Len(A) + 1] = a /\ \A i \in 1 .. Len(A) : A2[i] = A[i]
    BY <2>2
  <2>4. /\ DOMAIN R2 = DOMAIN R \cup {a} /\ R2[a] = <<>> /\ \A b \in DOMAIN R : R2[b] = R[b]
        /\ DOMAIN C2 = DOMAIN R \cup {a} /\ C2[a] = <<>> /\ \A b \in DOMAIN R : C2[b] = C[b]
        /\ R2 = [b \in DOMAIN R2 |-> R2[b]] /\ C2 = [b \in DOMAIN R2 |-> C2[b]]
    BY <1>3, <2>2 DEF Put
  <2> HIDE DEF A2, R2, C2
  <2>5. \A i \in DOMAIN A2 : (i \in DOMAIN A /\ A2[i] = A[i]) \/ (i = Len(A) + 1 /\ A2[i] = a)
    <3> TAKE i \in DOMAIN A2
    <3>1. i \in 1 .. Len(A) \/ i = Len(A) + 1
      BY <2>3
    <3> QED
      BY <2>3, <3>1
  <2>6. {A2[i] : i \in DOMAIN A2} = DOMAIN R2
    <3>1. DOMAIN R = {A[i] : i \in DOMAIN A}
      BY <2>2
    <3>2. Len(A) + 1 \in DOMAIN A2 /\ \A i \in DOMAIN A : i \in DOMAIN A2
      BY <2>3
    <3> QED
      BY <2>3, <2>4, <2>5, <3>1, <3>2
  <2>7. \A i, j \in DOMAIN A2 : A2[i] = A2[j] => i = j
    <3>1. \A i \in DOMAIN A : A[i] # a
      BY <1>3, <2>2
    <3> QED
      BY <2>2, <2>5, <3>1
  <2>8. R2 \in [{A2[i] : i \in DOMAIN A2} -> Seq(Thing)]
    <3>1. \A b \in DOMAIN R2 : R2[b] \in Seq(Thing)
      <4> TAKE b \in DOMAIN R2
      <4>1. CASE b = a
        BY <2>4, <4>1
      <4>2. CASE b # a
        BY <2>2, <2>4, <4>2
      <4> QED
        BY <4>1, <4>2
    <3> QED
      BY <2>4, <2>6, <3>1
  <2>9. ASSUME NEW b \in DOMAIN R2 PROVE C2[b] \in Seq([b \cap ColumnType -> Stamp]) /\ Len(C2[b]) = Len(R2[b])
    <3>1. CASE b = a
      BY <2>4, <3>1
    <3>2. CASE b # a
      BY <2>2, <2>4, <3>2
    <3> QED
      BY <3>1, <3>2
  <2>10. StorageShape(A2, R2, C2, S)
    BY <1>1, <2>3, <2>4, <2>7, <2>8, <2>9 DEF StorageShape
  <2>11. \A b \in DOMAIN R2 : \A j : j \in DOMAIN R2[b] => b \in DOMAIN R /\ R2[b] = R[b] /\ C2[b] = C[b]
    <3>1. DOMAIN <<>> = {}
      OBVIOUS
    <3> QED
      BY <2>4, <3>1
  <2>12. OnePlace(R2)
    BY <1>1, <2>11 DEF OnePlace
  <2>13. AllRight(R2, C2, S, ins, lw, re, X)
    BY <1>1, <2>11 DEF AllRight
  <2>14. \A e : Absent(e, R) => Absent(e, R2)
    BY <2>11 DEF Absent
  <2> QED
    BY <2>1, <2>4, <2>10, <2>12, <2>13, <2>14 DEF StorageSound, A2
<1> QED
  BY <1>2, <1>3

(* What is done to e alone leaves the others right. *)
LEMMA OthersRight ==
    ASSUME NEW A, NEW R, NEW C, NEW S, NEW ins, NEW lw, NEW re, NEW e,
           StorageSound(A, R, C, S, ins, lw, re, {e}),
           NEW S2, NEW ins2, NEW lw2, NEW re2,
           DOMAIN S2 = SetType, S2 = [c \in SetType |-> S2[c]], \A c \in SetType : S2[c] \in [DOMAIN S2[c] -> Stamp],
           AlikeBut(e, S, ins, lw, re, S2, ins2, lw2, re2)
    PROVE  StorageSound(A, R, C, S2, ins2, lw2, re2, {e})
<1>1. StorageShape(A, R, C, S) /\ OnePlace(R) /\ AllRight(R, C, S, ins, lw, re, {e})
  BY DEF StorageSound
<1>2. StorageShape(A, R, C, S2)
  BY <1>1 DEF StorageShape
<1>3. ASSUME NEW a \in DOMAIN R, NEW i \in DOMAIN R[a], R[a][i] \notin {e}
      PROVE  TicksRight(R[a][i], a, C[a][i], S2, ins2, lw2, re2)
  <2> DEFINE f == R[a][i]
  <2>1. R[a] \in Seq(Thing)
    BY <1>1 DEF StorageShape
  <2>2. f \in Thing \ {e}
    BY <1>3, <2>1
  <2>3. TicksRight(f, a, C[a][i], S, ins, lw, re)
    BY <1>1, <1>3 DEF AllRight
  <2> HIDE DEF f
  <2>4. TicksRight(f, a, C[a][i], S2, ins2, lw2, re2)
    BY <2>2, <2>3 DEF TicksRight, AlikeBut
  <2> QED
    BY <2>4 DEF f
<1>4. AllRight(R, C, S2, ins2, lw2, re2, {e})
  BY <1>3 DEF AllRight
<1> QED
  BY <1>1, <1>2, <1>4 DEF StorageSound

(* An entity that is nowhere gets a row. *)
LEMMA RowAdded ==
    ASSUME NEW A, NEW R, NEW C, NEW S, NEW ins, NEW lw, NEW re, NEW e \in Thing,
           StorageSound(A, R, C, S, ins, lw, re, {e}), Absent(e, R),
           NEW a \in DOMAIN R, NEW cell \in [a \cap ColumnType -> Stamp]
    PROVE  LET R2 == [R EXCEPT ![a] = Append(@, e)]
               C2 == [C EXCEPT ![a] = Append(@, cell)]
           IN  /\ StorageSound(A, R2, C2, S, ins, lw, re, {e})
               /\ Len(R2[a]) \in DOMAIN R2[a] /\ R2[a][Len(R2[a])] = e /\ C2[a][Len(R2[a])] = cell
               /\ DOMAIN R2 = DOMAIN R
<1> DEFINE R2 == [R EXCEPT ![a] = Append(@, e)]
           C2 == [C EXCEPT ![a] = Append(@, cell)]
           n == Len(R[a])
           cells == [a \cap ColumnType -> Stamp]
<1>1. StorageShape(A, R, C, S) /\ OnePlace(R) /\ AllRight(R, C, S, ins, lw, re, {e})
  BY DEF StorageSound
<1>2. /\ R \in [{A[k] : k \in DOMAIN A} -> Seq(Thing)] /\ R[a] \in Seq(Thing) /\ DOMAIN R[a] = 1 .. n /\ n \in Nat
      /\ C[a] \in Seq(cells) /\ Len(C[a]) = n /\ DOMAIN C = DOMAIN R /\ C = [b \in DOMAIN R |-> C[b]]
      /\ \A b \in DOMAIN R : C[b] \in Seq([b \cap ColumnType -> Stamp]) /\ Len(C[b]) = Len(R[b])
  <2>1. /\ R \in [{A[k] : k \in DOMAIN A} -> Seq(Thing)] /\ DOMAIN C = DOMAIN R /\ C = [b \in DOMAIN R |-> C[b]]
        /\ \A b \in DOMAIN R : C[b] \in Seq([b \cap ColumnType -> Stamp]) /\ Len(C[b]) = Len(R[b])
    BY <1>1 DEF StorageShape
  <2>2. R[a] \in Seq(Thing)
    BY <2>1
  <2>3. DOMAIN R[a] = 1 .. n /\ n \in Nat
    BY <2>2
  <2>4. C[a] \in Seq(cells) /\ Len(C[a]) = n
    BY <2>1
  <2> QED
    BY <2>1, <2>2, <2>3, <2>4
<1>3. /\ Append(R[a], e) \in Seq(Thing) /\ Len(Append(R[a], e)) = n + 1 /\ DOMAIN Append(R[a], e) = 1 .. n + 1
      /\ Append(R[a], e)[n + 1] = e /\ \A j \in 1 .. n : Append(R[a], e)[j] = R[a][j]
  BY <1>2
<1>4. /\ Append(C[a], cell) \in Seq(cells) /\ Len(Append(C[a], cell)) = n + 1
      /\ Append(C[a], cell)[n + 1] = cell /\ \A j \in 1 .. n : Append(C[a], cell)[j] = C[a][j]
  <2> HIDE DEF cells
  <2>1. cell \in cells
    BY DEF cells
  <2> QED
    BY <1>2, <2>1
<1> HIDE DEF n
<1>5. /\ DOMAIN R2 = DOMAIN R /\ R2[a] = Append(R[a], e) /\ \A b \in DOMAIN R : b # a => R2[b] = R[b]
      /\ DOMAIN C2 = DOMAIN C /\ C2[a] = Append(C[a], cell) /\ \A b \in DOMAIN R : b # a => C2[b] = C[b]
      /\ R2 = [b \in DOMAIN R |-> R2[b]] /\ C2 = [b \in DOMAIN R |-> C2[b]]
  BY <1>2
<1> HIDE DEF R2, C2
<1>6. \A b \in DOMAIN R2 : \A j \in DOMAIN R2[b] :
        \/ j \in DOMAIN R[b] /\ R2[b][j] = R[b][j] /\ C2[b][j] = C[b][j]
        \/ b = a /\ j = n + 1 /\ R2[b][j] = e
  <2> SUFFICES ASSUME NEW b \in DOMAIN R2, NEW j \in DOMAIN R2[b]
               PROVE  \/ j \in DOMAIN R[b] /\ R2[b][j] = R[b][j] /\ C2[b][j] = C[b][j]
                      \/ b = a /\ j = n + 1 /\ R2[b][j] = e
    OBVIOUS
  <2>1. CASE b = a
    <3>1. j \in 1 .. n \/ j = n + 1
      BY <1>2, <1>3, <1>5, <2>1
    <3> QED
      BY <1>2, <1>3, <1>4, <1>5, <2>1, <3>1
  <2>2. CASE b # a
    BY <1>5, <2>2
  <2> QED
    BY <2>1, <2>2
<1>7. StorageShape(A, R2, C2, S)
  <2>1. R2 \in [{A[k] : k \in DOMAIN A} -> Seq(Thing)]
    BY <1>2, <1>3, <1>5
  <2>2. ASSUME NEW b \in DOMAIN R2 PROVE C2[b] \in Seq([b \cap ColumnType -> Stamp]) /\ Len(C2[b]) = Len(R2[b])
    <3>1. CASE b = a
      BY <1>3, <1>4, <1>5, <3>1
    <3>2. CASE b # a
      BY <1>2, <1>5, <3>2
    <3> QED
      BY <3>1, <3>2
  <2>3. DOMAIN C2 = DOMAIN R2 /\ C2 = [b \in DOMAIN R2 |-> C2[b]]
    BY <1>2, <1>5
  <2> QED
    BY <1>1, <2>1, <2>2, <2>3 DEF StorageShape
<1>8. OnePlace(R2)
  BY <1>1, <1>5, <1>6 DEF OnePlace, Absent
<1>9. AllRight(R2, C2, S, ins, lw, re, {e})
  BY <1>1, <1>5, <1>6 DEF AllRight
<1>10. Len(R2[a]) = n + 1 /\ n + 1 \in DOMAIN R2[a]
  BY <1>2, <1>3, <1>5
<1> QED
  BY <1>3, <1>4, <1>5, <1>7, <1>8, <1>9, <1>10 DEF StorageSound, R2, C2

(* With e right as well, all are. *)
LEMMA AllRightAgain ==
    ASSUME NEW A, NEW R, NEW C, NEW S, NEW ins, NEW lw, NEW re, NEW e,
           StorageSound(A, R, C, S, ins, lw, re, {e}),
           NEW a \in DOMAIN R, NEW i \in DOMAIN R[a], R[a][i] = e, TicksRight(e, a, C[a][i], S, ins, lw, re)
    PROVE  StorageSound(A, R, C, S, ins, lw, re, {})
<1>1. ASSUME NEW b \in DOMAIN R, NEW j \in DOMAIN R[b] PROVE TicksRight(R[b][j], b, C[b][j], S, ins, lw, re)
  <2>1. CASE R[b][j] = e
    <3>1. b = a /\ j = i
      BY <2>1 DEF StorageSound, OnePlace
    <3> QED
      BY <2>1, <3>1
  <2>2. CASE R[b][j] # e
    BY <2>2 DEF StorageSound, AllRight
  <2> QED
    BY <2>1, <2>2
<1> QED
  BY <1>1 DEF StorageSound, AllRight

(* The sparse ticks when e is stamped as added for the types cs. *)
StampedSets(S, e, cs) == [c \in SetType |-> IF c \in cs THEN Put(S[c], e, StampNow) ELSE S[c]]

LEMMA StampedSetsRight ==
    ASSUME NEW S, NEW e \in Thing, NEW cs, NEW ins, NEW lw, NEW re, tick \in Nat,
           \A c \in SetType : S[c] \in [DOMAIN S[c] -> Stamp]
    PROVE  LET S2 == StampedSets(S, e, cs) IN
           /\ DOMAIN S2 = SetType /\ S2 = [c \in SetType |-> S2[c]]
           /\ \A c \in SetType : S2[c] \in [DOMAIN S2[c] -> Stamp]
           /\ AlikeBut(e, S, ins, lw, re, S2, ins, lw, re)
<1> DEFINE S2 == StampedSets(S, e, cs)
<1>1. DOMAIN S2 = SetType /\ S2 = [c \in SetType |-> S2[c]]
      /\ \A c \in SetType : S2[c] = IF c \in cs THEN Put(S[c], e, StampNow) ELSE S[c]
  BY DEF StampedSets
<1> HIDE DEF S2
<1>2. StampNow \in Stamp
  BY DEF StampNow, Stamp
<1>3. ASSUME NEW c \in SetType
      PROVE  /\ S2[c] \in [DOMAIN S2[c] -> Stamp]
             /\ \A f \in Thing \ {e} : f \in DOMAIN S[c] => f \in DOMAIN S2[c] /\ S2[c][f] = S[c][f]
  <2>1. CASE c \in cs
    <3>1. S2[c] = [y \in DOMAIN S[c] \cup {e} |-> IF y = e THEN StampNow ELSE S[c][y]]
      BY <1>1, <2>1 DEF Put
    <3>2. \A y \in DOMAIN S[c] : S[c][y] \in Stamp
      OBVIOUS
    <3> QED
      BY <1>2, <3>1, <3>2
  <2>2. CASE c \notin cs
    BY <1>1, <2>2
  <2> QED
    BY <2>1, <2>2
<1>4. AlikeBut(e, S, ins, lw, re, S2, ins, lw, re)
  BY <1>3 DEF AlikeBut
<1> QED
  BY <1>1, <1>3, <1>4 DEF S2

(* A row's ticks are those carried to it, and new ones for the rest. *)
Completes(cell, carry, a) == cell = [c \in a \cap ColumnType |-> IF c \in DOMAIN carry THEN carry[c] ELSE StampNow]

(* A storage with e in a, at the end. *)
HoldsLast(s, A, S, ins, lw, re, e, a, carry) ==
    \E R, C : /\ s = StorageOf(A, R, C, S) /\ StorageSound(A, R, C, S, ins, lw, re, {e})
              /\ PlacedAt(R, e, a, Len(R[a])) /\ Completes(C[a][Len(R[a])], carry, a)

(* addEntityToArchetype: the others keep their ticks. *)
LEMMA AddedSound ==
    ASSUME NEW A, NEW R, NEW C, NEW S, NEW ins, NEW lw, NEW re, NEW e \in Thing, tick \in Nat,
           StorageSound(A, R, C, S, ins, lw, re, {e}), Absent(e, R),
           NEW a \in DOMAIN R, NEW supplied, NEW carry, \A c \in DOMAIN carry : carry[c] \in Stamp
    PROVE  HoldsLast(Added(StorageOf(A, R, C, S), a, e, supplied, carry), A, StampedSets(S, e, a \cap supplied),
                 ins, lw, re, e, a, carry)
<1> DEFINE S2 == StampedSets(S, e, a \cap supplied)
           cell == [c \in a \cap ColumnType |-> IF c \in DOMAIN carry THEN carry[c] ELSE StampNow]
           R2 == [R EXCEPT ![a] = Append(@, e)]
           C2 == [C EXCEPT ![a] = Append(@, cell)]
           s == StorageOf(A, R, C, S)
<1>1. \A c \in SetType : S[c] \in [DOMAIN S[c] -> Stamp]
  BY DEF StorageSound, StorageShape
<1>2. /\ DOMAIN S2 = SetType /\ S2 = [c \in SetType |-> S2[c]]
      /\ \A c \in SetType : S2[c] \in [DOMAIN S2[c] -> Stamp]
      /\ AlikeBut(e, S, ins, lw, re, S2, ins, lw, re)
  <2> HIDE DEF cell, R2, C2, s
  <2> QED
    BY <1>1, StampedSetsRight
<1>3. StorageSound(A, R, C, S2, ins, lw, re, {e})
  <2> HIDE DEF cell, R2, C2, s, S2
  <2> QED
    BY <1>2, OthersRight
<1>4. cell \in [a \cap ColumnType -> Stamp]
  <2>1. StampNow \in Stamp
    BY DEF StampNow, Stamp
  <2> QED
    BY <2>1
<1>5. /\ StorageSound(A, R2, C2, S2, ins, lw, re, {e})
      /\ Len(R2[a]) \in DOMAIN R2[a] /\ R2[a][Len(R2[a])] = e /\ C2[a][Len(R2[a])] = cell
      /\ DOMAIN R2 = DOMAIN R
  <2> HIDE DEF cell, S2, s
  <2> QED
    BY <1>3, <1>4, RowAdded, ZenonT(60)
<1>6. Added(s, a, e, supplied, carry) = StorageOf(A, R2, C2, S2)
  <2>1. s.rows = R /\ s.columnTicks = C /\ s.setTicks = S
    BY StorageFields
  <2>2. Added(s, a, e, supplied, carry) = [[[s EXCEPT !.setTicks = S2] EXCEPT !.rows = R2] EXCEPT !.columnTicks = C2]
    <3> HIDE DEF s
    <3> QED
      BY <2>1, Zenon DEF Added, R2, C2, S2, cell, StampedSets
  <2> HIDE DEF R2, C2, S2, cell
  <2>3. [s EXCEPT !.setTicks = S2] = StorageOf(A, R, C, S2)
    BY StorageFields
  <2>4. [StorageOf(A, R, C, S2) EXCEPT !.rows = R2] = StorageOf(A, R2, C, S2)
    BY StorageFields
  <2>5. [StorageOf(A, R2, C, S2) EXCEPT !.columnTicks = C2] = StorageOf(A, R2, C2, S2)
    BY StorageFields
  <2> QED
    BY <2>2, <2>3, <2>4, <2>5, Zenon
<1> HIDE DEF R2, C2, S2, s, cell
<1>7. PlacedAt(R2, e, a, Len(R2[a])) /\ Completes(C2[a][Len(R2[a])], carry, a)
  BY <1>5 DEF PlacedAt, Completes, cell
<1>8. HoldsLast(Added(s, a, e, supplied, carry), A, S2, ins, lw, re, e, a, carry)
  BY <1>5, <1>6, <1>7 DEF HoldsLast
<1> QED
  BY <1>8 DEF s, S2

(* A storage where, of e's ticks in row i of a, those of types are changed *)
(* now.                                                                    *)
Written(s, A, R, C, S, ins, lw, re, e, a, i, types) ==
    \E C2, S2 :
        /\ s = StorageOf(A, R, C2, S2) /\ StorageSound(A, R, C2, S2, ins, lw, re, {e})
        /\ \A c \in a \cap ColumnType :
             /\ C2[a][i][c].added = C[a][i][c].added
             /\ C2[a][i][c].changed = IF c \in types THEN tick ELSE C[a][i][c].changed
        /\ \A c \in SetType : e \in DOMAIN S[c] =>
             /\ e \in DOMAIN S2[c] /\ S2[c][e].added = S[c][e].added
             /\ S2[c][e].changed = IF c \in types THEN tick ELSE S[c][e].changed

(* StampChanged *)
LEMMA StampedSound ==
    ASSUME NEW A, NEW R, NEW C, NEW S, NEW ins, NEW lw, NEW re, NEW e \in Thing, tick \in Nat,
           StorageSound(A, R, C, S, ins, lw, re, {e}),
           NEW a \in DOMAIN R, NEW i \in DOMAIN R[a], R[a][i] = e,
           NEW types, \A c \in types \cap SetType : e \in DOMAIN S[c]
    PROVE  Written(Stamped(StorageOf(A, R, C, S), e, a, i, types), A, R, C, S, ins, lw, re, e, a, i, types)
<1> DEFINE s == StorageOf(A, R, C, S)
           old == C[a][i]
           cell == [c \in DOMAIN old |-> IF c \in types THEN [old[c] EXCEPT !.changed = tick] ELSE old[c]]
           C2 == [C EXCEPT ![a] = [C[a] EXCEPT ![i] = cell]]
           S2 == [c \in SetType |-> IF c \in types THEN [S[c] EXCEPT ![e].changed = tick] ELSE S[c]]
           cells == [a \cap ColumnType -> Stamp]
<1>1. StorageShape(A, R, C, S) /\ OnePlace(R) /\ AllRight(R, C, S, ins, lw, re, {e})
  BY DEF StorageSound
<1>2. /\ R \in [{A[k] : k \in DOMAIN A} -> Seq(Thing)] /\ DOMAIN C = DOMAIN R /\ C = [b \in DOMAIN R |-> C[b]]
      /\ \A b \in DOMAIN R : C[b] \in Seq([b \cap ColumnType -> Stamp]) /\ Len(C[b]) = Len(R[b])
      /\ \A c \in SetType : S[c] \in [DOMAIN S[c] -> Stamp]
  BY <1>1 DEF StorageShape
<1>3. C[a] \in Seq(cells) /\ DOMAIN R[a] = 1 .. Len(R[a]) /\ Len(C[a]) = Len(R[a])
  <2>1. R[a] \in Seq(Thing)
    BY <1>2
  <2>2. DOMAIN R[a] = 1 .. Len(R[a])
    BY <2>1
  <2>3. C[a] \in Seq([a \cap ColumnType -> Stamp]) /\ Len(C[a]) = Len(R[a])
    <3> HIDE DEF s, old, cell, C2, S2, cells
    <3> QED
      BY <1>2
  <2> QED
    BY <2>2, <2>3
<1>4. i \in 1 .. Len(C[a])
  BY <1>3
<1>5. old \in cells
  <2> HIDE DEF cells
  <2> QED
    BY <1>3, <1>4
<1>6. \A r \in Stamp : LET q == [r EXCEPT !.changed = tick] IN q \in Stamp /\ q.added = r.added /\ q.changed = tick
  BY DEF Stamp
<1>7. /\ cell \in cells
      /\ \A c \in a \cap ColumnType : /\ cell[c].added = old[c].added
                                     /\ cell[c].changed = IF c \in types THEN tick ELSE old[c].changed
  <2> HIDE DEF old
  <2> QED
    BY <1>5, <1>6
<1> HIDE DEF cell
<1>8. /\ [C[a] EXCEPT ![i] = cell] \in Seq(cells) /\ Len([C[a] EXCEPT ![i] = cell]) = Len(C[a])
      /\ [C[a] EXCEPT ![i] = cell][i] = cell /\ \A j \in DOMAIN R[a] : j # i => [C[a] EXCEPT ![i] = cell][j] = C[a][j]
  <2> HIDE DEF cells
  <2> QED
    BY <1>3, <1>4, <1>7
<1>9. /\ DOMAIN C2 = DOMAIN R /\ C2 = [b \in DOMAIN R |-> C2[b]] /\ C2[a] = [C[a] EXCEPT ![i] = cell]
      /\ \A b \in DOMAIN R : b # a => C2[b] = C[b]
  BY <1>2
<1>10. ASSUME NEW c \in SetType
       PROVE  /\ S2[c] \in [DOMAIN S2[c] -> Stamp]
              /\ \A f \in Thing \ {e} : f \in DOMAIN S[c] => f \in DOMAIN S2[c] /\ S2[c][f] = S[c][f]
              /\ e \in DOMAIN S[c] => /\ e \in DOMAIN S2[c] /\ S2[c][e].added = S[c][e].added
                                      /\ S2[c][e].changed = IF c \in types THEN tick ELSE S[c][e].changed
  <2>1. S[c] \in [DOMAIN S[c] -> Stamp]
    BY <1>2
  <2>2. CASE c \in types
    <3>1. e \in DOMAIN S[c]
      BY <2>2
    <3>2. S2[c] = [S[c] EXCEPT ![e] = [S[c][e] EXCEPT !.changed = tick]]
      BY <2>2
    <3>3. S[c][e] \in Stamp
      BY <2>1, <3>1
    <3> HIDE DEF S2
    <3>4. DOMAIN S2[c] = DOMAIN S[c] /\ S2[c][e] = [S[c][e] EXCEPT !.changed = tick]
          /\ \A f \in DOMAIN S[c] : f # e => S2[c][f] = S[c][f]
      BY <3>1, <3>2
    <3>5. S2[c] \in [DOMAIN S2[c] -> Stamp]
      BY <1>6, <2>1, <3>2, <3>3
    <3> QED
      BY <1>6, <2>2, <3>3, <3>4, <3>5
  <2>3. CASE c \notin types
    BY <2>1, <2>3
  <2> QED
    BY <2>2, <2>3
<1>11. DOMAIN S2 = SetType /\ S2 = [c \in SetType |-> S2[c]]
  OBVIOUS
<1> HIDE DEF C2, S2
<1>12. StorageShape(A, R, C2, S)
  <2>1. ASSUME NEW b \in DOMAIN R PROVE C2[b] \in Seq([b \cap ColumnType -> Stamp]) /\ Len(C2[b]) = Len(R[b])
    <3>1. CASE b = a
      BY <1>3, <1>8, <1>9, <3>1
    <3>2. CASE b # a
      BY <1>2, <1>9, <3>2
    <3> QED
      BY <3>1, <3>2
  <2> QED
    BY <1>1, <1>9, <2>1 DEF StorageShape
<1>13. AllRight(R, C2, S, ins, lw, re, {e})
  <2> SUFFICES ASSUME NEW b \in DOMAIN R, NEW j \in DOMAIN R[b], R[b][j] # e
               PROVE  TicksRight(R[b][j], b, C2[b][j], S, ins, lw, re)
    BY DEF AllRight
  <2>1. C2[b][j] = C[b][j]
    BY <1>8, <1>9
  <2> QED
    BY <1>1, <2>1 DEF AllRight
<1>14. StorageSound(A, R, C2, S, ins, lw, re, {e})
  BY <1>1, <1>12, <1>13 DEF StorageSound
<1>15. AlikeBut(e, S, ins, lw, re, S2, ins, lw, re)
  BY <1>10 DEF AlikeBut
<1>16. StorageSound(A, R, C2, S2, ins, lw, re, {e})
  BY <1>10, <1>11, <1>14, <1>15, OthersRight
<1>17. Stamped(s, e, a, i, types) = StorageOf(A, R, C2, S2)
  <2>1. s.columnTicks = C /\ s.setTicks = S
    BY StorageFields
  <2>2. Stamped(s, e, a, i, types) = [[s EXCEPT !.columnTicks = C2] EXCEPT !.setTicks = S2]
    <3> HIDE DEF s
    <3> QED
      BY <2>1, Zenon DEF Stamped, C2, S2, cell
  <2>3. [s EXCEPT !.columnTicks = C2] = StorageOf(A, R, C2, S)
    BY StorageFields
  <2>4. [StorageOf(A, R, C2, S) EXCEPT !.setTicks = S2] = StorageOf(A, R, C2, S2)
    BY StorageFields
  <2> QED
    BY <2>2, <2>3, <2>4, Zenon
<1>18. \A c \in a \cap ColumnType :
         /\ C2[a][i][c].added = C[a][i][c].added
         /\ C2[a][i][c].changed = IF c \in types THEN tick ELSE C[a][i][c].changed
  BY <1>7, <1>8, <1>9
<1>19. \A c \in SetType : e \in DOMAIN S[c] =>
         /\ e \in DOMAIN S2[c] /\ S2[c][e].added = S[c][e].added
         /\ S2[c][e].changed = IF c \in types THEN tick ELSE S[c][e].changed
  BY <1>10
<1> HIDE DEF s
<1>20. Written(Stamped(s, e, a, i, types), A, R, C, S, ins, lw, re, e, a, i, types)
  BY <1>16, <1>17, <1>18, <1>19 DEF Written
<1> QED
  BY <1>20 DEF s

(* A migration, from row i of archetype b to archetype a: e is where it    *)
(* should be, with the ticks it had or new ones.                           *)
Carried(C, b, i, a) == [c \in b \cap a \cap ColumnType |-> C[b][i][c]]

Carries(carry, C, b, i, a) ==
    /\ DOMAIN carry = b \cap a \cap ColumnType
    /\ \A c \in DOMAIN carry : carry[c] \in Stamp /\ carry[c] = C[b][i][c]

LEMMA CarriedStamps ==
    ASSUME NEW A, NEW R, NEW C, NEW S, StorageShape(A, R, C, S), NEW e, NEW b, NEW i, PlacedAt(R, e, b, i), NEW a
    PROVE  Carries(Carried(C, b, i, a), C, b, i, a)
<1> DEFINE cells == [b \cap ColumnType -> Stamp]
<1>1. C[b] \in Seq(cells) /\ Len(C[b]) = Len(R[b]) /\ R[b] \in Seq(Thing)
  BY DEF StorageShape, PlacedAt
<1>2. i \in 1 .. Len(C[b])
  BY <1>1 DEF PlacedAt
<1>3. C[b][i] \in cells
  <2> HIDE DEF cells
  <2> QED
    BY <1>1, <1>2
<1> QED
  BY <1>3 DEF Carried, Carries

MovedTo(s, A, C, S, ins, lw, re, e, b, i, a) ==
    \E A2, R2, C2 :
        /\ s = StorageOf(A2, R2, C2, S) /\ StorageSound(A2, R2, C2, S, ins, lw, re, {e})
        /\ A2 \in {A, Append(A, a)} /\ PlacedAt(R2, e, a, Len(R2[a]))
        /\ \A c \in a \cap ColumnType : C2[a][Len(R2[a])][c] = IF c \in b THEN C[b][i][c] ELSE StampNow

LEMMA MovedSound ==
    ASSUME NEW A, NEW R, NEW C, NEW S, NEW ins, NEW lw, NEW re, NEW e \in Thing, tick \in Nat,
           StorageSound(A, R, C, S, ins, lw, re, {e}), NEW b, NEW i, PlacedAt(R, e, b, i),
           NEW a \in SUBSET Type, NEW supplied
    PROVE  MovedTo(Added(Evicted(Archetype(StorageOf(A, R, C, S), a), e, b, i), a, e, supplied, Carried(C, b, i, a)),
                   A, C, StampedSets(S, e, a \cap supplied), ins, lw, re, e, b, i, a)
<1> DEFINE s == StorageOf(A, R, C, S)
           carry == Carried(C, b, i, a)
           S2 == StampedSets(S, e, a \cap supplied)
<1>1. PICK A1, R1, C1 :
          /\ Archetype(StorageOf(A, R, C, S), a) = StorageOf(A1, R1, C1, S)
          /\ StorageSound(A1, R1, C1, S, ins, lw, re, {e})
          /\ a \in DOMAIN R1 /\ A1 \in {A, Append(A, a)}
          /\ \A d \in DOMAIN R : d \in DOMAIN R1 /\ R1[d] = R[d] /\ C1[d] = C[d]
  <2> HIDE DEF s, carry, S2
  <2> QED
    BY ArchetypeSound
<1>2. b \in DOMAIN R1 /\ i \in DOMAIN R1[b] /\ R1[b][i] = e
  BY <1>1 DEF PlacedAt
<1>3. PICK R2, C2 :
          /\ Evicted(StorageOf(A1, R1, C1, S), e, b, i) = StorageOf(A1, R2, C2, S)
          /\ StorageSound(A1, R2, C2, S, ins, lw, re, {e}) /\ Absent(e, R2) /\ DOMAIN R2 = DOMAIN R1
  <2>1. DOMAIN [R1 EXCEPT ![b] = SwapPopped(@, i)] = DOMAIN R1
    OBVIOUS
  <2> QED
    BY <1>1, <1>2, <2>1, EvictedSound
<1>4. DOMAIN carry = b \cap a \cap ColumnType /\ \A c \in DOMAIN carry : carry[c] \in Stamp /\ carry[c] = C[b][i][c]
  <2> HIDE DEF s, S2, carry
  <2>1. StorageShape(A, R, C, S)
    BY DEF StorageSound
  <2>2. Carries(Carried(C, b, i, a), C, b, i, a)
    BY <2>1, CarriedStamps
  <2> QED
    BY <2>2 DEF carry, Carries
<1> HIDE DEF carry, S2, s
<1>5. PICK R3, C3 :
          /\ Added(StorageOf(A1, R2, C2, S), a, e, supplied, carry) = StorageOf(A1, R3, C3, S2)
          /\ StorageSound(A1, R3, C3, S2, ins, lw, re, {e})
          /\ PlacedAt(R3, e, a, Len(R3[a])) /\ Completes(C3[a][Len(R3[a])], carry, a)
  <2>1. a \in DOMAIN R2
    BY <1>1, <1>3
  <2>2. \A c \in DOMAIN carry : carry[c] \in Stamp
    BY <1>4
  <2>3. StorageSound(A1, R2, C2, S, ins, lw, re, {e}) /\ Absent(e, R2)
    BY <1>3
  <2>4. HoldsLast(Added(StorageOf(A1, R2, C2, S), a, e, supplied, carry), A1, S2, ins, lw, re, e, a, carry)
    BY <2>1, <2>2, <2>3, AddedSound DEF S2
  <2> QED
    BY <2>4 DEF HoldsLast
<1>6. \A c \in a \cap ColumnType : C3[a][Len(R3[a])][c] = IF c \in b THEN C[b][i][c] ELSE StampNow
  BY <1>4, <1>5 DEF Completes
<1>7. Added(Evicted(Archetype(s, a), e, b, i), a, e, supplied, carry) = StorageOf(A1, R3, C3, S2)
  BY <1>1, <1>3, <1>5 DEF s
<1>8. MovedTo(Added(Evicted(Archetype(s, a), e, b, i), a, e, supplied, carry), A, C, S2, ins, lw, re, e, b, i, a)
  BY <1>1, <1>5, <1>6, <1>7 DEF MovedTo
<1> QED
  BY <1>8 DEF s, S2, carry

LEMMA MigratedIs ==
    ASSUME NEW A, NEW R, NEW C, NEW S, NEW e, NEW a, NEW supplied
    PROVE  Migrated(StorageOf(A, R, C, S), e, a, supplied)
             = Added(Evicted(Archetype(StorageOf(A, R, C, S), a), e, Home(e), RowOf(e)), a, e, supplied,
                     Carried(C, Home(e), RowOf(e), a))
<1> DEFINE s == StorageOf(A, R, C, S)
<1>1. s.columnTicks = C
  BY StorageFields
<1> HIDE DEF s
<1>2. Migrated(s, e, a, supplied)
        = Added(Evicted(Archetype(s, a), e, Home(e), RowOf(e)), a, e, supplied, Carried(C, Home(e), RowOf(e), a))
  BY <1>1, Zenon DEF Migrated, Carried
<1> QED
  BY <1>2 DEF s

-----------------------------------------------------------------------------
(* The calls.  A call keeps the storage sound and creates an archetype at  *)
(* most.                                                                   *)
Grows(A, A2) == A2 = A \/ \E a \in SUBSET Type : A2 = Append(A, a)

KeptSound(s, A, ins, lw, re) ==
    \E A2, R, C, S : s = StorageOf(A2, R, C, S) /\ StorageSound(A2, R, C, S, ins, lw, re, {}) /\ Grows(A, A2)

(* What the calls make of what is known of e's ticks. *)
InsertedTo(f, e, from, to) == [f EXCEPT ![e] = [c \in to |-> IF c \in from THEN @[c] ELSE tick]]
WrittenTo(f, e, types, to) == [f EXCEPT ![e] = [c \in to |-> IF c \in types THEN tick ELSE @[c]]]
Restamps(re, e, types, from) == re \cup ({e} \X (types \cap from \cap SetType))
WithoutType(f, e, x) == [f EXCEPT ![e] = Drop(@, x)]
SetsWithout(S, e, x) == [d \in SetType |-> IF d = x THEN Drop(S[d], e) ELSE S[d]]
WithoutAny(f, e) == [f EXCEPT ![e] = << >>]
NoneOf(re, e) == {p \in re : p[1] # e}
Dead(s, e, a, i) == [Evicted(s, e, a, i) EXCEPT !.setTicks = [c \in SetType |-> Drop(@[c], e)]]
ChangedTo(s, e, to, from, types) == Stamped(s, e, to, Len(s.rows[to]), types \cap from \cap ColumnType)

LEMMA Weaker ==
    ASSUME NEW A, NEW R, NEW C, NEW S, NEW ins, NEW lw, NEW re, NEW e,
           StorageSound(A, R, C, S, ins, lw, re, {})
    PROVE  StorageSound(A, R, C, S, ins, lw, re, {e})
BY DEF StorageSound, AllRight

LEMMA NowhereElse ==
    ASSUME NEW A, NEW R, NEW C, NEW S, NEW ins, NEW lw, NEW re, NEW e,
           StorageSound(A, R, C, S, ins, lw, re, {e}), Absent(e, R)
    PROVE  StorageSound(A, R, C, S, ins, lw, re, {})
BY DEF StorageSound, AllRight, Absent

(* What was done to e changed nobody else, and left e right. *)
LEMMA DoneTo ==
    ASSUME NEW A, NEW R, NEW C, NEW S, NEW ins, NEW lw, NEW re, NEW e, NEW a, NEW i,
           NEW ins2, NEW lw2, NEW re2,
           StorageSound(A, R, C, S, ins, lw, re, {e}), AlikeBut(e, S, ins, lw, re, S, ins2, lw2, re2),
           PlacedAt(R, e, a, i), TicksRight(e, a, C[a][i], S, ins2, lw2, re2)
    PROVE  StorageSound(A, R, C, S, ins2, lw2, re2, {})
<1>1. DOMAIN S = SetType /\ S = [c \in SetType |-> S[c]] /\ \A c \in SetType : S[c] \in [DOMAIN S[c] -> Stamp]
  BY DEF StorageSound, StorageShape
<1>2. StorageSound(A, R, C, S, ins2, lw2, re2, {e})
  BY <1>1, OthersRight
<1>3. a \in DOMAIN R /\ i \in DOMAIN R[a] /\ R[a][i] = e
  BY DEF PlacedAt
<1> QED
  BY <1>2, <1>3, AllRightAgain

LEMMA StampedSetsAre ==
    ASSUME NEW S, NEW e, NEW cs, NEW c \in SetType
    PROVE  /\ c \in cs => e \in DOMAIN StampedSets(S, e, cs)[c] /\ StampedSets(S, e, cs)[c][e] = StampNow
           /\ c \notin cs => StampedSets(S, e, cs)[c] = S[c]
BY DEF StampedSets, Put

LEMMA RightAtHome ==
    ASSUME NEW A, NEW R, NEW C, NEW S, NEW ins, NEW lw, NEW re, NEW e, NEW a, NEW i,
           StorageSound(A, R, C, S, ins, lw, re, {}), PlacedAt(R, e, a, i)
    PROVE  TicksRight(e, a, C[a][i], S, ins, lw, re) /\ a \in SUBSET Type /\ e \in Thing
<1>1. a \in DOMAIN R /\ i \in DOMAIN R[a] /\ R[a][i] = e
  BY DEF PlacedAt
<1>2. TicksRight(R[a][i], a, C[a][i], S, ins, lw, re)
  BY <1>1 DEF StorageSound, AllRight
<1>3. A \in Seq(SUBSET Type) /\ R \in [{A[k] : k \in DOMAIN A} -> Seq(Thing)]
  BY DEF StorageSound, StorageShape
<1>4. a \in SUBSET Type
  <2>1. PICK k \in DOMAIN A : a = A[k]
    BY <1>1, <1>3
  <2> QED
    BY <1>3, <2>1
<1>5. e \in Thing
  BY <1>1, <1>3
<1> QED
  BY <1>1, <1>2, <1>4, <1>5

LEMMA StampNowIs == ASSUME tick \in Nat PROVE StampNow \in Stamp /\ StampNow.added = tick /\ StampNow.changed = tick
BY DEF StampNow, Stamp

LEMMA SpawnKeeps ==
    ASSUME NEW A, NEW R, NEW C, NEW S, NEW ins, NEW lw, NEW re, NEW e \in Thing, tick \in Nat,
           StorageSound(A, R, C, S, ins, lw, re, {}), e \notin DOMAIN ins, NEW types \in SUBSET Type
    PROVE  KeptSound(Added(Archetype(StorageOf(A, R, C, S), types), types, e, types, << >>), A,
                Put(ins, e, [c \in types |-> tick]), Put(lw, e, [c \in types |-> tick]), re)
<1> DEFINE s == StorageOf(A, R, C, S)
           ins2 == Put(ins, e, [c \in types |-> tick])
           lw2 == Put(lw, e, [c \in types |-> tick])
           S2 == StampedSets(S, e, types \cap types)
<1>1. Absent(e, R)
  <2>1. ASSUME NEW b \in DOMAIN R, NEW i \in DOMAIN R[b], R[b][i] = e PROVE FALSE
    BY <2>1 DEF StorageSound, AllRight, TicksRight
  <2> QED
    BY <2>1 DEF Absent
<1>2. StorageSound(A, R, C, S, ins, lw, re, {e})
  BY Weaker
<1>3. PICK A1, R1, C1 :
          /\ Archetype(StorageOf(A, R, C, S), types) = StorageOf(A1, R1, C1, S)
          /\ StorageSound(A1, R1, C1, S, ins, lw, re, {e})
          /\ types \in DOMAIN R1 /\ A1 \in {A, Append(A, types)} /\ Absent(e, R1)
  <2> HIDE DEF s, ins2, lw2, S2
  <2>1. \E A1, R1, C1 :
          /\ Archetype(StorageOf(A, R, C, S), types) = StorageOf(A1, R1, C1, S)
          /\ StorageSound(A1, R1, C1, S, ins, lw, re, {e})
          /\ types \in DOMAIN R1 /\ A1 \in {A, Append(A, types)}
          /\ \A b \in DOMAIN R : b \in DOMAIN R1 /\ R1[b] = R[b] /\ C1[b] = C[b]
          /\ \A d : Absent(d, R) => Absent(d, R1)
    BY <1>2, ArchetypeSound
  <2> QED
    BY <1>1, <2>1
<1> HIDE DEF s, ins2, lw2, S2
<1>4. HoldsLast(Added(StorageOf(A1, R1, C1, S), types, e, types, << >>), A1, S2, ins, lw, re, e, types, << >>)
  <2>1. \A c \in DOMAIN << >> : << >>[c] \in Stamp
    OBVIOUS
  <2> QED
    BY <1>3, <2>1, AddedSound DEF S2
<1>5. PICK R3, C3 :
          /\ Added(StorageOf(A1, R1, C1, S), types, e, types, << >>) = StorageOf(A1, R3, C3, S2)
          /\ StorageSound(A1, R3, C3, S2, ins, lw, re, {e})
          /\ PlacedAt(R3, e, types, Len(R3[types])) /\ Completes(C3[types][Len(R3[types])], << >>, types)
  BY <1>4 DEF HoldsLast
<1>6. /\ e \in DOMAIN ins2 /\ DOMAIN ins2[e] = types /\ \A c \in types : ins2[e][c] = tick
      /\ e \in DOMAIN lw2 /\ DOMAIN lw2[e] = types /\ \A c \in types : lw2[e][c] = tick
      /\ \A f \in DOMAIN ins : f # e => f \in DOMAIN ins2 /\ ins2[f] = ins[f]
      /\ \A f \in DOMAIN lw : f # e => f \in DOMAIN lw2 /\ lw2[f] = lw[f]
  BY DEF Put, ins2, lw2
<1>7. AlikeBut(e, S2, ins, lw, re, S2, ins2, lw2, re)
  BY <1>6 DEF AlikeBut
<1>8. TicksRight(e, types, C3[types][Len(R3[types])], S2, ins2, lw2, re)
  <2> DEFINE cell == C3[types][Len(R3[types])]
  <2>1. \A c \in types \cap ColumnType : cell[c] = StampNow
    BY <1>5 DEF Completes
  <2>2. \A c \in types \cap SetType : e \in DOMAIN S2[c] /\ S2[c][e] = StampNow
    BY StampedSetsAre DEF S2
  <2> HIDE DEF cell
  <2>3. TicksRight(e, types, cell, S2, ins2, lw2, re)
    BY <1>6, <2>1, <2>2, StampNowIs DEF TicksRight
  <2> QED
    BY <2>3 DEF cell
<1>9. StorageSound(A1, R3, C3, S2, ins2, lw2, re, {})
  BY <1>5, <1>7, <1>8, DoneTo
<1>10. KeptSound(StorageOf(A1, R3, C3, S2), A, ins2, lw2, re)
  BY <1>3, <1>9 DEF KeptSound, Grows
<1> QED
  BY <1>3, <1>5, <1>10 DEF ins2, lw2

(* Insert in place: no type is new. *)
LEMMA InsertKeeps ==
    ASSUME NEW A, NEW R, NEW C, NEW S, NEW ins, NEW lw, NEW re, NEW e, tick \in Nat,
           StorageSound(A, R, C, S, ins, lw, re, {}), NEW a, NEW i, PlacedAt(R, e, a, i), NEW types \in SUBSET a
    PROVE  KeptSound(Stamped(StorageOf(A, R, C, S), e, a, i, types), A,
                InsertedTo(ins, e, a, a), WrittenTo(lw, e, types, a), re)
<1> DEFINE s == StorageOf(A, R, C, S)
           ins2 == InsertedTo(ins, e, a, a)
           lw2 == WrittenTo(lw, e, types, a)
<1>1. TicksRight(e, a, C[a][i], S, ins, lw, re) /\ a \in SUBSET Type /\ e \in Thing
  BY RightAtHome
<1>2. StorageSound(A, R, C, S, ins, lw, re, {e})
  BY Weaker
<1>3. \A c \in types \cap SetType : e \in DOMAIN S[c]
  BY <1>1 DEF TicksRight
<1> HIDE DEF s, ins2, lw2
<1>4. PICK C2, S2 :
          /\ Stamped(StorageOf(A, R, C, S), e, a, i, types) = StorageOf(A, R, C2, S2)
          /\ StorageSound(A, R, C2, S2, ins, lw, re, {e})
          /\ \A c \in a \cap ColumnType :
               /\ C2[a][i][c].added = C[a][i][c].added
               /\ C2[a][i][c].changed = IF c \in types THEN tick ELSE C[a][i][c].changed
          /\ \A c \in SetType : e \in DOMAIN S[c] =>
               /\ e \in DOMAIN S2[c] /\ S2[c][e].added = S[c][e].added
               /\ S2[c][e].changed = IF c \in types THEN tick ELSE S[c][e].changed
  <2>1. a \in DOMAIN R /\ i \in DOMAIN R[a] /\ R[a][i] = e
    BY DEF PlacedAt
  <2>2. Written(Stamped(StorageOf(A, R, C, S), e, a, i, types), A, R, C, S, ins, lw, re, e, a, i, types)
    BY <1>1, <1>2, <1>3, <2>1, StampedSound
  <2> QED
    BY <2>2 DEF Written
<1>5. /\ e \in DOMAIN ins /\ e \in DOMAIN lw /\ DOMAIN ins[e] = a /\ DOMAIN lw[e] = a
      /\ e \in DOMAIN ins2 /\ DOMAIN ins2[e] = a /\ \A c \in a : ins2[e][c] = ins[e][c]
      /\ e \in DOMAIN lw2 /\ DOMAIN lw2[e] = a /\ \A c \in a : lw2[e][c] = IF c \in types THEN tick ELSE lw[e][c]
      /\ \A f \in DOMAIN ins : f # e => f \in DOMAIN ins2 /\ ins2[f] = ins[f]
      /\ \A f \in DOMAIN lw : f # e => f \in DOMAIN lw2 /\ lw2[f] = lw[f]
  <2>1. e \in DOMAIN ins /\ e \in DOMAIN lw /\ DOMAIN ins[e] = a /\ DOMAIN lw[e] = a
    BY <1>1 DEF TicksRight
  <2> QED
    BY <2>1 DEF ins2, lw2, InsertedTo, WrittenTo
<1>6. AlikeBut(e, S2, ins, lw, re, S2, ins2, lw2, re)
  BY <1>5 DEF AlikeBut
<1>7. TicksRight(e, a, C2[a][i], S2, ins2, lw2, re)
  <2> DEFINE old == C[a][i]
             cell == C2[a][i]
  <2>1. \A c \in a \cap ColumnType : cell[c].added = old[c].added /\ cell[c].changed = IF c \in types THEN tick ELSE old[c].changed
    BY <1>4
  <2> HIDE DEF old, cell
  <2>2. TicksRight(e, a, old, S, ins, lw, re)
    BY <1>1 DEF old
  <2>3. TicksRight(e, a, cell, S2, ins2, lw2, re)
    BY <1>4, <1>5, <2>1, <2>2 DEF TicksRight
  <2> QED
    BY <2>3 DEF cell
<1>8. StorageSound(A, R, C2, S2, ins2, lw2, re, {})
  BY <1>4, <1>6, <1>7, DoneTo
<1>9. KeptSound(StorageOf(A, R, C2, S2), A, ins2, lw2, re)
  BY <1>8 DEF KeptSound, Grows
<1> QED
  BY <1>4, <1>9 DEF ins2, lw2

(* Insert by migration: a supplied column the entity had is written. *)
LEMMA InsertMoves ==
    ASSUME NEW A, NEW R, NEW C, NEW S, NEW ins, NEW lw, NEW re, NEW e, tick \in Nat,
           StorageSound(A, R, C, S, ins, lw, re, {}), PlacedAt(R, e, Home(e), RowOf(e)), NEW types \in SUBSET Type
    PROVE  LET from == Home(e)
               to == from \cup types
               moved == Migrated(StorageOf(A, R, C, S), e, to, types)
           IN  KeptSound(ChangedTo(moved, e, to, from, types), A, InsertedTo(ins, e, from, to), WrittenTo(lw, e, types, to),
                    Restamps(re, e, types, from))
<1> DEFINE from == Home(e)
           i == RowOf(e)
           to == from \cup types
           moved == Migrated(StorageOf(A, R, C, S), e, to, types)
           cs == types \cap from \cap ColumnType
           ins2 == InsertedTo(ins, e, from, to)
           lw2 == WrittenTo(lw, e, types, to)
           re2 == Restamps(re, e, types, from)
           S2 == StampedSets(S, e, to \cap types)
<1>1. PlacedAt(R, e, from, i)
  OBVIOUS
<1> HIDE DEF from, i
<1>2. TicksRight(e, from, C[from][i], S, ins, lw, re) /\ from \in SUBSET Type /\ e \in Thing
  <2> HIDE DEF to, moved, cs, ins2, lw2, re2, S2
  <2> QED
    BY <1>1, RightAtHome
<1>3. to \in SUBSET Type /\ from \subseteq to /\ to \cap ColumnType \cap cs = cs
  BY <1>2
<1> HIDE DEF to, moved, cs, ins2, lw2, re2, S2
<1>4. StorageSound(A, R, C, S, ins, lw, re, {e})
  BY Weaker
<1>5. PICK A2, R2, C2 :
          /\ Added(Evicted(Archetype(StorageOf(A, R, C, S), to), e, from, i), to, e, types, Carried(C, from, i, to))
               = StorageOf(A2, R2, C2, S2)
          /\ StorageSound(A2, R2, C2, S2, ins, lw, re, {e})
          /\ A2 \in {A, Append(A, to)}
          /\ PlacedAt(R2, e, to, Len(R2[to]))
          /\ \A c \in to \cap ColumnType : C2[to][Len(R2[to])][c] = IF c \in from THEN C[from][i][c] ELSE StampNow
  <2>1. MovedTo(Added(Evicted(Archetype(StorageOf(A, R, C, S), to), e, from, i), to, e, types, Carried(C, from, i, to)),
                A, C, S2, ins, lw, re, e, from, i, to)
    BY <1>1, <1>2, <1>3, <1>4, MovedSound DEF S2
  <2> QED
    BY <2>1 DEF MovedTo
<1>6. moved = StorageOf(A2, R2, C2, S2)
  BY <1>5, MigratedIs DEF moved, from, i
<1> DEFINE n == Len(R2[to])
<1>7. Len(moved.rows[to]) = n
  BY <1>6, StorageFields
<1> HIDE DEF n
<1>8. PICK C3, S3 :
          /\ Stamped(StorageOf(A2, R2, C2, S2), e, to, n, cs) = StorageOf(A2, R2, C3, S3)
          /\ StorageSound(A2, R2, C3, S3, ins, lw, re, {e})
          /\ \A c \in to \cap ColumnType :
               /\ C3[to][n][c].added = C2[to][n][c].added
               /\ C3[to][n][c].changed = IF c \in cs THEN tick ELSE C2[to][n][c].changed
          /\ \A c \in SetType : e \in DOMAIN S2[c] =>
               /\ e \in DOMAIN S3[c] /\ S3[c][e].added = S2[c][e].added
               /\ S3[c][e].changed = IF c \in cs THEN tick ELSE S2[c][e].changed
  <2>1. to \in DOMAIN R2 /\ n \in DOMAIN R2[to] /\ R2[to][n] = e
    BY <1>5 DEF PlacedAt, n
  <2>2. \A c \in cs \cap SetType : e \in DOMAIN S2[c]
    BY ChangeAssumption DEF cs
  <2>3. StorageSound(A2, R2, C2, S2, ins, lw, re, {e})
    BY <1>5
  <2>4. Written(Stamped(StorageOf(A2, R2, C2, S2), e, to, n, cs), A2, R2, C2, S2, ins, lw, re, e, to, n, cs)
    BY <1>2, <2>1, <2>2, <2>3, StampedSound
  <2> QED
    BY <2>4 DEF Written
<1>9. /\ e \in DOMAIN ins /\ e \in DOMAIN lw /\ DOMAIN ins[e] = from /\ DOMAIN lw[e] = from
      /\ e \in DOMAIN ins2 /\ DOMAIN ins2[e] = to /\ \A c \in to : ins2[e][c] = IF c \in from THEN ins[e][c] ELSE tick
      /\ e \in DOMAIN lw2 /\ DOMAIN lw2[e] = to /\ \A c \in to : lw2[e][c] = IF c \in types THEN tick ELSE lw[e][c]
      /\ \A f \in DOMAIN ins : f # e => f \in DOMAIN ins2 /\ ins2[f] = ins[f]
      /\ \A f \in DOMAIN lw : f # e => f \in DOMAIN lw2 /\ lw2[f] = lw[f]
  <2>1. e \in DOMAIN ins /\ e \in DOMAIN lw /\ DOMAIN ins[e] = from /\ DOMAIN lw[e] = from
    BY <1>2 DEF TicksRight
  <2> QED
    BY <2>1 DEF ins2, lw2, InsertedTo, WrittenTo
<1>10. \A p \in re : p \in re2
  BY DEF re2, Restamps
<1>11. AlikeBut(e, S3, ins, lw, re, S3, ins2, lw2, re2)
  BY <1>9, <1>10 DEF AlikeBut
<1>12. TicksRight(e, to, C3[to][n], S3, ins2, lw2, re2)
  <2> DEFINE old == C[from][i]
             cell == C3[to][n]
  <2>1. \A c \in to \cap ColumnType :
          /\ cell[c].added = IF c \in from THEN old[c].added ELSE tick
          /\ cell[c].changed = IF c \in types \/ c \notin from THEN tick ELSE old[c].changed
    <3> TAKE c \in to \cap ColumnType
    <3> DEFINE mid == C2[to][n][c]
    <3>1. mid = IF c \in from THEN old[c] ELSE StampNow
      BY <1>5 DEF n
    <3>2. cell[c].added = mid.added /\ cell[c].changed = IF c \in cs THEN tick ELSE mid.changed
      BY <1>8
    <3>3. c \in cs <=> c \in types /\ c \in from
      BY DEF cs
    <3> HIDE DEF mid, old, cell
    <3> QED
      BY <3>1, <3>2, <3>3, StampNowIs
  <2> HIDE DEF old, cell
  <2>2. TicksRight(e, from, old, S, ins, lw, re)
    BY <1>2 DEF old
  <2>3. \A c \in to : c \in from \/ c \in types
    BY DEF to
  <2>4. ASSUME NEW c \in to \cap ColumnType
        PROVE  cell[c].added = ins2[e][c] /\ cell[c].changed = lw2[e][c]
    <3>1. c \in from => old[c].added = ins[e][c] /\ old[c].changed = lw[e][c]
      BY <2>2 DEF TicksRight
    <3> QED
      BY <1>9, <2>1, <2>3, <3>1
  <2>5. ASSUME NEW c \in to \cap SetType
        PROVE  /\ e \in DOMAIN S3[c] /\ S3[c][e].changed = lw2[e][c]
               /\ S3[c][e].added = ins2[e][c] \/ <<e, c>> \in re2
    <3>1. c \notin cs
      BY ChangeAssumption DEF cs
    <3>2. CASE c \in types
      <4>1. e \in DOMAIN S2[c] /\ S2[c][e] = StampNow
        BY <3>2, StampedSetsAre DEF S2
      <4>2. e \in DOMAIN S3[c] /\ S3[c][e].changed = tick /\ S3[c][e].added = tick
        BY <1>8, <3>1, <4>1, StampNowIs
      <4>3. c \in from => <<e, c>> \in re2
        BY <3>2 DEF re2, Restamps
      <4> QED
        BY <1>9, <3>2, <4>2, <4>3
    <3>3. CASE c \notin types
      <4>1. c \in from /\ S2[c] = S[c]
        BY <2>3, <3>3, StampedSetsAre DEF S2
      <4>2. /\ e \in DOMAIN S[c] /\ S[c][e].changed = lw[e][c]
            /\ S[c][e].added = ins[e][c] \/ <<e, c>> \in re
        BY <2>2, <4>1 DEF TicksRight
      <4>3. e \in DOMAIN S3[c] /\ S3[c][e].changed = S[c][e].changed /\ S3[c][e].added = S[c][e].added
        BY <1>8, <3>1, <4>1, <4>2
      <4> QED
        BY <1>9, <1>10, <3>3, <4>1, <4>2, <4>3
    <3> QED
      BY <3>2, <3>3
  <2>6. TicksRight(e, to, cell, S3, ins2, lw2, re2)
    BY <1>9, <2>4, <2>5 DEF TicksRight
  <2> QED
    BY <2>6 DEF cell
<1>13. StorageSound(A2, R2, C3, S3, ins2, lw2, re2, {})
  <2>1. PlacedAt(R2, e, to, n)
    BY <1>5 DEF n
  <2> QED
    BY <1>8, <1>11, <1>12, <2>1, DoneTo
<1>14. KeptSound(StorageOf(A2, R2, C3, S3), A, ins2, lw2, re2)
  BY <1>3, <1>5, <1>13 DEF KeptSound, Grows
<1>15. KeptSound(Stamped(moved, e, to, Len(moved.rows[to]), cs), A, ins2, lw2, re2)
  BY <1>6, <1>7, <1>8, <1>14
<1> QED
  BY <1>15 DEF moved, to, from, cs, ins2, lw2, re2, ChangedTo

LEMMA RemoveKeeps ==
    ASSUME NEW A, NEW R, NEW C, NEW S, NEW ins, NEW lw, NEW re, NEW e, tick \in Nat,
           StorageSound(A, R, C, S, ins, lw, re, {}), PlacedAt(R, e, Home(e), RowOf(e)), NEW x \in Home(e)
    PROVE  KeptSound(Migrated(StorageOf(A, R, C, SetsWithout(S, e, x)), e, Home(e) \ {x}, {}), A,
                WithoutType(ins, e, x), WithoutType(lw, e, x), re \ {<<e, x>>})
<1> DEFINE from == Home(e)
           i == RowOf(e)
           to == from \ {x}
           S1 == SetsWithout(S, e, x)
           ins2 == WithoutType(ins, e, x)
           lw2 == WithoutType(lw, e, x)
           re2 == re \ {<<e, x>>}
           S2 == StampedSets(S1, e, to \cap {})
<1>1. PlacedAt(R, e, from, i) /\ x \in from
  OBVIOUS
<1> HIDE DEF from, i
<1>2. TicksRight(e, from, C[from][i], S, ins, lw, re) /\ from \in SUBSET Type /\ e \in Thing
  <2> HIDE DEF to, S1, ins2, lw2, re2, S2
  <2> QED
    BY <1>1, RightAtHome
<1>3. to \in SUBSET Type /\ \A c \in to : c \in from /\ c # x
  BY <1>2
<1>4. /\ e \in DOMAIN ins /\ e \in DOMAIN lw /\ DOMAIN ins[e] = from /\ DOMAIN lw[e] = from
      /\ e \in DOMAIN ins2 /\ DOMAIN ins2[e] = to /\ \A c \in to : ins2[e][c] = ins[e][c]
      /\ e \in DOMAIN lw2 /\ DOMAIN lw2[e] = to /\ \A c \in to : lw2[e][c] = lw[e][c]
      /\ \A f \in DOMAIN ins : f # e => f \in DOMAIN ins2 /\ ins2[f] = ins[f]
      /\ \A f \in DOMAIN lw : f # e => f \in DOMAIN lw2 /\ lw2[f] = lw[f]
  <2>1. e \in DOMAIN ins /\ e \in DOMAIN lw /\ DOMAIN ins[e] = from /\ DOMAIN lw[e] = from
    BY <1>2 DEF TicksRight
  <2> QED
    BY <2>1 DEF Drop, WithoutType
<1>5. /\ DOMAIN S1 = SetType /\ S1 = [d \in SetType |-> S1[d]]
      /\ \A c \in SetType : c # x => S1[c] = S[c]
      /\ \A c \in SetType : S1[c] \in [DOMAIN S1[c] -> Stamp]
      /\ \A f \in Thing \ {e} : \A c \in SetType : f \in DOMAIN S[c] => f \in DOMAIN S1[c] /\ S1[c][f] = S[c][f]
  <2>1. \A c \in SetType : S[c] \in [DOMAIN S[c] -> Stamp]
    BY DEF StorageSound, StorageShape
  <2>2. \A c \in SetType : S1[c] = IF c = x THEN Drop(S[c], e) ELSE S[c]
    BY DEF SetsWithout
  <2>3. DOMAIN S1 = SetType /\ S1 = [d \in SetType |-> S1[d]]
    BY DEF SetsWithout
  <2> HIDE DEF S1
  <2>4. ASSUME NEW c \in SetType
        PROVE  /\ S1[c] \in [DOMAIN S1[c] -> Stamp]
               /\ \A f \in Thing \ {e} : f \in DOMAIN S[c] => f \in DOMAIN S1[c] /\ S1[c][f] = S[c][f]
    <3>1. CASE c = x
      <4>1. S1[c] = [y \in DOMAIN S[c] \ {e} |-> S[c][y]]
        BY <2>2, <3>1 DEF Drop
      <4>2. \A y \in DOMAIN S[c] : S[c][y] \in Stamp
        BY <2>1
      <4> QED
        BY <4>1, <4>2
    <3>2. CASE c # x
      BY <2>1, <2>2, <3>2
    <3> QED
      BY <3>1, <3>2
  <2> QED
    BY <2>2, <2>3, <2>4
<1> HIDE DEF to, S1, ins2, lw2, re2, S2
<1>6. StorageSound(A, R, C, S1, ins2, lw2, re2, {e})
  <2>1. StorageSound(A, R, C, S, ins, lw, re, {e})
    BY Weaker
  <2>2. \A f \in Thing \ {e}, c \in SetType : <<f, c>> \in re => <<f, c>> \in re2
    BY DEF re2
  <2>3. AlikeBut(e, S, ins, lw, re, S1, ins2, lw2, re2)
    BY <1>4, <1>5, <2>2 DEF AlikeBut
  <2> QED
    BY <1>5, <2>1, <2>3, OthersRight
<1>7. PICK A2, R2, C2 :
          /\ Added(Evicted(Archetype(StorageOf(A, R, C, S1), to), e, from, i), to, e, {}, Carried(C, from, i, to))
               = StorageOf(A2, R2, C2, S2)
          /\ StorageSound(A2, R2, C2, S2, ins2, lw2, re2, {e})
          /\ A2 \in {A, Append(A, to)}
          /\ PlacedAt(R2, e, to, Len(R2[to]))
          /\ \A c \in to \cap ColumnType : C2[to][Len(R2[to])][c] = IF c \in from THEN C[from][i][c] ELSE StampNow
  <2>1. MovedTo(Added(Evicted(Archetype(StorageOf(A, R, C, S1), to), e, from, i), to, e, {}, Carried(C, from, i, to)),
                A, C, S2, ins2, lw2, re2, e, from, i, to)
    BY <1>1, <1>2, <1>3, <1>6, MovedSound DEF S2
  <2> QED
    BY <2>1 DEF MovedTo
<1>8. Migrated(StorageOf(A, R, C, S1), e, to, {}) = StorageOf(A2, R2, C2, S2)
  BY <1>7, MigratedIs DEF from, i
<1> DEFINE n == Len(R2[to])
<1>9. TicksRight(e, to, C2[to][n], S2, ins2, lw2, re2)
  <2> DEFINE old == C[from][i]
             cell == C2[to][n]
  <2>1. \A c \in to \cap ColumnType : cell[c] = old[c]
    BY <1>3, <1>7
  <2> HIDE DEF old, cell
  <2>2. TicksRight(e, from, old, S, ins, lw, re)
    BY <1>2 DEF old
  <2>3. ASSUME NEW c \in to \cap SetType
        PROVE  /\ e \in DOMAIN S2[c] /\ S2[c][e].changed = lw2[e][c]
               /\ S2[c][e].added = ins2[e][c] \/ <<e, c>> \in re2
    <3>1. S2[c] = S[c]
      <4>1. S2[c] = S1[c]
        BY StampedSetsAre DEF S2
      <4> QED
        BY <1>3, <1>5, <4>1
    <3>2. /\ e \in DOMAIN S[c] /\ S[c][e].changed = lw[e][c]
          /\ S[c][e].added = ins[e][c] \/ <<e, c>> \in re
      BY <1>3, <2>2 DEF TicksRight
    <3>3. <<e, c>> \in re => <<e, c>> \in re2
      BY <1>3 DEF re2
    <3> QED
      BY <1>4, <3>1, <3>2, <3>3
  <2>4. ASSUME NEW c \in to \cap ColumnType
        PROVE  cell[c].added = ins2[e][c] /\ cell[c].changed = lw2[e][c]
    BY <1>3, <1>4, <2>1, <2>2 DEF TicksRight
  <2>5. TicksRight(e, to, cell, S2, ins2, lw2, re2)
    BY <1>4, <2>3, <2>4 DEF TicksRight
  <2> QED
    BY <2>5 DEF cell
<1> HIDE DEF n
<1>10. StorageSound(A2, R2, C2, S2, ins2, lw2, re2, {})
  <2>1. PlacedAt(R2, e, to, n)
    BY <1>7 DEF n
  <2>2. AlikeBut(e, S2, ins2, lw2, re2, S2, ins2, lw2, re2)
    BY DEF AlikeBut
  <2> QED
    BY <1>7, <1>9, <2>1, <2>2, DoneTo
<1>11. KeptSound(Migrated(StorageOf(A, R, C, S1), e, to, {}), A, ins2, lw2, re2)
  BY <1>3, <1>7, <1>8, <1>10 DEF KeptSound, Grows
<1> QED
  BY <1>11 DEF to, from, S1, ins2, lw2, re2

LEMMA DespawnKeeps ==
    ASSUME NEW A, NEW R, NEW C, NEW S, NEW ins, NEW lw, NEW re, NEW e,
           StorageSound(A, R, C, S, ins, lw, re, {}), NEW a, NEW i, PlacedAt(R, e, a, i)
    PROVE  KeptSound(Dead(StorageOf(A, R, C, S), e, a, i), A, WithoutAny(ins, e), WithoutAny(lw, e), NoneOf(re, e))
<1> DEFINE S2 == [c \in SetType |-> Drop(S[c], e)]
           ins2 == WithoutAny(ins, e)
           lw2 == WithoutAny(lw, e)
           re2 == NoneOf(re, e)
<1>1. a \in DOMAIN R /\ i \in DOMAIN R[a] /\ R[a][i] = e
  BY DEF PlacedAt
<1>2. StorageSound(A, R, C, S, ins, lw, re, {e})
  <2> HIDE DEF S2, ins2, lw2, re2
  <2> QED
    BY Weaker
<1>3. PICK R2, C2 :
          /\ Evicted(StorageOf(A, R, C, S), e, a, i) = StorageOf(A, R2, C2, S)
          /\ StorageSound(A, R2, C2, S, ins, lw, re, {e}) /\ Absent(e, R2)
  <2> HIDE DEF S2, ins2, lw2, re2
  <2>1. /\ Evicted(StorageOf(A, R, C, S), R[a][i], a, i)
             = StorageOf(A, [R EXCEPT ![a] = SwapPopped(@, i)], [C EXCEPT ![a] = SwapPopped(@, i)], S)
        /\ StorageSound(A, [R EXCEPT ![a] = SwapPopped(@, i)], [C EXCEPT ![a] = SwapPopped(@, i)], S, ins, lw, re, {e})
        /\ Absent(R[a][i], [R EXCEPT ![a] = SwapPopped(@, i)])
    BY <1>1, <1>2, EvictedSound
  <2> QED
    BY <1>1, <2>1
<1>4. \A c \in SetType : S[c] \in [DOMAIN S[c] -> Stamp]
  BY <1>2 DEF StorageSound, StorageShape
<1>5. /\ DOMAIN S2 = SetType /\ S2 = [c \in SetType |-> S2[c]]
      /\ \A c \in SetType : S2[c] \in [DOMAIN S2[c] -> Stamp]
      /\ \A f \in Thing \ {e} : \A c \in SetType : f \in DOMAIN S[c] => f \in DOMAIN S2[c] /\ S2[c][f] = S[c][f]
  <2>1. ASSUME NEW c \in SetType
        PROVE  /\ S2[c] \in [DOMAIN S2[c] -> Stamp]
               /\ \A f \in Thing \ {e} : f \in DOMAIN S[c] => f \in DOMAIN S2[c] /\ S2[c][f] = S[c][f]
    <3>1. S2[c] = [y \in DOMAIN S[c] \ {e} |-> S[c][y]]
      BY DEF Drop
    <3>2. \A y \in DOMAIN S[c] : S[c][y] \in Stamp
      BY <1>4
    <3> HIDE DEF S2
    <3> QED
      BY <3>1, <3>2
  <2>2. DOMAIN S2 = SetType /\ S2 = [c \in SetType |-> S2[c]]
    OBVIOUS
  <2> HIDE DEF S2
  <2> QED
    BY <2>1, <2>2
<1>6. /\ \A f \in DOMAIN ins : f # e => f \in DOMAIN ins2 /\ ins2[f] = ins[f]
      /\ \A f \in DOMAIN lw : f # e => f \in DOMAIN lw2 /\ lw2[f] = lw[f]
      /\ \A f \in Thing \ {e}, c \in SetType : <<f, c>> \in re => <<f, c>> \in re2
  BY DEF WithoutAny, NoneOf
<1>7. [StorageOf(A, R2, C2, S) EXCEPT !.setTicks = [c \in SetType |-> Drop(@[c], e)]] = StorageOf(A, R2, C2, S2)
  BY DEF StorageOf
<1> HIDE DEF S2, ins2, lw2, re2
<1>8. AlikeBut(e, S, ins, lw, re, S2, ins2, lw2, re2)
  BY <1>5, <1>6 DEF AlikeBut
<1>9. StorageSound(A, R2, C2, S2, ins2, lw2, re2, {})
  <2>1. StorageSound(A, R2, C2, S2, ins2, lw2, re2, {e})
    BY <1>3, <1>5, <1>8, OthersRight
  <2> QED
    BY <1>3, <2>1, NowhereElse
<1>10. KeptSound(StorageOf(A, R2, C2, S2), A, ins2, lw2, re2)
  BY <1>9 DEF KeptSound, Grows
<1> QED
  BY <1>3, <1>7, <1>10 DEF ins2, lw2, re2, Dead

-----------------------------------------------------------------------------
(* What a filter keeps, and that it keeps the order's distinctness. *)
Distinct(s) == \A i, j \in DOMAIN s : s[i] = s[j] => i = j
KeepsOf(r, s, k, keep) ==
    /\ \A i \in DOMAIN r : \E j \in 1 .. k : s[j] \in keep /\ r[i] = s[j]
    /\ \A j \in 1 .. k : s[j] \in keep => \E i \in DOMAIN r : r[i] = s[j]
    /\ Distinct(s) => Distinct(r)

LEMMA KeepsNext ==
    ASSUME NEW T, NEW s \in Seq(T), NEW keep, NEW k \in Nat, k + 1 <= Len(s), NEW r \in Seq(T), KeepsOf(r, s, k, keep),
           NEW q, q = IF s[k + 1] \in keep THEN Append(r, s[k + 1]) ELSE r
    PROVE  q \in Seq(T) /\ KeepsOf(q, s, k + 1, keep)
<1> DEFINE x == s[k + 1]
           n == Len(r)
<1>1. x \in T
  <2>1. k + 1 \in 1 .. Len(s)
    OBVIOUS
  <2> QED
    BY <2>1
<1>2. /\ \A j : j \in 1 .. k + 1 <=> j \in 1 .. k \/ j = k + 1
      /\ k + 1 \notin 1 .. k /\ \A j \in 1 .. k + 1 : j \in DOMAIN s
  OBVIOUS
<1>3. CASE x \in keep
  <2>1. q = Append(r, x)
    BY <1>3
  <2>2. /\ q \in Seq(T) /\ n \in Nat /\ DOMAIN r = 1 .. n /\ DOMAIN q = 1 .. n + 1
        /\ q[n + 1] = x /\ \A i \in 1 .. n : q[i] = r[i]
    <3> HIDE DEF x
    <3> QED
      BY <1>1, <2>1
  <2>3. \A i : i \in DOMAIN q <=> i \in DOMAIN r \/ i = n + 1
    BY <2>2
  <2> HIDE DEF n
  <2>4. \A i \in DOMAIN q : \E j \in 1 .. k + 1 : s[j] \in keep /\ q[i] = s[j]
    BY <1>2, <1>3, <2>2, <2>3 DEF KeepsOf
  <2>5. \A j \in 1 .. k + 1 : s[j] \in keep => \E i \in DOMAIN q : q[i] = s[j]
    BY <1>2, <2>2, <2>3 DEF KeepsOf
  <2>6. ASSUME Distinct(s) PROVE Distinct(q)
    <3>1. \A i \in DOMAIN r : r[i] # x
      <4>1. ASSUME NEW i \in DOMAIN r, r[i] = x PROVE FALSE
        <5>1. PICK j \in 1 .. k : r[i] = s[j]
          BY DEF KeepsOf
        <5>2. j \in DOMAIN s /\ k + 1 \in DOMAIN s /\ s[j] = s[k + 1]
          BY <1>2, <4>1, <5>1
        <5>3. j = k + 1
          BY <2>6, <5>2 DEF Distinct
        <5> QED
          BY <1>2, <5>1, <5>3
      <4> QED
        BY <4>1
    <3>2. Distinct(r)
      BY <2>6 DEF KeepsOf
    <3> HIDE DEF x
    <3>3. \A i \in DOMAIN r : q[i] = r[i]
      BY <2>2
    <3> QED
      BY <2>2, <2>3, <3>1, <3>2, <3>3 DEF Distinct
  <2> QED
    BY <2>2, <2>4, <2>5, <2>6 DEF KeepsOf
<1>4. CASE x \notin keep
  <2>1. q = r
    BY <1>4
  <2> QED
    BY <1>2, <1>4, <2>1 DEF KeepsOf
<1> QED
  BY <1>3, <1>4

LEMMA FilterKeeps ==
    ASSUME NEW T, NEW s \in Seq(T), NEW keep
    PROVE  Filtered(s, keep) \in Seq(T) /\ KeepsOf(Filtered(s, keep), s, Len(s), keep)
<1> DEFINE n == Len(s)
           taken(i, y) == IF s[i] \in keep THEN Append(y, s[i]) ELSE y
           step == [q \in (1 .. n) \X Seq(T) |-> taken(q[1], q[2])]
           Good(f) == f = [i \in 0 .. n |-> IF i = 0 THEN <<>>
                                            ELSE IF s[i] \in keep THEN Append(f[i - 1], s[i]) ELSE f[i - 1]]
           g == CHOOSE g : Good(g)
<1>1. n \in Nat /\ \A i \in 1 .. n : s[i] \in T
  OBVIOUS
<1>2. Filtered(s, keep) = g[n]
  BY DEF Filtered
<1> HIDE DEF n
<1>3. <<>> \in Seq(T)
  OBVIOUS
<1>4. \A i \in 1 .. n, y \in Seq(T) : taken(i, y) \in Seq(T)
  <2> TAKE i \in 1 .. n, y \in Seq(T)
  <2> DEFINE x == s[i]
  <2>1. x \in T
    BY <1>1
  <2> HIDE DEF x
  <2>2. Append(y, x) \in Seq(T)
    BY <2>1
  <2> QED
    BY <2>2 DEF x
<1> DEFINE B == Seq(T)
<1> HIDE DEF taken, B
<1>5. step \in Steps(n, Seq(T))
  <2>1. \A q \in (1 .. n) \X Seq(T) : taken(q[1], q[2]) \in Seq(T)
    BY <1>4
  <2> QED
    BY <2>1 DEF Steps
<1>6. PICK f : Recursion(f, n, Seq(T), <<>>, step)
  <2> HIDE DEF step
  <2> QED
    BY <1>1, <1>3, <1>5, RecursionExists, Zenon
<1>7. f = [i \in 0 .. n |-> IF i = 0 THEN <<>> ELSE taken(i, f[i - 1])]
  <2>1. f \in [0 .. n -> Seq(T)] /\ f[0] = <<>>
    BY <1>6 DEF Recursion
  <2>2. ASSUME NEW i \in 1 .. n PROVE f[i] = taken(i, f[i - 1])
    <3>1. i - 1 \in 0 .. n
      BY <1>1
    <3>2. f[i] = step[<<i, f[i - 1]>>]
      BY <1>6 DEF Recursion
    <3>3. <<i, f[i - 1]>> \in (1 .. n) \X Seq(T)
      BY <2>1, <3>1
    <3> QED
      BY <3>2, <3>3
  <2>3. \A i \in 0 .. n : i = 0 \/ i \in 1 .. n
    BY <1>1
  <2>4. f = [i \in 0 .. n |-> f[i]]
    BY <2>1
  <2> HIDE DEF step
  <2> QED
    BY <2>1, <2>2, <2>3, <2>4
<1>8. Good(f)
  BY <1>7 DEF taken
<1>9. Good(g)
  BY <1>8, Zenon
<1> HIDE DEF g
<1>10. g[0] = <<>> /\ \A i \in 1 .. n : g[i] = taken(i, g[i - 1])
  <2>1. 0 \in 0 .. n /\ \A i \in 1 .. n : i \in 0 .. n /\ i # 0
    BY <1>1
  <2>2. g = [i \in 0 .. n |-> IF i = 0 THEN <<>> ELSE taken(i, g[i - 1])]
    BY <1>9 DEF taken
  <2> QED
    BY <2>1, <2>2
<1> DEFINE S == {k \in Nat : k <= n => g[k] \in Seq(T) /\ KeepsOf(g[k], s, k, keep)}
<1>11. 0 \in S
  <2>1. DOMAIN <<>> = {} /\ 1 .. 0 = {}
    OBVIOUS
  <2>2. KeepsOf(<<>>, s, 0, keep)
    BY <2>1 DEF KeepsOf, Distinct
  <2> QED
    BY <1>3, <1>10, <2>2
<1>12. ASSUME NEW k \in Nat, k \in S PROVE k + 1 \in S
  <2>1. SUFFICES ASSUME k + 1 <= n PROVE g[k + 1] \in Seq(T) /\ KeepsOf(g[k + 1], s, k + 1, keep)
    OBVIOUS
  <2>2. k + 1 \in 1 .. n /\ (k + 1) - 1 = k /\ k <= n
    BY <1>1, <2>1
  <2>3. g[k] \in Seq(T) /\ KeepsOf(g[k], s, k, keep)
    BY <1>12, <2>2
  <2>4. g[k + 1] = IF s[k + 1] \in keep THEN Append(g[k], s[k + 1]) ELSE g[k]
    BY <1>10, <2>2 DEF taken
  <2>5. k + 1 <= Len(s)
    BY <2>1 DEF n
  <2> DEFINE r == g[k]
             q == g[k + 1]
  <2>6. r \in Seq(T) /\ KeepsOf(r, s, k, keep) /\ q = IF s[k + 1] \in keep THEN Append(r, s[k + 1]) ELSE r
    BY <2>3, <2>4
  <2> HIDE DEF r, q
  <2>7. q \in Seq(T) /\ KeepsOf(q, s, k + 1, keep)
    BY <2>5, <2>6, KeepsNext
  <2> QED
    BY <2>7 DEF q
<1> HIDE DEF S
<1>13. \A k \in Nat : k \in S
  BY <1>11, <1>12, SetInduction, Zenon
<1>14. g[n] \in Seq(T) /\ KeepsOf(g[n], s, n, keep)
  <2>1. n \in Nat /\ n <= n
    BY <1>1
  <2> QED
    BY <1>13, <2>1 DEF S
<1> QED
  BY <1>2, <1>14 DEF n

-----------------------------------------------------------------------------
(* The cache: the archetypes scanned so far that match, once each. *)
CacheRight(A, c) ==
    /\ c \in [query : Query, matched : Seq(SUBSET Type), nextScan : Nat]
    /\ c.nextScan <= Len(A) /\ Distinct(c.matched)
    /\ \A k \in DOMAIN c.matched : \E j \in 1 .. c.nextScan : c.matched[k] = A[j] /\ Matches(c.query, A[j])
    /\ \A j \in 1 .. c.nextScan : Matches(c.query, A[j]) => \E k \in DOMAIN c.matched : c.matched[k] = A[j]

(* The removals of the last two frames are there, as long as none advanced *)
(* the tick twice.                                                         *)
RemovalRecord == [entity : Thing, tick : Nat]
RemovalsRight ==
    /\ removals \in Seq(RemovalRecord) /\ gone \in SUBSET (Thing \X {0, 1}) /\ pace \in [ticked : BOOLEAN, busy : BOOLEAN]
    /\ ~pace.busy => /\ tick = IF pace.ticked THEN lastTick + 1 ELSE lastTick
                     /\ \A g \in gone : \E i \in DOMAIN removals :
                            removals[i].entity = g[1] /\ removals[i].tick >= lastTick - g[2]

StampInv ==
    /\ tick \in Nat /\ lastTick \in Nat
    /\ StorageSound(archetypes, tables, columnTicks, setTicks, inserted, lastWrite, restamped, {})
    /\ CacheRight(archetypes, cache)
    /\ RemovalsRight

LEMMA CacheKept ==
    ASSUME NEW A \in Seq(SUBSET Type), NEW A2, Grows(A, A2), NEW c, CacheRight(A, c)
    PROVE  CacheRight(A2, c)
<1>1. c.nextScan \in Nat /\ c.nextScan <= Len(A) /\ Len(A) \in Nat
  BY DEF CacheRight
<1>2. Len(A) <= Len(A2) /\ \A j \in 1 .. Len(A) : A2[j] = A[j]
  <2>1. CASE A2 = A
    BY <1>1, <2>1
  <2>2. CASE \E a \in SUBSET Type : A2 = Append(A, a)
    <3>1. PICK a \in SUBSET Type : A2 = Append(A, a)
      BY <2>2
    <3> DEFINE B == SUBSET Type
    <3>2. a \in B /\ A \in Seq(B)
      OBVIOUS
    <3> HIDE DEF B
    <3> QED
      BY <3>1, <3>2
  <2> QED
    BY <2>1, <2>2 DEF Grows
<1>3. c.nextScan <= Len(A2)
  <2>1. Len(A2) \in Nat
    <3>1. CASE A2 = A
      BY <3>1
    <3>2. CASE \E a \in SUBSET Type : A2 = Append(A, a)
      BY <3>2
    <3> QED
      BY <3>1, <3>2 DEF Grows
  <2> QED
    BY <1>1, <1>2, <2>1
<1>4. \A j \in 1 .. c.nextScan : A2[j] = A[j]
  BY <1>1, <1>2
<1> QED
  BY <1>3, <1>4 DEF CacheRight

(* The refreshed cache has scanned them all. *)
LEMMA RefreshRight ==
    ASSUME NEW R, NEW C, NEW S, StorageShape(archetypes, R, C, S), DOMAIN tables = DOMAIN R,
           CacheRight(archetypes, cache)
    PROVE  CacheRight(archetypes, Refreshed) /\ Refreshed.nextScan = Len(archetypes) /\ Refreshed.query = cache.query
<1> DEFINE A == archetypes
           n == Len(A)
           scanned == cache.nextScan
           fresh == SubSeq(A, scanned + 1, n)
           keep == {a \in DOMAIN tables : Matches(cache.query, a)}
           found == Filtered(fresh, keep)
           old == cache.matched
           B == SUBSET Type
<1>1. /\ cache \in [query : Query, matched : Seq(B), nextScan : Nat]
      /\ A \in Seq(B) /\ Distinct(A) /\ \A j \in DOMAIN A : A[j] \in DOMAIN tables
      /\ scanned \in Nat /\ n \in Nat /\ scanned <= n /\ DOMAIN A = 1 .. n /\ old \in Seq(B) /\ Distinct(old)
  BY DEF CacheRight, StorageShape, Distinct
<1>2. /\ fresh \in Seq(B) /\ Len(fresh) = n - scanned
      /\ \A j \in 1 .. n - scanned : fresh[j] = A[scanned + j]
      /\ DOMAIN fresh = 1 .. n - scanned
  <2>1. A \in Seq(B) /\ scanned + 1 \in 1 .. n + 1 /\ n = Len(A) /\ n \in Nat /\ scanned \in Nat
        /\ \A j \in 1 .. n : A[j] \in B
    BY <1>1
  <2> HIDE DEF B, A, n, scanned
  <2> QED
    BY <2>1, SMTT(30)
<1> HIDE DEF A, n, scanned, fresh, old, B
<1>3. \A j \in 1 .. n - scanned : scanned + j \in 1 .. n /\ scanned + j \notin 1 .. scanned
  BY <1>1
<1>4. Distinct(fresh)
  <2> SUFFICES ASSUME NEW i \in DOMAIN fresh, NEW j \in DOMAIN fresh, fresh[i] = fresh[j] PROVE i = j
    BY DEF Distinct
  <2>1. i \in 1 .. n - scanned /\ j \in 1 .. n - scanned
    BY <1>2
  <2>2. scanned + i = scanned + j
    BY <1>1, <1>2, <1>3, <2>1 DEF Distinct
  <2> QED
    BY <1>1, <2>1, <2>2
<1>5. found \in Seq(B) /\ KeepsOf(found, fresh, n - scanned, keep)
  <2> HIDE DEF keep
  <2>1. found \in Seq(B) /\ KeepsOf(found, fresh, Len(fresh), keep)
    BY <1>2, FilterKeeps
  <2> QED
    BY <1>2, <2>1
<1> HIDE DEF found
<1>6. \A a \in DOMAIN tables : a \in keep <=> Matches(cache.query, a)
  OBVIOUS
<1> HIDE DEF keep
<1>7. Refreshed = [query |-> cache.query, matched |-> old \o found, nextScan |-> n]
  <2>1. Refreshed = [[cache EXCEPT !.matched = old \o found] EXCEPT !.nextScan = n]
    BY Zenon DEF Refreshed, old, found, fresh, keep, A, n, scanned
  <2> QED
    BY <1>1, <2>1 DEF old
<1> DEFINE all == old \o found
           p == Len(old)
           m == Len(found)
<1>8. /\ p \in Nat /\ m \in Nat /\ DOMAIN old = 1 .. p /\ DOMAIN found = 1 .. m
      /\ all \in Seq(B) /\ DOMAIN all = 1 .. p + m
      /\ \A k \in 1 .. p : all[k] = old[k]
      /\ \A k \in p + 1 .. p + m : all[k] = found[k - p]
  BY <1>1, <1>5
<1> HIDE DEF all, p, m
<1>9. \A k \in DOMAIN all : (k \in 1 .. p /\ all[k] = old[k]) \/ (k - p \in 1 .. m /\ all[k] = found[k - p])
  <2> TAKE k \in DOMAIN all
  <2>1. k \in 1 .. p \/ (k \in p + 1 .. p + m /\ k - p \in 1 .. m)
    BY <1>8
  <2> QED
    BY <1>8, <2>1
<1>10. \A k \in 1 .. p : \E j \in 1 .. scanned : old[k] = A[j] /\ Matches(cache.query, A[j])
  BY <1>8 DEF CacheRight, old, scanned, A
<1>11. \A k \in 1 .. m : \E j \in 1 .. n - scanned : found[k] = A[scanned + j] /\ Matches(cache.query, A[scanned + j])
  <2> TAKE k \in 1 .. m
  <2>1. PICK j \in 1 .. n - scanned : fresh[j] \in keep /\ found[k] = fresh[j]
    BY <1>5, <1>8 DEF KeepsOf
  <2>2. fresh[j] = A[scanned + j] /\ A[scanned + j] \in DOMAIN tables
    BY <1>1, <1>2, <1>3
  <2> QED
    BY <1>6, <2>1, <2>2
<1>12. \A j \in 1 .. scanned : j \in 1 .. n
  BY <1>1
<1>13. \A k \in DOMAIN all : \E j \in 1 .. n : all[k] = A[j] /\ Matches(cache.query, A[j])
  <2> TAKE k \in DOMAIN all
  <2>1. CASE k \in 1 .. p /\ all[k] = old[k]
    BY <1>10, <1>12, <2>1
  <2>2. CASE k - p \in 1 .. m /\ all[k] = found[k - p]
    <3>1. PICK j \in 1 .. n - scanned : found[k - p] = A[scanned + j] /\ Matches(cache.query, A[scanned + j])
      BY <1>11, <2>2
    <3> QED
      BY <1>3, <2>2, <3>1
  <2> QED
    BY <1>9, <2>1, <2>2
<1>14. \A j \in 1 .. n : Matches(cache.query, A[j]) => \E k \in DOMAIN all : all[k] = A[j]
  <2> SUFFICES ASSUME NEW j \in 1 .. n, Matches(cache.query, A[j]) PROVE \E k \in DOMAIN all : all[k] = A[j]
    OBVIOUS
  <2>1. CASE j \in 1 .. scanned
    <3>1. PICK k \in DOMAIN old : old[k] = A[j]
      BY <2>1 DEF CacheRight, old, scanned, A
    <3>2. k \in 1 .. p /\ k \in 1 .. p + m
      BY <1>8
    <3> QED
      BY <1>8, <3>1, <3>2
  <2>2. CASE j \notin 1 .. scanned
    <3>1. j - scanned \in 1 .. n - scanned /\ scanned + (j - scanned) = j
      BY <1>1, <2>2
    <3>2. fresh[j - scanned] = A[j] /\ A[j] \in DOMAIN tables
      BY <1>1, <1>2, <3>1
    <3>3. PICK k \in DOMAIN found : found[k] = fresh[j - scanned]
      BY <1>5, <1>6, <3>1, <3>2 DEF KeepsOf
    <3>4. k + p \in p + 1 .. p + m /\ k + p \in 1 .. p + m /\ (k + p) - p = k
      BY <1>8
    <3> QED
      BY <1>8, <3>2, <3>3, <3>4
  <2> QED
    BY <2>1, <2>2
<1>15. Distinct(all)
  <2> SUFFICES ASSUME NEW k \in DOMAIN all, NEW l \in DOMAIN all, all[k] = all[l] PROVE k = l
    BY DEF Distinct
  <2>1. Distinct(found)
    BY <1>4, <1>5 DEF KeepsOf
  <2>2. \A i \in 1 .. p, j \in 1 .. m : old[i] # found[j]
    <3> SUFFICES ASSUME NEW i \in 1 .. p, NEW j \in 1 .. m, old[i] = found[j] PROVE FALSE
      OBVIOUS
    <3>1. PICK x \in 1 .. scanned : old[i] = A[x]
      BY <1>10
    <3>2. PICK y \in 1 .. n - scanned : found[j] = A[scanned + y]
      BY <1>11
    <3>3. x \in DOMAIN A /\ scanned + y \in DOMAIN A /\ A[x] = A[scanned + y]
      BY <1>1, <1>3, <1>12, <3>1, <3>2
    <3>4. x = scanned + y
      BY <1>1, <3>3 DEF Distinct
    <3> QED
      BY <1>3, <3>1, <3>2, <3>4
  <2>3. CASE k \in 1 .. p /\ all[k] = old[k] /\ l \in 1 .. p /\ all[l] = old[l]
    BY <1>1, <1>8, <2>3 DEF Distinct
  <2>4. CASE k - p \in 1 .. m /\ all[k] = found[k - p] /\ l - p \in 1 .. m /\ all[l] = found[l - p]
    <3>1. k - p = l - p
      BY <1>8, <2>1, <2>4 DEF Distinct
    <3>2. k \in Nat /\ l \in Nat
      BY <1>8
    <3> QED
      BY <1>8, <3>1, <3>2
  <2> QED
    BY <1>9, <2>2, <2>3, <2>4
<1>16. /\ Refreshed.query = cache.query /\ Refreshed.matched = all /\ Refreshed.nextScan = n
       /\ Refreshed \in [query : Query, matched : Seq(B), nextScan : Nat]
  <2>1. cache.query \in Query
    BY <1>1
  <2> QED
    BY <1>1, <1>7, <1>8, <2>1 DEF all
<1>17. CacheRight(A, Refreshed)
  BY <1>1, <1>13, <1>14, <1>15, <1>16 DEF CacheRight, n, B
<1> QED
  BY <1>16, <1>17 DEF n, A

LEMMA RecordsFilled ==
    ASSUME removals \in Seq(RemovalRecord), NEW keep, NEW i \in DOMAIN removals, removals[i] \in keep
    PROVE  Filtered(removals, keep) \in Seq(RemovalRecord) /\ \E j \in DOMAIN Filtered(removals, keep) : Filtered(removals, keep)[j] = removals[i]
<1>1. Filtered(removals, keep) \in Seq(RemovalRecord) /\ KeepsOf(Filtered(removals, keep), removals, Len(removals), keep)
  BY FilterKeeps
<1>2. i \in 1 .. Len(removals)
  OBVIOUS
<1> QED
  BY <1>1, <1>2 DEF KeepsOf

(* Where an entity is. *)
LEMMA AtHome ==
    ASSUME StorageSound(archetypes, tables, columnTicks, setTicks, inserted, lastWrite, restamped, {})
    PROVE  /\ \A e \in Alive : PlacedAt(tables, e, Home(e), RowOf(e))
           /\ \A e \in Thing : \A a, i : PlacedAt(tables, e, a, i) => e \in Alive /\ a = Home(e) /\ i = RowOf(e)
<1>1. \A a, b \in DOMAIN tables : \A i \in DOMAIN tables[a], j \in DOMAIN tables[b] :
         tables[a][i] = tables[b][j] => a = b /\ i = j
  BY DEF StorageSound, OnePlace
<1>2. ASSUME NEW e \in Alive PROVE PlacedAt(tables, e, Home(e), RowOf(e))
  <2>1. \E a \in DOMAIN tables : In(e, a)
    BY DEF Alive
  <2>2. Home(e) \in DOMAIN tables /\ In(e, Home(e))
    BY <2>1, Zenon DEF Home
  <2>3. \E i \in DOMAIN tables[Home(e)] : tables[Home(e)][i] = e
    BY <2>2, Zenon DEF In
  <2>4. RowOf(e) \in DOMAIN tables[Home(e)] /\ tables[Home(e)][RowOf(e)] = e
    BY <2>3, Zenon DEF RowOf
  <2> QED
    BY <2>2, <2>4, Zenon DEF PlacedAt
<1>3. ASSUME NEW e \in Thing, NEW a, NEW i, PlacedAt(tables, e, a, i)
      PROVE  e \in Alive /\ a = Home(e) /\ i = RowOf(e)
  <2>1. a \in DOMAIN tables /\ i \in DOMAIN tables[a] /\ tables[a][i] = e
    BY <1>3 DEF PlacedAt
  <2>2. e \in Alive
    BY <2>1, Zenon DEF Alive, In
  <2>3. PlacedAt(tables, e, Home(e), RowOf(e))
    BY <1>2, <2>2
  <2>4. Home(e) \in DOMAIN tables /\ RowOf(e) \in DOMAIN tables[Home(e)] /\ tables[Home(e)][RowOf(e)] = e
    BY <2>3 DEF PlacedAt
  <2> DEFINE h == Home(e)
             r == RowOf(e)
  <2> HIDE DEF h, r
  <2>5. h \in DOMAIN tables /\ r \in DOMAIN tables[h] /\ tables[h][r] = e
    BY <2>4 DEF h, r
  <2>6. a = h /\ i = r
    BY <1>1, <2>1, <2>5
  <2> QED
    BY <2>2, <2>6 DEF h, r
<1> QED
  BY <1>2, <1>3

(* A call that keeps the storage. *)
LEMMA Became ==
    ASSUME StampInv, NEW s, Become(s), KeptSound(s, archetypes, inserted', lastWrite', restamped'), UNCHANGED cache
    PROVE  /\ StorageSound(archetypes, tables, columnTicks, setTicks, inserted, lastWrite, restamped, {})'
           /\ CacheRight(archetypes, cache)'
<1>1. PICK A, R, C, S : /\ s = StorageOf(A, R, C, S) /\ Grows(archetypes, A)
                        /\ StorageSound(A, R, C, S, inserted', lastWrite', restamped', {})
  BY DEF KeptSound
<1>2. archetypes' = A /\ tables' = R /\ columnTicks' = C /\ setTicks' = S
  BY <1>1, StorageFields DEF Become
<1>3. StorageSound(archetypes, tables, columnTicks, setTicks, inserted, lastWrite, restamped, {})'
  BY <1>1, <1>2
<1>4. archetypes \in Seq(SUBSET Type) /\ CacheRight(archetypes, cache)
  BY DEF StampInv, StorageSound, StorageShape
<1>5. CacheRight(A, cache)
  BY <1>1, <1>4, CacheKept
<1>6. CacheRight(archetypes', cache')
  BY <1>2, <1>5
<1> QED
  BY <1>3, <1>6

LEMMA StampStart == ChangeInit => StampInv
<1> SUFFICES ASSUME ChangeInit PROVE StampInv
  OBVIOUS
<1>1. /\ archetypes = << {} >> /\ tables = [a \in {{}} |-> <<>>] /\ columnTicks = [a \in {{}} |-> <<>>]
      /\ setTicks = [c \in SetType |-> << >>]
  BY DEF ChangeInit
<1>2. Len(archetypes) = 1 /\ DOMAIN archetypes = {1} /\ archetypes[1] = {} /\ archetypes \in Seq(SUBSET Type)
  <2> DEFINE B == SUBSET Type
  <2>1. {} \in B
    OBVIOUS
  <2> HIDE DEF B
  <2>2. archetypes \in Seq(B) /\ Len(archetypes) = 1 /\ DOMAIN archetypes = 1 .. 1 /\ archetypes[1] = {}
    BY <1>1, <2>1
  <2>3. 1 .. 1 = {1}
    OBVIOUS
  <2> QED
    BY <2>2, <2>3 DEF B
<1>3. {archetypes[i] : i \in DOMAIN archetypes} = {{}}
  <2>1. ASSUME NEW x PROVE x \in {archetypes[i] : i \in DOMAIN archetypes} <=> x = {}
    <3>1. x \in {archetypes[i] : i \in DOMAIN archetypes} <=> \E i \in DOMAIN archetypes : x = archetypes[i]
      OBVIOUS
    <3>2. 1 \in DOMAIN archetypes /\ \A i \in DOMAIN archetypes : i = 1
      BY <1>2
    <3> QED
      BY <1>2, <3>1, <3>2
  <2> QED
    BY <2>1
<1>4. tables \in [{archetypes[i] : i \in DOMAIN archetypes} -> Seq(Thing)]
  <2>1. <<>> \in Seq(Thing)
    OBVIOUS
  <2>2. tables \in [{{}} -> Seq(Thing)]
    BY <1>1, <2>1
  <2> QED
    BY <1>3, <2>2
<1>5. \A a \in DOMAIN tables : columnTicks[a] \in Seq([a \cap ColumnType -> Stamp]) /\ Len(columnTicks[a]) = Len(tables[a])
  <2> TAKE a \in DOMAIN tables
  <2> DEFINE B == [a \cap ColumnType -> Stamp]
  <2>1. columnTicks[a] = <<>> /\ tables[a] = <<>>
    BY <1>1
  <2>2. <<>> \in Seq(B)
    OBVIOUS
  <2> QED
    BY <2>1, <2>2
<1>6. \A c \in SetType : setTicks[c] \in [DOMAIN setTicks[c] -> Stamp]
  <2> TAKE c \in SetType
  <2>1. setTicks[c] = << >> /\ DOMAIN << >> = {}
    BY <1>1
  <2>2. << >> = [x \in {} |-> x]
    OBVIOUS
  <2>3. setTicks[c] \in [{} -> Stamp]
    BY <2>1, <2>2
  <2> QED
    BY <2>1, <2>3
<1>7. StorageShape(archetypes, tables, columnTicks, setTicks)
  <2>1. DOMAIN columnTicks = DOMAIN tables /\ columnTicks = [a \in DOMAIN tables |-> columnTicks[a]]
    BY <1>1
  <2>2. DOMAIN setTicks = SetType /\ setTicks = [c \in SetType |-> setTicks[c]]
    BY <1>1
  <2>3. \A i, j \in DOMAIN archetypes : archetypes[i] = archetypes[j] => i = j
    BY <1>2
  <2> QED
    BY <1>2, <1>4, <1>5, <1>6, <2>1, <2>2, <2>3 DEF StorageShape
<1>8. \A a \in DOMAIN tables : DOMAIN tables[a] = {}
  BY <1>1
<1>9. StorageSound(archetypes, tables, columnTicks, setTicks, inserted, lastWrite, restamped, {})
  BY <1>7, <1>8 DEF StorageSound, OnePlace, AllRight
<1>10. CacheRight(archetypes, cache)
  <2>1. PICK q \in Query : cache = [query |-> q, matched |-> <<>>, nextScan |-> 0]
    BY DEF ChangeInit
  <2> DEFINE B == SUBSET Type
  <2>2. <<>> \in Seq(B) /\ DOMAIN <<>> = {} /\ 1 .. 0 = {}
    OBVIOUS
  <2> HIDE DEF B
  <2>3. cache \in [query : Query, matched : Seq(B), nextScan : Nat] /\ cache.matched = <<>> /\ cache.nextScan = 0
    BY <2>1, <2>2
  <2>4. cache.nextScan <= Len(archetypes)
    BY <1>2, <2>3
  <2> QED
    BY <2>2, <2>3, <2>4 DEF CacheRight, Distinct, B
<1>11. RemovalsRight /\ tick \in Nat /\ lastTick \in Nat
  BY DEF ChangeInit, RemovalsRight
<1> QED
  BY <1>9, <1>10, <1>11 DEF StampInv

LEMMA HereNow ==
    ASSUME StampInv
    PROVE  /\ Storage = StorageOf(archetypes, tables, columnTicks, setTicks)
           /\ tick \in Nat
           /\ StorageSound(archetypes, tables, columnTicks, setTicks, inserted, lastWrite, restamped, {})
           /\ \A e \in Alive : PlacedAt(tables, e, Home(e), RowOf(e))
BY AtHome DEF StampInv, Storage, StorageOf

(* What a call leaves of the removals, when it removed nothing tracked. *)
LEMMA SameRemovals ==
    ASSUME RemovalsRight, UNCHANGED <<tick, lastTick, removals, pace, gone>>
    PROVE  RemovalsRight'
BY DEF RemovalsRight

LEMMA SpawnStamps ==
    ASSUME StampInv, NEW e \in Thing, NEW types \in SUBSET Type, SpawnThing(e, types)
    PROVE  StampInv'
<1>1. KeptSound(Added(Archetype(Storage, types), types, e, types, << >>), archetypes, inserted', lastWrite', restamped')
  <2>1. KeptSound(Added(Archetype(StorageOf(archetypes, tables, columnTicks, setTicks), types), types, e, types, << >>), archetypes,
             Put(inserted, e, [c \in types |-> tick]), Put(lastWrite, e, [c \in types |-> tick]), restamped)
    <3>1. e \notin DOMAIN inserted
      BY DEF SpawnThing
    <3> QED
      BY <3>1, HereNow, SpawnKeeps
  <2>2. /\ inserted' = Put(inserted, e, [c \in types |-> tick])
        /\ lastWrite' = Put(lastWrite, e, [c \in types |-> tick]) /\ restamped' = restamped
    BY DEF SpawnThing
  <2> QED
    BY <2>1, <2>2, HereNow, Zenon
<1>2. Become(Added(Archetype(Storage, types), types, e, types, << >>))
      /\ UNCHANGED <<tick, lastTick, removals, cache, pace, gone>>
  BY DEF SpawnThing
<1>3. /\ StorageSound(archetypes, tables, columnTicks, setTicks, inserted, lastWrite, restamped, {})'
      /\ CacheRight(archetypes, cache)'
  BY <1>1, <1>2, Became
<1> QED
  BY <1>2, <1>3, SameRemovals DEF StampInv

LEMMA InsertStamps ==
    ASSUME StampInv, NEW e \in Alive, NEW types \in SUBSET Type, Insert(e, types)
    PROVE  StampInv'
<1> DEFINE from == Home(e)
           to == from \cup types
           s == StorageOf(archetypes, tables, columnTicks, setTicks)
           moved == Migrated(s, e, to, types)
<1>1. /\ inserted' = InsertedTo(inserted, e, from, to)
      /\ lastWrite' = WrittenTo(lastWrite, e, types, to)
      /\ restamped' = IF to = from THEN restamped ELSE Restamps(restamped, e, types, from)
      /\ Become(IF to = from THEN Stamped(s, e, from, RowOf(e), types) ELSE ChangedTo(moved, e, to, from, types))
      /\ UNCHANGED <<tick, lastTick, removals, cache, pace, gone>>
  <2> HIDE DEF s
  <2>1. Storage = s
    BY HereNow DEF s
  <2> QED
    BY <2>1, Zenon DEF Insert, InsertedTo, WrittenTo, Restamps, ChangedTo
<1>2. PlacedAt(tables, e, from, RowOf(e)) /\ tick \in Nat
      /\ StorageSound(archetypes, tables, columnTicks, setTicks, inserted, lastWrite, restamped, {})
  BY HereNow
<1>3. CASE to = from
  <2>1. types \in SUBSET from
    BY <1>3
  <2>2. KeptSound(Stamped(s, e, from, RowOf(e), types), archetypes,
             InsertedTo(inserted, e, from, from), WrittenTo(lastWrite, e, types, from), restamped)
    <3> HIDE DEF from
    <3> QED
      BY <1>2, <2>1, InsertKeeps
  <2>3. /\ inserted' = InsertedTo(inserted, e, from, from)
        /\ lastWrite' = WrittenTo(lastWrite, e, types, from)
        /\ restamped' = restamped /\ Become(Stamped(s, e, from, RowOf(e), types))
    <3> HIDE DEF from, to, s, moved
    <3> QED
      BY <1>1, <1>3, Zenon
  <2> HIDE DEF from, to, s, moved
  <2>4. KeptSound(Stamped(s, e, from, RowOf(e), types), archetypes, inserted', lastWrite', restamped')
    BY <2>2, <2>3, Zenon
  <2>5. /\ StorageSound(archetypes, tables, columnTicks, setTicks, inserted, lastWrite, restamped, {})'
        /\ CacheRight(archetypes, cache)'
    BY <1>1, <2>3, <2>4, Became
  <2> QED
    BY <1>1, <2>5, SameRemovals DEF StampInv
<1>4. CASE to # from
  <2> DEFINE re2 == Restamps(restamped, e, types, from)
             new == ChangedTo(moved, e, to, from, types)
  <2>1. KeptSound(new, archetypes, InsertedTo(inserted, e, from, to), WrittenTo(lastWrite, e, types, to), re2)
    BY <1>2, InsertMoves
  <2> HIDE DEF from, to, s, moved
  <2>2. restamped' = re2 /\ Become(new)
    BY <1>1, <1>4, Zenon
  <2> HIDE DEF re2, new
  <2>3. KeptSound(new, archetypes, inserted', lastWrite', restamped')
    BY <1>1, <2>1, <2>2, Zenon
  <2>4. /\ StorageSound(archetypes, tables, columnTicks, setTicks, inserted, lastWrite, restamped, {})'
        /\ CacheRight(archetypes, cache)'
    BY <1>1, <2>2, <2>3, Became
  <2> QED
    BY <1>1, <2>4, SameRemovals DEF StampInv
<1> QED
  BY <1>3, <1>4

(* The removal of the tracked type is told, at the tick of now. *)
LEMMA TellRemoval ==
    ASSUME StampInv, NEW e \in Thing, UNCHANGED <<tick, lastTick, pace>>,
           removals' = Append(removals, [entity |-> e, tick |-> tick]), gone' = gone \cup {<<e, 0>>}
    PROVE  RemovalsRight'
<1> DEFINE x == [entity |-> e, tick |-> tick]
           n == Len(removals)
<1>1. /\ tick \in Nat /\ lastTick \in Nat /\ removals \in Seq(RemovalRecord)
      /\ gone \in SUBSET (Thing \X {0, 1}) /\ pace \in [ticked : BOOLEAN, busy : BOOLEAN]
      /\ ~pace.busy => /\ tick = IF pace.ticked THEN lastTick + 1 ELSE lastTick
                       /\ \A g \in gone : \E i \in DOMAIN removals :
                            removals[i].entity = g[1] /\ removals[i].tick >= lastTick - g[2]
  BY DEF StampInv, RemovalsRight
<1>2. x \in RemovalRecord /\ x.entity = e /\ x.tick = tick
  BY <1>1 DEF RemovalRecord
<1> HIDE DEF x
<1>3. /\ removals' \in Seq(RemovalRecord) /\ n \in Nat /\ n + 1 \in DOMAIN removals' /\ removals'[n + 1] = x
      /\ \A i \in DOMAIN removals : i \in DOMAIN removals' /\ removals'[i] = removals[i]
  <2>1. removals' = Append(removals, x)
    BY DEF x
  <2> QED
    BY <1>1, <1>2, <2>1
<1>4. gone' \in SUBSET (Thing \X {0, 1})
  BY <1>1
<1>5. ASSUME ~pace.busy, NEW g \in gone'
      PROVE  \E i \in DOMAIN removals' : removals'[i].entity = g[1] /\ removals'[i].tick >= lastTick - g[2]
  <2>1. CASE g \in gone
    BY <1>1, <1>3, <1>5, <2>1
  <2>2. CASE g = <<e, 0>>
    <3>1. tick >= lastTick - 0
      BY <1>1, <1>5
    <3> QED
      BY <1>2, <1>3, <2>2, <3>1
  <2> QED
    BY <2>1, <2>2
<1> QED
  BY <1>1, <1>3, <1>4, <1>5 DEF RemovalsRight

LEMMA RemoveStamps ==
    ASSUME StampInv, NEW e \in Alive, NEW x \in Type, RemoveByID(e, x)
    PROVE  StampInv'
<1> DEFINE s == StorageOf(archetypes, tables, columnTicks, setTicks)
           S1 == SetsWithout(setTicks, e, x)
           new == Migrated(StorageOf(archetypes, tables, columnTicks, S1), e, Home(e) \ {x}, {})
<1>1. /\ x \in Home(e)
      /\ Become(Migrated([Storage EXCEPT !.setTicks = [d \in SetType |-> IF d = x THEN Drop(@[d], e) ELSE @[d]]],
                         e, Home(e) \ {x}, {}))
      /\ inserted' = WithoutType(inserted, e, x) /\ lastWrite' = WithoutType(lastWrite, e, x)
      /\ restamped' = restamped \ {<<e, x>>}
      /\ UNCHANGED <<tick, lastTick, cache, pace>>
  BY Zenon DEF RemoveByID, WithoutType
<1>2. [Storage EXCEPT !.setTicks = [d \in SetType |-> IF d = x THEN Drop(@[d], e) ELSE @[d]]]
        = StorageOf(archetypes, tables, columnTicks, S1)
  BY DEF Storage, StorageOf, SetsWithout
<1>3. Become(new)
  BY <1>1, <1>2, Zenon
<1>4. PlacedAt(tables, e, Home(e), RowOf(e)) /\ tick \in Nat
      /\ StorageSound(archetypes, tables, columnTicks, setTicks, inserted, lastWrite, restamped, {})
  BY HereNow
<1>5. KeptSound(new, archetypes, WithoutType(inserted, e, x), WithoutType(lastWrite, e, x), restamped \ {<<e, x>>})
  BY <1>1, <1>4, RemoveKeeps
<1> HIDE DEF new
<1>6. KeptSound(new, archetypes, inserted', lastWrite', restamped')
  BY <1>1, <1>5, Zenon
<1>7. /\ StorageSound(archetypes, tables, columnTicks, setTicks, inserted, lastWrite, restamped, {})'
      /\ CacheRight(archetypes, cache)'
  BY <1>1, <1>3, <1>6, Became
<1>8. RemovalsRight'
  <2>1. CASE x = Tracked
    <3>1. removals' = Append(removals, [entity |-> e, tick |-> tick]) /\ gone' = gone \cup {<<e, 0>>}
      BY <2>1 DEF RemoveByID
    <3>2. e \in Thing
      BY DEF Alive
    <3> QED
      BY <1>1, <3>1, <3>2, TellRemoval
  <2>2. CASE x # Tracked
    <3>1. UNCHANGED <<removals, gone>>
      BY <2>2 DEF RemoveByID
    <3> QED
      BY <1>1, <3>1, SameRemovals DEF StampInv
  <2> QED
    BY <2>1, <2>2
<1> QED
  BY <1>1, <1>7, <1>8 DEF StampInv

LEMMA DespawnStamps ==
    ASSUME StampInv, NEW e \in Alive, DespawnThing(e)
    PROVE  StampInv'
<1> DEFINE new == Dead(Storage, e, Home(e), RowOf(e))
<1>1. /\ Become(new) /\ inserted' = WithoutAny(inserted, e) /\ lastWrite' = WithoutAny(lastWrite, e)
      /\ restamped' = NoneOf(restamped, e) /\ UNCHANGED <<tick, lastTick, removals, cache, pace, gone>>
  BY Zenon DEF DespawnThing, Dead, WithoutAny, NoneOf
<1>2. KeptSound(Dead(StorageOf(archetypes, tables, columnTicks, setTicks), e, Home(e), RowOf(e)), archetypes,
           WithoutAny(inserted, e), WithoutAny(lastWrite, e), NoneOf(restamped, e))
  <2>1. PlacedAt(tables, e, Home(e), RowOf(e))
        /\ StorageSound(archetypes, tables, columnTicks, setTicks, inserted, lastWrite, restamped, {})
    BY HereNow
  <2> HIDE DEF new
  <2> QED
    BY <2>1, DespawnKeeps
<1>3. KeptSound(new, archetypes, inserted', lastWrite', restamped')
  BY <1>1, <1>2, HereNow, Zenon
<1> HIDE DEF new
<1>4. /\ StorageSound(archetypes, tables, columnTicks, setTicks, inserted, lastWrite, restamped, {})'
      /\ CacheRight(archetypes, cache)'
  BY <1>1, <1>3, Became
<1> QED
  BY <1>1, <1>4, SameRemovals DEF StampInv

LEMMA TickStamps == ASSUME StampInv, IncrementTick PROVE StampInv'
<1>1. /\ tick \in Nat /\ lastTick \in Nat /\ tick' = tick + 1 /\ lastTick' = lastTick
      /\ pace' = [ticked |-> TRUE, busy |-> pace.busy \/ pace.ticked] /\ removals' = removals /\ gone' = gone
      /\ UNCHANGED <<storageVars, cache, ghostVars>>
  BY DEF StampInv, IncrementTick
<1>2. /\ StorageSound(archetypes, tables, columnTicks, setTicks, inserted, lastWrite, restamped, {})'
      /\ CacheRight(archetypes, cache)'
  BY <1>1 DEF StampInv, storageVars, ghostVars
<1>3. RemovalsRight'
  <2>1. RemovalsRight
    BY DEF StampInv
  <2>2. pace' \in [ticked : BOOLEAN, busy : BOOLEAN] /\ pace'.ticked = TRUE /\ pace'.busy = (pace.busy \/ pace.ticked)
    <3>1. pace.busy \in BOOLEAN /\ pace.ticked \in BOOLEAN
      BY <2>1 DEF RemovalsRight
    <3> QED
      BY <1>1, <3>1
  <2>3. ~pace'.busy => ~pace.busy /\ ~pace.ticked
    BY <2>2
  <2>4. ~pace.busy /\ ~pace.ticked => tick = lastTick
    BY <2>1 DEF RemovalsRight
  <2>5. ~pace'.busy => tick' = IF pace'.ticked THEN lastTick' + 1 ELSE lastTick'
    BY <1>1, <2>2, <2>3, <2>4
  <2> QED
    BY <1>1, <2>1, <2>2, <2>3, <2>5 DEF RemovalsRight
<1> QED
  BY <1>1, <1>2, <1>3 DEF StampInv

LEMMA ClearStamps == ASSUME StampInv, ClearTrackers PROVE StampInv'
<1> DEFINE recent == {i \in DOMAIN removals : tick < 2 \/ removals[i].tick > tick - 2}
           keep == {removals[i] : i \in recent}
<1>1. /\ tick \in Nat /\ lastTick \in Nat /\ lastTick' = tick /\ tick' = tick
      /\ removals' = Filtered(removals, keep) /\ pace' = [pace EXCEPT !.ticked = FALSE]
      /\ gone' = {<<g[1], 1>> : g \in {g \in gone : g[2] = 0}}
      /\ UNCHANGED <<storageVars, cache, ghostVars>>
  BY DEF StampInv, ClearTrackers, DrainBefore
<1>2. /\ StorageSound(archetypes, tables, columnTicks, setTicks, inserted, lastWrite, restamped, {})'
      /\ CacheRight(archetypes, cache)'
  BY <1>1 DEF StampInv, storageVars, ghostVars
<1>3. /\ removals \in Seq(RemovalRecord) /\ gone \in SUBSET (Thing \X {0, 1}) /\ pace \in [ticked : BOOLEAN, busy : BOOLEAN]
      /\ ~pace.busy => /\ tick = IF pace.ticked THEN lastTick + 1 ELSE lastTick
                       /\ \A g \in gone : \E i \in DOMAIN removals :
                            removals[i].entity = g[1] /\ removals[i].tick >= lastTick - g[2]
  BY DEF StampInv, RemovalsRight
<1>4. pace' \in [ticked : BOOLEAN, busy : BOOLEAN] /\ pace'.ticked = FALSE /\ pace'.busy = pace.busy
  BY <1>1, <1>3
<1>5. removals' \in Seq(RemovalRecord)
  <2> HIDE DEF keep
  <2> QED
    BY <1>1, <1>3, FilterKeeps
<1>6. gone' \in SUBSET (Thing \X {0, 1})
  <2>1. ASSUME NEW g \in gone' PROVE g \in Thing \X {0, 1}
    <3>1. PICK h \in gone : g = <<h[1], 1>>
      BY <1>1
    <3>2. h[1] \in Thing
      BY <1>3
    <3> QED
      BY <3>1, <3>2
  <2> QED
    BY <2>1
<1>7. ASSUME ~pace.busy, NEW g \in gone'
      PROVE  \E i \in DOMAIN removals' : removals'[i].entity = g[1] /\ removals'[i].tick >= tick - g[2]
  <2>1. PICK h \in gone : h[2] = 0 /\ g = <<h[1], 1>>
    BY <1>1
  <2>2. PICK i \in DOMAIN removals : removals[i].entity = h[1] /\ removals[i].tick >= lastTick - h[2]
    BY <1>3, <1>7
  <2> DEFINE r == removals[i]
  <2>3. r \in RemovalRecord
    BY <1>3
  <2>4. r.tick \in Nat /\ r.tick >= lastTick - 0
    <3> HIDE DEF r
    <3>1. r.tick \in Nat
      BY <2>3 DEF RemovalRecord
    <3> QED
      BY <2>1, <2>2, <3>1 DEF r
  <2> HIDE DEF r
  <2>5. tick = lastTick \/ tick = lastTick + 1
    BY <1>3, <1>7
  <2>6. r.tick >= tick - 1 /\ (tick < 2 \/ r.tick > tick - 2)
    BY <1>1, <2>4, <2>5
  <2>7. removals[i] \in keep
    BY <2>6 DEF r
  <2> HIDE DEF keep
  <2>8. PICK j \in DOMAIN removals' : removals'[j] = removals[i]
    BY <1>1, <1>3, <2>7, RecordsFilled
  <2>9. removals'[j].entity = g[1] /\ removals'[j].tick >= tick - g[2]
    BY <2>1, <2>2, <2>6, <2>8 DEF r
  <2> QED
    BY <2>9
<1>8. RemovalsRight'
  BY <1>1, <1>4, <1>5, <1>6, <1>7 DEF RemovalsRight
<1> QED
  BY <1>1, <1>2, <1>8 DEF StampInv

LEMMA RefreshStamps == ASSUME StampInv, Refresh PROVE StampInv'
<1>1. StorageShape(archetypes, tables, columnTicks, setTicks) /\ CacheRight(archetypes, cache)
  BY DEF StampInv, StorageSound
<1>2. CacheRight(archetypes, Refreshed)
  BY <1>1, RefreshRight
<1>3. cache' = Refreshed /\ UNCHANGED <<storageVars, tick, lastTick, removals, ghostVars, pace, gone>>
  BY DEF Refresh
<1> HIDE DEF Refreshed
<1> QED
  BY <1>2, <1>3, SameRemovals DEF StampInv, storageVars, ghostVars

LEMMA StampStep == StampInv /\ [ChangeNext]_changeVars => StampInv'
<1> SUFFICES ASSUME StampInv, [ChangeNext]_changeVars PROVE StampInv'
  OBVIOUS
<1>1. CASE Change
  <2>1. CASE \E e \in Thing, types \in SUBSET Type : Fits(types) /\ SpawnThing(e, types)
    BY <2>1, SpawnStamps
  <2>2. CASE \E e \in Alive, types \in SUBSET Type \ {{}} : Fits(Home(e) \cup types) /\ Insert(e, types)
    BY <2>2, InsertStamps
  <2>3. CASE \E e \in Alive, x \in Type : Fits(Home(e) \ {x}) /\ RemoveByID(e, x)
    BY <2>3, RemoveStamps
  <2>4. CASE \E e \in Alive : DespawnThing(e)
    BY <2>4, DespawnStamps
  <2> QED
    BY <1>1, <2>1, <2>2, <2>3, <2>4 DEF Change
<1>2. CASE IncrementTick
  BY <1>2, TickStamps
<1>3. CASE ClearTrackers
  BY <1>3, ClearStamps
<1>4. CASE Refresh
  BY <1>4, RefreshStamps
<1>5. CASE UNCHANGED changeVars
  BY <1>5, SameRemovals DEF StampInv, changeVars, storageVars, ghostVars
<1> QED
  BY <1>1, <1>2, <1>3, <1>4, <1>5 DEF ChangeNext

(* The ticks of the storage, the queries' cache and the trackers' records  *)
(* are right in every state.                                               *)
THEOREM StampInvariant == ChangeSpec => []StampInv
<1>1. ChangeInit => StampInv
  BY StampStart
<1>2. StampInv /\ [ChangeNext]_changeVars => StampInv'
  BY StampStep
<1> QED
  BY <1>1, <1>2, PTL DEF ChangeSpec

LEMMA YieldedAre ==
    ASSUME StampInv, NEW p \in Yielded
    PROVE  LET k == p[1] i == p[2] a == Refreshed.matched[k] IN
           /\ p = <<k, i>> /\ k \in DOMAIN Refreshed.matched /\ i \in DOMAIN tables[a] /\ Passes(cache.query, a, i)
           /\ EntityAt(p) = tables[a][i]
<1>1. PICK k \in DOMAIN Refreshed.matched :
          p \in {<<k, i>> : i \in {j \in DOMAIN tables[Refreshed.matched[k]] : Passes(cache.query, Refreshed.matched[k], j)}}
  BY Zenon DEF Yielded
<1>2. PICK i \in DOMAIN tables[Refreshed.matched[k]] : p = <<k, i>> /\ Passes(cache.query, Refreshed.matched[k], i)
  BY <1>1
<1>3. p[1] = k /\ p[2] = i
  BY <1>2
<1> QED
  BY <1>2, <1>3, Zenon DEF EntityAt

LEMMA ExactInState == StampInv => QueriesExact
<1> SUFFICES ASSUME StampInv PROVE QueriesExact
  OBVIOUS
<1> DEFINE q == cache.query
           m == Refreshed.matched
           since(e) == /\ \A c \in q.added : inserted[e][c] > lastTick \/ <<e, c>> \in restamped
                       /\ \A c \in q.changed : lastWrite[e][c] > lastTick
           wanted == {e \in Alive : Matches(q, Home(e)) /\ since(e)}
<1>1. /\ StorageSound(archetypes, tables, columnTicks, setTicks, inserted, lastWrite, restamped, {})
      /\ StorageShape(archetypes, tables, columnTicks, setTicks) /\ OnePlace(tables) /\ CacheRight(archetypes, cache)
      /\ \A a : a \in DOMAIN tables <=> \E j \in 1 .. Len(archetypes) : a = archetypes[j]
  <2>1. /\ StorageSound(archetypes, tables, columnTicks, setTicks, inserted, lastWrite, restamped, {})
        /\ StorageShape(archetypes, tables, columnTicks, setTicks) /\ OnePlace(tables) /\ CacheRight(archetypes, cache)
    BY DEF StampInv, StorageSound
  <2>2. DOMAIN tables = {archetypes[j] : j \in DOMAIN archetypes} /\ archetypes \in Seq(SUBSET Type)
    BY <2>1 DEF StorageShape
  <2>3. DOMAIN archetypes = 1 .. Len(archetypes)
    BY <2>2
  <2> QED
    BY <2>1, <2>2, <2>3
<1>2. CacheRight(archetypes, Refreshed) /\ Refreshed.nextScan = Len(archetypes) /\ Refreshed.query = q
  BY <1>1, RefreshRight
<1> HIDE DEF m
<1>3. /\ Distinct(m)
      /\ \A k \in DOMAIN m : m[k] \in DOMAIN tables /\ Matches(q, m[k])
      /\ \A a \in DOMAIN tables : Matches(q, a) => \E k \in DOMAIN m : m[k] = a
  <2> HIDE DEF q, since, wanted
  <2> DEFINE n == Len(archetypes)
             r == Refreshed
  <2>1. CacheRight(archetypes, r) /\ r.nextScan = n /\ r.query = q /\ m = r.matched
    BY <1>2 DEF m
  <2> HIDE DEF r, n
  <2>2. /\ Distinct(m)
        /\ \A k \in DOMAIN m : \E j \in 1 .. n : m[k] = archetypes[j] /\ Matches(q, archetypes[j])
        /\ \A j \in 1 .. n : Matches(q, archetypes[j]) => \E k \in DOMAIN m : m[k] = archetypes[j]
    BY <2>1 DEF CacheRight
  <2>3. \A a : a \in DOMAIN tables <=> \E j \in 1 .. n : a = archetypes[j]
    BY <1>1 DEF n
  <2> QED
    BY <2>2, <2>3
<1>4. q \in Query /\ q.added \cup q.changed \subseteq q.required
  <2>1. q \in Query
    BY <1>1 DEF CacheRight
  <2> QED
    BY <2>1, ChangeAssumption
<1> HIDE DEF q
<1>5. ASSUME NEW p \in Yielded
      PROVE  /\ p = <<p[1], p[2]>> /\ p[1] \in DOMAIN m /\ p[2] \in DOMAIN tables[m[p[1]]]
             /\ Passes(q, m[p[1]], p[2]) /\ EntityAt(p) = tables[m[p[1]]][p[2]]
  BY <1>5, YieldedAre DEF m, q
<1>6. ASSUME NEW e, NEW a, NEW i, PlacedAt(tables, e, a, i), Matches(q, a)
      PROVE  /\ e \in Alive /\ Home(e) = a
             /\ Passes(q, a, i) => since(e)
             /\ since(e) => Passes(q, a, i) \/ \E c \in q.added : <<e, c>> \in restamped
  <2> DEFINE cell == columnTicks[a][i]
  <2>1. TicksRight(e, a, cell, setTicks, inserted, lastWrite, restamped) /\ a \in SUBSET Type /\ e \in Thing
    BY <1>1, <1>6, RightAtHome
  <2>2. e \in Alive /\ Home(e) = a
    BY <1>1, <1>6, <2>1, AtHome
  <2>3. tables[a][i] = e
    BY <1>6 DEF PlacedAt
  <2>4. \A c \in q.added \cup q.changed : c \in a /\ c \in Type
    BY <1>4, <1>6, <2>1 DEF Matches
  <2>5. ASSUME NEW c \in a
        PROVE  /\ RowTicks(a, i, c).changed = lastWrite[e][c]
               /\ RowTicks(a, i, c).added = inserted[e][c] \/ <<e, c>> \in restamped
    <3>1. c \in SetType \/ (c \in ColumnType /\ c \notin SetType)
      BY <2>1, <2>5 DEF Type
    <3>2. RowTicks(a, i, c) = IF c \in SetType THEN setTicks[c][e] ELSE cell[c]
      BY <2>3 DEF RowTicks
    <3> HIDE DEF cell
    <3> QED
      BY <2>1, <3>1, <3>2 DEF TicksRight
  <2> HIDE DEF cell
  <2>6. Passes(q, a, i) => since(e)
    BY <2>4, <2>5 DEF Passes
  <2>7. since(e) => Passes(q, a, i) \/ \E c \in q.added : <<e, c>> \in restamped
    BY <2>4, <2>5 DEF Passes
  <2> QED
    BY <2>2, <2>6, <2>7
<1> HIDE DEF since
<1>7. ASSUME NEW x \in Yielded, NEW y \in Yielded, EntityAt(x) = EntityAt(y) PROVE x = y
  <2>1. /\ x = <<x[1], x[2]>> /\ x[1] \in DOMAIN m /\ x[2] \in DOMAIN tables[m[x[1]]] /\ EntityAt(x) = tables[m[x[1]]][x[2]]
        /\ y = <<y[1], y[2]>> /\ y[1] \in DOMAIN m /\ y[2] \in DOMAIN tables[m[y[1]]] /\ EntityAt(y) = tables[m[y[1]]][y[2]]
    BY <1>5
  <2>2. m[x[1]] = m[y[1]] /\ x[2] = y[2]
    <3>1. m[x[1]] \in DOMAIN tables /\ m[y[1]] \in DOMAIN tables
      BY <1>3, <2>1
    <3> DEFINE a == m[x[1]]
               b == m[y[1]]
               i == x[2]
               j == y[2]
    <3>2. a \in DOMAIN tables /\ b \in DOMAIN tables /\ i \in DOMAIN tables[a] /\ j \in DOMAIN tables[b]
          /\ tables[a][i] = tables[b][j]
      BY <1>7, <2>1, <3>1
    <3> HIDE DEF a, b, i, j
    <3>3. a = b /\ i = j
      BY <1>1, <3>2 DEF OnePlace
    <3> QED
      BY <3>3 DEF a, b, i, j
  <2>3. x[1] = y[1]
    BY <1>3, <2>1, <2>2 DEF Distinct
  <2> QED
    BY <2>1, <2>2, <2>3
<1>8. ASSUME NEW x \in Yielded PROVE EntityAt(x) \in wanted
  <2>1. PlacedAt(tables, EntityAt(x), m[x[1]], x[2]) /\ Matches(q, m[x[1]]) /\ Passes(q, m[x[1]], x[2])
    BY <1>3, <1>5 DEF PlacedAt
  <2> QED
    BY <1>6, <2>1
<1>9. ASSUME NEW e \in wanted PROVE (\E x \in Yielded : EntityAt(x) = e) \/ \E c \in q.added : <<e, c>> \in restamped
  <2>1. e \in Alive /\ Matches(q, Home(e)) /\ since(e)
    OBVIOUS
  <2> DEFINE a == Home(e)
             i == RowOf(e)
  <2>2. PlacedAt(tables, e, a, i)
    BY <1>1, <2>1, AtHome
  <2> HIDE DEF a, i
  <2>3. Matches(q, a)
    BY <2>1 DEF a
  <2>4. SUFFICES ASSUME Passes(q, a, i) PROVE \E x \in Yielded : EntityAt(x) = e
    BY <1>6, <2>1, <2>2, <2>3
  <2>5. a \in DOMAIN tables /\ i \in DOMAIN tables[a] /\ tables[a][i] = e
    BY <2>2 DEF PlacedAt
  <2>6. PICK k \in DOMAIN m : m[k] = a
    BY <1>3, <2>3, <2>5
  <2>7. <<k, i>> \in Yielded
    <3>1. i \in {j \in DOMAIN tables[m[k]] : Passes(q, m[k], j)}
      BY <2>4, <2>5, <2>6
    <3>2. <<k, i>> \in {<<k, l>> : l \in {j \in DOMAIN tables[m[k]] : Passes(q, m[k], j)}}
      BY <3>1
    <3> QED
      BY <2>6, <3>2, Zenon DEF Yielded, m, q
  <2>8. EntityAt(<<k, i>>) = e
    BY <2>5, <2>6 DEF EntityAt, m
  <2> QED
    BY <2>7, <2>8
<1> HIDE DEF wanted
<1>10. /\ \A x, y \in Yielded : EntityAt(x) = EntityAt(y) => x = y
       /\ \A x \in Yielded : EntityAt(x) \in wanted
       /\ \A e \in wanted : (\E x \in Yielded : EntityAt(x) = e) \/ \E c \in q.added : <<e, c>> \in restamped
  BY <1>7, <1>8, <1>9
<1> QED
  BY <1>10, Zenon DEF QueriesExact, wanted, since, q

(* However its cache lags and however often entities changed archetype, a  *)
(* query yields each entity once, and those whose filtered types were      *)
(* inserted, or written, since the last ClearTrackers; and as long as no   *)
(* frame advances the tick twice, a removal can be read in its own frame   *)
(* and in the next.                                                        *)
THEOREM ChangesReportedHolds == ChangeSpec => []ChangesReported
<1>1. StampInv => RemovalsSeen
  BY DEF StampInv, RemovalsRight, RemovalsSeen
<1>2. StampInv => ChangesReported
  BY <1>1, ExactInState DEF ChangesReported
<1> QED
  BY <1>2, StampInvariant, PTL

=============================================================================
