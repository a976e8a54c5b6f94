---------------------------- MODULE NetworkProofs ----------------------------
(***************************************************************************)
(* Proofs about the network: Lockstep, for any number of players, any      *)
(* delays, ring and snapshot sizes and checksum interval, and any order of *)
(* the packets; Handshake, for any clients, versions and limits;           *)
(* ReliableChannel, for any window, widths, losses and reorderings;        *)
(* Replication, for any world, whitelist, budget and visibility; and Rpc,  *)
(* for any connections, types and rates and whatever the bytes decode to.  *)
(***************************************************************************)
EXTENDS Lockstep, Handshake, ReliableChannel, Replication, Rpc, Induction, SequenceTheorems, FiniteSetTheorems, TLAPS

-----------------------------------------------------------------------------
(* Lockstep.  Three arguments.  The gate looks InputDelay ticks ahead, so  *)
(* what it saw is Buffered until its tick is run: two ticks that are fewer *)
(* apart than the ring has slots never share one.  An input that was captured once    *)
(* is the only value of its tick anywhere (OneValue), because a player     *)
(* captures again only the tick that is still in its own ring.  And a      *)
(* checksum is on its way from the later of two peers to the earlier when  *)
(* both have run its tick, and is compared when it arrives (Compared).     *)
Ticks == Nat \ {0}
InputSet == [Nodes -> Nat]
Cell == [tick : Nat, val : Nat]
Ring == [0 .. InputRing - 1 -> [Nodes -> Cell]]
Packet == [kind : {"input", "checksum"}, from : Nodes, to : Nodes, tick : Nat, val : Nat, digest : Seq(InputSet)]

LockstepTypeOK ==
    /\ tick \in [Nodes -> Nat]
    /\ peers \in [Nodes -> SUBSET Nodes]
    /\ stall \in [Nodes -> Nat]
    /\ ring \in [Nodes -> Ring]
    /\ executed \in [Nodes -> Seq(InputSet)]
    /\ net \in SUBSET Packet
    /\ checks \in [Nodes -> SUBSET Packet]
    /\ \A n \in Nodes : Len(executed[n]) = tick[n]

LEMMA Parameters ==
    /\ InputDelay \in Nat \ {0} /\ InputRing \in Nat \ {0} /\ ChecksumInterval \in Nat \ {0}
    /\ SnapshotCapacity \in Nat \ {0} /\ InputRing > InputDelay + 1
    /\ TimeoutFrames \in Nat /\ MaxTick \in Nat
BY LockstepAssumption DEF LockstepAssumption

-----------------------------------------------------------------------------
(* Slots of the ring. *)
LEMMA SlotRange == ASSUME NEW t \in Nat PROVE t % InputRing \in 0 .. InputRing - 1
BY Parameters

LEMMA DivMod ==
    ASSUME NEW R \in Nat, R > 0, NEW a \in Nat
    PROVE  a \div R \in Int /\ a = R * (a \div R) + (a % R)
<1>1. a = R * (a \div R) + (a % R)
    BY SMT
<1>2. a \div R \in Int
    BY SMT
<1> QED BY <1>1, <1>2

(* Ticks that are fewer apart than the ring has slots have slots of their  *)
(* own.                                                                    *)
LEMMA SlotsApart ==
    ASSUME NEW a \in Nat, NEW b \in Nat, a < b, b - a < InputRing
    PROVE  a % InputRing # b % InputRing
<1> DEFINE R == InputRing
<1>1. R \in Nat /\ R > 0
    BY Parameters
<1> HIDE DEF R
<1> DEFINE p == a \div R
           q == b \div R
<1>2. /\ p \in Int /\ q \in Int /\ a = R * p + (a % R) /\ b = R * q + (b % R)
      /\ a % R \in Int /\ b % R \in Int
    BY <1>1, DivMod
<1> HIDE DEF p, q
<1>3. ASSUME a % R = b % R PROVE FALSE
    <2>1. b - a = R * q - R * p
        BY <1>1, <1>2, <1>3
    <2>2. R * q - R * p = R * (q - p)
        BY <1>1, <1>2
    <2> DEFINE d == q - p
    <2>3. d \in Int /\ b - a = R * d
        BY <1>2, <2>1, <2>2
    <2> HIDE DEF d
    <2>4. CASE d <= 0
        <3>1. R * d <= 0
            BY <1>1, <2>3, <2>4
        <3> QED BY <2>3, <3>1
    <2>5. CASE d >= 1
        <3>1. R * d >= R
            BY <1>1, <2>3, <2>5
        <3>2. b - a < R
            BY DEF R
        <3> QED BY <1>1, <2>3, <3>1, <3>2
    <2> QED BY <2>3, <2>4, <2>5
<1> QED BY <1>3 DEF R

(* RecordInput adds one input and drops inputs of other ticks in its slot. *)
Recorded(r, t, p, v, new) ==
    /\ new \in Ring
    /\ GetInput(new, t, p) /\ new[t % InputRing][p].val = v
    /\ \A u \in Ticks : \A q \in Nodes : GetInput(new, u, q) =>
           \/ u = t /\ q = p
           \/ GetInput(r, u, q) /\ new[u % InputRing][q].val = r[u % InputRing][q].val
    /\ \A u \in Ticks : \A q \in Nodes :
           GetInput(r, u, q) /\ (u = t \/ u % InputRing # t % InputRing) => GetInput(new, u, q)

LEMMA RecordInputFacts ==
    ASSUME NEW r \in Ring, NEW t \in Ticks, NEW p \in Nodes, NEW v \in Nat,
           NEW new, new = RecordInput(r, t, p, v)
    PROVE  Recorded(r, t, p, v, new)
<1> DEFINE k == t % InputRing
           slot == [q \in Nodes |-> IF q = p THEN [tick |-> t, val |-> v] ELSE IF r[k][q].tick = t THEN r[k][q] ELSE NoInput]
<1>1. k \in 0 .. InputRing - 1 /\ \A u \in Ticks : u % InputRing \in 0 .. InputRing - 1
    BY SlotRange DEF Ticks
<1>2. new = [r EXCEPT ![k] = slot]
    BY DEF RecordInput
<1>3. slot \in [Nodes -> Cell]
    BY <1>1 DEF Ring, Cell, NoInput, Ticks
<1>4. \A u \in Ticks : \A q \in Nodes : slot[q].tick = u => (u = t /\ q = p) \/ (u = t /\ slot[q] = r[k][q])
    BY DEF NoInput, Ticks
<1>5. \A q \in Nodes : slot[q].tick = t \/ r[k][q].tick # t
    OBVIOUS
<1>6. slot[p].tick = t /\ slot[p].val = v
    OBVIOUS
<1> HIDE DEF slot
<1>7. new \in Ring /\ new[k] = slot /\ \A u \in Ticks : u % InputRing # k => new[u % InputRing] = r[u % InputRing]
    BY <1>1, <1>2, <1>3 DEF Ring
<1>8. GetInput(new, t, p) /\ new[t % InputRing][p].val = v
    BY <1>6, <1>7 DEF GetInput
<1>9. ASSUME NEW u \in Ticks, NEW q \in Nodes, GetInput(new, u, q)
      PROVE  \/ u = t /\ q = p
             \/ GetInput(r, u, q) /\ new[u % InputRing][q].val = r[u % InputRing][q].val
    <2>1. CASE u % InputRing = k
        BY <1>4, <1>7, <1>9, <2>1 DEF GetInput
    <2>2. CASE u % InputRing # k
        BY <1>7, <1>9, <2>2 DEF GetInput
    <2> QED BY <2>1, <2>2
<1>10. ASSUME NEW u \in Ticks, NEW q \in Nodes, GetInput(r, u, q), u = t \/ u % InputRing # k
       PROVE  GetInput(new, u, q)
    <2>1. CASE u = t
        BY <1>5, <1>7, <1>10, <2>1 DEF GetInput
    <2>2. CASE u % InputRing # k
        BY <1>7, <1>10, <2>2 DEF GetInput
    <2> QED BY <1>10, <2>1, <2>2
<1> QED BY <1>7, <1>8, <1>9, <1>10 DEF Recorded

LEMMA RecordChecksumFacts ==
    ASSUME NEW r \in Ring, NEW new, new = RecordChecksum(r)
    PROVE  /\ new \in Ring
           /\ \A u \in Ticks : \A q \in Nodes : GetInput(new, u, q) =>
                  GetInput(r, u, q) /\ new[u % InputRing][q].val = r[u % InputRing][q].val
<1> DEFINE empty == [q \in Nodes |-> NoInput]
<1>1. 0 \in 0 .. InputRing - 1 /\ \A u \in Ticks : u % InputRing \in 0 .. InputRing - 1
    BY SlotRange, Parameters DEF Ticks
<1>2. new = [r EXCEPT ![0] = empty] /\ empty \in [Nodes -> Cell] /\ \A q \in Nodes : empty[q].tick = 0
    BY DEF RecordChecksum, NoInput, Cell
<1> HIDE DEF empty
<1>3. new \in Ring /\ new[0] = empty /\ \A u \in Ticks : u % InputRing # 0 => new[u % InputRing] = r[u % InputRing]
    BY <1>1, <1>2 DEF Ring
<1>4. ASSUME NEW u \in Ticks, NEW q \in Nodes, GetInput(new, u, q)
      PROVE  GetInput(r, u, q) /\ new[u % InputRing][q].val = r[u % InputRing][q].val
    <2>1. u % InputRing # 0
        BY <1>2, <1>3, <1>4 DEF GetInput, Ticks
    <2> QED BY <1>3, <1>4, <2>1 DEF GetInput
<1> QED BY <1>3, <1>4

-----------------------------------------------------------------------------
(* What the gate saw stays until its tick is run. *)
Buffered ==
    \A n \in Nodes : n \notin displaced =>
        \A t \in Ticks : InputDelay <= t /\ tick[n] < t /\ t < Target(n) =>
            \A p \in peers[n] : GetInput(ring[n], t, p)

(* Somebody who is not waited for any more is disconnected. *)
LeftOut == \A n \in Nodes : \A m \in Nodes \ peers[n] : <<n, m>> \in cut

(* Where an input of player p for tick t with value v can be seen. *)
InRing(p, t, v) == \E n \in Nodes : GetInput(ring[n], t, p) /\ ring[n][t % InputRing][p].val = v
InNet(p, t, v) == \E m \in net : m.kind = "input" /\ m.from = p /\ m.tick = t /\ m.val = v
InRun(p, t, v) == v # 0 /\ \E n \in Nodes : t \in 1 .. tick[n] /\ executed[n][t][p] = v
Seen(p, t, v) == InRing(p, t, v) \/ InNet(p, t, v) \/ InRun(p, t, v)

(* An input was captured for the tick a player is at or an earlier one; if *)
(* for this one, the player still has it.                                  *)
Captures ==
    \A p \in Nodes : \A t \in Ticks : \A v \in Nat : Seen(p, t, v) =>
        /\ InputDelay <= t /\ t <= Target(p) /\ v # 0
        /\ t = Target(p) /\ p \notin displaced => GetInput(ring[p], t, p)

OneValue ==
    displaced = {} =>
        \A p \in Nodes : \A t \in Ticks : \A v, w \in Nat :
            Seen(p, t, v) /\ Seen(p, t, w) /\ <<p, t>> \notin recaptured => v = w

(* A packet of an input is one of a tick the ring can hold. *)
PacketsSound == \A m \in net : m.kind = "input" => m.tick \in Ticks

InputInv ==
    /\ LockstepTypeOK
    /\ PacketsSound
    /\ Buffered
    /\ LeftOut
    /\ SuppliedUnlessDisplaced
    /\ Captures
    /\ OneValue

LEMMA NodeFacts ==
    ASSUME LockstepTypeOK, NEW n \in Nodes
    PROVE  /\ tick[n] \in Nat /\ peers[n] \in SUBSET Nodes /\ stall[n] \in Nat /\ ring[n] \in Ring
           /\ executed[n] \in Seq(InputSet) /\ Len(executed[n]) = tick[n] /\ checks[n] \in SUBSET Packet
           /\ Target(n) \in Ticks /\ Target(n) = tick[n] + InputDelay /\ Target(n) >= InputDelay
           /\ Captured(n) \in Nat /\ Captured(n) # 0
           /\ \A t \in 1 .. tick[n] : executed[n][t] \in InputSet
<1>1. /\ tick[n] \in Nat /\ peers[n] \in SUBSET Nodes /\ stall[n] \in Nat /\ ring[n] \in Ring
      /\ executed[n] \in Seq(InputSet) /\ Len(executed[n]) = tick[n] /\ checks[n] \in SUBSET Packet
    BY DEF LockstepTypeOK
<1>2. /\ Target(n) \in Ticks /\ Target(n) = tick[n] + InputDelay /\ Target(n) >= InputDelay
    BY <1>1, Parameters DEF Target, Ticks
<1> DEFINE c == Target(n) * (TimeoutFrames + 2)
           f == IF n \in Fickle THEN stall[n] ELSE 0
<1>3. f \in Nat
    BY <1>1
<1>4. c \in Nat
    BY <1>2, Parameters DEF Ticks
<1>5. Captured(n) = c + f + 1
    BY DEF Captured
<1> HIDE DEF c, f
<1>6. Captured(n) \in Nat /\ Captured(n) # 0
    BY <1>3, <1>4, <1>5
<1>7. \A t \in 1 .. tick[n] : executed[n][t] \in InputSet
    BY <1>1
<1> QED BY <1>1, <1>2, <1>6, <1>7

LEMMA InputsFacts ==
    ASSUME NEW r \in Ring, NEW t \in Ticks
    PROVE  /\ Inputs(r, t) \in InputSet
           /\ \A p \in Nodes : Inputs(r, t)[p] # 0 => GetInput(r, t, p) /\ r[t % InputRing][p].val = Inputs(r, t)[p]
           /\ \A p \in Nodes : GetInput(r, t, p) => Inputs(r, t)[p] = r[t % InputRing][p].val
<1>1. t % InputRing \in 0 .. InputRing - 1
    BY SlotRange DEF Ticks
<1>2. \A p \in Nodes : r[t % InputRing][p].val \in Nat
    BY <1>1 DEF Ring, Cell
<1> QED BY <1>2 DEF Inputs, InputSet

-----------------------------------------------------------------------------
(* The outcomes of a frame: a tick, or a stall. *)
Ticked(n) ==
    /\ n \notin halted /\ HasAllPeers(ring'[n], Target(n), peers[n])
    /\ tick' = [tick EXCEPT ![n] = tick[n] + 1]
    /\ executed' = [executed EXCEPT ![n] = Append(executed[n], Inputs(ring'[n], tick[n] + 1))]
    /\ stall' = [stall EXCEPT ![n] = 0]
    /\ peers' = peers /\ cut' = cut

Stalled(n) ==
    /\ tick' = tick /\ executed' = executed
    /\ stall' \in [Nodes -> Nat] /\ peers' \in [Nodes -> SUBSET Nodes]
    /\ cut \subseteq cut'
    /\ \A m \in Nodes : peers'[m] \subseteq peers[m]
    /\ \A m \in peers[n] \ peers'[n] : <<n, m>> \in cut'
    /\ \A m \in Nodes \ {n} : peers'[m] = peers[m]

LEMMA StepFacts ==
    ASSUME LockstepTypeOK, NEW n \in Nodes, Step(n)
    PROVE  Ticked(n) \/ Stalled(n)
<1>1. stall \in [Nodes -> Nat] /\ peers \in [Nodes -> SUBSET Nodes]
    BY DEF LockstepTypeOK
<1>2. CASE n \in halted
    BY <1>1, <1>2 DEF Step, Stalled
<1>3. CASE n \notin halted /\ HasAllPeers(ring'[n], Target(n), peers[n])
    BY <1>3 DEF Step, AdvanceTick, Ticked
<1>4. CASE n \notin halted /\ ~HasAllPeers(ring'[n], Target(n), peers[n])
    <2>1. CheckStallAndTimeout(n)
        BY <1>4 DEF Step
    <2>2. CASE stall[n] < TimeoutFrames
        <3>1. tick' = tick /\ executed' = executed /\ stall' = [stall EXCEPT ![n] = stall[n] + 1] /\ peers' = peers /\ cut' = cut
            BY <2>1, <2>2 DEF CheckStallAndTimeout
        <3>2. stall' \in [Nodes -> Nat]
            BY <1>1, <3>1
        <3> QED BY <1>1, <3>1, <3>2 DEF Stalled
    <2>3. CASE ~(stall[n] < TimeoutFrames)
        <3> DEFINE laggards == {m \in peers[n] : ~GetInput(ring'[n], Target(n), m)}
        <3>1. tick' = tick /\ executed' = executed /\ DisconnectLatePeers(n, laggards)
            BY <2>1, <2>3 DEF CheckStallAndTimeout
        <3> HIDE DEF laggards
        <3>2. /\ peers' = [peers EXCEPT ![n] = peers[n] \ laggards] /\ stall' = [stall EXCEPT ![n] = 0]
              /\ cut' = cut \cup {<<n, m>> : m \in laggards} \cup {<<m, n>> : m \in laggards}
            BY <3>1 DEF DisconnectLatePeers
        <3>3. stall' \in [Nodes -> Nat] /\ peers' \in [Nodes -> SUBSET Nodes] /\ peers'[n] = peers[n] \ laggards
            BY <1>1, <3>2
        <3>4. \A m \in peers[n] \ peers'[n] : <<n, m>> \in cut'
            BY <3>2, <3>3
        <3>5. /\ \A m \in Nodes : peers'[m] \subseteq peers[m]
              /\ \A m \in Nodes \ {n} : peers'[m] = peers[m]
            BY <1>1, <3>2
        <3> QED BY <3>1, <3>2, <3>3, <3>4, <3>5 DEF Stalled
    <2> QED BY <2>2, <2>3
<1> QED BY <1>2, <1>3, <1>4

(* The shape is kept by a frame, and by a packet that is received. *)
LEMMA FrameShape ==
    ASSUME LockstepTypeOK, NEW n \in Nodes, Frame(n)
    PROVE  /\ LockstepTypeOK'
           /\ ring' = [ring EXCEPT ![n] = RecordInput(ring[n], Target(n), n, Captured(n))]
           /\ ring'[n] = RecordInput(ring[n], Target(n), n, Captured(n)) /\ ring'[n] \in Ring
           /\ Recorded(ring[n], Target(n), n, Captured(n), ring'[n])
           /\ \A m \in Nodes \ {n} : ring'[m] = ring[m]
           /\ Ticked(n) \/ Stalled(n)
           /\ Sent(n) /\ DesyncReceive(n) /\ displaced' = displaced /\ LocalInput(n)
<1>1. LocalInput(n) /\ Step(n) /\ Sent(n) /\ DesyncReceive(n) /\ displaced' = displaced
    BY DEF Frame
<1>2. /\ ring[n] \in Ring /\ Target(n) \in Ticks /\ Captured(n) \in Nat
      /\ tick[n] \in Nat /\ executed[n] \in Seq(InputSet) /\ Len(executed[n]) = tick[n]
    BY NodeFacts
<1>3. /\ ring' = [ring EXCEPT ![n] = RecordInput(ring[n], Target(n), n, Captured(n))]
      /\ ring \in [Nodes -> Ring]
    BY <1>1 DEF LocalInput, LockstepTypeOK
<1>4. RecordInput(ring[n], Target(n), n, Captured(n)) \in Ring
    BY <1>2, RecordInputFacts DEF Recorded
<1>5. /\ ring' \in [Nodes -> Ring] /\ ring'[n] = RecordInput(ring[n], Target(n), n, Captured(n)) /\ ring'[n] \in Ring
      /\ \A m \in Nodes \ {n} : ring'[m] = ring[m]
    BY <1>3, <1>4
<1>6. (Ticked(n) \/ Stalled(n)) /\ Recorded(ring[n], Target(n), n, Captured(n), ring'[n])
    BY <1>1, <1>2, <1>5, StepFacts, RecordInputFacts
<1>7. /\ tick' \in [Nodes -> Nat] /\ peers' \in [Nodes -> SUBSET Nodes] /\ stall' \in [Nodes -> Nat]
      /\ executed' \in [Nodes -> Seq(InputSet)] /\ \A m \in Nodes : Len(executed'[m]) = tick'[m]
    <2>0. /\ tick \in [Nodes -> Nat] /\ peers \in [Nodes -> SUBSET Nodes] /\ stall \in [Nodes -> Nat]
          /\ executed \in [Nodes -> Seq(InputSet)] /\ \A m \in Nodes : Len(executed[m]) = tick[m]
        BY DEF LockstepTypeOK
    <2>1. CASE Ticked(n)
        <3> DEFINE new == Inputs(ring'[n], tick[n] + 1)
        <3>1. new \in InputSet
            BY <1>2, <1>5, InputsFacts DEF Ticks
        <3>2. /\ tick' = [tick EXCEPT ![n] = tick[n] + 1] /\ executed' = [executed EXCEPT ![n] = Append(executed[n], new)]
              /\ stall' = [stall EXCEPT ![n] = 0] /\ peers' = peers
            BY <2>1 DEF Ticked
        <3> HIDE DEF new
        <3>3. Append(executed[n], new) \in Seq(InputSet) /\ Len(Append(executed[n], new)) = tick[n] + 1
            BY <1>2, <3>1
        <3>4. tick' \in [Nodes -> Nat] /\ executed' \in [Nodes -> Seq(InputSet)] /\ stall' \in [Nodes -> Nat] /\ peers' \in [Nodes -> SUBSET Nodes]
            BY <1>2, <2>0, <3>2, <3>3
        <3>5. \A m \in Nodes : Len(executed'[m]) = tick'[m]
            BY <2>0, <3>2, <3>3
        <3> QED BY <3>4, <3>5
    <2>2. CASE Stalled(n)
        BY <2>0, <2>2 DEF Stalled
    <2> QED BY <1>6, <2>1, <2>2
<1>8. net' \in SUBSET Packet
    <2>1. net \in SUBSET Packet /\ tick'[n] \in Nat /\ executed'[n] \in Seq(InputSet) /\ <<>> \in Seq(InputSet)
        BY <1>7 DEF LockstepTypeOK
    <2>2. \A m \in Nodes : [kind |-> "input", from |-> n, to |-> m, tick |-> Target(n), val |-> Captured(n), digest |-> <<>>] \in Packet
        BY <1>2, <2>1 DEF Packet, Ticks
    <2>3. \A m \in Nodes : [kind |-> "checksum", from |-> n, to |-> m, tick |-> tick'[n], val |-> 0, digest |-> executed'[n]] \in Packet
        BY <2>1 DEF Packet
    <2> QED BY <1>1, <2>1, <2>2, <2>3 DEF Sent
<1>9. checks' \in [Nodes -> SUBSET Packet]
    BY <1>1 DEF DesyncReceive, LockstepTypeOK
<1> QED BY <1>1, <1>3, <1>5, <1>6, <1>7, <1>8, <1>9 DEF LockstepTypeOK

LEMMA ReceiveShape ==
    ASSUME LockstepTypeOK, PacketsSound, NEW n \in Nodes, NEW m \in net, RemoteInput(n, m)
    PROVE  /\ LockstepTypeOK'
           /\ \A k \in Nodes \ {n} : ring'[k] = ring[k]
           /\ ring'[n] \in Ring
           /\ \A u \in Ticks : \A q \in Nodes : GetInput(ring'[n], u, q) =>
                  \/ m.kind = "input" /\ u = m.tick /\ q = m.from /\ ring'[n][u % InputRing][q].val = m.val
                  \/ GetInput(ring[n], u, q) /\ ring'[n][u % InputRing][q].val = ring[n][u % InputRing][q].val
           /\ n \notin displaced' => \A u \in Ticks : \A q \in Nodes :
                  u > tick[n] /\ GetInput(ring[n], u, q) => GetInput(ring'[n], u, q)
<1> DEFINE new == IF m.kind = "input" THEN RecordInput(ring[n], m.tick, m.from, m.val) ELSE RecordChecksum(ring[n])
<1>1. /\ ring' = [ring EXCEPT ![n] = new]
      /\ displaced' = IF Lost(n, new) THEN displaced \cup {n} ELSE displaced
      /\ checks' = IF m.kind = "input" THEN checks ELSE [checks EXCEPT ![n] = checks[n] \cup {m}]
      /\ net' = net \ {m}
      /\ tick' = tick /\ peers' = peers /\ stall' = stall /\ executed' = executed
    BY DEF RemoteInput
<1>2. /\ ring[n] \in Ring /\ ring \in [Nodes -> Ring] /\ m \in Packet /\ m.from \in Nodes /\ m.val \in Nat
      /\ m.kind = "input" => m.tick \in Ticks
    BY DEF LockstepTypeOK, Packet, PacketsSound
<1>3. /\ new \in Ring
      /\ \A u \in Ticks : \A q \in Nodes : GetInput(new, u, q) =>
             \/ m.kind = "input" /\ u = m.tick /\ q = m.from /\ new[u % InputRing][q].val = m.val
             \/ GetInput(ring[n], u, q) /\ new[u % InputRing][q].val = ring[n][u % InputRing][q].val
    <2>1. CASE m.kind = "input"
        <3> DEFINE r == ring[n]
                   t == m.tick
                   p == m.from
                   v == m.val
        <3>1. new = RecordInput(r, t, p, v) /\ r \in Ring /\ t \in Ticks /\ p \in Nodes /\ v \in Nat
            BY <1>2, <2>1
        <3> HIDE DEF r, t, p, v, new
        <3>2. /\ new \in Ring
              /\ GetInput(new, t, p) /\ new[t % InputRing][p].val = v
              /\ \A u \in Ticks : \A q \in Nodes : GetInput(new, u, q) =>
                     \/ u = t /\ q = p
                     \/ GetInput(r, u, q) /\ new[u % InputRing][q].val = r[u % InputRing][q].val
            BY <3>1, RecordInputFacts DEF Recorded
        <3>3. \A u \in Ticks : \A q \in Nodes : GetInput(new, u, q) =>
                  \/ u = t /\ q = p /\ new[u % InputRing][q].val = v
                  \/ GetInput(r, u, q) /\ new[u % InputRing][q].val = r[u % InputRing][q].val
            BY <3>2
        <3> QED BY <2>1, <3>2, <3>3 DEF r, t, p, v
    <2>2. CASE m.kind # "input"
        BY <1>2, <2>2, RecordChecksumFacts
    <2> QED BY <2>1, <2>2
<1> HIDE DEF new
<1>4. ring'[n] = new /\ ring' \in [Nodes -> Ring] /\ \A k \in Nodes \ {n} : ring'[k] = ring[k]
    BY <1>1, <1>2, <1>3
<1>5. ASSUME n \notin displaced', NEW u \in Ticks, NEW q \in Nodes, u > tick[n], GetInput(ring[n], u, q)
      PROVE  GetInput(new, u, q)
    <2>1. ~Lost(n, new)
        BY <1>1, <1>5
    <2>2. u % InputRing \in 0 .. InputRing - 1
        BY SlotRange DEF Ticks
    <2>3. ring[n][u % InputRing][q].tick = u
        BY <1>5 DEF GetInput
    <2> QED BY <1>5, <2>1, <2>2, <2>3 DEF Lost, GetInput
<1>6. LockstepTypeOK'
    <2>1. checks' \in [Nodes -> SUBSET Packet] /\ net' \in SUBSET Packet
        BY <1>1, <1>2 DEF LockstepTypeOK
    <2> QED BY <1>1, <1>4, <2>1 DEF LockstepTypeOK
<1> QED BY <1>3, <1>4, <1>5, <1>6

(* What a frame sends: nothing of another node's, and its checksum to      *)
(* everybody it is connected to.                                           *)
LEMMA SentFacts ==
    ASSUME NEW n \in Nodes, Sent(n)
    PROVE  /\ \A m \in net' : \/ m \in net
                              \/ m.kind = "input" /\ m.from = n /\ m.tick = Target(n) /\ m.val = Captured(n)
                              \/ /\ m.kind = "checksum" /\ m.from = n /\ m.tick = tick'[n] /\ m.digest = executed'[n]
                                 /\ tick'[n] # tick[n]
           /\ \A m \in net : ~(m.to = n /\ <<n, m.from>> \in cut') => m \in net'
           /\ tick'[n] # tick[n] /\ tick'[n] % ChecksumInterval = 0 =>
                  \A k \in Nodes \ {n} : <<n, k>> \notin cut' =>
                      \E m \in net' : m.kind = "checksum" /\ m.from = n /\ m.to = k /\ m.tick = tick'[n]
<1> DEFINE reach == {m \in Nodes \ {n} : <<n, m>> \notin cut'}
           due == tick'[n] # tick[n] /\ tick'[n] % ChecksumInterval = 0
           input(m) == [kind |-> "input", from |-> n, to |-> m, tick |-> Target(n), val |-> Captured(n), digest |-> <<>>]
           sum(m) == [kind |-> "checksum", from |-> n, to |-> m, tick |-> tick'[n], val |-> 0, digest |-> executed'[n]]
           kept == {m \in net : ~(m.to = n /\ <<n, m.from>> \in cut')}
           inputs == {input(m) : m \in {k \in reach : tick[k] < MaxTick}}
           sums == IF due THEN {sum(m) : m \in reach} ELSE {}
<1>1. net' = kept \cup inputs \cup sums
    BY DEF Sent
<1>2. \A m \in inputs : m.kind = "input" /\ m.from = n /\ m.tick = Target(n) /\ m.val = Captured(n)
    <2>1. ASSUME NEW m \in inputs
          PROVE  m.kind = "input" /\ m.from = n /\ m.tick = Target(n) /\ m.val = Captured(n)
        <3>1. PICK k \in {k \in reach : tick[k] < MaxTick} : m = input(k)
            OBVIOUS
        <3> QED BY <3>1
    <2> QED BY <2>1
<1>3. \A m \in sums : /\ m.kind = "checksum" /\ m.from = n /\ m.tick = tick'[n] /\ m.digest = executed'[n]
                      /\ tick'[n] # tick[n]
    <2>1. ASSUME NEW m \in sums
          PROVE  /\ m.kind = "checksum" /\ m.from = n /\ m.tick = tick'[n] /\ m.digest = executed'[n]
                 /\ tick'[n] # tick[n]
        <3>1. due
            OBVIOUS
        <3>2. PICK k \in reach : m = sum(k)
            BY <3>1
        <3> QED BY <3>1, <3>2
    <2> QED BY <2>1
<1>4. ASSUME due, NEW k \in Nodes \ {n}, <<n, k>> \notin cut'
      PROVE  \E m \in sums : m.kind = "checksum" /\ m.from = n /\ m.to = k /\ m.tick = tick'[n]
    <2>1. sum(k) \in sums
        BY <1>4
    <2>2. sum(k).kind = "checksum" /\ sum(k).from = n /\ sum(k).to = k /\ sum(k).tick = tick'[n]
        OBVIOUS
    <2> QED BY <2>1, <2>2
<1>5. kept \subseteq net /\ \A m \in net : ~(m.to = n /\ <<n, m.from>> \in cut') => m \in kept
    OBVIOUS
<1> HIDE DEF kept, inputs, sums
<1> QED BY <1>1, <1>2, <1>3, <1>4, <1>5

(* A frame shows its player's input for the target tick and nothing else   *)
(* that is new; a packet that is received shows nothing new.               *)
LEMMA FrameSeen ==
    ASSUME LockstepTypeOK, NEW n \in Nodes, Frame(n), NEW p \in Nodes, NEW t \in Ticks, NEW v \in Nat, Seen(p, t, v)'
    PROVE  Seen(p, t, v) \/ (p = n /\ t = Target(n) /\ v = Captured(n))
<1> DEFINE T == Target(n)
           c == Captured(n)
           r == ring[n]
           new == ring'[n]
<1>1. /\ T \in Ticks /\ c \in Nat /\ r \in Ring /\ tick[n] \in Nat
      /\ new = RecordInput(r, T, n, c) /\ new \in Ring /\ \A m \in Nodes \ {n} : ring'[m] = ring[m]
      /\ Ticked(n) \/ Stalled(n)
      /\ Sent(n)
    BY NodeFacts, FrameShape
<1>2. /\ new[T % InputRing][n].val = c
      /\ \A u \in Ticks : \A q \in Nodes : GetInput(new, u, q) =>
             \/ u = T /\ q = n
             \/ GetInput(r, u, q) /\ new[u % InputRing][q].val = r[u % InputRing][q].val
    <2>1. Recorded(r, T, n, c, new)
        BY <1>1, RecordInputFacts
    <2> HIDE DEF T, c, r, new
    <2> QED BY <2>1 DEF Recorded
<1>3. ASSUME InRing(p, t, v)'
      PROVE  Seen(p, t, v) \/ (p = n /\ t = T /\ v = c)
    <2>1. PICK m \in Nodes : GetInput(ring'[m], t, p) /\ ring'[m][t % InputRing][p].val = v
        BY <1>3 DEF InRing, GetInput
    <2>2. CASE m = n
        BY <1>2, <2>1, <2>2 DEF Seen, InRing
    <2>3. CASE m # n
        <3>1. GetInput(ring[m], t, p) /\ ring[m][t % InputRing][p].val = v
            BY <1>1, <2>1, <2>3
        <3> QED BY <3>1 DEF Seen, InRing
    <2> QED BY <2>2, <2>3
<1>4. ASSUME InNet(p, t, v)'
      PROVE  Seen(p, t, v) \/ (p = n /\ t = T /\ v = c)
    <2>1. PICK m \in net' : m.kind = "input" /\ m.from = p /\ m.tick = t /\ m.val = v
        BY <1>4 DEF InNet
    <2>2. m \in net \/ (m.kind = "input" => m.from = n /\ m.tick = T /\ m.val = c)
        BY <1>1, SentFacts
    <2> QED BY <2>1, <2>2 DEF Seen, InNet
<1>5. ASSUME InRun(p, t, v)'
      PROVE  Seen(p, t, v) \/ (p = n /\ t = T /\ v = c)
    <2>1. PICK m \in Nodes : t \in 1 .. tick'[m] /\ executed'[m][t][p] = v
        BY <1>5 DEF InRun
    <2>2. v # 0
        BY <1>5 DEF InRun
    <2>3. ASSUME t \in 1 .. tick[m], executed[m][t][p] = v
          PROVE  Seen(p, t, v)
        BY <2>2, <2>3 DEF Seen, InRun
    <2>4. CASE Stalled(n)
        BY <2>1, <2>3, <2>4 DEF Stalled
    <2>5. CASE Ticked(n) /\ m # n
        <3>1. tick'[m] = tick[m] /\ executed'[m] = executed[m]
            BY <2>5 DEF Ticked, LockstepTypeOK
        <3> QED BY <2>1, <2>3, <3>1
    <2>6. CASE Ticked(n) /\ m = n
        <3> DEFINE gathered == Inputs(new, tick[n] + 1)
        <3>1. tick'[n] = tick[n] + 1 /\ executed'[n] = Append(executed[n], gathered)
            BY <2>6 DEF Ticked, LockstepTypeOK
        <3>2. executed[n] \in Seq(InputSet) /\ Len(executed[n]) = tick[n]
            BY DEF LockstepTypeOK
        <3>3. tick[n] + 1 \in Ticks /\ (t <= tick[n] \/ t = tick[n] + 1) /\ t >= 1
            BY <1>1, <2>1, <2>6, <3>1 DEF Ticks
        <3>4. CASE t <= tick[n]
            <4>1. executed'[n][t] = executed[n][t]
                BY <1>1, <3>1, <3>2, <3>3, <3>4 DEF Ticks
            <4> QED BY <2>1, <2>3, <2>6, <3>3, <3>4, <4>1, <1>1 DEF Ticks
        <3>5. CASE t = tick[n] + 1
            <4>1. executed'[n][t] = gathered
                BY <3>1, <3>2, <3>5
            <4>2. gathered[p] = v
                BY <2>1, <2>6, <4>1
            <4> HIDE DEF new
            <4>3. GetInput(new, t, p) /\ new[t % InputRing][p].val = v
                BY <1>1, <2>2, <3>3, <3>5, <4>2, InputsFacts
            <4> QED BY <1>2, <4>3 DEF Seen, InRing, r
        <3> QED BY <3>3, <3>4, <3>5
    <2> QED BY <1>1, <2>4, <2>5, <2>6
<1> QED BY <1>3, <1>4, <1>5 DEF Seen

LEMMA ReceiveSeen ==
    ASSUME LockstepTypeOK, PacketsSound, NEW n \in Nodes, NEW m \in net, RemoteInput(n, m),
           NEW p \in Nodes, NEW t \in Ticks, NEW v \in Nat, Seen(p, t, v)'
    PROVE  Seen(p, t, v)
<1>1. /\ net' \subseteq net /\ tick' = tick /\ executed' = executed
    BY DEF RemoteInput
<1>2. CASE InRing(p, t, v)'
    <2>1. PICK k \in Nodes : GetInput(ring'[k], t, p) /\ ring'[k][t % InputRing][p].val = v
        BY <1>2 DEF InRing, GetInput
    <2>2. CASE k = n
        <3>1. \/ m.kind = "input" /\ t = m.tick /\ p = m.from /\ ring'[n][t % InputRing][p].val = m.val
              \/ GetInput(ring[n], t, p) /\ ring'[n][t % InputRing][p].val = ring[n][t % InputRing][p].val
            BY <2>1, <2>2, ReceiveShape
        <3> QED BY <2>1, <2>2, <3>1 DEF Seen, InRing, InNet
    <2>3. CASE k # n
        <3>1. ring'[k] = ring[k]
            BY <2>3, ReceiveShape
        <3> QED BY <2>1, <3>1 DEF Seen, InRing
    <2> QED BY <2>2, <2>3
<1>3. CASE InNet(p, t, v)'
    BY <1>1, <1>3 DEF Seen, InNet
<1>4. CASE InRun(p, t, v)'
    BY <1>1, <1>4 DEF Seen, InRun
<1> QED BY <1>2, <1>3, <1>4 DEF Seen

-----------------------------------------------------------------------------
(* InputInv holds at first and is kept by a packet and by a frame. *)
LEMMA InputInit == ASSUME LockstepInit PROVE InputInv
<1>1. LockstepTypeOK
    <2>1. NoInput \in Cell /\ <<>> \in Seq(InputSet) /\ Len(<<>>) = 0
        BY DEF NoInput, Cell
    <2> QED BY <2>1 DEF LockstepInit, LockstepTypeOK, Ring
<1>2. PacketsSound /\ LeftOut
    BY DEF LockstepInit, PacketsSound, LeftOut
<1>3. Buffered
    BY Parameters DEF LockstepInit, Buffered, Target, Ticks
<1>4. SuppliedUnlessDisplaced
    BY Parameters DEF LockstepInit, SuppliedUnlessDisplaced, Supplied
<1>5. \A p \in Nodes, t \in Ticks, v \in Nat : ~Seen(p, t, v)
    <2> SUFFICES ASSUME NEW p \in Nodes, NEW t \in Ticks, NEW v \in Nat, Seen(p, t, v) PROVE FALSE
        OBVIOUS
    <2>1. ~InRing(p, t, v)
        <3>1. \A n \in Nodes : ring[n][t % InputRing][p] = NoInput
            BY SlotRange DEF LockstepInit, Ticks
        <3> QED BY <3>1 DEF InRing, GetInput, NoInput, Ticks
    <2> QED BY <2>1 DEF LockstepInit, Seen, InNet, InRun
<1> QED BY <1>1, <1>2, <1>3, <1>4, <1>5 DEF InputInv, Captures, OneValue

LEMMA InputReceive ==
    ASSUME InputInv, NEW n \in Nodes, NEW m \in net, RemoteInput(n, m)
    PROVE  InputInv'
<1>1. LockstepTypeOK /\ PacketsSound
    BY DEF InputInv
<1>2. /\ net' \subseteq net /\ tick' = tick /\ executed' = executed /\ peers' = peers /\ cut' = cut
      /\ displaced \subseteq displaced' /\ recaptured' = recaptured
    BY DEF RemoteInput
<1>3. LockstepTypeOK' /\ PacketsSound' /\ LeftOut' /\ SuppliedUnlessDisplaced'
    <2>1. LockstepTypeOK'
        BY <1>1, ReceiveShape
    <2>2. PacketsSound' /\ LeftOut'
        BY <1>2 DEF InputInv, PacketsSound, LeftOut
    <2>3. SuppliedUnlessDisplaced'
        BY <1>2 DEF InputInv, SuppliedUnlessDisplaced, Supplied
    <2> QED BY <2>1, <2>2, <2>3
<1>4. \A k \in Nodes : k \notin displaced' => \A u \in Ticks : \A q \in Nodes :
          u > tick[k] /\ GetInput(ring[k], u, q) => GetInput(ring'[k], u, q)
    BY <1>1, ReceiveShape
<1>5. Buffered'
    <2>1. ASSUME NEW k \in Nodes, k \notin displaced', NEW t \in Ticks, InputDelay <= t, tick[k] < t, t < Target(k), NEW p \in peers[k]
          PROVE  GetInput(ring'[k], t, p)
        <3>1. GetInput(ring[k], t, p) /\ p \in Nodes
            BY <1>1, <1>2, <2>1 DEF InputInv, Buffered, LockstepTypeOK
        <3> QED BY <1>4, <2>1, <3>1
    <2> QED BY <1>2, <2>1 DEF Buffered, Target, GetInput
<1>6. \A p \in Nodes, t \in Ticks, v \in Nat : Seen(p, t, v)' => Seen(p, t, v)
    BY <1>1, ReceiveSeen
<1>7. Captures'
    <2>1. ASSUME NEW p \in Nodes, NEW t \in Ticks, NEW v \in Nat, Seen(p, t, v)'
          PROVE  /\ InputDelay <= t /\ t <= Target(p) /\ v # 0
                 /\ t = Target(p) /\ p \notin displaced' => GetInput(ring'[p], t, p)
        <3>1. /\ InputDelay <= t /\ t <= Target(p) /\ v # 0
              /\ t = Target(p) /\ p \notin displaced => GetInput(ring[p], t, p)
            BY <1>6, <2>1 DEF InputInv, Captures
        <3>2. Target(p) > tick[p]
            BY <1>1, NodeFacts, Parameters
        <3> QED BY <1>2, <1>4, <3>1, <3>2
    <2>2. \A p \in Nodes : Target(p)' = Target(p)
        BY <1>2 DEF Target
    <2> QED BY <2>1, <2>2 DEF Captures, GetInput
<1>8. OneValue'
    BY <1>2, <1>6 DEF InputInv, OneValue
<1> QED BY <1>3, <1>5, <1>7, <1>8 DEF InputInv

(* The target and its slot: every tick that is still to be run has a slot  *)
(* of its own.                                                             *)
LEMMA TargetSlot ==
    ASSUME LockstepTypeOK, NEW n \in Nodes, NEW t \in Ticks, tick[n] < t, t < Target(n)
    PROVE  t % InputRing # Target(n) % InputRing
<1>1. tick[n] \in Nat /\ Target(n) \in Nat /\ Target(n) = tick[n] + InputDelay /\ t \in Nat
    BY NodeFacts DEF Ticks
<1>2. Target(n) - t < InputRing
    BY <1>1, Parameters
<1> QED BY <1>1, <1>2, SlotsApart

LEMMA FrameBuffered ==
    ASSUME InputInv, NEW n \in Nodes, Frame(n)
    PROVE  Buffered'
<1>1. LockstepTypeOK
    BY DEF InputInv
<1>2. /\ displaced' = displaced /\ (Ticked(n) \/ Stalled(n))
      /\ Recorded(ring[n], Target(n), n, Captured(n), ring'[n])
      /\ \A m \in Nodes \ {n} : ring'[m] = ring[m]
      /\ tick[n] \in Nat /\ Target(n) = tick[n] + InputDelay /\ InputDelay \in Nat
    BY <1>1, FrameShape, NodeFacts, Parameters
<1>3. /\ \A k \in Nodes : peers'[k] \subseteq peers[k] /\ peers[k] \subseteq Nodes
      /\ \A k \in Nodes \ {n} : tick'[k] = tick[k]
      /\ tick'[n] = tick[n] \/ (tick'[n] = tick[n] + 1 /\ HasAllPeers(ring'[n], Target(n), peers[n]))
    BY <1>1, <1>2 DEF Ticked, Stalled, LockstepTypeOK
<1>4. ASSUME NEW k \in Nodes, k \notin displaced, NEW t \in Ticks, InputDelay <= t, tick'[k] < t, t < tick'[k] + InputDelay,
             NEW p \in peers'[k]
      PROVE  GetInput(ring'[k], t, p)
    <2>0. p \in peers[k] /\ p \in Nodes
        BY <1>3, <1>4
    <2>1. CASE k # n
        BY <1>2, <1>3, <1>4, <2>0, <2>1 DEF InputInv, Buffered, Target
    <2>2. CASE k = n
        <3>1. t \in Nat
            BY DEF Ticks
        <3>2. tick[n] < t /\ (t < Target(n) \/ (t = Target(n) /\ HasAllPeers(ring'[n], Target(n), peers[n])))
            BY <1>2, <1>3, <1>4, <2>2, <3>1
        <3>3. CASE t < Target(n)
            <4>1. GetInput(ring[n], t, p)
                BY <1>4, <2>0, <2>2, <3>2, <3>3 DEF InputInv, Buffered
            <4>2. t % InputRing # Target(n) % InputRing
                BY <1>1, <3>2, <3>3, TargetSlot
            <4> QED BY <1>2, <2>0, <2>2, <4>1, <4>2 DEF Recorded
        <3>4. CASE t = Target(n) /\ HasAllPeers(ring'[n], Target(n), peers[n])
            BY <2>0, <2>2, <3>4 DEF HasAllPeers
        <3> QED BY <3>2, <3>3, <3>4
    <2> QED BY <2>1, <2>2
<1> QED BY <1>2, <1>4 DEF Buffered, Target, GetInput

LEMMA FrameCaptures ==
    ASSUME InputInv, NEW n \in Nodes, Frame(n)
    PROVE  Captures' /\ OneValue'
<1>1. LockstepTypeOK
    BY DEF InputInv
<1>2. /\ displaced' = displaced /\ (Ticked(n) \/ Stalled(n)) /\ LocalInput(n)
      /\ Recorded(ring[n], Target(n), n, Captured(n), ring'[n])
      /\ \A m \in Nodes \ {n} : ring'[m] = ring[m]
      /\ tick[n] \in Nat /\ Target(n) = tick[n] + InputDelay /\ InputDelay \in Nat
      /\ Target(n) \in Ticks /\ Target(n) >= InputDelay /\ Captured(n) \in Nat /\ Captured(n) # 0 /\ ring[n] \in Ring
    BY <1>1, FrameShape, NodeFacts, Parameters
<1>3. /\ \A k \in Nodes \ {n} : tick'[k] = tick[k]
      /\ tick'[n] = tick[n] \/ tick'[n] = tick[n] + 1
    BY <1>1, <1>2 DEF Ticked, Stalled, LockstepTypeOK
<1>4. \A p \in Nodes, t \in Ticks, v \in Nat :
          Seen(p, t, v)' => Seen(p, t, v) \/ (p = n /\ t = Target(n) /\ v = Captured(n))
    BY <1>1, FrameSeen
<1>5. Captures'
    <2>1. ASSUME NEW p \in Nodes, NEW t \in Ticks, NEW v \in Nat, Seen(p, t, v)'
          PROVE  /\ InputDelay <= t /\ t <= tick'[p] + InputDelay /\ v # 0
                 /\ t = tick'[p] + InputDelay /\ p \notin displaced => GetInput(ring'[p], t, p)
        <3>0. t \in Nat
            BY DEF Ticks
        <3>1. CASE p = n /\ t = Target(n) /\ v = Captured(n)
            BY <1>2, <1>3, <3>1 DEF Recorded
        <3>2. CASE Seen(p, t, v)
            <4>1. /\ InputDelay <= t /\ t <= tick[p] + InputDelay /\ v # 0
                  /\ t = tick[p] + InputDelay /\ p \notin displaced => GetInput(ring[p], t, p)
                BY <3>2 DEF InputInv, Captures, Target
            <4>2. CASE p # n
                BY <1>2, <1>3, <4>1, <4>2
            <4>3. CASE p = n
                <5>1. t <= tick'[n] + InputDelay /\ (t = tick'[n] + InputDelay => t = Target(n))
                    BY <1>2, <1>3, <3>0, <4>1, <4>3
                <5>2. t = Target(n) => GetInput(ring'[n], t, n)
                    BY <1>2 DEF Recorded
                <5> QED BY <4>1, <4>3, <5>1, <5>2
            <4> QED BY <4>2, <4>3
        <3> QED BY <1>4, <2>1, <3>1, <3>2
    <2> QED BY <1>2, <2>1 DEF Captures, Target, GetInput
<1>6. OneValue'
    <2>1. recaptured \subseteq recaptured'
        BY <1>2 DEF LocalInput
    <2>2. ASSUME displaced = {}, <<n, Target(n)>> \notin recaptured', NEW w \in Nat, Seen(n, Target(n), w)
          PROVE  w = Captured(n)
        <3> DEFINE x == Inputs(ring[n], Target(n))[n]
        <3>1. GetInput(ring[n], Target(n), n)
            BY <1>2, <2>2 DEF InputInv, Captures
        <3>2. x = ring[n][Target(n) % InputRing][n].val /\ x \in Nat
            BY <1>2, <3>1, InputsFacts DEF InputSet
        <3>3. Seen(n, Target(n), x)
            BY <3>1, <3>2 DEF Seen, InRing
        <3>4. x # 0
            BY <1>2, <3>2, <3>3 DEF InputInv, Captures
        <3>5. x = Captured(n)
            BY <1>2, <2>2, <3>4 DEF LocalInput
        <3>6. <<n, Target(n)>> \notin recaptured
            BY <2>1, <2>2
        <3> HIDE DEF x
        <3>7. w = x
            BY <1>2, <2>2, <3>2, <3>3, <3>6 DEF InputInv, OneValue
        <3> QED BY <3>5, <3>7
    <2>3. ASSUME displaced = {}, NEW p \in Nodes, NEW t \in Ticks, NEW v \in Nat, NEW w \in Nat,
                 Seen(p, t, v)', Seen(p, t, w)', <<p, t>> \notin recaptured'
          PROVE  v = w
        <3>1. /\ Seen(p, t, v) \/ (p = n /\ t = Target(n) /\ v = Captured(n))
              /\ Seen(p, t, w) \/ (p = n /\ t = Target(n) /\ w = Captured(n))
            BY <1>4, <2>3
        <3>2. CASE Seen(p, t, v) /\ Seen(p, t, w)
            BY <2>1, <2>3, <3>2 DEF InputInv, OneValue
        <3>3. CASE p = n /\ t = Target(n)
            BY <2>2, <2>3, <3>1, <3>3
        <3> QED BY <3>1, <3>2, <3>3
    <2> QED BY <1>2, <2>3 DEF OneValue
<1> QED BY <1>5, <1>6

LEMMA FrameSupplied ==
    ASSUME InputInv, NEW n \in Nodes, Frame(n)
    PROVE  SuppliedUnlessDisplaced'
<1>1. LockstepTypeOK
    BY DEF InputInv
<1>2. /\ displaced' = displaced /\ (Ticked(n) \/ Stalled(n))
      /\ Recorded(ring[n], Target(n), n, Captured(n), ring'[n])
      /\ tick[n] \in Nat /\ Target(n) = tick[n] + InputDelay /\ InputDelay \in Nat \ {0} /\ ring'[n] \in Ring
      /\ Target(n) \in Ticks /\ peers[n] \subseteq Nodes
    BY <1>1, FrameShape, NodeFacts, Parameters
<1>3. ASSUME NEW k \in Nodes, k \notin displaced, executed'[k] = executed[k], tick'[k] = tick[k], peers'[k] \subseteq peers[k]
      PROVE  Supplied(k)'
    BY <1>3 DEF InputInv, SuppliedUnlessDisplaced, Supplied
<1>4. CASE Stalled(n)
    BY <1>2, <1>3, <1>4 DEF Stalled, SuppliedUnlessDisplaced
<1>5. CASE Ticked(n)
    <2> DEFINE u == tick[n] + 1
               gathered == Inputs(ring'[n], u)
    <2>0. u \in Ticks /\ u \in Nat /\ u = tick[n] + 1
        BY <1>2 DEF Ticks
    <2>1. /\ tick'[n] = u /\ executed'[n] = Append(executed[n], gathered) /\ peers' = peers
          /\ \A k \in Nodes \ {n} : tick'[k] = tick[k] /\ executed'[k] = executed[k]
          /\ HasAllPeers(ring'[n], Target(n), peers[n])
          /\ executed[n] \in Seq(InputSet) /\ Len(executed[n]) = tick[n]
        BY <1>1, <1>5 DEF Ticked, LockstepTypeOK
    <2>2. ASSUME n \notin displaced, u >= InputDelay, NEW p \in peers[n]
          PROVE  gathered[p] # 0
        <3>1. GetInput(ring'[n], u, p)
            <4>1. CASE u = Target(n)
                BY <2>1, <2>2, <4>1 DEF HasAllPeers
            <4>2. CASE u < Target(n)
                <5>1. tick[n] < u
                    BY <1>2, <2>0
                <5> HIDE DEF u
                <5>2. GetInput(ring[n], u, p)
                    BY <2>0, <2>2, <4>2, <5>1 DEF InputInv, Buffered
                <5>3. u % InputRing # Target(n) % InputRing
                    BY <1>1, <2>0, <4>2, <5>1, TargetSlot
                <5> QED BY <1>2, <2>0, <2>2, <5>2, <5>3 DEF Recorded
            <4> QED BY <1>2, <2>0, <4>1, <4>2
        <3>2. gathered \in InputSet /\ gathered[p] = ring'[n][u % InputRing][p].val /\ p \in Nodes /\ gathered[p] \in Nat
            <4> HIDE DEF u
            <4> QED BY <1>2, <2>0, <2>2, <3>1, InputsFacts DEF InputSet
        <3>3. PICK t \in Ticks, v \in Nat : t = u /\ v = gathered[p]
            BY <2>0, <3>2
        <3>4. GetInput(ring'[n], t, p) /\ ring'[n][t % InputRing][p].val = v
            BY <3>1, <3>2, <3>3
        <3>5. Seen(p, t, v)'
            BY <3>4 DEF Seen, InRing, GetInput
        <3>6. Captures'
            BY FrameCaptures
        <3> QED BY <3>2, <3>3, <3>5, <3>6 DEF Captures
    <2>3. ASSUME n \notin displaced, NEW t \in InputDelay .. u, NEW p \in peers[n]
          PROVE  executed'[n][t][p] # 0
        <3> HIDE DEF gathered, u
        <3>1. t \in Nat /\ InputDelay <= t /\ t <= u /\ t >= 1
            BY <1>2, <2>0, <2>3
        <3>2. CASE t = u
            <4>1. executed'[n][t] = gathered
                BY <2>0, <2>1, <3>2
            <4> QED BY <2>2, <2>3, <3>1, <3>2, <4>1
        <3>3. CASE t # u
            <4>1. t \in InputDelay .. tick[n] /\ t \in 1 .. tick[n]
                BY <1>2, <2>0, <3>1, <3>3
            <4>2. executed'[n][t] = executed[n][t]
                BY <1>2, <2>1, <4>1
            <4>3. executed[n][t][p] # 0
                BY <2>3, <4>1 DEF InputInv, SuppliedUnlessDisplaced, Supplied
            <4> QED BY <4>2, <4>3
        <3> QED BY <3>2, <3>3
    <2>4. n \notin displaced => Supplied(n)'
        <3> HIDE DEF u, gathered
        <3> QED BY <2>1, <2>3 DEF Supplied
    <2>5. \A k \in Nodes \ {n} : k \notin displaced => Supplied(k)'
        BY <1>3, <2>1
    <2> QED BY <1>2, <2>4, <2>5 DEF SuppliedUnlessDisplaced
<1> QED BY <1>2, <1>4, <1>5

LEMMA InputFrame ==
    ASSUME InputInv, NEW n \in Nodes, Frame(n)
    PROVE  InputInv'
<1>1. LockstepTypeOK /\ PacketsSound /\ LeftOut
    BY DEF InputInv
<1>2. LockstepTypeOK' /\ (Ticked(n) \/ Stalled(n)) /\ Sent(n) /\ Target(n) \in Ticks
    BY <1>1, FrameShape, NodeFacts
<1>3. PacketsSound'
    BY <1>1, <1>2, SentFacts DEF PacketsSound
<1>4. LeftOut'
    <2>1. CASE Ticked(n)
        BY <1>1, <2>1 DEF Ticked, LeftOut
    <2>2. CASE Stalled(n)
        <3>1. ASSUME NEW k \in Nodes, NEW m \in Nodes \ peers'[k]
              PROVE  <<k, m>> \in cut'
            <4>1. CASE m \in peers[k]
                BY <2>2, <3>1, <4>1 DEF Stalled
            <4>2. CASE m \notin peers[k]
                BY <1>1, <2>2, <3>1, <4>2 DEF Stalled, LeftOut
            <4> QED BY <4>1, <4>2
        <3> QED BY <3>1 DEF LeftOut
    <2> QED BY <1>2, <2>1, <2>2
<1>5. Buffered' /\ SuppliedUnlessDisplaced' /\ Captures' /\ OneValue'
    BY FrameBuffered, FrameSupplied, FrameCaptures
<1> QED BY <1>2, <1>3, <1>4, <1>5 DEF InputInv

(* LastFrame compares checksums and changes nothing that InputInv is       *)
(* about.                                                                  *)
LEMMA LastFrameShape ==
    ASSUME LockstepTypeOK, NEW n \in Nodes, LastFrame(n)
    PROVE  /\ LockstepTypeOK'
           /\ UNCHANGED <<tick, peers, stall, ring, executed, net, cut, recaptured, displaced>>
           /\ DesyncReceive(n)
<1>1. UNCHANGED <<tick, peers, stall, ring, executed, net, cut, recaptured, displaced>> /\ DesyncReceive(n)
    BY DEF LastFrame
<1>2. checks' \in [Nodes -> SUBSET Packet]
    BY <1>1 DEF DesyncReceive, LockstepTypeOK
<1> QED BY <1>1, <1>2 DEF LockstepTypeOK

LEMMA InputStill ==
    ASSUME InputInv, LockstepTypeOK', UNCHANGED <<tick, peers, stall, ring, executed, net, cut, recaptured, displaced>>
    PROVE  InputInv'
<1>1. PacketsSound' /\ LeftOut' /\ Buffered' /\ SuppliedUnlessDisplaced'
    BY DEF InputInv, PacketsSound, LeftOut, Buffered, SuppliedUnlessDisplaced, Supplied, GetInput, Target
<1>2. \A p \in Nodes, t \in Ticks, v \in Nat : Seen(p, t, v)' => Seen(p, t, v)
    BY DEF Seen, InRing, InNet, InRun, GetInput
<1>3. Captures'
    BY <1>2 DEF InputInv, Captures, GetInput, Target
<1>4. OneValue'
    BY <1>2 DEF InputInv, OneValue
<1> QED BY <1>1, <1>3, <1>4 DEF InputInv

LEMMA InputNext == ASSUME InputInv, [LockstepNext]_lockstepVars PROVE InputInv'
<1>1. LockstepTypeOK
    BY DEF InputInv
<1>2. CASE UNCHANGED lockstepVars
    <2>1. LockstepTypeOK'
        BY <1>1, <1>2 DEF LockstepTypeOK, lockstepVars
    <2> QED BY <1>2, <2>1, InputStill DEF lockstepVars
<1>3. CASE LockstepNext
    <2>1. PICK n \in Nodes : Frame(n) \/ LastFrame(n) \/ \E m \in net : RemoteInput(n, m)
        BY <1>3 DEF LockstepNext
    <2>2. CASE Frame(n)
        BY <2>2, InputFrame
    <2>3. CASE LastFrame(n)
        BY <1>1, <2>3, LastFrameShape, InputStill
    <2>4. CASE \E m \in net : RemoteInput(n, m)
        BY <2>4, InputReceive
    <2> QED BY <2>1, <2>2, <2>3, <2>4
<1> QED BY <1>2, <1>3

(* The inputs of every peer, wherever they are: typed, buffered until      *)
(* their tick, and of one value.                                           *)
THEOREM InputInvariant == LockstepSpec => []InputInv
<1>1. LockstepInit => InputInv
    BY InputInit
<1>2. InputInv /\ [LockstepNext]_lockstepVars => InputInv'
    BY InputNext
<1> QED BY <1>1, <1>2, PTL DEF LockstepSpec

(* The shape of the state: a tick has been executed for every number up to *)
(* a node's tick, on inputs of its players.                                *)
THEOREM LockstepTypeCorrect == LockstepSpec => []LockstepTypeOK
<1>1. InputInv => LockstepTypeOK
    BY DEF InputInv
<1> QED BY <1>1, InputInvariant, PTL

(* The inputs the gate saw are there when their tick is run, for every     *)
(* InputDelay a ring can hold (scheduler.go:127-138).                      *)
THEOREM SuppliedHolds == LockstepSpec => []SuppliedUnlessDisplaced
<1>1. InputInv => SuppliedUnlessDisplaced
    BY DEF InputInv
<1> QED BY <1>1, InputInvariant, PTL

LEMMA InputInvAgrees == ASSUME InputInv PROVE AgreeOnInputs
<1> SUFFICES ASSUME cut = {}, displaced = {}, NEW a \in Nodes, NEW b \in Nodes,
                    NEW t \in DOMAIN executed[a] \cap DOMAIN executed[b], NEW p \in Nodes, <<p, t>> \notin recaptured
             PROVE  executed[a][t][p] = executed[b][t][p]
    BY DEF AgreeOnInputs
<1> DEFINE v == executed[a][t][p]
           w == executed[b][t][p]
<1>1. LockstepTypeOK /\ LeftOut /\ SuppliedUnlessDisplaced /\ Captures /\ OneValue
    BY DEF InputInv
<1>2. \A n \in Nodes : /\ executed[n] \in Seq(InputSet) /\ Len(executed[n]) = tick[n] /\ tick[n] \in Nat
                       /\ \A s \in 1 .. tick[n] : executed[n][s] \in InputSet
    BY <1>1, NodeFacts
<1>3. t \in 1 .. tick[a] /\ t \in 1 .. tick[b]
    BY <1>2
<1>4. t \in Ticks /\ v \in Nat /\ w \in Nat
    <2>1. t \in Ticks
        BY <1>2, <1>3 DEF Ticks
    <2>2. executed[a][t] \in InputSet /\ executed[b][t] \in InputSet
        BY <1>2, <1>3
    <2> QED BY <2>1, <2>2 DEF InputSet
<1>5. peers[a] = Nodes /\ peers[b] = Nodes
    BY <1>1 DEF LeftOut, LockstepTypeOK
<1>6. /\ v # 0 => Seen(p, t, v)
      /\ w # 0 => Seen(p, t, w)
    BY <1>3 DEF Seen, InRun
<1>7. t >= InputDelay => v # 0 /\ w # 0
    BY <1>1, <1>2, <1>3, <1>5, Parameters DEF SuppliedUnlessDisplaced, Supplied
<1> HIDE DEF v, w
<1>8. CASE t >= InputDelay
    BY <1>1, <1>4, <1>6, <1>7, <1>8 DEF OneValue, v, w
<1>9. CASE ~(t >= InputDelay)
    <2>1. v = 0 /\ w = 0
        BY <1>1, <1>4, <1>6, <1>9, Parameters DEF Captures, Ticks
    <2> QED BY <2>1 DEF v, w
<1> QED BY <1>8, <1>9

(* l1-lockstep INV-1, INV-2.  Two peers run a tick on the same inputs: the *)
(* run shows it for two players, this for any number of them.              *)
THEOREM AgreeOnInputsHolds == LockstepSpec => []AgreeOnInputs
<1>1. InputInv => AgreeOnInputs
    BY InputInvAgrees
<1> QED BY <1>1, InputInvariant, PTL

-----------------------------------------------------------------------------
(* Desync detection. *)
SumOfRun(m) ==
    m.from \in Nodes /\ m.tick \in 1 .. tick[m.from] /\ m.digest = Prefix(executed[m.from], m.tick)

(* A checksum is the one of its tick in the sender's run. *)
ChecksumSound ==
    /\ \A m \in net : m.kind = "checksum" => SumOfRun(m)
    /\ \A n \in Nodes : \A m \in checks[n] : SumOfRun(m) /\ m.kind = "checksum" /\ m.to = n

(* b will compare a's checksum of tick t. *)
Waiting(a, b, t) == \E m \in net \cup checks[b] : m.kind = "checksum" /\ m.from = a /\ m.to = b /\ m.tick = t

(* A checksum tick that two connected peers have run is compared, or will  *)
(* be, by the one that was ahead.                                          *)
Outcome(a, b, t) ==
    \/ Waiting(a, b, t) \/ Waiting(b, a, t)
    \/ a \in halted \/ b \in halted
    \/ <<a, b, t>> \in missed \/ <<b, a, t>> \in missed
    \/ Prefix(executed[a], t) = Prefix(executed[b], t)

DueToCompare(a, b, t) ==
    /\ a # b /\ t % ChecksumInterval = 0 /\ t <= tick[a] /\ t <= tick[b]
    /\ <<a, b>> \notin cut /\ <<b, a>> \notin cut

Compared == \A a \in Nodes : \A b \in Nodes : \A t \in Ticks : DueToCompare(a, b, t) => Outcome(a, b, t)

ChecksumInv == LockstepTypeOK /\ PacketsSound /\ ChecksumSound /\ Compared

(* What was run stays run. *)
LEMMA PrefixKept ==
    ASSUME NEW s \in Seq(InputSet), NEW x \in InputSet, NEW t \in Nat, t <= Len(s)
    PROVE  Prefix(Append(s, x), t) = Prefix(s, t)
<1>1. /\ Append(s, x) \in Seq(InputSet) /\ Len(Append(s, x)) = Len(s) + 1
      /\ \A i \in 1 .. Len(s) : Append(s, x)[i] = s[i]
    OBVIOUS
<1>2. Len(s) \in Nat
    OBVIOUS
<1> DEFINE l == Append(s, x)
<1> HIDE DEF l
<1>3. Prefix(l, t) = [i \in 1 .. t |-> l[i]]
    BY <1>1, <1>2 DEF Prefix, l
<1>4. Prefix(s, t) = [i \in 1 .. t |-> s[i]]
    BY <1>2 DEF Prefix
<1>5. \A i \in 1 .. t : l[i] = s[i]
    BY <1>1, <1>2 DEF l
<1> QED BY <1>3, <1>4, <1>5 DEF l

LEMMA PrefixAll == ASSUME NEW s \in Seq(InputSet) PROVE Prefix(s, Len(s)) = s
BY DEF Prefix

(* A frame's effect on what was run. *)
LEMMA FrameRuns ==
    ASSUME LockstepTypeOK, NEW n \in Nodes, Frame(n)
    PROVE  \A k \in Nodes : /\ tick[k] <= tick'[k] /\ tick[k] \in Nat /\ tick'[k] \in Nat
                            /\ tick'[k] = tick[k] \/ (k = n /\ tick'[k] = tick[k] + 1)
                            /\ \A t \in 0 .. tick[k] : Prefix(executed'[k], t) = Prefix(executed[k], t)
<1> SUFFICES ASSUME NEW k \in Nodes
             PROVE  /\ tick[k] <= tick'[k] /\ tick[k] \in Nat /\ tick'[k] \in Nat
                    /\ tick'[k] = tick[k] \/ (k = n /\ tick'[k] = tick[k] + 1)
                    /\ \A t \in 0 .. tick[k] : Prefix(executed'[k], t) = Prefix(executed[k], t)
    OBVIOUS
<1>1. /\ Ticked(n) \/ Stalled(n)
      /\ tick[k] \in Nat /\ tick \in [Nodes -> Nat]
      /\ executed[k] \in Seq(InputSet) /\ Len(executed[k]) = tick[k] /\ ring'[n] \in Ring
      /\ executed \in [Nodes -> Seq(InputSet)]
    BY FrameShape, NodeFacts DEF LockstepTypeOK
<1>2. CASE Stalled(n)
    BY <1>1, <1>2 DEF Stalled
<1>3. CASE Ticked(n) /\ k # n
    BY <1>1, <1>3 DEF Ticked
<1>4. CASE Ticked(n) /\ k = n
    <2> DEFINE gathered == Inputs(ring'[n], tick[n] + 1)
    <2>1. gathered \in InputSet
        <3>1. tick[n] + 1 \in Ticks
            BY <1>1, <1>4 DEF Ticks
        <3> QED BY <1>1, <3>1, InputsFacts
    <2>2. tick'[n] = tick[n] + 1 /\ executed'[n] = Append(executed[n], gathered)
        BY <1>1, <1>4 DEF Ticked
    <2> HIDE DEF gathered
    <2>3. \A t \in 0 .. tick[k] : Prefix(executed'[k], t) = Prefix(executed[k], t)
        BY <1>1, <1>4, <2>1, <2>2, PrefixKept
    <2> QED BY <1>1, <1>4, <2>2, <2>3
<1> QED BY <1>1, <1>2, <1>3, <1>4

LEMMA FrameSums ==
    ASSUME ChecksumInv, NEW n \in Nodes, Frame(n)
    PROVE  ChecksumSound'
<1>1. LockstepTypeOK /\ ChecksumSound
    BY DEF ChecksumInv
<1>2. \A m : SumOfRun(m) => SumOfRun(m)'
    <2> SUFFICES ASSUME NEW m, SumOfRun(m) PROVE SumOfRun(m)'
        OBVIOUS
    <2>1. PICK k \in Nodes : k = m.from
        BY DEF SumOfRun
    <2>2. /\ tick[k] <= tick'[k] /\ tick[k] \in Nat /\ tick'[k] \in Nat
          /\ \A t \in 0 .. tick[k] : Prefix(executed'[k], t) = Prefix(executed[k], t)
        BY <1>1, FrameRuns
    <2>3. m.tick \in 1 .. tick[k] /\ m.tick \in 0 .. tick[k] /\ m.digest = Prefix(executed[k], m.tick)
        BY <2>1, <2>2 DEF SumOfRun
    <2>4. m.tick \in 1 .. tick'[k] /\ m.digest = Prefix(executed'[k], m.tick)
        BY <2>2, <2>3
    <2> QED BY <2>1, <2>4 DEF SumOfRun
<1>3. \A m \in net' : m.kind = "checksum" => SumOfRun(m)'
    <2> SUFFICES ASSUME NEW m \in net', m.kind = "checksum" PROVE SumOfRun(m)'
        OBVIOUS
    <2>1. \/ m \in net
          \/ m.from = n /\ m.tick = tick'[n] /\ m.digest = executed'[n] /\ tick'[n] # tick[n]
        BY <1>1, FrameShape, SentFacts
    <2>2. CASE m \in net
        BY <1>1, <1>2, <2>2 DEF ChecksumSound
    <2>3. CASE m.from = n /\ m.tick = tick'[n] /\ m.digest = executed'[n] /\ tick'[n] # tick[n]
        <3>1. tick'[n] \in Nat /\ tick'[n] >= 1
            BY <1>1, <2>3, FrameRuns
        <3>2. executed'[n] \in Seq(InputSet) /\ Len(executed'[n]) = tick'[n]
            BY <1>1, FrameShape DEF LockstepTypeOK
        <3>3. PICK l \in Seq(InputSet) : l = executed'[n]
            BY <3>2
        <3>4. m.digest = Prefix(executed'[n], tick'[n])
            BY <2>3, <3>2, <3>3, PrefixAll
        <3> QED BY <2>3, <3>1, <3>4 DEF SumOfRun
    <2> QED BY <2>1, <2>2, <2>3
<1>4. \A k \in Nodes : checks'[k] \subseteq checks[k]
    BY <1>1, FrameShape DEF DesyncReceive, LockstepTypeOK
<1> QED BY <1>1, <1>2, <1>3, <1>4 DEF ChecksumSound

(* One direction of a pair: b's frame compares the checksum of a that it   *)
(* has received.                                                           *)
LEMMA ComparesReceived ==
    ASSUME LockstepTypeOK', NEW n \in Nodes, DesyncReceive(n), NEW m \in checks[n], m.kind = "checksum",
           NEW a \in Nodes, NEW t \in Ticks, m.from = a, m.tick = t, t <= tick'[n], m.digest = Prefix(executed'[a], t)
    PROVE  n \in halted' \/ <<n, a, t>> \in missed' \/ Prefix(executed'[a], t) = Prefix(executed'[n], t)
<1>1. tick'[n] \in Nat /\ SnapshotCapacity \in Nat /\ t \in Nat
    BY Parameters DEF LockstepTypeOK, Ticks
<1>2. CASE t <= tick'[n] - SnapshotCapacity
    BY <1>2 DEF DesyncReceive
<1>3. CASE Prefix(executed'[a], t) # Prefix(executed'[n], t) /\ t > tick'[n] - SnapshotCapacity
    <2>1. Mismatches(n, m)
        BY <1>3 DEF Mismatches, HasSnapshot
    <2> QED BY <2>1 DEF DesyncReceive
<1> QED BY <1>1, <1>2, <1>3

(* What a frame of n leaves of the checksums on their way. *)
LEMMA FrameWaiting ==
    ASSUME ChecksumInv, NEW n \in Nodes, Frame(n), NEW a \in Nodes, NEW b \in Nodes, NEW t \in Ticks,
           Waiting(a, b, t), <<b, a>> \notin cut', t <= tick[b]
    PROVE  \/ Waiting(a, b, t)'
           \/ b = n /\ (n \in halted' \/ <<n, a, t>> \in missed' \/ Prefix(executed'[a], t) = Prefix(executed'[n], t))
<1>1. LockstepTypeOK /\ LockstepTypeOK' /\ ChecksumSound /\ ChecksumSound' /\ Sent(n) /\ DesyncReceive(n)
    BY FrameShape, FrameSums DEF ChecksumInv
<1>2. PICK m \in net \cup checks[b] : m.kind = "checksum" /\ m.from = a /\ m.to = b /\ m.tick = t
    BY DEF Waiting
<1>3. CASE m \in net
    <2>1. m \in net'
        BY <1>1, <1>2, <1>3, SentFacts
    <2> QED BY <1>2, <2>1 DEF Waiting
<1>4. CASE m \in checks[b] /\ b # n
    <2>1. checks'[b] = checks[b]
        BY <1>1, <1>4 DEF DesyncReceive, LockstepTypeOK
    <2> QED BY <1>2, <1>4, <2>1 DEF Waiting
<1>5. CASE m \in checks[b] /\ b = n
    <2>1. SumOfRun(m)
        BY <1>1, <1>5 DEF ChecksumSound
    <2>2. t \in 0 .. tick[a] /\ m.digest = Prefix(executed[a], t)
        BY <1>1, <1>2, <2>1, NodeFacts DEF SumOfRun
    <2>3. m.digest = Prefix(executed'[a], t)
        BY <1>1, <2>2, FrameRuns
    <2>4. t <= tick'[n]
        BY <1>1, <1>5, FrameRuns DEF Ticks
    <2> QED BY <1>1, <1>2, <1>5, <2>3, <2>4, ComparesReceived
<1> QED BY <1>2, <1>3, <1>4, <1>5

LEMMA FrameCompared ==
    ASSUME ChecksumInv, NEW n \in Nodes, Frame(n)
    PROVE  Compared'
<1>1. LockstepTypeOK /\ LockstepTypeOK' /\ Sent(n) /\ DesyncReceive(n) /\ (Ticked(n) \/ Stalled(n))
    BY FrameShape DEF ChecksumInv
<1>2. cut \subseteq cut' /\ halted \subseteq halted' /\ missed \subseteq missed'
    BY <1>1 DEF DesyncReceive, Ticked, Stalled
<1> SUFFICES ASSUME NEW a \in Nodes, NEW b \in Nodes, NEW t \in Ticks, DueToCompare(a, b, t)'
             PROVE  Outcome(a, b, t)'
    BY DEF Compared
<1>3. /\ a # b /\ t % ChecksumInterval = 0 /\ t <= tick'[a] /\ t <= tick'[b]
      /\ <<a, b>> \notin cut' /\ <<b, a>> \notin cut'
    BY DEF DueToCompare
<1>4. /\ tick[a] \in Nat /\ tick'[a] \in Nat /\ (tick'[a] = tick[a] \/ (a = n /\ tick'[a] = tick[a] + 1))
      /\ tick[b] \in Nat /\ tick'[b] \in Nat /\ (tick'[b] = tick[b] \/ (b = n /\ tick'[b] = tick[b] + 1))
      /\ \A u \in 0 .. tick[a] : Prefix(executed'[a], u) = Prefix(executed[a], u)
      /\ \A u \in 0 .. tick[b] : Prefix(executed'[b], u) = Prefix(executed[b], u)
      /\ t \in Nat
    BY <1>1, FrameRuns DEF Ticks
<1>5. CASE t <= tick[a] /\ t <= tick[b]
    <2>1. Outcome(a, b, t)
        BY <1>2, <1>3, <1>5 DEF ChecksumInv, Compared, DueToCompare
    <2>2. CASE Waiting(a, b, t)
        BY <1>3, <1>5, <2>2, FrameWaiting DEF Outcome
    <2>3. CASE Waiting(b, a, t)
        <3>1. \/ Waiting(b, a, t)'
              \/ a = n /\ (n \in halted' \/ <<n, b, t>> \in missed' \/ Prefix(executed'[b], t) = Prefix(executed'[n], t))
            BY <1>3, <1>5, <2>3, FrameWaiting
        <3> QED BY <3>1 DEF Outcome
    <2>4. CASE a \in halted \/ b \in halted \/ <<a, b, t>> \in missed \/ <<b, a, t>> \in missed
        BY <1>2, <2>4 DEF Outcome
    <2>5. CASE Prefix(executed[a], t) = Prefix(executed[b], t)
        <3>1. Prefix(executed'[a], t) = Prefix(executed'[b], t)
            BY <1>4, <1>5, <2>5
        <3> QED BY <3>1 DEF Outcome
    <2> QED BY <2>1, <2>2, <2>3, <2>4, <2>5 DEF Outcome
<1>6. CASE ~(t <= tick[a])
    <2>1. a = n /\ tick'[n] = t /\ tick'[n] # tick[n]
        BY <1>3, <1>4, <1>6
    <2>2. \E m \in net' : m.kind = "checksum" /\ m.from = n /\ m.to = b /\ m.tick = tick'[n]
        BY <1>1, <1>3, <2>1, SentFacts
    <2> QED BY <2>1, <2>2 DEF Outcome, Waiting
<1>7. CASE ~(t <= tick[b])
    <2>1. b = n /\ tick'[n] = t /\ tick'[n] # tick[n]
        BY <1>3, <1>4, <1>7
    <2>2. \E m \in net' : m.kind = "checksum" /\ m.from = n /\ m.to = a /\ m.tick = tick'[n]
        BY <1>1, <1>3, <2>1, SentFacts
    <2> QED BY <2>1, <2>2 DEF Outcome, Waiting
<1> QED BY <1>5, <1>6, <1>7

LEMMA ReceiveCompared ==
    ASSUME ChecksumInv, NEW n \in Nodes, NEW m \in net, RemoteInput(n, m)
    PROVE  ChecksumSound' /\ Compared'
<1>1. LockstepTypeOK /\ ChecksumSound /\ PacketsSound /\ Compared
    BY DEF ChecksumInv
<1>2. /\ net' = net \ {m} /\ m.to = n /\ tick' = tick /\ executed' = executed /\ cut' = cut /\ halted' = halted /\ missed' = missed
      /\ checks' = IF m.kind = "input" THEN checks ELSE [checks EXCEPT ![n] = checks[n] \cup {m}]
    BY DEF RemoteInput
<1>3. m.kind = "input" \/ m.kind = "checksum"
    BY <1>1 DEF LockstepTypeOK, Packet
<1>4. /\ \A k \in Nodes : checks[k] \subseteq checks'[k] /\ \A c \in checks'[k] : c \in checks[k] \/ (c = m /\ k = n /\ m.kind = "checksum")
      /\ m.kind = "checksum" => m \in checks'[n]
    BY <1>1, <1>2, <1>3 DEF LockstepTypeOK
<1>5. ChecksumSound'
    <2>1. \A c : SumOfRun(c) => SumOfRun(c)'
        BY <1>2 DEF SumOfRun
    <2> QED BY <1>1, <1>2, <1>4, <2>1 DEF ChecksumSound
<1>6. \A a \in Nodes, b \in Nodes, t \in Ticks : Waiting(a, b, t) => Waiting(a, b, t)'
    <2> SUFFICES ASSUME NEW a \in Nodes, NEW b \in Nodes, NEW t \in Ticks, Waiting(a, b, t)
                 PROVE  Waiting(a, b, t)'
        OBVIOUS
    <2>1. PICK c \in net \cup checks[b] : c.kind = "checksum" /\ c.from = a /\ c.to = b /\ c.tick = t
        BY DEF Waiting
    <2>2. c \in net' \cup checks'[b]
        BY <1>2, <1>4, <2>1
    <2> QED BY <2>1, <2>2 DEF Waiting
<1>7. Compared'
    <2>1. ASSUME NEW a \in Nodes, NEW b \in Nodes, NEW t \in Ticks, DueToCompare(a, b, t)'
          PROVE  Outcome(a, b, t)'
        <3>1. Outcome(a, b, t)
            BY <1>1, <1>2, <2>1 DEF Compared, DueToCompare
        <3> QED BY <1>2, <1>6, <3>1 DEF Outcome
    <2> QED BY <2>1 DEF Compared
<1> QED BY <1>5, <1>7

LEMMA LastFrameCompared ==
    ASSUME ChecksumInv, NEW n \in Nodes, LastFrame(n)
    PROVE  ChecksumSound' /\ Compared'
<1>1. LockstepTypeOK /\ LockstepTypeOK' /\ ChecksumSound /\ Compared
    BY LastFrameShape DEF ChecksumInv
<1>2. /\ net' = net /\ tick' = tick /\ executed' = executed /\ cut' = cut /\ DesyncReceive(n)
      /\ halted \subseteq halted' /\ missed \subseteq missed'
    BY <1>1, LastFrameShape DEF DesyncReceive
<1>3. \A k \in Nodes : checks'[k] \subseteq checks[k] /\ (k # n => checks'[k] = checks[k])
    BY <1>1, <1>2 DEF DesyncReceive, LockstepTypeOK
<1>4. ChecksumSound'
    <2>1. \A c : SumOfRun(c) => SumOfRun(c)'
        BY <1>2 DEF SumOfRun
    <2> QED BY <1>1, <1>2, <1>3, <2>1 DEF ChecksumSound
<1>5. ASSUME NEW a \in Nodes, NEW b \in Nodes, NEW t \in Ticks, Waiting(a, b, t), t <= tick[b]
      PROVE  \/ Waiting(a, b, t)'
             \/ b = n /\ (n \in halted' \/ <<n, a, t>> \in missed' \/ Prefix(executed'[a], t) = Prefix(executed'[n], t))
    <2>1. PICK c \in net \cup checks[b] : c.kind = "checksum" /\ c.from = a /\ c.to = b /\ c.tick = t
        BY <1>5 DEF Waiting
    <2>2. CASE c \in net \/ b # n
        BY <1>2, <1>3, <2>1, <2>2 DEF Waiting
    <2>3. CASE c \in checks[b] /\ b = n
        <3>1. c.digest = Prefix(executed'[a], t)
            BY <1>1, <1>2, <2>1, <2>3 DEF ChecksumSound, SumOfRun
        <3>2. t <= tick'[n]
            BY <1>2, <1>5, <2>3
        <3> QED BY <1>1, <1>2, <2>1, <2>3, <3>1, <3>2, ComparesReceived
    <2> QED BY <2>1, <2>2, <2>3
<1>6. Compared'
    <2>1. ASSUME NEW a \in Nodes, NEW b \in Nodes, NEW t \in Ticks, DueToCompare(a, b, t)'
          PROVE  Outcome(a, b, t)'
        <3>1. DueToCompare(a, b, t) /\ t <= tick[a] /\ t <= tick[b]
            BY <1>2, <2>1 DEF DueToCompare
        <3>2. Outcome(a, b, t)
            BY <1>1, <3>1 DEF Compared
        <3>3. CASE Waiting(a, b, t)
            BY <1>5, <3>1, <3>3 DEF Outcome
        <3>4. CASE Waiting(b, a, t)
            <4>1. \/ Waiting(b, a, t)'
                  \/ a = n /\ (n \in halted' \/ <<n, b, t>> \in missed' \/ Prefix(executed'[b], t) = Prefix(executed'[n], t))
                BY <1>5, <3>1, <3>4
            <4> QED BY <4>1 DEF Outcome
        <3>5. CASE a \in halted \/ b \in halted \/ <<a, b, t>> \in missed \/ <<b, a, t>> \in missed
            BY <1>2, <3>5 DEF Outcome
        <3>6. CASE Prefix(executed[a], t) = Prefix(executed[b], t)
            BY <1>2, <3>6 DEF Outcome
        <3> QED BY <3>2, <3>3, <3>4, <3>5, <3>6 DEF Outcome
    <2> QED BY <2>1 DEF Compared
<1> QED BY <1>4, <1>6

LEMMA ChecksumNext == ASSUME ChecksumInv, InputInv', [LockstepNext]_lockstepVars PROVE ChecksumInv'
<1>1. LockstepTypeOK' /\ PacketsSound'
    BY DEF InputInv
<1>2. CASE UNCHANGED lockstepVars
    <2>1. ChecksumSound' /\ \A a \in Nodes, b \in Nodes, t \in Ticks : Waiting(a, b, t) => Waiting(a, b, t)'
        BY <1>2 DEF ChecksumInv, ChecksumSound, SumOfRun, Waiting, lockstepVars
    <2>2. Compared'
        BY <1>2, <2>1 DEF ChecksumInv, Compared, DueToCompare, Outcome, lockstepVars
    <2> QED BY <1>1, <2>1, <2>2 DEF ChecksumInv
<1>3. CASE LockstepNext
    <2>1. PICK n \in Nodes : Frame(n) \/ LastFrame(n) \/ \E m \in net : RemoteInput(n, m)
        BY <1>3 DEF LockstepNext
    <2>2. CASE Frame(n)
        BY <1>1, <2>2, FrameSums, FrameCompared DEF ChecksumInv
    <2>3. CASE LastFrame(n)
        BY <1>1, <2>3, LastFrameCompared DEF ChecksumInv
    <2>4. CASE \E m \in net : RemoteInput(n, m)
        BY <1>1, <2>4, ReceiveCompared DEF ChecksumInv
    <2> QED BY <2>1, <2>2, <2>3, <2>4
<1> QED BY <1>2, <1>3

LEMMA ChecksumInvDetects == ASSUME ChecksumInv PROVE DivergenceDetected
<1> SUFFICES ASSUME NEW a \in Nodes, NEW b \in Nodes, NEW t \in 1 .. MaxTick, t % ChecksumInterval = 0,
                    a # b, cut \cap {<<a, b>>, <<b, a>>} = {},
                    t <= tick[a], t <= tick[b], Prefix(executed[a], t) # Prefix(executed[b], t),
                    \A m \in net \cup checks[a] \cup checks[b] : ~(m.kind = "checksum" /\ m.tick = t /\ {m.from, m.to} = {a, b})
             PROVE  a \in halted \/ b \in halted \/ missed \cap {<<a, b, t>>, <<b, a, t>>} # {}
    BY DEF DivergenceDetected
<1>1. t \in Ticks
    BY Parameters DEF Ticks
<1>2. Outcome(a, b, t)
    BY <1>1 DEF ChecksumInv, Compared, DueToCompare
<1>3. ~Waiting(a, b, t)
    BY DEF Waiting
<1>4. ~Waiting(b, a, t)
    <2> SUFFICES ASSUME Waiting(b, a, t) PROVE FALSE
        OBVIOUS
    <2>1. PICK m \in net \cup checks[a] : m.kind = "checksum" /\ m.from = b /\ m.to = a /\ m.tick = t
        BY DEF Waiting
    <2>2. {m.from, m.to} = {a, b}
        BY <2>1
    <2> QED BY <2>1, <2>2
<1> QED BY <1>2, <1>3, <1>4 DEF Outcome

(* l1-lockstep INV-4.  A divergence is noticed by whoever the later of the *)
(* two checksums reaches, in any order and for any number of players.      *)
THEOREM DivergenceDetectedHolds == LockstepSpec => []DivergenceDetected
<1>1. LockstepInit => ChecksumInv
    <2> SUFFICES ASSUME LockstepInit PROVE ChecksumInv
        OBVIOUS
    <2>1. LockstepTypeOK /\ PacketsSound
        BY InputInit DEF InputInv
    <2>2. ChecksumSound
        BY DEF LockstepInit, ChecksumSound
    <2>3. Compared
        BY DEF LockstepInit, Compared, DueToCompare, Ticks
    <2> QED BY <2>1, <2>2, <2>3 DEF ChecksumInv
<1>2. ChecksumInv /\ InputInv' /\ [LockstepNext]_lockstepVars => ChecksumInv'
    BY ChecksumNext
<1>3. ChecksumInv => DivergenceDetected
    BY ChecksumInvDetects
<1> QED BY <1>1, <1>2, <1>3, InputInvariant, PTL DEF LockstepSpec

-----------------------------------------------------------------------------
(* Handshake.  The two ends of a connection and the datagrams between      *)
(* them.                                                                   *)
LEMMA WithDomain ==
    ASSUME NEW f, NEW x, NEW v
    PROVE  /\ DOMAIN With(f, x, v) = DOMAIN f \cup {x}
           /\ With(f, x, v)[x] = v
           /\ \A y \in DOMAIN f : y # x => With(f, x, v)[y] = f[y]
  BY DEF With

LEMMA WithoutDomain ==
    ASSUME NEW f, NEW S
    PROVE  /\ DOMAIN Without(f, S) = DOMAIN f \ S
           /\ \A y \in DOMAIN f \ S : Without(f, S)[y] = f[y]
  BY DEF Without

ConnectOutcome == {"waiting", "failed", "ok"}

(* The waiting Connects of a client are those its goroutine still ticks;   *)
(* the entry of the server's address is one of its connections; what is    *)
(* connected has had the server's accept.                                  *)
ClientSound(c) ==
    /\ results[c] \in Seq(ConnectOutcome)
    /\ DOMAIN local[c] \subseteq 1 .. Len(results[c])
    /\ \A id \in DOMAIN local[c] :
        /\ local[c][id] \in {"connecting", "connected"}
        /\ local[c][id] = "connected" => "accept" \in toClient[c]
    /\ WaitersCanEnd(c)
    /\ serverID[c] # 0 => serverID[c] \in DOMAIN local[c]

(* An accept speaks of a connection the server has, or has ended, and goes *)
(* to no other version; an ack answers an accept.                          *)
DatagramsSound(c) ==
    /\ "accept" \in toClient[c] => c \in DOMAIN addrToID \cup dropped /\ c \notin Outdated
    /\ \A datagram \in toServer[c] :
        "ack" \in datagram => "accept" \in toClient[c] /\ "ok" \in Range(results[c])

ClientsInv ==
    /\ DOMAIN local = Client /\ DOMAIN results = Client /\ DOMAIN serverID = Client
    /\ DOMAIN toServer = Client /\ DOMAIN toClient = Client
    /\ \A c \in Client : ClientSound(c) /\ DatagramsSound(c)

(* The server's table: IDs it has given out, each found by its address,    *)
(* open only after an ack.                                                 *)
TableInv ==
    /\ nextID \in Nat \ {0}
    /\ DOMAIN remote \subseteq 1 .. nextID - 1
    /\ IsFiniteSet(DOMAIN remote) /\ Cardinality(DOMAIN remote) <= MaxConnections
    /\ \A id \in DOMAIN remote :
        /\ remote[id].addr \in Client
        /\ remote[id] = [addr |-> remote[id].addr, state |-> remote[id].state, heard |-> remote[id].heard]
        /\ remote[id].addr \in DOMAIN addrToID /\ addrToID[remote[id].addr] = id
        /\ remote[id].state = "connected" =>
            "ok" \in Range(results[remote[id].addr]) /\ remote[id].addr \notin Outdated
    /\ DOMAIN addrToID \subseteq Client
    /\ \A c \in DOMAIN addrToID : addrToID[c] \in DOMAIN remote /\ remote[addrToID[c]].addr = c

(* The last event of a connection says it is up.                           *)
LastUp(s, id) ==
    \E i \in 1 .. Len(s) : s[i].id = id /\ s[i].up /\ \A k \in 1 .. Len(s) : k > i => s[k].id # id

Event == [id : Nat, up : BOOLEAN]

Open == {id \in DOMAIN remote : remote[id].state = "connected"}

EventsInv ==
    /\ events \in Seq(Event)
    /\ \A i \in 1 .. Len(events) : events[i].id < nextID
    /\ Len(events) < EventCap => \A id \in Nat \ {0} : LastUp(events, id) <=> id \in Open

HandshakeInv == ClientsInv /\ TableInv /\ EventsInv

LEMMA LastEvent ==
    ASSUME NEW s \in Seq(Event), NEW id \in Nat
    PROVE  LET last == SelectLastInSeq(s, LAMBDA e : e.id = id)
           IN  (last # 0 /\ s[last].up) <=> LastUp(s, id)
<1> DEFINE I == {i \in 1 .. Len(s) : s[i].id = id}
           last == IF I # {} THEN Max(I) ELSE 0
<1>1. SelectLastInSeq(s, LAMBDA e : e.id = id) = last
  BY DEF SelectLastInSeq
<1>2. PICK n \in Nat : n = Len(s)
  OBVIOUS
<1>3. CASE I = {}
  <2>1. ~ LastUp(s, id)
    BY <1>3 DEF LastUp
  <2> QED
    BY <1>1, <1>3, <2>1
<1>4. CASE I # {}
  <2> DEFINE m == Max(I)
  <2>1. m \in I /\ \A i \in I : m >= i
    <3>1. I \in SUBSET Nat /\ \A i \in I : i <= n
      BY <1>2
    <3> HIDE DEF I
    <3> QED
      BY <1>4, <3>1, GreatestElement
  <2> HIDE DEF m
  <2>2. m \in 1 .. Len(s) /\ s[m].id = id /\ m # 0
    BY <1>2, <2>1
  <2>3. ASSUME NEW k \in 1 .. Len(s), k > m PROVE s[k].id # id
    <3>1. k \in I => m >= k
      BY <2>1
    <3> QED
      BY <1>2, <2>2, <2>3, <3>1
  <2>4. s[m].up => LastUp(s, id)
    BY <2>2, <2>3 DEF LastUp
  <2>5. ASSUME LastUp(s, id) PROVE s[m].up
    <3>1. PICK i \in 1 .. Len(s) : s[i].id = id /\ s[i].up /\ \A k \in 1 .. Len(s) : k > i => s[k].id # id
      BY <2>5 DEF LastUp
    <3>2. m >= i
      BY <2>1, <3>1
    <3>3. ~(m > i)
      BY <2>2, <3>1
    <3>4. m = i
      BY <1>2, <2>2, <3>2, <3>3
    <3> QED
      BY <3>1, <3>4
  <2>6. last = m
    BY <1>4 DEF m
  <2> QED
    BY <1>1, <2>2, <2>4, <2>5, <2>6
<1> QED
  BY <1>1, <1>3, <1>4

LEMMA LastUpAppend ==
    ASSUME NEW s \in Seq(Event), NEW e \in Event, NEW id \in Nat
    PROVE  LastUp(Append(s, e), id) <=> IF id = e.id THEN e.up ELSE LastUp(s, id)
<1>1. PICK n \in Nat : n = Len(s)
  OBVIOUS
<1> DEFINE t == Append(s, e)
<1>2. Len(t) = n + 1 /\ t[n + 1] = e /\ \A i \in 1 .. n : t[i] = s[i]
  BY <1>1
<1> HIDE DEF t
<1>3. CASE id = e.id
  <2>1. ASSUME e.up PROVE LastUp(t, id)
    <3>1. n + 1 \in 1 .. Len(t) /\ t[n + 1].id = id /\ t[n + 1].up
      BY <1>2, <1>3, <2>1
    <3>2. \A k \in 1 .. Len(t) : ~(k > n + 1)
      BY <1>2
    <3> QED
      BY <3>1, <3>2 DEF LastUp
  <2>2. ASSUME LastUp(t, id) PROVE e.up
    <3>1. PICK i \in 1 .. n + 1 : t[i].id = id /\ t[i].up /\ \A k \in 1 .. n + 1 : k > i => t[k].id # id
      BY <1>2, <2>2 DEF LastUp
    <3>2. i = n + 1
      BY <1>2, <1>3, <3>1
    <3> QED
      BY <1>2, <3>1, <3>2
  <2>3. e.up \in BOOLEAN
    BY DEF Event
  <2> QED
    BY <1>3, <2>1, <2>2, <2>3 DEF t
<1>4. CASE id # e.id
  <2>1. ASSUME LastUp(s, id) PROVE LastUp(t, id)
    <3>1. PICK i \in 1 .. n : s[i].id = id /\ s[i].up /\ \A k \in 1 .. n : k > i => s[k].id # id
      BY <1>1, <2>1 DEF LastUp
    <3>2. i \in 1 .. Len(t) /\ t[i].id = id /\ t[i].up
      BY <1>2, <3>1
    <3>3. \A k \in 1 .. Len(t) : k > i => t[k].id # id
      BY <1>2, <1>4, <3>1
    <3> QED
      BY <3>2, <3>3 DEF LastUp
  <2>2. ASSUME LastUp(t, id) PROVE LastUp(s, id)
    <3>1. PICK i \in 1 .. n + 1 : t[i].id = id /\ t[i].up /\ \A k \in 1 .. n + 1 : k > i => t[k].id # id
      BY <1>2, <2>2 DEF LastUp
    <3>2. i \in 1 .. n
      BY <1>2, <1>4, <3>1
    <3>3. s[i].id = id /\ s[i].up /\ \A k \in 1 .. n : k > i => s[k].id # id
      BY <1>2, <3>1, <3>2
    <3> QED
      BY <1>1, <3>2, <3>3 DEF LastUp
  <2> QED
    BY <1>4, <2>1, <2>2 DEF t
<1> QED
  BY <1>3, <1>4

(* Steps of a client.  `Only` is about the others, which it leaves alone.  *)
ServerUnchanged == UNCHANGED <<remote, addrToID, nextID, events, dropped>>

LEMMA OthersClientSound ==
    ASSUME NEW d, ClientSound(d), local'[d] = local[d], results'[d] = results[d],
           serverID'[d] = serverID[d], toClient[d] \subseteq toClient'[d]
    PROVE  ClientSound(d)'
<1>1. WaitersCanEnd(d)'
  BY DEF WaitersCanEnd, ClientSound
<1> QED
  BY <1>1 DEF ClientSound

LEMMA OthersDatagramsSound ==
    ASSUME NEW d, DatagramsSound(d), toServer'[d] = toServer[d], toClient'[d] = toClient[d],
           results'[d] = results[d], DOMAIN addrToID \cup dropped \subseteq DOMAIN addrToID' \cup dropped'
    PROVE  DatagramsSound(d)'
  BY DEF DatagramsSound

(* The table and the events keep what they say as long as no Connect that  *)
(* was answered is forgotten.                                              *)
LEMMA ServerKeeps ==
    ASSUME TableInv, EventsInv, ServerUnchanged,
           \A c \in Client : "ok" \in Range(results[c]) => "ok" \in Range(results'[c])
    PROVE  TableInv' /\ EventsInv'
<1>1. remote' = remote /\ addrToID' = addrToID /\ nextID' = nextID /\ events' = events /\ dropped' = dropped
  BY DEF ServerUnchanged
<1>2. Open' = Open
  BY <1>1 DEF Open
<1>3. EventsInv'
  BY <1>1, <1>2 DEF EventsInv, LastUp
<1>4. TableInv'
  BY <1>1 DEF TableInv
<1> QED
  BY <1>3, <1>4

LEMMA ConnectStep ==
    ASSUME HandshakeInv, NEW c \in Client, Connect(c)
    PROVE  HandshakeInv'
<1> DEFINE id == Len(results[c]) + 1
<1>1. /\ local' = [local EXCEPT ![c] = With(@, id, "connecting")]
      /\ serverID' = [serverID EXCEPT ![c] = id]
      /\ results' = [results EXCEPT ![c] = Append(@, "waiting")]
      /\ toServer' = [toServer EXCEPT ![c] = @ \cup {{"request"}}]
      /\ toClient' = toClient /\ dropped' = dropped /\ addrToID' = addrToID
      /\ ServerUnchanged
  BY DEF Connect, ServerUnchanged
<1>2. /\ DOMAIN local = Client /\ DOMAIN results = Client /\ DOMAIN serverID = Client
      /\ DOMAIN toServer = Client /\ DOMAIN toClient = Client
      /\ \A d \in Client : ClientSound(d) /\ DatagramsSound(d)
  BY DEF HandshakeInv, ClientsInv
<1>3. PICK n \in Nat : n = Len(results[c]) /\ results[c] \in Seq(ConnectOutcome)
  BY <1>2 DEF ClientSound
<1>4. id = n + 1 /\ id \in Nat /\ id # 0
  BY <1>3
<1> HIDE DEF id
<1>5. /\ local'[c] = With(local[c], id, "connecting") /\ serverID'[c] = id
      /\ results'[c] = Append(results[c], "waiting") /\ toServer'[c] = toServer[c] \cup {{"request"}}
  BY <1>1, <1>2
<1>6. "waiting" \in ConnectOutcome
  BY DEF ConnectOutcome
<1>7. /\ results'[c] \in Seq(ConnectOutcome) /\ Len(results'[c]) = n + 1
      /\ results'[c][id] = "waiting" /\ \A i \in 1 .. n : results'[c][i] = results[c][i]
  BY <1>3, <1>4, <1>5, <1>6
<1>8. DOMAIN results[c] = 1 .. n /\ DOMAIN results'[c] = 1 .. n + 1
  BY <1>3, <1>7
<1>9. /\ DOMAIN local'[c] = DOMAIN local[c] \cup {id} /\ local'[c][id] = "connecting"
      /\ \A y \in DOMAIN local[c] : y # id => local'[c][y] = local[c][y]
  <2> DEFINE f == local[c]
  <2>1. local'[c] = With(f, id, "connecting")
    BY <1>5
  <2> HIDE DEF f
  <2>2. /\ DOMAIN local'[c] = DOMAIN f \cup {id} /\ local'[c][id] = "connecting"
        /\ \A y \in DOMAIN f : y # id => local'[c][y] = f[y]
    BY <2>1 DEF With
  <2> QED
    BY <2>2 DEF f
<1>10. DOMAIN local[c] \subseteq 1 .. n
  BY <1>2, <1>3 DEF ClientSound
<1>11. ClientSound(c)'
  <2>1. DOMAIN local'[c] \subseteq 1 .. Len(results'[c])
    BY <1>4, <1>7, <1>9, <1>10
  <2>2. ASSUME NEW y \in DOMAIN local'[c]
        PROVE  /\ local'[c][y] \in {"connecting", "connected"}
               /\ local'[c][y] = "connected" => "accept" \in toClient[c]
    BY <1>2, <1>9 DEF ClientSound
  <2>3. WaitersCanEnd(c)'
    <3> SUFFICES ASSUME NEW y \in 1 .. n + 1
                 PROVE  results'[c][y] = "waiting" <=> y \in DOMAIN local'[c] /\ local'[c][y] = "connecting"
      BY <1>8 DEF WaitersCanEnd
    <3>1. CASE y = id
      BY <1>7, <1>9, <3>1
    <3>2. CASE y # id
      <4>1. y \in 1 .. n
        BY <1>4, <3>2
      <4>2. results[c][y] = "waiting" <=> y \in DOMAIN local[c] /\ local[c][y] = "connecting"
        BY <1>2, <1>8, <4>1 DEF ClientSound, WaitersCanEnd
      <4>3. y \in DOMAIN local'[c] <=> y \in DOMAIN local[c]
        BY <1>9, <3>2
      <4> QED
        BY <1>7, <1>9, <3>2, <4>1, <4>2, <4>3
    <3> QED
      BY <3>1, <3>2
  <2> QED
    BY <1>1, <1>5, <1>7, <1>9, <2>1, <2>2, <2>3 DEF ClientSound
<1>12. "ok" \in Range(results[c]) => "ok" \in Range(results'[c])
  BY <1>7, <1>8 DEF Range
<1>13. DatagramsSound(c)'
  <2>1. \A datagram \in toServer'[c] : "ack" \in datagram => datagram \in toServer[c]
    BY <1>5
  <2> QED
    BY <1>1, <1>2, <1>12, <2>1 DEF DatagramsSound
<1>14. ASSUME NEW d \in Client, d # c PROVE ClientSound(d)' /\ DatagramsSound(d)'
  <2>1. local'[d] = local[d] /\ results'[d] = results[d] /\ serverID'[d] = serverID[d] /\ toServer'[d] = toServer[d]
    BY <1>1, <1>2, <1>14
  <2> QED
    BY <1>1, <1>2, <2>1, OthersClientSound, OthersDatagramsSound
<1>15. ClientsInv'
  <2>1. \A d \in Client : ClientSound(d)' /\ DatagramsSound(d)'
    BY <1>11, <1>13, <1>14
  <2>2. /\ DOMAIN local' = Client /\ DOMAIN results' = Client /\ DOMAIN serverID' = Client
        /\ DOMAIN toServer' = Client /\ DOMAIN toClient' = Client
    BY <1>1, <1>2
  <2> QED
    BY <2>1, <2>2 DEF ClientsInv
<1>16. \A d \in Client : "ok" \in Range(results[d]) => "ok" \in Range(results'[d])
  <2>1. \A d \in Client : d # c => results'[d] = results[d]
    BY <1>1, <1>2
  <2> QED
    BY <1>12, <2>1
<1> QED
  BY <1>1, <1>15, <1>16, ServerKeeps DEF HandshakeInv

LEMMA EndLocalStep ==
    ASSUME HandshakeInv, NEW c \in Client, NEW id, EndLocal(c, id)
    PROVE  HandshakeInv'
<1>1. /\ id \in DOMAIN local[c]
      /\ local' = [local EXCEPT ![c] = Without(@, {id})]
      /\ serverID' = [serverID EXCEPT ![c] = 0]
      /\ results' = [results EXCEPT ![c][id] = IF @ = "waiting" THEN "failed" ELSE @]
      /\ toServer' = toServer /\ toClient' = toClient /\ dropped' = dropped /\ addrToID' = addrToID
      /\ ServerUnchanged
  BY DEF EndLocal, ServerUnchanged
<1>2. /\ DOMAIN local = Client /\ DOMAIN results = Client /\ DOMAIN serverID = Client
      /\ DOMAIN toServer = Client /\ DOMAIN toClient = Client
      /\ \A d \in Client : ClientSound(d) /\ DatagramsSound(d)
  BY DEF HandshakeInv, ClientsInv
<1>3. PICK n \in Nat : n = Len(results[c]) /\ results[c] \in Seq(ConnectOutcome)
  BY <1>2 DEF ClientSound
<1>4. id \in 1 .. n /\ DOMAIN local[c] \subseteq 1 .. n /\ DOMAIN results[c] = 1 .. n
  BY <1>1, <1>2, <1>3 DEF ClientSound
<1> DEFINE new == IF results[c][id] = "waiting" THEN "failed" ELSE results[c][id]
<1>5. new \in ConnectOutcome /\ new # "waiting" /\ (results[c][id] = "ok" => new = "ok")
  <2>1. results[c][id] \in ConnectOutcome
    BY <1>3, <1>4
  <2> QED
    BY <2>1 DEF ConnectOutcome
<1>6. /\ local'[c] = Without(local[c], {id}) /\ serverID'[c] = 0
      /\ results'[c] = [results[c] EXCEPT ![id] = new]
  BY <1>1, <1>2
<1> HIDE DEF new
<1>7. /\ results'[c] \in Seq(ConnectOutcome) /\ Len(results'[c]) = n /\ DOMAIN results'[c] = 1 .. n
      /\ results'[c][id] = new /\ \A i \in 1 .. n : i # id => results'[c][i] = results[c][i]
  BY <1>3, <1>4, <1>5, <1>6
<1>8. /\ DOMAIN local'[c] = DOMAIN local[c] \ {id}
      /\ \A y \in DOMAIN local[c] : y # id => local'[c][y] = local[c][y]
  <2> DEFINE f == local[c]
  <2>1. local'[c] = Without(f, {id})
    BY <1>6
  <2> HIDE DEF f
  <2>2. /\ DOMAIN local'[c] = DOMAIN f \ {id}
        /\ \A y \in DOMAIN f \ {id} : local'[c][y] = f[y]
    BY <2>1 DEF Without
  <2> QED
    BY <2>2 DEF f
<1>9. ClientSound(c)'
  <2>1. DOMAIN local'[c] \subseteq 1 .. Len(results'[c])
    BY <1>4, <1>7, <1>8
  <2>2. ASSUME NEW y \in DOMAIN local'[c]
        PROVE  /\ local'[c][y] \in {"connecting", "connected"}
               /\ local'[c][y] = "connected" => "accept" \in toClient[c]
    BY <1>2, <1>8 DEF ClientSound
  <2>3. WaitersCanEnd(c)'
    <3> SUFFICES ASSUME NEW y \in 1 .. n
                 PROVE  results'[c][y] = "waiting" <=> y \in DOMAIN local'[c] /\ local'[c][y] = "connecting"
      BY <1>7 DEF WaitersCanEnd
    <3>1. CASE y = id
      BY <1>5, <1>7, <1>8, <3>1
    <3>2. CASE y # id
      <4>2. results[c][y] = "waiting" <=> y \in DOMAIN local[c] /\ local[c][y] = "connecting"
        BY <1>2, <1>4 DEF ClientSound, WaitersCanEnd
      <4>3. y \in DOMAIN local'[c] <=> y \in DOMAIN local[c]
        BY <1>8, <3>2
      <4> QED
        BY <1>7, <1>8, <3>2, <4>2, <4>3
    <3> QED
      BY <3>1, <3>2
  <2> QED
    BY <1>1, <1>6, <1>7, <2>1, <2>2, <2>3 DEF ClientSound
<1>10. ASSUME "ok" \in Range(results[c]) PROVE "ok" \in Range(results'[c])
  <2>1. PICK i \in 1 .. n : results[c][i] = "ok"
    BY <1>4, <1>10 DEF Range
  <2>2. results'[c][i] = "ok"
    BY <1>5, <1>7, <2>1
  <2> QED
    BY <1>7, <2>2 DEF Range
<1>11. DatagramsSound(c)'
  BY <1>1, <1>2, <1>10 DEF DatagramsSound
<1>12. ASSUME NEW d \in Client, d # c PROVE ClientSound(d)' /\ DatagramsSound(d)'
  <2>1. local'[d] = local[d] /\ results'[d] = results[d] /\ serverID'[d] = serverID[d]
    BY <1>1, <1>2, <1>12
  <2> QED
    BY <1>1, <1>2, <2>1, OthersClientSound, OthersDatagramsSound
<1>13. ClientsInv'
  <2>1. \A d \in Client : ClientSound(d)' /\ DatagramsSound(d)'
    BY <1>9, <1>11, <1>12
  <2>2. /\ DOMAIN local' = Client /\ DOMAIN results' = Client /\ DOMAIN serverID' = Client
        /\ DOMAIN toServer' = Client /\ DOMAIN toClient' = Client
    BY <1>1, <1>2
  <2> QED
    BY <2>1, <2>2 DEF ClientsInv
<1>14. \A d \in Client : "ok" \in Range(results[d]) => "ok" \in Range(results'[d])
  <2>1. \A d \in Client : d # c => results'[d] = results[d]
    BY <1>1, <1>2
  <2> QED
    BY <1>10, <2>1
<1> QED
  BY <1>1, <1>13, <1>14, ServerKeeps DEF HandshakeInv

LEMMA AcceptedStep ==
    ASSUME HandshakeInv, NEW c \in Client, ClientReceive(c, "accept")
    PROVE  HandshakeInv'
<1> DEFINE id == serverID[c]
<1>1. /\ "accept" \in toClient[c] /\ id # 0 /\ local[c][id] = "connecting"
      /\ local' = [local EXCEPT ![c][id] = "connected"]
      /\ results' = [results EXCEPT ![c][id] = "ok"]
      /\ toServer' = [toServer EXCEPT ![c] = @ \cup {{"ack"}, {"request", "ack"}}]
      /\ serverID' = serverID /\ toClient' = toClient /\ dropped' = dropped /\ addrToID' = addrToID
      /\ ServerUnchanged
  BY DEF ClientReceive, ServerUnchanged
<1>2. /\ DOMAIN local = Client /\ DOMAIN results = Client /\ DOMAIN serverID = Client
      /\ DOMAIN toServer = Client /\ DOMAIN toClient = Client
      /\ \A d \in Client : ClientSound(d) /\ DatagramsSound(d)
  BY DEF HandshakeInv, ClientsInv
<1>3. PICK n \in Nat : n = Len(results[c]) /\ results[c] \in Seq(ConnectOutcome)
  BY <1>2 DEF ClientSound
<1>4. /\ id \in DOMAIN local[c] /\ id \in 1 .. n
      /\ DOMAIN local[c] \subseteq 1 .. n /\ DOMAIN results[c] = 1 .. n
  BY <1>1, <1>2, <1>3 DEF ClientSound
<1> HIDE DEF id
<1>5. /\ local'[c] = [local[c] EXCEPT ![id] = "connected"]
      /\ results'[c] = [results[c] EXCEPT ![id] = "ok"]
      /\ toServer'[c] = toServer[c] \cup {{"ack"}, {"request", "ack"}}
  BY <1>1, <1>2
<1>6. "ok" \in ConnectOutcome
  BY DEF ConnectOutcome
<1>7. /\ results'[c] \in Seq(ConnectOutcome) /\ Len(results'[c]) = n /\ DOMAIN results'[c] = 1 .. n
      /\ results'[c][id] = "ok" /\ \A i \in 1 .. n : i # id => results'[c][i] = results[c][i]
  BY <1>3, <1>4, <1>5, <1>6
<1>8. /\ DOMAIN local'[c] = DOMAIN local[c] /\ local'[c][id] = "connected"
      /\ \A y \in DOMAIN local[c] : y # id => local'[c][y] = local[c][y]
  BY <1>4, <1>5
<1>9. ClientSound(c)'
  <2>1. DOMAIN local'[c] \subseteq 1 .. Len(results'[c])
    BY <1>4, <1>7, <1>8
  <2>2. ASSUME NEW y \in DOMAIN local'[c]
        PROVE  /\ local'[c][y] \in {"connecting", "connected"}
               /\ local'[c][y] = "connected" => "accept" \in toClient[c]
    BY <1>1, <1>2, <1>8 DEF ClientSound
  <2>3. WaitersCanEnd(c)'
    <3> SUFFICES ASSUME NEW y \in 1 .. n
                 PROVE  results'[c][y] = "waiting" <=> y \in DOMAIN local'[c] /\ local'[c][y] = "connecting"
      BY <1>7 DEF WaitersCanEnd
    <3>1. CASE y = id
      BY <1>7, <1>8, <3>1
    <3>2. CASE y # id
      <4>2. results[c][y] = "waiting" <=> y \in DOMAIN local[c] /\ local[c][y] = "connecting"
        BY <1>2, <1>4 DEF ClientSound, WaitersCanEnd
      <4> QED
        BY <1>7, <1>8, <3>2, <4>2
    <3> QED
      BY <3>1, <3>2
  <2>4. serverID'[c] # 0 => serverID'[c] \in DOMAIN local'[c]
    BY <1>1, <1>2, <1>8 DEF ClientSound
  <2> QED
    BY <1>1, <1>7, <2>1, <2>2, <2>3, <2>4 DEF ClientSound
<1>10. "ok" \in Range(results'[c])
  BY <1>4, <1>7 DEF Range
<1>11. DatagramsSound(c)'
  BY <1>1, <1>2, <1>10 DEF DatagramsSound
<1>12. ASSUME NEW d \in Client, d # c PROVE ClientSound(d)' /\ DatagramsSound(d)'
  <2>1. local'[d] = local[d] /\ results'[d] = results[d] /\ serverID'[d] = serverID[d] /\ toServer'[d] = toServer[d]
    BY <1>1, <1>2, <1>12
  <2> QED
    BY <1>1, <1>2, <2>1, OthersClientSound, OthersDatagramsSound
<1>13. ClientsInv'
  <2>1. \A d \in Client : ClientSound(d)' /\ DatagramsSound(d)'
    BY <1>9, <1>11, <1>12
  <2>2. /\ DOMAIN local' = Client /\ DOMAIN results' = Client /\ DOMAIN serverID' = Client
        /\ DOMAIN toServer' = Client /\ DOMAIN toClient' = Client
    BY <1>1, <1>2
  <2> QED
    BY <2>1, <2>2 DEF ClientsInv
<1>14. \A d \in Client : "ok" \in Range(results[d]) => "ok" \in Range(results'[d])
  <2>1. \A d \in Client : d # c => results'[d] = results[d]
    BY <1>1, <1>2
  <2> QED
    BY <1>10, <2>1
<1> QED
  BY <1>1, <1>13, <1>14, ServerKeeps DEF HandshakeInv

LEMMA CloseClientStep ==
    ASSUME HandshakeInv, NEW c \in Client, CloseClient(c)
    PROVE  HandshakeInv'
<1>1. /\ local' = local /\ serverID' = serverID /\ results' = results
      /\ toServer' = toServer /\ toClient' = toClient /\ dropped' = dropped /\ addrToID' = addrToID
      /\ ServerUnchanged
  BY DEF CloseClient, ServerUnchanged
<1>2. TableInv' /\ EventsInv'
  BY <1>1, ServerKeeps DEF HandshakeInv
<1>3. ClientsInv'
  <2>1. \A d \in Client : ClientSound(d)' /\ DatagramsSound(d)'
    BY <1>1, OthersClientSound, OthersDatagramsSound DEF HandshakeInv, ClientsInv
  <2> QED
    BY <1>1, <2>1 DEF HandshakeInv, ClientsInv
<1> QED
  BY <1>2, <1>3 DEF HandshakeInv

-----------------------------------------------------------------------------
(* An event that is emitted tells the last news of its connection.         *)
LEMMA EmittedSound ==
    ASSUME EventsInv, NEW id \in Nat \ {0}, NEW up \in BOOLEAN, nextID \in Nat,
           NEW N \in Nat, nextID <= N, id < N, NEW P,
           \A x \in Nat \ {0} : x \in P <=> IF x = id THEN up ELSE x \in Open
    PROVE  /\ Emitted(id, up) \in Seq(Event)
           /\ \A i \in 1 .. Len(Emitted(id, up)) : Emitted(id, up)[i].id < N
           /\ Len(Emitted(id, up)) < EventCap =>
                \A x \in Nat \ {0} : LastUp(Emitted(id, up), x) <=> x \in P
<1>1. PICK n \in Nat : n = Len(events) /\ events \in Seq(Event)
  BY DEF EventsInv
<1>2. EventCap \in Nat
  BY HandshakeAssumption DEF HandshakeAssumption
<1>3. \A i \in 1 .. n : events[i].id < N
  <2> SUFFICES ASSUME NEW i \in 1 .. n PROVE events[i].id < N
    OBVIOUS
  <2>2. events[i] \in Event
    BY <1>1
  <2>1. events[i].id \in Nat /\ events[i].id < nextID
    BY <1>1, <2>2 DEF EventsInv, Event
  <2> QED
    BY <2>1
<1>4. CASE ~(n < EventCap)
  BY <1>1, <1>2, <1>3, <1>4 DEF Emitted
<1>5. CASE n < EventCap
  <2> DEFINE e == [id |-> id, up |-> up]
             t == Append(events, e)
  <2>1. e \in Event /\ e.id = id /\ e.up = up
    BY DEF Event
  <2> HIDE DEF e
  <2>2. t \in Seq(Event) /\ Len(t) = n + 1 /\ t[n + 1] = e /\ \A i \in 1 .. n : t[i] = events[i]
    BY <1>1, <2>1
  <2>3. Emitted(id, up) = t
    BY <1>1, <1>5 DEF Emitted, e
  <2>4. ASSUME NEW x \in Nat \ {0} PROVE LastUp(t, x) <=> x \in P
    <3>1. LastUp(events, x) <=> x \in Open
      BY <1>1, <1>5 DEF EventsInv
    <3>2. LastUp(t, x) <=> IF x = id THEN up ELSE LastUp(events, x)
      BY <1>1, <2>1, LastUpAppend
    <3> QED
      BY <3>1, <3>2
  <2> HIDE DEF t
  <2>5. \A i \in 1 .. Len(t) : t[i].id < N
    BY <1>1, <1>3, <2>1, <2>2
  <2> QED
    BY <2>2, <2>3, <2>4, <2>5
<1> QED
  BY <1>4, <1>5

LEMMA ServerReceiveStep ==
    ASSUME HandshakeInv, NEW c \in Client, NEW datagram, ServerReceive(c, datagram)
    PROVE  HandshakeInv'
<1> DEFINE adds == AddConn(c, datagram)
           id == IF adds THEN nextID ELSE addrToID[c]
           conn == IF adds THEN [addr |-> c, state |-> "connecting", heard |-> {}] ELSE remote[id]
           new == datagram \ conn.heard
           opens == conn.state = "connecting" /\ "ack" \in new
           state == IF opens THEN "connected" ELSE conn.state
           after == [conn EXCEPT !.heard = @ \cup datagram, !.state = IF opens THEN "connected" ELSE @]
<1>1. /\ datagram \in toServer[c] /\ (adds \/ c \in DOMAIN addrToID)
      /\ nextID' = IF adds THEN nextID + 1 ELSE nextID
      /\ addrToID' = With(addrToID, c, id)
      /\ remote' = With(remote, id, after)
      /\ toClient' = [toClient EXCEPT ![c] = IF "request" \in new /\ conn.state = "connecting"
                                             THEN @ \cup {IF c \in Outdated THEN "reject" ELSE "accept"} ELSE @]
      /\ events' = IF opens THEN Emitted(id, TRUE) ELSE events
      /\ local' = local /\ serverID' = serverID /\ results' = results /\ toServer' = toServer /\ dropped' = dropped
  BY Zenon DEF ServerReceive
<1>2. ClientsInv /\ TableInv /\ EventsInv
  BY DEF HandshakeInv
<1>3. nextID \in Nat \ {0} /\ DOMAIN remote \subseteq 1 .. nextID - 1
  BY <1>2 DEF TableInv
<1>4. ASSUME adds
      PROVE  /\ id = nextID /\ conn = [addr |-> c, state |-> "connecting", heard |-> {}]
             /\ c \notin DOMAIN addrToID /\ Cardinality(DOMAIN remote) < MaxConnections
             /\ id \notin DOMAIN remote
  BY <1>3, <1>4 DEF AddConn
<1>5. ASSUME ~adds
      PROVE  id = addrToID[c] /\ id \in DOMAIN remote /\ conn = remote[id] /\ remote[id].addr = c /\ c \in DOMAIN addrToID
  BY <1>1, <1>2, <1>5 DEF TableInv
<1>6. conn = [addr |-> c, state |-> conn.state, heard |-> conn.heard]
  <2>1. CASE adds
    <3>1. conn = [addr |-> c, state |-> "connecting", heard |-> {}]
      BY <1>4, <2>1
    <3> HIDE DEF conn
    <3> QED
      BY <3>1
  <2>2. CASE ~adds
    <3>1. conn = remote[id] /\ remote[id].addr = c /\ id \in DOMAIN remote
      BY <1>5, <2>2
    <3>2. remote[id] = [addr |-> remote[id].addr, state |-> remote[id].state, heard |-> remote[id].heard]
      BY <1>2, <3>1 DEF TableInv
    <3> HIDE DEF conn, id
    <3> QED
      BY <3>1, <3>2
  <2> QED
    BY <2>1, <2>2
<1>7. after.addr = c /\ after.state = state
      /\ after = [addr |-> after.addr, state |-> after.state, heard |-> after.heard]
  <2> HIDE DEF conn, opens
  <2>1. after = [conn EXCEPT !.heard = @ \cup datagram, !.state = state]
    OBVIOUS
  <2> HIDE DEF after, state
  <2>2. conn = [x \in {"addr", "state", "heard"} |-> conn[x]] /\ conn["addr"] = c
    BY <1>6
  <2>3. after = [x \in {"addr", "state", "heard"} |-> after[x]]
    BY <2>1, <2>2
  <2>4. after["addr"] = c /\ after["state"] = state
    BY <2>1, <2>2
  <2>5. after = [addr |-> after["addr"], state |-> after["state"], heard |-> after["heard"]]
    BY <2>3
  <2> QED
    BY <2>4, <2>5
<1>8. id \in Nat \ {0} /\ id < nextID' /\ nextID' \in Nat \ {0} /\ nextID <= nextID'
  <2>1. CASE adds
    BY <1>1, <1>3, <1>4, <2>1
  <2>2. CASE ~adds
    BY <1>1, <1>3, <1>5, <2>2
  <2> QED
    BY <2>1, <2>2
<1>9. opens => "ok" \in Range(results[c]) /\ c \notin Outdated
  BY <1>1, <1>2 DEF ClientsInv, DatagramsSound
<1>10. state = "connected" =>
            opens \/ (~adds /\ remote[id].state = "connected")
  <2>1. CASE adds
    <3>1. conn.state = "connecting"
      BY <1>4, <2>1
    <3> HIDE DEF conn, id
    <3> QED
      BY <3>1
  <2>2. CASE ~adds
    BY <1>5, <2>2
  <2> QED
    BY <2>1, <2>2
<1>11. ~adds /\ remote[id].state = "connected" => state = "connected"
  BY <1>5
<1>12. ClientsInv'
  <2>1. toClient[c] \subseteq toClient'[c] /\ \A d \in Client : d # c => toClient'[d] = toClient[d]
    <3>1. DOMAIN toClient = Client
      BY <1>2 DEF ClientsInv
    <3> HIDE DEF new, conn
    <3> QED
      BY <1>1, <3>1
  <2>2. "accept" \in toClient'[c] => "accept" \in toClient[c] \/ c \notin Outdated
    <3>1. DOMAIN toClient = Client
      BY <1>2 DEF ClientsInv
    <3> HIDE DEF new, conn
    <3> QED
      BY <1>1, <3>1
  <2>3. DOMAIN addrToID' = DOMAIN addrToID \cup {c}
    BY <1>1 DEF With
  <2>4. \A d \in Client : ClientSound(d)'
    <3>1. \A d \in Client : ClientSound(d) /\ toClient[d] \subseteq toClient'[d]
      BY <1>2, <2>1 DEF ClientsInv
    <3> QED
      BY <1>1, <3>1, OthersClientSound
  <2>5. DatagramsSound(c)'
    <3>1. DatagramsSound(c)
      BY <1>2 DEF ClientsInv
    <3>2. "accept" \in toClient'[c] => c \notin Outdated
      BY <2>2, <3>1 DEF DatagramsSound
    <3>3. \A x \in toServer'[c] : "ack" \in x => "accept" \in toClient'[c] /\ "ok" \in Range(results'[c])
      BY <1>1, <2>1, <3>1 DEF DatagramsSound
    <3> QED
      BY <2>3, <3>2, <3>3 DEF DatagramsSound
  <2>6. \A d \in Client : d # c => DatagramsSound(d)'
    <3>1. \A d \in Client : DatagramsSound(d)
      BY <1>2 DEF ClientsInv
    <3> QED
      BY <1>1, <2>1, <2>3, <3>1, OthersDatagramsSound
  <2>7. DOMAIN toClient' = Client
    BY <1>1, <1>2 DEF ClientsInv
  <2> QED
    BY <1>1, <1>2, <2>4, <2>5, <2>6, <2>7 DEF ClientsInv
<1> HIDE DEF adds, id, conn, opens, after, new, state
<1>13. DOMAIN remote' = DOMAIN remote \cup {id} /\ remote'[id] = after
       /\ \A y \in DOMAIN remote : y # id => remote'[y] = remote[y]
  BY <1>1 DEF With
<1>14. DOMAIN addrToID' = DOMAIN addrToID \cup {c} /\ addrToID'[c] = id
       /\ \A d \in DOMAIN addrToID : d # c => addrToID'[d] = addrToID[d]
  BY <1>1 DEF With
<1>15. TableInv'
  <2>1. DOMAIN remote' \subseteq 1 .. nextID' - 1
    BY <1>3, <1>8, <1>13
  <2>2. IsFiniteSet(DOMAIN remote') /\ Cardinality(DOMAIN remote') <= MaxConnections
    <3>1. IsFiniteSet(DOMAIN remote) /\ Cardinality(DOMAIN remote) <= MaxConnections /\ MaxConnections \in Nat
      BY <1>2, HandshakeAssumption DEF TableInv, HandshakeAssumption
    <3>2. CASE ~adds
      <4>1. DOMAIN remote' = DOMAIN remote
        BY <1>5, <1>13, <3>2
      <4> QED
        BY <3>1, <4>1
    <3>3. CASE adds
      <4>1. IsFiniteSet(DOMAIN remote \cup {id}) /\ Cardinality(DOMAIN remote \cup {id}) = Cardinality(DOMAIN remote) + 1
        BY <1>4, <3>1, <3>3, FS_AddElement
      <4>2. Cardinality(DOMAIN remote) \in Nat /\ Cardinality(DOMAIN remote) < MaxConnections
        BY <1>4, <3>1, <3>3, FS_CardinalityType
      <4> QED
        BY <1>13, <3>1, <4>1, <4>2
    <3> QED
      BY <3>2, <3>3
  <2>3. ASSUME NEW y \in DOMAIN remote'
        PROVE  /\ remote'[y].addr \in Client
               /\ remote'[y] = [addr |-> remote'[y].addr, state |-> remote'[y].state, heard |-> remote'[y].heard]
               /\ remote'[y].addr \in DOMAIN addrToID' /\ addrToID'[remote'[y].addr] = y
               /\ remote'[y].state = "connected" =>
                    "ok" \in Range(results'[remote'[y].addr]) /\ remote'[y].addr \notin Outdated
    <3>1. CASE y = id
      <4>1. remote'[y] = after /\ after.addr = c /\ after.state = state
        BY <1>7, <1>13, <3>1
      <4>2. state = "connected" => "ok" \in Range(results[c]) /\ c \notin Outdated
        <5>1. ~adds /\ remote[id].state = "connected" => "ok" \in Range(results[c]) /\ c \notin Outdated
          BY <1>2, <1>5 DEF TableInv
        <5> QED
          BY <1>9, <1>10, <5>1
      <4> QED
        BY <1>1, <1>7, <1>14, <3>1, <4>1, <4>2
    <3>2. CASE y # id
      <4>1. y \in DOMAIN remote /\ remote'[y] = remote[y]
        BY <1>13, <3>2
      <4>2. /\ remote[y].addr \in Client
            /\ remote[y] = [addr |-> remote[y].addr, state |-> remote[y].state, heard |-> remote[y].heard]
            /\ remote[y].addr \in DOMAIN addrToID /\ addrToID[remote[y].addr] = y
            /\ remote[y].state = "connected" =>
                "ok" \in Range(results[remote[y].addr]) /\ remote[y].addr \notin Outdated
        BY <1>2, <4>1 DEF TableInv
      <4>3. remote[y].addr # c
        <5>1. SUFFICES ASSUME remote[y].addr = c PROVE FALSE
          OBVIOUS
        <5>2. ~adds
          BY <1>4, <4>2, <5>1
        <5> QED
          BY <1>5, <3>2, <4>2, <5>1, <5>2
      <4> QED
        BY <1>1, <1>14, <4>1, <4>2, <4>3
    <3> QED
      BY <3>1, <3>2
  <2>4. DOMAIN addrToID' \subseteq Client
    BY <1>2, <1>14 DEF TableInv
  <2>5. ASSUME NEW d \in DOMAIN addrToID'
        PROVE  addrToID'[d] \in DOMAIN remote' /\ remote'[addrToID'[d]].addr = d
    <3>1. CASE d = c
      BY <1>7, <1>13, <1>14, <3>1
    <3>2. CASE d # c
      <4>1. d \in DOMAIN addrToID /\ addrToID'[d] = addrToID[d]
        BY <1>14, <3>2
      <4>2. addrToID[d] \in DOMAIN remote /\ remote[addrToID[d]].addr = d
        BY <1>2, <4>1 DEF TableInv
      <4>3. addrToID[d] # id
        BY <1>4, <1>5, <3>2, <4>2
      <4> QED
        BY <1>13, <4>1, <4>2, <4>3
    <3> QED
      BY <3>1, <3>2
  <2> QED
    BY <1>8, <2>1, <2>2, <2>3, <2>4, <2>5 DEF TableInv
<1>16. \A x \in Nat \ {0} : x \in Open' <=> IF x = id THEN state = "connected" ELSE x \in Open
  BY <1>7, <1>13 DEF Open
<1>17. EventsInv'
  <2>1. CASE opens
    <3>1. state = "connected"
      BY <2>1 DEF state
    <3>2. \A x \in Nat \ {0} : x \in Open' <=> IF x = id THEN TRUE ELSE x \in Open
      BY <1>16, <3>1
    <3>3. events' = Emitted(id, TRUE)
      BY <1>1, <2>1
    <3>4. /\ Emitted(id, TRUE) \in Seq(Event)
          /\ \A i \in 1 .. Len(Emitted(id, TRUE)) : Emitted(id, TRUE)[i].id < nextID'
          /\ Len(Emitted(id, TRUE)) < EventCap =>
                \A x \in Nat \ {0} : LastUp(Emitted(id, TRUE), x) <=> x \in Open'
      BY <1>2, <1>3, <1>8, <3>2, EmittedSound
    <3> QED
      BY <3>3, <3>4 DEF EventsInv
  <2>2. CASE ~opens
    <3>1. \A x \in Nat \ {0} : x \in Open' <=> x \in Open
      <4>1. adds => state # "connected" /\ id \notin Open
        BY <1>4, <1>10, <2>2 DEF Open
      <4>2. ~adds => (state = "connected" <=> id \in Open)
        BY <1>5, <1>10, <1>11, <2>2 DEF Open
      <4> QED
        BY <1>16, <4>1, <4>2
    <3>2. events' = events
      BY <1>1, <2>2
    <3>3. events \in Seq(Event) /\ \A i \in 1 .. Len(events) : events[i].id < nextID'
      <4>1. ASSUME NEW i \in 1 .. Len(events) PROVE events[i].id \in Nat /\ events[i].id < nextID
        <5>1. events[i] \in Event
          BY <1>2 DEF EventsInv
        <5> QED
          BY <1>2, <5>1 DEF EventsInv, Event
      <4> QED
        BY <1>2, <1>3, <1>8, <4>1 DEF EventsInv
    <3> QED
      BY <1>2, <3>1, <3>2, <3>3 DEF EventsInv
  <2> QED
    BY <2>1, <2>2
<1> QED
  BY <1>12, <1>15, <1>17 DEF HandshakeInv

LEMMA ServerEndsStep ==
    ASSUME HandshakeInv, NEW id \in DOMAIN remote, ServerEnds(id)
    PROVE  HandshakeInv'
<1> DEFINE c == remote[id].addr
<1>1. /\ remote' = Without(remote, {id}) /\ addrToID' = Without(addrToID, {c})
      /\ events' = Emitted(id, FALSE) /\ dropped' = dropped \cup {c}
      /\ local' = local /\ serverID' = serverID /\ results' = results /\ nextID' = nextID
      /\ toServer' = toServer /\ toClient' = toClient
  BY DEF ServerEnds, EndRemote
<1>2. ClientsInv /\ TableInv /\ EventsInv
  BY DEF HandshakeInv
<1>3. c \in Client /\ c \in DOMAIN addrToID /\ addrToID[c] = id /\ nextID \in Nat \ {0} /\ id \in 1 .. nextID - 1
  BY <1>2 DEF TableInv
<1> HIDE DEF c
<1>4. DOMAIN remote' = DOMAIN remote \ {id} /\ \A y \in DOMAIN remote' : remote'[y] = remote[y]
  BY <1>1 DEF Without
<1>5. DOMAIN addrToID' = DOMAIN addrToID \ {c} /\ \A d \in DOMAIN addrToID' : addrToID'[d] = addrToID[d]
  BY <1>1 DEF Without
<1>6. ClientsInv'
  <2>1. DOMAIN addrToID \cup dropped \subseteq DOMAIN addrToID' \cup dropped'
    BY <1>1, <1>5
  <2>2. \A d \in Client : ClientSound(d)' /\ DatagramsSound(d)'
    BY <1>1, <1>2, <2>1, OthersClientSound, OthersDatagramsSound DEF ClientsInv
  <2> QED
    BY <1>1, <1>2, <2>2 DEF ClientsInv
<1>7. TableInv'
  <2>1. IsFiniteSet(DOMAIN remote') /\ Cardinality(DOMAIN remote') <= MaxConnections
    <3>1. IsFiniteSet(DOMAIN remote) /\ Cardinality(DOMAIN remote) <= MaxConnections /\ MaxConnections \in Nat
      BY <1>2, HandshakeAssumption DEF TableInv, HandshakeAssumption
    <3>2. DOMAIN remote' \in SUBSET DOMAIN remote
      BY <1>4
    <3>3. IsFiniteSet(DOMAIN remote') /\ Cardinality(DOMAIN remote') <= Cardinality(DOMAIN remote)
      BY <3>1, <3>2, FS_Subset
    <3>4. Cardinality(DOMAIN remote') \in Nat /\ Cardinality(DOMAIN remote) \in Nat
      BY <3>1, <3>3, FS_CardinalityType
    <3> QED
      BY <3>1, <3>3, <3>4
  <2>2. ASSUME NEW y \in DOMAIN remote'
        PROVE  /\ remote'[y].addr \in Client
               /\ remote'[y] = [addr |-> remote'[y].addr, state |-> remote'[y].state, heard |-> remote'[y].heard]
               /\ remote'[y].addr \in DOMAIN addrToID' /\ addrToID'[remote'[y].addr] = y
               /\ remote'[y].state = "connected" =>
                    "ok" \in Range(results'[remote'[y].addr]) /\ remote'[y].addr \notin Outdated
    <3>1. y \in DOMAIN remote /\ y # id /\ remote'[y] = remote[y]
      BY <1>4
    <3>2. /\ remote[y].addr \in Client
          /\ remote[y] = [addr |-> remote[y].addr, state |-> remote[y].state, heard |-> remote[y].heard]
          /\ remote[y].addr \in DOMAIN addrToID /\ addrToID[remote[y].addr] = y
          /\ remote[y].state = "connected" =>
                "ok" \in Range(results[remote[y].addr]) /\ remote[y].addr \notin Outdated
      BY <1>2, <3>1 DEF TableInv
    <3>3. remote[y].addr # c
      BY <1>3, <3>1, <3>2
    <3> QED
      BY <1>1, <1>5, <3>1, <3>2, <3>3
  <2>3. ASSUME NEW d \in DOMAIN addrToID'
        PROVE  addrToID'[d] \in DOMAIN remote' /\ remote'[addrToID'[d]].addr = d
    <3>1. d \in DOMAIN addrToID /\ d # c /\ addrToID'[d] = addrToID[d]
      BY <1>5
    <3>2. addrToID[d] \in DOMAIN remote /\ remote[addrToID[d]].addr = d
      BY <1>2, <3>1 DEF TableInv
    <3>3. addrToID[d] # id
      BY <3>1, <3>2 DEF c
    <3> QED
      BY <1>4, <3>1, <3>2, <3>3
  <2>4. DOMAIN addrToID' \subseteq Client /\ DOMAIN remote' \subseteq 1 .. nextID' - 1 /\ nextID' \in Nat \ {0}
    BY <1>1, <1>2, <1>4, <1>5 DEF TableInv
  <2> QED
    BY <2>1, <2>2, <2>3, <2>4 DEF TableInv
<1>8. EventsInv'
  <2>1. \A x \in Nat \ {0} : x \in Open' <=> IF x = id THEN FALSE ELSE x \in Open
    BY <1>4 DEF Open
  <2>2. id \in Nat \ {0} /\ id < nextID /\ nextID \in Nat /\ nextID <= nextID
    BY <1>3
  <2>3. /\ Emitted(id, FALSE) \in Seq(Event)
        /\ \A i \in 1 .. Len(Emitted(id, FALSE)) : Emitted(id, FALSE)[i].id < nextID
        /\ Len(Emitted(id, FALSE)) < EventCap =>
            \A x \in Nat \ {0} : LastUp(Emitted(id, FALSE), x) <=> x \in Open'
    BY <1>2, <2>1, <2>2, EmittedSound
  <2> QED
    BY <1>1, <2>3 DEF EventsInv
<1> QED
  BY <1>6, <1>7, <1>8 DEF HandshakeInv

(* The handshake's inductive invariant holds for any clients, versions,    *)
(* limits and capacity of the event channel, whatever is lost, repeated or *)
(* late.                                                                   *)
THEOREM HandshakeInvariant == HandshakeSpec => []HandshakeInv
<1>1. HandshakeInit => HandshakeInv
  <2> SUFFICES ASSUME HandshakeInit PROVE HandshakeInv
    OBVIOUS
  <2>1. /\ \A c \in Client : local[c] = << >> /\ serverID[c] = 0 /\ results[c] = <<>> /\ toServer[c] = {} /\ toClient[c] = {}
        /\ DOMAIN local = Client /\ DOMAIN results = Client /\ DOMAIN serverID = Client
        /\ DOMAIN toServer = Client /\ DOMAIN toClient = Client
        /\ remote = << >> /\ addrToID = << >> /\ nextID = 1 /\ events = <<>>
    BY DEF HandshakeInit
  <2>2. DOMAIN << >> = {} /\ Len(<< >>) = 0 /\ << >> \in Seq(ConnectOutcome) /\ << >> \in Seq(Event)
    OBVIOUS
  <2>3. ClientsInv
    BY <2>1, <2>2 DEF ClientsInv, ClientSound, DatagramsSound, WaitersCanEnd
  <2>4. TableInv
    <3>1. IsFiniteSet({}) /\ Cardinality({}) = 0 /\ MaxConnections \in Nat
      BY FS_EmptySet, HandshakeAssumption DEF HandshakeAssumption
    <3> QED
      BY <2>1, <2>2, <3>1 DEF TableInv
  <2>5. EventsInv
    BY <2>1, <2>2 DEF EventsInv, LastUp, Open
  <2> QED
    BY <2>3, <2>4, <2>5 DEF HandshakeInv
<1>2. ASSUME HandshakeInv, [HandshakeNext]_handshakeVars PROVE HandshakeInv'
  <2>1. ASSUME NEW c \in Client, Connect(c) PROVE HandshakeInv'
    BY <1>2, <2>1, ConnectStep
  <2>2. ASSUME NEW c \in Client, CloseClient(c) PROVE HandshakeInv'
    BY <1>2, <2>2, CloseClientStep
  <2>3. ASSUME NEW c \in Client, NEW answer \in {"accept", "reject"}, ClientReceive(c, answer) PROVE HandshakeInv'
    <3>1. CASE answer = "accept"
      BY <1>2, <2>3, <3>1, AcceptedStep
    <3>2. CASE answer = "reject"
      <4>1. EndLocal(c, serverID[c])
        BY <2>3, <3>2 DEF ClientReceive
      <4> QED
        BY <1>2, <4>1, EndLocalStep
    <3> QED
      BY <2>3, <3>1, <3>2
  <2>4. ASSUME NEW c \in Client, NEW id \in DOMAIN local[c], ClientEnds(c, id) PROVE HandshakeInv'
    BY <1>2, <2>4, EndLocalStep DEF ClientEnds
  <2>5. ASSUME NEW c \in Client, NEW datagram \in SUBSET {"request", "ack"}, ServerReceive(c, datagram)
        PROVE  HandshakeInv'
    BY <1>2, <2>5, ServerReceiveStep
  <2>6. ASSUME NEW id \in DOMAIN remote, ServerEnds(id) PROVE HandshakeInv'
    BY <1>2, <2>6, ServerEndsStep
  <2>7. CASE UNCHANGED handshakeVars
    <3>1. /\ local' = local /\ serverID' = serverID /\ results' = results
          /\ toServer' = toServer /\ toClient' = toClient /\ dropped' = dropped /\ addrToID' = addrToID
          /\ ServerUnchanged
      BY <2>7 DEF handshakeVars, ServerUnchanged
    <3>2. TableInv' /\ EventsInv'
      BY <1>2, <3>1, ServerKeeps DEF HandshakeInv
    <3>3. \A d \in Client : ClientSound(d)' /\ DatagramsSound(d)'
      BY <1>2, <3>1, OthersClientSound, OthersDatagramsSound DEF HandshakeInv, ClientsInv
    <3> QED
      BY <1>2, <3>1, <3>2, <3>3 DEF HandshakeInv, ClientsInv
  <2> QED
    BY <1>2, <2>1, <2>2, <2>3, <2>4, <2>5, <2>6, <2>7 DEF HandshakeNext
<1> QED
  BY <1>1, <1>2, PTL DEF HandshakeSpec

LEMMA HandshakeInvSound == HandshakeInv => HandshakeSound
<1> SUFFICES ASSUME HandshakeInv PROVE HandshakeSound
  OBVIOUS
<1>1. ClientsInv /\ TableInv /\ EventsInv
  BY DEF HandshakeInv
<1>2. \A c \in Client : WaitersCanEnd(c)
  BY <1>1 DEF ClientsInv, ClientSound
<1>3. ServerTableSound
  BY <1>1 DEF TableInv, ServerTableSound
<1>4. EndsAgree
  <2>1. ASSUME NEW c \in Client, NEW id \in DOMAIN local[c], local[c][id] = "connected"
        PROVE  c \in DOMAIN addrToID \cup dropped
    BY <1>1, <2>1 DEF ClientsInv, ClientSound, DatagramsSound
  <2>2. \A id \in DOMAIN remote :
            remote[id].state = "connected" =>
                "ok" \in Range(results[remote[id].addr]) /\ remote[id].addr \notin Outdated
    BY <1>1 DEF TableInv
  <2> QED
    BY <2>1, <2>2 DEF EndsAgree
<1>5. EventsTrue
  <2> DEFINE last(id) == SelectLastInSeq(events, LAMBDA e : e.id = id)
  <2> SUFFICES ASSUME Len(events) < EventCap
               PROVE  Open = {id \in 1 .. nextID - 1 : last(id) # 0 /\ events[last(id)].up}
    BY DEF EventsTrue, Open
  <2>1. ASSUME NEW id \in 1 .. nextID - 1 PROVE id \in Open <=> last(id) # 0 /\ events[last(id)].up
    <3>1. id \in Nat \ {0}
      BY <1>1 DEF TableInv
    <3>2. LastUp(events, id) <=> id \in Open
      BY <1>1, <3>1 DEF EventsInv
    <3>3. (last(id) # 0 /\ events[last(id)].up) <=> LastUp(events, id)
      BY <1>1, <3>1, LastEvent DEF EventsInv
    <3> HIDE DEF last
    <3> QED
      BY <3>2, <3>3
  <2>2. Open \subseteq 1 .. nextID - 1
    BY <1>1 DEF TableInv, Open
  <2> HIDE DEF last
  <2> QED
    BY <2>1, <2>2
<1> QED
  BY <1>2, <1>3, <1>4, <1>5 DEF HandshakeSound

(* udp.go, handshake.go.  Whoever waits in Connect has a connection that   *)
(* can still time out; the server's table is one connection per address,   *)
(* within its limit; a client that is connected has one at the server      *)
(* unless the server ended one; and EventsCh tells which are open.         *)
THEOREM HandshakeSoundHolds == HandshakeSpec => []HandshakeSound
  BY HandshakeInvariant, HandshakeInvSound, PTL

-----------------------------------------------------------------------------
(* ReliableChannel.  Two arguments.  In the server, what has arrived is    *)
(* seen as a duplicate ever after, but for a highest number that a jump    *)
(* unmarked (Filtered), and in the ordered mode the numbers below `expect` *)
(* were delivered in order (OrderedSound).  In the client, a frame carries *)
(* the number of a datagram that holds it (FramesSent), and what an        *)
(* acknowledgement names was received, each of its game frames delivered,  *)
(* buffered or accounted for (AcksTrue), so a frame that leaves the window *)
(* is not lost.                                                            *)

(* Ascending lists every number of a finite set, and of an interval in     *)
(* order.                                                                  *)
LEMMA AscendingInterval ==
    ASSUME NEW a \in Nat, NEW n \in Nat
    PROVE  /\ Cardinality(a .. a + n - 1) = n
           /\ Ascending(a .. a + n - 1) = [i \in 1 .. n |-> a + i - 1]
<1> DEFINE S == a .. a + n - 1
<1>1. Cardinality(S) = n /\ IsFiniteSet(S)
  <2>1. a \in Int /\ a + n - 1 \in Int
    OBVIOUS
  <2>2. IsFiniteSet(S) /\ Cardinality(S) = IF a > a + n - 1 THEN 0 ELSE (a + n - 1) - a + 1
    BY <2>1, FS_Interval
  <2>3. (IF a > a + n - 1 THEN 0 ELSE (a + n - 1) - a + 1) = n
    OBVIOUS
  <2> QED
    BY <2>2, <2>3
<1>2. ASSUME NEW k \in S PROVE Cardinality({j \in S : j < k}) = k - a
  <2>1. {j \in S : j < k} = a .. k - 1
    BY <1>2
  <2>2. a \in Int /\ k - 1 \in Int /\ k >= a
    OBVIOUS
  <2>3. Cardinality(a .. k - 1) = IF a > k - 1 THEN 0 ELSE (k - 1) - a + 1
    BY <2>2, FS_Interval
  <2>4. (IF a > k - 1 THEN 0 ELSE (k - 1) - a + 1) = k - a
    BY <2>2
  <2> QED
    BY <2>1, <2>3, <2>4
<1>3. ASSUME NEW i \in 1 .. n
      PROVE  (CHOOSE k \in S : Cardinality({j \in S : j < k}) = i - 1) = a + i - 1
  <2>1. a + i - 1 \in S
    OBVIOUS
  <2>2. Cardinality({j \in S : j < a + i - 1}) = i - 1
    <3>1. Cardinality({j \in S : j < a + i - 1}) = (a + i - 1) - a
      BY <1>2, <2>1
    <3> QED
      BY <3>1
  <2>3. \A k \in S : Cardinality({j \in S : j < k}) = i - 1 => k = a + i - 1
    <3>1. \A k \in S : k - a = i - 1 => k = a + i - 1
      OBVIOUS
    <3> QED
      BY <1>2, <3>1
  <2> HIDE DEF S
  <2> QED
    BY <2>1, <2>2, <2>3
<1>4. Ascending(S) = [i \in 1 .. Cardinality(S) |-> CHOOSE k \in S : Cardinality({j \in S : j < k}) = i - 1]
  BY DEF Ascending
<1> HIDE DEF S
<1>5. Ascending(S) = [i \in 1 .. n |-> a + i - 1]
  BY <1>1, <1>3, <1>4
<1> QED
  BY <1>1, <1>5 DEF S

(* A proper part of a finite set is smaller.                               *)
LEMMA ProperPart ==
    ASSUME NEW S, IsFiniteSet(S), NEW T \in SUBSET S, T # S
    PROVE  IsFiniteSet(T) /\ Cardinality(T) \in Nat /\ Cardinality(S) \in Nat /\ Cardinality(T) < Cardinality(S)
<1>1. IsFiniteSet(T) /\ Cardinality(T) <= Cardinality(S) /\ Cardinality(S) # Cardinality(T)
  BY FS_Subset
<1>2. Cardinality(T) \in Nat /\ Cardinality(S) \in Nat
  BY <1>1, FS_CardinalityType
<1> QED
  BY <1>1, <1>2

LEMMA AscendingAll ==
    ASSUME NEW S \in SUBSET Nat, IsFiniteSet(S)
    PROVE  /\ Ascending(S) \in Seq(S)
           /\ \A k \in S : \E i \in 1 .. Len(Ascending(S)) : Ascending(S)[i] = k
<1> DEFINE n == Cardinality(S)
           below(k) == {j \in S : j < k}
<1>1. n \in Nat
  BY FS_CardinalityType
<1>2. ASSUME NEW k \in S
      PROVE  IsFiniteSet(below(k)) /\ Cardinality(below(k)) \in 0 .. n - 1
  <2>1. below(k) \in SUBSET S /\ below(k) # S
    OBVIOUS
  <2>2. IsFiniteSet(below(k)) /\ Cardinality(below(k)) < n
    BY <2>1, ProperPart
  <2>3. Cardinality(below(k)) \in Nat
    BY <2>2, FS_CardinalityType
  <2> QED
    BY <1>1, <2>2, <2>3
<1>3. ASSUME NEW k \in S, NEW l \in S, k < l
      PROVE  Cardinality(below(k)) < Cardinality(below(l))
  <2>1. below(k) \in SUBSET below(l) /\ k \in below(l) /\ k \notin below(k)
    <3>1. k \in Nat /\ l \in Nat /\ \A j \in S : j \in Nat
      OBVIOUS
    <3>2. \A j \in S : j < k => j < l
      BY <1>3, <3>1
    <3>3. ~ k < k
      BY <3>1
    <3> QED
      BY <1>3, <3>2, <3>3
  <2>2. below(k) # below(l)
    BY <2>1
  <2> QED
    BY <1>2, <2>1, <2>2, ProperPart
<1>4. ASSUME NEW k \in S, NEW l \in S, Cardinality(below(k)) = Cardinality(below(l))
      PROVE  k = l
  <2>1. ~ k < l
    BY <1>3, <1>4, <1>2
  <2>2. ~ l < k
    BY <1>3, <1>4, <1>2
  <2> QED
    BY <2>1, <2>2
<1>5. ASSUME NEW i \in 1 .. n PROVE \E k \in S : Cardinality(below(k)) = i - 1
  <2> DEFINE T == (0 .. n - 1) \ {i - 1}
             f == [k \in S |-> Cardinality(below(k))]
  <2>1. SUFFICES ASSUME \A k \in S : Cardinality(below(k)) # i - 1 PROVE FALSE
    OBVIOUS
  <2>2. f \in [S -> T]
    BY <1>2, <2>1
  <2>3. IsFiniteSet(0 .. n - 1) /\ Cardinality(0 .. n - 1) = n
    <3>1. 0 \in Int /\ n - 1 \in Int
      BY <1>1
    <3>2. Cardinality(0 .. n - 1) = IF 0 > n - 1 THEN 0 ELSE (n - 1) - 0 + 1
      BY <3>1, FS_Interval
    <3>3. IsFiniteSet(0 .. n - 1)
      BY <3>1, FS_Interval
    <3> QED
      BY <1>1, <3>2, <3>3
  <2>4. T \in SUBSET (0 .. n - 1) /\ T # 0 .. n - 1
    <3>1. i - 1 \in 0 .. n - 1
      BY <1>1
    <3> QED
      BY <3>1
  <2>5. IsFiniteSet(T) /\ Cardinality(T) < n
    BY <2>3, <2>4, ProperPart
  <2> HIDE DEF f, T
  <2>6. PICK k \in S, l \in S : k # l /\ f[k] = f[l]
    BY <2>2, <2>5, FS_PigeonHole
  <2> QED
    BY <1>4, <2>6 DEF f
<1> DEFINE a == Ascending(S)
           nth(i) == CHOOSE k \in S : Cardinality(below(k)) = i - 1
<1>6. a = [i \in 1 .. n |-> nth(i)]
  BY DEF Ascending
<1>7. \A i \in 1 .. n : nth(i) \in S /\ Cardinality(below(nth(i))) = i - 1
  BY <1>5
<1> HIDE DEF a, nth, n
<1>8. a \in [1 .. n -> S] /\ Len(a) = n
  <2>1. a \in [1 .. n -> S]
    BY <1>6, <1>7
  <2> QED
    BY <1>1, <2>1
<1>9. a \in Seq(S)
  BY <1>1, <1>8, SeqDef
<1>10. ASSUME NEW k \in S PROVE \E i \in 1 .. n : a[i] = k
  <2> DEFINE i == Cardinality(below(k)) + 1
  <2>1. i \in 1 .. n /\ i - 1 = Cardinality(below(k))
    BY <1>1, <1>2
  <2>2. Cardinality(below(nth(i))) = Cardinality(below(k)) /\ nth(i) \in S
    BY <1>7, <2>1
  <2>3. nth(i) = k
    BY <1>4, <2>2
  <2> HIDE DEF i
  <2> QED
    BY <1>6, <2>1, <2>3
<1> QED
  BY <1>8, <1>9, <1>10 DEF a

-----------------------------------------------------------------------------
(* The duplicate filter, over message numbers below a bound.               *)
Receiver(b) ==
    [started : BOOLEAN, highest : Nat, seen : SUBSET (1 .. DedupWidth), expect : Nat, reorder : SUBSET (0 .. b - 1)]

ChannelState(b) == [r : Receiver(b), out : Seq(0 .. b - 1), late : SUBSET Nat, forgotten : SUBSET Nat]

LEMMA MarkSeenFine ==
    ASSUME NEW b \in Nat, NEW r \in Receiver(b), NEW seq \in 0 .. b - 1, ~IsDuplicate(r, seq),
           NEW marked, marked = MarkSeen(r, seq)
    PROVE  /\ marked \in Receiver(b) /\ marked.started
           /\ marked.expect = r.expect /\ marked.reorder = r.reorder
           /\ IsDuplicate(marked, seq)
           /\ \A k \in Nat : IsDuplicate(r, k) =>
                   IsDuplicate(marked, k) \/ (k = r.highest /\ k + DedupWidth = marked.highest)
<1> DEFINE shift == seq - r.highest
<1>1. /\ r.started \in BOOLEAN /\ r.highest \in Nat /\ r.seen \in SUBSET (1 .. DedupWidth) /\ r.expect \in Nat
      /\ r.reorder \in SUBSET (0 .. b - 1) /\ seq \in Nat /\ DedupWidth \in Nat \ {0}
      /\ r = [started |-> r.started, highest |-> r.highest, seen |-> r.seen, expect |-> r.expect, reorder |-> r.reorder]
  BY ChannelAssumption DEF Receiver, ChannelAssumption
<1>2. CASE ~r.started
  <2>1. marked = [started |-> TRUE, highest |-> seq, seen |-> {}, expect |-> r.expect, reorder |-> r.reorder]
    BY <1>1, <1>2 DEF MarkSeen
  <2>2. marked \in Receiver(b)
    BY <1>1, <2>1 DEF Receiver
  <2>3. IsDuplicate(marked, seq)
    BY <1>1, <2>1 DEF IsDuplicate
  <2>4. \A k \in Nat : ~IsDuplicate(r, k)
    BY <1>2 DEF IsDuplicate
  <2> QED
    BY <2>1, <2>2, <2>3, <2>4
<1>3. CASE r.started /\ seq > r.highest
  <2> DEFINE bits == Shifted(r.seen, shift, DedupWidth)
  <2>1. marked = [started |-> TRUE, highest |-> seq, seen |-> bits, expect |-> r.expect, reorder |-> r.reorder]
    BY <1>1, <1>3 DEF MarkSeen
  <2>2. shift \in Nat \ {0} /\ seq = r.highest + shift
    BY <1>1, <1>3
  <2>3. bits \in SUBSET (1 .. DedupWidth)
    <3>1. CASE shift >= DedupWidth
      BY <3>1 DEF Shifted
    <3>2. CASE ~ shift >= DedupWidth
      <4>1. bits = {d + shift : d \in {x \in r.seen : x + shift <= DedupWidth}} \cup {shift}
        BY <3>2 DEF Shifted
      <4>2. shift \in 1 .. DedupWidth
        BY <1>1, <2>2, <3>2
      <4>3. \A d \in r.seen : d + shift <= DedupWidth => d + shift \in 1 .. DedupWidth
        BY <1>1, <2>2
      <4> QED
        BY <4>1, <4>2, <4>3
    <3> QED
      BY <3>1, <3>2
  <2>4. ASSUME NEW k \in Nat, IsDuplicate(r, k), ~(k = r.highest /\ k + DedupWidth = seq)
        PROVE  k <= seq /\ (k = seq \/ seq - k > DedupWidth \/ seq - k \in bits)
    <3>1. k <= r.highest /\ (k = r.highest \/ r.highest - k > DedupWidth \/ r.highest - k \in r.seen)
      BY <2>4 DEF IsDuplicate
    <3>2. k <= seq /\ seq - k = (r.highest - k) + shift
      BY <1>1, <2>2, <3>1
    <3>3. CASE k = r.highest
      <4>1. seq - k = shift
        BY <1>1, <3>3
      <4>2. CASE shift >= DedupWidth
        <5>1. shift > DedupWidth
          BY <1>1, <2>4, <2>2, <3>3, <4>2
        <5> QED
          BY <3>2, <4>1, <5>1
      <4>3. CASE ~ shift >= DedupWidth
        BY <3>2, <4>1, <4>3 DEF Shifted
      <4> QED
        BY <4>2, <4>3
    <3>4. CASE r.highest - k > DedupWidth
      <4>1. seq - k > DedupWidth
        BY <1>1, <2>2, <3>1, <3>2, <3>4
      <4> QED
        BY <3>2, <4>1
    <3>5. CASE r.highest - k \in r.seen
      <4>1. r.highest - k \in 1 .. DedupWidth
        BY <1>1, <3>5
      <4>2. CASE (r.highest - k) + shift > DedupWidth
        BY <3>2, <4>2
      <4>3. CASE (r.highest - k) + shift <= DedupWidth
        <5>1. ~ shift >= DedupWidth
          BY <1>1, <2>2, <4>1, <4>3
        <5>2. (r.highest - k) + shift \in bits
          BY <3>5, <4>3, <5>1 DEF Shifted
        <5> QED
          BY <3>2, <5>2
      <4> QED
        BY <1>1, <2>2, <4>1, <4>2, <4>3
    <3> QED
      BY <3>1, <3>3, <3>4, <3>5
  <2> HIDE DEF bits
  <2>5. marked \in Receiver(b)
    BY <1>1, <2>1, <2>3 DEF Receiver
  <2>6. IsDuplicate(marked, seq)
    BY <1>1, <2>1 DEF IsDuplicate
  <2>7. ASSUME NEW k \in Nat, IsDuplicate(r, k), ~(k = r.highest /\ k + DedupWidth = seq)
        PROVE  IsDuplicate(marked, k)
    BY <2>1, <2>4, <2>7 DEF IsDuplicate
  <2>8. marked.started /\ marked.expect = r.expect /\ marked.reorder = r.reorder /\ marked.highest = seq
    BY <2>1
  <2> QED
    BY <2>5, <2>6, <2>7, <2>8
<1>4. CASE r.started /\ ~ seq > r.highest
  <2> DEFINE bits == r.seen \cup ({r.highest - seq} \cap (1 .. DedupWidth))
  <2>1. marked = [started |-> TRUE, highest |-> r.highest, seen |-> bits, expect |-> r.expect, reorder |-> r.reorder]
    BY <1>1, <1>4 DEF MarkSeen
  <2>2. bits \in SUBSET (1 .. DedupWidth)
    BY <1>1
  <2>3. r.highest - seq \in bits
    <3>1. seq # r.highest /\ ~ r.highest - seq > DedupWidth /\ seq <= r.highest
      BY <1>1, <1>4 DEF IsDuplicate
    <3>2. r.highest - seq \in 1 .. DedupWidth
      BY <1>1, <3>1
    <3> QED
      BY <3>2
  <2>4. marked \in Receiver(b)
    BY <1>1, <2>1, <2>2 DEF Receiver
  <2>5. IsDuplicate(marked, seq)
    BY <1>1, <1>4, <2>1, <2>3 DEF IsDuplicate
  <2>6. ASSUME NEW k \in Nat, IsDuplicate(r, k)
        PROVE  IsDuplicate(marked, k)
    BY <2>1, <2>6 DEF IsDuplicate
  <2>7. marked.started /\ marked.expect = r.expect /\ marked.reorder = r.reorder
    BY <2>1, <1>4
  <2> QED
    BY <2>4, <2>5, <2>6, <2>7
<1> QED
  BY <1>2, <1>3, <1>4

(* What a state of the channel satisfies: whatever arrived is filtered, or *)
(* was forgotten; the two modes.                                           *)
Filtered(st) == \A k \in ArrivedIn(st) : IsDuplicate(st.r, k) \/ k \in st.forgotten

OrderedSound(st) == st.r.expect = Len(st.out) /\ \A i \in 1 .. Len(st.out) : st.out[i] = i - 1

UnorderedSound(st) ==
    /\ st.r.reorder = {}
    /\ \A i, j \in 1 .. Len(st.out) : i # j /\ st.out[i] = st.out[j] => st.out[i] \in st.forgotten

StateSound(st, b) ==
    /\ st \in ChannelState(b)
    /\ Filtered(st)
    /\ mode = "ordered" => OrderedSound(st)
    /\ mode = "unordered" => UnorderedSound(st)

(* The state a frame of number seq leads to: it has arrived, or is late.   *)
Advances(st, new, seq) ==
    /\ ArrivedIn(st) \subseteq ArrivedIn(new) /\ st.late \subseteq new.late /\ st.forgotten \subseteq new.forgotten
    /\ seq \in ArrivedIn(new) \cup new.late

(* The run that is released is an interval.                                *)
LEMMA RunInterval ==
    ASSUME NEW b \in Nat, NEW r \in Receiver(b)
    PROVE  \E n \in Nat : Run(r) = r.expect .. r.expect + n - 1
<1>1. r.expect \in Nat /\ r.reorder \in SUBSET (0 .. b - 1)
  BY DEF Receiver
<1>2. CASE Run(r) = {}
  <2>1. Run(r) = r.expect .. r.expect + 0 - 1
    BY <1>1, <1>2
  <2> QED
    BY <2>1
<1>3. CASE Run(r) # {}
  <2>1. Run(r) \in SUBSET Nat /\ \A k \in Run(r) : k <= b
    BY <1>1 DEF Run
  <2>2. PICK m \in Run(r) : \A k \in Run(r) : m >= k
    BY <1>3, <2>1, GreatestElement
  <2>3. m \in Nat /\ m >= r.expect /\ r.expect .. m \subseteq r.reorder
    BY <2>1, <2>2 DEF Run
  <2>4. \A k \in r.expect .. m : k \in Run(r)
    BY <1>1, <2>3 DEF Run
  <2>5. ASSUME NEW k \in Run(r) PROVE k \in r.expect .. m
    <3>1. k >= r.expect /\ k \in Nat /\ m >= k
      BY <2>1, <2>2 DEF Run
    <3>2. r.expect \in Nat /\ m \in Nat
      BY <1>1, <2>3
    <3> QED
      BY <3>1, <3>2
  <2>6. m - r.expect + 1 \in Nat /\ r.expect + (m - r.expect + 1) - 1 = m
    BY <1>1, <2>3
  <2>7. Run(r) = r.expect .. m
    BY <2>4, <2>5
  <2> QED
    BY <2>6, <2>7
<1> QED
  BY <1>2, <1>3

LEMMA RangeAppend ==
    ASSUME NEW S, NEW s \in Seq(S), NEW x \in S
    PROVE  Range(Append(s, x)) = Range(s) \cup {x}
<1>1. /\ Len(s) \in Nat /\ DOMAIN s = 1 .. Len(s) /\ DOMAIN Append(s, x) = 1 .. Len(s) + 1
      /\ \A i \in 1 .. Len(s) : Append(s, x)[i] = s[i]
      /\ Append(s, x)[Len(s) + 1] = x
  OBVIOUS
<1>2. \A i \in 1 .. Len(s) : i \in 1 .. Len(s) + 1
  BY <1>1
<1>3. \A i \in 1 .. Len(s) + 1 : i \in 1 .. Len(s) \/ i = Len(s) + 1
  BY <1>1
<1>4. Len(s) + 1 \in 1 .. Len(s) + 1
  BY <1>1
<1> DEFINE l == Append(s, x)
<1>5. DOMAIN l = 1 .. Len(s) + 1 /\ l[Len(s) + 1] = x /\ \A i \in 1 .. Len(s) : l[i] = s[i]
  BY <1>1
<1> HIDE DEF l
<1>6. Range(l) \subseteq Range(s) \cup {x}
  BY <1>1, <1>3, <1>5 DEF Range
<1>7. Range(s) \subseteq Range(l)
  BY <1>1, <1>2, <1>5 DEF Range
<1>8. x \in Range(l)
  BY <1>4, <1>5 DEF Range
<1> QED
  BY <1>6, <1>7, <1>8 DEF l

LEMMA ReceiveFrameUnordered ==
    ASSUME NEW b \in Nat, NEW st, StateSound(st, b), NEW seq \in 0 .. b - 1, ~IsDuplicate(st.r, seq), mode = "unordered",
           NEW new, new = ReceiveFrame(st, seq)
    PROVE  StateSound(new, b) /\ Advances(st, new, seq)
<1> DEFINE marked == MarkSeen(st.r, seq)
           gone == {k \in {st.r.highest} \cap ArrivedIn(st) : k + DedupWidth = marked.highest}
<1>1. st \in ChannelState(b) /\ st.r \in Receiver(b) /\ st.out \in Seq(0 .. b - 1)
      /\ st.late \in SUBSET Nat /\ st.forgotten \in SUBSET Nat /\ Filtered(st) /\ UnorderedSound(st)
  BY DEF StateSound, ChannelState
<1>2. new = [r |-> marked, out |-> Append(st.out, seq), late |-> st.late, forgotten |-> st.forgotten \cup gone]
  BY DEF ReceiveFrame
<1>3. /\ marked \in Receiver(b) /\ marked.reorder = st.r.reorder
      /\ IsDuplicate(marked, seq)
      /\ \A k \in Nat : IsDuplicate(st.r, k) =>
              IsDuplicate(marked, k) \/ (k = st.r.highest /\ k + DedupWidth = marked.highest)
  BY <1>1, MarkSeenFine
<1> HIDE DEF marked
<1>4. /\ new.r = marked /\ new.out = Append(st.out, seq) /\ new.late = st.late /\ new.forgotten = st.forgotten \cup gone
  BY <1>2
<1>5. /\ Append(st.out, seq) \in Seq(0 .. b - 1) /\ Len(Append(st.out, seq)) = Len(st.out) + 1
      /\ \A i \in 1 .. Len(st.out) : Append(st.out, seq)[i] = st.out[i]
      /\ Append(st.out, seq)[Len(st.out) + 1] = seq
      /\ Len(st.out) \in Nat
  BY <1>1
<1>6. ArrivedIn(st) \in SUBSET Nat
  BY <1>1 DEF ArrivedIn, Range, Receiver
<1>7. gone \in SUBSET Nat
  BY <1>6
<1>8. ArrivedIn(new) = ArrivedIn(st) \cup {seq}
  <2>1. Range(Append(st.out, seq)) = Range(st.out) \cup {seq}
    BY <1>1, RangeAppend
  <2> QED
    BY <1>3, <1>4, <2>1 DEF ArrivedIn
<1>9. new \in ChannelState(b)
  BY <1>1, <1>2, <1>3, <1>5, <1>7 DEF ChannelState
<1>10. Filtered(new)
  <2>1. ASSUME NEW k \in ArrivedIn(st) PROVE IsDuplicate(marked, k) \/ k \in new.forgotten
    <3>1. IsDuplicate(st.r, k) \/ k \in st.forgotten
      BY <1>1 DEF Filtered
    <3>2. CASE k \in st.forgotten
      BY <1>4, <3>2
    <3>3. CASE IsDuplicate(st.r, k)
      <4>1. IsDuplicate(marked, k) \/ k \in gone
        BY <1>3, <1>6, <3>3
      <4> QED
        BY <1>4, <4>1
    <3> QED
      BY <3>1, <3>2, <3>3
  <2> QED
    BY <1>3, <1>4, <1>8, <2>1 DEF Filtered
<1>11. UnorderedSound(new)
  <2>1. new.r.reorder = {}
    BY <1>1, <1>3, <1>4 DEF UnorderedSound
  <2>2. ASSUME NEW i \in 1 .. Len(st.out), st.out[i] = seq PROVE seq \in st.forgotten
    <3>1. seq \in ArrivedIn(st)
      BY <1>1, <2>2 DEF ArrivedIn, Range
    <3> QED
      BY <1>1, <3>1 DEF Filtered
  <2>3. ASSUME NEW i \in 1 .. Len(new.out), NEW j \in 1 .. Len(new.out), i # j, new.out[i] = new.out[j]
        PROVE  new.out[i] \in new.forgotten
    <3>1. i \in 1 .. Len(st.out) \/ i = Len(st.out) + 1
      BY <1>4, <1>5
    <3>2. j \in 1 .. Len(st.out) \/ j = Len(st.out) + 1
      BY <1>4, <1>5
    <3>3. CASE i \in 1 .. Len(st.out) /\ j \in 1 .. Len(st.out)
      <4>1. st.out[i] = st.out[j] /\ new.out[i] = st.out[i]
        BY <1>4, <1>5, <2>3, <3>3
      <4>2. st.out[i] \in st.forgotten
        BY <1>1, <2>3, <3>3, <4>1 DEF UnorderedSound
      <4> QED
        BY <1>4, <4>1, <4>2
    <3>4. CASE i = Len(st.out) + 1 /\ j \in 1 .. Len(st.out)
      <4>1. st.out[j] = seq /\ new.out[i] = seq
        BY <1>4, <1>5, <2>3, <3>4
      <4> QED
        BY <1>4, <2>2, <3>4, <4>1
    <3>5. CASE j = Len(st.out) + 1 /\ i \in 1 .. Len(st.out)
      <4>1. st.out[i] = seq /\ new.out[i] = seq
        BY <1>4, <1>5, <2>3, <3>5
      <4> QED
        BY <1>4, <2>2, <3>5, <4>1
    <3> QED
      BY <2>3, <3>1, <3>2, <3>3, <3>4, <3>5
  <2> QED
    BY <2>1, <2>3 DEF UnorderedSound
<1>12. StateSound(new, b)
  BY <1>9, <1>10, <1>11 DEF StateSound
<1>13. Advances(st, new, seq)
  BY <1>4, <1>8 DEF Advances
<1> QED
  BY <1>12, <1>13

LEMMA RangeConcat ==
    ASSUME NEW S, NEW s \in Seq(S), NEW t \in Seq(S)
    PROVE  Range(s \o t) = Range(s) \cup Range(t)
<1>1. /\ Len(s) \in Nat /\ Len(t) \in Nat /\ DOMAIN s = 1 .. Len(s) /\ DOMAIN t = 1 .. Len(t)
      /\ DOMAIN (s \o t) = 1 .. Len(s) + Len(t)
      /\ \A i \in 1 .. Len(s) : (s \o t)[i] = s[i]
      /\ \A i \in 1 .. Len(t) : (s \o t)[Len(s) + i] = t[i]
  OBVIOUS
<1>2. \A i \in 1 .. Len(s) : i \in 1 .. Len(s) + Len(t)
  BY <1>1
<1>3. \A i \in 1 .. Len(t) : Len(s) + i \in 1 .. Len(s) + Len(t)
  BY <1>1
<1>4. ASSUME NEW i \in 1 .. Len(s) + Len(t)
      PROVE  i \in 1 .. Len(s) \/ \E j \in 1 .. Len(t) : i = Len(s) + j
  <2>1. CASE i <= Len(s)
    BY <1>1, <2>1
  <2>2. CASE i > Len(s)
    <3>1. i - Len(s) \in 1 .. Len(t) /\ i = Len(s) + (i - Len(s))
      BY <1>1, <2>2
    <3> QED
      BY <3>1
  <2> QED
    BY <1>1, <2>1, <2>2
<1> DEFINE l == s \o t
<1>5. /\ DOMAIN l = 1 .. Len(s) + Len(t) /\ \A i \in 1 .. Len(s) : l[i] = s[i]
      /\ \A i \in 1 .. Len(t) : l[Len(s) + i] = t[i]
  BY <1>1
<1> HIDE DEF l
<1>6. Range(l) \subseteq Range(s) \cup Range(t)
  <2>1. ASSUME NEW i \in DOMAIN l PROVE l[i] \in Range(s) \cup Range(t)
    <3>1. CASE i \in 1 .. Len(s)
      BY <1>1, <1>5, <3>1 DEF Range
    <3>2. CASE \E j \in 1 .. Len(t) : i = Len(s) + j
      BY <1>1, <1>5, <3>2 DEF Range
    <3> QED
      BY <1>4, <1>5, <3>1, <3>2
  <2> QED
    BY <2>1 DEF Range
<1>7. Range(s) \subseteq Range(l)
  BY <1>1, <1>2, <1>5 DEF Range
<1>8. Range(t) \subseteq Range(l)
  BY <1>1, <1>3, <1>5 DEF Range
<1> QED
  BY <1>6, <1>7, <1>8 DEF l

LEMMA ReceiverUpdate ==
    ASSUME NEW b, NEW r \in Receiver(b), NEW x, NEW y
    PROVE  [r EXCEPT !.reorder = x, !.expect = y]
               = [started |-> r.started, highest |-> r.highest, seen |-> r.seen, expect |-> y, reorder |-> x]
<1> DEFINE fields == {"started", "highest", "seen", "expect", "reorder"}
           new == [r EXCEPT !.reorder = x, !.expect = y]
           rec == [started |-> r.started, highest |-> r.highest, seen |-> r.seen, expect |-> y, reorder |-> x]
<1>1. DOMAIN r = fields
  BY DEF Receiver
<1>2. DOMAIN new = fields /\ new = [f \in DOMAIN new |-> new[f]]
  BY <1>1
<1>3. DOMAIN rec = fields /\ rec = [f \in DOMAIN rec |-> rec[f]]
  OBVIOUS
<1>4. new.reorder = x /\ new.expect = y /\ new.started = r.started /\ new.highest = r.highest /\ new.seen = r.seen
  BY <1>1
<1>5. rec.reorder = x /\ rec.expect = y /\ rec.started = r.started /\ rec.highest = r.highest /\ rec.seen = r.seen
  OBVIOUS
<1> HIDE DEF new, rec
<1>6. \A f \in fields : new[f] = rec[f]
  BY <1>4, <1>5
<1>7. new = rec
  BY <1>2, <1>3, <1>6
<1> QED
  BY <1>7 DEF new, rec

LEMMA ReceiveFrameOrdered ==
    ASSUME NEW b \in Nat, NEW st, StateSound(st, b), NEW seq \in 0 .. b - 1, ~IsDuplicate(st.r, seq), mode = "ordered",
           NEW new, new = ReceiveFrame(st, seq)
    PROVE  StateSound(new, b) /\ Advances(st, new, seq)
<1> DEFINE marked == MarkSeen(st.r, seq)
           gone == {k \in {st.r.highest} \cap ArrivedIn(st) : k + DedupWidth = marked.highest}
           buffered == [marked EXCEPT !.reorder = @ \cup {seq}]
           run == Run(buffered)
           last == [buffered EXCEPT !.reorder = @ \ run, !.expect = @ + Cardinality(run)]
<1>1. st \in ChannelState(b) /\ st.r \in Receiver(b) /\ st.out \in Seq(0 .. b - 1)
      /\ st.late \in SUBSET Nat /\ st.forgotten \in SUBSET Nat /\ Filtered(st) /\ OrderedSound(st)
  BY DEF StateSound, ChannelState
<1>2. new = [r |-> last, out |-> st.out \o Ascending(run), late |-> st.late, forgotten |-> st.forgotten \cup gone]
  BY DEF ReceiveFrame
<1>3. /\ marked \in Receiver(b) /\ marked.reorder = st.r.reorder /\ marked.expect = st.r.expect
      /\ IsDuplicate(marked, seq)
      /\ \A k \in Nat : IsDuplicate(st.r, k) =>
              IsDuplicate(marked, k) \/ (k = st.r.highest /\ k + DedupWidth = marked.highest)
  BY <1>1, MarkSeenFine
<1> HIDE DEF marked
<1>4. /\ buffered \in Receiver(b) /\ buffered.reorder = st.r.reorder \cup {seq} /\ buffered.expect = st.r.expect
      /\ buffered.started = marked.started /\ buffered.highest = marked.highest /\ buffered.seen = marked.seen
  <2>1. /\ marked = [started |-> marked.started, highest |-> marked.highest, seen |-> marked.seen,
                     expect |-> marked.expect, reorder |-> marked.reorder]
        /\ marked.started \in BOOLEAN /\ marked.highest \in Nat /\ marked.seen \in SUBSET (1 .. DedupWidth)
        /\ marked.expect \in Nat /\ marked.reorder \in SUBSET (0 .. b - 1)
    BY <1>3 DEF Receiver
  <2>2. buffered = [started |-> marked.started, highest |-> marked.highest, seen |-> marked.seen,
                    expect |-> marked.expect, reorder |-> marked.reorder \cup {seq}]
    BY <2>1
  <2> HIDE DEF buffered
  <2>3. marked.reorder \cup {seq} \in SUBSET (0 .. b - 1)
    BY <2>1
  <2>4. buffered \in Receiver(b)
    BY <2>1, <2>2, <2>3 DEF Receiver
  <2> QED
    BY <1>3, <2>2, <2>4
<1> HIDE DEF buffered
<1>5. PICK n \in Nat : run = buffered.expect .. buffered.expect + n - 1
  BY <1>4, RunInterval
<1>6. buffered.expect \in Nat /\ run \in SUBSET buffered.reorder /\ buffered.reorder \in SUBSET (0 .. b - 1)
  BY <1>4 DEF Receiver, Run
<1> DEFINE e == buffered.expect
           asc == [i \in 1 .. n |-> e + i - 1]
<1>7. Cardinality(run) = n /\ Ascending(run) = asc
  <2>1. e \in Nat /\ run = e .. e + n - 1
    BY <1>5, <1>6
  <2> HIDE DEF e, run
  <2>2. Cardinality(e .. e + n - 1) = n /\ Ascending(e .. e + n - 1) = asc
    BY <2>1, AscendingInterval
  <2> QED
    BY <2>1, <2>2
<1>8. \A i \in 1 .. n : e + i - 1 \in run
  BY <1>5, <1>6
<1> HIDE DEF run, e
<1>9. asc \in Seq(0 .. b - 1) /\ Len(asc) = n /\ Range(asc) = run
  <2>1. asc \in [1 .. n -> 0 .. b - 1]
    BY <1>6, <1>8
  <2>2. asc \in Seq(0 .. b - 1) /\ Len(asc) = n
    BY <2>1, SeqDef
  <2>3. ASSUME NEW k \in run PROVE k - e + 1 \in 1 .. n /\ k = e + (k - e + 1) - 1
    <3>1. e \in Nat /\ k \in e .. e + n - 1
      BY <1>5, <1>6 DEF e
    <3> QED
      BY <3>1
  <2>4. Range(asc) \subseteq run
    BY <1>8 DEF Range
  <2>5. run \subseteq Range(asc)
    <3>1. ASSUME NEW k \in run PROVE \E i \in 1 .. n : asc[i] = k
      BY <2>3
    <3> QED
      BY <3>1 DEF Range
  <2> QED
    BY <2>2, <2>4, <2>5
<1>10. /\ last \in Receiver(b) /\ last.reorder = (st.r.reorder \cup {seq}) \ run /\ last.expect = e + n
       /\ last.started = marked.started /\ last.highest = marked.highest /\ last.seen = marked.seen
  <2>1. /\ buffered = [started |-> buffered.started, highest |-> buffered.highest, seen |-> buffered.seen,
                     expect |-> buffered.expect, reorder |-> buffered.reorder]
        /\ buffered.started \in BOOLEAN /\ buffered.highest \in Nat /\ buffered.seen \in SUBSET (1 .. DedupWidth)
    BY <1>4 DEF Receiver
  <2>2. last = [started |-> buffered.started, highest |-> buffered.highest, seen |-> buffered.seen,
                expect |-> e + n, reorder |-> buffered.reorder \ run]
    <3>1. last = [started |-> buffered.started, highest |-> buffered.highest, seen |-> buffered.seen,
                  expect |-> buffered.expect + Cardinality(run), reorder |-> buffered.reorder \ run]
      BY <1>4, ReceiverUpdate
    <3>2. buffered.expect + Cardinality(run) = e + n
      BY <1>7 DEF e
    <3> HIDE DEF last
    <3> QED
      BY <3>1, <3>2, Zenon
  <2> HIDE DEF last
  <2>3. buffered.reorder \ run \in SUBSET (0 .. b - 1) /\ e + n \in Nat
    BY <1>6 DEF e
  <2>4. last \in Receiver(b)
    BY <2>1, <2>2, <2>3 DEF Receiver
  <2> QED
    BY <1>4, <2>2, <2>4
<1> HIDE DEF last, asc
<1>11. /\ new.r = last /\ new.out = st.out \o asc /\ new.late = st.late /\ new.forgotten = st.forgotten \cup gone
  <2>1. new = [r |-> last, out |-> st.out \o asc, late |-> st.late, forgotten |-> st.forgotten \cup gone]
    BY <1>2, <1>7, Zenon
  <2> QED
    BY <2>1
<1>12. /\ st.out \o asc \in Seq(0 .. b - 1) /\ Len(st.out \o asc) = Len(st.out) + n
       /\ \A i \in 1 .. Len(st.out) : (st.out \o asc)[i] = st.out[i]
       /\ \A i \in 1 .. n : (st.out \o asc)[Len(st.out) + i] = asc[i]
       /\ Len(st.out) \in Nat
  <2>1. st.out \in Seq(0 .. b - 1) /\ asc \in Seq(0 .. b - 1) /\ Len(asc) = n
    BY <1>1, <1>9
  <2> DEFINE T == 0 .. b - 1
  <2> HIDE DEF T
  <2>2. st.out \in Seq(T) /\ asc \in Seq(T)
    BY <2>1 DEF T
  <2>3. st.out \o asc \in Seq(T) /\ Len(st.out) \in Nat
    BY <2>2
  <2>4. Len(st.out \o asc) = Len(st.out) + n
    <3>1. Len(st.out \o asc) = Len(st.out) + Len(asc)
      BY <2>2, ConcatProperties
    <3> QED
      BY <2>1, <3>1, Zenon
  <2>5. \A i \in 1 .. Len(st.out) : (st.out \o asc)[i] = st.out[i]
    BY <2>2
  <2>6. \A i \in 1 .. n : (st.out \o asc)[Len(st.out) + i] = asc[i]
    BY <2>1, <2>2
  <2> QED
    BY <2>3, <2>4, <2>5, <2>6 DEF T
<1>13. ArrivedIn(st) \in SUBSET Nat
  BY <1>1 DEF ArrivedIn, Range, Receiver
<1>14. gone \in SUBSET Nat
  BY <1>13
<1>15. ArrivedIn(new) = ArrivedIn(st) \cup {seq}
  <2>1. Range(st.out \o asc) = Range(st.out) \cup run
    BY <1>1, <1>9, RangeConcat
  <2>2. run \subseteq st.r.reorder \cup {seq}
    BY <1>4, <1>6
  <2> QED
    BY <1>10, <1>11, <2>1, <2>2 DEF ArrivedIn
<1>16. new \in ChannelState(b)
  BY <1>1, <1>2, <1>7, <1>10, <1>12, <1>14 DEF ChannelState
<1>17. Filtered(new)
  <2>1. ASSUME NEW k \in ArrivedIn(st) PROVE IsDuplicate(marked, k) \/ k \in new.forgotten
    <3>1. IsDuplicate(st.r, k) \/ k \in st.forgotten
      BY <1>1 DEF Filtered
    <3>2. CASE k \in st.forgotten
      BY <1>11, <3>2
    <3>3. CASE IsDuplicate(st.r, k)
      <4>1. IsDuplicate(marked, k) \/ k \in gone
        BY <1>3, <1>13, <3>3
      <4> QED
        BY <1>11, <4>1
    <3> QED
      BY <3>1, <3>2, <3>3
  <2>2. \A k : IsDuplicate(marked, k) => IsDuplicate(new.r, k)
    BY <1>10, <1>11 DEF IsDuplicate
  <2> QED
    BY <1>3, <1>15, <2>1, <2>2 DEF Filtered
<1>18. OrderedSound(new)
  <2>1. e = Len(st.out)
    BY <1>1, <1>4 DEF OrderedSound, e
  <2>2. new.r.expect = Len(new.out)
    BY <1>10, <1>11, <1>12, <2>1
  <2>3. ASSUME NEW i \in 1 .. Len(new.out) PROVE new.out[i] = i - 1
    <3>1. CASE i <= Len(st.out)
      <4>1. i \in 1 .. Len(st.out)
        BY <1>11, <1>12, <3>1
      <4> QED
        BY <1>1, <1>11, <1>12, <4>1 DEF OrderedSound
    <3>2. CASE i > Len(st.out)
      <4>1. i - Len(st.out) \in 1 .. n /\ i = Len(st.out) + (i - Len(st.out))
        <5>1. Len(st.out) \in Nat /\ n \in Nat /\ Len(new.out) = Len(st.out) + n
          BY <1>11, <1>12
        <5> QED
          BY <3>2, <5>1
      <4>2. new.out[i] = asc[i - Len(st.out)]
        BY <1>11, <1>12, <4>1
      <4>3. asc[i - Len(st.out)] = e + (i - Len(st.out)) - 1
        BY <4>1 DEF asc
      <4>4. new.out[i] = Len(st.out) + (i - Len(st.out)) - 1
        BY <2>1, <4>2, <4>3
      <4> QED
        BY <1>12, <4>4
    <3>3. i \in Int /\ Len(st.out) \in Nat
      BY <1>12
    <3>4. i <= Len(st.out) \/ i > Len(st.out)
      BY <3>3
    <3> QED
      BY <3>1, <3>2, <3>4, Zenon
  <2> QED
    BY <2>2, <2>3 DEF OrderedSound
<1>19. StateSound(new, b)
  BY <1>16, <1>17, <1>18 DEF StateSound
<1>20. Advances(st, new, seq)
  BY <1>11, <1>15 DEF Advances
<1> QED
  BY <1>19, <1>20

LEMMA ReceiveFrameFine ==
    ASSUME NEW b \in Nat, NEW st, StateSound(st, b), NEW seq \in 0 .. b - 1, mode \in {"ordered", "unordered"}
    PROVE  StateSound(ReceiveFrame(st, seq), b) /\ Advances(st, ReceiveFrame(st, seq), seq)
<1>1. CASE ~IsDuplicate(st.r, seq)
  BY <1>1, ReceiveFrameOrdered, ReceiveFrameUnordered
<1>2. CASE IsDuplicate(st.r, seq)
  <2> DEFINE new == [st EXCEPT !.late = @ \cup ({seq} \ ArrivedIn(st))]
  <2>1. ReceiveFrame(st, seq) = new
    BY <1>2 DEF ReceiveFrame
  <2>2. st \in ChannelState(b) /\ st = [r |-> st.r, out |-> st.out, late |-> st.late, forgotten |-> st.forgotten]
    BY DEF StateSound, ChannelState
  <2>3. new = [r |-> st.r, out |-> st.out, late |-> st.late \cup ({seq} \ ArrivedIn(st)), forgotten |-> st.forgotten]
    BY <2>2
  <2> HIDE DEF new
  <2>4. new.r = st.r /\ new.out = st.out /\ new.forgotten = st.forgotten /\ new.late = st.late \cup ({seq} \ ArrivedIn(st))
    BY <2>3
  <2>5. st.r \in Receiver(b) /\ st.out \in Seq(0 .. b - 1) /\ st.late \in SUBSET Nat /\ st.forgotten \in SUBSET Nat
    BY <2>2 DEF ChannelState
  <2>6. st.late \cup ({seq} \ ArrivedIn(st)) \in SUBSET Nat
    BY <2>5
  <2>7. new \in ChannelState(b)
    BY <2>3, <2>5, <2>6 DEF ChannelState
  <2>8. ArrivedIn(new) = ArrivedIn(st)
    BY <2>4 DEF ArrivedIn
  <2>9. StateSound(new, b)
    BY <2>4, <2>7, <2>8 DEF StateSound, Filtered, OrderedSound, UnorderedSound
  <2>10. Advances(st, new, seq)
    BY <2>4, <2>8 DEF Advances
  <2> QED
    BY <2>1, <2>9, <2>10
<1> QED
  BY <1>1, <1>2

(* The frames of a datagram in turn.                                       *)
Turns(seqs, m, f) == f = [k \in 0 .. m |-> IF k = 0 THEN GameChannel ELSE ReceiveFrame(f[k - 1], seqs[k])]

LEMMA TurnsExist ==
    ASSUME NEW seqs
    PROVE  \A m \in Nat : \E f : Turns(seqs, m, f)
<1> DEFINE S == {m \in Nat : \E f : Turns(seqs, m, f)}
<1>1. 0 \in S
  <2> DEFINE f == [k \in 0 .. 0 |-> GameChannel]
  <2>1. Turns(seqs, 0, f)
    BY DEF Turns
  <2> QED
    BY <2>1
<1>2. ASSUME NEW n \in Nat, n \in S PROVE n + 1 \in S
  <2>1. PICK f : Turns(seqs, n, f)
    BY <1>2
  <2> DEFINE g == [k \in 0 .. n + 1 |-> IF k = n + 1 THEN ReceiveFrame(f[n], seqs[k]) ELSE f[k]]
  <2>2. \A k \in 0 .. n : g[k] = f[k]
    OBVIOUS
  <2>3. \A k \in 0 .. n : f[k] = IF k = 0 THEN GameChannel ELSE ReceiveFrame(f[k - 1], seqs[k])
    BY <2>1 DEF Turns
  <2>4. ASSUME NEW k \in 0 .. n + 1 PROVE g[k] = IF k = 0 THEN GameChannel ELSE ReceiveFrame(g[k - 1], seqs[k])
    <3>1. CASE k = n + 1
      <4>1. g[k] = ReceiveFrame(f[n], seqs[k]) /\ k - 1 = n /\ n \in 0 .. n
        BY <3>1
      <4>2. g[n] = f[n]
        BY <2>2, <4>1
      <4> QED
        BY <3>1, <4>1, <4>2
    <3>2. CASE k \in 0 .. n /\ k # 0
      <4>1. k - 1 \in 0 .. n
        BY <3>2
      <4> QED
        BY <2>2, <2>3, <3>2, <4>1
    <3>3. CASE k = 0
      BY <2>2, <2>3, <3>3
    <3> QED
      BY <3>1, <3>2, <3>3
  <2>5. g = [k \in 0 .. n + 1 |-> g[k]]
    OBVIOUS
  <2> HIDE DEF g
  <2>6. g = [k \in 0 .. n + 1 |-> IF k = 0 THEN GameChannel ELSE ReceiveFrame(g[k - 1], seqs[k])]
    BY <2>4, <2>5
  <2> QED
    BY <2>6 DEF Turns
<1> HIDE DEF S
<1>3. \A m \in Nat : m \in S
  BY <1>1, <1>2, SetInduction
<1> QED
  BY <1>3 DEF S

LEMMA ReceiveFramesFine ==
    ASSUME NEW b \in Nat, StateSound(GameChannel, b), mode \in {"ordered", "unordered"},
           NEW seqs \in Seq(0 .. b - 1), NEW last, last = ReceiveFrames(seqs)
    PROVE  /\ StateSound(last, b)
           /\ ArrivedIn(GameChannel) \subseteq ArrivedIn(last)
           /\ GameChannel.late \subseteq last.late /\ GameChannel.forgotten \subseteq last.forgotten
           /\ \A i \in 1 .. Len(seqs) : seqs[i] \in ArrivedIn(last) \cup last.late
<1>1. PICK N \in Nat : N = Len(seqs)
  OBVIOUS
<1>2. PICK f : Turns(seqs, N, f) /\ last = f[N]
  <2> DEFINE h == CHOOSE h : Turns(seqs, N, h)
  <2>1. Turns(seqs, N, h)
    BY TurnsExist
  <2>2. ReceiveFrames(seqs) = h[N]
    BY <1>1 DEF ReceiveFrames, Turns
  <2> HIDE DEF h
  <2> QED
    BY <2>1, <2>2
<1>3. f[0] = GameChannel /\ \A k \in 0 .. N : k # 0 => f[k] = ReceiveFrame(f[k - 1], seqs[k])
  <2>1. f = [k \in 0 .. N |-> IF k = 0 THEN GameChannel ELSE ReceiveFrame(f[k - 1], seqs[k])]
    BY <1>2, Zenon DEF Turns
  <2>2. \A k \in 0 .. N : f[k] = IF k = 0 THEN GameChannel ELSE ReceiveFrame(f[k - 1], seqs[k])
    BY <2>1, Zenon
  <2>3. 0 \in 0 .. N
    BY <1>1
  <2> QED
    BY <2>2, <2>3, Zenon
<1> DEFINE Good(k) ==
               /\ StateSound(f[k], b)
               /\ ArrivedIn(GameChannel) \subseteq ArrivedIn(f[k])
               /\ GameChannel.late \subseteq f[k].late /\ GameChannel.forgotten \subseteq f[k].forgotten
               /\ \A i \in 1 .. k : seqs[i] \in ArrivedIn(f[k]) \cup f[k].late
           S == {k \in Nat : k <= N => Good(k)}
<1>4. 0 \in S
  BY <1>3
<1>5. ASSUME NEW k \in Nat, k \in S PROVE k + 1 \in S
  <2>1. SUFFICES ASSUME k + 1 <= N PROVE Good(k + 1)
    OBVIOUS
  <2>2. Good(k)
    BY <1>1, <1>5, <2>1
  <2>3. k + 1 \in 0 .. N /\ k + 1 # 0 /\ (k + 1) - 1 = k /\ k + 1 \in 1 .. Len(seqs)
    BY <1>1, <2>1
  <2>4. f[k + 1] = ReceiveFrame(f[k], seqs[k + 1])
    BY <1>3, <2>3
  <2>5. seqs[k + 1] \in 0 .. b - 1
    BY <2>3
  <2>6. StateSound(f[k + 1], b) /\ Advances(f[k], f[k + 1], seqs[k + 1])
    BY <2>2, <2>4, <2>5, ReceiveFrameFine
  <2>7. \A i \in 1 .. k + 1 : i \in 1 .. k \/ i = k + 1
    OBVIOUS
  <2> QED
    BY <2>2, <2>6, <2>7 DEF Advances
<1> HIDE DEF S
<1>6. \A k \in Nat : k \in S
  BY <1>4, <1>5, SetInduction
<1>7. Good(N)
  <2>1. N \in S /\ N <= N
    BY <1>6
  <2> HIDE DEF Good
  <2> QED
    BY <2>1 DEF S
<1> QED
  BY <1>1, <1>2, <1>7

-----------------------------------------------------------------------------
(* What the game has, or what is excepted.                                 *)
Accounted == ArrivedIn(GameChannel) \cup skipped \cup late

WindowFrame == [ch : {"control", "game"}, seq : Nat, datagramSeq : Nat \cup {Unsent}]

Tracker == [base : 0 .. localSeq - 1, bits : SUBSET (1 .. AckWidth)]

NumbersSound ==
    /\ mode \in {"ordered", "unordered"} /\ nextSeq \in Nat /\ localSeq \in Nat \ {0}
    /\ \A f \in window : f \in WindowFrame /\ (f.ch = "game" => f.seq < nextSeq)
    /\ \A d \in datagrams : d.seq \in 1 .. localSeq - 1 /\ GameSeqs(d) \subseteq 0 .. nextSeq - 1
    /\ track \in Tracker /\ acks \subseteq Tracker

(* A datagram has its packet sequence to itself; a frame was in the        *)
(* datagram it remembers.                                                  *)
FramesSent ==
    /\ \A d, e \in datagrams : d.seq = e.seq => d = e
    /\ \A f \in window : f.datagramSeq # Unsent =>
            \E d \in datagrams : d.seq = f.datagramSeq /\ [ch |-> f.ch, seq |-> f.seq] \in d.frames

(* What the server has acknowledged, or would, it has received.            *)
AcksTrue ==
    \A d \in datagrams : \A a \in acks \cup {track} : Acked(a, d.seq) => GameSeqs(d) \subseteq Accounted

ChannelInv ==
    /\ NumbersSound /\ FramesSent /\ AcksTrue /\ StateSound(GameChannel, nextSeq)
    /\ NothingLost

LEMMA StateGrows ==
    ASSUME NEW b \in Nat, NEW c \in Nat, b <= c, NEW st, StateSound(st, b)
    PROVE  StateSound(st, c)
<1>1. 0 .. b - 1 \subseteq 0 .. c - 1
  OBVIOUS
<1>2. Receiver(b) \subseteq Receiver(c)
  BY <1>1 DEF Receiver
<1>3. Seq(0 .. b - 1) \subseteq Seq(0 .. c - 1)
  <2>1. \A s \in Seq(0 .. b - 1) : s \in Seq(0 .. c - 1)
    <3> SUFFICES ASSUME NEW s \in Seq(0 .. b - 1) PROVE s \in Seq(0 .. c - 1)
      OBVIOUS
    <3>1. Len(s) \in Nat /\ s = [i \in 1 .. Len(s) |-> s[i]] /\ \A i \in 1 .. Len(s) : s[i] \in 0 .. c - 1
      BY <1>1
    <3>2. s \in [1 .. Len(s) -> 0 .. c - 1]
      BY <3>1
    <3> QED
      BY <3>1, <3>2, SeqDef
  <2> QED
    BY <2>1
<1>4. ChannelState(b) \subseteq ChannelState(c)
  BY <1>2, <1>3 DEF ChannelState
<1> QED
  BY <1>4 DEF StateSound

LEMMA GameSeqsOf ==
    ASSUME NEW d
    PROVE  \A k : k \in GameSeqs(d) <=> \E f \in d.frames : f.ch = "game" /\ f.seq = k
  BY DEF GameSeqs

(* Where the server is as it was, so is what the game has.                 *)
LEMMA GameUnchanged ==
    ASSUME UNCHANGED <<mode, receiver, delivered, skipped, late, forgotten>>
    PROVE  /\ GameChannel' = GameChannel /\ Accounted' = Accounted
           /\ \A b : StateSound(GameChannel, b)' <=> StateSound(GameChannel, b)
<1>1. GameChannel' = GameChannel
  BY DEF GameChannel
<1>2. Accounted' = Accounted
  BY <1>1 DEF Accounted, ArrivedIn
<1>3. \A b : StateSound(GameChannel, b)' <=> StateSound(GameChannel, b)
  BY <1>1 DEF StateSound, Filtered, OrderedSound, UnorderedSound, ArrivedIn, ChannelState, Receiver, IsDuplicate
<1> QED
  BY <1>1, <1>2, <1>3

LEMMA NothingLostIs ==
    NothingLost <=> \A k \in 0 .. nextSeq - 1 : k \in Accounted \/ \E f \in window : f.ch = "game" /\ f.seq = k
  BY DEF NothingLost, Accounted, GameWindow

LEMMA QueueStep ==
    ASSUME ChannelInv, Queue
    PROVE  ChannelInv'
<1> DEFINE new == Pending("game", nextSeq, Unsent)
<1>1. /\ window' = window \cup {new} /\ nextSeq' = nextSeq + 1
      /\ UNCHANGED <<mode, localSeq, datagrams, server>>
  BY DEF Queue
<1>2. /\ localSeq' = localSeq /\ datagrams' = datagrams /\ acks' = acks /\ track' = track /\ mode' = mode
      /\ UNCHANGED <<mode, receiver, delivered, skipped, late, forgotten>>
  BY <1>1 DEF server
<1>3. NumbersSound /\ nextSeq \in Nat /\ nextSeq' \in Nat /\ nextSeq <= nextSeq'
  BY <1>1 DEF ChannelInv, NumbersSound
<1>4. new \in WindowFrame /\ new.ch = "game" /\ new.seq = nextSeq /\ new.datagramSeq = Unsent
  BY <1>3 DEF Pending, WindowFrame
<1>5. NumbersSound'
  <2>1. \A f \in window' : f \in WindowFrame' /\ (f.ch = "game" => f.seq < nextSeq')
    <3> SUFFICES ASSUME NEW f \in window' PROVE f \in WindowFrame /\ (f.ch = "game" => f.seq < nextSeq')
      BY DEF WindowFrame
    <3>1. CASE f = new
      BY <1>1, <1>3, <1>4, <3>1
    <3>2. CASE f \in window
      <4>1. f \in WindowFrame /\ (f.ch = "game" => f.seq < nextSeq)
        BY <1>3, <3>2 DEF NumbersSound
      <4>2. f.seq \in Nat
        BY <4>1 DEF WindowFrame
      <4> QED
        BY <1>1, <1>3, <4>1, <4>2
    <3> QED
      BY <1>1, <3>1, <3>2
  <2>2. 0 .. nextSeq - 1 \subseteq 0 .. nextSeq' - 1
    BY <1>1, <1>3
  <2>3. \A d \in datagrams' : d.seq \in 1 .. localSeq' - 1 /\ GameSeqs(d)' \subseteq 0 .. nextSeq' - 1
    BY <1>2, <1>3, <2>2 DEF NumbersSound, GameSeqs
  <2>4. Tracker' = Tracker
    BY <1>2 DEF Tracker
  <2> QED
    BY <1>2, <1>3, <2>1, <2>3, <2>4 DEF NumbersSound
<1>6. FramesSent'
  <2>1. \A d, e \in datagrams' : d.seq = e.seq => d = e
    BY <1>2 DEF ChannelInv, FramesSent
  <2>2. \A f \in window' : f.datagramSeq # Unsent =>
            \E d \in datagrams' : d.seq = f.datagramSeq /\ [ch |-> f.ch, seq |-> f.seq] \in d.frames
    BY <1>1, <1>2, <1>4 DEF ChannelInv, FramesSent
  <2> QED
    BY <2>1, <2>2 DEF FramesSent
<1>7. Accounted' = Accounted /\ (StateSound(GameChannel, nextSeq') => StateSound(GameChannel, nextSeq)')
  BY <1>2, GameUnchanged
<1>8. AcksTrue'
  BY <1>2, <1>7 DEF ChannelInv, AcksTrue, GameSeqs, Acked
<1>9. StateSound(GameChannel, nextSeq)'
  BY <1>3, <1>7, StateGrows DEF ChannelInv
<1>10. NothingLost'
  <2>1. ASSUME NEW k \in 0 .. nextSeq' - 1
        PROVE  k \in Accounted \/ \E f \in window' : f.ch = "game" /\ f.seq = k
    <3>1. CASE k = nextSeq
      BY <1>1, <1>4, <3>1
    <3>2. CASE k # nextSeq
      <4>1. k \in 0 .. nextSeq - 1
        BY <1>1, <1>3, <3>2
      <4> QED
        BY <1>1, <4>1, NothingLostIs DEF ChannelInv
    <3> QED
      BY <3>1, <3>2
  <2> QED
    BY <1>7, <2>1 DEF NothingLost, Accounted, GameWindow
<1> QED
  BY <1>5, <1>6, <1>8, <1>9, <1>10 DEF ChannelInv

LEMMA TickStep ==
    ASSUME ChannelInv, NEW upTo, Tick(upTo)
    PROVE  ChannelInv'
<1> DEFINE sent == [seq |-> localSeq, frames |-> {[ch |-> f.ch, seq |-> f.seq] : f \in Due(upTo)}]
           mark(f) == IF f \in Due(upTo) THEN [f EXCEPT !.datagramSeq = localSeq] ELSE f
<1>1. /\ datagrams' = datagrams \cup {sent} /\ window' = {mark(f) : f \in window} /\ localSeq' = localSeq + 1
      /\ UNCHANGED <<mode, nextSeq, server>>
  BY DEF Tick
<1>2. /\ nextSeq' = nextSeq /\ acks' = acks /\ track' = track /\ mode' = mode
      /\ UNCHANGED <<mode, receiver, delivered, skipped, late, forgotten>>
  BY <1>1 DEF server
<1>3. NumbersSound /\ nextSeq \in Nat /\ localSeq \in Nat \ {0} /\ Due(upTo) \subseteq window
  BY DEF ChannelInv, NumbersSound, Due
<1>4. ASSUME NEW f \in window
      PROVE  /\ mark(f) \in WindowFrame /\ mark(f).ch = f.ch /\ mark(f).seq = f.seq
             /\ f \in Due(upTo) => mark(f).datagramSeq = localSeq
             /\ f \notin Due(upTo) => mark(f) = f
  <2>1. f \in WindowFrame
    BY <1>3 DEF NumbersSound
  <2> QED
    BY <1>3, <2>1 DEF WindowFrame
<1>5. GameSeqs(sent) \subseteq 0 .. nextSeq - 1
  <2> SUFFICES ASSUME NEW k \in GameSeqs(sent) PROVE k \in 0 .. nextSeq - 1
    OBVIOUS
  <2>1. PICK f \in Due(upTo) : f.ch = "game" /\ f.seq = k
    BY GameSeqsOf
  <2>2. f \in WindowFrame /\ f.seq < nextSeq
    BY <1>3, <2>1 DEF NumbersSound
  <2> QED
    BY <1>3, <2>1, <2>2 DEF WindowFrame
<1>6. sent.seq = localSeq /\ \A f \in Due(upTo) : [ch |-> f.ch, seq |-> f.seq] \in sent.frames
  OBVIOUS
<1> HIDE DEF sent, mark
<1>7. NumbersSound'
  <2>1. \A g \in window' : g \in WindowFrame' /\ (g.ch = "game" => g.seq < nextSeq')
    <3> SUFFICES ASSUME NEW f \in window PROVE mark(f) \in WindowFrame /\ (mark(f).ch = "game" => mark(f).seq < nextSeq)
      BY <1>1, <1>2 DEF WindowFrame
    <3> QED
      BY <1>3, <1>4 DEF NumbersSound
  <2>2. ASSUME NEW d \in datagrams' PROVE d.seq \in 1 .. localSeq' - 1 /\ GameSeqs(d) \subseteq 0 .. nextSeq - 1
    <3>1. CASE d = sent
      BY <1>1, <1>3, <1>5, <1>6, <3>1
    <3>2. CASE d \in datagrams
      <4>1. d.seq \in 1 .. localSeq - 1 /\ GameSeqs(d) \subseteq 0 .. nextSeq - 1
        BY <1>3, <3>2 DEF NumbersSound
      <4>2. d.seq \in 1 .. localSeq' - 1
        BY <1>1, <1>3, <4>1
      <4> QED
        BY <4>1, <4>2
    <3> QED
      BY <1>1, <3>1, <3>2
  <2>3. Tracker \subseteq Tracker'
    <3>1. 0 .. localSeq - 1 \subseteq 0 .. localSeq' - 1
      BY <1>1, <1>3
    <3> QED
      BY <3>1 DEF Tracker
  <2>4. localSeq' \in Nat \ {0}
    BY <1>1, <1>3
  <2>5. track' \in Tracker' /\ acks' \subseteq Tracker'
    BY <1>2, <1>3, <2>3 DEF NumbersSound
  <2> QED
    BY <1>2, <1>3, <2>1, <2>2, <2>4, <2>5 DEF NumbersSound, GameSeqs
<1>8. \A d \in datagrams : d.seq # localSeq /\ d.seq \in Nat
  BY <1>3 DEF NumbersSound
<1>9. FramesSent'
  <2>1. \A d, e \in datagrams' : d.seq = e.seq => d = e
    BY <1>1, <1>6, <1>8 DEF ChannelInv, FramesSent
  <2>2. ASSUME NEW f \in window, mark(f).datagramSeq # Unsent
        PROVE  \E d \in datagrams' : d.seq = mark(f).datagramSeq /\ [ch |-> mark(f).ch, seq |-> mark(f).seq] \in d.frames
    <3>1. CASE f \in Due(upTo)
      BY <1>1, <1>4, <1>6, <3>1
    <3>2. CASE f \notin Due(upTo)
      BY <1>1, <1>4, <2>2, <3>2 DEF ChannelInv, FramesSent
    <3> QED
      BY <3>1, <3>2
  <2>3. \A g \in window' : g.datagramSeq # Unsent =>
            \E d \in datagrams' : d.seq = g.datagramSeq /\ [ch |-> g.ch, seq |-> g.seq] \in d.frames
    BY <1>1, <2>2
  <2> QED
    BY <2>1, <2>3 DEF FramesSent
<1>10. Accounted' = Accounted /\ (StateSound(GameChannel, nextSeq) => StateSound(GameChannel, nextSeq)')
  BY <1>2, GameUnchanged
<1>11. AcksTrue'
  <2>1. ASSUME NEW a \in acks \cup {track} PROVE ~Acked(a, localSeq)
    <3>1. a.base \in 0 .. localSeq - 1 /\ a.bits \in SUBSET (1 .. AckWidth) /\ AckWidth \in Nat
      BY <1>3, ChannelAssumption DEF NumbersSound, Tracker, ChannelAssumption
    <3>2. a.base # localSeq /\ a.base - localSeq \notin 1 .. AckWidth
      BY <1>3, <3>1
    <3> QED
      BY <3>1, <3>2 DEF Acked
  <2>2. ASSUME NEW d \in datagrams', NEW a \in acks \cup {track}, Acked(a, d.seq) PROVE GameSeqs(d) \subseteq Accounted
    <3>1. d # sent
      BY <1>6, <2>1, <2>2
    <3> QED
      BY <1>1, <2>2, <3>1 DEF ChannelInv, AcksTrue
  <2> QED
    BY <1>2, <1>10, <2>2 DEF AcksTrue, GameSeqs, Acked
<1>12. NothingLost'
  <2>1. ASSUME NEW k \in 0 .. nextSeq - 1
        PROVE  k \in Accounted \/ \E f \in window' : f.ch = "game" /\ f.seq = k
    <3>1. k \in Accounted \/ \E f \in window : f.ch = "game" /\ f.seq = k
      BY NothingLostIs DEF ChannelInv
    <3> QED
      BY <1>1, <1>4, <3>1
  <2> QED
    BY <1>2, <1>10, <2>1 DEF NothingLost, Accounted, GameWindow
<1> QED
  BY <1>7, <1>9, <1>10, <1>11, <1>12 DEF ChannelInv

LEMMA OnAckStep ==
    ASSUME ChannelInv, NEW a \in acks, OnAck(a)
    PROVE  ChannelInv'
<1>1. /\ window' = {f \in window : f.datagramSeq = Unsent \/ ~Acked(a, f.datagramSeq)}
      /\ UNCHANGED <<mode, nextSeq, localSeq, datagrams, server>>
  BY DEF OnAck
<1>2. /\ nextSeq' = nextSeq /\ localSeq' = localSeq /\ datagrams' = datagrams /\ acks' = acks /\ track' = track
      /\ mode' = mode /\ UNCHANGED <<mode, receiver, delivered, skipped, late, forgotten>>
  BY <1>1 DEF server
<1>3. NumbersSound'
  <2>1. Tracker' = Tracker /\ window' \subseteq window
    BY <1>1, <1>2 DEF Tracker
  <2> QED
    BY <1>2, <2>1 DEF ChannelInv, NumbersSound, GameSeqs, WindowFrame
<1>4. FramesSent'
  BY <1>1, <1>2 DEF ChannelInv, FramesSent
<1>5. Accounted' = Accounted /\ (StateSound(GameChannel, nextSeq) => StateSound(GameChannel, nextSeq)')
  BY <1>2, GameUnchanged
<1>6. AcksTrue'
  BY <1>2, <1>5 DEF ChannelInv, AcksTrue, GameSeqs, Acked
<1>7. NothingLost'
  <2>1. ASSUME NEW f \in window, f.ch = "game", f \notin window' PROVE f.seq \in Accounted
    <3>1. f.datagramSeq # Unsent /\ Acked(a, f.datagramSeq)
      BY <1>1, <2>1
    <3>2. PICK d \in datagrams : d.seq = f.datagramSeq /\ [ch |-> f.ch, seq |-> f.seq] \in d.frames
      BY <3>1 DEF ChannelInv, FramesSent
    <3>3. f.seq \in GameSeqs(d)
      <4>1. [ch |-> f.ch, seq |-> f.seq].ch = "game" /\ [ch |-> f.ch, seq |-> f.seq].seq = f.seq
        BY <2>1
      <4> QED
        BY <3>2, <4>1, GameSeqsOf
    <3> QED
      BY <3>1, <3>2, <3>3 DEF ChannelInv, AcksTrue
  <2>2. ASSUME NEW k \in 0 .. nextSeq - 1
        PROVE  k \in Accounted \/ \E f \in window' : f.ch = "game" /\ f.seq = k
    <3>1. k \in Accounted \/ \E f \in window : f.ch = "game" /\ f.seq = k
      BY NothingLostIs DEF ChannelInv
    <3> QED
      BY <2>1, <3>1
  <2> QED
    BY <1>2, <1>5, <2>2 DEF NothingLost, Accounted, GameWindow
<1> QED
  BY <1>3, <1>4, <1>5, <1>6, <1>7 DEF ChannelInv

LEMMA SendAckStep ==
    ASSUME ChannelInv, SendAck
    PROVE  ChannelInv'
<1>1. /\ acks' = acks \cup {track} /\ nextSeq' = nextSeq /\ localSeq' = localSeq /\ datagrams' = datagrams
      /\ track' = track /\ mode' = mode /\ window' = window
      /\ UNCHANGED <<mode, receiver, delivered, skipped, late, forgotten>>
  BY DEF SendAck, client
<1>2. NumbersSound'
  <2>1. Tracker' = Tracker /\ WindowFrame' = WindowFrame
    BY <1>1 DEF Tracker, WindowFrame
  <2>2. acks' \subseteq Tracker
    BY <1>1 DEF ChannelInv, NumbersSound
  <2> QED
    BY <1>1, <2>1, <2>2 DEF ChannelInv, NumbersSound, GameSeqs
<1>3. FramesSent'
  BY <1>1 DEF ChannelInv, FramesSent
<1>4. Accounted' = Accounted /\ (StateSound(GameChannel, nextSeq) => StateSound(GameChannel, nextSeq)')
  BY <1>1, GameUnchanged
<1>5. AcksTrue'
  BY <1>1, <1>4 DEF ChannelInv, AcksTrue, GameSeqs, Acked
<1>6. NothingLost'
  BY <1>1, <1>4 DEF ChannelInv, NothingLost, GameWindow, GameChannel, ArrivedIn
<1> QED
  BY <1>2, <1>3, <1>4, <1>5, <1>6 DEF ChannelInv

(* A datagram more is counted as received, and no other.                   *)
LEMMA ReceivedMore ==
    ASSUME localSeq \in Nat \ {0}, NEW t \in Tracker, NEW seq \in 1 .. localSeq - 1
    PROVE  /\ OnReceived(t, seq) \in Tracker
           /\ \A s \in Nat \ {0} : Acked(OnReceived(t, seq), s) => s = seq \/ Acked(t, s)
<1>1. /\ t.base \in 0 .. localSeq - 1 /\ t.bits \in SUBSET (1 .. AckWidth) /\ t = [base |-> t.base, bits |-> t.bits]
      /\ AckWidth \in Nat \ {0}
  BY ChannelAssumption DEF Tracker, ChannelAssumption
<1>2. CASE seq > t.base
  <2> DEFINE shift == seq - t.base
             bits == Shifted(t.bits, shift, AckWidth)
  <2>1. OnReceived(t, seq) = [base |-> seq, bits |-> bits]
    BY <1>2 DEF OnReceived
  <2>2. shift \in Nat \ {0} /\ seq \in 0 .. localSeq - 1
    BY <1>1, <1>2
  <2>3. ASSUME NEW x \in bits
        PROVE  x \in 1 .. AckWidth /\ (x = shift \/ \E d \in t.bits : x = d + shift)
    <3>1. ~ shift >= AckWidth
      BY <2>3 DEF Shifted
    <3>2. x = shift \/ \E d \in t.bits : x = d + shift /\ d + shift <= AckWidth
      BY <2>3, <3>1 DEF Shifted
    <3>3. CASE x = shift
      BY <1>1, <2>2, <3>1, <3>3
    <3>4. CASE \E d \in t.bits : x = d + shift /\ d + shift <= AckWidth
      BY <1>1, <2>2, <3>4
    <3> QED
      BY <3>2, <3>3, <3>4
  <2>4. ASSUME NEW s \in Nat \ {0}, s = seq \/ seq - s \in bits, s # seq
        PROVE  Acked(t, s)
    <3>1. seq - s = shift \/ \E d \in t.bits : seq - s = d + shift
      BY <2>3, <2>4
    <3>2. CASE seq - s = shift
      <4>1. s = t.base
        BY <1>1, <3>2
      <4> QED
        BY <4>1 DEF Acked
    <3>3. CASE \E d \in t.bits : seq - s = d + shift
      <4>1. PICK d \in t.bits : seq - s = d + shift
        BY <3>3
      <4>2. d \in Nat
        BY <1>1
      <4>3. t.base - s = d
        BY <1>1, <4>1, <4>2
      <4> QED
        BY <4>3 DEF Acked
    <3> QED
      BY <3>1, <3>2, <3>3
  <2> HIDE DEF bits, shift
  <2>5. bits \in SUBSET (1 .. AckWidth)
    BY <2>3
  <2> QED
    BY <2>1, <2>2, <2>4, <2>5 DEF Tracker, Acked
<1>3. CASE ~ seq > t.base
  <2> DEFINE bits == t.bits \cup ({t.base - seq} \cap (1 .. AckWidth))
  <2>1. OnReceived(t, seq) = [base |-> t.base, bits |-> bits]
    BY <1>1, <1>3 DEF OnReceived
  <2>2. bits \in SUBSET (1 .. AckWidth)
    BY <1>1
  <2>3. ASSUME NEW s \in Nat \ {0}, s = t.base \/ t.base - s \in bits, s # seq
        PROVE  Acked(t, s)
    <3>1. t.base - s # t.base - seq
      BY <1>1, <2>3
    <3> QED
      BY <2>3, <3>1 DEF Acked
  <2> HIDE DEF bits
  <2> QED
    BY <1>1, <2>1, <2>2, <2>3 DEF Tracker, Acked
<1> QED
  BY <1>2, <1>3

LEMMA ReceiveStep ==
    ASSUME ChannelInv, NEW d \in datagrams, Receive(d)
    PROVE  ChannelInv'
<1> DEFINE opens == open \/ ConnectAck \in d.frames
           seqs == Ascending(GameSeqs(d))
           st == ReceiveFrames(seqs)
<1>1. /\ track' = OnReceived(track, d.seq) /\ acks' = acks
      /\ mode' = mode /\ window' = window /\ nextSeq' = nextSeq /\ localSeq' = localSeq /\ datagrams' = datagrams
  BY DEF Receive, client
<1>2. opens => receiver' = st.r /\ delivered' = st.out /\ late' = st.late /\ forgotten' = st.forgotten /\ skipped' = skipped
  BY DEF Receive
<1>3. ~opens => /\ skipped' = skipped \cup GameSeqs(d)
                /\ receiver' = receiver /\ delivered' = delivered /\ late' = late /\ forgotten' = forgotten
  BY DEF Receive
<1>4. /\ NumbersSound /\ nextSeq \in Nat /\ localSeq \in Nat \ {0} /\ mode \in {"ordered", "unordered"}
      /\ d.seq \in 1 .. localSeq - 1 /\ GameSeqs(d) \in SUBSET (0 .. nextSeq - 1)
      /\ track \in Tracker /\ acks \subseteq Tracker /\ StateSound(GameChannel, nextSeq)
  BY DEF ChannelInv, NumbersSound
<1>5. /\ seqs \in Seq(0 .. nextSeq - 1)
      /\ \A k \in GameSeqs(d) : \E i \in 1 .. Len(seqs) : seqs[i] = k
  <2>1. IsFiniteSet(GameSeqs(d)) /\ GameSeqs(d) \in SUBSET Nat
    <3>1. IsFiniteSet(0 .. nextSeq - 1)
      <4>1. 0 \in Int /\ nextSeq - 1 \in Int
        BY <1>4
      <4> QED
        BY <4>1, FS_Interval, Zenon
    <3>2. IsFiniteSet(GameSeqs(d))
      BY <1>4, <3>1, FS_Subset
    <3> QED
      BY <1>4, <3>2
  <2>2. seqs \in Seq(GameSeqs(d)) /\ \A k \in GameSeqs(d) : \E i \in 1 .. Len(seqs) : seqs[i] = k
    BY <2>1, AscendingAll
  <2> HIDE DEF seqs
  <2>3. seqs \in Seq(0 .. nextSeq - 1)
    <3>1. seqs \in Seq(GameSeqs(d)) /\ GameSeqs(d) \subseteq 0 .. nextSeq - 1
      BY <1>4, <2>2, Zenon
    <3> DEFINE T == 0 .. nextSeq - 1
               S == GameSeqs(d)
    <3> HIDE DEF T, S
    <3>2. \A q : q \in Seq(S) /\ S \subseteq T => q \in Seq(T)
      BY SeqMonotonic
    <3> QED
      BY <3>1, <3>2, Zenon DEF S, T
  <2> QED
    BY <2>2, <2>3, Zenon
<1>6. /\ StateSound(st, nextSeq)
      /\ ArrivedIn(GameChannel) \subseteq ArrivedIn(st)
      /\ GameChannel.late \subseteq st.late /\ GameChannel.forgotten \subseteq st.forgotten
      /\ GameSeqs(d) \subseteq ArrivedIn(st) \cup st.late
  <2>1. /\ StateSound(st, nextSeq) /\ ArrivedIn(GameChannel) \subseteq ArrivedIn(st)
        /\ GameChannel.late \subseteq st.late /\ GameChannel.forgotten \subseteq st.forgotten
        /\ \A i \in 1 .. Len(seqs) : seqs[i] \in ArrivedIn(st) \cup st.late
    <3> HIDE DEF seqs
    <3> QED
      BY <1>4, <1>5, ReceiveFramesFine
  <2> QED
    BY <1>5, <2>1
<1> HIDE DEF st, seqs, opens
<1>7. GameChannel' = IF opens THEN st ELSE GameChannel
  <2>1. CASE opens
    <3>1. st = [r |-> st.r, out |-> st.out, late |-> st.late, forgotten |-> st.forgotten]
      BY <1>6 DEF StateSound, ChannelState
    <3> QED
      BY <1>2, <2>1, <3>1 DEF GameChannel
  <2>2. CASE ~opens
    BY <1>3, <2>2 DEF GameChannel
  <2> QED
    BY <2>1, <2>2
<1>8. StateSound(GameChannel, nextSeq)'
  <2>1. StateSound(GameChannel', nextSeq)
    BY <1>4, <1>6, <1>7
  <2> QED
    BY <1>1, <2>1 DEF StateSound, Filtered, OrderedSound, UnorderedSound, ArrivedIn, ChannelState, Receiver, IsDuplicate
<1>9. Accounted \subseteq Accounted' /\ GameSeqs(d) \subseteq Accounted'
  <2>1. GameChannel.late = late
    BY DEF GameChannel
  <2>2. CASE opens
    <3>1. Accounted' = ArrivedIn(st) \cup skipped \cup st.late
      BY <1>2, <1>7, <2>2 DEF Accounted, ArrivedIn
    <3> QED
      BY <1>6, <2>1, <3>1 DEF Accounted
  <2>3. CASE ~opens
    <3>1. Accounted' = ArrivedIn(GameChannel) \cup (skipped \cup GameSeqs(d)) \cup late
      BY <1>3, <1>7, <2>3 DEF Accounted, ArrivedIn
    <3> QED
      BY <3>1 DEF Accounted
  <2> QED
    BY <2>2, <2>3
<1>10. /\ track' \in Tracker
       /\ \A s \in Nat \ {0} : Acked(track', s) => s = d.seq \/ Acked(track, s)
  BY <1>1, <1>4, ReceivedMore
<1>11. NumbersSound'
  <2>1. Tracker' = Tracker /\ WindowFrame' = WindowFrame
    BY <1>1 DEF Tracker, WindowFrame
  <2> QED
    BY <1>1, <1>4, <1>10, <2>1 DEF NumbersSound, GameSeqs
<1>12. FramesSent'
  BY <1>1 DEF ChannelInv, FramesSent
<1>13. AcksTrue'
  <2>1. ASSUME NEW e \in datagrams, NEW a \in acks \cup {track'}, Acked(a, e.seq) PROVE GameSeqs(e) \subseteq Accounted'
    <3>1. e.seq \in Nat \ {0}
      BY <1>4 DEF NumbersSound
    <3>2. CASE \E b \in acks \cup {track} : Acked(b, e.seq)
      BY <1>9, <3>2 DEF ChannelInv, AcksTrue
    <3>3. CASE e.seq = d.seq
      <4>1. e = d
        BY <3>3 DEF ChannelInv, FramesSent
      <4> QED
        BY <1>9, <4>1
    <3> QED
      BY <1>10, <2>1, <3>1, <3>2, <3>3
  <2> QED
    BY <1>1, <2>1 DEF AcksTrue, GameSeqs, Acked
<1>14. NothingLost'
  <2>1. \A k \in 0 .. nextSeq - 1 : k \in Accounted' \/ \E f \in window : f.ch = "game" /\ f.seq = k
    BY <1>9, NothingLostIs DEF ChannelInv
  <2> QED
    BY <1>1, <2>1 DEF NothingLost, Accounted, GameWindow
<1> QED
  BY <1>8, <1>11, <1>12, <1>13, <1>14 DEF ChannelInv

(* The channel's inductive invariant holds for any widths of the window,   *)
(* the filter and the acknowledgements, and any loss, repetition and       *)
(* order of the datagrams.                                                 *)
THEOREM ChannelInvariant == Spec => []ChannelInv
<1>1. Init => ChannelInv
  <2> SUFFICES ASSUME Init PROVE ChannelInv
    OBVIOUS
  <2> DEFINE r0 == [started |-> FALSE, highest |-> 0, seen |-> {}, expect |-> 0, reorder |-> {}]
  <2>1. NumbersSound
    <3>1. mode \in {"ordered", "unordered"}
      BY ChannelAssumption DEF Init, ChannelAssumption
    <3>2. \A f \in window : f \in WindowFrame /\ f.ch # "game"
      BY DEF Init, Pending, WindowFrame
    <3>3. track \in Tracker
      BY DEF Init, Tracker
    <3> QED
      BY <3>1, <3>2, <3>3 DEF Init, NumbersSound
  <2>2. FramesSent
    BY DEF Init, FramesSent, Pending
  <2>3. AcksTrue
    BY DEF Init, AcksTrue
  <2>4. GameChannel = [r |-> r0, out |-> <<>>, late |-> {}, forgotten |-> {}]
    BY DEF Init, GameChannel
  <2>5. r0 \in Receiver(nextSeq)
    BY DEF Receiver
  <2>6. GameChannel \in ChannelState(nextSeq)
    BY <2>4, <2>5 DEF ChannelState
  <2>7. ArrivedIn(GameChannel) = {}
    BY <2>4 DEF ArrivedIn, Range
  <2>8. StateSound(GameChannel, nextSeq)
    BY <2>4, <2>6, <2>7 DEF StateSound, Filtered, OrderedSound, UnorderedSound
  <2>9. NothingLost
    BY DEF Init, NothingLost
  <2> QED
    BY <2>1, <2>2, <2>3, <2>8, <2>9 DEF ChannelInv
<1>2. ASSUME ChannelInv, [Next]_vars PROVE ChannelInv'
  <2>1. CASE Queue
    BY <1>2, <2>1, QueueStep
  <2>2. CASE \E upTo \in [{"control", "game"} -> 0 .. localSeq - 1] : Tick(upTo)
    BY <1>2, <2>2, TickStep
  <2>3. CASE \E a \in acks : OnAck(a)
    BY <1>2, <2>3, OnAckStep
  <2>4. CASE \E d \in datagrams : Receive(d)
    BY <1>2, <2>4, ReceiveStep
  <2>5. CASE SendAck
    BY <1>2, <2>5, SendAckStep
  <2>6. CASE UNCHANGED vars
    <3>1. /\ acks' = acks /\ nextSeq' = nextSeq /\ localSeq' = localSeq /\ datagrams' = datagrams
          /\ track' = track /\ mode' = mode /\ window' = window
          /\ UNCHANGED <<mode, receiver, delivered, skipped, late, forgotten>>
      BY <2>6 DEF vars
    <3>2. NumbersSound'
      BY <1>2, <3>1 DEF ChannelInv, NumbersSound, GameSeqs, WindowFrame, Tracker
    <3>3. FramesSent'
      BY <1>2, <3>1 DEF ChannelInv, FramesSent
    <3>4. Accounted' = Accounted /\ (StateSound(GameChannel, nextSeq) => StateSound(GameChannel, nextSeq)')
      BY <3>1, GameUnchanged
    <3>5. AcksTrue'
      BY <1>2, <3>1, <3>4 DEF ChannelInv, AcksTrue, GameSeqs, Acked
    <3>6. NothingLost'
      BY <1>2, <3>1, <3>4 DEF ChannelInv, NothingLost, GameWindow, GameChannel, ArrivedIn
    <3> QED
      BY <1>2, <3>2, <3>3, <3>4, <3>5, <3>6 DEF ChannelInv
  <2> QED
    BY <1>2, <2>1, <2>2, <2>3, <2>4, <2>5, <2>6 DEF Next
<1> QED
  BY <1>1, <1>2, PTL DEF Spec

(* transport.go:28-34.  The reliable modes: in order and without a gap in  *)
(* the ordered one, once in both, and no frame leaves the window before it *)
(* has arrived, but for the exceptions `forgotten`, `skipped` and `late`.  *)
THEOREM ReliableDeliveryHolds == Spec => []ReliableDelivery
<1>1. ChannelInv => ReliableDelivery
  <2> SUFFICES ASSUME ChannelInv PROVE ReliableDelivery
    OBVIOUS
  <2>1. /\ StateSound(GameChannel, nextSeq) /\ NothingLost /\ mode \in {"ordered", "unordered"}
        /\ GameChannel.out = delivered /\ GameChannel.forgotten = forgotten
    BY DEF ChannelInv, NumbersSound, GameChannel
  <2>2. InOrder
    BY <2>1 DEF StateSound, OrderedSound, InOrder
  <2>3. AtMostOnce
    <3>1. CASE mode = "ordered"
      <4> SUFFICES ASSUME NEW i \in 1 .. Len(delivered), NEW j \in 1 .. Len(delivered), i # j, delivered[i] = delivered[j]
                   PROVE  FALSE
        BY DEF AtMostOnce
      <4>1. delivered[i] = i - 1 /\ delivered[j] = j - 1
        BY <2>2, <3>1 DEF InOrder
      <4>2. i \in Int /\ j \in Int
        OBVIOUS
      <4>3. i - 1 = j - 1
        BY <4>1, Zenon
      <4>4. i = j
        BY <4>2, <4>3
      <4> QED
        BY <4>4, Zenon
    <3>2. CASE mode = "unordered"
      BY <2>1, <3>2 DEF StateSound, UnorderedSound, AtMostOnce
    <3> QED
      BY <2>1, <3>1, <3>2
  <2> QED
    BY <2>1, <2>2, <2>3 DEF ReliableDelivery
<1> QED
  BY <1>1, ChannelInvariant, PTL

-----------------------------------------------------------------------------
(* Replication. *)

(* What the client may know of an entity, and what it may be told.         *)
Data == Values \cup {0}
Known == {Absent} \cup [Comps -> Data]
Told == [kind : {"spawn", "despawn", "update"}, data : UNION {[cs -> Data] : cs \in SUBSET Comps}]

Applied(m, r) ==
    IF m.kind = "spawn" THEN Merged(IF r = Absent THEN NoComps ELSE r, m.data)
    ELSE IF m.kind = "despawn" \/ r = Absent THEN Absent
    ELSE Merged(r, m.data)

(* After a spawn or a despawn it does not matter what was known before.    *)
Resets(m) == m.kind \in {"spawn", "despawn"}

(* What is known is right, up to what is still to be sent.                 *)
Fits(e, r) ==
    IF e \in vis
    THEN r # Absent /\ \A c \in Present(e) :
             r[c] = comps[e][c] \/ NeedsSend(e, changed[e][c]) \/ <<e, c>> \in hidden
    ELSE r = Absent

(* f is what the client knows as messages k and up are applied.            *)
Replay(w, k, f) ==
    f \in [k - 1 .. Len(w) -> Known] /\ \A j \in k .. Len(w) : f[j] = Applied(w[j], f[j - 1])

From(e, k, r) ==
    \/ k = 1 /\ e \notin lost /\ r = replica[e]
    \/ k <= Len(wire[e]) /\ Resets(wire[e][k])

Following(e) ==
    \A k \in 1 .. Len(wire[e]) + 1 :
        \A f, r : Replay(wire[e], k, f) /\ From(e, k, f[k - 1]) /\ r = f[Len(wire[e])] => Fits(e, r)

RepTypeOK ==
    /\ alive \subseteq Entities /\ vis \subseteq Entities
    /\ comps \in [Entities -> [Comps -> Data]] /\ changeTick \in Nat
    /\ changed \in [Entities -> [Comps -> 0 .. changeTick]]
    /\ ack \in [Entities -> {NoAck} \cup 0 .. changeTick]
    /\ waited \in [Entities -> Nat] /\ accumulator \in [Entities -> Nat]
    /\ wire \in [Entities -> Seq(Told)] /\ replica \in [Entities -> Known]

LEMMA AppliedKnown ==
    ASSUME NEW m \in Told, NEW r \in Known
    PROVE  Applied(m, r) \in Known
<1>1. ASSUME NEW old \in [Comps -> Data], NEW cs \in SUBSET Comps, NEW data \in [cs -> Data]
      PROVE  Merged(old, data) \in [Comps -> Data]
  BY DEF Merged
<1>2. PICK cs \in SUBSET Comps : m.data \in [cs -> Data]
  BY DEF Told
<1>3. NoComps \in [Comps -> Data]
  BY DEF NoComps, Data
<1> QED
  BY <1>1, <1>2, <1>3 DEF Applied, Known

-----------------------------------------------------------------------------
LEMMA FollowingKept ==
    ASSUME RepTypeOK, NEW e \in Entities, Following(e), wire'[e] = wire[e], replica'[e] = replica[e], e \in lost => e \in lost',
           \A r \in Known : Fits(e, r) => Fits(e, r)'
    PROVE  Following(e)'
<1>1. Len(wire[e]) \in Nat
  BY DEF RepTypeOK
<1> DEFINE n == Len(wire[e])
<1>2. ASSUME NEW k \in 1 .. n + 1, NEW f, NEW r, Replay(wire[e], k, f), From(e, k, f[k - 1])', r = f[n]
      PROVE  Fits(e, r)'
  <2>1. From(e, k, f[k - 1])
    BY <1>2 DEF From
  <2>2. Fits(e, r)
    BY <1>2, <2>1 DEF Following
  <2>3. r \in Known
    <3>1. n \in k - 1 .. n
      BY <1>1
    <3> QED
      BY <1>2, <3>1 DEF Replay
  <2> QED
    BY <2>2, <2>3
<1> QED
  BY <1>2 DEF Following

LEMMA LastOfInterval ==
    ASSUME NEW n \in Nat, NEW k \in 1 .. n + 2, k <= n + 1
    PROVE  n + 1 \in k .. n + 1 /\ (n + 1) - 1 = n /\ n \in k - 1 .. n + 1
  OBVIOUS

LEMMA FollowingSent ==
    ASSUME RepTypeOK, NEW e \in Entities, NEW m \in Told, wire'[e] = Append(wire[e], m), replica'[e] = replica[e], lost' = lost,
           \/ Resets(m) /\ \A r, s \in Known : s = Applied(m, r) => Fits(e, s)'
           \/ ~Resets(m) /\ Following(e) /\ \A r, s \in Known : s = Applied(m, r) /\ Fits(e, r) => Fits(e, s)'
    PROVE  Following(e)'
<1> DEFINE w == wire[e]
           n == Len(w)
           v == wire'[e]
<1>1. n \in Nat /\ w \in Seq(Told)
  BY DEF RepTypeOK
<1>2. Len(v) = n + 1 /\ v[n + 1] = m /\ \A j \in 1 .. n : v[j] = w[j]
  BY <1>1
<1> HIDE DEF n, v, w
<1>3. ASSUME NEW k \in 1 .. n + 2, NEW f, NEW s, Replay(v, k, f), From(e, k, f[k - 1])', s = f[n + 1]
      PROVE  Fits(e, s)'
  <2>1. k <= n + 1 /\ (k = 1 \/ Resets(v[k]))
    <3>1. k = 1 \/ (k <= n + 1 /\ Resets(v[k]))
      BY <1>2, <1>3 DEF From, v
    <3> QED
      BY <1>1, <3>1
  <2>2. f \in [k - 1 .. n + 1 -> Known] /\ \A j \in k .. n + 1 : f[j] = Applied(v[j], f[j - 1])
    BY <1>2, <1>3 DEF Replay
  <2>3. s = Applied(m, f[n]) /\ f[n] \in Known /\ s \in Known
    <3>1. n + 1 \in k .. n + 1 /\ (n + 1) - 1 = n /\ n \in k - 1 .. n + 1
      BY <1>1, <2>1, LastOfInterval
    <3>2. f[n + 1] = Applied(v[n + 1], f[(n + 1) - 1])
      BY <2>2, <3>1
    <3> QED
      BY <1>2, <1>3, <2>2, <3>1, <3>2, AppliedKnown
  <2>4. CASE Resets(m) /\ \A r, t \in Known : t = Applied(m, r) => Fits(e, t)'
    BY <2>3, <2>4
  <2>5. CASE ~Resets(m) /\ Following(e) /\ \A r, t \in Known : t = Applied(m, r) /\ Fits(e, r) => Fits(e, t)'
    <3> DEFINE g == [j \in k - 1 .. n |-> f[j]]
    <3>1. k \in 1 .. n + 1 /\ k - 1 \in k - 1 .. n /\ n \in k - 1 .. n
      BY <1>1, <2>1
    <3>2. \A j \in k .. n : j \in k - 1 .. n /\ j - 1 \in k - 1 .. n /\ j \in 1 .. n /\ j \in k .. n + 1
      BY <1>1
    <3>3. g \in [k - 1 .. n -> Known]
      BY <1>1, <2>2
    <3>4. \A j \in k .. n : g[j] = Applied(w[j], g[j - 1])
      BY <1>2, <2>2, <3>2
    <3>5. g[k - 1] = f[k - 1] /\ g[n] = f[n]
      BY <3>1
    <3> HIDE DEF g
    <3>6. Replay(w, k, g)
      BY <3>3, <3>4 DEF Replay, n
    <3>7. From(e, k, g[k - 1])
      <4>1. CASE k <= n /\ Resets(v[k])
        BY <1>2, <3>1, <4>1 DEF From, n, w
      <4>2. CASE ~(k <= n /\ Resets(v[k]))
        <5>1. k = 1 /\ f[k - 1] = replica[e] /\ e \notin lost
          <6>1. ~(k <= Len(wire'[e]) /\ Resets(wire'[e][k]))
            <7>1. k = n + 1 \/ ~Resets(v[k])
              BY <1>1, <2>1, <4>2
            <7> QED
              BY <1>2, <2>5, <7>1 DEF v
          <6> QED
            BY <1>3, <6>1 DEF From
        <5> QED
          BY <3>5, <5>1 DEF From
      <4> QED
        BY <4>1, <4>2
    <3>8. Fits(e, g[n])
      BY <2>5, <3>1, <3>6, <3>7 DEF Following, n, w
    <3> QED
      BY <2>3, <2>5, <3>5, <3>8
  <2> QED
    BY <2>4, <2>5
<1>4. Len(v) + 1 = n + 2
  BY <1>1, <1>2
<1> QED
  BY <1>2, <1>3, <1>4 DEF Following, v

LEMMA FollowingTaken ==
    ASSUME RepTypeOK, NEW e \in Entities, Following(e), wire[e] # <<>>, wire'[e] = Tail(wire[e]),
           \/ e \in lost'
           \/ replica'[e] = Applied(Head(wire[e]), replica[e]) /\ (e \notin lost \/ Resets(Head(wire[e]))),
           \A r \in Known : Fits(e, r) => Fits(e, r)'
    PROVE  Following(e)'
<1> DEFINE w == wire[e]
           n == Len(w)
           v == wire'[e]
<1>1. n \in Nat /\ n > 0 /\ w \in Seq(Told) /\ Head(w) = w[1] /\ replica[e] \in Known
  BY DEF RepTypeOK
<1>2. Len(v) = n - 1 /\ \A j \in 1 .. n - 1 : v[j] = w[j + 1]
  BY <1>1
<1> HIDE DEF n, v, w
<1>3. ASSUME NEW k \in 1 .. n, NEW f, NEW s, Replay(v, k, f), From(e, k, f[k - 1])', s = f[n - 1]
      PROVE  Fits(e, s)'
  <2>1. f \in [k - 1 .. n - 1 -> Known] /\ \A j \in k .. n - 1 : f[j] = Applied(v[j], f[j - 1])
    BY <1>2, <1>3 DEF Replay
  <2>2. SUFFICES Fits(e, s)
    <3>1. n - 1 \in k - 1 .. n - 1
      BY <1>1
    <3>2. s \in Known
      BY <1>3, <2>1, <3>1
    <3> QED
      BY <3>2
  <2>3. CASE k <= n - 1 /\ Resets(v[k])
    <3> DEFINE g == [j \in k .. n |-> f[j - 1]]
    <3>1. k + 1 \in 1 .. n + 1 /\ (k + 1) - 1 = k /\ k \in 1 .. n - 1 /\ n \in k .. n /\ k + 1 <= n
      BY <1>1, <2>3
    <3>2. \A j \in k .. n : j - 1 \in k - 1 .. n - 1
      BY <1>1
    <3>3. g \in [k .. n -> Known]
      BY <2>1, <3>2
    <3>4. ASSUME NEW j \in k + 1 .. n PROVE g[j] = Applied(w[j], g[j - 1])
      <4>1. j \in k .. n /\ j - 1 \in k .. n /\ j - 1 \in k .. n - 1 /\ j - 1 \in 1 .. n - 1 /\ (j - 1) + 1 = j
        BY <1>1
      <4>2. f[j - 1] = Applied(v[j - 1], f[(j - 1) - 1]) /\ v[j - 1] = w[j]
        BY <1>2, <2>1, <4>1
      <4>3. g[j] = f[j - 1] /\ g[j - 1] = f[(j - 1) - 1]
        BY <4>1
      <4> QED
        BY <4>2, <4>3
    <3>5. g[n] = f[n - 1]
      BY <3>1
    <3> HIDE DEF g
    <3>6. Replay(w, k + 1, g)
      BY <3>1, <3>3, <3>4 DEF Replay, n
    <3>7. From(e, k + 1, g[(k + 1) - 1])
      BY <1>2, <2>3, <3>1 DEF From, n, w
    <3>8. Fits(e, g[n])
      BY <3>1, <3>6, <3>7 DEF Following, n, w
    <3> QED
      BY <1>3, <3>5, <3>8
  <2>4. CASE ~(k <= n - 1 /\ Resets(v[k]))
    <3>1. k = 1 /\ e \notin lost' /\ f[k - 1] = replica'[e]
      BY <1>2, <1>3, <2>4 DEF From, v
    <3>2. f[0] = Applied(w[1], replica[e]) /\ (e \notin lost \/ Resets(w[1]))
      BY <1>1, <3>1 DEF w
    <3> DEFINE g == [j \in 0 .. n |-> IF j = 0 THEN replica[e] ELSE f[j - 1]]
    <3>3. \A j \in 0 .. n : j # 0 => j - 1 \in 0 .. n - 1
      BY <1>1
    <3>4. f \in [0 .. n - 1 -> Known] /\ \A j \in 1 .. n - 1 : f[j] = Applied(v[j], f[j - 1])
      BY <2>1, <3>1
    <3>5. g \in [0 .. n -> Known]
      BY <1>1, <3>3, <3>4
    <3>6. ASSUME NEW j \in 1 .. n PROVE g[j] = Applied(w[j], g[j - 1])
      <4>1. CASE j = 1
        <5>1. 1 \in 0 .. n /\ 0 \in 0 .. n /\ 1 - 1 = 0 /\ 1 # 0
          BY <1>1
        <5>2. g[1] = f[0] /\ g[0] = replica[e]
          BY <5>1
        <5> HIDE DEF g
        <5> QED
          BY <3>2, <4>1, <5>1, <5>2
      <4>2. CASE j # 1
        <5>1. j \in 0 .. n /\ j - 1 \in 0 .. n /\ j # 0 /\ j - 1 # 0 /\ j - 1 \in 1 .. n - 1 /\ (j - 1) + 1 = j
          BY <1>1, <4>2
        <5>2. f[j - 1] = Applied(v[j - 1], f[(j - 1) - 1]) /\ v[j - 1] = w[j]
          BY <1>2, <3>4, <5>1
        <5>3. g[j] = f[j - 1] /\ g[j - 1] = f[(j - 1) - 1]
          BY <5>1
        <5> HIDE DEF g
        <5> QED
          BY <5>2, <5>3
      <4> QED
        BY <4>1, <4>2
    <3>7. g[n] = f[n - 1] /\ g[0] = replica[e]
      BY <1>1
    <3> HIDE DEF g
    <3>8. Replay(w, 1, g)
      BY <3>5, <3>6 DEF Replay, n
    <3>9. From(e, 1, g[1 - 1])
      BY <1>1, <3>2, <3>7 DEF From, n, w
    <3>10. 1 \in 1 .. n + 1
      BY <1>1
    <3>11. Fits(e, g[n])
      BY <3>8, <3>9, <3>10 DEF Following, n, w
    <3> QED
      BY <1>3, <3>7, <3>11
  <2> QED
    BY <2>3, <2>4
<1>4. Len(v) + 1 = n
  BY <1>1, <1>2
<1> QED
  BY <1>2, <1>3, <1>4 DEF Following, v

-----------------------------------------------------------------------------
LEMMA CostType ==
    ASSUME NEW e
    PROVE  IsFiniteSet(ChangedComponents(e)) /\ Cardinality(ChangedComponents(e)) \in Nat
<1>1. ChangedComponents(e) \subseteq Comps /\ IsFiniteSet(Comps)
  BY ReplicationAssumption DEF ChangedComponents, Present
<1>2. IsFiniteSet(ChangedComponents(e))
  BY <1>1, FS_Subset
<1> QED
  BY <1>2, FS_CardinalityType

(* An update within the budget is sent, or one that is before it.          *)
LEMMA FittingSound ==
    ASSUME NEW P, NEW order \in Seq(P)
    PROVE  /\ Fitting(order) \subseteq P
           /\ \A i \in 1 .. Len(order) :
                  Cardinality(ChangedComponents(order[i])) <= Budget => \E j \in 1 .. i : order[j] \in Fitting(order)
<1> DEFINE n == Len(order)
           cost(i) == Cardinality(ChangedComponents(order[i]))
           T == [remaining : Int, sent : SUBSET P]
           first == [remaining |-> Budget, sent |-> {}]
           next(i, x) == IF x.remaining >= cost(i)
                         THEN [remaining |-> x.remaining - cost(i), sent |-> x.sent \cup {order[i]}] ELSE x
           step == [p \in (1 .. n) \X T |-> next(p[1], p[2])]
           Good(f) == f = [i \in 0 .. n |-> IF i = 0 THEN first ELSE next(i, f[i - 1])]
           g == CHOOSE g : Good(g)
<1>1. n \in Nat /\ \A i \in 1 .. n : order[i] \in P
  OBVIOUS
<1>2. \A i \in 1 .. n : cost(i) \in Nat
  BY CostType
<1>3. first \in T /\ Budget \in Nat
  BY ReplicationAssumption
<1> HIDE DEF cost
<1>4. \A i \in 1 .. n, x \in T : next(i, x) \in T
  BY <1>1, <1>2
<1>5. step \in Steps(n, T)
  <2> HIDE DEF next, T
  <2> QED
    BY <1>4 DEF Steps
<1>6. Fitting(order) = g[n].sent
  BY DEF Fitting, cost
<1> HIDE DEF first, next, T
<1>7. PICK f : Recursion(f, n, T, first, step)
  <2> HIDE DEF step
  <2> QED
    BY <1>1, <1>3, <1>5, RecursionExists, Zenon
<1>8. Good(f)
  <2>1. f \in [0 .. n -> T] /\ f[0] = first
    BY <1>7 DEF Recursion
  <2>2. ASSUME NEW i \in 1 .. n PROVE f[i] = next(i, f[i - 1])
    <3>1. i - 1 \in 0 .. n
      BY <1>1
    <3>2. f[i] = step[<<i, f[i - 1]>>]
      BY <1>7 DEF Recursion
    <3>3. <<i, f[i - 1]>> \in (1 .. n) \X T
      BY <2>1, <3>1
    <3> QED
      BY <3>2, <3>3
  <2>3. \A i \in 0 .. n : i = 0 \/ i \in 1 .. n
    BY <1>1
  <2>4. f = [i \in 0 .. n |-> f[i]]
    BY <2>1
  <2> HIDE DEF n, step
  <2> QED
    BY <2>1, <2>2, <2>3, <2>4
<1>9. Good(g)
  BY <1>8, Zenon
<1> HIDE DEF g
<1>10. g[0] = first /\ \A i \in 1 .. n : g[i] = next(i, g[i - 1])
  <2>1. 0 \in 0 .. n /\ \A i \in 1 .. n : i \in 0 .. n /\ i # 0
    BY <1>1
  <2> HIDE DEF n
  <2> QED
    BY <1>9, <2>1
<1>11. \A i \in 0 .. n : g[i] \in T
  <2>1. \A i \in 1 .. n : g[i - 1] \in T => g[i] \in T
    BY <1>4, <1>10
  <2> HIDE DEF n
  <2> QED
    BY <1>1, <1>3, <1>10, <2>1, RecursionKeeps
<1>12. g[n].sent \subseteq P
  <2>1. n \in 0 .. n
    BY <1>1
  <2>2. g[n] \in T
    BY <1>11, <2>1
  <2> QED
    BY <2>2 DEF T
<1>13. ASSUME NEW i \in 1 .. n PROVE g[i].sent \subseteq g[n].sent
  <2> DEFINE S == {k \in Nat : i + k <= n => g[i].sent \subseteq g[i + k].sent}
  <2>1. i \in Nat /\ i + 0 = i /\ n - i \in Nat /\ i + (n - i) = n
    BY <1>1
  <2>2. 0 \in S
    BY <2>1
  <2>3. ASSUME NEW k \in Nat, k \in S PROVE k + 1 \in S
    <3>1. SUFFICES ASSUME i + (k + 1) <= n PROVE g[i].sent \subseteq g[i + (k + 1)].sent
      OBVIOUS
    <3>2. i + (k + 1) \in 1 .. n /\ (i + (k + 1)) - 1 = i + k /\ i + k <= n
      BY <1>1, <2>1, <3>1
    <3>3. g[i + (k + 1)] = next(i + (k + 1), g[i + k])
      BY <1>10, <3>2
    <3>4. g[i].sent \subseteq g[i + k].sent
      BY <2>3, <3>2
    <3> QED
      BY <3>3, <3>4 DEF next
  <2> HIDE DEF S
  <2>4. n - i \in S
    BY <2>1, <2>2, <2>3, SetInduction
  <2> QED
    BY <1>1, <2>1, <2>4 DEF S
<1> DEFINE Begun(i) == \/ g[i].sent = {} /\ g[i].remaining = Budget
                       \/ \E j \in 1 .. i : order[j] \in g[i].sent
<1>14. \A i \in 0 .. n : Begun(i)
  <2> DEFINE S == {i \in Nat : i <= n => Begun(i)}
  <2>1. 0 \in S
    BY <1>10 DEF first
  <2>2. ASSUME NEW i \in Nat, i \in S PROVE i + 1 \in S
    <3>1. SUFFICES ASSUME i + 1 <= n PROVE Begun(i + 1)
      OBVIOUS
    <3>2. i + 1 \in 1 .. n /\ (i + 1) - 1 = i /\ i <= n /\ 1 .. i \subseteq 1 .. i + 1 /\ i + 1 \in 1 .. i + 1
      BY <1>1, <3>1
    <3>3. g[i + 1] = next(i + 1, g[i]) /\ Begun(i)
      BY <1>10, <2>2, <3>2
    <3>4. CASE \E j \in 1 .. i : order[j] \in g[i].sent
      <4>1. g[i].sent \subseteq g[i + 1].sent
        BY <3>3 DEF next
      <4> QED
        BY <3>2, <3>4, <4>1
    <3>5. CASE g[i].sent = {} /\ g[i].remaining = Budget
      <4>1. CASE g[i].remaining >= cost(i + 1)
        <5>1. order[i + 1] \in g[i + 1].sent
          BY <3>3, <4>1 DEF next
        <5> QED
          BY <3>2, <5>1
      <4>2. CASE ~(g[i].remaining >= cost(i + 1))
        BY <3>3, <3>5, <4>2 DEF next
      <4> QED
        BY <4>1, <4>2
    <3> QED
      BY <3>3, <3>4, <3>5
  <2> HIDE DEF S
  <2>3. ASSUME NEW i \in 0 .. n PROVE Begun(i)
    <3>1. i \in Nat /\ i <= n
      BY <1>1
    <3>2. i \in S
      BY <2>1, <2>2, <3>1, SetInduction
    <3> QED
      BY <3>1, <3>2 DEF S
  <2> QED
    BY <2>3
<1>15. ASSUME NEW i \in 1 .. n, cost(i) <= Budget PROVE \E j \in 1 .. i : order[j] \in g[n].sent
  <2>1. i - 1 \in 0 .. n /\ 1 .. i - 1 \subseteq 1 .. i /\ i \in 1 .. i
    BY <1>1
  <2>2. g[i] = next(i, g[i - 1]) /\ Begun(i - 1)
    BY <1>10, <1>14, <2>1
  <2>3. CASE \E j \in 1 .. i - 1 : order[j] \in g[i - 1].sent
    <3>1. g[i - 1].sent \subseteq g[i].sent
      BY <2>2 DEF next
    <3> QED
      BY <1>13, <2>1, <2>3, <3>1
  <2>4. CASE g[i - 1].sent = {} /\ g[i - 1].remaining = Budget
    <3>1. g[i - 1].remaining >= cost(i)
      BY <1>2, <1>3, <1>15, <2>4
    <3>2. order[i] \in g[i].sent
      BY <2>2, <3>1 DEF next
    <3> QED
      BY <1>13, <2>1, <3>2
  <2> QED
    BY <2>2, <2>3, <2>4
<1> QED
  BY <1>6, <1>12, <1>15 DEF cost

-----------------------------------------------------------------------------
Spawned(newVis) == {e \in newVis \ vis : Present(e) # {}}

PendingUpdates(newVis) == {e \in newVis \ (newVis \ vis) : ChangedComponents(e) # {}}

TooLarge(newVis) == {e \in PendingUpdates(newVis) : Cardinality(ChangedComponents(e)) > Budget}

(* A frame sends some of the pending updates: each of them, or one that    *)
(* has as high a priority, unless the budget is too small for it.          *)
Sends(newVis, sent) ==
    /\ vis' = newVis
    /\ wire' = [e \in Entities |-> wire[e] \o Queued(e, Spawned(newVis), vis \ newVis, sent)]
    /\ ack' = [e \in Entities |-> IF e \in vis \ newVis THEN NoAck
                                  ELSE IF e \in Spawned(newVis) \cup sent THEN changeTick ELSE ack[e]]
    /\ accumulator' = [e \in Entities |-> IF e \in sent \cup (vis \ newVis) THEN 0
                                          ELSE IF e \in PendingUpdates(newVis) THEN accumulator[e] + 1 ELSE accumulator[e]]
    /\ waited' = [e \in Entities |-> IF e \in PendingUpdates(newVis) \ sent THEN waited[e] + 1 ELSE 0]
    /\ oversized' = (oversized \cap (PendingUpdates(newVis) \ sent)) \cup TooLarge(newVis)
    /\ \A f \in PendingUpdates(newVis) \ TooLarge(newVis) : \E g \in sent : accumulator[g] >= accumulator[f]
    /\ bare' = (bare \cup ((newVis \ vis) \ Spawned(newVis))) \ (vis \ newVis)
    /\ hidden' = {h \in hidden : h[1] \notin Spawned(newVis) \cup (vis \ newVis)}
    /\ UNCHANGED <<serverWorld, replica, lost>>

LEMMA SendMeans ==
    ASSUME RepTypeOK, NEW newVis \in SUBSET Entities, Send(newVis)
    PROVE  newVis \subseteq alive /\ \E sent \in SUBSET PendingUpdates(newVis) : Sends(newVis, sent)
<1> DEFINE P == PendingUpdates(newVis)
           n == Cardinality(P)
<1>1. PICK order \in ByPriority(P) :
         LET sent == Fitting(order) IN
         /\ wire' = [e \in Entities |-> wire[e] \o Queued(e, Spawned(newVis), vis \ newVis, sent)]
         /\ ack' = [e \in Entities |-> IF e \in vis \ newVis THEN NoAck
                                       ELSE IF e \in Spawned(newVis) \cup sent THEN changeTick ELSE ack[e]]
         /\ accumulator' = [e \in Entities |-> IF e \in sent \cup (vis \ newVis) THEN 0
                                               ELSE IF e \in P THEN accumulator[e] + 1 ELSE accumulator[e]]
         /\ waited' = [e \in Entities |-> IF e \in P \ sent THEN waited[e] + 1 ELSE 0]
         /\ oversized' = (oversized \cap (P \ sent)) \cup TooLarge(newVis)
  BY DEF Send, Spawned, PendingUpdates, TooLarge
<1>2. /\ newVis \subseteq alive /\ vis' = newVis
      /\ bare' = (bare \cup ((newVis \ vis) \ Spawned(newVis))) \ (vis \ newVis)
      /\ hidden' = {h \in hidden : h[1] \notin Spawned(newVis) \cup (vis \ newVis)}
      /\ UNCHANGED <<serverWorld, replica, lost>>
  BY DEF Send, Spawned
<1>3. IsFiniteSet(P) /\ n \in Nat
  <2>1. P \subseteq Entities /\ IsFiniteSet(Entities)
    BY ReplicationAssumption DEF PendingUpdates
  <2>2. IsFiniteSet(P)
    BY <2>1, FS_Subset
  <2> QED
    BY <2>2, FS_CardinalityType
<1>4. /\ order \in [1 .. n -> P] /\ \A i, j \in 1 .. n : i # j => order[i] # order[j]
      /\ \A i, j \in 1 .. Len(order) : i < j => accumulator[order[i]] >= accumulator[order[j]]
  BY <1>1 DEF ByPriority, SetToSeqs
<1> HIDE DEF n, P
<1>5. order \in Seq(P) /\ Len(order) = n
  BY <1>3, <1>4
<1>6. \A d \in P : \E k \in 1 .. n : order[k] = d
  <2>1. order \in Injection(1 .. n, P)
    BY <1>4 DEF Injection, IsInjective
  <2>2. IsFiniteSet(1 .. n) /\ Cardinality(1 .. n) = n
    <3>1. 1 \in Int /\ n \in Int
      BY <1>3
    <3>2. IsFiniteSet(1 .. n) /\ Cardinality(1 .. n) = IF 1 > n THEN 0 ELSE n - 1 + 1
      BY <3>1, FS_Interval
    <3> QED
      BY <1>3, <3>2
  <2>3. order \in Surjection(1 .. n, P)
    <3>1. Cardinality(P) = n
      BY DEF n
    <3> QED
      BY <1>3, <2>1, <2>2, <3>1, FS_Injection
  <2> QED
    BY <2>3 DEF Surjection
<1> DEFINE sent == Fitting(order)
<1>7. /\ sent \subseteq P
      /\ \A i \in 1 .. n : Cardinality(ChangedComponents(order[i])) <= Budget => \E j \in 1 .. i : order[j] \in sent
  BY <1>5, FittingSound
<1>8. ASSUME NEW f \in P \ TooLarge(newVis) PROVE \E g \in sent : accumulator[g] >= accumulator[f]
  <2>1. PICK i \in 1 .. n : order[i] = f
    BY <1>6
  <2>2. Cardinality(ChangedComponents(f)) <= Budget
    <3>1. Cardinality(ChangedComponents(f)) \in Nat /\ Budget \in Nat
      BY CostType, ReplicationAssumption
    <3> QED
      BY <3>1 DEF TooLarge, P
  <2>3. PICK j \in 1 .. i : order[j] \in sent
    BY <1>7, <2>1, <2>2
  <2>4. j \in 1 .. n /\ (j < i \/ j = i)
    BY <1>3
  <2>5. accumulator[f] \in Nat
    BY DEF RepTypeOK, P, PendingUpdates
  <2> QED
    BY <1>4, <1>5, <2>1, <2>3, <2>4, <2>5
<1> HIDE DEF sent
<1>9. Sends(newVis, sent)
  BY <1>1, <1>2, <1>8 DEF Sends, P, sent
<1> QED
  BY <1>2, <1>7, <1>9 DEF P

-----------------------------------------------------------------------------
(* Each frame that puts an update off sends another one that was not       *)
(* behind it and is now, so the entities behind one that waits are at      *)
(* least as many as the frames it waits.                                   *)
Behind(f) == {g \in Entities : accumulator[g] < accumulator[f]}

Overtaken == \A f \in Entities \ oversized : waited[f] <= Cardinality(Behind(f))

LEMMA BehindFinite ==
    ASSUME RepTypeOK, NEW f \in Entities
    PROVE  /\ IsFiniteSet(Behind(f)) /\ Cardinality(Behind(f)) \in Nat
           /\ Cardinality(Entities) \in Nat /\ Cardinality(Behind(f)) < Cardinality(Entities)
<1>1. IsFiniteSet(Entities) /\ Cardinality(Entities) \in Nat
  BY ReplicationAssumption, FS_CardinalityType
<1>2. Behind(f) \subseteq Entities \ {f}
  BY DEF Behind, RepTypeOK
<1>3. IsFiniteSet(Entities \ {f}) /\ Cardinality(Entities \ {f}) = Cardinality(Entities) - 1
  BY <1>1, FS_RemoveElement
<1>4. IsFiniteSet(Behind(f)) /\ Cardinality(Behind(f)) <= Cardinality(Entities \ {f})
  BY <1>2, <1>3, FS_Subset
<1>5. Cardinality(Behind(f)) \in Nat
  BY <1>4, FS_CardinalityType
<1> QED
  BY <1>1, <1>3, <1>4, <1>5

LEMMA SendFair ==
    ASSUME RepTypeOK, RepTypeOK', Overtaken, NEW newVis \in SUBSET Entities, NEW sent \in SUBSET PendingUpdates(newVis), Sends(newVis, sent)
    PROVE  Overtaken'
<1>1. SUFFICES ASSUME NEW f \in Entities \ oversized' PROVE waited'[f] <= Cardinality(Behind(f)')
  BY DEF Overtaken
<1> DEFINE U == Behind(f)
           V == Behind(f)'
<1>2. waited \in [Entities -> Nat] /\ accumulator \in [Entities -> Nat] /\ accumulator' \in [Entities -> Nat]
  BY DEF RepTypeOK
<1>3. IsFiniteSet(V) /\ Cardinality(V) \in Nat
  <2>1. V = {g \in Entities : accumulator'[g] < accumulator'[f]} /\ IsFiniteSet(Entities)
    BY ReplicationAssumption DEF Behind
  <2>2. IsFiniteSet(V)
    BY <2>1, FS_Subset
  <2> QED
    BY <2>2, FS_CardinalityType
<1>4. CASE f \notin PendingUpdates(newVis) \ sent
  <2>1. waited'[f] = 0
    BY <1>4 DEF Sends
  <2> QED
    BY <1>3, <2>1
<1>5. CASE f \in PendingUpdates(newVis) \ sent
  <2>1. f \notin oversized /\ f \in PendingUpdates(newVis) \ TooLarge(newVis) /\ f \notin vis \ newVis
    BY <1>1, <1>5 DEF Sends, PendingUpdates
  <2>2. waited'[f] = waited[f] + 1 /\ accumulator'[f] = accumulator[f] + 1
    BY <1>5, <2>1 DEF Sends
  <2>3. PICK g \in sent : accumulator[g] >= accumulator[f]
    BY <2>1 DEF Sends
  <2>4. g \in Entities /\ accumulator'[g] = 0
    BY <2>3 DEF Sends, PendingUpdates
  <2>5. \A h \in Entities : accumulator'[h] <= accumulator[h] + 1
    BY <1>2 DEF Sends
  <2>6. g \notin U /\ U \cup {g} \subseteq V
    BY <1>2, <2>2, <2>3, <2>4, <2>5 DEF Behind
  <2>7. IsFiniteSet(U) /\ Cardinality(U) \in Nat /\ waited[f] <= Cardinality(U)
    BY <2>1, BehindFinite DEF Overtaken
  <2> HIDE DEF U, V
  <2>8. Cardinality(U \cup {g}) = Cardinality(U) + 1
    BY <2>6, <2>7, FS_AddElement
  <2>9. Cardinality(U \cup {g}) <= Cardinality(V)
    BY <1>3, <2>6, FS_Subset
  <2>10. waited[f] + 1 <= Cardinality(V)
    BY <1>2, <1>3, <2>7, <2>8, <2>9
  <2> QED
    BY <2>2, <2>10 DEF V
<1> QED
  BY <1>4, <1>5

-----------------------------------------------------------------------------
(* The inductive invariant of replication.  What the client knows once all *)
(* that is under way has arrived is right: from now on, unless something   *)
(* was lost, and in any case from the next spawn or despawn on.            *)
RepInv == RepTypeOK /\ Overtaken /\ \A e \in Entities \ bare : Following(e)

(* An action that sends nothing and drops nothing. *)
LEMMA QuietStep ==
    ASSUME RepInv, RepTypeOK', UNCHANGED <<accumulator, waited, oversized, wire, replica, lost, bare>>,
           \A e \in Entities \ bare : \A r \in Known : Fits(e, r) => Fits(e, r)'
    PROVE  RepInv'
<1>1. RepTypeOK /\ Overtaken /\ \A e \in Entities \ bare : Following(e)
  BY DEF RepInv
<1>2. Overtaken'
  BY <1>1 DEF Overtaken, Behind
<1>3. ASSUME NEW e \in Entities \ bare PROVE Following(e)'
  <2>1. wire'[e] = wire[e] /\ replica'[e] = replica[e] /\ (e \in lost => e \in lost')
    OBVIOUS
  <2> QED
    BY <1>1, <2>1, FollowingKept
<1> QED
  BY <1>2, <1>3 DEF RepInv

LEMMA TagStep ==
    ASSUME RepInv, NEW e \in Entities, Tag(e)
    PROVE  RepInv'
<1>1. RepTypeOK'
  BY DEF RepInv, RepTypeOK, Tag, sendState
<1>2. UNCHANGED <<accumulator, waited, oversized, wire, replica, lost, bare, vis, comps, changed, ack, hidden>>
  BY DEF Tag, sendState
<1>3. \A d, r : Fits(d, r) => Fits(d, r)'
  BY <1>2 DEF Fits, Present, NeedsSend
<1> QED
  BY <1>1, <1>2, <1>3, QuietStep

LEMMA IncrementStep ==
    ASSUME RepInv, IncrementChangeTick
    PROVE  RepInv'
<1>1. RepTypeOK'
  <2>1. /\ changeTick \in Nat /\ changeTick' = changeTick + 1
        /\ UNCHANGED <<alive, comps, changed, vis, ack, accumulator, waited, wire, replica>>
    BY DEF RepInv, RepTypeOK, IncrementChangeTick, sendState
  <2>2. changeTick' \in Nat /\ 0 .. changeTick \subseteq 0 .. changeTick'
    BY <2>1
  <2> QED
    BY <2>1, <2>2 DEF RepInv, RepTypeOK
<1>2. UNCHANGED <<accumulator, waited, oversized, wire, replica, lost, bare, vis, comps, changed, ack, hidden>>
  BY DEF IncrementChangeTick, sendState
<1>3. \A d, r : Fits(d, r) => Fits(d, r)'
  BY <1>2 DEF Fits, Present, NeedsSend
<1> QED
  BY <1>1, <1>2, <1>3, QuietStep

LEMMA KillStep ==
    ASSUME RepInv, NEW e \in Entities, Kill(e)
    PROVE  RepInv'
<1>1. /\ comps' = [comps EXCEPT ![e] = NoComps] /\ hidden' = {h \in hidden : h[1] # e}
      /\ alive' \subseteq alive
      /\ UNCHANGED <<changeTick, accumulator, waited, oversized, wire, replica, lost, bare, vis, changed, ack>>
  BY DEF Kill, sendState
<1>2. NoComps \in [Comps -> Data]
  BY DEF NoComps, Data
<1>3. RepTypeOK'
  BY <1>1, <1>2 DEF RepInv, RepTypeOK
<1>4. ASSUME NEW d \in Entities, NEW r \in Known, Fits(d, r) PROVE Fits(d, r)'
  <2>1. comps \in [Entities -> [Comps -> Data]]
    BY DEF RepInv, RepTypeOK
  <2>2. CASE d = e
    <3>1. Present(d)' = {}
      BY <1>1, <2>1, <2>2 DEF Present, NoComps
    <3> QED
      BY <1>1, <1>4, <3>1 DEF Fits
  <2>3. CASE d # e
    <3>1. comps'[d] = comps[d] /\ Present(d)' = Present(d)
      BY <1>1, <2>1, <2>3 DEF Present
    <3>2. \A c : <<d, c>> \in hidden => <<d, c>> \in hidden'
      BY <1>1, <2>3
    <3>3. \A t : NeedsSend(d, t)' <=> NeedsSend(d, t)
      BY <1>1 DEF NeedsSend
    <3> QED
      BY <1>1, <1>4, <3>1, <3>2, <3>3 DEF Fits
  <2> QED
    BY <2>2, <2>3
<1> QED
  BY <1>1, <1>3, <1>4, QuietStep

LEMMA StripStep ==
    ASSUME RepInv, NEW e \in Entities, NEW c \in Comps, Strip(e, c)
    PROVE  RepInv'
<1>1. /\ comps' = [comps EXCEPT ![e][c] = 0]
      /\ UNCHANGED <<alive, changeTick, accumulator, waited, oversized, wire, replica, lost, bare, vis, changed, ack, hidden>>
  BY DEF Strip, sendState
<1>2. comps \in [Entities -> [Comps -> Data]]
  BY DEF RepInv, RepTypeOK
<1>3. comps' \in [Entities -> [Comps -> Data]]
  BY <1>1, <1>2 DEF Data
<1>4. RepTypeOK'
  BY <1>1, <1>3 DEF RepInv, RepTypeOK
<1>5. \A d \in Entities, b \in Comps : comps'[d][b] = comps[d][b] \/ comps'[d][b] = 0
  BY <1>1, <1>2
<1>6. ASSUME NEW d \in Entities, NEW r \in Known, Fits(d, r) PROVE Fits(d, r)'
  <2>1. \A b \in Present(d)' : b \in Present(d) /\ comps'[d][b] = comps[d][b]
    BY <1>5 DEF Present
  <2>2. \A t : NeedsSend(d, t)' <=> NeedsSend(d, t)
    BY <1>1 DEF NeedsSend
  <2> QED
    BY <1>1, <1>6, <2>1, <2>2 DEF Fits
<1> QED
  BY <1>1, <1>4, <1>6, QuietStep

LEMMA WriteStep ==
    ASSUME RepInv, NEW e \in Entities, NEW c \in Comps, NEW v \in Values, Write(e, c, v)
    PROVE  RepInv'
<1>1. /\ comps' = [comps EXCEPT ![e][c] = v] /\ changed' = [changed EXCEPT ![e][c] = changeTick]
      /\ hidden' = IF ack[e] = changeTick THEN hidden \cup {<<e, c>>} ELSE hidden \ {<<e, c>>}
      /\ UNCHANGED <<alive, changeTick, accumulator, waited, oversized, wire, replica, lost, bare, vis, ack>>
  BY DEF Write, sendState
<1>2. /\ comps \in [Entities -> [Comps -> Data]] /\ changeTick \in Nat
      /\ changed \in [Entities -> [Comps -> 0 .. changeTick]] /\ ack \in [Entities -> {NoAck} \cup 0 .. changeTick]
  BY DEF RepInv, RepTypeOK
<1>3. comps' \in [Entities -> [Comps -> Data]] /\ changed' \in [Entities -> [Comps -> 0 .. changeTick]]
  <2>1. changeTick \in 0 .. changeTick
    BY <1>2
  <2>2. changed' \in [Entities -> [Comps -> 0 .. changeTick]]
    BY <1>1, <1>2, <2>1
  <2>3. comps' \in [Entities -> [Comps -> Data]]
    BY <1>1, <1>2 DEF Data
  <2> QED
    BY <2>2, <2>3
<1>4. RepTypeOK'
  BY <1>1, <1>3 DEF RepInv, RepTypeOK
<1>5. \A d \in Entities, b \in Comps :
         <<d, b>> # <<e, c>> => /\ comps'[d][b] = comps[d][b] /\ changed'[d][b] = changed[d][b]
                                /\ (<<d, b>> \in hidden => <<d, b>> \in hidden')
  BY <1>1, <1>2
<1>6. changed'[e][c] = changeTick
  BY <1>1, <1>2
<1>7. ack[e] = NoAck \/ changeTick > ack[e] \/ <<e, c>> \in hidden'
  <2>1. CASE ack[e] = changeTick
    BY <1>1, <2>1
  <2>2. CASE ack[e] # changeTick
    <3>1. ack[e] \in {NoAck} \cup 0 .. changeTick
      BY <1>2
    <3>2. CASE ack[e] = NoAck
      BY <3>2
    <3>3. CASE ack[e] \in 0 .. changeTick
      BY <1>2, <2>2, <3>3
    <3> QED
      BY <3>1, <3>2, <3>3
  <2> QED
    BY <2>1, <2>2
<1>8. ASSUME NEW d \in Entities, NEW r \in Known, Fits(d, r) PROVE Fits(d, r)'
  <2>2. CASE d \notin vis
    BY <1>1, <1>8, <2>2 DEF Fits
  <2>3. CASE d \in vis
    <3>1. r # Absent /\ \A b \in Present(d) : r[b] = comps[d][b] \/ NeedsSend(d, changed[d][b]) \/ <<d, b>> \in hidden
      BY <1>8, <2>3 DEF Fits
    <3>2. ASSUME NEW b \in Present(d)'
          PROVE  r[b] = comps'[d][b] \/ ack[d] = NoAck \/ changed'[d][b] > ack[d] \/ <<d, b>> \in hidden'
      <4>1. b \in Comps /\ comps'[d][b] # 0
        BY <3>2 DEF Present
      <4>2. CASE <<d, b>> = <<e, c>>
        <5>1. d = e /\ b = c
          BY <4>2
        <5> QED
          BY <1>6, <1>7, <5>1
      <4>3. CASE <<d, b>> # <<e, c>>
        <5>1. b \in Present(d)
          BY <1>5, <4>1, <4>3 DEF Present
        <5>2. r[b] = comps[d][b] \/ ack[d] = NoAck \/ changed[d][b] > ack[d] \/ <<d, b>> \in hidden
          BY <3>1, <5>1 DEF NeedsSend
        <5>3. comps'[d][b] = comps[d][b] /\ changed'[d][b] = changed[d][b] /\ (<<d, b>> \in hidden => <<d, b>> \in hidden')
          BY <1>5, <4>1, <4>3
        <5> QED
          BY <5>2, <5>3
      <4> QED
        BY <4>2, <4>3
    <3> QED
      BY <1>1, <2>3, <3>1, <3>2 DEF Fits, NeedsSend
  <2> QED
    BY <2>2, <2>3
<1> QED
  BY <1>1, <1>4, <1>8, QuietStep
-----------------------------------------------------------------------------
LEMMA MergedPresent ==
    ASSUME NEW old, NEW data, Comps # {}
    PROVE  Merged(old, data) # Absent
<1>1. DOMAIN Merged(old, data) = Comps
  BY DEF Merged
<1>2. DOMAIN Absent = {}
  BY DEF Absent
<1> QED
  BY <1>1, <1>2

LEMMA ToldSent ==
    ASSUME RepTypeOK, NEW e \in Entities
    PROVE  /\ Message(e, "spawn", Present(e)) \in Told /\ Message(e, "despawn", {}) \in Told
           /\ Message(e, "update", ChangedComponents(e)) \in Told
<1>1. ASSUME NEW kind \in {"spawn", "despawn", "update"}, NEW cs \in SUBSET Comps PROVE Message(e, kind, cs) \in Told
  <2>1. [c \in cs |-> comps[e][c]] \in [cs -> Data]
    BY DEF RepTypeOK
  <2> QED
    BY <2>1 DEF Message, Told
<1>2. Present(e) \subseteq Comps /\ ChangedComponents(e) \subseteq Comps
  BY DEF ChangedComponents, Present
<1> QED
  BY <1>1, <1>2

LEMMA SendTypeOK ==
    ASSUME RepTypeOK, NEW newVis \in SUBSET Entities, NEW sent \in SUBSET PendingUpdates(newVis), Sends(newVis, sent)
    PROVE  RepTypeOK'
<1>1. /\ vis' = newVis /\ UNCHANGED <<alive, comps, changed, changeTick, replica>>
  BY DEF Sends, serverWorld
<1>2. waited' \in [Entities -> Nat] /\ accumulator' \in [Entities -> Nat]
  <2>1. waited \in [Entities -> Nat] /\ accumulator \in [Entities -> Nat]
    BY DEF RepTypeOK
  <2> QED
    BY <2>1 DEF Sends
<1>3. ack' \in [Entities -> {NoAck} \cup 0 .. changeTick]
  <2>1. changeTick \in 0 .. changeTick /\ ack \in [Entities -> {NoAck} \cup 0 .. changeTick]
    BY DEF RepTypeOK
  <2> QED
    BY <2>1 DEF Sends
<1>4. wire' \in [Entities -> Seq(Told)]
  <2>1. ASSUME NEW e \in Entities PROVE wire[e] \o Queued(e, Spawned(newVis), vis \ newVis, sent) \in Seq(Told)
    <3>1. Queued(e, Spawned(newVis), vis \ newVis, sent) \in Seq(Told)
      BY ToldSent DEF Queued
    <3> QED
      BY <3>1 DEF RepTypeOK
  <2> QED
    BY <2>1 DEF Sends
<1> QED
  BY <1>1, <1>2, <1>3, <1>4 DEF RepTypeOK

LEMMA SendStep ==
    ASSUME RepInv, NEW newVis \in SUBSET Entities, Send(newVis)
    PROVE  RepInv'
<1>1. RepTypeOK /\ Overtaken /\ \A e \in Entities \ bare : Following(e)
  BY DEF RepInv
<1>2. PICK sent \in SUBSET PendingUpdates(newVis) : Sends(newVis, sent)
  BY <1>1, SendMeans
<1>3. RepTypeOK' /\ Overtaken'
  <2>1. RepTypeOK'
    BY <1>1, <1>2, SendTypeOK
  <2> QED
    BY <1>1, <1>2, <2>1, SendFair
<1>4. /\ vis' = newVis /\ UNCHANGED <<comps, changed, replica, lost>>
      /\ bare' = (bare \cup ((newVis \ vis) \ Spawned(newVis))) \ (vis \ newVis)
      /\ hidden' = {h \in hidden : h[1] \notin Spawned(newVis) \cup (vis \ newVis)}
  BY <1>2 DEF Sends, serverWorld
<1>5. \A e \in Entities :
         /\ wire'[e] = wire[e] \o Queued(e, Spawned(newVis), vis \ newVis, sent)
         /\ ack'[e] = IF e \in vis \ newVis THEN NoAck ELSE IF e \in Spawned(newVis) \cup sent THEN changeTick ELSE ack[e]
  BY <1>2 DEF Sends
<1>6. ASSUME NEW e \in Entities \ bare' PROVE Following(e)'
  <2>1. wire[e] \in Seq(Told) /\ replica'[e] = replica[e] /\ lost' = lost
    BY <1>1, <1>4 DEF RepTypeOK
  <2>2. comps[e] \in [Comps -> Data]
    BY <1>1 DEF RepTypeOK
  <2>3. CASE e \in Spawned(newVis)
    <3> DEFINE m == Message(e, "spawn", Present(e))
    <3>1. m \in Told /\ m.kind = "spawn" /\ m.data = [c \in Present(e) |-> comps[e][c]]
      BY <2>2, <1>1, ToldSent DEF Message
    <3>2. e \in newVis /\ e \notin vis \ newVis /\ Present(e) # {} /\ Present(e) \subseteq Comps
      BY <2>3 DEF Spawned, Present
    <3>3. wire'[e] = Append(wire[e], m)
      <4>1. Queued(e, Spawned(newVis), vis \ newVis, sent) = <<m>>
        BY <2>3, <3>2 DEF Queued, Spawned, PendingUpdates
      <4>2. wire'[e] = wire[e] \o Queued(e, Spawned(newVis), vis \ newVis, sent)
        BY <1>5
      <4> HIDE DEF m
      <4>3. Append(wire[e], m) = wire[e] \o <<m>>
        BY <2>1, <3>1, AppendIsConcat
      <4> QED
        BY <4>1, <4>2, <4>3
    <3> HIDE DEF m
    <3>4. ASSUME NEW r \in Known, NEW s \in Known, s = Applied(m, r) PROVE Fits(e, s)'
      <4>1. s = Merged(IF r = Absent THEN NoComps ELSE r, m.data)
        BY <3>1, <3>4 DEF Applied
      <4>2. s # Absent
        BY <3>2, <4>1, MergedPresent
      <4>3. \A c \in Present(e) : s[c] = comps[e][c]
        BY <3>1, <3>2, <4>1 DEF Merged
      <4>4. Present(e)' = Present(e)
        BY <1>4 DEF Present
      <4> QED
        BY <1>4, <3>2, <4>2, <4>3, <4>4 DEF Fits
    <3>5. Resets(m)
      BY <3>1 DEF Resets
    <3> QED
      BY <1>1, <2>1, <3>1, <3>3, <3>4, <3>5, FollowingSent
  <2>4. CASE e \in vis \ newVis
    <3> DEFINE m == Message(e, "despawn", {})
    <3>1. m \in Told /\ m.kind = "despawn"
      BY <1>1, ToldSent DEF Message
    <3>2. wire'[e] = Append(wire[e], m)
      <4>1. Queued(e, Spawned(newVis), vis \ newVis, sent) = <<m>>
        BY <2>4 DEF Queued, Spawned, PendingUpdates
      <4>2. wire'[e] = wire[e] \o Queued(e, Spawned(newVis), vis \ newVis, sent)
        BY <1>5
      <4> HIDE DEF m
      <4>3. Append(wire[e], m) = wire[e] \o <<m>>
        BY <2>1, <3>1, AppendIsConcat
      <4> QED
        BY <4>1, <4>2, <4>3
    <3> HIDE DEF m
    <3>3. ASSUME NEW r \in Known, NEW s \in Known, s = Applied(m, r) PROVE Fits(e, s)'
      BY <1>4, <2>4, <3>1, <3>3 DEF Fits, Applied
    <3>4. Resets(m)
      BY <3>1 DEF Resets
    <3> QED
      BY <1>1, <2>1, <3>1, <3>2, <3>3, <3>4, FollowingSent
  <2>5. CASE e \in sent
    <3> DEFINE m == Message(e, "update", ChangedComponents(e))
    <3>1. e \in newVis /\ e \in vis /\ ChangedComponents(e) # {} /\ e \notin Spawned(newVis) /\ ChangedComponents(e) \subseteq Comps
      BY <2>5 DEF PendingUpdates, Spawned, ChangedComponents, Present
    <3>2. m \in Told /\ m.kind = "update" /\ m.data = [c \in ChangedComponents(e) |-> comps[e][c]]
      BY <1>1, ToldSent DEF Message
    <3>3. wire'[e] = Append(wire[e], m)
      <4>1. Queued(e, Spawned(newVis), vis \ newVis, sent) = <<m>>
        BY <2>5, <3>1 DEF Queued
      <4>2. wire'[e] = wire[e] \o Queued(e, Spawned(newVis), vis \ newVis, sent)
        BY <1>5
      <4> HIDE DEF m
      <4>3. Append(wire[e], m) = wire[e] \o <<m>>
        BY <2>1, <3>2, AppendIsConcat
      <4> QED
        BY <4>1, <4>2, <4>3
    <3> HIDE DEF m
    <3>4. ASSUME NEW r \in Known, NEW s \in Known, s = Applied(m, r), Fits(e, r) PROVE Fits(e, s)'
      <4>1. r # Absent /\ \A c \in Present(e) :
                r[c] = comps[e][c] \/ NeedsSend(e, changed[e][c]) \/ <<e, c>> \in hidden
        BY <3>1, <3>4 DEF Fits
      <4>2. s = Merged(r, m.data)
        BY <3>2, <3>4, <4>1 DEF Applied
      <4>3. s # Absent
        BY <3>1, <4>2, MergedPresent
      <4>4. ASSUME NEW c \in Present(e) PROVE s[c] = comps[e][c] \/ <<e, c>> \in hidden'
        <5>1. c \in Comps
          BY DEF Present
        <5>2. CASE c \in ChangedComponents(e)
          BY <3>2, <4>2, <5>1, <5>2 DEF Merged
        <5>3. CASE c \notin ChangedComponents(e)
          <6>1. s[c] = r[c]
            BY <3>2, <4>2, <5>1, <5>3 DEF Merged
          <6>2. r[c] = comps[e][c] \/ <<e, c>> \in hidden
            BY <4>1, <5>3 DEF ChangedComponents
          <6> QED
            BY <1>4, <3>1, <6>1, <6>2
        <5> QED
          BY <5>2, <5>3
      <4>5. Present(e)' = Present(e)
        BY <1>4 DEF Present
      <4> QED
        BY <1>4, <3>1, <4>3, <4>4, <4>5 DEF Fits
    <3>5. ~Resets(m)
      BY <3>2 DEF Resets
    <3>6. Following(e)
      BY <1>1, <1>4, <3>1
    <3> QED
      BY <1>1, <2>1, <3>2, <3>3, <3>4, <3>5, <3>6, FollowingSent
  <2>6. CASE e \notin Spawned(newVis) \cup (vis \ newVis) \cup sent
    <3>1. wire'[e] = wire[e] /\ ack'[e] = ack[e]
      <4>1. Queued(e, Spawned(newVis), vis \ newVis, sent) = <<>>
        BY <2>6 DEF Queued
      <4> QED
        BY <1>5, <2>1, <2>6, <4>1, ConcatEmptySeq
    <3>2. e \notin bare /\ (e \in vis' <=> e \in vis)
      BY <1>4, <2>6
    <3>3. ASSUME NEW r \in Known, Fits(e, r) PROVE Fits(e, r)'
      <4>1. Present(e)' = Present(e) /\ comps'[e] = comps[e] /\ changed'[e] = changed[e]
        BY <1>4 DEF Present
      <4>2. \A c : <<e, c>> \in hidden => <<e, c>> \in hidden'
        BY <1>4, <2>6
      <4> QED
        BY <3>1, <3>2, <3>3, <4>1, <4>2 DEF Fits, NeedsSend
    <3> QED
      BY <1>1, <2>1, <3>1, <3>2, <3>3, FollowingKept
  <2> QED
    BY <2>3, <2>4, <2>5, <2>6
<1> QED
  BY <1>3, <1>6 DEF RepInv

-----------------------------------------------------------------------------
(* One message about e has arrived or is gone.                             *)
LEMMA TakenStep ==
    ASSUME RepInv, NEW e \in Entities, wire[e] # <<>>, wire' = [wire EXCEPT ![e] = Tail(@)],
           UNCHANGED <<serverWorld, sendState, bare, hidden>>,
           replica' \in [Entities -> Known], \A d \in Entities \ {e} : replica'[d] = replica[d] /\ (d \in lost => d \in lost'),
           \/ e \in lost'
           \/ replica'[e] = Applied(Head(wire[e]), replica[e]) /\ (e \notin lost \/ Resets(Head(wire[e])))
    PROVE  RepInv'
<1>1. RepTypeOK /\ Overtaken /\ \A d \in Entities \ bare : Following(d)
  BY DEF RepInv
<1>2. UNCHANGED <<alive, comps, changed, changeTick, vis, ack, accumulator, waited, oversized, bare, hidden>>
  BY DEF serverWorld, sendState
<1>3. wire \in [Entities -> Seq(Told)]
  BY <1>1 DEF RepTypeOK
<1>4. wire'[e] = Tail(wire[e]) /\ \A d \in Entities \ {e} : wire'[d] = wire[d]
  BY <1>3
<1>5. RepTypeOK'
  <2>1. Tail(wire[e]) \in Seq(Told)
    BY <1>3
  <2>2. wire' \in [Entities -> Seq(Told)]
    BY <1>3, <2>1
  <2> QED
    BY <1>1, <1>2, <2>2 DEF RepTypeOK
<1>6. Overtaken'
  BY <1>1, <1>2 DEF Overtaken, Behind
<1>7. \A d, r : Fits(d, r) => Fits(d, r)'
  BY <1>2 DEF Fits, Present, NeedsSend
<1>8. ASSUME NEW d \in Entities \ bare' PROVE Following(d)'
  <2>1. Following(d)
    BY <1>1, <1>2
  <2>2. CASE d = e
    BY <1>1, <1>4, <1>7, <2>1, <2>2, FollowingTaken
  <2>3. CASE d # e
    BY <1>1, <1>4, <1>7, <2>1, <2>3, FollowingKept
  <2> QED
    BY <2>2, <2>3
<1> QED
  BY <1>5, <1>6, <1>8 DEF RepInv

LEMMA ApplyStep ==
    ASSUME RepInv, NEW e \in Entities, ApplyMessage(e)
    PROVE  RepInv'
<1> DEFINE m == Head(wire[e])
<1>1. /\ wire[e] # <<>> /\ wire' = [wire EXCEPT ![e] = Tail(@)]
      /\ UNCHANGED <<serverWorld, sendState, bare, hidden>>
  BY DEF ApplyMessage
<1>2. m \in Told /\ replica \in [Entities -> Known]
  <2>1. wire[e] \in Seq(Told) /\ replica \in [Entities -> Known]
    BY DEF RepInv, RepTypeOK
  <2> QED
    BY <1>1, <2>1
<1>3. m.kind \in {"spawn", "despawn", "update"}
  BY <1>2 DEF Told
<1>4. replica' = [replica EXCEPT ![e] = Applied(m, @)]
  BY <1>3 DEF ApplyMessage, Applied
<1>5. lost' = IF Resets(m) THEN lost \ {e} ELSE lost
  BY <1>3 DEF ApplyMessage, Resets
<1>6. Applied(m, replica[e]) \in Known
  BY <1>2, AppliedKnown
<1> HIDE DEF m
<1>7. replica' \in [Entities -> Known] /\ replica'[e] = Applied(m, replica[e])
  BY <1>2, <1>4, <1>6
<1>8. \A d \in Entities \ {e} : replica'[d] = replica[d] /\ (d \in lost => d \in lost')
  BY <1>2, <1>4, <1>5
<1>9. e \in lost' \/ e \notin lost \/ Resets(m)
  BY <1>5
<1> QED
  BY <1>1, <1>7, <1>8, <1>9, TakenStep DEF m

LEMMA LoseStep ==
    ASSUME RepInv, NEW e \in Entities, Lose(e)
    PROVE  RepInv'
<1>1. /\ wire[e] # <<>> /\ wire' = [wire EXCEPT ![e] = Tail(@)] /\ lost' = lost \cup {e} /\ replica' = replica
      /\ UNCHANGED <<serverWorld, sendState, bare, hidden>>
  BY DEF Lose
<1>2. replica' \in [Entities -> Known]
  BY <1>1 DEF RepInv, RepTypeOK
<1> QED
  BY <1>1, <1>2, TakenStep

(* A new connection has nothing under way and shows nothing.               *)
Fresh ==
    /\ RepTypeOK /\ vis = {} /\ waited = [e \in Entities |-> 0] /\ wire = [e \in Entities |-> <<>>]
    /\ \A e \in Entities : e \in lost \/ replica[e] = Absent

LEMMA FreshSound == Fresh => RepInv
<1> SUFFICES ASSUME Fresh PROVE RepInv
  OBVIOUS
<1>1. Overtaken
  <2>1. ASSUME NEW f \in Entities PROVE waited[f] <= Cardinality(Behind(f))
    <3>1. waited[f] = 0 /\ Cardinality(Behind(f)) \in Nat
      BY BehindFinite DEF Fresh
    <3> QED
      BY <3>1
  <2> QED
    BY <2>1 DEF Overtaken
<1>2. ASSUME NEW e \in Entities PROVE Following(e)
  <2>1. Len(wire[e]) = 0
    BY DEF Fresh
  <2>2. ASSUME NEW k \in 1 .. 0 + 1, NEW f, NEW r, From(e, k, f[k - 1]), r = f[0] PROVE Fits(e, r)
    <3>1. k = 1 /\ ~(k <= Len(wire[e])) /\ k - 1 = 0
      BY <2>1, <2>2
    <3>2. r = replica[e] /\ e \notin lost
      BY <2>2, <3>1 DEF From
    <3> QED
      BY <3>2 DEF Fits, Fresh
  <2> QED
    BY <2>1, <2>2 DEF Following
<1> QED
  BY <1>1, <1>2 DEF RepInv, Fresh

LEMMA ReplicaInit == ReplicationInit => Fresh
<1> SUFFICES ASSUME ReplicationInit PROVE Fresh
  OBVIOUS
<1>1. NoComps \in [Comps -> Data] /\ NoComps \in [Comps -> 0 .. 0]
  BY DEF NoComps, Data
<1>2. <<>> \in Seq(Told) /\ Absent \in Known
  BY DEF Known
<1> QED
  BY <1>1, <1>2 DEF Fresh, RepTypeOK, ReplicationInit, NoAcks

LEMMA ReconnectStep ==
    ASSUME RepInv, Reconnect
    PROVE  RepInv'
<1>1. Fresh'
  <2>1. <<>> \in Seq(Told)
    OBVIOUS
  <2>2. /\ vis' = {} /\ ack' = NoAcks /\ accumulator' = [e \in Entities |-> 0] /\ waited' = accumulator'
        /\ wire' = [e \in Entities |-> <<>>] /\ lost' = {e \in Entities : replica[e] # Absent}
        /\ UNCHANGED <<alive, comps, changed, changeTick, replica>>
    BY DEF Reconnect, serverWorld
  <2>3. RepTypeOK'
    BY <2>1, <2>2 DEF RepInv, RepTypeOK, NoAcks
  <2> QED
    BY <2>2, <2>3 DEF Fresh
<1>2. RepInv'
  BY <1>1, FreshSound, PTL
<1> QED
  BY <1>2

LEMMA ReplicaStep == RepInv /\ [ReplicationNext]_replicationVars => RepInv'
<1> SUFFICES ASSUME RepInv, [ReplicationNext]_replicationVars PROVE RepInv'
  OBVIOUS
<1>1. ASSUME NEW e \in Entities, Tag(e) \/ Kill(e) \/ ApplyMessage(e) \/ Lose(e) PROVE RepInv'
  BY <1>1, TagStep, KillStep, ApplyStep, LoseStep
<1>2. ASSUME NEW e \in Entities, NEW c \in Comps, Strip(e, c) \/ \E v \in Values : Write(e, c, v) PROVE RepInv'
  BY <1>2, StripStep, WriteStep
<1>3. CASE IncrementChangeTick
  BY <1>3, IncrementStep
<1>4. ASSUME NEW newVis \in SUBSET Entities, Send(newVis) PROVE RepInv'
  BY <1>4, SendStep
<1>5. CASE Reconnect
  BY <1>5, ReconnectStep
<1>6. CASE UNCHANGED replicationVars
  <2>1. UNCHANGED <<alive, comps, changed, changeTick, vis, ack, accumulator, waited, oversized, wire, replica, lost, bare, hidden>>
    BY <1>6 DEF replicationVars
  <2>2. RepTypeOK'
    BY <2>1 DEF RepInv, RepTypeOK
  <2>3. \A d, r : Fits(d, r) => Fits(d, r)'
    BY <2>1 DEF Fits, Present, NeedsSend
  <2> QED
    BY <2>1, <2>2, <2>3, QuietStep
<1> QED
  BY <1>1, <1>2, <1>3, <1>4, <1>5, <1>6 DEF ReplicationNext

(* net/replication.  Replayed over what the client knows, or from its next *)
(* spawn or despawn on, all that is under way gives what the client can    *)
(* see; and an update that waits has sent as many others behind it.        *)
THEOREM ReplicaInvariant == ReplicationSpec => []RepInv
<1>1. ReplicationInit => RepInv
  BY ReplicaInit, FreshSound
<1> QED
  BY <1>1, ReplicaStep, PTL DEF ReplicationSpec

LEMMA ReplicaMeans == RepInv => ReplicaSound
<1> SUFFICES ASSUME RepInv PROVE ReplicaSound
  OBVIOUS
<1>1. Synced
  <2>1. ASSUME NEW e \in Entities \ (lost \cup bare), wire[e] = <<>> PROVE Fits(e, replica[e])
    <3>1. Following(e) /\ replica[e] \in Known
      BY DEF RepInv, RepTypeOK
    <3>2. Len(wire[e]) = 0
      BY <2>1
    <3> DEFINE f == [j \in 0 .. 0 |-> replica[e]]
    <3>3. f \in [0 .. 0 -> Known] /\ f[0] = replica[e]
      BY <3>1
    <3> HIDE DEF f
    <3>4. Replay(wire[e], 1, f)
      BY <3>2, <3>3 DEF Replay
    <3>5. From(e, 1, f[1 - 1])
      BY <2>1, <3>3 DEF From
    <3>6. 1 \in 1 .. Len(wire[e]) + 1
      BY <3>2
    <3> QED
      BY <3>1, <3>2, <3>3, <3>4, <3>5, <3>6 DEF Following
  <2> QED
    BY <2>1 DEF Synced, Fits
<1>2. NoStarvation
  <2>1. ASSUME NEW e \in Entities \ oversized PROVE waited[e] < Cardinality(Entities)
    <3>1. waited[e] \in Nat /\ waited[e] <= Cardinality(Behind(e))
      BY DEF RepInv, RepTypeOK, Overtaken
    <3>2. /\ Cardinality(Behind(e)) \in Nat /\ Cardinality(Entities) \in Nat
          /\ Cardinality(Behind(e)) < Cardinality(Entities)
      BY BehindFinite DEF RepInv
    <3> QED
      BY <3>1, <3>2
  <2> QED
    BY <2>1 DEF NoStarvation
<1> QED
  BY <1>1, <1>2 DEF ReplicaSound

(* net/replication.  With nothing under way the client has the entities it *)
(* can see, with the server's values, unless something was lost; and the   *)
(* budget starves no update that it has room for.                          *)
THEOREM ReplicaSoundHolds == ReplicationSpec => []ReplicaSound
  BY ReplicaInvariant, ReplicaMeans, PTL

-----------------------------------------------------------------------------
(* Rpc. *)

(* The arguments.  For every limit that was ever asked there is a span of  *)
(* time, from a verdict at which its bucket was full, over which what was  *)
(* used and what is left are exactly what was granted; over no span are    *)
(* they more (BucketSound).  So a token is there only if no span forbids   *)
(* it, and is missing only if that span does.                              *)
LimitKey == DOMAIN TypeRate \cup {"global"}
Verdict == [key : LimitKey, at : Nat, ok : BOOLEAN]
Bucket == [tokens : Nat, lastRefill : Nat]
RpcState ==
    [buckets : UNION {[D -> Bucket] : D \in SUBSET (Connection \X LimitKey)}, drops : [Connection -> Nat],
     dispatched : [Connection -> Seq(Nat)], verdicts : [Connection -> Seq(Verdict)]]
RpcMessage == [type : RpcType \cup {"unknown"}, number : Nat, whole : BOOLEAN]

Of(log, key) == {i \in DOMAIN log : log[i].key = key}
Uses(log, key, i) == {k \in DOMAIN log : log[k].key = key /\ k >= i /\ log[k].ok}
Spent(log, key, i) == Cardinality(Uses(log, key, i)) * Resolution
GrantedFor(key, from, to) == Capacity(key) + (to - from) * Rate(key)
Admitted(log) == {i \in DOMAIN log : log[i].ok}

LEMMA RateType ==
    ASSUME NEW key \in LimitKey
    PROVE  Rate(key) \in Nat /\ Capacity(key) \in Nat /\ Resolution \in Nat /\ Resolution > 0
<1>1. Rate(key) \in Nat /\ Resolution \in Nat /\ Resolution > 0
  BY RpcAssumption DEF Rate, LimitKey
<1> QED
  BY <1>1 DEF Capacity

LEMMA UsesFinite ==
    ASSUME NEW log \in Seq(Verdict), NEW key, NEW i
    PROVE  IsFiniteSet(Uses(log, key, i)) /\ Cardinality(Uses(log, key, i)) \in Nat
<1>1. DOMAIN log = 1 .. Len(log) /\ Len(log) \in Nat
  OBVIOUS
<1>2. Uses(log, key, i) \subseteq 1 .. Len(log)
  BY <1>1 DEF Uses
<1>3. IsFiniteSet(1 .. Len(log))
  BY <1>1, FS_Interval
<1>4. IsFiniteSet(Uses(log, key, i))
  BY <1>2, <1>3, FS_Subset
<1> QED
  BY <1>4, FS_CardinalityType

LEMMA UsesAppend ==
    ASSUME NEW log \in Seq(Verdict), NEW v \in Verdict, NEW key, NEW i \in 1 .. Len(log) + 1
    PROVE  Cardinality(Uses(Append(log, v), key, i)) =
               Cardinality(Uses(log, key, i)) + (IF v.key = key /\ v.ok THEN 1 ELSE 0)
<1> DEFINE n == Len(log) + 1
           next == Append(log, v)
<1>1. n \in Nat /\ DOMAIN log = 1 .. n - 1 /\ DOMAIN next = 1 .. n /\ next[n] = v /\ \A k \in 1 .. n - 1 : next[k] = log[k]
  OBVIOUS
<1> HIDE DEF n, next
<1>2. i \in 1 .. n /\ n \notin Uses(log, key, i)
  BY <1>1 DEF n, Uses
<1>3. \A k \in 1 .. n : k = n \/ k \in 1 .. n - 1
  BY <1>1
<1>4. \A k \in 1 .. n - 1 : k \in 1 .. n
  BY <1>1
<1>5. n \in 1 .. n /\ n >= i
  BY <1>1, <1>2
<1>6. Uses(next, key, i) = Uses(log, key, i) \cup (IF v.key = key /\ v.ok THEN {n} ELSE {})
  BY <1>1, <1>3, <1>4, <1>5 DEF Uses
<1>7. IsFiniteSet(Uses(log, key, i)) /\ Cardinality(Uses(log, key, i)) \in Nat
  BY UsesFinite
<1>8. CASE v.key = key /\ v.ok
  <2>1. Uses(next, key, i) = Uses(log, key, i) \cup {n}
    BY <1>6, <1>8
  <2>2. Cardinality(Uses(log, key, i) \cup {n}) = Cardinality(Uses(log, key, i)) + 1
    BY <1>2, <1>7, FS_AddElement
  <2> QED
    BY <1>8, <2>1, <2>2 DEF next
<1>9. CASE ~(v.key = key /\ v.ok)
  <2>1. Uses(next, key, i) = Uses(log, key, i)
    BY <1>6, <1>9
  <2> QED
    BY <1>7, <1>9, <2>1 DEF next
<1> QED
  BY <1>8, <1>9

LEMMA LogInterval ==
    ASSUME NEW log \in Seq(Verdict), NEW n, n = Len(log) + 1
    PROVE  n \in 1 .. n /\ \A k : (k \in 1 .. n <=> k = n \/ k \in 1 .. n - 1)
  OBVIOUS

LEMMA LastUses ==
    ASSUME NEW log \in Seq(Verdict), NEW key
    PROVE  Uses(log, key, Len(log) + 1) = {}
<1>1. Len(log) \in Nat /\ DOMAIN log = 1 .. Len(log) /\ \A k \in 1 .. Len(log) : ~(k >= Len(log) + 1)
  OBVIOUS
<1> QED
  BY <1>1 DEF Uses

(* Of a longer log, only the new verdict has to be looked at.              *)
LEMMA BudgetAppend ==
    ASSUME NEW log \in Seq(Verdict), NEW v \in Verdict, BudgetExact(log), NEW next, next = Append(log, v),
           v.ok => \A i \in Of(next, v.key) : Spent(next, v.key, i) <= GrantedFor(v.key, next[i].at, v.at),
           ~v.ok => \E i \in Of(next, v.key) : Spent(next, v.key, i) + Resolution > GrantedFor(v.key, next[i].at, v.at)
    PROVE  BudgetExact(next)
<1> DEFINE n == Len(log) + 1
           spans(l, j) == {i \in 1 .. j : l[i].key = l[j].key}
           used(l, j, i) == Cardinality({k \in spans(l, j) : k >= i /\ l[k].ok}) * Resolution
           granted(l, j, i) == Capacity(l[j].key) + (l[j].at - l[i].at) * Rate(l[j].key)
           Exact(l, j) == IF l[j].ok THEN \A i \in spans(l, j) : used(l, j, i) <= granted(l, j, i)
                          ELSE \E i \in spans(l, j) : used(l, j, i) + Resolution > granted(l, j, i)
<1>1. n \in Nat /\ DOMAIN log = 1 .. n - 1 /\ DOMAIN next = 1 .. n /\ next[n] = v /\ \A k \in 1 .. n - 1 : next[k] = log[k]
  OBVIOUS
<1> HIDE DEF n
<1>2. \A j \in DOMAIN log : Exact(log, j)
  BY DEF BudgetExact
<1>3. ASSUME NEW j \in 1 .. n PROVE Exact(next, j)
  <2>1. CASE j = n
    <3>1. spans(next, j) = Of(next, v.key)
      BY <1>1, <2>1 DEF Of
    <3>2. \A i : used(next, j, i) = Spent(next, v.key, i)
      <4>1. ASSUME NEW i PROVE {k \in spans(next, j) : k >= i /\ next[k].ok} = Uses(next, v.key, i)
        BY <3>1 DEF Of, Uses
      <4> QED
        BY <4>1 DEF Spent
    <3>3. \A i : granted(next, j, i) = GrantedFor(v.key, next[i].at, v.at)
      BY <1>1, <2>1 DEF GrantedFor
    <3>4. next[j].ok = v.ok
      BY <1>1, <2>1
    <3> HIDE DEF spans, used, granted
    <3> QED
      BY <3>1, <3>2, <3>3, <3>4
  <2>2. CASE j # n
    <3>1. j \in 1 .. n - 1 /\ \A k \in 1 .. j : k \in 1 .. n - 1
      BY <1>1, <2>2
    <3>2. next[j] = log[j] /\ \A k \in 1 .. j : next[k] = log[k]
      BY <1>1, <3>1
    <3>3. spans(next, j) = spans(log, j)
      BY <3>2
    <3>4. \A i : used(next, j, i) = used(log, j, i)
      <4>1. ASSUME NEW i
            PROVE {k \in spans(next, j) : k >= i /\ next[k].ok} = {k \in spans(log, j) : k >= i /\ log[k].ok}
        BY <3>2
      <4> QED
        BY <4>1
    <3>5. \A i \in spans(log, j) : granted(next, j, i) = granted(log, j, i)
      BY <3>2
    <3>6. Exact(log, j)
      BY <1>1, <1>2, <3>1
    <3> HIDE DEF spans, used, granted
    <3> QED
      BY <3>2, <3>3, <3>4, <3>5, <3>6
  <2> QED
    BY <2>1, <2>2
<1>4. \A j \in DOMAIN next : Exact(next, j)
  <2> HIDE DEF Exact
  <2> QED
    BY <1>1, <1>3
<1> QED
  BY <1>4 DEF BudgetExact

-----------------------------------------------------------------------------
(* What the bucket b of a limit says of the limit's verdicts.              *)
BucketSound(log, key, b) ==
    /\ b.lastRefill <= now
    /\ \A i \in Of(log, key) : /\ log[i].at <= b.lastRefill
                               /\ Spent(log, key, i) + b.tokens <= GrantedFor(key, log[i].at, b.lastRefill)
    /\ \E i \in Of(log, key) : Spent(log, key, i) + b.tokens = GrantedFor(key, log[i].at, b.lastRefill)

LEMMA Distributes ==
    ASSUME NEW a \in Nat, NEW b \in Nat, NEW c \in Nat, NEW r \in Nat, a <= b, b <= c
    PROVE  /\ (b - a) * r + (c - b) * r = (c - a) * r
           /\ (b - a) * r \in Nat /\ (c - b) * r \in Nat /\ (c - a) * r \in Nat
<1>1. PICK x \in Nat : b = a + x
  <2>1. b - a \in Nat /\ b = a + (b - a)
    OBVIOUS
  <2> QED
    BY <2>1
<1>2. PICK y \in Nat : c = b + y
  <2>1. c - b \in Nat /\ c = b + (c - b)
    OBVIOUS
  <2> QED
    BY <2>1
<1>3. b - a = x /\ c - b = y /\ c - a = x + y
  BY <1>1, <1>2
<1>4. x * r + y * r = (x + y) * r /\ x * r \in Nat /\ y * r \in Nat
  OBVIOUS
<1>5. (x + y) * r \in Nat
  OBVIOUS
<1> QED
  BY <1>3, <1>4, <1>5

(* One Allow of a limit: t tokens are there, one is taken if it can be.    *)
There(log, key, t) ==
    /\ t <= Capacity(key)
    /\ \A i \in Of(log, key) : log[i].at <= now /\ Spent(log, key, i) + t <= GrantedFor(key, log[i].at, now)
    /\ t = Capacity(key) \/ \E i \in Of(log, key) : Spent(log, key, i) + t = GrantedFor(key, log[i].at, now)

Logged(log, key, t) == Append(log, [key |-> key, at |-> now, ok |-> t >= Resolution])
Left(t) == [tokens |-> IF t >= Resolution THEN t - Resolution ELSE t, lastRefill |-> now]

LEMMA AllowSound ==
    ASSUME NEW log \in Seq(Verdict), NEW key \in LimitKey, now \in Nat, BudgetExact(log), NEW t \in Nat, There(log, key, t)
    PROVE  Left(t) \in Bucket /\ BucketSound(Logged(log, key, t), key, Left(t)) /\ BudgetExact(Logged(log, key, t))
<1> DEFINE ok == t >= Resolution
           next == Logged(log, key, t)
           b == Left(t)
           v == [key |-> key, at |-> now, ok |-> ok]
           n == Len(log) + 1
<1>1. v \in Verdict /\ v.key = key /\ v.at = now /\ v.ok = ok /\ next = Append(log, v) /\ ok \in BOOLEAN
  BY DEF Verdict, Logged
<1>20. b = [tokens |-> IF ok THEN t - Resolution ELSE t, lastRefill |-> now]
  BY DEF Left
<1>3. Capacity(key) \in Nat /\ Rate(key) \in Nat /\ Resolution \in Nat /\ Resolution > 0
  BY RateType
<1>4. b.tokens = (IF ok THEN t - Resolution ELSE t) /\ b.lastRefill = now /\ b.tokens \in Nat /\ b \in Bucket
  BY <1>3, <1>20 DEF Bucket
<1>21. ~ok => b.tokens < Resolution
  BY <1>3, <1>4
<1> HIDE DEF v, ok, next, b
<1>2. /\ n \in Nat /\ DOMAIN log = 1 .. n - 1 /\ DOMAIN next = 1 .. n /\ next[n] = v
      /\ \A k \in 1 .. n - 1 : next[k] = log[k]
  BY <1>1
<1> HIDE DEF n
<1>5. ASSUME NEW i \in 1 .. n
      PROVE  Spent(next, key, i) = Spent(log, key, i) + (IF ok THEN Resolution ELSE 0) /\ Spent(log, key, i) \in Nat
  <2> DEFINE m == Cardinality(Uses(log, key, i))
  <2>1. Cardinality(Uses(next, key, i)) = m + (IF ok THEN 1 ELSE 0)
    BY <1>1, <1>5, UsesAppend DEF n
  <2>2. m \in Nat
    BY UsesFinite
  <2>3. (m + 1) * Resolution = m * Resolution + Resolution /\ (m + 0) * Resolution = m * Resolution + 0 /\ m * Resolution \in Nat
    BY <1>3, <2>2
  <2> QED
    BY <2>1, <2>3 DEF Spent
<1>6. \A i \in 1 .. n : Spent(next, key, i) + b.tokens = Spent(log, key, i) + t
  <2>1. ASSUME NEW i \in 1 .. n PROVE Spent(next, key, i) + b.tokens = Spent(log, key, i) + t
    BY <1>3, <1>4, <1>5
  <2> QED
    BY <2>1
<1>7. Spent(log, key, n) = 0 /\ GrantedFor(key, now, now) = Capacity(key)
  <2>1. Uses(log, key, n) = {}
    BY LastUses DEF n
  <2>2. Cardinality(Uses(log, key, n)) = 0
    BY <2>1, FS_EmptySet
  <2>3. now - now = 0 /\ 0 * Resolution = 0 /\ 0 * Rate(key) = 0
    BY <1>3
  <2> QED
    BY <1>3, <2>2, <2>3 DEF Spent, GrantedFor
<1>22. n \in 1 .. n /\ \A k : (k \in 1 .. n <=> k = n \/ k \in 1 .. n - 1)
  BY LogInterval DEF n
<1>8. Of(next, key) = Of(log, key) \cup {n} /\ Of(log, key) \subseteq 1 .. n - 1
  <2> QED
    BY <1>1, <1>2, <1>22 DEF Of
<1>9. next[n].at = now /\ \A i \in Of(log, key) : next[i].at = log[i].at
  BY <1>1, <1>2, <1>8
<1>10. n \in 1 .. n /\ \A i \in Of(log, key) : i \in 1 .. n
  BY <1>8, <1>22
<1>18. Spent(next, key, n) + b.tokens = t /\ GrantedFor(key, next[n].at, now) = Capacity(key)
  <2>1. Spent(next, key, n) + b.tokens = 0 + t
    BY <1>6, <1>7, <1>10
  <2> QED
    BY <1>7, <1>9, <2>1
<1>11. ASSUME NEW i \in Of(next, key)
       PROVE  next[i].at <= now /\ Spent(next, key, i) + b.tokens <= GrantedFor(key, next[i].at, now)
  <2>1. CASE i = n
    <3>1. next[i].at <= now
      BY <1>9, <2>1
    <3>2. t <= Capacity(key)
      BY DEF There
    <3> QED
      BY <1>18, <2>1, <3>1, <3>2
  <2>2. CASE i \in Of(log, key)
    <3>1. log[i].at <= now /\ Spent(log, key, i) + t <= GrantedFor(key, log[i].at, now)
      BY <2>2 DEF There
    <3> QED
      BY <1>6, <1>9, <1>10, <2>2, <3>1
  <2> QED
    BY <1>8, <2>1, <2>2
<1>12. PICK i \in Of(next, key) : Spent(next, key, i) + b.tokens = GrantedFor(key, next[i].at, now)
  <2>1. CASE t = Capacity(key)
    <3>1. n \in Of(next, key)
      BY <1>8
    <3> QED
      BY <1>18, <2>1, <3>1
  <2>2. CASE \E i \in Of(log, key) : Spent(log, key, i) + t = GrantedFor(key, log[i].at, now)
    <3>1. PICK i \in Of(log, key) : Spent(log, key, i) + t = GrantedFor(key, log[i].at, now)
      BY <2>2
    <3>2. Spent(next, key, i) + b.tokens = GrantedFor(key, next[i].at, now)
      BY <1>6, <1>9, <1>10, <3>1
    <3> QED
      BY <1>8, <3>2
  <2> QED
    BY <2>1, <2>2 DEF There
<1>13. BucketSound(next, key, b)
  <2>1. now <= now
    OBVIOUS
  <2> QED
    BY <1>4, <1>11, <1>12, <2>1 DEF BucketSound
<1>14. \A j \in Of(next, key) : Spent(next, key, j) \in Nat /\ j \in 1 .. n
  <2>1. ASSUME NEW j \in Of(next, key) PROVE Spent(next, key, j) \in Nat /\ j \in 1 .. n
    <3>1. j \in 1 .. n
      BY <1>8, <1>10
    <3>2. Spent(next, key, j) = Spent(log, key, j) + (IF ok THEN Resolution ELSE 0) /\ Spent(log, key, j) \in Nat
      BY <1>5, <3>1
    <3> QED
      BY <1>3, <3>1, <3>2
  <2> QED
    BY <2>1
<1>15. \A j \in Of(next, key) : next[j].at \in Nat /\ GrantedFor(key, next[j].at, now) \in Int
  <2>1. ASSUME NEW j \in Of(next, key) PROVE next[j].at \in Nat /\ GrantedFor(key, next[j].at, now) \in Int
    <3>1. next \in Seq(Verdict)
      BY <1>1
    <3>2. next[j] \in Verdict
      BY <3>1 DEF Of
    <3>3. next[j].at \in Nat
      BY <3>2 DEF Verdict
    <3>4. (now - next[j].at) * Rate(key) \in Int
      BY <1>3, <3>3
    <3> QED
      BY <1>3, <3>3, <3>4 DEF GrantedFor
  <2> QED
    BY <2>1
<1>16. BudgetExact(next)
  <2>1. ok => \A j \in Of(next, key) : Spent(next, key, j) <= GrantedFor(key, next[j].at, now)
    <3>1. ASSUME NEW j \in Of(next, key) PROVE Spent(next, key, j) <= GrantedFor(key, next[j].at, now)
      <4>1. Spent(next, key, j) + b.tokens <= GrantedFor(key, next[j].at, now) /\ Spent(next, key, j) \in Nat
        BY <1>11, <1>14
      <4>2. GrantedFor(key, next[j].at, now) \in Int /\ b.tokens \in Nat
        BY <1>4, <1>15
      <4> QED
        BY <4>1, <4>2
    <3> QED
      BY <3>1
  <2>2. ASSUME ~ok PROVE Spent(next, key, i) + Resolution > GrantedFor(key, next[i].at, now)
    <3>1. b.tokens < Resolution
      BY <1>21, <2>2
    <3>2. Spent(next, key, i) + b.tokens = GrantedFor(key, next[i].at, now) /\ Spent(next, key, i) \in Nat
      BY <1>12, <1>14
    <3> QED
      BY <1>3, <1>4, <3>1, <3>2
  <2> QED
    BY <1>1, <1>12, <2>1, <2>2, BudgetAppend
<1> QED
  BY <1>4, <1>13, <1>16 DEF b, next

LEMMA MoreGranted ==
    ASSUME NEW u \in Nat, NEW k \in Nat, NEW g \in Nat, NEW q \in Nat, NEW t \in Nat, NEW h, u + k <= q, q + g = h, t <= k + g
    PROVE  u + t <= h
  OBVIOUS

LEMMA RefilledSound ==
    ASSUME NEW log \in Seq(Verdict), NEW key \in LimitKey, now \in Nat, NEW b \in Bucket, BucketSound(log, key, b)
    PROVE  /\ Refilled(b, key).tokens \in Nat /\ Refilled(b, key).lastRefill = now
           /\ There(log, key, Refilled(b, key).tokens)
<1> DEFINE gain == (now - b.lastRefill) * Rate(key)
           full == b.tokens + gain
           t == IF full > Capacity(key) THEN Capacity(key) ELSE full
<1>1. Capacity(key) \in Nat /\ Rate(key) \in Nat /\ Resolution \in Nat
  BY RateType
<1>2. b.tokens \in Nat /\ b.lastRefill \in Nat /\ b.lastRefill <= now
  BY DEF Bucket, BucketSound
<1>3. gain \in Nat
  BY <1>1, <1>2, Distributes
<1>4. Refilled(b, key) = [tokens |-> t, lastRefill |-> now]
  BY DEF Refilled
<1>5. Refilled(b, key).tokens = t /\ Refilled(b, key).lastRefill = now
  BY <1>4
<1> HIDE DEF gain
<1>6. full \in Nat /\ t \in Nat /\ t <= Capacity(key) /\ t <= full /\ (t = Capacity(key) \/ t = full)
  BY <1>1, <1>2, <1>3
<1>7. ASSUME NEW i \in Of(log, key)
      PROVE  /\ log[i].at <= b.lastRefill /\ log[i].at \in Nat /\ Spent(log, key, i) \in Nat
             /\ GrantedFor(key, log[i].at, b.lastRefill) + gain = GrantedFor(key, log[i].at, now)
             /\ GrantedFor(key, log[i].at, b.lastRefill) \in Nat
  <2>1. log[i] \in Verdict
    BY <1>7 DEF Of
  <2>2. log[i].at \in Nat /\ log[i].at <= b.lastRefill
    BY <1>7, <2>1 DEF Verdict, BucketSound
  <2> DEFINE x == log[i].at
             g == (b.lastRefill - x) * Rate(key)
             h == (now - x) * Rate(key)
  <2>3. g + gain = h /\ g \in Nat /\ h \in Nat
    <3>1. x \in Nat /\ x <= b.lastRefill
      BY <2>2
    <3> HIDE DEF x
    <3>2. (b.lastRefill - x) * Rate(key) + (now - b.lastRefill) * Rate(key) = (now - x) * Rate(key)
      BY <1>1, <1>2, <3>1, Distributes
    <3>3. (b.lastRefill - x) * Rate(key) \in Nat /\ (now - x) * Rate(key) \in Nat
      BY <1>1, <1>2, <3>1, Distributes
    <3> QED
      BY <3>2, <3>3 DEF gain
  <2>4. Spent(log, key, i) \in Nat
    <3>1. Cardinality(Uses(log, key, i)) \in Nat
      BY UsesFinite
    <3> QED
      BY <1>1, <3>1 DEF Spent
  <2>5. GrantedFor(key, x, b.lastRefill) = Capacity(key) + g /\ GrantedFor(key, x, now) = Capacity(key) + h
    BY DEF GrantedFor
  <2> HIDE DEF g, h
  <2> QED
    <3>1. Capacity(key) + g + gain = Capacity(key) + h /\ Capacity(key) + g \in Nat
      BY <1>1, <1>3, <2>3
    <3> QED
      BY <2>2, <2>4, <2>5, <3>1
<1>8. ASSUME NEW i \in Of(log, key)
      PROVE  log[i].at <= now /\ Spent(log, key, i) + t <= GrantedFor(key, log[i].at, now)
  <2>1. Spent(log, key, i) + b.tokens <= GrantedFor(key, log[i].at, b.lastRefill)
    BY DEF BucketSound
  <2> HIDE DEF t
  <2>2. log[i].at <= now
    BY <1>2, <1>7
  <2> QED
    <3>1. t \in Nat /\ t <= b.tokens + gain
      BY <1>6
    <3> QED
      BY <1>2, <1>3, <1>7, <2>1, <2>2, <3>1, MoreGranted
<1>9. t = Capacity(key) \/ \E i \in Of(log, key) : Spent(log, key, i) + t = GrantedFor(key, log[i].at, now)
  <2>1. CASE t = full
    <3>1. PICK i \in Of(log, key) : Spent(log, key, i) + b.tokens = GrantedFor(key, log[i].at, b.lastRefill)
      BY DEF BucketSound
    <3> HIDE DEF t
    <3>2. Spent(log, key, i) + t = GrantedFor(key, log[i].at, now)
      BY <1>2, <1>3, <1>7, <2>1, <3>1
    <3> QED
      BY <3>2
  <2> QED
    BY <1>6, <2>1
<1> QED
  BY <1>5, <1>6, <1>8, <1>9 DEF There

(* A bucket that is made now is full, and its limit has no verdict yet.    *)
LEMMA FirstSound ==
    ASSUME NEW log \in Seq(Verdict), NEW key \in LimitKey, now \in Nat, NEW b,
           b = [tokens |-> Capacity(key), lastRefill |-> now], Of(log, key) = {}
    PROVE  /\ Refilled(b, key).tokens \in Nat /\ Refilled(b, key).lastRefill = now
           /\ There(log, key, Refilled(b, key).tokens)
<1>1. Capacity(key) \in Nat /\ Rate(key) \in Nat
  BY RateType
<1>2. Capacity(key) + (now - now) * Rate(key) = Capacity(key)
  BY <1>1
<1>3. Refilled(b, key) = [tokens |-> Capacity(key), lastRefill |-> now]
  BY <1>1, <1>2 DEF Refilled
<1>4. Refilled(b, key).tokens = Capacity(key) /\ Refilled(b, key).lastRefill = now
  BY <1>3
<1> QED
  BY <1>1, <1>4 DEF There

LEMMA OtherBucket ==
    ASSUME NEW log \in Seq(Verdict), NEW v \in Verdict, NEW key \in LimitKey \ {v.key}, NEW next, next = Append(log, v)
    PROVE  Of(next, key) = Of(log, key) /\ \A b : BucketSound(log, key, b) => BucketSound(next, key, b)
<1> DEFINE n == Len(log) + 1
<1>1. DOMAIN log = 1 .. n - 1 /\ DOMAIN next = 1 .. n /\ next[n] = v /\ \A k \in 1 .. n - 1 : next[k] = log[k]
  OBVIOUS
<1>2. n \in 1 .. n /\ \A k : (k \in 1 .. n <=> k = n \/ k \in 1 .. n - 1)
  BY LogInterval
<1>3. Of(next, key) = Of(log, key) /\ \A i \in Of(log, key) : i \in 1 .. n /\ next[i].at = log[i].at
  <2> HIDE DEF n
  <2> QED
    BY <1>1, <1>2 DEF Of
<1>4. ASSUME NEW i \in Of(log, key) PROVE Spent(next, key, i) = Spent(log, key, i)
  <2>1. Cardinality(Uses(next, key, i)) = Cardinality(Uses(log, key, i)) + 0
    BY <1>3, UsesAppend
  <2>2. Cardinality(Uses(log, key, i)) \in Nat
    BY UsesFinite
  <2> QED
    BY <2>1, <2>2 DEF Spent
<1> HIDE DEF n
<1> QED
  BY <1>3, <1>4 DEF BucketSound

LEMMA AdmittedAppend ==
    ASSUME NEW log \in Seq(Verdict), NEW v \in Verdict
    PROVE  /\ Cardinality(Admitted(log)) \in Nat
           /\ Cardinality(Admitted(Append(log, v))) = Cardinality(Admitted(log)) + (IF v.ok THEN 1 ELSE 0)
<1> DEFINE n == Len(log) + 1
           next == Append(log, v)
<1>1. n \in Nat /\ DOMAIN log = 1 .. n - 1 /\ DOMAIN next = 1 .. n /\ next[n] = v /\ \A k \in 1 .. n - 1 : next[k] = log[k]
  OBVIOUS
<1>2. n \in 1 .. n /\ \A k : (k \in 1 .. n <=> k = n \/ k \in 1 .. n - 1)
  BY LogInterval
<1>3. n \notin 1 .. n - 1 /\ n - 1 \in Nat
  BY <1>1
<1> HIDE DEF n, next
<1>4. IsFiniteSet(Admitted(log)) /\ Cardinality(Admitted(log)) \in Nat /\ n \notin Admitted(log)
  <2>1. Admitted(log) \subseteq 1 .. n - 1
    BY <1>1 DEF Admitted
  <2>2. IsFiniteSet(1 .. n - 1)
    BY <1>3, FS_Interval
  <2>3. IsFiniteSet(Admitted(log))
    BY <2>1, <2>2, FS_Subset
  <2> QED
    BY <1>3, <2>1, <2>3, FS_CardinalityType
<1>5. Admitted(next) = Admitted(log) \cup (IF v.ok THEN {n} ELSE {})
  BY <1>1, <1>2 DEF Admitted
<1>6. CASE v.ok
  <2>1. Admitted(next) = Admitted(log) \cup {n}
    BY <1>5, <1>6
  <2>2. Cardinality(Admitted(log) \cup {n}) = Cardinality(Admitted(log)) + 1
    BY <1>4, FS_AddElement
  <2> QED
    BY <1>4, <1>6, <2>1, <2>2 DEF next
<1>7. CASE ~v.ok
  <2>1. Admitted(next) = Admitted(log)
    BY <1>5, <1>7
  <2> QED
    BY <1>4, <1>7, <2>1 DEF next
<1> QED
  BY <1>6, <1>7

-----------------------------------------------------------------------------
Ascends(d) == \A i, j \in DOMAIN d : i < j => d[i] < d[j]
Below(d, x) == \A i \in DOMAIN d : d[i] < x

LEMMA AscendsAppend ==
    ASSUME NEW d \in Seq(Nat), NEW x \in Nat
    PROVE  /\ Ascends(d) /\ Below(d, x) => Ascends(Append(d, x))
           /\ \A y \in Nat : Below(d, y) /\ x < y => Below(Append(d, x), y)
<1> DEFINE n == Len(d) + 1
           e == Append(d, x)
<1>1. n \in Nat /\ DOMAIN d = 1 .. n - 1 /\ DOMAIN e = 1 .. n /\ e[n] = x /\ \A k \in 1 .. n - 1 : e[k] = d[k]
  OBVIOUS
<1> HIDE DEF n, e
<1>2. \A k \in 1 .. n : k = n \/ k \in 1 .. n - 1
  BY <1>1
<1>3. ASSUME Ascends(d), Below(d, x), NEW i \in 1 .. n, NEW j \in 1 .. n, i < j PROVE e[i] < e[j]
  <2>1. i \in 1 .. n - 1
    BY <1>1, <1>3
  <2>2. CASE j = n
    BY <1>1, <1>3, <2>1, <2>2 DEF Below
  <2>3. CASE j # n
    BY <1>1, <1>2, <1>3, <2>1, <2>3 DEF Ascends
  <2> QED
    BY <2>2, <2>3
<1> QED
  BY <1>1, <1>2, <1>3 DEF Ascends, Below, e

ConnSound(s, c) ==
    /\ BudgetExact(s.verdicts[c])
    /\ \A key \in LimitKey :
          IF <<c, key>> \in DOMAIN s.buckets THEN BucketSound(s.verdicts[c], key, s.buckets[<<c, key>>])
          ELSE Of(s.verdicts[c], key) = {}
    /\ Len(s.dispatched[c]) <= Cardinality(Admitted(s.verdicts[c]))
    /\ s.drops[c] + Cardinality(Admitted(s.verdicts[c])) = Len(s.verdicts[c])

Sound(s) == s \in RpcState /\ \A c \in Connection : ConnSound(s, c)

LEMMA LimitedMeans ==
    ASSUME NEW s \in RpcState, NEW c \in Connection, NEW m \in RpcMessage, now \in Nat, ConnSound(s, c)
    PROVE  \E key \in LimitKey, t \in Nat :
             /\ There(s.verdicts[c], key, t)
             /\ Limited(s, c, m) =
                   [buckets |-> [k \in DOMAIN s.buckets \cup {<<c, key>>} |-> IF k = <<c, key>> THEN Left(t) ELSE s.buckets[k]],
                    drops |-> [s.drops EXCEPT ![c] = IF t >= Resolution THEN @ ELSE @ + 1],
                    dispatched |-> [s.dispatched EXCEPT ![c] = IF t >= Resolution /\ m.whole THEN Append(@, m.number) ELSE @],
                    verdicts |-> [s.verdicts EXCEPT ![c] = Logged(@, key, t)]]
<1> DEFINE key == Key(m.type)
           found == IF <<c, key>> \in DOMAIN s.buckets THEN s.buckets[<<c, key>>]
                    ELSE [tokens |-> Capacity(key), lastRefill |-> now]
           b == Refilled(found, key)
           t == b.tokens
           ok == t >= Resolution
           left == [b EXCEPT !.tokens = IF ok THEN @ - Resolution ELSE @]
           log == s.verdicts[c]
<1>1. key \in LimitKey
  BY DEF Key, LimitKey
<1>2. log \in Seq(Verdict)
  BY DEF RpcState
<1>3. t \in Nat /\ b.lastRefill = now /\ There(log, key, t)
  <2>1. CASE <<c, key>> \in DOMAIN s.buckets
    <3>1. PICK D \in SUBSET (Connection \X LimitKey) : s.buckets \in [D -> Bucket]
      BY DEF RpcState
    <3>2. found \in Bucket /\ found = s.buckets[<<c, key>>]
      BY <2>1, <3>1
    <3>3. BucketSound(log, key, found)
      BY <1>1, <2>1, <3>2 DEF ConnSound
    <3> HIDE DEF found, key, log
    <3> QED
      BY <1>1, <1>2, <3>2, <3>3, RefilledSound
  <2>2. CASE <<c, key>> \notin DOMAIN s.buckets
    <3>1. Of(log, key) = {}
      BY <1>1, <2>2 DEF ConnSound
    <3>2. found = [tokens |-> Capacity(key), lastRefill |-> now]
      BY <2>2
    <3> HIDE DEF found, key, log
    <3> QED
      BY <1>1, <1>2, <3>1, <3>2, FirstSound
  <2> QED
    BY <2>1, <2>2
<1>4. left = Left(t)
  <2>1. b = [tokens |-> t, lastRefill |-> now]
    BY <1>3 DEF Refilled
  <2> HIDE DEF b
  <2> QED
    BY <2>1 DEF Left
<1>5. Limited(s, c, m) =
        [s EXCEPT !.buckets = [k \in DOMAIN s.buckets \cup {<<c, key>>} |-> IF k = <<c, key>> THEN left ELSE s.buckets[k]],
                  !.drops[c] = IF ok THEN @ ELSE @ + 1,
                  !.dispatched[c] = IF ok /\ m.whole THEN Append(@, m.number) ELSE @,
                  !.verdicts[c] = Append(@, [key |-> key, at |-> now, ok |-> ok])]
  BY DEF Limited
<1> HIDE DEF left, t, key, ok
<1>6. Limited(s, c, m) =
        [buckets |-> [k \in DOMAIN s.buckets \cup {<<c, key>>} |-> IF k = <<c, key>> THEN left ELSE s.buckets[k]],
         drops |-> [s.drops EXCEPT ![c] = IF ok THEN @ ELSE @ + 1],
         dispatched |-> [s.dispatched EXCEPT ![c] = IF ok /\ m.whole THEN Append(@, m.number) ELSE @],
         verdicts |-> [s.verdicts EXCEPT ![c] = Append(@, [key |-> key, at |-> now, ok |-> ok])]]
  <2> s = [buckets |-> s.buckets, drops |-> s.drops, dispatched |-> s.dispatched, verdicts |-> s.verdicts]
    BY DEF RpcState
  <2> QED
    BY <1>5
<1> QED
  BY <1>1, <1>3, <1>4, <1>6 DEF Logged, ok

LEMMA OneMore ==
    ASSUME NEW x \in Nat, NEW a \in Nat, NEW l \in Nat, x + a = l
    PROVE  x + (a + 1) = l + 1 /\ (x + 1) + a = l + 1
  OBVIOUS

LEMMA LimitedSound ==
    ASSUME NEW s, Sound(s), NEW c \in Connection, NEW m \in RpcMessage, now \in Nat, NEW new, new = Limited(s, c, m)
    PROVE  /\ Sound(new)
           /\ Ascends(s.dispatched[c]) /\ (m.whole => Below(s.dispatched[c], m.number)) => Ascends(new.dispatched[c])
           /\ \A x \in Nat : Below(s.dispatched[c], x) /\ (m.whole => m.number < x) => Below(new.dispatched[c], x)
           /\ \A d \in Connection \ {c} : new.dispatched[d] = s.dispatched[d]
<1>1. s \in RpcState /\ \A d \in Connection : ConnSound(s, d)
  BY DEF Sound
<1>2. PICK key \in LimitKey, t \in Nat :
        /\ There(s.verdicts[c], key, t)
        /\ Limited(s, c, m) =
                 [buckets |-> [k \in DOMAIN s.buckets \cup {<<c, key>>} |-> IF k = <<c, key>> THEN Left(t) ELSE s.buckets[k]],
                  drops |-> [s.drops EXCEPT ![c] = IF t >= Resolution THEN @ ELSE @ + 1],
                  dispatched |-> [s.dispatched EXCEPT ![c] = IF t >= Resolution /\ m.whole THEN Append(@, m.number) ELSE @],
                  verdicts |-> [s.verdicts EXCEPT ![c] = Logged(@, key, t)]]
  BY <1>1, LimitedMeans
<1> DEFINE ok == t >= Resolution
           log == s.verdicts[c]
           v == [key |-> key, at |-> now, ok |-> ok]
           next == Logged(log, key, t)
           d0 == s.dispatched[c]
           d1 == IF ok /\ m.whole THEN Append(d0, m.number) ELSE d0
<1>3. /\ new.buckets = [k \in DOMAIN s.buckets \cup {<<c, key>>} |-> IF k = <<c, key>> THEN Left(t) ELSE s.buckets[k]]
      /\ new.drops = [s.drops EXCEPT ![c] = IF ok THEN @ ELSE @ + 1]
      /\ new.dispatched = [s.dispatched EXCEPT ![c] = d1]
      /\ new.verdicts = [s.verdicts EXCEPT ![c] = next]
  BY <1>2
<1>15. new = [buckets |-> new.buckets, drops |-> new.drops, dispatched |-> new.dispatched, verdicts |-> new.verdicts]
  BY <1>2
<1>4. /\ s.drops \in [Connection -> Nat] /\ s.dispatched \in [Connection -> Seq(Nat)]
      /\ s.verdicts \in [Connection -> Seq(Verdict)] /\ log \in Seq(Verdict) /\ d0 \in Seq(Nat)
      /\ m.number \in Nat /\ m.whole \in BOOLEAN
  BY <1>1 DEF RpcState, RpcMessage
<1>5. v \in Verdict /\ v.key = key /\ v.ok = ok /\ next = Append(log, v) /\ ok \in BOOLEAN
  BY DEF Verdict, Logged
<1>6. Left(t) \in Bucket /\ BucketSound(next, key, Left(t)) /\ BudgetExact(next)
  <2>1. BudgetExact(log)
    BY <1>1 DEF ConnSound
  <2> HIDE DEF log
  <2> QED
    BY <1>2, <1>4, <2>1, AllowSound DEF log
<1> HIDE DEF v, next, ok
<1>7. next \in Seq(Verdict) /\ Len(next) = Len(log) + 1 /\ Len(log) \in Nat
  BY <1>4, <1>5
<1>8. /\ Cardinality(Admitted(log)) \in Nat
      /\ Cardinality(Admitted(next)) = Cardinality(Admitted(log)) + (IF ok THEN 1 ELSE 0)
  BY <1>4, <1>5, AdmittedAppend
<1>9. /\ d1 \in Seq(Nat) /\ Len(d1) <= Len(d0) + (IF ok THEN 1 ELSE 0)
      /\ Ascends(d0) /\ (m.whole => Below(d0, m.number)) => Ascends(d1)
      /\ \A x \in Nat : Below(d0, x) /\ (m.whole => m.number < x) => Below(d1, x)
  <2>2. CASE ok /\ m.whole
    <3>1. d1 = Append(d0, m.number)
      BY <2>2
    <3> HIDE DEF d0, d1
    <3>3. /\ Ascends(d0) /\ Below(d0, m.number) => Ascends(d1)
          /\ \A x \in Nat : Below(d0, x) /\ m.number < x => Below(d1, x)
      BY <1>4, <3>1, AscendsAppend
    <3>4. d1 \in Seq(Nat) /\ Len(d1) = Len(d0) + 1 /\ Len(d0) \in Nat
      BY <1>4, <3>1
    <3> QED
      BY <2>2, <3>3, <3>4
  <2>3. CASE ~(ok /\ m.whole)
    <3>1. d1 = d0
      BY <2>3
    <3>2. Len(d0) \in Nat
      BY <1>4
    <3> HIDE DEF d0, d1
    <3> QED
      BY <1>4, <1>5, <3>1, <3>2
  <2> QED
    BY <2>2, <2>3
<1>10. new.verdicts[c] = next /\ new.dispatched[c] = d1 /\ new.drops[c] = (IF ok THEN s.drops[c] ELSE s.drops[c] + 1)
  <2> HIDE DEF d1, log
  <2> QED
    BY <1>3, <1>4
<1>11. \A d \in Connection \ {c} :
          new.verdicts[d] = s.verdicts[d] /\ new.dispatched[d] = s.dispatched[d] /\ new.drops[d] = s.drops[d]
  <2> HIDE DEF d1, log
  <2> QED
    BY <1>3, <1>4
<1> HIDE DEF d1, d0
<1>12. new \in RpcState
  <2>1. PICK D \in SUBSET (Connection \X LimitKey) : s.buckets \in [D -> Bucket]
    BY <1>1 DEF RpcState
  <2>2. D \cup {<<c, key>>} \in SUBSET (Connection \X LimitKey)
    OBVIOUS
  <2>3. new.buckets \in [D \cup {<<c, key>>} -> Bucket]
    <3> HIDE DEF log
    <3> QED
      BY <1>3, <1>6, <2>1
  <2>4. new.drops \in [Connection -> Nat]
    BY <1>3, <1>4
  <2>5. new.dispatched \in [Connection -> Seq(Nat)] /\ new.verdicts \in [Connection -> Seq(Verdict)]
    BY <1>3, <1>4, <1>7, <1>9
  <2>6. new.buckets \in UNION {[E -> Bucket] : E \in SUBSET (Connection \X LimitKey)}
    BY <2>2, <2>3
  <2> QED
    BY <1>15, <2>4, <2>5, <2>6 DEF RpcState
<1>13. ConnSound(new, c)
  <2>1. ASSUME NEW k \in LimitKey
        PROVE  IF <<c, k>> \in DOMAIN new.buckets THEN BucketSound(next, k, new.buckets[<<c, k>>]) ELSE Of(next, k) = {}
    <3>1. DOMAIN new.buckets = DOMAIN s.buckets \cup {<<c, key>>}
      BY <1>3
    <3>2. CASE k = key
      <4>1. <<c, k>> \in DOMAIN new.buckets /\ new.buckets[<<c, k>>] = Left(t)
        BY <1>3, <3>2
      <4> QED
        BY <1>6, <3>2, <4>1
    <3>3. CASE k # key
      <4>1. <<c, k>> # <<c, key>>
        BY <3>3
      <4>2. <<c, k>> \in DOMAIN new.buckets <=> <<c, k>> \in DOMAIN s.buckets
        BY <3>1, <4>1
      <4>3. <<c, k>> \in DOMAIN s.buckets => new.buckets[<<c, k>>] = s.buckets[<<c, k>>]
        BY <1>3, <4>1
      <4>4. Of(next, k) = Of(log, k) /\ \A b : BucketSound(log, k, b) => BucketSound(next, k, b)
        <5>1. k \in LimitKey \ {v.key}
          BY <1>5, <3>3
        <5> HIDE DEF log
        <5> QED
          BY <1>4, <1>5, <5>1, OtherBucket
      <4>5. IF <<c, k>> \in DOMAIN s.buckets THEN BucketSound(log, k, s.buckets[<<c, k>>]) ELSE Of(log, k) = {}
        BY <1>1 DEF ConnSound
      <4> HIDE DEF log
      <4> QED
        BY <4>2, <4>3, <4>4, <4>5
    <3> QED
      BY <3>2, <3>3
  <2>2. /\ Len(d0) <= Cardinality(Admitted(log)) /\ s.drops[c] + Cardinality(Admitted(log)) = Len(log)
        /\ s.drops[c] \in Nat /\ Len(d0) \in Nat /\ Len(d1) \in Nat
    BY <1>1, <1>4, <1>9 DEF ConnSound, d0
  <2> HIDE DEF log
  <2>3. Len(d1) <= Cardinality(Admitted(next))
    BY <1>8, <1>9, <2>2
  <2>4. new.drops[c] + Cardinality(Admitted(next)) = Len(next)
    <3> DEFINE a == Cardinality(Admitted(log))
    <3>0. a \in Nat /\ s.drops[c] \in Nat /\ Len(log) \in Nat /\ s.drops[c] + a = Len(log) /\ Len(next) = Len(log) + 1
      BY <1>7, <1>8, <2>2
    <3>3. s.drops[c] + (a + 1) = Len(log) + 1 /\ (s.drops[c] + 1) + a = Len(log) + 1
      <4> DEFINE x == s.drops[c]
                 l == Len(log)
      <4>1. a \in Nat /\ x \in Nat /\ l \in Nat /\ x + a = l
        BY <3>0
      <4> HIDE DEF a, x, l
      <4>2. x + (a + 1) = l + 1 /\ (x + 1) + a = l + 1
        BY <4>1, OneMore
      <4> QED
        BY <4>2 DEF x, l
    <3>1. CASE ok
      <4>1. new.drops[c] = s.drops[c] /\ Cardinality(Admitted(next)) = a + 1
        BY <1>8, <1>10, <3>1
      <4> HIDE DEF a
      <4> QED
        BY <3>0, <3>3, <4>1
    <3>2. CASE ~ok
      <4>1. new.drops[c] = s.drops[c] + 1 /\ Cardinality(Admitted(next)) = a
        BY <1>8, <1>10, <3>2
      <4> HIDE DEF a
      <4> QED
        BY <3>0, <3>3, <4>1
    <3> QED
      BY <3>1, <3>2
  <2> QED
    BY <1>6, <1>9, <1>10, <2>1, <2>3, <2>4 DEF ConnSound
<1>14. ASSUME NEW d \in Connection \ {c} PROVE ConnSound(new, d)
  <2>1. ConnSound(s, d)
    BY <1>1
  <2>2. ASSUME NEW k \in LimitKey
        PROVE  /\ <<d, k>> \in DOMAIN new.buckets <=> <<d, k>> \in DOMAIN s.buckets
               /\ <<d, k>> \in DOMAIN s.buckets => new.buckets[<<d, k>>] = s.buckets[<<d, k>>]
    <3>1. <<d, k>> # <<c, key>>
      OBVIOUS
    <3> QED
      BY <1>3, <3>1
  <2> QED
    BY <1>11, <2>1, <2>2 DEF ConnSound
<1> QED
  BY <1>9, <1>10, <1>11, <1>12, <1>13, <1>14 DEF Sound, d0

-----------------------------------------------------------------------------
RpcPacket == {Foreign} \cup [type : RpcType, size : Sizes, number : Nat \ {0}]
Noise == UNION {[1 .. n -> RpcType \cup {"unknown"}] : n \in Nat}

LEMMA DecodedMeans ==
    ASSUME NEW p \in RpcPacket, NEW noise \in Noise
    PROVE  /\ Decoded(p, noise) \in Seq(RpcMessage)
           /\ \A i \in 1 .. Len(Decoded(p, noise)) : Decoded(p, noise)[i].whole =>
                  i = 1 /\ p # Foreign /\ Decoded(p, noise)[i].number = p.number
<1> DEFINE own == << [type |-> p.type, number |-> p.number, whole |-> p.size < LengthBase] >>
           bytes == [i \in DOMAIN noise |-> [type |-> noise[i], number |-> 0, whole |-> FALSE]]
           x == IF p = Foreign THEN <<>> ELSE own
           y == IF p = Foreign \/ p.size >= LengthBase THEN bytes ELSE <<>>
<1>1. /\ bytes \in Seq(RpcMessage) /\ \A i \in 1 .. Len(bytes) : bytes[i].whole = FALSE
  <2>1. PICK n \in Nat : noise \in [1 .. n -> RpcType \cup {"unknown"}]
    BY DEF Noise
  <2>2. bytes \in [1 .. n -> RpcMessage]
    BY <2>1 DEF RpcMessage
  <2>3. bytes \in Seq(RpcMessage) /\ Len(bytes) = n
    BY <2>2, SeqDef
  <2>4. \A i \in 1 .. n : bytes[i].whole = FALSE
    BY <2>1
  <2> QED
    BY <2>3, <2>4
<1>2. p # Foreign => own \in Seq(RpcMessage) /\ Len(own) = 1 /\ own[1].number = p.number
  <2>1. ASSUME p # Foreign PROVE [type |-> p.type, number |-> p.number, whole |-> p.size < LengthBase] \in RpcMessage
    <3>1. p.type \in RpcType /\ p.number \in Nat /\ (p.size < LengthBase) \in BOOLEAN
      BY <2>1 DEF RpcPacket
    <3> QED
      BY <3>1 DEF RpcMessage
  <2> QED
    BY <2>1
<1> HIDE DEF own, bytes
<1>3. /\ x \in Seq(RpcMessage) /\ y \in Seq(RpcMessage) /\ Len(x) \in {0, 1} /\ (p = Foreign => Len(x) = 0)
      /\ (p # Foreign => x[1].number = p.number) /\ \A i \in 1 .. Len(y) : y[i].whole = FALSE
  BY <1>1, <1>2
<1>4. Decoded(p, noise) = x \o y
  BY DEF Decoded, own, bytes
<1> HIDE DEF x, y
<1>5. ASSUME NEW i \in 1 .. Len(x \o y), (x \o y)[i].whole PROVE i = 1 /\ p # Foreign /\ (x \o y)[i].number = p.number
  <2>1. Len(x \o y) = Len(x) + Len(y) /\ Len(x) \in Nat /\ Len(y) \in Nat
    BY <1>3
  <2>2. CASE i <= Len(x)
    <3>1. i \in 1 .. Len(x)
      BY <2>1, <2>2
    <3>2. i = 1 /\ Len(x) = 1
      <4>1. Len(x) = 0 \/ Len(x) = 1
        BY <1>3
      <4>2. CASE Len(x) = 0
        BY <3>1, <4>2
      <4>3. CASE Len(x) = 1
        BY <3>1, <4>3
      <4> QED
        BY <4>1, <4>2, <4>3
    <3>3. (x \o y)[i] = x[i]
      BY <1>3, <2>1, <3>1
    <3>4. p # Foreign
      BY <1>3, <3>2
    <3> QED
      BY <1>3, <3>2, <3>3, <3>4
  <2>3. CASE ~(i <= Len(x))
    <3>1. i - Len(x) \in 1 .. Len(y)
      BY <2>1, <2>3
    <3>2. (x \o y)[i] = y[i - Len(x)]
      BY <1>3, <2>1, <2>3
    <3> QED
      BY <1>3, <1>5, <3>1, <3>2
  <2> QED
    BY <2>2, <2>3
<1> QED
  BY <1>3, <1>4, <1>5

LEMMA ProcessedSound ==
    ASSUME NEW s, Sound(s), NEW c \in Connection, NEW p \in RpcPacket, NEW noise \in Noise, now \in Nat,
           NEW new, new = Processed(s, c, p, noise)
    PROVE  /\ Sound(new)
           /\ Ascends(s.dispatched[c]) /\ (p # Foreign => Below(s.dispatched[c], p.number)) => Ascends(new.dispatched[c])
           /\ \A x \in Nat : Below(s.dispatched[c], x) /\ (p # Foreign => p.number < x) => Below(new.dispatched[c], x)
           /\ \A d \in Connection \ {c} : new.dispatched[d] = s.dispatched[d]
<1> DEFINE read == Decoded(p, noise)
           n == Len(read)
           T == {y \in RpcState : Sound(y)}
           next(i, y) == Limited(y, c, read[i])
           step == [q \in (1 .. n) \X T |-> next(q[1], q[2])]
           Good(f) == f = [i \in 0 .. n |-> IF i = 0 THEN s ELSE next(i, f[i - 1])]
           g == CHOOSE g : Good(g)
<1>1. /\ n \in Nat /\ \A i \in 1 .. n : read[i] \in RpcMessage
      /\ \A i \in 1 .. n : read[i].whole => i = 1 /\ p # Foreign /\ read[i].number = p.number
  BY DecodedMeans
<1>2. new = g[n]
  BY DEF Processed
<1> HIDE DEF read, n
<1>3. s \in T
  BY DEF Sound
<1>4. \A i \in 1 .. n, y \in T : next(i, y) \in T
  <2>1. ASSUME NEW i \in 1 .. n, NEW y \in T PROVE next(i, y) \in T
    <3>1. Sound(next(i, y))
      BY <1>1, LimitedSound
    <3> QED
      BY <3>1 DEF Sound
  <2> QED
    BY <2>1
<1> HIDE DEF next, T
<1>5. step \in Steps(n, T)
  BY <1>4 DEF Steps
<1>6. PICK f : Recursion(f, n, T, s, step)
  <2> HIDE DEF step
  <2> QED
    BY <1>1, <1>3, <1>5, RecursionExists, Zenon
<1>7. Good(f)
  <2>1. f \in [0 .. n -> T] /\ f[0] = s
    BY <1>6 DEF Recursion
  <2>2. ASSUME NEW i \in 1 .. n PROVE f[i] = next(i, f[i - 1])
    <3>1. i - 1 \in 0 .. n
      BY <1>1
    <3>2. f[i] = step[<<i, f[i - 1]>>]
      BY <1>6 DEF Recursion
    <3>3. <<i, f[i - 1]>> \in (1 .. n) \X T
      BY <2>1, <3>1
    <3> QED
      BY <3>2, <3>3
  <2>3. \A i \in 0 .. n : i = 0 \/ i \in 1 .. n
    BY <1>1
  <2>4. f = [i \in 0 .. n |-> f[i]]
    BY <2>1
  <2> HIDE DEF step
  <2> QED
    BY <2>1, <2>2, <2>3, <2>4
<1>8. Good(g)
  BY <1>7, Zenon
<1> HIDE DEF g
<1>9. g[0] = s /\ \A i \in 1 .. n : g[i] = next(i, g[i - 1])
  <2>1. 0 \in 0 .. n /\ \A i \in 1 .. n : i \in 0 .. n /\ i # 0
    BY <1>1
  <2> QED
    BY <1>8, <2>1
<1>10. \A i \in 0 .. n : g[i] \in T
  <2>1. \A i \in 1 .. n : g[i - 1] \in T => g[i] \in T
    BY <1>4, <1>9
  <2> QED
    BY <1>1, <1>3, <1>9, <2>1, RecursionKeeps
<1>11. ASSUME NEW i \in 1 .. n
       PROVE  LET old == g[i - 1].dispatched IN
              /\ Ascends(old[c]) /\ (read[i].whole => Below(old[c], read[i].number)) => Ascends(g[i].dispatched[c])
              /\ \A x \in Nat : Below(old[c], x) /\ (read[i].whole => read[i].number < x) => Below(g[i].dispatched[c], x)
              /\ \A d \in Connection \ {c} : g[i].dispatched[d] = old[d]
  <2>1. i - 1 \in 0 .. n
    BY <1>1
  <2>2. Sound(g[i - 1])
    BY <1>10, <2>1 DEF T
  <2>3. g[i] = Limited(g[i - 1], c, read[i])
    BY <1>9 DEF next
  <2> QED
    BY <1>1, <2>2, <2>3, LimitedSound
<1>12. n \in 0 .. n
  BY <1>1
<1>13. Sound(new)
  BY <1>2, <1>10, <1>12 DEF T
<1>14. ASSUME Ascends(s.dispatched[c]), p # Foreign => Below(s.dispatched[c], p.number) PROVE Ascends(new.dispatched[c])
  <2> DEFINE S == {i \in Nat : i <= n => /\ Ascends(g[i].dispatched[c])
                                         /\ i = 0 /\ p # Foreign => Below(g[i].dispatched[c], p.number)}
  <2>1. 0 \in S
    BY <1>9, <1>14
  <2>2. ASSUME NEW i \in Nat, i \in S PROVE i + 1 \in S
    <3>1. SUFFICES ASSUME i + 1 <= n PROVE Ascends(g[i + 1].dispatched[c])
      OBVIOUS
    <3>2. i + 1 \in 1 .. n /\ (i + 1) - 1 = i /\ i <= n
      BY <1>1, <3>1
    <3>3. Ascends(g[i].dispatched[c]) /\ (i = 0 /\ p # Foreign => Below(g[i].dispatched[c], p.number))
      BY <2>2, <3>2
    <3>4. read[i + 1].whole => i = 0 /\ p # Foreign /\ read[i + 1].number = p.number
      BY <1>1, <3>2
    <3>5. Ascends(g[(i + 1) - 1].dispatched[c]) /\ (read[i + 1].whole => Below(g[(i + 1) - 1].dispatched[c], read[i + 1].number))
              => Ascends(g[i + 1].dispatched[c])
      BY <1>11, <3>2
    <3> QED
      BY <3>2, <3>3, <3>4, <3>5
  <2> HIDE DEF S
  <2>3. n \in S
    BY <1>1, <2>1, <2>2, SetInduction
  <2> QED
    BY <1>1, <1>2, <2>3 DEF S
<1>15. ASSUME NEW x \in Nat, Below(s.dispatched[c], x), p # Foreign => p.number < x PROVE Below(new.dispatched[c], x)
  <2> DEFINE U == {y \in T : Below(y.dispatched[c], x)}
  <2>1. g[0] \in U
    BY <1>3, <1>9, <1>15
  <2>2. ASSUME NEW i \in 1 .. n, g[i - 1] \in U PROVE g[i] \in U
    <3>1. g[i] \in T
      <4>1. i \in 0 .. n
        BY <1>1
      <4> QED
        BY <1>10, <4>1
    <3>2. read[i].whole => read[i].number < x
      BY <1>1, <1>15
    <3> QED
      BY <1>11, <2>2, <3>1, <3>2
  <2> HIDE DEF U
  <2>3. g[n] \in U
    BY <1>1, <1>12, <2>1, <2>2, RecursionKeeps
  <2> QED
    BY <1>2, <2>3 DEF U
<1>16. ASSUME NEW d \in Connection \ {c} PROVE new.dispatched[d] = s.dispatched[d]
  <2> DEFINE U == {y \in T : y.dispatched[d] = s.dispatched[d]}
  <2>1. g[0] \in U
    BY <1>3, <1>9
  <2>2. ASSUME NEW i \in 1 .. n, g[i - 1] \in U PROVE g[i] \in U
    <3>1. g[i] \in T
      <4>1. i \in 0 .. n
        BY <1>1
      <4> QED
        BY <1>10, <4>1
    <3> QED
      BY <1>11, <2>2, <3>1
  <2> HIDE DEF U
  <2>3. g[n] \in U
    BY <1>1, <1>12, <2>1, <2>2, RecursionKeeps
  <2> QED
    BY <1>2, <2>3 DEF U
<1> QED
  BY <1>13, <1>14, <1>15, <1>16

(* The numbers of the packets that are messages, in the order of arrival.  *)
InTurn(w) == \A i, j \in DOMAIN w : i < j /\ w[i] # Foreign /\ w[j] # Foreign => w[i].number < w[j].number
NumberedBelow(w, x) == \A i \in DOMAIN w : w[i] # Foreign => w[i].number < x
After(d, w) == \A i \in DOMAIN w : w[i] # Foreign => Below(d, w[i].number)

LEMMA ReadSound ==
    ASSUME NEW s, Sound(s), NEW c \in Connection, NEW w \in Seq(RpcPacket), NEW noise \in Noise, now \in Nat,
           InTurn(w), Ascends(s.dispatched[c]), After(s.dispatched[c], w), NEW new, new = ReadAll(s, c, w, noise)
    PROVE  /\ Sound(new) /\ Ascends(new.dispatched[c])
           /\ \A x \in Nat : Below(s.dispatched[c], x) /\ NumberedBelow(w, x) => Below(new.dispatched[c], x)
           /\ \A d \in Connection \ {c} : new.dispatched[d] = s.dispatched[d]
<1> DEFINE n == Len(w)
           T == {y \in RpcState : Sound(y)}
           next(i, y) == Processed(y, c, w[i], noise)
           step == [q \in (1 .. n) \X T |-> next(q[1], q[2])]
           Good(f) == f = [i \in 0 .. n |-> IF i = 0 THEN s ELSE next(i, f[i - 1])]
           g == CHOOSE g : Good(g)
<1>1. n \in Nat /\ DOMAIN w = 1 .. n /\ \A i \in 1 .. n : w[i] \in RpcPacket
  OBVIOUS
<1>2. new = g[n]
  BY DEF ReadAll
<1> HIDE DEF n
<1>3. s \in T
  BY DEF Sound
<1>4. \A i \in 1 .. n, y \in T : next(i, y) \in T
  <2>1. ASSUME NEW i \in 1 .. n, NEW y \in T PROVE next(i, y) \in T
    <3>1. Sound(next(i, y))
      BY <1>1, ProcessedSound
    <3> QED
      BY <3>1 DEF Sound
  <2> QED
    BY <2>1
<1> HIDE DEF next, T
<1>5. step \in Steps(n, T)
  BY <1>4 DEF Steps
<1>6. PICK f : Recursion(f, n, T, s, step)
  <2> HIDE DEF step
  <2> QED
    BY <1>1, <1>3, <1>5, RecursionExists, Zenon
<1>7. Good(f)
  <2>1. f \in [0 .. n -> T] /\ f[0] = s
    BY <1>6 DEF Recursion
  <2>2. ASSUME NEW i \in 1 .. n PROVE f[i] = next(i, f[i - 1])
    <3>1. i - 1 \in 0 .. n
      BY <1>1
    <3>2. f[i] = step[<<i, f[i - 1]>>]
      BY <1>6 DEF Recursion
    <3>3. <<i, f[i - 1]>> \in (1 .. n) \X T
      BY <2>1, <3>1
    <3> QED
      BY <3>2, <3>3
  <2>3. \A i \in 0 .. n : i = 0 \/ i \in 1 .. n
    BY <1>1
  <2>4. f = [i \in 0 .. n |-> f[i]]
    BY <2>1
  <2> HIDE DEF step
  <2> QED
    BY <2>1, <2>2, <2>3, <2>4
<1>8. Good(g)
  BY <1>7, Zenon
<1> HIDE DEF g
<1>9. g[0] = s /\ \A i \in 1 .. n : g[i] = next(i, g[i - 1])
  <2>1. 0 \in 0 .. n /\ \A i \in 1 .. n : i \in 0 .. n /\ i # 0
    BY <1>1
  <2> QED
    BY <1>8, <2>1
<1>10. \A i \in 0 .. n : g[i] \in T
  <2>1. \A i \in 1 .. n : g[i - 1] \in T => g[i] \in T
    BY <1>4, <1>9
  <2> QED
    BY <1>1, <1>3, <1>9, <2>1, RecursionKeeps
<1>11. ASSUME NEW i \in 1 .. n
       PROVE  LET old == g[i - 1].dispatched IN
              /\ Ascends(old[c]) /\ (w[i] # Foreign => Below(old[c], w[i].number)) => Ascends(g[i].dispatched[c])
              /\ \A x \in Nat : Below(old[c], x) /\ (w[i] # Foreign => w[i].number < x) => Below(g[i].dispatched[c], x)
              /\ \A d \in Connection \ {c} : g[i].dispatched[d] = old[d]
  <2>1. i - 1 \in 0 .. n
    BY <1>1
  <2>2. Sound(g[i - 1])
    BY <1>10, <2>1 DEF T
  <2>3. g[i] = Processed(g[i - 1], c, w[i], noise)
    BY <1>9 DEF next
  <2>4. w[i] \in RpcPacket
    BY <1>1
  <2> DEFINE o == g[i - 1]
             h == g[i]
             q == w[i]
  <2>5. Sound(o) /\ q \in RpcPacket /\ h = Processed(o, c, q, noise)
    BY <2>2, <2>3, <2>4
  <2> HIDE DEF o, h, q
  <2>6. /\ Ascends(o.dispatched[c]) /\ (q # Foreign => Below(o.dispatched[c], q.number)) => Ascends(h.dispatched[c])
        /\ \A x \in Nat : Below(o.dispatched[c], x) /\ (q # Foreign => q.number < x) => Below(h.dispatched[c], x)
        /\ \A d \in Connection \ {c} : h.dispatched[d] = o.dispatched[d]
    BY <2>5, ProcessedSound
  <2> QED
    BY <2>6 DEF o, h, q
<1>12. n \in 0 .. n
  BY <1>1
<1>13. Sound(new)
  BY <1>2, <1>10, <1>12 DEF T
<1>14. \A i \in 1 .. n : w[i] # Foreign => w[i].number \in Nat
  BY <1>1 DEF RpcPacket
<1>15. Ascends(new.dispatched[c])
  <2> DEFINE Ahead(i) == \A j \in 1 .. n : j > i /\ w[j] # Foreign => Below(g[i].dispatched[c], w[j].number)
             S == {i \in Nat : i <= n => Ascends(g[i].dispatched[c]) /\ Ahead(i)}
  <2>1. 0 \in S
    BY <1>1, <1>9 DEF After
  <2>2. ASSUME NEW i \in Nat, i \in S PROVE i + 1 \in S
    <3>1. SUFFICES ASSUME i + 1 <= n PROVE Ascends(g[i + 1].dispatched[c]) /\ Ahead(i + 1)
      OBVIOUS
    <3>2. i + 1 \in 1 .. n /\ (i + 1) - 1 = i /\ i <= n /\ i + 1 > i
      BY <1>1, <3>1
    <3>3. Ascends(g[i].dispatched[c]) /\ Ahead(i)
      BY <2>2, <3>2
    <3>4. /\ Ascends(g[i].dispatched[c]) /\ (w[i + 1] # Foreign => Below(g[i].dispatched[c], w[i + 1].number))
              => Ascends(g[i + 1].dispatched[c])
          /\ \A x \in Nat : Below(g[i].dispatched[c], x) /\ (w[i + 1] # Foreign => w[i + 1].number < x)
                => Below(g[i + 1].dispatched[c], x)
      BY <1>11, <3>2
    <3>5. Ascends(g[i + 1].dispatched[c])
      BY <3>2, <3>3, <3>4
    <3>6. ASSUME NEW j \in 1 .. n, j > i + 1, w[j] # Foreign PROVE Below(g[i + 1].dispatched[c], w[j].number)
      <4>1. j > i /\ w[j].number \in Nat
        BY <1>14, <3>6
      <4>2. Below(g[i].dispatched[c], w[j].number)
        BY <3>3, <3>6, <4>1
      <4>3. w[i + 1] # Foreign => w[i + 1].number < w[j].number
        BY <1>1, <3>2, <3>6 DEF InTurn
      <4> QED
        BY <3>4, <4>1, <4>2, <4>3
    <3> QED
      BY <3>5, <3>6
  <2> HIDE DEF S
  <2>3. n \in S
    BY <1>1, <2>1, <2>2, SetInduction
  <2> QED
    BY <1>1, <1>2, <2>3 DEF S
<1>16. ASSUME NEW x \in Nat, Below(s.dispatched[c], x), NumberedBelow(w, x) PROVE Below(new.dispatched[c], x)
  <2> DEFINE U == {y \in T : Below(y.dispatched[c], x)}
  <2>1. g[0] \in U
    BY <1>3, <1>9, <1>16
  <2>2. ASSUME NEW i \in 1 .. n, g[i - 1] \in U PROVE g[i] \in U
    <3>1. g[i] \in T
      <4>1. i \in 0 .. n
        BY <1>1
      <4> QED
        BY <1>10, <4>1
    <3>2. w[i] # Foreign => w[i].number < x
      BY <1>1, <1>16 DEF NumberedBelow
    <3> QED
      BY <1>11, <2>2, <3>1, <3>2
  <2> HIDE DEF U
  <2>3. g[n] \in U
    BY <1>1, <1>12, <2>1, <2>2, RecursionKeeps
  <2> QED
    BY <1>2, <2>3 DEF U
<1>17. ASSUME NEW d \in Connection \ {c} PROVE new.dispatched[d] = s.dispatched[d]
  <2> DEFINE U == {y \in T : y.dispatched[d] = s.dispatched[d]}
  <2>1. g[0] \in U
    BY <1>3, <1>9
  <2>2. ASSUME NEW i \in 1 .. n, g[i - 1] \in U PROVE g[i] \in U
    <3>1. g[i] \in T
      <4>1. i \in 0 .. n
        BY <1>1
      <4> QED
        BY <1>10, <4>1
    <3> QED
      BY <1>11, <2>2, <3>1
  <2> HIDE DEF U
  <2>3. g[n] \in U
    BY <1>1, <1>12, <2>1, <2>2, RecursionKeeps
  <2> QED
    BY <1>2, <2>3 DEF U
<1> QED
  BY <1>13, <1>15, <1>16, <1>17

-----------------------------------------------------------------------------
Limits == [buckets |-> buckets, drops |-> drops, dispatched |-> dispatched, verdicts |-> verdicts]

(* The inductive invariant of the rpc.  Every bucket agrees with the       *)
(* verdicts of its limit, the dispatched messages ascend, and what has     *)
(* arrived is newer than all of them.                                      *)
RpcInv ==
    /\ now \in Nat /\ packetCount \in Nat /\ Sound(Limits)
    /\ packets \in [Connection -> Seq(RpcPacket)]
    /\ \A c \in Connection :
          /\ Ascends(dispatched[c]) /\ Below(dispatched[c], packetCount + 1)
          /\ InTurn(packets[c]) /\ NumberedBelow(packets[c], packetCount + 1) /\ After(dispatched[c], packets[c])

LEMMA RpcInitial == RpcInit => RpcInv
<1> SUFFICES ASSUME RpcInit PROVE RpcInv
  OBVIOUS
<1>1. /\ now = 0 /\ packetCount = 0 /\ packets = [c \in Connection |-> <<>>] /\ buckets = << >>
      /\ drops = [c \in Connection |-> 0] /\ dispatched = [c \in Connection |-> <<>>]
      /\ verdicts = [c \in Connection |-> <<>>]
  BY DEF RpcInit
<1>2. Limits \in RpcState
  <2>1. << >> \in [{} -> Bucket]
    OBVIOUS
  <2>2. {} \in SUBSET (Connection \X LimitKey)
    OBVIOUS
  <2>3. buckets \in UNION {[D -> Bucket] : D \in SUBSET (Connection \X LimitKey)}
    BY <1>1, <2>1, <2>2
  <2>4. /\ drops \in [Connection -> Nat] /\ dispatched \in [Connection -> Seq(Nat)]
        /\ verdicts \in [Connection -> Seq(Verdict)]
    BY <1>1
  <2> QED
    BY <2>3, <2>4 DEF Limits, RpcState
<1>3. ASSUME NEW c \in Connection PROVE ConnSound(Limits, c)
  <2>1. Limits.verdicts[c] = <<>> /\ Limits.dispatched[c] = <<>> /\ Limits.drops[c] = 0 /\ DOMAIN Limits.buckets = {}
    BY <1>1 DEF Limits
  <2>2. Admitted(<<>>) = {} /\ BudgetExact(<<>>) /\ \A key : Of(<<>>, key) = {}
    BY DEF Admitted, BudgetExact, Of
  <2>3. Cardinality({}) = 0
    BY FS_EmptySet
  <2>4. Len(<<>>) = 0 /\ 0 + 0 = 0 /\ 0 <= 0
    OBVIOUS
  <2> QED
    BY <2>1, <2>2, <2>3, <2>4 DEF ConnSound
<1>4. ASSUME NEW c \in Connection
      PROVE  /\ Ascends(dispatched[c]) /\ Below(dispatched[c], packetCount + 1)
             /\ InTurn(packets[c]) /\ NumberedBelow(packets[c], packetCount + 1) /\ After(dispatched[c], packets[c])
  BY <1>1 DEF Ascends, Below, InTurn, NumberedBelow, After
<1> QED
  BY <1>1, <1>2, <1>3, <1>4 DEF RpcInv, Sound

LEMMA SentStep ==
    ASSUME RpcInv, NEW c \in Connection, NEW p \in RpcPacket, p = Foreign \/ p.number = packetCount + 1, Transmitted(c, p)
    PROVE  RpcInv'
<1>1. /\ packets' = [packets EXCEPT ![c] = Append(@, p)] /\ packetCount' = packetCount + 1
      /\ UNCHANGED <<now, buckets, drops, dispatched, verdicts>>
  BY DEF Transmitted
<1>2. /\ now \in Nat /\ packetCount \in Nat /\ Sound(Limits) /\ packets \in [Connection -> Seq(RpcPacket)]
      /\ dispatched \in [Connection -> Seq(Nat)]
  BY DEF RpcInv, Sound, RpcState, Limits
<1>3. Sound(Limits)'
  <2>1. Limits' = Limits
    BY <1>1 DEF Limits
  <2>2. ASSUME NEW d \in Connection PROVE ConnSound(Limits, d)'
    <3>1. ConnSound(Limits, d)
      BY <1>2 DEF Sound
    <3> QED
      BY <1>1, <2>1, <3>1 DEF ConnSound, BucketSound
  <2> QED
    BY <1>2, <2>1, <2>2 DEF Sound, RpcState
<1>4. packets' \in [Connection -> Seq(RpcPacket)]
  BY <1>1, <1>2
<1>5. ASSUME NEW d \in Connection
      PROVE  /\ Ascends(dispatched[d]) /\ Below(dispatched[d], packetCount + 2)
             /\ InTurn(packets'[d]) /\ NumberedBelow(packets'[d], packetCount + 2) /\ After(dispatched[d], packets'[d])
  <2> DEFINE w == packets[d]
             n == Len(w) + 1
  <2>1. /\ Ascends(dispatched[d]) /\ Below(dispatched[d], packetCount + 1)
        /\ InTurn(w) /\ NumberedBelow(w, packetCount + 1) /\ After(dispatched[d], w)
    BY DEF RpcInv
  <2>2. Below(dispatched[d], packetCount + 2)
    BY <1>2, <2>1 DEF Below
  <2>3. w \in Seq(RpcPacket)
    BY <1>2
  <2>4. \A i \in DOMAIN w : w[i] # Foreign => w[i].number \in Nat
    BY <2>3 DEF RpcPacket
  <2>5. NumberedBelow(w, packetCount + 2)
    BY <1>2, <2>1, <2>4 DEF NumberedBelow
  <2>6. CASE d # c
    <3>1. packets'[d] = w
      BY <1>1, <1>2, <2>6
    <3> HIDE DEF w
    <3> QED
      BY <2>1, <2>2, <2>5, <3>1
  <2>7. CASE d = c
    <3>1. packets'[d] = Append(w, p)
      BY <1>1, <1>2, <2>7
    <3> DEFINE v == packets'[d]
    <3>2. /\ n \in Nat /\ DOMAIN w = 1 .. n - 1 /\ DOMAIN v = 1 .. n /\ v[n] = p
          /\ \A i \in 1 .. n - 1 : v[i] = w[i]
      BY <2>3, <3>1
    <3> HIDE DEF w, v, n
    <3>3. \A i \in 1 .. n : i = n \/ i \in 1 .. n - 1
      BY <3>2
    <3>4. NumberedBelow(v, packetCount + 2)
      <4>1. packetCount + 1 < packetCount + 2
        BY <1>2
      <4> QED
        BY <2>5, <3>2, <3>3, <4>1 DEF NumberedBelow
    <3>5. After(dispatched[d], v)
      BY <2>1, <3>2, <3>3 DEF After
    <3>6. ASSUME NEW i \in 1 .. n, NEW j \in 1 .. n, i < j, v[i] # Foreign, v[j] # Foreign PROVE v[i].number < v[j].number
      <4>1. i \in 1 .. n - 1
        BY <3>2, <3>6
      <4>2. CASE j = n
        BY <2>1, <3>2, <3>6, <4>1, <4>2 DEF NumberedBelow
      <4>3. CASE j # n
        BY <2>1, <3>2, <3>3, <3>6, <4>1, <4>3 DEF InTurn
      <4> QED
        BY <4>2, <4>3
    <3>7. InTurn(v)
      BY <3>2, <3>6 DEF InTurn
    <3> QED
      BY <2>1, <2>2, <3>4, <3>5, <3>7 DEF v
  <2> QED
    BY <2>6, <2>7
<1>6. packetCount' \in Nat /\ packetCount' + 1 = packetCount + 2
  BY <1>1, <1>2
<1> QED
  BY <1>1, <1>2, <1>3, <1>4, <1>5, <1>6 DEF RpcInv

LEMMA RpcReceiveStep ==
    ASSUME RpcInv, NEW c \in Connection, NEW noise \in Noise, RpcReceive(c, noise)
    PROVE  RpcInv'
<1> DEFINE after == ReadAll(Limits, c, packets[c], noise)
<1>1. /\ packets' = [packets EXCEPT ![c] = <<>>] /\ UNCHANGED <<now, packetCount>>
      /\ buckets' = after.buckets /\ drops' = after.drops /\ dispatched' = after.dispatched /\ verdicts' = after.verdicts
  BY DEF RpcReceive, Limits
<1>2. /\ now \in Nat /\ packetCount \in Nat /\ Sound(Limits) /\ packets \in [Connection -> Seq(RpcPacket)]
      /\ Limits.dispatched = dispatched
  BY DEF RpcInv, Limits
<1>3. \A d \in Connection :
          /\ Ascends(dispatched[d]) /\ Below(dispatched[d], packetCount + 1)
          /\ InTurn(packets[d]) /\ NumberedBelow(packets[d], packetCount + 1) /\ After(dispatched[d], packets[d])
  BY DEF RpcInv
<1>4. packets[c] \in Seq(RpcPacket) /\ packetCount + 1 \in Nat
  BY <1>2
<1>5. /\ Sound(after) /\ Ascends(after.dispatched[c]) /\ Below(after.dispatched[c], packetCount + 1)
      /\ \A d \in Connection \ {c} : after.dispatched[d] = dispatched[d]
  <2>1. /\ Sound(Limits) /\ InTurn(packets[c]) /\ Ascends(Limits.dispatched[c]) /\ After(Limits.dispatched[c], packets[c])
        /\ Below(Limits.dispatched[c], packetCount + 1) /\ NumberedBelow(packets[c], packetCount + 1)
    BY <1>2, <1>3
  <2>2. /\ Sound(after) /\ Ascends(after.dispatched[c])
        /\ \A x \in Nat : Below(Limits.dispatched[c], x) /\ NumberedBelow(packets[c], x) => Below(after.dispatched[c], x)
        /\ \A d \in Connection \ {c} : after.dispatched[d] = Limits.dispatched[d]
    BY <1>2, <1>4, <2>1, ReadSound
  <2> HIDE DEF after
  <2> QED
    BY <1>2, <1>4, <2>1, <2>2
<1> HIDE DEF after
<1>6. Limits' = after
  <2>1. after = [buckets |-> after.buckets, drops |-> after.drops, dispatched |-> after.dispatched, verdicts |-> after.verdicts]
    BY <1>5 DEF Sound, RpcState
  <2> QED
    BY <1>1, <2>1 DEF Limits
<1>7. Sound(Limits)'
  <2>1. ASSUME NEW d \in Connection PROVE ConnSound(Limits, d)'
    <3>1. ConnSound(after, d)
      BY <1>5 DEF Sound
    <3> QED
      BY <1>1, <1>6, <3>1 DEF ConnSound, BucketSound
  <2> QED
    BY <1>5, <1>6, <2>1 DEF Sound, RpcState
<1>8. packets' \in [Connection -> Seq(RpcPacket)] /\ packets'[c] = <<>> /\ \A d \in Connection \ {c} : packets'[d] = packets[d]
  BY <1>1, <1>2
<1>9. ASSUME NEW d \in Connection
      PROVE  /\ Ascends(dispatched'[d]) /\ Below(dispatched'[d], packetCount + 1)
             /\ InTurn(packets'[d]) /\ NumberedBelow(packets'[d], packetCount + 1) /\ After(dispatched'[d], packets'[d])
  <2>1. CASE d = c
    BY <1>1, <1>5, <1>8, <2>1 DEF InTurn, NumberedBelow, After
  <2>2. CASE d # c
    BY <1>1, <1>3, <1>5, <1>8, <2>2
  <2> QED
    BY <2>1, <2>2
<1> QED
  BY <1>1, <1>2, <1>7, <1>8, <1>9 DEF RpcInv

LEMMA TimeStep ==
    ASSUME RpcInv, TimePasses
    PROVE  RpcInv'
<1>1. now' = now + 1 /\ UNCHANGED <<packets, packetCount, buckets, drops, dispatched, verdicts>> /\ now \in Nat
  BY DEF TimePasses, RpcInv
<1>2. now' \in Nat /\ Limits' = Limits
  BY <1>1 DEF Limits
<1>3. ASSUME NEW c \in Connection, NEW key \in LimitKey, <<c, key>> \in DOMAIN buckets, BucketSound(verdicts[c], key, buckets[<<c, key>>])
      PROVE  BucketSound(verdicts[c], key, buckets[<<c, key>>])'
  <2>1. buckets[<<c, key>>] \in Bucket
    BY <1>3 DEF RpcInv, Sound, RpcState, Limits
  <2>2. buckets[<<c, key>>].lastRefill <= now'
    BY <1>1, <1>3, <2>1 DEF BucketSound, Bucket
  <2> QED
    BY <1>1, <1>3, <2>2 DEF BucketSound
<1>4. Sound(Limits)'
  BY <1>1, <1>2, <1>3 DEF RpcInv, Sound, ConnSound, Limits
<1> QED
  BY <1>1, <1>2, <1>4 DEF RpcInv

LEMMA RpcStep == RpcInv /\ [RpcNext]_rpcVars => RpcInv'
<1> SUFFICES ASSUME RpcInv, [RpcNext]_rpcVars PROVE RpcInv'
  OBVIOUS
<1>1. ASSUME NEW c \in Connection, NEW type \in RpcType, NEW size \in Sizes, SendRpc(c, type, size) PROVE RpcInv'
  <2> DEFINE p == [type |-> type, size |-> size, number |-> packetCount + 1]
  <2>1. p \in RpcPacket /\ p.number = packetCount + 1
    BY DEF RpcInv, RpcPacket
  <2>2. Transmitted(c, p)
    BY <1>1 DEF SendRpc
  <2> HIDE DEF p
  <2> QED
    BY <2>1, <2>2, SentStep
<1>2. ASSUME NEW c \in Connection, SendForeign(c) PROVE RpcInv'
  <2>1. Foreign \in RpcPacket
    BY DEF RpcPacket
  <2> QED
    BY <1>2, <2>1, SentStep DEF SendForeign
<1>3. ASSUME NEW c \in Connection, NEW n \in 0 .. MaxNoise, NEW noise \in [1 .. n -> RpcType \cup {"unknown"}], RpcReceive(c, noise)
      PROVE  RpcInv'
  <2>1. n \in Nat
    BY RpcAssumption
  <2>2. noise \in Noise
    BY <2>1 DEF Noise
  <2> QED
    BY <1>3, <2>2, RpcReceiveStep
<1>4. CASE TimePasses
  BY <1>4, TimeStep
<1>5. CASE UNCHANGED rpcVars
  <2>1. UNCHANGED <<now, packets, packetCount, buckets, drops, dispatched, verdicts>>
    BY <1>5 DEF rpcVars
  <2>2. Sound(Limits)'
    BY <2>1 DEF RpcInv, Sound, Limits, RpcState, ConnSound, BucketSound
  <2> QED
    BY <2>1, <2>2 DEF RpcInv
<1> QED
  BY <1>1, <1>2, <1>3, <1>4, <1>5 DEF RpcNext

(* net/rpc.  Buckets agree with the verdicts of their limits, and messages *)
(* are dispatched in the order of their numbers.                           *)
THEOREM RpcInvariant == RpcSpec => []RpcInv
  BY RpcInitial, RpcStep, PTL DEF RpcSpec

(* ratelimit.go, receive.go.  No span admits more than a full bucket and   *)
(* its refill, nothing is refused unless a span is used up, and messages   *)
(* reach their bus in the order they were sent.                            *)
THEOREM RpcLimitsExactHolds == RpcSpec => []RpcLimitsExact
<1>1. RpcInv => RpcLimitsExact
  <2> SUFFICES ASSUME RpcInv, NEW c \in Connection PROVE BudgetExact(verdicts[c]) /\ DispatchInOrder(c)
    BY DEF RpcLimitsExact
  <2>1. ConnSound(Limits, c) /\ Limits.verdicts = verdicts /\ Limits.drops = drops /\ Limits.dispatched = dispatched
    BY DEF RpcInv, Sound, Limits
  <2>2. Ascends(dispatched[c])
    BY DEF RpcInv
  <2> QED
    BY <2>1, <2>2 DEF ConnSound, DispatchInOrder, Ascends, Admitted
<1> QED
  BY <1>1, RpcInvariant, PTL
=============================================================================
