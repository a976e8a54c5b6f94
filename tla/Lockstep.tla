------------------------------ MODULE Lockstep ------------------------------
(***************************************************************************)
(* internal/net/lockstep over internal/net (input.go, rollback.go,         *)
(* snapshot.go, systems.go): every peer advances a tick when it has every  *)
(* peer's input for InputDelay ticks ahead.  A peer's state is its own, so *)
(* the systems of one frame are one action, and each packet that the frame *)
(* drains is an action before it.  ChannelEvents is reliable but           *)
(* unordered (transport.go:55).  Speculation and late joins are off.       *)
(***************************************************************************)
EXTENDS Integers, Sequences, FiniteSets

CONSTANTS
    Nodes,             \* the players; a player's connection has its number
    InputDelay,
    InputRing,         \* slots of the InputBuffer (128)
    ChecksumInterval,
    SnapshotCapacity,
    TimeoutFrames,     \* InputTimeout, in frames of a stalled peer
    Fickle,            \* bound: the players who do something else in every stalled frame
    MaxTick,           \* bound: ticks simulated
    MaxInFlight        \* bound: packets on the way to a node when another one sends

ASSUME LockstepAssumption ==
    /\ {InputDelay, InputRing, ChecksumInterval, SnapshotCapacity} \subseteq Nat \ {0}
    /\ InputRing > InputDelay + 1 /\ Fickle \subseteq Nodes
    /\ {TimeoutFrames, MaxTick, MaxInFlight} \subseteq Nat

VARIABLES
    tick,       \* [Nodes -> last simulated tick] (currentTick, and the coordinator's current)
    peers,      \* [Nodes -> players whose input is waited for]
    stall,      \* [Nodes -> frames since stallSince]
    halted,     \* nodes that found a desync
    ring,       \* [Nodes -> [0 .. InputRing - 1 -> [Nodes -> input]]]
    executed,   \* [Nodes -> inputs of each simulated tick]: the simulation is a function of it
    net,        \* packets on the way
    checks,     \* [Nodes -> checksums among the packets of this frame]
    cut,        \* pairs <<n, m>> whose connection is closed
    recaptured, \* history: <<player, tick>> whose input was captured again with another value
    displaced,  \* history: nodes that lost an input of a tick they had not simulated
    missed      \* history: <<n, m, tick>>: m's checksum reached n after n's snapshot was evicted

lockstepVars == <<tick, peers, stall, halted, ring, executed, net, checks, cut, recaptured, displaced, missed>>

NoInput == [tick |-> 0, val |-> 0]   \* no tick below InputDelay has an input

LockstepInit ==
    /\ tick = [n \in Nodes |-> 0]
    /\ peers = [n \in Nodes |-> Nodes]
    /\ stall = [n \in Nodes |-> 0]
    /\ halted = {}
    /\ ring = [n \in Nodes |-> [i \in 0 .. InputRing - 1 |-> [p \in Nodes |-> NoInput]]]
    /\ executed = [n \in Nodes |-> <<>>]
    /\ net = {} /\ checks = [n \in Nodes |-> {}]
    /\ cut = {} /\ recaptured = {} /\ displaced = {} /\ missed = {}

-----------------------------------------------------------------------------
(* input.go *)

(* RecordInput: inputs of another tick in the slot are dropped. *)
RecordInput(r, t, p, v) ==
    [r EXCEPT ![t % InputRing] =
        [q \in Nodes |-> IF q = p THEN [tick |-> t, val |-> v] ELSE IF @[q].tick = t THEN @[q] ELSE NoInput]]

(* RecordInput of a checksum that is read as an input: its tick is the     *)
(* checksum shifted by 32 bits, so the slot is 0 and no peer's tick.       *)
RecordChecksum(r) == [r EXCEPT ![0] = [q \in Nodes |-> NoInput]]

GetInput(r, t, p) == r[t % InputRing][p].tick = t

(* Mutant: one input of the tick is enough. *)
HasAllPeersAny(r, t, ps) == ps # {} => \E p \in ps : GetInput(r, t, p)

HasAllPeers(r, t, ps) == \A p \in ps : GetInput(r, t, p)

(* What the systems of a tick read from the buffer. *)
Inputs(r, t) == [p \in Nodes |-> IF GetInput(r, t, p) THEN r[t % InputRing][p].val ELSE 0]

Lost(n, new) ==
    \E i \in 0 .. InputRing - 1, p \in Nodes :
        ring[n][i][p].tick > tick[n] /\ new[i][p].tick # ring[n][i][p].tick

-----------------------------------------------------------------------------
Target(n) == tick[n] + InputDelay

(* CaptureInput: what the player does in this frame. *)
Captured(n) == Target(n) * (TimeoutFrames + 2) + (IF n \in Fickle THEN stall[n] ELSE 0) + 1

Prefix(s, t) == SubSeq(s, 1, t)

(* NetworkReceive and RemoteInputSystem, for one packet: every packet of   *)
(* ChannelEvents is decoded as an input.                                   *)
RemoteInput(n, m) ==
    /\ m \in net /\ m.to = n
    /\ net' = net \ {m}
    /\ LET new == IF m.kind = "input" THEN RecordInput(ring[n], m.tick, m.from, m.val) ELSE RecordChecksum(ring[n])
       IN /\ ring' = [ring EXCEPT ![n] = new]
          /\ displaced' = IF Lost(n, new) THEN displaced \cup {n} ELSE displaced
    /\ checks' = IF m.kind = "input" THEN checks ELSE [checks EXCEPT ![n] = @ \cup {m}]
    /\ UNCHANGED <<tick, peers, stall, halted, executed, cut, recaptured, missed>>

(* LocalInputSystem. *)
LocalInput(n) ==
    /\ ring' = [ring EXCEPT ![n] = RecordInput(ring[n], Target(n), n, Captured(n))]
    /\ recaptured' = IF Inputs(ring[n], Target(n))[n] \in {0, Captured(n)} THEN recaptured
                     ELSE recaptured \cup {<<n, Target(n)>>}

(* Mutant: late peers are disconnected and still waited for. *)
DisconnectLatePeersKept(n, laggards) ==
    /\ peers' = peers
    /\ cut' = cut \cup {<<n, m>> : m \in laggards} \cup {<<m, n>> : m \in laggards}
    /\ stall' = [stall EXCEPT ![n] = 0]

DisconnectLatePeers(n, laggards) ==
    /\ peers' = [peers EXCEPT ![n] = @ \ laggards]
    /\ cut' = cut \cup {<<n, m>> : m \in laggards} \cup {<<m, n>> : m \in laggards}
    /\ stall' = [stall EXCEPT ![n] = 0]

(* Step finds an input missing: the stall clock, then the timeout. *)
CheckStallAndTimeout(n) ==
    /\ UNCHANGED <<tick, executed>>
    /\ IF stall[n] < TimeoutFrames
       THEN stall' = [stall EXCEPT ![n] = @ + 1] /\ UNCHANGED <<peers, cut>>
       ELSE DisconnectLatePeers(n, {m \in peers[n] : ~GetInput(ring'[n], Target(n), m)})

(* Mutant: the tick is counted after it was run. *)
AdvanceTickAfter(n) ==
    /\ tick' = [tick EXCEPT ![n] = @ + 1]
    /\ executed' = [executed EXCEPT ![n] = Append(@, Inputs(ring'[n], tick[n]))]
    /\ stall' = [stall EXCEPT ![n] = 0]
    /\ UNCHANGED <<peers, cut>>

(* Step finds all inputs: AdvanceTick runs the tick and snapshots it. *)
AdvanceTick(n) ==
    /\ tick' = [tick EXCEPT ![n] = @ + 1]
    /\ executed' = [executed EXCEPT ![n] = Append(@, Inputs(ring'[n], tick[n] + 1))]
    /\ stall' = [stall EXCEPT ![n] = 0]
    /\ UNCHANGED <<peers, cut>>

Step(n) ==
    IF n \in halted THEN UNCHANGED <<tick, executed, stall, peers, cut>>
    ELSE IF HasAllPeers(ring'[n], Target(n), peers[n]) THEN AdvanceTick(n)
    ELSE CheckStallAndTimeout(n)

(* NetworkSend: the input, and the checksum of a tick that was just run.   *)
(* A disconnected peer's packets are not received any more.                *)
Sent(n) ==
    LET reach == {m \in Nodes \ {n} : <<n, m>> \notin cut'}
        due == tick'[n] # tick[n] /\ tick'[n] % ChecksumInterval = 0
    IN net' = {m \in net : ~(m.to = n /\ <<n, m.from>> \in cut')}
              \cup {[kind |-> "input", from |-> n, to |-> m, tick |-> Target(n), val |-> Captured(n), digest |-> <<>>] :
                       m \in {k \in reach : tick[k] < MaxTick}}
              \cup (IF due THEN {[kind |-> "checksum", from |-> n, to |-> m, tick |-> tick'[n], val |-> 0, digest |-> executed'[n]] : m \in reach}
                    ELSE {})

HasSnapshot(n, t) == t <= tick'[n] /\ t > tick'[n] - SnapshotCapacity

(* Mutant: only the checksum of the last tick is compared. *)
MismatchesLatest(n, m) == m.tick = tick'[n] /\ m.digest # executed'[n]

(* ReceiveChecksum finds its snapshot different.  Inputs are decoded as    *)
(* checksums too, of ticks above 2^32, which have no snapshot.             *)
Mismatches(n, m) == HasSnapshot(n, m.tick) /\ m.digest # Prefix(executed'[n], m.tick)

(* DesyncReceiveSystem. *)
DesyncReceive(n) ==
    /\ checks' = [checks EXCEPT ![n] = {}]
    /\ halted' = IF \E m \in checks[n] : Mismatches(n, m) THEN halted \cup {n} ELSE halted
    /\ missed' = missed \cup {<<n, m.from, m.tick>> : m \in {c \in checks[n] : c.tick <= tick'[n] - SnapshotCapacity}}

(* A frame from FixedUpdate to PostUpdate.  Bound: frames of a halted node *)
(* that only repeat its last input are left out.                           *)
Frame(n) ==
    /\ tick[n] < MaxTick
    /\ n \in halted => ~GetInput(ring[n], Target(n), n)
    /\ \A m \in Nodes \ {n} : Cardinality({k \in net : k.to = m}) <= MaxInFlight
    /\ LocalInput(n)
    /\ Step(n)
    /\ Sent(n)
    /\ DesyncReceive(n)
    /\ UNCHANGED displaced

(* Bound: after MaxTick a node only compares checksums, and no more inputs *)
(* are sent to it.                                                         *)
LastFrame(n) ==
    /\ tick[n] = MaxTick /\ checks[n] # {}
    /\ UNCHANGED <<tick, peers, stall, ring, executed, net, cut, recaptured, displaced>>
    /\ DesyncReceive(n)

LockstepNext == \E n \in Nodes : Frame(n) \/ LastFrame(n) \/ \E m \in net : RemoteInput(n, m)

(* Frames go on, and the channel delivers in the end. *)
LockstepSpec ==
    /\ LockstepInit /\ [][LockstepNext]_lockstepVars
    /\ \A n \in Nodes : WF_lockstepVars(Frame(n)) /\ WF_lockstepVars(\E m \in net : RemoteInput(n, m))

-----------------------------------------------------------------------------
(* l1-lockstep INV-1, INV-2.  Two peers simulate a tick with the same      *)
(* inputs, unless a stalled player's input was captured again, an input    *)
(* was displaced in a ring, or somebody was disconnected.                  *)
AgreeOnInputs ==
    cut = {} /\ displaced = {} =>
        \A a, b \in Nodes : \A t \in DOMAIN executed[a] \cap DOMAIN executed[b] : \A p \in Nodes :
            <<p, t>> \notin recaptured => executed[a][t][p] = executed[b][t][p]

Supplied(n) == \A t \in InputDelay .. tick[n], p \in peers[n] : executed[n][t][p] # 0

(* scheduler.go:127-138.  The inputs the gate saw are still there when the *)
(* tick they belong to is run, InputDelay ticks later, unless one was      *)
(* displaced in the ring.                                                  *)
SuppliedUnlessDisplaced == \A n \in Nodes \ displaced : Supplied(n)

(* l1-lockstep INV-4.  Two peers that are connected and differ at a        *)
(* checksum tick do not both go on once the two checksums have been        *)
(* received: a checksum that comes before its tick is dropped, but then    *)
(* the other one finds the snapshot, unless that was evicted.              *)
DivergenceDetected ==
    \A a, b \in Nodes : \A t \in {s \in 1 .. MaxTick : s % ChecksumInterval = 0} :
        /\ a # b /\ cut \cap {<<a, b>>, <<b, a>>} = {}
        /\ t <= tick[a] /\ t <= tick[b] /\ Prefix(executed[a], t) # Prefix(executed[b], t)
        /\ \A m \in net \cup checks[a] \cup checks[b] : ~(m.kind = "checksum" /\ m.tick = t /\ {m.from, m.to} = {a, b})
        => a \in halted \/ b \in halted \/ missed \cap {<<a, b, t>>, <<b, a, t>>} # {}

(* l1-lockstep INV-5.  No peer waits for ever for another's input. *)
NobodyWaitsForever == \A n \in Nodes : <>(tick[n] = MaxTick \/ n \in halted)

(* scheduler.go:57-58.  "Step advances the simulation by one tick only     *)
(* when every peer has submitted input for currentTick+InputDelay": no     *)
(* tick is run without the input of a peer that is waited for.             *)
NoTickWithoutInputs == \A n \in Nodes : Supplied(n)
=============================================================================
