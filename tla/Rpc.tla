-------------------------------- MODULE Rpc --------------------------------
(***************************************************************************)
(* net/rpc: messages encoded into packets, decoded by RpcReceiveSystem     *)
(* once per frame, and the token buckets of RpcRateLimit in between.  The  *)
(* transport below keeps the order of a connection's packets.  Tokens and  *)
(* time are integers: a time unit is 1/Resolution second, a token is       *)
(* Resolution units, so a rate of r per second adds r units per time unit. *)
(* ForgetConnection has no caller.                                         *)
(***************************************************************************)
EXTENDS Naturals, Sequences, FiniteSets

CONSTANTS
    Connection,
    RpcType,        \* registered types
    TypeRate,       \* type -> rate, where SetTypeLimit was called
    GlobalRate,     \* of a connection, for every other type
    Resolution,     \* time units of a second
    LengthBase,     \* 2^16, what the length field counts to
    Sizes,          \* payload lengths
    MaxTime,        \* bound: time
    MaxSent,        \* bound: packets
    MaxNoise        \* bound: messages read from bytes that are none

ASSUME RpcAssumption ==
    /\ DOMAIN TypeRate \subseteq RpcType
    /\ GlobalRate \in Nat /\ \A t \in DOMAIN TypeRate : TypeRate[t] \in Nat
    /\ {Resolution, LengthBase} \subseteq Nat \ {0}
    /\ Sizes \subseteq Nat /\ {MaxTime, MaxSent, MaxNoise} \subseteq Nat

VARIABLES
    now,         \* time.Now
    packets,     \* connection -> what has arrived since the last frame
    packetCount, \* packets so far
    buckets,     \* RpcRateLimit.buckets: <<connection, key>> -> [tokens, lastRefill]
    drops,       \* RpcRateLimit.drops
    dispatched,  \* connection -> messages that reached their event bus
    verdicts     \* history: [conn, key, at, ok] of every Allow

rpcVars == <<now, packets, packetCount, buckets, drops, dispatched, verdicts>>

(* Foreign is a packet of another subsystem: the queue has them all. *)
Foreign == [type |-> "none", size |-> 0, number |-> 0]

RpcInit ==
    /\ now = 0
    /\ packets = [c \in Connection |-> <<>>] /\ packetCount = 0
    /\ buckets = << >> /\ drops = [c \in Connection |-> 0]
    /\ dispatched = [c \in Connection |-> <<>>] /\ verdicts = [c \in Connection |-> <<>>]

-----------------------------------------------------------------------------
Key(type) == IF type \in DOMAIN TypeRate THEN type ELSE "global"
Rate(key) == IF key = "global" THEN GlobalRate ELSE TypeRate[key]
Capacity(key) == Rate(key) * Resolution

(* Mutant: the refill has no ceiling. *)
RefilledUncapped(b, key) == [tokens |-> b.tokens + (now - b.lastRefill) * Rate(key), lastRefill |-> now]

(* The first half of TokenBucket.Allow. *)
Refilled(b, key) ==
    LET full == b.tokens + (now - b.lastRefill) * Rate(key)
    IN [tokens |-> IF full > Capacity(key) THEN Capacity(key) ELSE full, lastRefill |-> now]

(* RpcRateLimit.Allow and RecordDrop, on s = [buckets, drops, dispatched,  *)
(* verdicts]: a bucket is made full at its first use.                      *)
Limited(s, c, m) ==
    LET key == Key(m.type)
        found == IF <<c, key>> \in DOMAIN s.buckets THEN s.buckets[<<c, key>>]
                 ELSE [tokens |-> Capacity(key), lastRefill |-> now]
        b == Refilled(found, key)
        ok == b.tokens >= Resolution
        left == [b EXCEPT !.tokens = IF ok THEN @ - Resolution ELSE @]
    IN [s EXCEPT !.buckets = [k \in DOMAIN s.buckets \cup {<<c, key>>} |-> IF k = <<c, key>> THEN left ELSE s.buckets[k]],
                 !.drops[c] = IF ok THEN @ ELSE @ + 1,
                 !.dispatched[c] = IF ok /\ m.whole THEN Append(@, m.number) ELSE @,
                 !.verdicts[c] = Append(@, [key |-> key, at |-> now, ok |-> ok])]

(* processPacket: what is decoded from a packet.  A length that does not   *)
(* fit the field is cut, so the payload does not parse, and the rest is    *)
(* read as messages too; like a foreign packet's bytes they have any type, *)
(* registered or not, and never parse.                                     *)
Decoded(p, noise) ==
    (IF p = Foreign THEN <<>>
     ELSE << [type |-> p.type, number |-> p.number, whole |-> p.size < LengthBase] >>)
    \o (IF p = Foreign \/ p.size >= LengthBase
        THEN [i \in DOMAIN noise |-> [type |-> noise[i], number |-> 0, whole |-> FALSE]] ELSE <<>>)

Processed(s, c, p, noise) ==
    LET read == Decoded(p, noise)
        after[i \in 0 .. Len(read)] == IF i = 0 THEN s ELSE Limited(after[i - 1], c, read[i])
    IN  after[Len(read)]

(* Run goes through the packets of the frame. *)
ReadAll(s, c, arrived, noise) ==
    LET after[i \in 0 .. Len(arrived)] == IF i = 0 THEN s ELSE Processed(after[i - 1], c, arrived[i], noise)
    IN  after[Len(arrived)]

-----------------------------------------------------------------------------
Transmitted(c, p) ==
    /\ packetCount < MaxSent
    /\ packets' = [packets EXCEPT ![c] = Append(@, p)]
    /\ packetCount' = packetCount + 1
    /\ UNCHANGED <<now, buckets, drops, dispatched, verdicts>>

(* Send[T]: EncodeRpcMessage and the transport. *)
SendRpc(c, type, size) == Transmitted(c, [type |-> type, size |-> size, number |-> packetCount + 1])

SendForeign(c) == Transmitted(c, Foreign)

(* networkReceive drains what has arrived, RpcReceiveSystem.Run goes       *)
(* through it; connections share nothing, so one at a time.                *)
RpcReceive(c, noise) ==
    LET before == [buckets |-> buckets, drops |-> drops, dispatched |-> dispatched, verdicts |-> verdicts]
        after == ReadAll(before, c, packets[c], noise)
    IN /\ packets[c] # <<>>
       /\ packets' = [packets EXCEPT ![c] = <<>>]
       /\ buckets' = after.buckets /\ drops' = after.drops
       /\ dispatched' = after.dispatched /\ verdicts' = after.verdicts
       /\ UNCHANGED <<now, packetCount>>

TimePasses ==
    /\ now < MaxTime
    /\ now' = now + 1
    /\ UNCHANGED <<packets, packetCount, buckets, drops, dispatched, verdicts>>

RpcNext ==
    \/ \E c \in Connection :
        \/ \E type \in RpcType, size \in Sizes : SendRpc(c, type, size)
        \/ SendForeign(c)
        \/ \E n \in 0 .. MaxNoise : \E noise \in [1 .. n -> RpcType \cup {"unknown"}] : RpcReceive(c, noise)
    \/ TimePasses

RpcSpec == RpcInit /\ [][RpcNext]_rpcVars

-----------------------------------------------------------------------------
(* ratelimit.go.  Of each connection and limit, no span of time admits     *)
(* more than a full bucket and what the span refills; and nothing is       *)
(* refused unless some span that ends there is used up, so nobody pays for *)
(* another connection or another limit.                                    *)
BudgetExact(log) ==
    \A j \in DOMAIN log :
        LET v == log[j]
            spans == {i \in 1 .. j : log[i].key = v.key}
            used(i) == Cardinality({k \in spans : k >= i /\ log[k].ok}) * Resolution
            granted(i) == Capacity(v.key) + (v.at - log[i].at) * Rate(v.key)
        IN IF v.ok THEN \A i \in spans : used(i) <= granted(i)
           ELSE \E i \in spans : used(i) + Resolution > granted(i)

(* Messages reach their bus at most once and in the order they were sent,  *)
(* only with a verdict each, and every other verdict left a trace: it was  *)
(* refused and counted, or for bytes that do not parse.                    *)
DispatchInOrder(c) ==
    LET admitted == Cardinality({i \in DOMAIN verdicts[c] : verdicts[c][i].ok}) IN
    /\ \A i, j \in DOMAIN dispatched[c] : i < j => dispatched[c][i] < dispatched[c][j]
    /\ Len(dispatched[c]) <= admitted
    /\ drops[c] + admitted = Len(verdicts[c])

RpcLimitsExact == \A c \in Connection : BudgetExact(verdicts[c]) /\ DispatchInOrder(c)

(* RpcRateLimit is for RPC messages: bytes of other channels take tokens.  *)
OnlyRpcsPay == \A c \in Connection : Len(verdicts[c]) <= packetCount
=============================================================================
