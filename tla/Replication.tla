----------------------------- MODULE Replication -----------------------------
(***************************************************************************)
(* internal/net/replication: one server connection and its client.         *)
(* ChannelSnapshot is unreliable and newest-wins (transport.go:60,         *)
(* udp.go:584), so of the messages about one entity the client sees some,  *)
(* in the order in which they were sent.  Messages about different         *)
(* entities do not touch each other; each entity has a queue of its own.   *)
(* The client's receive system pushes commands that one buffer flushes in  *)
(* order, so applying a message is one step.  A component value is a       *)
(* member of Values, or 0 where the entity does not have the component.    *)
(***************************************************************************)
EXTENDS Integers, Sequences, FiniteSets, SequencesExt

CONSTANTS
    Entities,      \* server entities; the EntityMap is a bijection, so they name the client's too
    Comps,         \* whitelisted components
    Values,
    Budget,        \* components that fit into one frame's updates (bandwidthBudget)
    MaxChangeTick, \* bound: changes of the world's tick
    MaxQueue,      \* bound: with so many messages on the way the server does not send
    MaxDeferrals   \* bound: nor when it has put an entity off so many times

ASSUME ReplicationAssumption ==
    /\ IsFiniteSet(Entities) /\ IsFiniteSet(Comps)
    /\ 0 \notin Values
    /\ {Budget, MaxChangeTick, MaxQueue, MaxDeferrals} \subseteq Nat

VARIABLES
    alive,       \* server entities with the Replicated tag
    spent,       \* server entities that were despawned: their IDs do not come back
    comps,       \* [Entities -> [Comps -> 0 or value]], on the server
    changed,     \* [Entities -> [Comps -> tick of the last write]]
    changeTick,
    vis,         \* connSendState.vis.Entities
    ack,         \* [Entities -> lastAck], NoAck where there is none
    accumulator, \* [Entities -> priorityState.accumulator]
    wire,        \* [Entities -> messages on the way]
    replica,     \* [Entities -> Absent or [Comps -> 0 or value]]: mapped and spawned on the client
    lost,        \* history: entities with a lost message that nothing has repaired
    bare,        \* history: visible entities that had no component when they became visible
    hidden,      \* history: <<entity, component>> written at a tick that counts as acknowledged
    waited,      \* history: [Entities -> frames in a row in which the update was put off]
    oversized    \* history: entities that in one of these frames had an update above the budget

replicationVars == <<alive, spent, comps, changed, changeTick, vis, ack, accumulator, wire, replica, lost, bare, hidden, waited, oversized>>
serverWorld == <<alive, spent, comps, changed, changeTick>>
sendState == <<vis, ack, accumulator, waited, oversized>>

NoComps == [c \in Comps |-> 0]
NoAck == -1
NoAcks == [e \in Entities |-> NoAck]
Absent == <<>>
Present(e) == {c \in Comps : comps[e][c] # 0}

ReplicationInit ==
    /\ alive = {} /\ spent = {}
    /\ comps = [e \in Entities |-> NoComps] /\ changed = [e \in Entities |-> NoComps]
    /\ changeTick = 0
    /\ vis = {} /\ ack = NoAcks
    /\ accumulator = [e \in Entities |-> 0] /\ waited = [e \in Entities |-> 0]
    /\ wire = [e \in Entities |-> <<>>]
    /\ replica = [e \in Entities |-> Absent]
    /\ lost = {} /\ bare = {} /\ hidden = {} /\ oversized = {}

-----------------------------------------------------------------------------
(* The game on the server. *)

Tag(e) ==
    /\ e \notin alive \cup spent
    /\ alive' = alive \cup {e}
    /\ UNCHANGED <<spent, comps, changed, changeTick, sendState, wire, replica, lost, bare, hidden>>

Kill(e) ==
    /\ e \in alive
    /\ alive' = alive \ {e} /\ spent' = spent \cup {e}
    /\ comps' = [comps EXCEPT ![e] = NoComps]
    /\ hidden' = {h \in hidden : h[1] # e}
    /\ UNCHANGED <<changed, changeTick, sendState, wire, replica, lost, bare>>

(* Insert stamps the component with the world's tick; a write after the    *)
(* send of the same tick has a stamp that is already acknowledged.         *)
Write(e, c, v) ==
    /\ e \in alive /\ comps[e][c] # v
    /\ comps' = [comps EXCEPT ![e][c] = v]
    /\ changed' = [changed EXCEPT ![e][c] = changeTick]
    /\ hidden' = IF ack[e] = changeTick THEN hidden \cup {<<e, c>>} ELSE hidden \ {<<e, c>>}
    /\ UNCHANGED <<alive, spent, changeTick, sendState, wire, replica, lost, bare>>

(* Nothing sends a MsgComponentRemove. *)
Strip(e, c) ==
    /\ comps[e][c] # 0
    /\ comps' = [comps EXCEPT ![e][c] = 0]
    /\ UNCHANGED <<alive, spent, changed, changeTick, sendState, wire, replica, lost, bare, hidden>>

IncrementChangeTick ==
    /\ changeTick < MaxChangeTick
    /\ changeTick' = changeTick + 1
    /\ UNCHANGED <<alive, spent, comps, changed, sendState, wire, replica, lost, bare, hidden>>

-----------------------------------------------------------------------------
(* ReplicationSendSystem *)

NeedsSend(e, t) == ack[e] = NoAck \/ t > ack[e]

ChangedComponents(e) == {c \in Present(e) : NeedsSend(e, changed[e][c])}

Message(e, kind, cs) == [kind |-> kind, data |-> [c \in cs |-> comps[e][c]]]

(* The updates that fit when they are taken in the order given. *)
Fitting(order) ==
    LET taken[i \in 0 .. Len(order)] ==
            IF i = 0 THEN [remaining |-> Budget, sent |-> {}]
            ELSE LET cost == Cardinality(ChangedComponents(order[i]))
                     before == taken[i - 1]
                 IN  IF before.remaining >= cost
                     THEN [remaining |-> before.remaining - cost, sent |-> before.sent \cup {order[i]}]
                     ELSE before
    IN  taken[Len(order)].sent

(* sortByPriority, which leaves the order of equals open. *)
ByPriority(pending) ==
    {order \in SetToSeqs(pending) :
        \A i, j \in 1 .. Len(order) : i < j => accumulator[order[i]] >= accumulator[order[j]]}

(* Mutant: the client is told only of entities that are still alive. *)
QueuedForLiving(e, spawned, removed, sent) ==
    CASE e \in spawned -> <<Message(e, "spawn", Present(e))>>
      [] e \in removed /\ e \in alive -> <<Message(e, "despawn", {})>>
      [] e \in sent -> <<Message(e, "update", ChangedComponents(e))>>
      [] OTHER -> <<>>

(* What one frame sends about an entity. *)
Queued(e, spawned, removed, sent) ==
    CASE e \in spawned -> <<Message(e, "spawn", Present(e))>>
      [] e \in removed -> <<Message(e, "despawn", {})>>
      [] e \in sent -> <<Message(e, "update", ChangedComponents(e))>>
      [] OTHER -> <<>>

(* One frame's Run, with the visibility the connection's policy computes.  *)
Send(newVis) ==
    LET added == newVis \ vis
        removed == vis \ newVis
        spawned == {e \in added : Present(e) # {}}
        pending == {e \in newVis \ added : ChangedComponents(e) # {}}
        too_large == {e \in pending : Cardinality(ChangedComponents(e)) > Budget}
    IN /\ newVis \subseteq alive
       /\ MapThenSumSet(LAMBDA e : Len(wire[e]), Entities) < MaxQueue
       /\ vis' = newVis
       /\ \E order \in ByPriority(pending) : LET sent == Fitting(order) IN
            /\ wire' = [e \in Entities |-> wire[e] \o Queued(e, spawned, removed, sent)]
            /\ ack' = [e \in Entities |-> IF e \in removed THEN NoAck
                                          ELSE IF e \in spawned \cup sent THEN changeTick ELSE ack[e]]
            /\ accumulator' = [e \in Entities |-> IF e \in sent \cup removed THEN 0
                                                  ELSE IF e \in pending THEN accumulator[e] + 1 ELSE accumulator[e]]
            /\ waited' = [e \in Entities |-> IF e \in pending \ sent THEN waited[e] + 1 ELSE 0]
            /\ oversized' = (oversized \cap (pending \ sent)) \cup too_large
       /\ bare' = (bare \cup (added \ spawned)) \ removed
       /\ hidden' = {h \in hidden : h[1] \notin spawned \cup removed}
       /\ UNCHANGED <<serverWorld, replica, lost>>

-----------------------------------------------------------------------------
(* ReplicationReceiveSystem, for the next message about an entity. *)

Merged(old, data) == [c \in Comps |-> IF c \in DOMAIN data THEN data[c] ELSE old[c]]

ApplyMessage(e) ==
    /\ wire[e] # <<>>
    /\ wire' = [wire EXCEPT ![e] = Tail(@)]
    /\ LET m == Head(wire[e]) IN
       CASE m.kind = "spawn" ->
              /\ replica' = [replica EXCEPT ![e] = Merged(IF @ = Absent THEN NoComps ELSE @, m.data)]
              /\ lost' = lost \ {e}
         [] m.kind = "despawn" ->
              /\ replica' = [replica EXCEPT ![e] = Absent]
              /\ lost' = lost \ {e}
         [] OTHER ->
              /\ replica' = [replica EXCEPT ![e] = IF @ = Absent THEN Absent ELSE Merged(@, m.data)]
              /\ UNCHANGED lost
    /\ UNCHANGED <<serverWorld, sendState, bare, hidden>>

(* A datagram is lost, or overtaken by a later one of the channel. *)
Lose(e) ==
    /\ wire[e] # <<>>
    /\ wire' = [wire EXCEPT ![e] = Tail(@)]
    /\ lost' = lost \cup {e}
    /\ UNCHANGED <<serverWorld, sendState, replica, bare, hidden>>

(* The connection ends and the client connects again: ensureConn makes a   *)
(* new state for the new ConnectionID, the client keeps its EntityMap.     *)
Reconnect ==
    /\ vis' = {} /\ ack' = NoAcks
    /\ accumulator' = [e \in Entities |-> 0] /\ waited' = accumulator' /\ oversized' = {}
    /\ wire' = [e \in Entities |-> <<>>]
    /\ lost' = {e \in Entities : replica[e] # Absent}
    /\ bare' = {} /\ hidden' = {}
    /\ UNCHANGED <<serverWorld, replica>>

ReplicationNext ==
    \/ \E e \in Entities : Tag(e) \/ Kill(e) \/ ApplyMessage(e) \/ Lose(e)
    \/ \E e \in Entities, c \in Comps : Strip(e, c) \/ \E v \in Values : Write(e, c, v)
    \/ IncrementChangeTick
    \/ /\ \A e \in Entities : accumulator[e] < MaxDeferrals
       /\ \E newVis \in SUBSET Entities : Send(newVis)
    \/ Reconnect

ReplicationSpec == ReplicationInit /\ [][ReplicationNext]_replicationVars

-----------------------------------------------------------------------------
(* delta.go:8-15, send.go:54.  With nothing about an entity on the way,    *)
(* the client has it exactly if it is visible, with the server's values.   *)
(* There are four ways out: a lost message is never sent again, an entity  *)
(* that became visible without components is never spawned, a write after  *)
(* the send of its tick counts as acknowledged, and removed components     *)
(* stay on the client.                                                     *)
Synced ==
    \A e \in Entities \ (lost \cup bare) : wire[e] = <<>> =>
        IF e \in vis
        THEN /\ replica[e] # Absent
             /\ \A c \in Present(e) :
                    replica[e][c] = comps[e][c] \/ NeedsSend(e, changed[e][c]) \/ <<e, c>> \in hidden
        ELSE replica[e] = Absent

(* priority.go:15-17.  Deferred entities gain priority, "preventing        *)
(* starvation": an update is put off in fewer frames than there are        *)
(* entities, unless it was larger than the whole budget in one of them.    *)
NoStarvation == \A e \in Entities : waited[e] < Cardinality(Entities) \/ e \in oversized

(* The same without the exception: send.go:176 skips such an update in     *)
(* every frame.                                                            *)
NothingStarves == \A e \in Entities : waited[e] < Cardinality(Entities)

ReplicaSound == Synced /\ NoStarvation

(* delta.go:23-25, read as a promise: what the client has not received is  *)
(* sent again.  UpdateAck runs when the message is queued.                 *)
LossRepaired ==
    \A e \in vis, c \in Comps :
        wire[e] = <<>> /\ comps[e][c] # 0 /\ ~NeedsSend(e, changed[e][c]) =>
            replica[e] # Absent /\ replica[e][c] = comps[e][c]
=============================================================================
