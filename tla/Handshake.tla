----------------------------- MODULE Handshake -----------------------------
(***************************************************************************)
(* net/transport: how connections open and end (handshake.go, and the      *)
(* goroutine of udp.go).  One listening transport, the server, and clients *)
(* with one socket each; whatever a client connects to is the server.      *)
(*                                                                         *)
(* Control messages are reliable: they are sent until acknowledged and     *)
(* may be lost, repeated or late, so the network is the set of datagrams   *)
(* ever queued, from which any may arrive at any time.  They carry no      *)
(* connection, only their number: every first message of a socket is       *)
(* number 0, every second is number 1, and each connection takes a number  *)
(* once.  One action is one turn of a goroutine, or one request to it.     *)
(***************************************************************************)
EXTENDS Naturals, Sequences, FiniteSets, SequencesExt

CONSTANTS
    Client,         \* addresses of client sockets
    Outdated,       \* those that speak another protoVersion
    MaxConnections, \* NetworkSettings.MaxConnections, of the server
    EventCap,       \* capacity of EventsCh (64)
    MaxConnects,    \* bound: Connect calls of a client
    MaxAccepts      \* bound: connections the server creates

ASSUME HandshakeAssumption ==
    /\ Outdated \subseteq Client
    /\ {MaxConnections, EventCap, MaxConnects, MaxAccepts} \subseteq Nat

VARIABLES
    local,      \* client -> conns: id -> state
    serverID,   \* client -> addrToID of the server's address, 0 for none
    results,    \* client -> what each Connect returned, "waiting" until it does
    closed,     \* clients that were closed
    remote,     \* the server's conns: id -> [addr, state, heard]
    addrToID,   \* the server's addrToID
    nextID,     \* the server's nextID
    events,     \* the server's EventsCh: [id, up]
    toServer, toClient,   \* the datagrams: sets of control messages
    dropped     \* history: clients a connection of which the server ended

handshakeVars == <<local, serverID, results, closed, remote, addrToID, nextID, events, toServer, toClient, dropped>>

HandshakeInit ==
    /\ local = [c \in Client |-> << >>] /\ serverID = [c \in Client |-> 0]
    /\ results = [c \in Client |-> <<>>] /\ closed = {}
    /\ remote = << >> /\ addrToID = << >> /\ nextID = 1 /\ events = <<>>
    /\ toServer = [c \in Client |-> {}] /\ toClient = [c \in Client |-> {}]
    /\ dropped = {}

Without(f, S) == [x \in DOMAIN f \ S |-> f[x]]
With(f, x, v) == [y \in DOMAIN f \cup {x} |-> IF y = x THEN v ELSE f[y]]

(* The select with a default: nobody reads EventsCh. *)
Emitted(id, up) == IF Len(events) < EventCap THEN Append(events, [id |-> id, up |-> up]) ELSE events

-----------------------------------------------------------------------------
(* Connect, addConn and sendConnectRequest; the caller blocks.  A second   *)
(* one to the address takes over its entry.                                *)
Connect(c) ==
    LET id == Len(results[c]) + 1 IN
    /\ c \notin closed /\ id <= MaxConnects
    /\ local' = [local EXCEPT ![c] = With(@, id, "connecting")]
    /\ serverID' = [serverID EXCEPT ![c] = id]
    /\ results' = [results EXCEPT ![c] = Append(@, "waiting")]
    /\ toServer' = [toServer EXCEPT ![c] = @ \cup {{"request"}}]
    /\ UNCHANGED <<closed, remote, addrToID, nextID, events, toClient, dropped>>

(* disconnectWithReason of a client: also the entry of a newer connection  *)
(* to the address goes.                                                    *)
EndLocal(c, id) ==
    /\ id \in DOMAIN local[c]
    /\ local' = [local EXCEPT ![c] = Without(@, {id})]
    /\ serverID' = [serverID EXCEPT ![c] = 0]
    /\ results' = [results EXCEPT ![c][id] = IF @ = "waiting" THEN "failed" ELSE @]
    /\ UNCHANGED <<closed, remote, addrToID, nextID, events, toServer, toClient, dropped>>

(* processInbound of a client: the first control message of the server     *)
(* decides.  Once the entry is gone every datagram is from a stranger.     *)
ClientReceive(c, answer) ==
    LET id == serverID[c] IN
    /\ c \notin closed /\ answer \in toClient[c]
    /\ id # 0 /\ local[c][id] = "connecting"
    /\ IF answer = "accept"
       THEN /\ local' = [local EXCEPT ![c][id] = "connected"]
            /\ results' = [results EXCEPT ![c][id] = "ok"]
            /\ toServer' = [toServer EXCEPT ![c] = @ \cup {{"ack"}, {"request", "ack"}}]
            /\ UNCHANGED <<serverID, closed, remote, addrToID, nextID, events, toClient, dropped>>
       ELSE EndLocal(c, id)

(* tickConns: HandshakeTimeout while connecting, DisconnectTimeout after;  *)
(* and Disconnect by the application.  All three end the connection.       *)
ClientEnds(c, id) == c \notin closed /\ EndLocal(c, id)

(* Close: the goroutine returns, whoever waits for it or not. *)
CloseClient(c) ==
    /\ c \notin closed /\ results[c] # <<>>
    /\ closed' = closed \cup {c}
    /\ UNCHANGED <<local, serverID, results, remote, addrToID, nextID, events, toServer, toClient, dropped>>

-----------------------------------------------------------------------------
(* The server creates a connection only for a request, below its limit. *)
AddConn(c, datagram) ==
    c \notin DOMAIN addrToID /\ "request" \in datagram /\ Cardinality(DOMAIN remote) < MaxConnections

(* processInbound and processHandshakeFrame of the server: pass 1 takes    *)
(* the messages whose number the connection has not had.  A request is     *)
(* answered while connecting; an ack while connecting opens.               *)
ServerReceive(c, datagram) ==
    LET adds == AddConn(c, datagram)
        id == IF adds THEN nextID ELSE addrToID[c]
        conn == IF adds THEN [addr |-> c, state |-> "connecting", heard |-> {}] ELSE remote[id]
        new == datagram \ conn.heard
        opens == conn.state = "connecting" /\ "ack" \in new
    IN
    /\ datagram \in toServer[c]
    /\ adds \/ c \in DOMAIN addrToID
    /\ adds => nextID <= MaxAccepts
    /\ nextID' = IF adds THEN nextID + 1 ELSE nextID
    /\ addrToID' = With(addrToID, c, id)
    /\ remote' = With(remote, id, [conn EXCEPT !.heard = @ \cup datagram, !.state = IF opens THEN "connected" ELSE @])
    /\ toClient' = [toClient EXCEPT ![c] = IF "request" \in new /\ conn.state = "connecting"
                                           THEN @ \cup {IF c \in Outdated THEN "reject" ELSE "accept"} ELSE @]
    /\ events' = IF opens THEN Emitted(id, TRUE) ELSE events
    /\ UNCHANGED <<local, serverID, results, closed, toServer, dropped>>

(* Mutant: the address is not forgotten. *)
EndRemoteMapped(id) ==
    /\ remote' = Without(remote, {id})
    /\ UNCHANGED addrToID

(* disconnectWithReason of the server. *)
EndRemote(id) ==
    /\ remote' = Without(remote, {id})
    /\ addrToID' = Without(addrToID, {remote[id].addr})

(* DisconnectTimeout, only of a connected one; and Disconnect. *)
ServerEnds(id) ==
    /\ EndRemote(id)
    /\ events' = Emitted(id, FALSE)
    /\ dropped' = dropped \cup {remote[id].addr}
    /\ UNCHANGED <<local, serverID, results, closed, nextID, toServer, toClient>>

HandshakeNext ==
    \/ \E c \in Client :
        \/ Connect(c) \/ CloseClient(c)
        \/ \E answer \in {"accept", "reject"} : ClientReceive(c, answer)
        \/ \E id \in DOMAIN local[c] : ClientEnds(c, id)
        \/ \E datagram \in SUBSET {"request", "ack"} : ServerReceive(c, datagram)
    \/ \E id \in DOMAIN remote : ServerEnds(id)

HandshakeSpec == HandshakeInit /\ [][HandshakeNext]_handshakeVars

-----------------------------------------------------------------------------
(* udp.go:138-140.  A Connect that waits has a connection the goroutine    *)
(* still ticks, so that a timeout can end the wait.                        *)
WaitersCanEnd(c) ==
    \A id \in DOMAIN results[c] :
        results[c][id] = "waiting" <=> id \in DOMAIN local[c] /\ local[c][id] = "connecting"

(* The server never has two connections of an address, nor more than its   *)
(* limit; each can be found by its address.                                *)
ServerTableSound ==
    /\ Cardinality(DOMAIN remote) <= MaxConnections
    /\ \A id \in DOMAIN remote : remote[id].addr \in DOMAIN addrToID /\ addrToID[remote[id].addr] = id
    /\ \A c \in DOMAIN addrToID : addrToID[c] \in DOMAIN remote

(* What the ends believe of each other, whatever is lost, late or said     *)
(* twice: a connected client has a connection at the server unless the     *)
(* server ended one of that address; an open connection of the server was  *)
(* once reported to the client's Connect; another version never opens.     *)
EndsAgree ==
    /\ \A c \in Client, id \in 1 .. MaxConnects :
        id \in DOMAIN local[c] /\ local[c][id] = "connected" => c \in DOMAIN addrToID \cup dropped
    /\ \A id \in DOMAIN remote :
        remote[id].state = "connected" =>
            /\ "ok" \in Range(results[remote[id].addr])
            /\ remote[id].addr \notin Outdated

(* EventsCh, while it has room: the connections it left up are the open    *)
(* ones.                                                                   *)
EventsTrue ==
    LET last(id) == SelectLastInSeq(events, LAMBDA e : e.id = id) IN
    Len(events) < EventCap =>
        {id \in DOMAIN remote : remote[id].state = "connected"}
            = {id \in 1 .. nextID - 1 : last(id) # 0 /\ events[last(id)].up}

HandshakeSound == (\A c \in Client : WaitersCanEnd(c)) /\ ServerTableSound /\ EndsAgree /\ EventsTrue

(* udp.go:138-140, "blocks until the server accepts or rejects, or until   *)
(* HandshakeTimeout elapses": Close leaves it waiting.                     *)
NobodyStranded == \A c \in closed : "waiting" \notin Range(results[c])

(* The newest connection to the server is the one its answers reach.  An   *)
(* older one that ends takes the entry with it.                            *)
NewestReachable == \A c \in Client : Len(results[c]) \in DOMAIN local[c] => serverID[c] = Len(results[c])
=============================================================================
