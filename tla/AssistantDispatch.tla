------------------------- MODULE AssistantDispatch -------------------------
(***************************************************************************)
(* pkg/assistant: goroutines of the editor call AssistantManager.Dispatch  *)
(* on agents that are reached over a stdio pipe or over HTTP.  A message   *)
(* is the number of its request.  One action is one critical section, or   *)
(* one blocking call and the step that ends it; the log entry of a         *)
(* dispatch is written with the step that decides it.                      *)
(***************************************************************************)
EXTENDS Naturals, Sequences, FiniteSets

CONSTANTS
    Caller,         \* goroutines that dispatch
    Agent,          \* agent IDs
    Link,           \* connections
    Stdio,          \* the connections that are pipes; the others are HTTP
    Method, Needs,  \* methods and RequiredCapability
    Grant,          \* the capability sets an agent may be registered with
    MaxRequests     \* bound: request IDs, and the lines an agent adds to
                    \* a pipe that holds that many

ASSUME AssistantAssumption ==
    /\ Stdio \subseteq Link
    /\ MaxRequests \in Nat

VARIABLES
    agents,     \* AssistantManager.agents: agent -> [conn, caps]
    log,        \* AssistantManager.log
    seq,        \* AssistantManager.seq
    dispatches,      \* caller -> the state of its Dispatch
    links,      \* connection -> [sent, replies, has, resp]
    \* ghosts
    requests,   \* request -> [method, caps, conn] at its dispatch
    answers,    \* request -> the request its response answers; 0: none
    disturbed   \* connections on which requests overlapped or one gave up, or
                \* whose agent wrote a line that nobody asked for

assistantVars == <<agents, log, seq, dispatches, links, requests, answers, disturbed>>

Idle == [at |-> "idle", req |-> 0, conn |-> 0, expired |-> FALSE]

AssistantInit ==
    /\ agents = << >> /\ log = <<>> /\ seq = 0
    /\ dispatches = [c \in Caller |-> Idle]
    /\ links = [l \in Link |-> [sent |-> {}, replies |-> <<>>, has |-> FALSE, resp |-> 0]]
    /\ requests = << >> /\ answers = << >> /\ disturbed = {}

At(place, l) == {c \in Caller : dispatches[c].at = place /\ dispatches[c].conn = l}
InUse(l) == {c \in Caller : dispatches[c].conn = l}
Assigned(f, x, v) == [y \in DOMAIN f \cup {x} |-> IF y = x THEN v ELSE f[y]]

(* record, and the return of Dispatch.  A request that gives up after it   *)
(* was sent leaves its reply on the way.                                   *)
Finish(c, ok) ==
    /\ log' = Append(log, [request |-> dispatches[c].req, ok |-> ok])
    /\ dispatches' = [dispatches EXCEPT ![c] = Idle]

-----------------------------------------------------------------------------
RegisterAgent(a, l, caps) ==
    /\ agents' = Assigned(agents, a, [conn |-> l, caps |-> caps])
    /\ UNCHANGED <<log, seq, dispatches, links, requests, answers, disturbed>>

(* Mutant: one of the needed capabilities is enough. *)
GrantedSome(a, m) == agents[a].caps \cap Needs[m] # {}

Granted(a, m) == Needs[m] \subseteq agents[a].caps

(* Dispatch up to the unlock; an unknown agent changes nothing. *)
Dispatch(c, a, m) ==
    /\ dispatches[c] = Idle /\ a \in DOMAIN agents /\ seq < MaxRequests
    /\ seq' = seq + 1
    /\ requests' = Append(requests, [method |-> m, caps |-> agents[a].caps, conn |-> agents[a].conn])
    /\ IF Granted(a, m)
       THEN /\ dispatches' = [dispatches EXCEPT ![c] = [at |-> "send", req |-> seq', conn |-> agents[a].conn,
                                              expired |-> FALSE]]
            /\ disturbed' = IF InUse(agents[a].conn) # {} THEN disturbed \cup {agents[a].conn} ELSE disturbed
            /\ UNCHANGED log
       ELSE /\ log' = Append(log, [request |-> seq', ok |-> FALSE])
            /\ UNCHANGED <<dispatches, disturbed>>
    /\ UNCHANGED <<agents, links, answers>>

(* The deadline of cctx passes. *)
Expire(c) ==
    /\ dispatches[c].at # "idle" /\ ~dispatches[c].expired
    /\ dispatches' = [dispatches EXCEPT ![c].expired = TRUE]
    /\ UNCHANGED <<agents, log, seq, links, requests, answers, disturbed>>

(* Send: the request is written to the pipe, or posted. *)
Send(c) ==
    LET l == dispatches[c].conn IN
    /\ dispatches[c].at = "send" /\ ~dispatches[c].expired
    /\ links' = [links EXCEPT ![l].sent = @ \cup {dispatches[c].req}]
    /\ dispatches' = [dispatches EXCEPT ![c].at = IF l \in Stdio THEN "receive" ELSE "post"]
    /\ UNCHANGED <<agents, log, seq, requests, answers, disturbed>>

(* The deadline, a closed connection and a failed write are errors.  Close *)
(* stops nothing else; whoever waits for a line goes on waiting.           *)
SendFailed(c) ==
    /\ dispatches[c].at = "send"
    /\ Finish(c, FALSE)
    /\ UNCHANGED <<agents, seq, links, requests, answers, disturbed>>

(* The HTTP round trip ends: with the response, which is buffered, or with *)
(* an error: the deadline, a status, a body that does not decode.          *)
Posted(c) ==
    LET l == dispatches[c].conn IN
    /\ dispatches[c].at = "post"
    /\ links' = [links EXCEPT ![l].sent = @ \ {dispatches[c].req}, ![l].has = TRUE, ![l].resp = dispatches[c].req]
    /\ dispatches' = [dispatches EXCEPT ![c].at = "receive"]
    /\ UNCHANGED <<agents, log, seq, requests, answers, disturbed>>

PostFailed(c) ==
    /\ dispatches[c].at = "post"
    /\ links' = [links EXCEPT ![dispatches[c].conn].sent = @ \ {dispatches[c].req}]
    /\ Finish(c, FALSE)
    /\ UNCHANGED <<agents, seq, requests, answers, disturbed>>

(* Receive looks at the deadline once.  Over HTTP it takes the buffered    *)
(* response, if there is one; over stdio it goes on to wait for a line.    *)
Receive(c) ==
    LET l == dispatches[c].conn IN
    /\ dispatches[c].at = "receive"
    /\ \/ /\ dispatches[c].expired
          /\ Finish(c, FALSE)
          /\ disturbed' = disturbed \cup {l}
          /\ UNCHANGED <<links, answers>>
       \/ /\ ~dispatches[c].expired /\ l \in Stdio
          /\ dispatches' = [dispatches EXCEPT ![c].at = "read"]
          /\ UNCHANGED <<log, links, answers, disturbed>>
       \/ /\ ~dispatches[c].expired /\ l \notin Stdio /\ links[l].has
          /\ Finish(c, TRUE)
          /\ answers' = Assigned(answers, dispatches[c].req, links[l].resp)
          /\ links' = [links EXCEPT ![l].has = FALSE]
          /\ UNCHANGED disturbed
       \/ /\ ~dispatches[c].expired /\ l \notin Stdio /\ ~links[l].has
          /\ Finish(c, FALSE)
          /\ UNCHANGED <<links, answers, disturbed>>
    /\ UNCHANGED <<agents, seq, requests>>

(* Readers share the bufio.Reader without a lock: of those that wait, any  *)
(* may get the line, several the same one, and one of several garbage.     *)
Read(l, got, garbled) ==
    /\ got # {} /\ got \subseteq At("read", l) /\ links[l].replies # <<>>
    /\ garbled \subseteq got /\ (Cardinality(At("read", l)) = 1 => garbled = {})
    /\ links' = [links EXCEPT ![l].replies = Tail(@)]
    /\ LET ids == {dispatches[c].req : c \in got}
           good == {dispatches[c].req : c \in got \ garbled}
       IN /\ answers' = [r \in DOMAIN answers \cup good |-> IF r \in good THEN Head(links[l].replies) ELSE answers[r]]
          /\ \E order \in [1 .. Cardinality(ids) -> ids] :
                /\ {order[i] : i \in DOMAIN order} = ids
                /\ log' = log \o [i \in DOMAIN order |-> [request |-> order[i], ok |-> order[i] \in good]]
    /\ dispatches' = [c \in Caller |-> IF c \in got THEN Idle ELSE dispatches[c]]
    /\ UNCHANGED <<agents, seq, requests, disturbed>>

(* The pipe ends under a reader. *)
ReadFailed(c) ==
    /\ dispatches[c].at = "read"
    /\ Finish(c, FALSE)
    /\ disturbed' = disturbed \cup {dispatches[c].conn}
    /\ UNCHANGED <<agents, seq, links, requests, answers>>

-----------------------------------------------------------------------------
(* The agent at the other end of a pipe answers a request it has read, in  *)
(* any order, or not at all.                                               *)
Reply(l, r) ==
    /\ l \in Stdio /\ r \in links[l].sent
    /\ links' = [links EXCEPT ![l].sent = @ \ {r}, ![l].replies = Append(@, r)]
    /\ UNCHANGED <<agents, log, seq, dispatches, requests, answers, disturbed>>

(* It also writes lines of its own: a notification, a request, an answer   *)
(* to what was never asked.  Nothing on this side tells them apart.        *)
Speak(l) ==
    /\ l \in Stdio
    /\ links' = [links EXCEPT ![l].replies = Append(@, 0)]
    /\ disturbed' = disturbed \cup {l}
    /\ UNCHANGED <<agents, log, seq, dispatches, requests, answers>>

AssistantNext ==
    \/ \E a \in Agent, l \in Link, caps \in Grant : seq < MaxRequests /\ RegisterAgent(a, l, caps)
    \/ \E c \in Caller :
        \/ \E a \in Agent, m \in Method : Dispatch(c, a, m)
        \/ Expire(c) \/ Send(c) \/ SendFailed(c) \/ Posted(c) \/ PostFailed(c) \/ Receive(c) \/ ReadFailed(c)
    \/ \E l \in Link :
        \/ \E got, garbled \in SUBSET Caller : Read(l, got, garbled)
        \/ \E r \in 1 .. seq : Reply(l, r)
        \/ Len(links[l].replies) < MaxRequests /\ Speak(l)

AssistantSpec == AssistantInit /\ [][AssistantNext]_assistantVars

-----------------------------------------------------------------------------
(* INV-2 and INV-4.  Every dispatch that is over is in the log once, with  *)
(* its outcome; one that the agent's capabilities did not cover never      *)
(* reached a connection.  A response belongs to its request unless, on     *)
(* that connection, requests overlapped, an earlier one gave up, or the    *)
(* agent wrote a line of its own.                                          *)
DispatchesAccounted ==
    /\ \A i, j \in DOMAIN log : log[i].request = log[j].request => i = j
    /\ \A r \in 1 .. seq :
        \/ \E c \in Caller : dispatches[c].req = r
        \/ \E i \in DOMAIN log : log[i] = [request |-> r, ok |-> r \in DOMAIN answers]
    /\ \A r \in 1 .. seq :
        (\E l \in Link : r \in links[l].sent) \/ r \in DOMAIN answers
            => Needs[requests[r].method] \subseteq requests[r].caps
    /\ \A r \in DOMAIN answers : answers[r] = r \/ requests[r].conn \in disturbed

(* message.go:15-16, "RequestID correlates a request with its response".   *)
AnswersOwn == \A r \in DOMAIN answers : answers[r] = r

(* INV-5, manager.go:73-75: a slow or dead agent never blocks the editor.  *)
NeverBlocks == \A c \in Caller : dispatches[c].at = "read" => ~dispatches[c].expired
=============================================================================
