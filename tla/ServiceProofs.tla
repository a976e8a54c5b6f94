--------------------------- MODULE ServiceProofs ---------------------------
(***************************************************************************)
(* Proofs about the services around the frame: PluginHost, for any set of  *)
(* capabilities, division of it into tiers and number of starts;           *)
(* RenderServer, for any commands and any nesting of them; RenderFrame,    *)
(* for any passes over any resources;                                      *)
(* AssistantDispatch, for any callers, agents and connections; WorkDeque,  *)
(* for any number of thieves, cells and pushes and any initial ring; and   *)
(* GraphDebug, for any graphs, nodes and length of the trace.              *)
(***************************************************************************)
EXTENDS PluginHost, RenderServer, RenderFrame, AssistantDispatch, WorkDeque, GraphDebug, Induction,
        SequenceTheorems, FiniteSetTheorems, TLAPS

-----------------------------------------------------------------------------
(* PluginHost.  What the host has not read is the answer to what it sent   *)
(* last, if anything, and perhaps the end of the pipe.                     *)
Protocol == <<"init", "build", "ready", "finish", "cleanup">>

PluginShape ==
    /\ session \in Nat
    /\ host \in {"down", "handshake", "idle", "receive"}
    /\ phase \in 0 .. 4 /\ (host = "idle" => phase < 4) /\ (host = "receive" => phase > 0)
    /\ failed \in BOOLEAN /\ process \in {"running", "exited"}
    /\ told \in Seq({"init", "build", "ready", "finish", "cleanup"})
    /\ answered \in Seq({"done", "bad"})
    /\ replies \in Seq({"done", "bad", "eof"})
    /\ host = "down" => process = "exited"

Conversation ==
    /\ Len(told) <= 5 /\ \A i \in 1 .. Len(told) : told[i] = Protocol[i]
    /\ Len(answered) <= Len(told)
    /\ \A i \in 1 .. Len(told) - 1 : i <= Len(answered) /\ answered[i] = "done"
    /\ host = "handshake" => phase = 0
    /\ host \in {"handshake", "receive"} => Len(told) = phase + 1
    /\ host = "idle" /\ ~failed => Len(told) = phase + 1 /\ Len(answered) = Len(told) /\ answered[Len(told)] = "done"
    /\ host = "idle" /\ process = "running" => Len(answered) = Len(told)

Unread ==
    /\ process = "running" => \A i \in 1 .. Len(replies) : replies[i] # "eof"
    /\ host \in {"handshake", "receive"} =>
        /\ replies = <<>> \/ replies[1] = "eof" \/ (Len(answered) = Len(told) /\ replies[1] = answered[Len(told)])
        /\ \A i \in 2 .. Len(replies) : replies[i] = "eof"
        /\ process = "running" /\ replies = <<>> => Len(answered) < Len(told)
    /\ host = "idle" => \A i \in 1 .. Len(replies) : replies[i] = "eof"

Statuses ==
    /\ status = "active" => Len(answered) > 1 /\ answered[2] = "done"
    /\ status = "failed" => failed
    /\ status = "disabled" => host = "down" /\ process = "exited"

PluginInv == PluginShape /\ Conversation /\ Unread /\ Statuses /\ GrantsApproved
(* The host sends the phases in the order of the protocol. *)
LEMMA ProtocolFacts ==
    \A k \in 0 .. 3 : Phases[k + 1] = Protocol[k + 2] /\ Protocol[k + 2] \in {"init", "build", "ready", "finish", "cleanup"}
<1> SUFFICES ASSUME NEW k \in 0 .. 3
             PROVE  Phases[k + 1] = Protocol[k + 2] /\ Protocol[k + 2] \in {"init", "build", "ready", "finish", "cleanup"}
    OBVIOUS
<1>1. k = 0 \/ k = 1 \/ k = 2 \/ k = 3
    OBVIOUS
<1> QED BY <1>1 DEF Phases, Protocol

(* What a start remembers was approved, now or before. *)
LEMMA StartGrants ==
    ASSUME session \in Nat, GrantsApproved, NEW required \in SUBSET Cap, NEW yes \in SUBSET required,
           StartSession(required, yes)
    PROVE  GrantsApproved'
<1> DEFINE known == required \cap (Automatic \cup (Prompted \cap persisted))
<1>1. /\ session' = session + 1 /\ approved' = approved \cup (yes \X {session + 1})
      /\ persisted' = IF yes \cap Prompted # {} THEN Remembered(required, yes) ELSE persisted
      /\ granted' = {} \/ (granted' = required /\ known \cup yes = required)
    BY DEF StartSession
<1>2. \A s \in 1 .. session : s \in 1 .. session'
    BY <1>1
<1>3. session + 1 \in 1 .. session'
    BY <1>1
<1>4. \A c \in yes : <<c, session + 1>> \in approved'
    BY <1>1
<1>5. \A c \in Prompted \cap persisted : \E s \in 1 .. session' : <<c, s>> \in approved'
    BY <1>1, <1>2 DEF GrantsApproved
<1>6. \A c \in granted' \ Automatic :
        \E s \in 1 .. session' : <<c, s>> \in approved' /\ (c \in Prompted \/ s = session')
    BY <1>1, <1>3, <1>4, <1>5
<1>7. persisted' \subseteq {c \in Prompted : \E s \in 1 .. session' : <<c, s>> \in approved'}
    <2>1. CASE yes \cap Prompted # {}
        BY <1>1, <1>3, <1>4, <1>5, <2>1 DEF Remembered
    <2>2. CASE yes \cap Prompted = {}
        BY <1>1, <1>5, <2>2 DEF GrantsApproved
    <2> QED BY <2>1, <2>2
<1> QED BY <1>6, <1>7 DEF GrantsApproved

LEMMA StartFine ==
    ASSUME PluginInv, NEW required \in SUBSET Cap, NEW yes \in SUBSET required, StartSession(required, yes)
    PROVE  PluginInv'
<1>1. /\ session' = session + 1 /\ phase' = 0 /\ failed' = FALSE /\ replies' = <<>> /\ answered' = <<>>
      /\ \/ status' = "approved" /\ host' = "handshake" /\ process' = "running" /\ told' = <<"init">>
         \/ status' = "skipped" /\ host' = "down" /\ process' = "exited" /\ told' = <<>>
    BY DEF StartSession
<1>0. session' \in Nat /\ phase' \in 0 .. 4 /\ failed' \in BOOLEAN /\ answered' \in Seq({"done", "bad"})
      /\ replies' \in Seq({"done", "bad", "eof"})
    <2>1. session' \in Nat
        BY <1>1 DEF PluginInv, PluginShape
    <2>2. phase' \in 0 .. 4 /\ <<>> \in Seq({"done", "bad"}) /\ <<>> \in Seq({"done", "bad", "eof"})
        BY <1>1
    <2>3. failed' \in BOOLEAN
        BY <1>1
    <2> QED BY <1>1, <2>1, <2>2, <2>3
<1>2. PluginShape' /\ Conversation' /\ Unread' /\ Statuses'
    <2>1. CASE told' = <<"init">>
        <3>1. told' \in Seq({"init", "build", "ready", "finish", "cleanup"}) /\ Len(told') = 1 /\ told'[1] = "init"
            BY <2>1
        <3>2. Protocol[1] = "init" /\ Len(answered') = 0 /\ Len(replies') = 0
            BY <1>1 DEF Protocol
        <3>3. host' = "handshake" /\ process' = "running"
            BY <1>1, <2>1
        <3>4. PluginShape'
            BY <1>0, <3>1, <3>3 DEF PluginShape
        <3> QED BY <1>1, <2>1, <3>1, <3>2, <3>3, <3>4 DEF Conversation, Unread, Statuses
    <2>2. CASE told' = <<>>
        <3>1. PluginShape'
            <4>1. host' = "down" /\ process' = "exited"
                BY <1>1, <2>2
            <4> QED BY <1>0, <2>2, <4>1 DEF PluginShape
        <3>2. host' = "down" /\ status' = "skipped" /\ process' = "exited" /\ Len(told') = 0 /\ Len(answered') = 0 /\ Len(replies') = 0
            BY <1>1, <2>2
        <3> QED BY <1>1, <2>2, <3>1, <3>2 DEF Conversation, Unread, Statuses
    <2> QED BY <1>1, <2>1, <2>2
<1>4. GrantsApproved'
    BY StartGrants DEF PluginInv, PluginShape
<1> QED BY <1>2, <1>4 DEF PluginInv

LEMMA GrantsKept ==
    ASSUME GrantsApproved, UNCHANGED grantVars
    PROVE  GrantsApproved'
BY DEF GrantsApproved, grantVars

LEMMA ProcessRepliesFine ==
    ASSUME PluginInv, NEW reply \in {"done", "bad"}, ProcessReplies(reply)
    PROVE  PluginInv'
<1>1. /\ process = "running" /\ Len(told) > Len(answered)
      /\ replies' = Append(replies, reply) /\ answered' = Append(answered, reply)
      /\ UNCHANGED <<session, status, host, phase, failed, process, told>> /\ UNCHANGED grantVars
    BY DEF ProcessReplies, grantVars
<1>2. /\ replies \in Seq({"done", "bad", "eof"}) /\ answered \in Seq({"done", "bad"})
      /\ told \in Seq({"init", "build", "ready", "finish", "cleanup"})
    BY DEF PluginInv, PluginShape
<1>3. /\ Len(answered') = Len(answered) + 1 /\ answered'[Len(answered) + 1] = reply
      /\ \A i \in 1 .. Len(answered) : answered'[i] = answered[i]
      /\ Len(replies') = Len(replies) + 1 /\ replies'[Len(replies) + 1] = reply
      /\ \A i \in 1 .. Len(replies) : replies'[i] = replies[i]
    BY <1>1, <1>2
<1>4. PluginShape'
    BY <1>1, <1>2 DEF PluginInv, PluginShape
<1>5. Len(told) \in Nat /\ Len(answered) \in Nat /\ Len(replies) \in Nat
    BY <1>2
<1>6. host # "down"
    BY <1>1 DEF PluginInv, PluginShape
<1>7. Len(answered) = Len(told) - 1
    BY <1>1, <1>5 DEF PluginInv, Conversation
<1>8. host \in {"handshake", "receive"}
    BY <1>1, <1>5, <1>6, <1>7 DEF PluginInv, Conversation, PluginShape
<1>9. replies = <<>>
    BY <1>1, <1>2, <1>5, <1>7, <1>8 DEF PluginInv, Unread
<1>10. Conversation'
    BY <1>1, <1>3, <1>5, <1>7, <1>8 DEF PluginInv, Conversation
<1>11. Unread'
    BY <1>1, <1>3, <1>5, <1>7, <1>8, <1>9 DEF Unread
<1>12. Statuses'
    BY <1>1, <1>3, <1>5 DEF PluginInv, Statuses
<1> QED BY <1>1, <1>4, <1>10, <1>11, <1>12, GrantsKept DEF PluginInv

LEMMA ProcessExitsFine ==
    ASSUME PluginInv, ProcessExits
    PROVE  PluginInv'
<1>1. /\ process = "running" /\ process' = "exited" /\ replies' = Append(replies, "eof")
      /\ UNCHANGED <<session, status, host, phase, failed, told, answered>> /\ UNCHANGED grantVars
    BY DEF ProcessExits, grantVars
<1>2. replies \in Seq({"done", "bad", "eof"}) /\ Len(replies) \in Nat
    BY DEF PluginInv, PluginShape
<1>3. /\ Len(replies') = Len(replies) + 1 /\ replies'[Len(replies) + 1] = "eof" /\ replies' # <<>>
      /\ \A i \in 1 .. Len(replies) : replies'[i] = replies[i]
    BY <1>1, <1>2
<1>4. PluginShape'
    BY <1>1, <1>2 DEF PluginInv, PluginShape
<1>5. Conversation' /\ Statuses'
    BY <1>1 DEF PluginInv, Conversation, Statuses
<1>6. Unread'
    <2>1. \A i \in 2 .. Len(replies') : i \in 2 .. Len(replies) \/ i = Len(replies) + 1
        BY <1>2, <1>3
    <2>2. replies = <<>> \/ 1 \in 1 .. Len(replies)
        BY <1>2
    <2>3. replies = <<>> => replies'[1] = "eof"
        BY <1>2, <1>3
    <2>4. \A i \in 1 .. Len(replies') : i \in 1 .. Len(replies) \/ i = Len(replies) + 1
        BY <1>2, <1>3
    <2> QED BY <1>1, <1>2, <1>3, <2>1, <2>2, <2>3, <2>4 DEF PluginInv, Unread
<1> QED BY <1>1, <1>4, <1>5, <1>6, GrantsKept DEF PluginInv

LEMMA MonitorFine ==
    ASSUME PluginInv, Monitor
    PROVE  PluginInv'
<1>1. /\ process = "exited" /\ host # "down" /\ ~failed /\ failed' = TRUE /\ replies' \in {replies, <<"eof">>}
      /\ UNCHANGED <<session, status, host, phase, process, told, answered>> /\ UNCHANGED grantVars
    BY DEF Monitor, grantVars
<1>2. PluginShape'
    <2>1. <<"eof">> \in Seq({"done", "bad", "eof"})
        OBVIOUS
    <2> QED BY <1>1, <2>1 DEF PluginInv, PluginShape
<1>3. Conversation' /\ Statuses'
    BY <1>1 DEF PluginInv, Conversation, Statuses
<1>4. Unread'
    <2>1. CASE replies' = replies
        BY <1>1, <2>1 DEF PluginInv, Unread
    <2>2. CASE replies' = <<"eof">>
        BY <1>1, <2>2 DEF Unread
    <2> QED BY <1>1, <2>1, <2>2
<1> QED BY <1>1, <1>2, <1>3, <1>4, GrantsKept DEF PluginInv

(* The next answer, taken: it is the one to the message sent last. *)
LEMMA AnswerTaken ==
    ASSUME PluginShape, Unread, host \in {"handshake", "receive"}, replies # <<>>, replies' = Tail(replies)
    PROVE  /\ Head(replies) # "eof" => Len(answered) = Len(told) /\ Head(replies) = answered[Len(told)]
           /\ replies' \in Seq({"done", "bad", "eof"})
           /\ \A i \in 1 .. Len(replies') : replies'[i] = "eof"
           /\ process = "running" => \A i \in 1 .. Len(replies') : replies'[i] # "eof"
           /\ process = "running" => Head(replies) # "eof"
<1>1. replies \in Seq({"done", "bad", "eof"}) /\ Len(replies) \in Nat \ {0} /\ Head(replies) = replies[1]
    BY DEF PluginShape
<1>2. /\ Len(replies') = Len(replies) - 1 /\ replies' \in Seq({"done", "bad", "eof"})
      /\ \A i \in 1 .. Len(replies') : replies'[i] = replies[i + 1] /\ i + 1 \in 2 .. Len(replies) /\ i + 1 \in 1 .. Len(replies)
    BY <1>1
<1>3. 1 \in 1 .. Len(replies)
    BY <1>1
<1> QED BY <1>1, <1>2, <1>3 DEF Unread

LEMMA HandshakeFine ==
    ASSUME PluginInv, HandshakeEnds
    PROVE  PluginInv'
<1>1. /\ host = "handshake" /\ UNCHANGED <<session, status, phase, failed, told, answered>> /\ UNCHANGED grantVars
    BY DEF HandshakeEnds, grantVars
<1>2. PluginShape /\ Conversation /\ Unread /\ Statuses
    BY DEF PluginInv
<1>3. CASE replies # <<>> /\ Head(replies) = "done" /\ host' = "idle" /\ replies' = Tail(replies) /\ UNCHANGED process
    <2>1. /\ Len(answered) = Len(told) /\ answered[Len(told)] = "done" /\ replies' \in Seq({"done", "bad", "eof"})
          /\ \A i \in 1 .. Len(replies') : replies'[i] = "eof"
          /\ process = "running" => \A i \in 1 .. Len(replies') : replies'[i] # "eof"
        BY <1>1, <1>2, <1>3, AnswerTaken
    <2>2. PluginShape'
        BY <1>1, <1>2, <1>3, <2>1 DEF PluginShape, Conversation
    <2>3. Conversation' /\ Unread' /\ Statuses'
        BY <1>1, <1>2, <1>3, <2>1 DEF Conversation, Unread, Statuses
    <2> QED BY <1>1, <2>2, <2>3, GrantsKept DEF PluginInv
<1>4. CASE host' = "down" /\ process' = "exited" /\ replies' = <<>>
    <2>1. PluginShape'
        BY <1>1, <1>2, <1>4 DEF PluginShape
    <2>2. Conversation' /\ Unread' /\ Statuses'
        BY <1>1, <1>2, <1>4 DEF Conversation, Unread, Statuses
    <2> QED BY <1>1, <2>1, <2>2, GrantsKept DEF PluginInv
<1> QED BY <1>3, <1>4 DEF HandshakeEnds
(* A phase of the protocol is sent. *)
LEMMA SendFine ==
    ASSUME PluginInv, host = "idle", ~failed, process = "running", phase' = phase + 1,
           told' = Append(told, Phases[phase + 1]), host' = "receive",
           status' = IF phase = 0 THEN "loading" ELSE status,
           UNCHANGED <<failed, process, replies, answered>>, UNCHANGED grantVars
    PROVE  PluginInv'
<1>1. PluginShape /\ Conversation /\ Unread /\ Statuses
    BY DEF PluginInv
<1>2. phase \in 0 .. 3 /\ Len(told) = phase + 1 /\ Len(answered) = phase + 1 /\ answered[phase + 1] = "done"
      /\ told \in Seq({"init", "build", "ready", "finish", "cleanup"}) /\ session \in Nat
    BY <1>1 DEF PluginShape, Conversation
<1>3. PICK m \in {"init", "build", "ready", "finish", "cleanup"} : m = Phases[phase + 1] /\ m = Protocol[phase + 2]
    BY <1>2, ProtocolFacts
<1>4. /\ told' \in Seq({"init", "build", "ready", "finish", "cleanup"}) /\ Len(told') = phase + 2 /\ told'[phase + 2] = m
      /\ \A i \in 1 .. phase + 1 : told'[i] = told[i]
    BY <1>2, <1>3
<1>5. PluginShape'
    <2>1. session' \in Nat /\ host' = "receive" /\ phase' \in 0 .. 4 /\ phase' > 0
        BY <1>2 DEF grantVars
    <2> QED BY <1>1, <1>4, <2>1 DEF PluginShape
<1>6. Conversation'
    <2>1. \A i \in 1 .. phase + 2 : i \in 1 .. phase + 1 \/ i = phase + 2
        BY <1>2
    <2>2. \A i \in 1 .. Len(told') : told'[i] = Protocol[i]
        BY <1>1, <1>2, <1>3, <1>4, <2>1 DEF Conversation
    <2>3. \A i \in 1 .. Len(told') - 1 : i <= Len(answered') /\ answered'[i] = "done"
        BY <1>1, <1>2, <1>4 DEF Conversation
    <2> QED BY <1>2, <1>4, <2>2, <2>3 DEF Conversation
<1>7. replies = <<>>
    <2>1. replies \in Seq({"done", "bad", "eof"}) /\ (Len(replies) > 0 => 1 \in 1 .. Len(replies))
        BY <1>1 DEF PluginShape
    <2> QED BY <1>1, <2>1 DEF Unread
<1>8. Unread'
    BY <1>2, <1>4, <1>7 DEF Unread
<1>9. Statuses'
    BY <1>1 DEF Statuses
<1> QED BY <1>5, <1>6, <1>8, <1>9, GrantsKept DEF PluginInv

(* A phase is over, answered well or badly. *)
LEMMA ReturnedFine ==
    ASSUME PluginInv, NEW k \in 1 .. 4, NEW ok \in BOOLEAN, Returned(k, ok), phase' = k, UNCHANGED <<told, answered>>,
           UNCHANGED grantVars, host # "down",
           replies' \in Seq({"done", "bad", "eof"}), \A i \in 1 .. Len(replies') : replies'[i] = "eof",
           process = "running" => replies' = <<>> /\ Len(answered) = Len(told),
           ok => Len(told) = k + 1 /\ Len(answered) = Len(told) /\ answered[Len(told)] = "done"
    PROVE  PluginInv'
<1>1. PluginShape /\ Conversation /\ Statuses
    BY DEF PluginInv
<1>2. status' = CASE k = 4 -> "disabled" [] k < 4 /\ ~ok -> "failed" [] k = 1 /\ ok -> "active" [] OTHER -> status
    BY DEF Returned
<1>3. failed' = (failed \/ ~ok \/ k = 4) /\ failed' \in BOOLEAN
    BY DEF Returned
<1>4. process' \in {"running", "exited"} /\ (process' = "running" => process = "running" /\ k # 4)
    BY <1>1 DEF Returned, PluginShape
<1>5. host' = (IF k = 4 THEN "down" ELSE "idle") /\ (k = 4 => process' = "exited")
    BY DEF Returned
<1>6. PluginShape'
    <2>1. session' \in Nat /\ told' = told /\ answered' = answered
        BY <1>1 DEF PluginShape, grantVars
    <2> QED BY <1>1, <1>3, <1>4, <1>5, <2>1 DEF PluginShape
<1>7. Conversation'
    BY <1>1, <1>3, <1>4, <1>5 DEF PluginShape, Conversation
<1>8. Unread'
    BY <1>4, <1>5 DEF Unread
<1>9. Statuses'
    <2>1. CASE k = 4
        BY <1>2, <1>5, <2>1 DEF Statuses
    <2>2. CASE k < 4 /\ ~ok
        <3>1. status' = "failed"
            BY <1>2, <2>2
        <3> QED BY <1>3, <2>2, <3>1 DEF Statuses
    <2>3. CASE k = 1 /\ ok
        <3>1. status' = "active"
            BY <1>2, <2>3
        <3>2. Len(answered') = 2 /\ answered'[2] = "done"
            <4>1. ok
                BY <2>3
            <4>2. Len(told) = k + 1 /\ Len(answered) = Len(told) /\ answered[Len(told)] = "done"
                BY <4>1
            <4>3. k + 1 = 2
                BY <2>3
            <4> QED BY <4>2, <4>3
        <3>3. failed' \/ status' # "failed"
            BY <3>1
        <3> QED BY <3>1, <3>2, <3>3 DEF Statuses
    <2>4. CASE k # 4 /\ k # 1 /\ ok
        <3>1. status' = status
            BY <1>2, <2>4
        <3> QED BY <1>1, <1>3, <2>4, <3>1 DEF Statuses
    <2> QED BY <2>1, <2>2, <2>3, <2>4
<1> QED BY <1>6, <1>7, <1>8, <1>9, GrantsKept DEF PluginInv

LEMMA DriveFine ==
    ASSUME PluginInv, Drive
    PROVE  PluginInv'
<1>1. /\ host = "idle" /\ phase' = phase + 1 /\ UNCHANGED <<replies, answered>> /\ UNCHANGED grantVars
    BY DEF Drive, grantVars
<1>2. PluginShape /\ Conversation /\ Unread /\ Statuses
    BY DEF PluginInv
<1>3. /\ phase \in 0 .. 3 /\ replies \in Seq({"done", "bad", "eof"}) /\ session \in Nat
      /\ \A i \in 1 .. Len(replies) : replies[i] = "eof"
      /\ process = "running" => Len(answered) = Len(told) /\ replies = <<>>
    <2>1. replies \in Seq({"done", "bad", "eof"}) /\ (Len(replies) > 0 => 1 \in 1 .. Len(replies))
        BY <1>2 DEF PluginShape
    <2> QED BY <1>1, <1>2, <2>1 DEF PluginShape, Conversation, Unread
<1>4. CASE ~failed /\ process = "running" /\ told' = Append(told, Phases[phase + 1]) /\ host' = "receive"
           /\ status' = (IF phase = 0 THEN "loading" ELSE status) /\ UNCHANGED <<failed, process>>
    BY <1>1, <1>4, SendFine
<1>5. CASE failed /\ phase \in {1, 2} /\ UNCHANGED <<status, host, failed, process, told>>
    <2>1. session' \in Nat /\ phase' \in 0 .. 4 /\ phase' < 4
        BY <1>1, <1>3, <1>5 DEF grantVars
    <2>2. PluginShape'
        BY <1>1, <1>2, <1>5, <2>1 DEF PluginShape
    <2>3. Conversation' /\ Unread' /\ Statuses'
        BY <1>1, <1>2, <1>5 DEF Conversation, Unread, Statuses
    <2> QED BY <1>1, <2>2, <2>3, GrantsKept DEF PluginInv
<1>6. ASSUME Returned(phase + 1, FALSE), UNCHANGED told
      PROVE  PluginInv'
    <2>1. PICK k \in 1 .. 4 : k = phase + 1
        BY <1>3
    <2>2. Returned(k, FALSE) /\ phase' = k
        BY <1>1, <1>6, <2>1
    <2>3. \A i \in 1 .. Len(replies') : replies'[i] = "eof"
        BY <1>1, <1>3
    <2> QED BY <1>1, <1>3, <1>6, <2>2, <2>3, ReturnedFine
<1>7. \/ /\ ~failed /\ process = "running" /\ told' = Append(told, Phases[phase + 1]) /\ host' = "receive"
         /\ status' = (IF phase = 0 THEN "loading" ELSE status) /\ UNCHANGED <<failed, process>>
      \/ failed /\ phase \in {1, 2} /\ UNCHANGED <<status, host, failed, process, told>>
      \/ Returned(phase + 1, FALSE) /\ UNCHANGED told
      \/ Returned(4, FALSE) /\ UNCHANGED told /\ phase = 3
    BY DEF Drive
<1>8. phase = 3 => phase + 1 = 4
    OBVIOUS
<1>9. CASE Returned(4, FALSE) /\ UNCHANGED told /\ phase = 3
    <2>1. Returned(phase + 1, FALSE)
        BY <1>8, <1>9
    <2> QED BY <1>6, <1>9, <2>1
<1> QED BY <1>4, <1>5, <1>6, <1>7, <1>9

LEMMA ReceiveReplyFine ==
    ASSUME PluginInv, ReceiveReply
    PROVE  PluginInv'
<1>1. /\ host = "receive" /\ replies # <<>> /\ replies' = Tail(replies) /\ Returned(phase, Head(replies) = "done")
      /\ UNCHANGED <<phase, told, answered>> /\ UNCHANGED grantVars
    BY DEF ReceiveReply, grantVars
<1>2. PluginShape /\ Conversation /\ Unread
    BY DEF PluginInv
<1>3. phase \in 1 .. 4 /\ Len(told) = phase + 1
    BY <1>1, <1>2 DEF PluginShape, Conversation
<1>4. PICK ok \in BOOLEAN : ok <=> Head(replies) = "done"
    OBVIOUS
<1>5. Returned(phase, ok)
    <2>1. ok = (Head(replies) = "done")
        BY <1>4
    <2> QED BY <1>1, <2>1
<1>6. /\ replies' \in Seq({"done", "bad", "eof"}) /\ \A i \in 1 .. Len(replies') : replies'[i] = "eof"
      /\ process = "running" => replies' = <<>> /\ Len(answered) = Len(told)
      /\ ok => Len(answered) = Len(told) /\ answered[Len(told)] = "done"
    <2>1. /\ Head(replies) # "eof" => Len(answered) = Len(told) /\ Head(replies) = answered[Len(told)]
          /\ replies' \in Seq({"done", "bad", "eof"})
          /\ \A i \in 1 .. Len(replies') : replies'[i] = "eof"
          /\ process = "running" => \A i \in 1 .. Len(replies') : replies'[i] # "eof"
          /\ process = "running" => Head(replies) # "eof"
        BY <1>1, <1>2, AnswerTaken
    <2>2. replies' # <<>> => 1 \in 1 .. Len(replies')
        BY <2>1
    <2> QED BY <1>4, <2>1, <2>2
<1>7. phase' = phase /\ host # "down"
    BY <1>1
<1> QED BY <1>1, <1>3, <1>5, <1>6, <1>7, ReturnedFine

-----------------------------------------------------------------------------
LEMMA PluginStep == ASSUME PluginInv, [PluginNext]_pluginVars PROVE PluginInv'
<1>1. ASSUME NEW required \in SUBSET Cap \ {{}}, NEW yes \in SUBSET required, StartSession(required, yes) PROVE PluginInv'
    BY <1>1, StartFine
<1>2. CASE \E reply \in {"done", "bad"} : ProcessReplies(reply)
    BY <1>2, ProcessRepliesFine
<1>3. CASE ProcessExits
    BY <1>3, ProcessExitsFine
<1>4. CASE Monitor
    BY <1>4, MonitorFine
<1>5. CASE HandshakeEnds
    BY <1>5, HandshakeFine
<1>6. CASE Drive
    BY <1>6, DriveFine
<1>7. CASE ReceiveReply
    BY <1>7, ReceiveReplyFine
<1>8. CASE UNCHANGED pluginVars
    <2>1. PluginShape'
        BY <1>8 DEF PluginInv, PluginShape, pluginVars
    <2>2. Conversation'
        BY <1>8 DEF PluginInv, Conversation, pluginVars
    <2>3. Unread'
        BY <1>8 DEF PluginInv, Unread, pluginVars
    <2>4. Statuses' /\ GrantsApproved'
        BY <1>8 DEF PluginInv, Statuses, GrantsApproved, pluginVars
    <2> QED BY <2>1, <2>2, <2>3, <2>4 DEF PluginInv
<1> QED BY <1>1, <1>2, <1>3, <1>4, <1>5, <1>6, <1>7, <1>8 DEF PluginNext

LEMMA PluginStart == PluginInit => PluginInv
<1> SUFFICES ASSUME PluginInit PROVE PluginInv
    OBVIOUS
<1>1. /\ Len(told) = 0 /\ Len(answered) = 0 /\ Len(replies) = 0 /\ told = <<>> /\ answered = <<>> /\ replies = <<>>
      /\ session = 0 /\ phase = 0 /\ host = "down" /\ process = "exited" /\ status = "skipped"
      /\ granted = {} /\ persisted = {}
    BY DEF PluginInit
<1>2. failed \in BOOLEAN
    BY DEF PluginInit
<1>3. PluginShape
    BY <1>1, <1>2 DEF PluginShape
<1>4. Conversation /\ Unread /\ Statuses /\ GrantsApproved
    BY <1>1 DEF Conversation, Unread, Statuses, GrantsApproved
<1> QED BY <1>3, <1>4 DEF PluginInv

(* What ties what the host has sent, what the process has answered, and    *)
(* what of that is still unread, to the phase and the host's step.         *)
THEOREM PluginInvariant == PluginSpec => []PluginInv
<1> QED BY PluginStart, PluginStep, PTL DEF PluginSpec

(* Nothing is granted or remembered unasked, and the process is driven     *)
(* through its phases in order, whatever it answers and whenever it dies   *)
(* (grants.go, lifecycle proxy, supervisor.go).                            *)
THEOREM PluginContainedHolds == PluginSpec => []PluginContained
<1>1. PluginInv => PluginContained
    <2> SUFFICES ASSUME PluginInv PROVE PhasesInOrder
        BY DEF PluginContained, PluginInv
    <2>1. PluginShape /\ Conversation /\ Statuses
        BY DEF PluginInv
    <2>2. IsPrefix(told, <<"init">> \o Phases)
        <3> DEFINE all == <<"init">> \o Phases
        <3>1. all \in Seq({"init", "build", "ready", "finish", "cleanup"}) /\ Len(all) = 5
              /\ \A i \in 1 .. 5 : all[i] = Protocol[i]
            BY DEF Phases, Protocol
        <3>2. told \in Seq({"init", "build", "ready", "finish", "cleanup"}) /\ Len(told) <= 5 /\ Len(told) \in Nat
              /\ \A i \in 1 .. Len(told) : told[i] = Protocol[i]
            BY <2>1 DEF PluginShape, Conversation
        <3> HIDE DEF all
        <3>3. SubSeq(told, 1, Len(told)) = SubSeq(all, 1, Len(told))
            <4>1. SubSeq(told, 1, Len(told)) = [i \in 1 .. Len(told) |-> told[i]]
                BY <3>2
            <4>2. SubSeq(all, 1, Len(told)) = [i \in 1 .. Len(told) |-> all[i]]
                BY <3>1, <3>2
            <4>3. \A i \in 1 .. Len(told) : told[i] = all[i]
                BY <3>1, <3>2
            <4> QED BY <4>1, <4>2, <4>3
        <3> QED BY <3>1, <3>2, <3>3 DEF IsPrefix, all
    <2> QED BY <2>1, <2>2 DEF PhasesInOrder, Conversation, Statuses
<1> QED BY <1>1, PluginInvariant, PTL
-----------------------------------------------------------------------------
(* RenderServer.  A command that a call has taken has a place: the call,   *)
(* and how many are left behind it there.  The bound goroutine runs the    *)
(* innermost call first, and in it the place with the most behind it.      *)
Call == [batch : Seq(Command), then : Command \cup {NoCommand}, drains : BOOLEAN, body : Command \cup {NoCommand}]

SlotOf(call, l) == IF l = 0 THEN call.then ELSE call.batch[Len(call.batch) + 1 - l]

HeldAt(stack, x, i, l) == i \in 1 .. Len(stack) /\ l \in 0 .. Len(stack[i].batch) /\ SlotOf(stack[i], l) = x

Waits(x) == \E i, l \in Nat : HeldAt(calls, x, i, l)

Has(s, x) == \E i \in 1 .. Len(s) : s[i] = x

Once(s) == \A i, j \in 1 .. Len(s) : s[i] = s[j] => i = j

ServerShape ==
    /\ queue \in Seq(Command) /\ accepted \in Seq(Command) /\ ran \in Seq(Command)
    /\ calls \in Seq(Call)
    /\ dropped \in SUBSET Command /\ closed \in BOOLEAN /\ (~closed => dropped = {})
    /\ overtook \in SUBSET (Command \X Command)

(* A command of a nested Submit is accepted after the one that submits it  *)
(* has begun, and the one being submitted has not been accepted.           *)
StackSound ==
    /\ \A i \in 1 .. Len(calls) : calls[i].drains => i = 1 /\ calls[i].then = NoCommand
    /\ \A i \in 1 .. Len(calls) : calls[i].body # NoCommand =>
        /\ i = Len(calls) /\ Has(ran, calls[i].body)
        /\ Nested[calls[i].body] \in Command /\ ~Has(accepted, Nested[calls[i].body])
    /\ \A b \in Command : Nested[b] \in Command /\ Has(accepted, Nested[b]) => Has(ran, b)

(* A command accepted once is in one place. *)
Placed ==
    /\ Once(accepted) /\ Once(ran) /\ Once(queue)
    /\ \A x \in Command : \A i, j, k, l \in Nat : HeldAt(calls, x, i, k) /\ HeldAt(calls, x, j, l) => i = j /\ k = l
    /\ \A x \in Command : Has(accepted, x) <=> Has(ran, x) \/ Waits(x) \/ Has(queue, x) \/ x \in dropped
    /\ \A x \in Command : Has(ran, x) => ~Waits(x) /\ ~Has(queue, x) /\ x \notin dropped
    /\ \A x \in Command : Waits(x) => ~Has(queue, x) /\ x \notin dropped
    /\ \A x \in Command : Has(queue, x) => x \notin dropped

(* The order of the lock is the order of the places. *)
Ordered ==
    \A c, d \in Command : Before(accepted, d, c) /\ d \notin dropped /\ <<c, d>> \notin overtook =>
        /\ Has(ran, c) => Before(ran, d, c)
        /\ \A i, k \in Nat : HeldAt(calls, c, i, k) =>
            ~Has(queue, d) /\ \A j, l \in Nat : HeldAt(calls, d, j, l) => i < j \/ (i = j /\ k < l)
        /\ \A m, n \in 1 .. Len(queue) : queue[m] = c /\ queue[n] = d => n < m

ServerInv == ServerShape /\ StackSound /\ Placed /\ Ordered

-----------------------------------------------------------------------------
LEMMA HasAppend ==
    ASSUME NEW s \in Seq(Command), NEW c \in Command
    PROVE  /\ \A x : Has(Append(s, c), x) <=> Has(s, x) \/ x = c
           /\ \A x, y : Before(Append(s, c), x, y) <=> Before(s, x, y) \/ (y = c /\ Has(s, x))
           /\ Once(s) /\ ~Has(s, c) => Once(Append(s, c))
           /\ Append(s, c) \in Seq(Command)
<1> DEFINE t == Append(s, c)
           n == Len(s)
<1>1. n \in Nat /\ Len(t) = n + 1 /\ t[n + 1] = c /\ (\A i \in 1 .. n : t[i] = s[i]) /\ t \in Seq(Command)
    OBVIOUS
<1> HIDE DEF t
<1>2. \A i : i \in 1 .. n + 1 <=> i \in 1 .. n \/ i = n + 1
    BY <1>1
<1> HIDE DEF n
<1>3. \A x : Has(t, x) <=> Has(s, x) \/ x = c
    BY <1>1, <1>2 DEF Has, n
<1>4. ASSUME NEW x, NEW y PROVE Before(t, x, y) <=> Before(s, x, y) \/ (y = c /\ Has(s, x))
    <2>1. ASSUME Before(t, x, y) PROVE Before(s, x, y) \/ (y = c /\ Has(s, x))
        <3>1. PICK i, j \in 1 .. n + 1 : i < j /\ t[i] = x /\ t[j] = y
            BY <1>1, <2>1 DEF Before
        <3>2. i \in 1 .. n /\ s[i] = x
            BY <1>1, <3>1
        <3> QED BY <1>1, <1>2, <3>1, <3>2 DEF Before, Has, n
    <2>2. ASSUME Before(s, x, y) PROVE Before(t, x, y)
        <3>1. PICK i, j \in 1 .. n : i < j /\ s[i] = x /\ s[j] = y
            BY <2>2 DEF Before, n
        <3>2. i \in 1 .. Len(t) /\ j \in 1 .. Len(t) /\ t[i] = x /\ t[j] = y
            BY <1>1, <1>2, <3>1
        <3> QED BY <3>1, <3>2 DEF Before
    <2>3. ASSUME y = c, Has(s, x) PROVE Before(t, x, y)
        <3>1. PICK i \in 1 .. n : s[i] = x
            BY <2>3 DEF Has, n
        <3>2. i \in 1 .. Len(t) /\ n + 1 \in 1 .. Len(t) /\ t[i] = x /\ t[n + 1] = y /\ i < n + 1
            BY <1>1, <2>3, <3>1
        <3> QED BY <3>2 DEF Before
    <2> QED BY <2>1, <2>2, <2>3
<1>5. Once(s) /\ ~Has(s, c) => Once(t)
    BY <1>1, <1>2 DEF Once, Has, n
<1> QED BY <1>1, <1>3, <1>4, <1>5 DEF t

(* Who comes before another is there. *)
LEMMA BeforeHas ==
    ASSUME NEW s \in Seq(Command), NEW x, NEW y, Before(s, x, y)
    PROVE  Has(s, x) /\ Has(s, y)
BY DEF Before, Has

LEMMA CallFacts ==
    ASSUME NEW stack \in Seq(Call)
    PROVE  \A i \in 1 .. Len(stack) :
            /\ stack[i] \in Call /\ stack[i].batch \in Seq(Command) /\ stack[i].then \in Command \cup {NoCommand}
            /\ stack[i].drains \in BOOLEAN /\ stack[i].body \in Command \cup {NoCommand}
<1>1. \A i \in 1 .. Len(stack) : stack[i] \in Call
    OBVIOUS
<1> QED BY <1>1 DEF Call

(* A place in a stack is in one of its calls. *)
LEMMA TakenAt ==
    ASSUME NEW stack \in Seq(Call), NEW x \in Command
    PROVE  x \in Taken(stack) <=> \E i, l \in Nat : HeldAt(stack, x, i, l)
<1>1. \A i \in 1 .. Len(stack) : stack[i].batch \in Seq(Command) /\ stack[i].then \in Command \cup {NoCommand}
    BY CallFacts
<1>2. x # NoCommand
    BY ServerAssumption DEF ServerAssumption
<1>3. ASSUME x \in Taken(stack) PROVE \E i, l \in Nat : HeldAt(stack, x, i, l)
    <2>1. PICK i \in 1 .. Len(stack) : x \in Range(stack[i].batch) \cup ({stack[i].then} \ {NoCommand})
        BY <1>3 DEF Taken
    <2>2. i \in Nat /\ Len(stack[i].batch) \in Nat /\ 0 \in 0 .. Len(stack[i].batch)
        BY <1>1, <2>1
    <2>3. CASE x = stack[i].then
        BY <2>1, <2>2, <2>3 DEF HeldAt, SlotOf
    <2>4. CASE x \in Range(stack[i].batch)
        <3>1. PICK m \in 1 .. Len(stack[i].batch) : stack[i].batch[m] = x
            BY <1>1, <2>1, <2>4 DEF Range
        <3>2. PICK l \in 0 .. Len(stack[i].batch) : l = Len(stack[i].batch) + 1 - m
            <4>1. Len(stack[i].batch) + 1 - m \in 0 .. Len(stack[i].batch)
                BY <2>2, <3>1
            <4> QED BY <4>1
        <3>3. l # 0 /\ Len(stack[i].batch) + 1 - l = m /\ l \in Nat
            BY <2>2, <3>1, <3>2
        <3> QED BY <2>1, <2>2, <3>1, <3>3 DEF HeldAt, SlotOf
    <2> QED BY <2>1, <2>3, <2>4
<1>4. ASSUME NEW i \in Nat, NEW l \in Nat, HeldAt(stack, x, i, l) PROVE x \in Taken(stack)
    <2>1. i \in 1 .. Len(stack) /\ l \in 0 .. Len(stack[i].batch) /\ SlotOf(stack[i], l) = x
        BY <1>4 DEF HeldAt
    <2>2. CASE l = 0
        BY <1>2, <2>1, <2>2 DEF Taken, SlotOf
    <2>3. CASE l # 0
        <3>1. Len(stack[i].batch) + 1 - l \in 1 .. Len(stack[i].batch)
            BY <1>1, <2>1, <2>3
        <3>2. x \in Range(stack[i].batch)
            BY <1>1, <2>1, <2>3, <3>1 DEF SlotOf, Range
        <3> QED BY <2>1, <3>2 DEF Taken
    <2> QED BY <2>2, <2>3
<1> QED BY <1>3, <1>4

LEMMA TakenCommands ==
    ASSUME NEW stack \in Seq(Call)
    PROVE  Taken(stack) \subseteq Command
<1>1. \A i \in 1 .. Len(stack) : stack[i].batch \in Seq(Command) /\ stack[i].then \in Command \cup {NoCommand}
    BY CallFacts
<1>2. \A i \in 1 .. Len(stack) : Range(stack[i].batch) \subseteq Command
    BY <1>1 DEF Range
<1> QED BY <1>1, <1>2 DEF Taken
(* A call on top of the others adds its own places. *)
LEMMA PushAt ==
    ASSUME NEW stack \in Seq(Call), NEW call \in Call
    PROVE  /\ Append(stack, call) \in Seq(Call) /\ Len(Append(stack, call)) = Len(stack) + 1
           /\ \A i \in 1 .. Len(stack) : Append(stack, call)[i] = stack[i]
           /\ Append(stack, call)[Len(stack) + 1] = call
           /\ \A x, i, l : HeldAt(Append(stack, call), x, i, l) <=>
                HeldAt(stack, x, i, l) \/ (i = Len(stack) + 1 /\ l \in 0 .. Len(call.batch) /\ SlotOf(call, l) = x)
<1> DEFINE t == Append(stack, call)
<1>1. t \in Seq(Call) /\ Len(t) = Len(stack) + 1 /\ Len(stack) \in Nat
      /\ (\A i \in 1 .. Len(stack) : t[i] = stack[i]) /\ t[Len(stack) + 1] = call
    OBVIOUS
<1> HIDE DEF t
<1>2. \A i : i \in 1 .. Len(t) <=> i \in 1 .. Len(stack) \/ i = Len(stack) + 1
    BY <1>1
<1>3. Len(stack) + 1 \notin 1 .. Len(stack)
    BY <1>1
<1>4. \A x, i, l : HeldAt(t, x, i, l) <=>
                HeldAt(stack, x, i, l) \/ (i = Len(stack) + 1 /\ l \in 0 .. Len(call.batch) /\ SlotOf(call, l) = x)
    BY <1>1, <1>2, <1>3 DEF HeldAt
<1> QED BY <1>1, <1>4 DEF t

(* The call on top, changed. *)
LEMMA TopFacts ==
    ASSUME calls \in Seq(Call), calls # <<>>, NEW call \in Call
    PROVE  /\ Len(calls) \in Nat \ {0} /\ Top = calls[Len(calls)] /\ Top \in Call
           /\ Front(calls) \in Seq(Call) /\ Len(Front(calls)) = Len(calls) - 1
           /\ \A i \in 1 .. Len(calls) - 1 : Front(calls)[i] = calls[i]
           /\ WithTop(call) \in Seq(Call) /\ Len(WithTop(call)) = Len(calls)
           /\ \A i \in 1 .. Len(calls) - 1 : WithTop(call)[i] = calls[i]
           /\ WithTop(call)[Len(calls)] = call
<1>1. /\ Len(calls) \in Nat \ {0} /\ Front(calls) = SubSeq(calls, 1, Len(calls) - 1) /\ Last(calls) = calls[Len(calls)]
    BY DEF Front, Last
<1>2. calls[Len(calls)] \in Call
    BY <1>1
<1>3. /\ Front(calls) \in Seq(Call) /\ Len(Front(calls)) = Len(calls) - 1
      /\ \A i \in 1 .. Len(calls) - 1 : Front(calls)[i] = calls[i]
    <2> DEFINE n == Len(calls) - 1
    <2>1. n \in Nat /\ 1 \in Int /\ \A i \in 1 .. n : calls[i] \in Call
        BY <1>1
    <2>2. /\ SubSeq(calls, 1, n) \in Seq(Call) /\ Len(SubSeq(calls, 1, n)) = IF 1 <= n THEN n - 1 + 1 ELSE 0
          /\ \A i \in 1 .. n - 1 + 1 : SubSeq(calls, 1, n)[i] = calls[1 + i - 1]
        <3> HIDE DEF n
        <3> QED BY <2>1, SubSeqProperties
    <2>3. Len(SubSeq(calls, 1, n)) = n /\ \A i \in 1 .. n : SubSeq(calls, 1, n)[i] = calls[i]
        <3> HIDE DEF n
        <3> QED BY <2>1, <2>2
    <2> QED BY <1>1, <2>2, <2>3
<1>4. PICK f \in Seq(Call) : f = Front(calls)
    BY <1>3
<1>5. /\ Append(f, call) \in Seq(Call) /\ Len(Append(f, call)) = Len(f) + 1 /\ Append(f, call)[Len(f) + 1] = call
      /\ \A i \in 1 .. Len(f) : Append(f, call)[i] = f[i]
    OBVIOUS
<1> QED BY <1>1, <1>2, <1>3, <1>4, <1>5 DEF Top, WithTop

(* A step that moves no command keeps all there is to say about places.    *)
LEMMA PlacesKept ==
    ASSUME Placed, Ordered, UNCHANGED <<queue, accepted, ran, dropped, overtook>>,
           \A x \in Command : \A i, l \in Nat : HeldAt(calls', x, i, l) <=> HeldAt(calls, x, i, l)
    PROVE  Placed' /\ Ordered'
<1>1. \A x \in Command : Waits(x)' <=> Waits(x)
    BY DEF Waits
<1>2. Placed'
    BY <1>1 DEF Placed
<1>3. Ordered'
    BY <1>1 DEF Ordered
<1> QED BY <1>2, <1>3
(* A command joins the queue. *)
LEMMA EnqueuedPlaces ==
    ASSUME ServerShape, Placed, Ordered, NEW c \in Command, ~Has(accepted, c),
           queue' = Append(queue, c), accepted' = Append(accepted, c), UNCHANGED <<calls, ran, dropped, overtook>>
    PROVE  Placed' /\ Ordered'
<1>1. queue \in Seq(Command) /\ accepted \in Seq(Command) /\ Len(queue) \in Nat
    BY DEF ServerShape
<1>2. /\ \A x : Has(queue', x) <=> Has(queue, x) \/ x = c
      /\ \A x : Has(accepted', x) <=> Has(accepted, x) \/ x = c
      /\ \A x, y : Before(accepted', x, y) <=> Before(accepted, x, y) \/ (y = c /\ Has(accepted, x))
      /\ Once(accepted')
    BY <1>1, HasAppend DEF Placed
<1>3. ~Has(ran, c) /\ ~Waits(c) /\ ~Has(queue, c) /\ c \notin dropped
    BY DEF Placed
<1>4. Once(queue')
    BY <1>1, <1>3, HasAppend DEF Placed
<1>5. \A x \in Command : Waits(x)' <=> Waits(x)
    BY DEF Waits
<1>6. Placed'
    <2>1. \A x \in Command : Has(accepted', x) <=> Has(ran, x) \/ Waits(x) \/ Has(queue', x) \/ x \in dropped
        BY <1>2 DEF Placed
    <2>2. \A x \in Command : Has(ran, x) => ~Waits(x) /\ ~Has(queue', x) /\ x \notin dropped
        BY <1>2, <1>3 DEF Placed
    <2>3. \A x \in Command : Waits(x) => ~Has(queue', x) /\ x \notin dropped
        BY <1>2, <1>3 DEF Placed
    <2>4. \A x \in Command : Has(queue', x) => x \notin dropped
        BY <1>2, <1>3 DEF Placed
    <2> QED BY <1>2, <1>4, <1>5, <2>1, <2>2, <2>3, <2>4 DEF Placed
<1>7. Ordered'
    <2> SUFFICES ASSUME NEW a \in Command, NEW d \in Command, Before(accepted', d, a), d \notin dropped, <<a, d>> \notin overtook
                 PROVE  /\ Has(ran, a) => Before(ran, d, a)
                        /\ \A i, k \in Nat : HeldAt(calls, a, i, k) =>
                            ~Has(queue', d) /\ \A j, l \in Nat : HeldAt(calls, d, j, l) => i < j \/ (i = j /\ k < l)
                        /\ \A m, n \in 1 .. Len(queue') : queue'[m] = a /\ queue'[n] = d => n < m
        BY DEF Ordered
    <2>1. Len(queue') = Len(queue) + 1 /\ queue'[Len(queue) + 1] = c /\ \A i \in 1 .. Len(queue) : queue'[i] = queue[i]
        BY <1>1
    <2>2. \A i \in 1 .. Len(queue') : i \in 1 .. Len(queue) \/ i = Len(queue) + 1
        BY <1>1, <2>1
    <2>3. CASE Before(accepted, d, a)
        <3>1. a # c /\ d # c
            BY <1>1, <2>3, BeforeHas
        <3>2. \A m, n \in 1 .. Len(queue') : queue'[m] = a /\ queue'[n] = d => n < m
            BY <2>1, <2>2, <2>3, <3>1 DEF Ordered
        <3> QED BY <1>2, <2>3, <3>1, <3>2 DEF Ordered
    <2>4. CASE a = c /\ Has(accepted, d)
        <3>1. d # c
            BY <2>4
        <3>2. \A i \in 1 .. Len(queue) : queue[i] # c
            BY <1>3 DEF Has
        <3>3. \A m, n \in 1 .. Len(queue') : queue'[m] = a /\ queue'[n] = d => n < m
            BY <1>1, <2>1, <2>2, <2>4, <3>1, <3>2
        <3> QED BY <1>3, <2>4, <3>3 DEF Waits
    <2> QED BY <1>2, <2>3, <2>4
<1> QED BY <1>6, <1>7

(* What waits in the queue, and where it will wait as a batch. *)
QueueAt(x, l) == l \in 1 .. Len(queue) /\ queue[Len(queue) + 1 - l] = x

LEMMA QueueFacts ==
    ASSUME ServerShape, Placed, NEW x \in Command
    PROVE  /\ Has(queue, x) <=> \E l \in Nat : QueueAt(x, l)
           /\ \A k, l \in Nat : QueueAt(x, k) /\ QueueAt(x, l) => k = l
           /\ x \in Range(queue) <=> Has(queue, x)
<1>1. queue \in Seq(Command) /\ Len(queue) \in Nat
    BY DEF ServerShape
<1>2. ASSUME NEW l \in Nat, QueueAt(x, l) PROVE Has(queue, x)
    <2>1. Len(queue) + 1 - l \in 1 .. Len(queue)
        BY <1>1, <1>2 DEF QueueAt
    <2> QED BY <1>2, <2>1 DEF Has, QueueAt
<1>3. ASSUME Has(queue, x) PROVE \E l \in Nat : QueueAt(x, l)
    <2>1. PICK i \in 1 .. Len(queue) : queue[i] = x
        BY <1>3 DEF Has
    <2>2. Len(queue) + 1 - i \in 1 .. Len(queue) /\ Len(queue) + 1 - i \in Nat /\ Len(queue) + 1 - (Len(queue) + 1 - i) = i
        BY <1>1, <2>1
    <2> QED BY <2>1, <2>2 DEF QueueAt
<1>4. \A k, l \in Nat : QueueAt(x, k) /\ QueueAt(x, l) => k = l
    <2> SUFFICES ASSUME NEW k \in Nat, NEW l \in Nat, QueueAt(x, k), QueueAt(x, l) PROVE k = l
        OBVIOUS
    <2>1. Len(queue) + 1 - k \in 1 .. Len(queue) /\ Len(queue) + 1 - l \in 1 .. Len(queue)
        BY <1>1 DEF QueueAt
    <2>2. Len(queue) + 1 - k = Len(queue) + 1 - l
        BY <2>1 DEF QueueAt, Placed, Once
    <2> QED BY <1>1, <2>2
<1>5. x \in Range(queue) <=> Has(queue, x)
    <2>1. DOMAIN queue = 1 .. Len(queue)
        BY <1>1
    <2> QED BY <2>1 DEF Range, Has
<1> QED BY <1>2, <1>3, <1>4, <1>5

(* As a batch the queue keeps its order. *)
LEMMA QueueOrder ==
    ASSUME ServerShape, Ordered, NEW a \in Command, NEW d \in Command, Before(accepted, d, a), d \notin dropped,
           <<a, d>> \notin overtook, NEW k \in Nat, NEW l \in Nat, QueueAt(a, k), QueueAt(d, l)
    PROVE  k < l
<1>1. Len(queue) \in Nat
    BY DEF ServerShape
<1>2. Len(queue) + 1 - k \in 1 .. Len(queue) /\ Len(queue) + 1 - l \in 1 .. Len(queue)
    BY <1>1 DEF QueueAt
<1>3. Len(queue) + 1 - l < Len(queue) + 1 - k
    BY <1>2 DEF QueueAt, Ordered
<1> QED BY <1>1, <1>2, <1>3

(* Drain takes the queue.  Nothing else is under way. *)
LEMMA DrainedPlaces ==
    ASSUME ServerShape, Placed, Ordered, NEW t \in Nat,
           queue' = <<>>, UNCHANGED <<accepted, ran, dropped, overtook>>,
           \A x \in Command : \A i, l \in Nat : ~HeldAt(calls, x, i, l),
           \A x \in Command : \A i, l \in Nat : HeldAt(calls', x, i, l) <=> i = t /\ QueueAt(x, l)
    PROVE  Placed' /\ Ordered'
<1>1. \A x \in Command : Waits(x)' <=> Has(queue, x)
    BY QueueFacts DEF Waits
<1>2. \A x : ~Has(queue', x)
    BY DEF Has
<1>3. \A x \in Command : ~Waits(x)
    BY DEF Waits
<1>4. Placed'
    <2>1. \A x \in Command : \A i, j, k, l \in Nat : HeldAt(calls', x, i, k) /\ HeldAt(calls', x, j, l) => i = j /\ k = l
        BY QueueFacts
    <2>2. Once(queue')
        BY DEF Once
    <2> QED BY <1>1, <1>2, <1>3, <2>1, <2>2 DEF Placed
<1>5. Ordered'
    <2>1. \A m : m \notin 1 .. Len(queue')
        OBVIOUS
    <2> QED BY <1>1, <1>2, <2>1, QueueOrder DEF Ordered
<1> QED BY <1>4, <1>5

(* An inline Submit takes the queue, and runs c behind it. *)
LEMMA InlinedPlaces ==
    ASSUME ServerShape, Placed, Ordered, NEW c \in Command, ~Has(accepted, c), NEW t \in Nat,
           queue' = <<>>, accepted' = Append(accepted, c), UNCHANGED <<ran, dropped>>,
           \A x \in Command : \A i, l \in Nat : HeldAt(calls, x, i, l) => i < t,
           \A x \in Command : \A i, l \in Nat :
                HeldAt(calls', x, i, l) <=> HeldAt(calls, x, i, l) \/ (i = t /\ (QueueAt(x, l) \/ (l = 0 /\ x = c))),
           \A a, d \in Command : <<a, d>> \in overtook' <=> <<a, d>> \in overtook \/ ((Has(queue, a) \/ a = c) /\ Waits(d))
    PROVE  Placed' /\ Ordered'
<1>1. queue \in Seq(Command) /\ accepted \in Seq(Command) /\ Len(queue) \in Nat
    BY DEF ServerShape
<1>2. /\ \A x : Has(accepted', x) <=> Has(accepted, x) \/ x = c
      /\ \A x, y : Before(accepted', x, y) <=> Before(accepted, x, y) \/ (y = c /\ Has(accepted, x))
      /\ Once(accepted')
    BY <1>1, HasAppend DEF Placed
<1>3. ~Has(ran, c) /\ ~Waits(c) /\ ~Has(queue, c) /\ c \notin dropped
    BY DEF Placed
<1>4. \A x \in Command : Waits(x)' <=> Waits(x) \/ Has(queue, x) \/ x = c
    BY QueueFacts DEF Waits
<1>5. \A x : ~Has(queue', x)
    BY DEF Has
<1>6. \A x \in Command : \A l \in Nat : QueueAt(x, l) => l > 0 /\ Has(queue, x)
    BY <1>1, QueueFacts DEF QueueAt
<1>7. Placed'
    <2>1. ASSUME NEW x \in Command, NEW i \in Nat, NEW j \in Nat, NEW k \in Nat, NEW l \in Nat,
                 HeldAt(calls', x, i, k), HeldAt(calls', x, j, l)
          PROVE  i = j /\ k = l
        <3>1. CASE HeldAt(calls, x, i, k)
            <4>1. x # c /\ ~Has(queue, x)
                BY <1>3, <3>1 DEF Waits, Placed
            <4>2. HeldAt(calls, x, j, l)
                BY <1>6, <2>1, <4>1
            <4> QED BY <3>1, <4>2 DEF Placed
        <3>2. CASE i = t /\ QueueAt(x, k)
            <4>1. x # c /\ ~Waits(x)
                BY <1>3, <1>6, <3>2 DEF Placed
            <4>2. j = t /\ QueueAt(x, l)
                BY <2>1, <4>1 DEF Waits
            <4> QED BY <3>2, <4>2, QueueFacts
        <3>3. CASE i = t /\ k = 0 /\ x = c
            <4>1. j = t /\ l = 0
                BY <1>3, <1>6, <2>1, <3>3 DEF Waits
            <4> QED BY <3>3, <4>1
        <3> QED BY <2>1, <3>1, <3>2, <3>3
    <2>2. Once(queue')
        BY DEF Once
    <2>3. \A x \in Command : Has(accepted', x) <=> Has(ran, x) \/ Waits(x)' \/ x \in dropped
        BY <1>2, <1>4 DEF Placed
    <2>4. \A x \in Command : Has(ran, x) => ~Waits(x)' /\ x \notin dropped
        BY <1>3, <1>4 DEF Placed
    <2>5. \A x \in Command : Waits(x)' => x \notin dropped
        BY <1>3, <1>4 DEF Placed
    <2> QED BY <1>2, <1>5, <2>1, <2>2, <2>3, <2>4, <2>5 DEF Placed
<1>8. Ordered'
    <2> SUFFICES ASSUME NEW a \in Command, NEW d \in Command, Before(accepted', d, a), d \notin dropped, <<a, d>> \notin overtook'
                 PROVE  /\ Has(ran, a) => Before(ran, d, a)
                        /\ \A i, k \in Nat : HeldAt(calls', a, i, k) =>
                            \A j, l \in Nat : HeldAt(calls', d, j, l) => i < j \/ (i = j /\ k < l)
        BY <1>5 DEF Ordered, Has
    <2>1. <<a, d>> \notin overtook /\ (Has(queue, a) \/ a = c => ~Waits(d))
        OBVIOUS
    <2>2. CASE Before(accepted, d, a)
        <3>1. a # c /\ d # c
            BY <1>1, <2>2, BeforeHas
        <3>2. ASSUME NEW i \in Nat, NEW k \in Nat, NEW j \in Nat, NEW l \in Nat, HeldAt(calls', a, i, k), HeldAt(calls', d, j, l)
              PROVE  i < j \/ (i = j /\ k < l)
            <4>1. CASE HeldAt(calls, a, i, k) /\ HeldAt(calls, d, j, l)
                BY <2>1, <2>2, <4>1 DEF Ordered
            <4>2. CASE HeldAt(calls, a, i, k) /\ j = t /\ QueueAt(d, l)
                BY <4>2
            <4>3. CASE i = t /\ QueueAt(a, k) /\ HeldAt(calls, d, j, l)
                <5>1. Has(queue, a) /\ Waits(d)
                    BY <1>6, <4>3 DEF Waits
                <5> QED BY <2>1, <5>1
            <4>4. CASE i = t /\ QueueAt(a, k) /\ j = t /\ QueueAt(d, l)
                BY <2>1, <2>2, <4>4, QueueOrder
            <4> QED BY <3>1, <3>2, <4>1, <4>2, <4>3, <4>4
        <3> QED BY <2>1, <2>2, <3>2 DEF Ordered
    <2>3. CASE a = c /\ Has(accepted, d)
        <3>1. d # c /\ ~Waits(d)
            BY <2>1, <2>3
        <3>2. ASSUME NEW i \in Nat, NEW k \in Nat, NEW j \in Nat, NEW l \in Nat, HeldAt(calls', a, i, k), HeldAt(calls', d, j, l)
              PROVE  i < j \/ (i = j /\ k < l)
            <4>1. i = t /\ k = 0
                BY <1>3, <1>6, <2>3, <3>2 DEF Waits
            <4>2. j = t /\ l > 0
                BY <1>6, <3>1, <3>2 DEF Waits
            <4> QED BY <4>1, <4>2
        <3> QED BY <1>3, <2>3, <3>2
    <2> QED BY <1>2, <2>2, <2>3
<1> QED BY <1>7, <1>8

(* The command at the first place runs. *)
LEMMA RanPlaces ==
    ASSUME ServerShape, Placed, Ordered, NEW c \in Command, NEW t \in Nat, NEW e \in Nat, HeldAt(calls, c, t, e),
           \A x \in Command : \A i, l \in Nat : HeldAt(calls, x, i, l) => i < t \/ (i = t /\ l <= e),
           \A x \in Command : \A i, l \in Nat : HeldAt(calls', x, i, l) <=> HeldAt(calls, x, i, l) /\ ~(i = t /\ l = e),
           ran' = Append(ran, c), UNCHANGED <<queue, accepted, dropped, overtook>>
    PROVE  Placed' /\ Ordered'
<1>1. ran \in Seq(Command) /\ accepted \in Seq(Command)
    BY DEF ServerShape
<1>2. Waits(c) /\ ~Has(ran, c) /\ ~Has(queue, c) /\ c \notin dropped /\ Has(accepted, c)
    BY DEF Waits, Placed
<1>3. /\ \A x : Has(ran', x) <=> Has(ran, x) \/ x = c
      /\ \A x, y : Before(ran', x, y) <=> Before(ran, x, y) \/ (y = c /\ Has(ran, x))
      /\ Once(ran')
    BY <1>1, <1>2, HasAppend DEF Placed
<1>4. ASSUME NEW x \in Command, HeldAt(calls, x, t, e) PROVE x = c
    BY <1>4 DEF HeldAt
<1>5. \A x \in Command : Waits(x)' <=> Waits(x) /\ x # c
    BY <1>4 DEF Waits, Placed
<1>6. Placed'
    <2>1. \A x \in Command : \A i, j, k, l \in Nat : HeldAt(calls', x, i, k) /\ HeldAt(calls', x, j, l) => i = j /\ k = l
        BY DEF Placed
    <2>2. \A x \in Command : Has(accepted, x) <=> Has(ran', x) \/ Waits(x)' \/ Has(queue, x) \/ x \in dropped
        BY <1>2, <1>3, <1>5 DEF Placed
    <2>3. \A x \in Command : Has(ran', x) => ~Waits(x)' /\ ~Has(queue, x) /\ x \notin dropped
        BY <1>2, <1>3, <1>5 DEF Placed
    <2>4. \A x \in Command : Waits(x)' => ~Has(queue, x) /\ x \notin dropped
        BY <1>5 DEF Placed
    <2> QED BY <1>3, <2>1, <2>2, <2>3, <2>4 DEF Placed
<1>7. Ordered'
    <2> SUFFICES ASSUME NEW a \in Command, NEW d \in Command, Before(accepted, d, a), d \notin dropped, <<a, d>> \notin overtook
                 PROVE  /\ Has(ran', a) => Before(ran', d, a)
                        /\ \A i, k \in Nat : HeldAt(calls', a, i, k) =>
                            ~Has(queue, d) /\ \A j, l \in Nat : HeldAt(calls', d, j, l) => i < j \/ (i = j /\ k < l)
                        /\ \A m, n \in 1 .. Len(queue) : queue[m] = a /\ queue[n] = d => n < m
        BY DEF Ordered
    <2>1. Has(ran', a) => Before(ran', d, a)
        <3>1. CASE a # c
            BY <1>3, <3>1 DEF Ordered
        <3>2. CASE a = c
            <4>1. Has(accepted, d)
                BY <1>1, BeforeHas
            <4>2. ~Has(queue, d) /\ \A j, l \in Nat : ~HeldAt(calls, d, j, l)
                <5>1. ~Has(queue, d) /\ \A j, l \in Nat : HeldAt(calls, d, j, l) => t < j \/ (t = j /\ e < l)
                    BY <3>2 DEF Ordered
                <5> QED BY <5>1
            <4>3. Has(ran, d)
                BY <4>1, <4>2 DEF Placed, Waits
            <4> QED BY <1>3, <3>2, <4>3
        <3> QED BY <3>1, <3>2
    <2>2. \A i, k \in Nat : HeldAt(calls', a, i, k) =>
            ~Has(queue, d) /\ \A j, l \in Nat : HeldAt(calls', d, j, l) => i < j \/ (i = j /\ k < l)
        BY DEF Ordered
    <2>3. \A m, n \in 1 .. Len(queue) : queue[m] = a /\ queue[n] = d => n < m
        BY DEF Ordered
    <2> QED BY <2>1, <2>2, <2>3
<1> QED BY <1>6, <1>7

(* Close throws the queue away. *)
LEMMA ClosedPlaces ==
    ASSUME ServerShape, Placed, Ordered, dropped = {}, queue' = <<>>, dropped' = Range(queue),
           UNCHANGED <<calls, accepted, ran, overtook>>
    PROVE  Placed' /\ Ordered'
<1>1. \A x \in Command : x \in dropped' <=> Has(queue, x)
    BY QueueFacts
<1>2. \A x : ~Has(queue', x)
    BY DEF Has
<1>3. \A x \in Command : Waits(x)' <=> Waits(x)
    BY DEF Waits
<1>4. Placed'
    <2>1. Once(queue')
        BY DEF Once
    <2> QED BY <1>1, <1>2, <1>3, <2>1 DEF Placed
<1>5. Ordered'
    <2>1. \A m : m \notin 1 .. Len(queue')
        OBVIOUS
    <2> QED BY <1>1, <1>2, <2>1 DEF Ordered
<1> QED BY <1>4, <1>5
-----------------------------------------------------------------------------
(* The actions. *)
LEMMA NestedFacts ==
    /\ NoCommand \notin Command
    /\ \A c \in Command : Nested[c] \in Command \cup {NoCommand}
    /\ \A c, d \in Command : c # d /\ Nested[c] = Nested[d] => Nested[c] = NoCommand
BY ServerAssumption DEF ServerAssumption

(* Nobody who is fresh is nested. *)
LEMMA FreshFacts ==
    ASSUME ServerShape, NEW c \in Command, Fresh(c)
    PROVE  ~Has(accepted, c) /\ \A b \in Command : Nested[b] # c
<1>1. DOMAIN accepted = 1 .. Len(accepted)
    BY DEF ServerShape
<1> QED BY <1>1 DEF Fresh, Range, Has

LEMMA RefusedFine ==
    ASSUME ServerInv, UNCHANGED <<queue, closed, accepted, ran, dropped, overtook>>,
           calls' \in Seq(Call), Len(calls') = Len(calls),
           \A i \in 1 .. Len(calls) : /\ calls'[i].batch = calls[i].batch /\ calls'[i].then = calls[i].then
                                      /\ calls'[i].drains = calls[i].drains
                                      /\ calls'[i].body \in {calls[i].body, NoCommand}
    PROVE  ServerInv'
<1>1. ServerShape /\ StackSound /\ Placed /\ Ordered
    BY DEF ServerInv
<1>2. \A x \in Command : \A i, l \in Nat : HeldAt(calls', x, i, l) <=> HeldAt(calls, x, i, l)
    BY DEF HeldAt, SlotOf
<1>3. Placed' /\ Ordered'
    BY <1>1, <1>2, PlacesKept
<1>4. ServerShape'
    BY <1>1 DEF ServerShape
<1>5. StackSound'
    <2>1. ASSUME NEW i \in 1 .. Len(calls), calls'[i].body # NoCommand PROVE calls'[i].body = calls[i].body
        BY <2>1
    <2> QED BY <1>1, <2>1 DEF StackSound
<1> QED BY <1>3, <1>4, <1>5 DEF ServerInv

LEMMA SubmitFine ==
    ASSUME ServerInv, NEW c \in Command, Submit(c)
    PROVE  ServerInv'
<1>1. ServerShape /\ StackSound /\ Placed /\ Ordered
    BY DEF ServerInv
<1>2. ~Has(accepted, c) /\ \A b \in Command : Nested[b] # c
    BY <1>1, FreshFacts DEF Submit
<1>3. CASE closed
    BY <1>1, <1>3, RefusedFine DEF Submit, Refuse, ServerShape
<1>4. CASE ~closed
    <2>1. queue' = Append(queue, c) /\ accepted' = Append(accepted, c) /\ UNCHANGED <<calls, closed, ran, dropped, overtook>>
        BY <1>4 DEF Submit
    <2>2. Placed' /\ Ordered'
        BY <1>1, <1>2, <2>1, EnqueuedPlaces
    <2>3. ServerShape'
        BY <1>1, <2>1 DEF ServerShape
    <2>4. \A x : Has(accepted', x) <=> Has(accepted, x) \/ x = c
        BY <1>1, <2>1, HasAppend DEF ServerShape
    <2>5. StackSound'
        <3>1. \A i \in 1 .. Len(calls) : calls[i].body # NoCommand => Nested[calls[i].body] # c
            BY <1>1, <1>2, NestedFacts, CallFacts DEF ServerShape
        <3> QED BY <1>1, <1>2, <2>1, <2>4, <3>1 DEF StackSound
    <2> QED BY <2>2, <2>3, <2>5 DEF ServerInv
<1> QED BY <1>3, <1>4

(* The new call runs the queue, then c. *)
LEMMA SubmitInlineFine ==
    ASSUME ServerInv, NEW c \in Command, ~Has(accepted, c), NEW stack \in Seq(Call), SubmitInline(c, stack), ~closed,
           UNCHANGED <<closed, ran, dropped>>, Len(stack) = Len(calls),
           \A i \in 1 .. Len(calls) : /\ stack[i].batch = calls[i].batch /\ stack[i].then = calls[i].then
                                      /\ stack[i].drains = calls[i].drains /\ stack[i].body = NoCommand,
           \A b \in Command : Nested[b] = c => Has(ran, b)
    PROVE  ServerInv'
<1>1. ServerShape /\ StackSound /\ Placed /\ Ordered
    BY DEF ServerInv
<1> DEFINE call == [batch |-> queue, then |-> c, drains |-> FALSE, body |-> NoCommand]
           t == Len(calls) + 1
<1>2. call \in Call /\ call.batch = queue /\ call.then = c /\ call.drains = FALSE /\ call.body = NoCommand
    BY <1>1 DEF ServerShape, Call
<1>3. queue' = <<>> /\ accepted' = Append(accepted, c) /\ calls' = Append(stack, call)
      /\ overtook' = overtook \cup (Range(queue) \cup {c}) \X Taken(stack)
    BY DEF SubmitInline
<1> HIDE DEF call
<1>4. /\ calls' \in Seq(Call) /\ Len(calls') = t /\ t \in Nat
      /\ \A i \in 1 .. Len(calls) : calls'[i] = stack[i]
      /\ calls'[t] = call
      /\ \A x, i, l : HeldAt(calls', x, i, l) <=>
                HeldAt(stack, x, i, l) \/ (i = t /\ l \in 0 .. Len(queue) /\ SlotOf(call, l) = x)
    BY <1>2, <1>3, PushAt
<1>5. \A x, i, l : HeldAt(stack, x, i, l) <=> HeldAt(calls, x, i, l)
    BY DEF HeldAt, SlotOf
<1>6. \A x \in Command : x \in Taken(stack) <=> Waits(x)
    BY <1>5, TakenAt DEF Waits
<1>7. Placed' /\ Ordered'
    <2>1. \A x \in Command : \A i, l \in Nat : HeldAt(calls, x, i, l) => i < t
        BY <1>1 DEF HeldAt, ServerShape
    <2>2. ASSUME NEW x \in Command, NEW l \in Nat
          PROVE  l \in 0 .. Len(queue) /\ SlotOf(call, l) = x <=> QueueAt(x, l) \/ (l = 0 /\ x = c)
        <3>1. Len(queue) \in Nat
            BY <1>1 DEF ServerShape
        <3>2. CASE l = 0
            BY <1>2, <3>1, <3>2 DEF SlotOf, QueueAt
        <3>3. CASE l # 0
            BY <1>2, <3>1, <3>3 DEF SlotOf, QueueAt
        <3> QED BY <3>2, <3>3
    <2>3. \A x \in Command : \A i, l \in Nat :
            HeldAt(calls', x, i, l) <=> HeldAt(calls, x, i, l) \/ (i = t /\ (QueueAt(x, l) \/ (l = 0 /\ x = c)))
        BY <1>4, <1>5, <2>2
    <2>4. \A a, d \in Command : <<a, d>> \in overtook' <=> <<a, d>> \in overtook \/ ((Has(queue, a) \/ a = c) /\ Waits(d))
        BY <1>1, <1>3, <1>6, QueueFacts
    <2>5. t \in Nat /\ queue' = <<>> /\ accepted' = Append(accepted, c)
        BY <1>3, <1>4
    <2> HIDE DEF t
    <2> QED BY <1>1, <2>1, <2>3, <2>4, <2>5, InlinedPlaces
<1>8. ServerShape'
    <2>1. Taken(stack) \subseteq Command /\ Range(queue) \subseteq Command
        BY <1>1, TakenCommands DEF ServerShape, Range
    <2>2. overtook' \in SUBSET (Command \X Command)
        BY <1>1, <1>3, <2>1 DEF ServerShape
    <2>3. accepted' \in Seq(Command) /\ queue' \in Seq(Command)
        BY <1>1, <1>3 DEF ServerShape
    <2> QED BY <1>1, <1>4, <2>2, <2>3 DEF ServerShape
<1>9. StackSound'
    <2>1. \A i \in 1 .. Len(calls') : i \in 1 .. Len(calls) \/ i = t
        BY <1>1, <1>4 DEF ServerShape
    <2>2. \A i \in 1 .. Len(calls') : calls'[i].body = NoCommand
        BY <1>2, <1>4, <2>1
    <2>3. \A i \in 1 .. Len(calls') : calls'[i].drains => i = 1 /\ calls'[i].then = NoCommand
        BY <1>1, <1>2, <1>4, <2>1 DEF StackSound
    <2>4. \A x : Has(accepted', x) <=> Has(accepted, x) \/ x = c
        BY <1>1, <1>3, HasAppend DEF ServerShape
    <2>5. \A b \in Command : Nested[b] \in Command /\ Has(accepted', Nested[b]) => Has(ran, b)
        BY <1>1, <2>4 DEF StackSound
    <2> QED BY <2>2, <2>3, <2>5 DEF StackSound
<1> QED BY <1>7, <1>8, <1>9 DEF ServerInv

LEMMA SubmitBoundFine ==
    ASSUME ServerInv, NEW c \in Command, SubmitBound(c)
    PROVE  ServerInv'
<1>1. ServerShape /\ StackSound
    BY DEF ServerInv
<1>2. ~Has(accepted, c) /\ \A b \in Command : Nested[b] # c
    BY <1>1, FreshFacts DEF SubmitBound
<1>3. calls = <<>> /\ SubmitInline(c, calls) /\ UNCHANGED <<closed, ran, dropped>> /\ calls \in Seq(Call)
    BY <1>1 DEF SubmitBound, ServerShape
<1>4. CASE closed
    <2>1. UNCHANGED <<queue, accepted, overtook>> /\ calls' = calls
        BY <1>3, <1>4 DEF SubmitInline, Refuse
    <2> QED BY <1>3, <2>1, RefusedFine
<1>5. CASE ~closed
    <2>1. \A i : i \notin 1 .. Len(calls)
        BY <1>3
    <2> QED BY <1>2, <1>3, <1>5, <2>1, SubmitInlineFine
<1> QED BY <1>4, <1>5

LEMMA SubmitNestedFine ==
    ASSUME ServerInv, SubmitNested
    PROVE  ServerInv'
<1>1. ServerShape /\ StackSound
    BY DEF ServerInv
<1>2. calls # <<>> /\ calls \in Seq(Call) /\ Top.body # NoCommand /\ UNCHANGED <<closed, ran, dropped>>
      /\ SubmitInline(Nested[Top.body], WithTop([Top EXCEPT !.body = NoCommand]))
    BY <1>1 DEF SubmitNested, ServerShape
<1>3. Len(calls) \in Nat \ {0} /\ Top = calls[Len(calls)] /\ Top \in Call
    BY <1>2, TopFacts
<1>4. PICK call : call = [Top EXCEPT !.body = NoCommand]
    OBVIOUS
<1>5. call \in Call /\ call.batch = Top.batch /\ call.then = Top.then /\ call.drains = Top.drains /\ call.body = NoCommand
    BY <1>3, <1>4 DEF Call
<1>6. PICK stack \in Seq(Call) : /\ stack = WithTop(call) /\ Len(stack) = Len(calls)
                                 /\ \A i \in 1 .. Len(calls) - 1 : stack[i] = calls[i]
                                 /\ stack[Len(calls)] = call
    BY <1>2, <1>5, TopFacts
<1>7. \A i \in 1 .. Len(calls) : i \in 1 .. Len(calls) - 1 \/ i = Len(calls)
    BY <1>3
<1>8. \A i \in 1 .. Len(calls) - 1 : calls[i].body = NoCommand
    BY <1>1, <1>3 DEF StackSound
<1>9. PICK b \in Command : b = Top.body /\ Has(ran, b) /\ Nested[b] \in Command /\ ~Has(accepted, Nested[b])
    <2>1. Top.body \in Command
        BY <1>2, <1>3 DEF Call
    <2>2. Len(calls) \in 1 .. Len(calls)
        BY <1>3
    <2> QED BY <1>1, <1>2, <1>3, <2>1, <2>2 DEF StackSound
<1>10. PICK c \in Command : c = Nested[b]
    BY <1>9
<1>11. SubmitInline(c, stack)
    BY <1>2, <1>4, <1>6, <1>9, <1>10
<1>12. \A i \in 1 .. Len(calls) : /\ stack[i].batch = calls[i].batch /\ stack[i].then = calls[i].then
                                  /\ stack[i].drains = calls[i].drains /\ stack[i].body = NoCommand
    BY <1>3, <1>5, <1>6, <1>7, <1>8
<1>13. CASE closed
    <2>1. UNCHANGED <<queue, accepted, overtook>> /\ calls' = stack
        BY <1>11, <1>13 DEF SubmitInline, Refuse
    <2> QED BY <1>2, <1>6, <1>12, <2>1, RefusedFine
<1>14. CASE ~closed
    <2>1. \A d \in Command : Nested[d] = c => Has(ran, d)
        BY <1>9, <1>10, NestedFacts
    <2> QED BY <1>2, <1>6, <1>9, <1>10, <1>11, <1>12, <1>14, <2>1, SubmitInlineFine
<1> QED BY <1>13, <1>14

LEMMA BindFine ==
    ASSUME ServerInv, Bind
    PROVE  ServerInv'
BY DEF ServerInv, Bind, ServerShape, StackSound, Placed, Ordered, Waits

(* What a step that accepts nothing has to show about the stack. *)
LEMMA StackKept ==
    ASSUME StackSound, UNCHANGED accepted, \A x \in Command : Has(ran, x) => Has(ran', x),
           \A i \in 1 .. Len(calls') : calls'[i].drains => i = 1 /\ calls'[i].then = NoCommand,
           \A i \in 1 .. Len(calls') : calls'[i].body # NoCommand =>
                /\ i = Len(calls') /\ calls'[i].body \in Command /\ Has(ran', calls'[i].body)
                /\ Nested[calls'[i].body] \in Command /\ ~Has(accepted, Nested[calls'[i].body])
    PROVE  StackSound'
BY DEF StackSound

LEMMA DrainFine ==
    ASSUME ServerInv, Drain
    PROVE  ServerInv'
<1>1. ServerShape /\ StackSound /\ Placed /\ Ordered
    BY DEF ServerInv
<1> DEFINE call == [batch |-> <<>>, then |-> NoCommand, drains |-> TRUE, body |-> NoCommand]
<1>2. call \in Call /\ call.batch = <<>> /\ call.then = NoCommand /\ call.body = NoCommand
    BY DEF Call
<1>3. calls = <<>> /\ calls' = <<call>> /\ UNCHANGED <<queue, closed, accepted, ran, dropped, overtook>>
    BY DEF Drain
<1> HIDE DEF call
<1>4. calls' \in Seq(Call) /\ Len(calls') = 1 /\ calls'[1] = call
    BY <1>2, <1>3
<1>5. \A x \in Command : \A i, l \in Nat : ~HeldAt(calls, x, i, l)
    BY <1>3 DEF HeldAt
<1>6. \A x \in Command : \A i, l \in Nat : ~HeldAt(calls', x, i, l)
    BY <1>2, <1>4, NestedFacts DEF HeldAt, SlotOf
<1>7. Placed' /\ Ordered'
    BY <1>1, <1>3, <1>5, <1>6, PlacesKept
<1>8. ServerShape'
    BY <1>1, <1>3, <1>4 DEF ServerShape
<1>9. StackSound'
    BY <1>1, <1>2, <1>3, <1>4 DEF StackSound
<1> QED BY <1>7, <1>8, <1>9 DEF ServerInv

(* The call on top, if it holds nothing, returns. *)
LEMMA ReturnsFine ==
    ASSUME ServerInv, calls # <<>>, Top.batch = <<>>, Top.then = NoCommand, Top.body = NoCommand,
           calls' = Front(calls), UNCHANGED <<queue, closed, accepted, ran, dropped, overtook>>
    PROVE  ServerInv'
<1>1. ServerShape /\ StackSound /\ Placed /\ Ordered
    BY DEF ServerInv
<1>2. calls \in Seq(Call)
    BY <1>1 DEF ServerShape
<1>3. PICK n \in Nat \ {0} : n = Len(calls)
    BY <1>2
<1>4. NoCommand \notin Command
    BY NestedFacts
<1>5. \E call \in Call : call = call
    BY <1>2, <1>3
<1>6. /\ Top = calls[n] /\ calls' \in Seq(Call) /\ Len(calls') = n - 1
      /\ \A i \in 1 .. n - 1 : calls'[i] = calls[i]
    BY <1>2, <1>3, <1>5, TopFacts
<1>7. \A i : i \in 1 .. n <=> i \in 1 .. n - 1 \/ i = n
    BY <1>3
<1>8. \A x \in Command : \A i, l \in Nat : HeldAt(calls', x, i, l) <=> HeldAt(calls, x, i, l)
    <2>1. \A x \in Command : \A l \in Nat : ~HeldAt(calls, x, n, l)
        BY <1>3, <1>4, <1>6 DEF HeldAt, SlotOf
    <2>2. \A x, i, l : HeldAt(calls', x, i, l) <=> HeldAt(calls, x, i, l) /\ i \in 1 .. n - 1
        BY <1>3, <1>6, <1>7 DEF HeldAt
    <2>3. \A x, i, l : HeldAt(calls, x, i, l) => i \in 1 .. n
        BY <1>3 DEF HeldAt
    <2> QED BY <1>7, <2>1, <2>2, <2>3
<1>9. Placed' /\ Ordered'
    BY <1>1, <1>8, PlacesKept
<1>10. ServerShape'
    BY <1>1, <1>6 DEF ServerShape
<1>11. StackSound'
    <2>1. \A i \in 1 .. Len(calls') : calls'[i] = calls[i] /\ i \in 1 .. Len(calls) /\ i # Len(calls)
        BY <1>3, <1>6, <1>7
    <2>2. \A i \in 1 .. Len(calls') : calls'[i].body = NoCommand
        BY <1>1, <2>1 DEF StackSound
    <2> QED BY <1>1, <2>1, <2>2 DEF StackSound
<1> QED BY <1>9, <1>10, <1>11 DEF ServerInv

LEMMA ReturnFine ==
    ASSUME ServerInv, Return
    PROVE  ServerInv'
BY ReturnsFine DEF Return

LEMMA DrainTakeFine ==
    ASSUME ServerInv, DrainTake
    PROVE  ServerInv'
<1>1. ServerShape /\ StackSound /\ Placed /\ Ordered
    BY DEF ServerInv
<1>2. /\ calls # <<>> /\ Top.drains /\ Top.batch = <<>> /\ Top.body = NoCommand /\ queue' = <<>>
      /\ UNCHANGED <<closed, accepted, ran, dropped, overtook>>
    BY DEF DrainTake
<1>3. calls \in Seq(Call) /\ queue \in Seq(Command) /\ Len(queue) \in Nat
    BY <1>1 DEF ServerShape
<1>4. PICK call : call = [Top EXCEPT !.batch = queue]
    OBVIOUS
<1>5. Top = calls[Len(calls)] /\ Top \in Call /\ Len(calls) \in Nat \ {0}
    <2>1. \E any \in Call : any = any
        BY <1>2, <1>3
    <2> QED BY <1>2, <1>3, <2>1, TopFacts
<1>6. Len(calls) = 1 /\ Top.then = NoCommand
    <2>1. Len(calls) \in 1 .. Len(calls)
        BY <1>5
    <2> QED BY <1>1, <1>2, <1>5, <2>1 DEF StackSound
<1>7. CASE queue = <<>>
    <2>1. calls' = Front(calls) /\ queue' = queue
        BY <1>2, <1>7 DEF DrainTake
    <2> QED BY <1>2, <1>6, <2>1, ReturnsFine
<1>8. CASE queue # <<>>
    <2>1. call \in Call /\ call.batch = queue /\ call.then = NoCommand /\ call.drains /\ call.body = NoCommand
        BY <1>2, <1>3, <1>4, <1>5, <1>6 DEF Call
    <2>2. calls' = WithTop(call)
        BY <1>4, <1>8 DEF DrainTake
    <2>3. calls' \in Seq(Call) /\ Len(calls') = 1 /\ calls'[1] = call
        BY <1>2, <1>3, <1>6, <2>1, <2>2, TopFacts
    <2>4. NoCommand \notin Command
        BY NestedFacts
    <2>5. \A x \in Command : \A i, l \in Nat : ~HeldAt(calls, x, i, l)
        BY <1>2, <1>5, <1>6, <2>4 DEF HeldAt, SlotOf
    <2>6. ASSUME NEW x \in Command, NEW i \in Nat, NEW l \in Nat
          PROVE  HeldAt(calls', x, i, l) <=> i = 1 /\ QueueAt(x, l)
        <3>1. HeldAt(calls', x, i, l) <=> i = 1 /\ l \in 0 .. Len(queue) /\ SlotOf(call, l) = x
            BY <2>1, <2>3 DEF HeldAt
        <3>2. CASE l = 0
            BY <1>3, <2>1, <2>4, <3>1, <3>2 DEF SlotOf, QueueAt
        <3>3. CASE l # 0
            BY <1>3, <2>1, <3>1, <3>3 DEF SlotOf, QueueAt
        <3> QED BY <3>2, <3>3
    <2>7. Placed' /\ Ordered'
        BY <1>1, <1>2, <2>5, <2>6, DrainedPlaces
    <2>8. ServerShape'
        BY <1>1, <1>2, <2>3 DEF ServerShape
    <2>9. StackSound'
        BY <1>1, <1>2, <2>1, <2>3 DEF StackSound
    <2> QED BY <2>7, <2>8, <2>9 DEF ServerInv
<1> QED BY <1>7, <1>8

(* The last place of the call on top runs. *)
RunsTop(c, e, call) ==
    /\ calls # <<>> /\ Top.body = NoCommand /\ e = Len(Top.batch) /\ SlotOf(Top, e) = c
    /\ \A x \in Command : \A l \in Nat :
        l \in 0 .. Len(call.batch) /\ SlotOf(call, l) = x <=> l \in 0 .. e /\ SlotOf(Top, l) = x /\ l # e
    /\ call.drains = Top.drains /\ call.then \in {Top.then, NoCommand} /\ call.body = Body(c)
    /\ calls' = WithTop(call) /\ ran' = Append(ran, c) /\ UNCHANGED <<queue, closed, accepted, dropped, overtook>>

LEMMA RunsAt ==
    ASSUME ServerShape, NEW c \in Command, NEW e \in Nat, NEW call \in Call, RunsTop(c, e, call),
           NEW n \in Nat \ {0}, n = Len(calls)
    PROVE  /\ Top = calls[n] /\ calls' \in Seq(Call) /\ Len(calls') = n /\ calls'[n] = call
           /\ \A i \in 1 .. n - 1 : calls'[i] = calls[i]
           /\ HeldAt(calls, c, n, e)
           /\ \A x \in Command : \A i, l \in Nat : HeldAt(calls, x, i, l) => i < n \/ (i = n /\ l <= e)
           /\ \A x \in Command : \A i, l \in Nat :
                HeldAt(calls', x, i, l) <=> HeldAt(calls, x, i, l) /\ ~(i = n /\ l = e)
<1>1. calls \in Seq(Call) /\ calls # <<>> /\ calls' = WithTop(call) /\ e = Len(Top.batch) /\ SlotOf(Top, e) = c
    BY DEF ServerShape, RunsTop
<1>2. /\ Top = calls[n] /\ calls' \in Seq(Call) /\ Len(calls') = n /\ calls'[n] = call
      /\ \A i \in 1 .. n - 1 : calls'[i] = calls[i]
    BY <1>1, TopFacts
<1>3. \A i : i \in 1 .. n <=> i \in 1 .. n - 1 \/ i = n
    OBVIOUS
<1>4. HeldAt(calls, c, n, e)
    <2>1. e \in 0 .. e /\ n \in 1 .. n
        OBVIOUS
    <2> QED BY <1>1, <1>2, <2>1 DEF HeldAt
<1>5. \A x \in Command : \A i, l \in Nat : HeldAt(calls, x, i, l) => i < n \/ (i = n /\ l <= e)
    BY <1>1, <1>2 DEF HeldAt
<1>6. ASSUME NEW x \in Command, NEW i \in Nat, NEW l \in Nat
      PROVE  HeldAt(calls', x, i, l) <=> HeldAt(calls, x, i, l) /\ ~(i = n /\ l = e)
    <2>1. CASE i = n
        <3>1. HeldAt(calls', x, n, l) <=> l \in 0 .. Len(call.batch) /\ SlotOf(call, l) = x
            BY <1>2, <1>3 DEF HeldAt
        <3>2. HeldAt(calls, x, n, l) <=> l \in 0 .. e /\ SlotOf(Top, l) = x
            BY <1>1, <1>2, <1>3 DEF HeldAt
        <3>3. l \in 0 .. Len(call.batch) /\ SlotOf(call, l) = x <=> l \in 0 .. e /\ SlotOf(Top, l) = x /\ l # e
            BY DEF RunsTop
        <3> QED BY <2>1, <3>1, <3>2, <3>3
    <2>2. CASE i # n
        <3>1. calls'[i] = calls[i] \/ i \notin 1 .. n
            BY <1>2, <1>3, <2>2
        <3> QED BY <1>2, <2>2, <3>1 DEF HeldAt
    <2> QED BY <2>1, <2>2
<1> QED BY <1>2, <1>4, <1>5, <1>6

LEMMA RunsFine ==
    ASSUME ServerInv, NEW c \in Command, NEW e \in Nat, NEW call \in Call, RunsTop(c, e, call)
    PROVE  ServerInv'
<1>1. ServerShape /\ StackSound /\ Placed /\ Ordered
    BY DEF ServerInv
<1>2. calls \in Seq(Call) /\ ran \in Seq(Command) /\ accepted \in Seq(Command)
    BY <1>1 DEF ServerShape
<1>3. /\ calls # <<>> /\ call.drains = Top.drains /\ call.then \in {Top.then, NoCommand} /\ call.body = Body(c)
      /\ ran' = Append(ran, c) /\ UNCHANGED <<queue, accepted, dropped, overtook>> /\ UNCHANGED closed
    BY DEF RunsTop
<1>4. PICK n \in Nat \ {0} : n = Len(calls)
    <2>1. Len(calls) \in Nat \ {0}
        BY <1>2, <1>3, EmptySeq
    <2> QED BY <2>1
<1>5. /\ Top = calls[n] /\ calls' \in Seq(Call) /\ Len(calls') = n /\ calls'[n] = call
      /\ \A i \in 1 .. n - 1 : calls'[i] = calls[i]
    BY <1>1, <1>4, RunsAt
<1>6. HeldAt(calls, c, n, e)
    BY <1>1, <1>4, RunsAt
<1>7. \A x \in Command : \A i, l \in Nat : HeldAt(calls, x, i, l) => i < n \/ (i = n /\ l <= e)
    BY <1>1, <1>4, RunsAt
<1>8. \A x \in Command : \A i, l \in Nat : HeldAt(calls', x, i, l) <=> HeldAt(calls, x, i, l) /\ ~(i = n /\ l = e)
    BY <1>1, <1>4, RunsAt
<1>9. Placed' /\ Ordered'
    <2>1. n \in Nat
        OBVIOUS
    <2>2. ran' = Append(ran, c) /\ UNCHANGED <<queue, accepted, dropped, overtook>>
        BY <1>3
    <2> QED BY <1>1, <1>6, <1>7, <1>8, <2>1, <2>2, RanPlaces
<1>10. ServerShape'
    BY <1>1, <1>2, <1>3, <1>5 DEF ServerShape
<1>11. StackSound'
    <2>1. \A x : Has(ran', x) <=> Has(ran, x) \/ x = c
        BY <1>2, <1>3, HasAppend
    <2>2. ~Has(ran, c)
        BY <1>1, <1>6 DEF Placed, Waits
    <2>3. n \in 1 .. Len(calls) /\ \A i : i \in 1 .. n <=> i \in 1 .. n - 1 \/ i = n
        BY <1>4
    <2>4. \A i \in 1 .. n - 1 : calls[i].body = NoCommand
        BY <1>1, <1>4 DEF StackSound
    <2>5. Nested[c] # NoCommand => Nested[c] \in Command /\ ~Has(accepted, Nested[c])
        BY <1>1, <2>2, NestedFacts DEF StackSound
    <2>6. call.body # NoCommand => call.body = c /\ Nested[c] \in Command /\ ~Has(accepted, Nested[c])
        BY <1>3, <2>5 DEF Body
    <2>7. ASSUME NEW i \in 1 .. Len(calls'), calls'[i].drains PROVE i = 1 /\ calls'[i].then = NoCommand
        BY <1>1, <1>3, <1>4, <1>5, <2>3, <2>7 DEF StackSound
    <2>8. ASSUME NEW i \in 1 .. Len(calls'), calls'[i].body # NoCommand
          PROVE  i = n /\ calls'[i].body = call.body /\ call.body # NoCommand
        BY <1>5, <2>3, <2>4, <2>8
    <2> QED BY <1>1, <1>3, <1>5, <2>1, <2>6, <2>7, <2>8, StackKept
<1> QED BY <1>9, <1>10, <1>11 DEF ServerInv

LEMMA RunBatchFine ==
    ASSUME ServerInv, RunBatch
    PROVE  ServerInv'
<1>1. ServerShape /\ StackSound
    BY DEF ServerInv
<1>2. /\ calls # <<>> /\ Top.body = NoCommand /\ Top.batch # <<>> /\ ran' = Append(ran, Head(Top.batch))
      /\ calls' = WithTop([Top EXCEPT !.batch = Tail(@), !.body = Body(Head(Top.batch))])
      /\ UNCHANGED <<queue, closed, accepted, dropped, overtook>>
    BY DEF RunBatch
<1>3. Top \in Call
    <2>1. calls \in Seq(Call)
        BY <1>1 DEF ServerShape
    <2>2. \E any \in Call : any = any
        BY <1>2, <2>1
    <2> QED BY <1>2, <2>1, <2>2, TopFacts
<1>4. PICK batch \in Seq(Command) : batch = Top.batch
    BY <1>3 DEF Call
<1>5. PICK e \in Nat \ {0} : e = Len(batch)
    BY <1>2, <1>4
<1>6. PICK c \in Command : c = Head(batch)
    BY <1>2, <1>4
<1>7. c = batch[1] /\ Tail(batch) \in Seq(Command) /\ Len(Tail(batch)) = e - 1 /\ \A i \in 1 .. e - 1 : Tail(batch)[i] = batch[i + 1]
    BY <1>2, <1>4, <1>5, <1>6, HeadTailProperties
<1>8. PICK call : call = [Top EXCEPT !.batch = Tail(@), !.body = Body(Head(Top.batch))]
    OBVIOUS
<1>9. /\ call \in Call /\ call.batch = Tail(batch) /\ call.then = Top.then /\ call.drains = Top.drains
      /\ call.body = Body(c)
    <2>1. Body(c) \in Command \cup {NoCommand}
        BY DEF Body
    <2> QED BY <1>3, <1>4, <1>6, <1>7, <1>8, <2>1 DEF Call
<1>10. SlotOf(Top, e) = c
    BY <1>4, <1>5, <1>7 DEF SlotOf
<1>11. ASSUME NEW l \in Nat
       PROVE  /\ l \in 0 .. Len(call.batch) <=> l \in 0 .. e /\ l # e
              /\ l \in 0 .. Len(call.batch) => SlotOf(call, l) = SlotOf(Top, l)
    <2>1. l \in 0 .. Len(call.batch) <=> l \in 0 .. e /\ l # e
        BY <1>5, <1>7, <1>9
    <2>2. CASE l \in 1 .. e - 1
        <3>1. e - l \in 1 .. e - 1 /\ e - 1 + 1 - l = e - l /\ e - l + 1 = e + 1 - l
            BY <2>2
        <3> QED BY <1>4, <1>5, <1>7, <1>9, <2>1, <2>2, <3>1 DEF SlotOf
    <2>3. CASE l = 0
        BY <1>9, <2>1, <2>3 DEF SlotOf
    <2> QED BY <2>1, <2>2, <2>3
<1>12. calls' = WithTop(call) /\ ran' = Append(ran, c) /\ e = Len(Top.batch) /\ e \in Nat
    BY <1>2, <1>4, <1>5, <1>6, <1>8
<1>13. \A x \in Command : \A l \in Nat :
        l \in 0 .. Len(call.batch) /\ SlotOf(call, l) = x <=> l \in 0 .. e /\ SlotOf(Top, l) = x /\ l # e
    BY <1>11
<1>14. calls # <<>> /\ Top.body = NoCommand /\ UNCHANGED <<queue, closed, accepted, dropped, overtook>>
    BY <1>2
<1>15. call \in Call /\ call.drains = Top.drains /\ call.then \in {Top.then, NoCommand} /\ call.body = Body(c)
    BY <1>9
<1>16. RunsTop(c, e, call)
    BY <1>10, <1>12, <1>13, <1>14, <1>15 DEF RunsTop
<1> QED BY <1>9, <1>16, RunsFine

LEMMA RunThenFine ==
    ASSUME ServerInv, RunThen
    PROVE  ServerInv'
<1>1. ServerShape /\ StackSound
    BY DEF ServerInv
<1>2. /\ calls # <<>> /\ Top.body = NoCommand /\ Top.batch = <<>> /\ Top.then # NoCommand
      /\ ran' = Append(ran, Top.then)
      /\ calls' = WithTop([Top EXCEPT !.then = NoCommand, !.body = Body(Top.then)])
      /\ UNCHANGED <<queue, closed, accepted, dropped, overtook>>
    BY DEF RunThen
<1>3. Top \in Call
    <2>1. calls \in Seq(Call)
        BY <1>1 DEF ServerShape
    <2>2. \E any \in Call : any = any
        BY <1>2, <2>1
    <2> QED BY <1>2, <2>1, <2>2, TopFacts
<1>4. PICK c \in Command : c = Top.then
    BY <1>2, <1>3 DEF Call
<1>5. PICK call : call = [Top EXCEPT !.then = NoCommand, !.body = Body(Top.then)]
    OBVIOUS
<1>6. /\ call \in Call /\ call.batch = <<>> /\ call.then = NoCommand /\ call.drains = Top.drains
      /\ call.body = Body(c)
    <2>1. Body(c) \in Command \cup {NoCommand}
        BY DEF Body
    <2> QED BY <1>2, <1>3, <1>4, <1>5, <2>1 DEF Call
<1>7. Len(Top.batch) = 0 /\ Len(call.batch) = 0
    BY <1>2, <1>6
<1>8. SlotOf(Top, 0) = c
    BY <1>4 DEF SlotOf
<1>9. \A x \in Command : \A l \in Nat :
        l \in 0 .. Len(call.batch) /\ SlotOf(call, l) = x <=> l \in 0 .. 0 /\ SlotOf(Top, l) = x /\ l # 0
    BY <1>6, <1>7, NestedFacts DEF SlotOf
<1>10. calls' = WithTop(call) /\ ran' = Append(ran, c) /\ 0 = Len(Top.batch) /\ 0 \in Nat
    BY <1>2, <1>4, <1>5, <1>7
<1>11. RunsTop(c, 0, call)
    BY <1>2, <1>6, <1>8, <1>9, <1>10 DEF RunsTop
<1> QED BY <1>6, <1>10, <1>11, RunsFine

LEMMA CloseFine ==
    ASSUME ServerInv, Close
    PROVE  ServerInv'
<1>1. ServerShape /\ StackSound /\ Placed /\ Ordered
    BY DEF ServerInv
<1>2. /\ closed' = TRUE /\ queue' = <<>> /\ dropped' = Range(queue) /\ dropped = {}
      /\ UNCHANGED <<calls, accepted, ran, overtook>>
    BY <1>1 DEF Close, ServerShape
<1>3. Placed' /\ Ordered'
    BY <1>1, <1>2, ClosedPlaces
<1>4. ServerShape'
    <2>1. Range(queue) \subseteq Command
        BY <1>1 DEF ServerShape, Range
    <2> QED BY <1>1, <1>2, <2>1 DEF ServerShape
<1>5. StackSound'
    BY <1>1, <1>2 DEF StackSound
<1> QED BY <1>3, <1>4, <1>5 DEF ServerInv

LEMMA ServerStep == ServerInv /\ [ServerNext]_serverVars => ServerInv'
<1> SUFFICES ASSUME ServerInv, [ServerNext]_serverVars PROVE ServerInv'
    OBVIOUS
<1>1. ASSUME NEW c \in Command, Submit(c) PROVE ServerInv'
    BY <1>1, SubmitFine
<1>2. ASSUME NEW c \in Command, SubmitBound(c) PROVE ServerInv'
    BY <1>2, SubmitBoundFine
<1>3. CASE SubmitNested
    BY <1>3, SubmitNestedFine
<1>4. CASE Bind
    BY <1>4, BindFine
<1>5. CASE Drain
    BY <1>5, DrainFine
<1>6. CASE DrainTake
    BY <1>6, DrainTakeFine
<1>7. CASE RunBatch
    BY <1>7, RunBatchFine
<1>8. CASE RunThen
    BY <1>8, RunThenFine
<1>9. CASE Return
    BY <1>9, ReturnFine
<1>10. CASE Close
    BY <1>10, CloseFine
<1>11. CASE UNCHANGED serverVars
  <2>1. ServerShape'
    BY <1>11 DEF ServerInv, ServerShape, serverVars
  <2>2. StackSound'
    BY <1>11 DEF ServerInv, StackSound, serverVars
  <2>3. Placed' /\ Ordered'
    BY <1>11 DEF ServerInv, Placed, Ordered, Waits, serverVars
  <2> QED
    BY <2>1, <2>2, <2>3 DEF ServerInv
<1> QED BY <1>1, <1>2, <1>3, <1>4, <1>5, <1>6, <1>7, <1>8, <1>9, <1>10, <1>11 DEF ServerNext

LEMMA ServerStart == ServerInit => ServerInv
<1> SUFFICES ASSUME ServerInit PROVE ServerInv
    OBVIOUS
<1>1. /\ queue = <<>> /\ calls = <<>> /\ accepted = <<>> /\ ran = <<>> /\ dropped = {} /\ overtook = {}
      /\ closed = FALSE
    BY DEF ServerInit
<1>2. \A i : i \notin 1 .. 0
    OBVIOUS
<1>3. \A x : ~Has(queue, x) /\ ~Has(accepted, x) /\ ~Has(ran, x)
    BY <1>1 DEF Has
<1>4. \A x, i, l : ~HeldAt(calls, x, i, l)
    BY <1>1 DEF HeldAt
<1>5. ServerShape
    <2>1. <<>> \in Seq(Command) /\ <<>> \in Seq(Call)
        OBVIOUS
    <2> QED BY <1>1, <2>1 DEF ServerShape
<1>6. StackSound
    BY <1>1, <1>2, <1>3 DEF StackSound
<1>7. Placed
    BY <1>1, <1>3, <1>4 DEF Placed, Once, Waits
<1>8. Ordered
    <2>1. \A c, d : ~Before(accepted, d, c)
        BY <1>1, <1>2 DEF Before
    <2> QED BY <2>1 DEF Ordered
<1> QED BY <1>5, <1>6, <1>7, <1>8 DEF ServerInv

(* What ties the order in which commands were accepted to the places in    *)
(* which the bound goroutine's calls and the queue hold them.              *)
THEOREM ServerInvariant == ServerSpec => []ServerInv
<1> QED BY ServerStart, ServerStep, PTL DEF ServerSpec

(* Every accepted command runs once, waits or was dropped by Close, and    *)
(* runs behind all accepted before it, whatever the commands submit in     *)
(* turn and whenever Close comes, but for those that overtook: an inline   *)
(* Submit taken in front of what calls still hold (server.go:74-76).       *)
THEOREM InOrderUnlessNestedHolds == ServerSpec => []InOrderUnlessNested
<1>1. ServerInv => InOrderUnlessNested
    <2> SUFFICES ASSUME ServerInv PROVE InOrderUnlessNested
        OBVIOUS
    <2>1. ServerShape /\ Placed /\ Ordered
        BY DEF ServerInv
    <2>2. queue \in Seq(Command) /\ accepted \in Seq(Command) /\ ran \in Seq(Command) /\ calls \in Seq(Call)
          /\ dropped \subseteq Command
        BY <2>1 DEF ServerShape
    <2>3. /\ \A x : x \in Range(ran) <=> Has(ran, x)
          /\ \A x : x \in Range(accepted) <=> Has(accepted, x)
          /\ \A x : x \in Range(queue) <=> Has(queue, x)
        <3>1. DOMAIN ran = 1 .. Len(ran) /\ DOMAIN accepted = 1 .. Len(accepted) /\ DOMAIN queue = 1 .. Len(queue)
            BY <2>2
        <3> QED BY <3>1 DEF Range, Has
    <2>4. Range(ran) \subseteq Command /\ Range(accepted) \subseteq Command /\ Range(queue) \subseteq Command
          /\ Taken(calls) \subseteq Command
        BY <2>2, TakenCommands DEF Range
    <2>5. \A x \in Command : x \in Taken(calls) <=> Waits(x)
        BY <2>2, TakenAt DEF Waits
    <2>6. IsInjective(ran)
        <3>1. DOMAIN ran = 1 .. Len(ran)
            BY <2>2
        <3> QED BY <2>1, <3>1 DEF IsInjective, Placed, Once
    <2>7. Range(accepted) = Range(ran) \cup Range(queue) \cup Taken(calls) \cup dropped
        <3>1. \A x \in Command : x \in Range(accepted) <=> x \in Range(ran) \cup Range(queue) \cup Taken(calls) \cup dropped
            BY <2>1, <2>3, <2>5 DEF Placed
        <3> QED BY <2>2, <2>4, <3>1
    <2>8. \A c \in Range(ran), d \in Range(accepted) \ dropped :
            Before(accepted, d, c) => Before(ran, d, c) \/ <<c, d>> \in overtook
        BY <2>1, <2>3, <2>4 DEF Ordered
    <2> QED BY <2>6, <2>7, <2>8 DEF InOrderUnlessNested
<1> QED BY <1>1, ServerInvariant, PTL
-----------------------------------------------------------------------------
(* AssistantDispatch.  A dispatch under way has a request of its own, that *)
(* its agent's capabilities cover, and is not in the log; all others are.  *)
Dispatching == [at : {"idle", "send", "post", "receive", "read"}, req : Nat, conn : Link \cup {0}, expired : BOOLEAN]
Request == [method : Method, caps : Grant, conn : Link]
Entry == [request : Nat, ok : BOOLEAN]
Pipe == [sent : SUBSET Nat, replies : Seq(Nat), has : BOOLEAN, resp : Nat]

Busy(c) == dispatches[c].at # "idle"
Allowed(r) == Needs[requests[r].method] \subseteq requests[r].caps

DispatchShape ==
    /\ seq \in Nat /\ requests \in Seq(Request) /\ Len(requests) = seq
    /\ \A a \in DOMAIN agents : agents[a] \in [conn : Link, caps : Grant]
    /\ dispatches \in [Caller -> Dispatching]
    /\ \A c \in Caller : ~Busy(c) => dispatches[c] = Idle
    /\ log \in Seq(Entry)
    /\ links \in [Link -> Pipe]
    /\ disturbed \in SUBSET Link

UnderWay(c) ==
    /\ dispatches[c].req \in 1 .. seq /\ dispatches[c].conn = requests[dispatches[c].req].conn
    /\ Allowed(dispatches[c].req) /\ dispatches[c].req \notin DOMAIN answers
    /\ \A i \in 1 .. Len(log) : log[i].request # dispatches[c].req
    /\ \A d \in Caller : Busy(d) /\ dispatches[d].req = dispatches[c].req => d = c
    /\ dispatches[c].at = "post" => dispatches[c].conn \notin Stdio
    /\ dispatches[c].at = "read" => dispatches[c].conn \in Stdio

Logged ==
    /\ \A i, j \in 1 .. Len(log) : log[i].request = log[j].request => i = j
    /\ \A i \in 1 .. Len(log) : log[i].request \in 1 .. seq /\ (log[i].ok <=> log[i].request \in DOMAIN answers)
    /\ \A r \in 1 .. seq :
        \/ \E c \in Caller : Busy(c) /\ dispatches[c].req = r
        \/ \E i \in 1 .. Len(log) : log[i].request = r

Covered ==
    /\ \A l \in Link : \A r \in links[l].sent : r \in 1 .. seq /\ Allowed(r)
    /\ \A r \in DOMAIN answers : r \in 1 .. seq /\ Allowed(r)

(* A connection on which no requests overlapped and none gave up serves    *)
(* one dispatch, and whatever is on it or left behind is that one's.       *)
On(c, l) == Busy(c) /\ dispatches[c].conn = l
Awaited(r, l, places) ==
    \E c \in Caller : dispatches[c].at \in places /\ dispatches[c].conn = l /\ dispatches[c].req = r
Alone(l) ==
    /\ \A c, d \in Caller : On(c, l) /\ On(d, l) => c = d
    /\ \A r \in links[l].sent : Awaited(r, l, IF l \in Stdio THEN {"receive", "read"} ELSE {"post"})
    /\ links[l].replies # <<>> =>
        l \in Stdio /\ links[l].sent = {} /\ Len(links[l].replies) = 1
        /\ Awaited(links[l].replies[1], l, {"receive", "read"})
    /\ links[l].has => l \notin Stdio /\ Awaited(links[l].resp, l, {"receive"})

Own ==
    /\ \A r \in DOMAIN answers : answers[r] = r \/ requests[r].conn \in disturbed
    /\ \A l \in Link \ disturbed : Alone(l)

DispatchInv ==
    DispatchShape /\ (\A c \in Caller : Busy(c) => UnderWay(c)) /\ Logged /\ Covered /\ Own

LEMMA Parts ==
    ASSUME DispatchInv
    PROVE  /\ DispatchShape /\ Logged /\ Covered /\ Own
           /\ \A c \in Caller : Busy(c) => UnderWay(c)
           /\ \A c \in Caller : dispatches[c] \in Dispatching
           /\ \A l \in Link : links[l] \in Pipe
           /\ \A r \in 1 .. seq : requests[r] \in Request
           /\ seq \in Nat /\ Len(requests) = seq
BY DEF DispatchInv, DispatchShape

(* Some dispatches end, each with an entry. *)
Ended(served, good, n, entry) ==
    /\ \A c \in served : Busy(c)
    /\ \A r \in good : \E c \in served : dispatches[c].req = r
    /\ log' \in Seq(Entry) /\ Len(log') = Len(log) + n
    /\ \A i \in 1 .. Len(log) : log'[i] = log[i]
    /\ \A i \in 1 .. n : log'[Len(log) + i] = entry[i]
    /\ \A i, j \in 1 .. n : entry[i].request = entry[j].request => i = j
    /\ \A i \in 1 .. n : \E c \in served : entry[i].request = dispatches[c].req
    /\ \A i \in 1 .. n : entry[i].ok <=> entry[i].request \in good
    /\ \A c \in served : \E i \in 1 .. n : entry[i].request = dispatches[c].req
    /\ DOMAIN answers' = DOMAIN answers \cup good
    /\ dispatches' = [c \in Caller |-> IF c \in served THEN Idle ELSE dispatches[c]]
    /\ UNCHANGED <<seq, requests>>

(* The indices of a sequence n longer than one of length m.                *)
LEMMA JoinedIndices ==
    ASSUME NEW m \in Nat, NEW n \in Nat
    PROVE  \A i : i \in 1 .. m + n <=> i \in 1 .. m \/ \E j \in 1 .. n : i = m + j
<1>1. ASSUME NEW i \in 1 .. m + n PROVE i \in 1 .. m \/ \E j \in 1 .. n : i = m + j
    <2>1. CASE i > m
        <3>1. i - m \in 1 .. n /\ i = m + (i - m)
            BY <2>1
        <3> QED BY <3>1
    <2>2. CASE i <= m
        BY <2>2
    <2> QED BY <2>1, <2>2
<1>2. \A j \in 1 .. n : m + j \in 1 .. m + n
    OBVIOUS
<1>3. \A i \in 1 .. m : i \in 1 .. m + n
    OBVIOUS
<1>4. SUFFICES ASSUME NEW i
               PROVE  i \in 1 .. m + n <=> i \in 1 .. m \/ \E j \in 1 .. n : i = m + j
    OBVIOUS
<1>5. i \in 1 .. m + n => i \in 1 .. m \/ \E j \in 1 .. n : i = m + j
    BY <1>1
<1>6. i \in 1 .. m => i \in 1 .. m + n
    BY <1>3
<1>7. (\E j \in 1 .. n : i = m + j) => i \in 1 .. m + n
    BY <1>2
<1> QED BY <1>5, <1>6, <1>7

LEMMA Finishes ==
    ASSUME DispatchInv, NEW served \in SUBSET Caller, NEW good, NEW n \in Nat, NEW entry \in [1 .. n -> Entry],
           Ended(served, good, n, entry)
    PROVE  /\ Logged'
           /\ dispatches' \in [Caller -> Dispatching]
           /\ \A c \in Caller : ~Busy(c)' => dispatches'[c] = Idle
           /\ \A c \in Caller : Busy(c)' => UnderWay(c)'
<1>1. DispatchShape /\ Logged /\ (\A c \in Caller : Busy(c) => UnderWay(c)) /\ (\A c \in Caller : dispatches[c] \in Dispatching)
    BY Parts
<1>2. Len(log) \in Nat
    BY <1>1 DEF DispatchShape
<1>3. \A i : i \in 1 .. Len(log') <=> i \in 1 .. Len(log) \/ \E j \in 1 .. n : i = Len(log) + j
    <2>1. Len(log') = Len(log) + n
        BY DEF Ended
    <2> QED BY <1>2, <2>1, JoinedIndices
<1> USE DEF Ended
<1>4. Idle \in Dispatching /\ Idle.at = "idle"
    BY DEF Idle, Dispatching
<1>5. \A c \in Caller : IF c \in served THEN dispatches'[c] = Idle ELSE dispatches'[c] = dispatches[c]
    OBVIOUS
<1>6. dispatches' \in [Caller -> Dispatching]
    BY <1>1, <1>4
<1>7. \A c \in Caller : Busy(c)' => c \notin served /\ Busy(c) /\ dispatches'[c] = dispatches[c]
    BY <1>4, <1>5 DEF Busy
<1>8. \A c \in Caller : ~Busy(c)' => dispatches'[c] = Idle
    BY <1>1, <1>5 DEF Busy, DispatchShape
(* A dispatch under way has no entry, nor an answer. *)
<1>9. \A c \in served : /\ dispatches[c].req \in 1 .. seq /\ dispatches[c].req \notin DOMAIN answers
                     /\ \A i \in 1 .. Len(log) : log[i].request # dispatches[c].req
                     /\ \A d \in Caller : Busy(d) /\ dispatches[d].req = dispatches[c].req => d = c
    BY <1>1 DEF UnderWay
<1>10. Logged'
    <2>1. ASSUME NEW i \in 1 .. Len(log'), NEW j \in 1 .. Len(log'), log'[i].request = log'[j].request PROVE i = j
        <3>1. CASE i \in 1 .. Len(log) /\ j \in 1 .. Len(log)
            BY <1>1, <2>1, <3>1 DEF Logged
        <3>2. ASSUME NEW k \in 1 .. Len(log), NEW m \in 1 .. n PROVE log'[k].request # log'[Len(log) + m].request
            <4>1. PICK c \in served : entry[m].request = dispatches[c].req
                OBVIOUS
            <4>2. log[k].request # dispatches[c].req
                BY <1>9
            <4>3. log'[k] = log[k] /\ log'[Len(log) + m] = entry[m]
                OBVIOUS
            <4> QED BY <4>1, <4>2, <4>3
        <3>3. CASE i \notin 1 .. Len(log) /\ j \notin 1 .. Len(log)
            <4>1. PICK k \in 1 .. n : i = Len(log) + k
                BY <1>3, <3>3
            <4>2. PICK m \in 1 .. n : j = Len(log) + m
                BY <1>3, <3>3
            <4>3. entry[k].request = entry[m].request
                BY <2>1, <4>1, <4>2
            <4> QED BY <4>1, <4>2, <4>3
        <3>4. \A k \in 1 .. Len(log') : k \in 1 .. Len(log) \/ \E m \in 1 .. n : k = Len(log) + m
            BY <1>3
        <3>5. CASE i \in 1 .. Len(log) /\ j \notin 1 .. Len(log)
            <4>1. PICK m \in 1 .. n : j = Len(log) + m
                BY <3>4, <3>5
            <4> QED BY <2>1, <3>2, <3>5, <4>1
        <3>6. CASE i \notin 1 .. Len(log) /\ j \in 1 .. Len(log)
            <4>1. PICK m \in 1 .. n : i = Len(log) + m
                BY <3>4, <3>6
            <4> QED BY <2>1, <3>2, <3>6, <4>1
        <3> QED BY <3>1, <3>3, <3>5, <3>6
    <2>2. ASSUME NEW i \in 1 .. Len(log')
          PROVE  log'[i].request \in 1 .. seq /\ (log'[i].ok <=> log'[i].request \in DOMAIN answers')
        <3>1. CASE i \in 1 .. Len(log)
            <4>1. log[i].request \in 1 .. seq /\ (log[i].ok <=> log[i].request \in DOMAIN answers) /\ log'[i] = log[i]
                BY <1>1, <3>1 DEF Logged
            <4>2. log[i].request \notin good
                <5> SUFFICES ASSUME log[i].request \in good PROVE FALSE
                    OBVIOUS
                <5>1. PICK c \in served : dispatches[c].req = log[i].request
                    OBVIOUS
                <5> QED BY <1>9, <3>1, <5>1
            <4> QED BY <4>1, <4>2
        <3>2. ASSUME NEW m \in 1 .. n, i = Len(log) + m PROVE log'[i].request \in 1 .. seq /\ (log'[i].ok <=> log'[i].request \in DOMAIN answers')
            <4>1. PICK c \in served : entry[m].request = dispatches[c].req
                OBVIOUS
            <4>2. entry[m].request \in 1 .. seq /\ entry[m].request \notin DOMAIN answers
                BY <1>9, <4>1
            <4>3. log'[i] = entry[m] /\ (entry[m].ok <=> entry[m].request \in good)
                BY <3>2
            <4> QED BY <4>2, <4>3
        <3>3. i \in 1 .. Len(log) \/ \E m \in 1 .. n : i = Len(log) + m
            BY <1>3
        <3> QED BY <3>1, <3>2, <3>3
    <2>3. ASSUME NEW r \in 1 .. seq
          PROVE  \/ \E c \in Caller : Busy(c)' /\ dispatches'[c].req = r
                 \/ \E i \in 1 .. Len(log') : log'[i].request = r
        <3>1. ASSUME NEW c \in Caller, Busy(c), dispatches[c].req = r, c \notin served
              PROVE  Busy(c)' /\ dispatches'[c].req = r
            BY <1>5, <3>1 DEF Busy
        <3>2. ASSUME NEW c \in served, dispatches[c].req = r PROVE \E i \in 1 .. Len(log') : log'[i].request = r
            <4>1. PICK m \in 1 .. n : entry[m].request = r
                BY <3>2
            <4>2. Len(log) + m \in 1 .. Len(log')
                BY <1>3
            <4> QED BY <4>1, <4>2
        <3>3. ASSUME NEW i \in 1 .. Len(log), log[i].request = r PROVE i \in 1 .. Len(log') /\ log'[i].request = r
            BY <1>3, <3>3
        <3> QED BY <1>1, <3>1, <3>2, <3>3 DEF Logged
    <2> QED BY <2>1, <2>2, <2>3 DEF Logged
<1>11. ASSUME NEW c \in Caller, Busy(c)' PROVE UnderWay(c)'
    <2>1. c \notin served /\ Busy(c) /\ dispatches'[c] = dispatches[c]
        BY <1>7, <1>11
    <2>2. UnderWay(c) /\ \A d \in served : dispatches[d].req # dispatches[c].req
        <3>1. UnderWay(c)
            BY <1>1, <2>1
        <3>2. ASSUME NEW d \in served, dispatches[d].req = dispatches[c].req PROVE FALSE
            <4>1. UnderWay(d)
                BY <1>1, <3>2, Zenon
            <4>2. c = d
                BY <2>1, <3>2, <4>1, Zenon DEF UnderWay
            <4> QED BY <2>1, <4>2
        <3> QED BY <3>1, <3>2
    <2>3. dispatches[c].req \notin good
        <3> SUFFICES ASSUME dispatches[c].req \in good PROVE FALSE
            OBVIOUS
        <3>1. PICK d \in served : dispatches[c].req = dispatches[d].req
            OBVIOUS
        <3> QED BY <2>2, <3>1
    <2>4. ASSUME NEW i \in 1 .. Len(log') PROVE log'[i].request # dispatches[c].req
        <3>1. CASE i \in 1 .. Len(log)
            BY <2>2, <3>1 DEF UnderWay
        <3>2. ASSUME NEW m \in 1 .. n, i = Len(log) + m PROVE log'[i].request # dispatches[c].req
            <4>1. PICK d \in served : entry[m].request = dispatches[d].req
                OBVIOUS
            <4>2. log'[i] = entry[m] /\ dispatches[d].req # dispatches[c].req
                BY <2>2, <3>2
            <4> QED BY <4>1, <4>2, Zenon
        <3>3. i \in 1 .. Len(log) \/ \E m \in 1 .. n : i = Len(log) + m
            BY <1>3
        <3> QED BY <3>1, <3>2, <3>3
    <2>5. \A d \in Caller : Busy(d)' /\ dispatches'[d].req = dispatches'[c].req => d = c
        BY <1>7, <2>1, <2>2 DEF UnderWay
    <2> QED BY <2>1, <2>2, <2>3, <2>4, <2>5 DEF UnderWay, Allowed
<1> QED BY <1>6, <1>8, <1>10, <1>11

(* One dispatch ends. *)
LEMMA FinishesOne ==
    ASSUME DispatchInv, NEW c \in Caller, Busy(c), NEW ok \in BOOLEAN, Finish(c, ok), UNCHANGED <<seq, requests>>,
           DOMAIN answers' = DOMAIN answers \cup (IF ok THEN {dispatches[c].req} ELSE {})
    PROVE  /\ Logged' /\ log' \in Seq(Entry)
           /\ dispatches' \in [Caller -> Dispatching]
           /\ \A d \in Caller : ~Busy(d)' => dispatches'[d] = Idle
           /\ \A d \in Caller : Busy(d)' => UnderWay(d)'
           /\ ~Busy(c)' /\ \A d \in Caller : d # c => dispatches'[d] = dispatches[d]
<1>1. dispatches \in [Caller -> Dispatching] /\ log \in Seq(Entry) /\ dispatches[c] \in Dispatching
    BY Parts DEF DispatchShape
<1>2. PICK e : e = [request |-> dispatches[c].req, ok |-> ok]
    OBVIOUS
<1>3. e \in Entry /\ e.request = dispatches[c].req /\ e.ok = ok
    BY <1>1, <1>2 DEF Entry, Dispatching
<1>4. log' = Append(log, e) /\ dispatches' = [dispatches EXCEPT ![c] = Idle]
    BY <1>2 DEF Finish
<1>5. log' \in Seq(Entry) /\ Len(log') = Len(log) + 1 /\ (\A i \in 1 .. Len(log) : log'[i] = log[i]) /\ log'[Len(log) + 1] = e
    BY <1>1, <1>3, <1>4
<1>6. PICK n \in Nat : n = 1
    OBVIOUS
<1>7. PICK entry \in [1 .. n -> Entry] : \A i \in 1 .. n : i = 1 /\ entry[i] = e
    <2>1. [i \in 1 .. n |-> e] \in [1 .. n -> Entry]
        BY <1>3
    <2>2. \A i \in 1 .. n : i = 1 /\ [j \in 1 .. n |-> e][i] = e
        BY <1>6
    <2> QED BY <2>1, <2>2
<1>8. PICK good : good = IF ok THEN {dispatches[c].req} ELSE {}
    OBVIOUS
<1>9. PICK served \in SUBSET Caller : served = {c}
    OBVIOUS
<1>10. dispatches' = [d \in Caller |-> IF d \in served THEN Idle ELSE dispatches[d]]
    BY <1>1, <1>4, <1>9
<1>11. \A r \in good : \E d \in served : dispatches[d].req = r
    BY <1>8, <1>9
<1>12. e.ok <=> e.request \in good
    BY <1>3, <1>8
<1>13. DOMAIN answers' = DOMAIN answers \cup good
    BY <1>8
<1>14. Len(log') = Len(log) + n /\ \A i \in 1 .. n : log'[Len(log) + i] = entry[i]
    BY <1>5, <1>6, <1>7
<1>15. \A i \in 1 .. n : (\E d \in served : entry[i].request = dispatches[d].req) /\ (entry[i].ok <=> entry[i].request \in good)
    BY <1>3, <1>7, <1>9, <1>12
<1>16. \A d \in served : \E i \in 1 .. n : entry[i].request = dispatches[d].req
    <2>1. 1 \in 1 .. n /\ entry[1].request = dispatches[c].req
        BY <1>3, <1>6, <1>7
    <2> QED BY <1>9, <2>1
<1>17. \A i, j \in 1 .. n : entry[i].request = entry[j].request => i = j
    BY <1>7
<1>18. \A d \in served : Busy(d)
    BY <1>9
<1>19. ~Busy(c)' /\ \A d \in Caller : d # c => dispatches'[d] = dispatches[d]
    BY <1>9, <1>10 DEF Busy, Idle
<1>20. /\ Logged' /\ dispatches' \in [Caller -> Dispatching]
       /\ \A d \in Caller : ~Busy(d)' => dispatches'[d] = Idle
       /\ \A d \in Caller : Busy(d)' => UnderWay(d)'
    <2>1. Ended(served, good, n, entry)
        BY <1>5, <1>10, <1>11, <1>13, <1>14, <1>15, <1>16, <1>17, <1>18 DEF Ended
    <2> QED BY <2>1, Finishes
<1> QED BY <1>5, <1>19, <1>20

(* A dispatch goes on. *)
LEMMA Moves ==
    ASSUME DispatchInv, NEW c \in Caller, Busy(c), NEW rec \in Dispatching,
           rec.req = dispatches[c].req, rec.conn = dispatches[c].conn, rec.at # "idle",
           rec.at = "post" => rec.conn \notin Stdio, rec.at = "read" => rec.conn \in Stdio,
           dispatches' = [dispatches EXCEPT ![c] = rec], UNCHANGED <<seq, requests, log, answers>>
    PROVE  /\ Logged'
           /\ dispatches' \in [Caller -> Dispatching] /\ dispatches'[c] = rec
           /\ \A d \in Caller : d # c => dispatches'[d] = dispatches[d]
           /\ \A d \in Caller : ~Busy(d)' => dispatches'[d] = Idle
           /\ \A d \in Caller : Busy(d)' => UnderWay(d)'
<1>1. /\ DispatchShape /\ Logged /\ (\A d \in Caller : Busy(d) => UnderWay(d)) /\ dispatches \in [Caller -> Dispatching]
    BY Parts DEF DispatchShape
<1>2. dispatches'[c] = rec /\ \A d \in Caller : d # c => dispatches'[d] = dispatches[d]
    BY <1>1
<1>3. \A d \in Caller : (Busy(d)' <=> Busy(d)) /\ dispatches'[d].req = dispatches[d].req /\ dispatches'[d].conn = dispatches[d].conn
    BY <1>2 DEF Busy
<1>4. Logged'
    BY <1>1, <1>3 DEF Logged
<1>5. \A d \in Caller : ~Busy(d)' => dispatches'[d] = Idle
    BY <1>1, <1>2, <1>3 DEF DispatchShape
<1>6. ASSUME NEW d \in Caller, Busy(d)' PROVE UnderWay(d)'
    <2>1. UnderWay(d)
        BY <1>1, <1>3, <1>6
    <2>2. (dispatches'[d].at = "post" => dispatches'[d].conn \notin Stdio) /\ (dispatches'[d].at = "read" => dispatches'[d].conn \in Stdio)
        BY <1>2, <2>1 DEF UnderWay
    <2> QED BY <1>3, <2>1, <2>2 DEF UnderWay, Allowed
<1> QED BY <1>1, <1>2, <1>4, <1>5, <1>6

(* What a connection with one dispatch, or none, has on it. *)
LEMMA AloneFacts ==
    ASSUME DispatchInv, NEW l \in Link, Alone(l), NEW c \in Caller, On(c, l)
    PROVE  LET p == links[l]
               me == dispatches[c]
           IN  /\ \A d \in Caller : On(d, l) => d = c
               /\ p.sent \subseteq {me.req}
               /\ p.sent # {} => me.at \in (IF l \in Stdio THEN {"receive", "read"} ELSE {"post"})
               /\ p.replies # <<>> => l \in Stdio /\ p.sent = {} /\ Len(p.replies) = 1 /\ p.replies[1] = me.req
                                      /\ me.at \in {"receive", "read"}
               /\ p.has => l \notin Stdio /\ p.resp = me.req /\ me.at = "receive"
<1>1. \A d \in Caller : On(d, l) => d = c
    BY DEF Alone
<1>2. ASSUME NEW r, NEW places, "idle" \notin places, Awaited(r, l, places) PROVE r = dispatches[c].req /\ dispatches[c].at \in places
    BY <1>1, <1>2 DEF Awaited, On, Busy
<1>3. ASSUME NEW r \in links[l].sent
      PROVE  r = dispatches[c].req /\ dispatches[c].at \in (IF l \in Stdio THEN {"receive", "read"} ELSE {"post"})
    <2>1. "idle" \notin (IF l \in Stdio THEN {"receive", "read"} ELSE {"post"})
        OBVIOUS
    <2>2. Awaited(r, l, IF l \in Stdio THEN {"receive", "read"} ELSE {"post"})
        BY <1>3 DEF Alone
    <2> QED BY <1>2, <2>1, <2>2
<1>4. links[l].replies # <<>> =>
        l \in Stdio /\ links[l].sent = {} /\ Len(links[l].replies) = 1 /\ links[l].replies[1] = dispatches[c].req
        /\ dispatches[c].at \in {"receive", "read"}
    BY <1>2 DEF Alone
<1>5. links[l].has => l \notin Stdio /\ links[l].resp = dispatches[c].req /\ dispatches[c].at = "receive"
    BY <1>2 DEF Alone
<1> QED BY <1>1, <1>3, <1>4, <1>5

LEMMA EmptyFacts ==
    ASSUME NEW l \in Link, Alone(l), \A c \in Caller : ~On(c, l)
    PROVE  links[l].sent = {} /\ links[l].replies = <<>> /\ ~links[l].has
<1>1. \A r : \A places : "idle" \notin places => ~Awaited(r, l, places)
    BY DEF Awaited, On, Busy
<1> QED BY <1>1 DEF Alone

(* A connection that a step leaves alone. *)
LEMMA AloneKept ==
    ASSUME NEW l \in Link, links'[l] = links[l], Alone(l),
           \A c \in Caller : On(c, l)' <=> On(c, l),
           \A c \in Caller : On(c, l) => dispatches'[c].at = dispatches[c].at /\ dispatches'[c].req = dispatches[c].req
    PROVE  Alone(l)'
<1>1. ASSUME NEW r, NEW places, "idle" \notin places, Awaited(r, l, places) PROVE Awaited(r, l, places)'
    <2>1. PICK c \in Caller : dispatches[c].at \in places /\ dispatches[c].conn = l /\ dispatches[c].req = r
        BY <1>1 DEF Awaited
    <2>2. On(c, l)
        BY <1>1, <2>1 DEF On, Busy
    <2> QED BY <2>1, <2>2 DEF Awaited, On
<1>2. \A r \in links[l].sent : Awaited(r, l, IF l \in Stdio THEN {"receive", "read"} ELSE {"post"})'
    <2>1. "idle" \notin (IF l \in Stdio THEN {"receive", "read"} ELSE {"post"})
        OBVIOUS
    <2> QED BY <1>1, <2>1 DEF Alone
<1>3. links[l].replies # <<>> => Awaited(links[l].replies[1], l, {"receive", "read"})'
    BY <1>1 DEF Alone
<1>4. links[l].has => Awaited(links[l].resp, l, {"receive"})'
    BY <1>1 DEF Alone
<1> QED BY <1>2, <1>3, <1>4 DEF Alone

(* A step on one connection. *)
LEMMA OneLink ==
    ASSUME DispatchInv, NEW l,
           \A d \in Caller : dispatches'[d] = dispatches[d]
                \/ ((dispatches[d].conn = l \/ ~Busy(d)) /\ (dispatches'[d].conn = l \/ ~Busy(d)')),
           \A m \in Link : m # l => links'[m] = links[m], disturbed \subseteq disturbed',
           \A r \in DOMAIN answers' : answers'[r] = r \/ requests'[r].conn \in disturbed',
           l \in Link \ disturbed' => Alone(l)'
    PROVE  Own'
<1>1. ASSUME NEW m \in Link \ disturbed', m # l PROVE Alone(m)'
    <2>1. \A d \in Caller : On(d, m)' <=> On(d, m)
        BY <1>1 DEF On, Busy
    <2>2. \A d \in Caller : On(d, m) => dispatches'[d] = dispatches[d]
        BY <1>1 DEF On
    <2>3. Alone(m)
        BY <1>1, Parts DEF Own
    <2> QED BY <1>1, <2>1, <2>2, <2>3, AloneKept
<1> QED BY <1>1 DEF Own

(* One dispatch is on the connection after a step, or none. *)
LEMMA AloneAfter ==
    ASSUME NEW l \in Link, NEW c \in Caller, \A d \in Caller : On(d, l)' => d = c, On(c, l)',
           links'[l].sent \subseteq {dispatches'[c].req},
           links'[l].sent # {} => dispatches'[c].at \in (IF l \in Stdio THEN {"receive", "read"} ELSE {"post"}),
           links'[l].replies # <<>> => l \in Stdio /\ links'[l].sent = {} /\ Len(links'[l].replies) = 1
                /\ links'[l].replies[1] = dispatches'[c].req /\ dispatches'[c].at \in {"receive", "read"},
           links'[l].has => l \notin Stdio /\ links'[l].resp = dispatches'[c].req /\ dispatches'[c].at = "receive"
    PROVE  Alone(l)'
<1>1. ASSUME NEW r, NEW places, dispatches'[c].req = r, dispatches'[c].at \in places PROVE Awaited(r, l, places)'
    BY <1>1 DEF Awaited, On
<1>2. \A r \in links'[l].sent : Awaited(r, l, IF l \in Stdio THEN {"receive", "read"} ELSE {"post"})'
    BY <1>1
<1>3. links'[l].replies # <<>> => Awaited(links[l].replies[1], l, {"receive", "read"})'
    BY <1>1
<1>4. links'[l].has => Awaited(links[l].resp, l, {"receive"})'
    BY <1>1
<1> QED BY <1>2, <1>3, <1>4 DEF Alone

LEMMA NoneAfter ==
    ASSUME NEW l \in Link, \A d \in Caller : ~On(d, l)',
           links'[l].sent = {}, links'[l].replies = <<>>, ~links'[l].has
    PROVE  Alone(l)'
BY DEF Alone
-----------------------------------------------------------------------------
(* The actions. *)
LEMMA RegisterAgentFine ==
    ASSUME DispatchInv, NEW a \in Agent, NEW l \in Link, NEW caps \in Grant, RegisterAgent(a, l, caps)
    PROVE  DispatchInv'
<1>1. UNCHANGED <<log, seq, dispatches, links, requests, answers, disturbed>>
    BY DEF RegisterAgent
<1>2. \A b \in DOMAIN agents' : agents'[b] \in [conn : Link, caps : Grant]
    BY Parts DEF DispatchShape, RegisterAgent, Assigned
<1>3. DispatchShape'
    BY <1>1, <1>2, Parts DEF DispatchShape, Busy
<1>4. Logged' /\ Covered' /\ Own'
    BY <1>1, Parts DEF Logged, Covered, Own, Busy, Allowed, Alone, On, Awaited
<1>5. \A c \in Caller : Busy(c)' => UnderWay(c)'
    BY <1>1, Parts DEF Busy, UnderWay, Allowed
<1> QED BY <1>3, <1>4, <1>5 DEF DispatchInv

LEMMA DispatchFine ==
    ASSUME DispatchInv, NEW c \in Caller, NEW a \in Agent, NEW m \in Method, Dispatch(c, a, m)
    PROVE  DispatchInv'
<1> PICK l : l = agents[a].conn
    OBVIOUS
<1> PICK r : r = seq + 1
    OBVIOUS
<1> PICK new : new = [method |-> m, caps |-> agents[a].caps, conn |-> l]
    OBVIOUS
<1>1. /\ DispatchShape /\ Logged /\ Covered /\ Own /\ seq \in Nat /\ Len(requests) = seq
      /\ \A d \in Caller : Busy(d) => UnderWay(d)
      /\ \A d \in Caller : dispatches[d] \in Dispatching
    BY Parts
<1>2. l \in Link /\ new \in Request /\ new.conn = l /\ new.method = m /\ new.caps = agents[a].caps
    BY <1>1 DEF Dispatch, DispatchShape, Request
<1>3. /\ seq' = r /\ requests' = Append(requests, new) /\ UNCHANGED <<agents, links, answers>>
      /\ ~Busy(c) /\ dispatches[c] = Idle
    BY DEF Dispatch, Idle, Busy
<1>4. requests \in Seq(Request) /\ log \in Seq(Entry)
    BY <1>1 DEF DispatchShape
<1>5. /\ requests' \in Seq(Request) /\ Len(requests') = r /\ requests'[r] = new
      /\ \A q \in 1 .. seq : requests'[q] = requests[q]
    BY <1>1, <1>2, <1>3, <1>4
<1>6. \A q : q \in 1 .. r <=> q \in 1 .. seq \/ q = r
    BY <1>1
<1>7. r \notin 1 .. seq
    BY <1>1
<1>8. \A q \in 1 .. seq : Allowed(q)' <=> Allowed(q)
    BY <1>5 DEF Allowed
<1>9. Covered'
    BY <1>1, <1>3, <1>6, <1>8 DEF Covered
<1>10. r \notin DOMAIN answers /\ \A q \in DOMAIN answers : q \in 1 .. seq
    BY <1>1, <1>7 DEF Covered
<1>11. \A q \in DOMAIN answers : answers'[q] = q \/ requests'[q].conn \in disturbed
    BY <1>1, <1>3, <1>5, <1>10 DEF Own
<1>12. \A i \in 1 .. Len(log) : log[i].request \in 1 .. seq /\ log[i].request # r
    BY <1>1, <1>7 DEF Logged
<1>13. CASE Granted(a, m)
    <2> DEFINE rec == [at |-> "send", req |-> r, conn |-> l, expired |-> FALSE]
    <2>1. dispatches' = [dispatches EXCEPT ![c] = rec] /\ log' = log
          /\ disturbed' = IF InUse(l) # {} THEN disturbed \cup {l} ELSE disturbed
        BY <1>3, <1>13 DEF Dispatch
    <2>2. rec \in Dispatching /\ rec.at = "send" /\ rec.req = r /\ rec.conn = l
        BY <1>1, <1>2, <1>6 DEF Dispatching
    <2> HIDE DEF rec
    <2>3. dispatches' \in [Caller -> Dispatching] /\ dispatches'[c] = rec /\ \A d \in Caller : d # c => dispatches'[d] = dispatches[d]
        BY <1>1, <2>1, <2>2 DEF DispatchShape
    <2>4. DispatchShape'
        <3>1. \A d \in Caller : ~Busy(d)' => dispatches'[d] = Idle
            BY <1>1, <2>2, <2>3 DEF Busy, DispatchShape
        <3>2. seq' \in Nat
            BY <1>1, <1>3
        <3>3. disturbed' \in SUBSET Link
            BY <1>1, <1>2, <2>1 DEF DispatchShape
        <3> QED BY <1>1, <1>3, <1>5, <2>1, <2>3, <3>1, <3>2, <3>3 DEF DispatchShape
    <2>5. ASSUME NEW d \in Caller, Busy(d)', d # c PROVE UnderWay(d)' /\ dispatches'[d].req \in 1 .. seq
        <3>1. dispatches'[d] = dispatches[d] /\ Busy(d) /\ UnderWay(d)
            BY <1>1, <2>3, <2>5 DEF Busy
        <3>2. dispatches[d].req \in 1 .. seq /\ dispatches[d].req \in 1 .. r /\ dispatches[d].req # r
            BY <1>6, <1>7, <3>1 DEF UnderWay
        <3>3. \A e \in Caller : Busy(e)' /\ dispatches'[e].req = dispatches[d].req => e = d
            BY <2>2, <2>3, <3>1, <3>2 DEF UnderWay, Busy
        <3> QED BY <1>3, <1>5, <1>8, <2>1, <3>1, <3>2, <3>3 DEF UnderWay
    <2>6. UnderWay(c)'
        <3>1. Allowed(r)'
            BY <1>2, <1>5, <1>13 DEF Allowed, Granted
        <3>2. \A d \in Caller : Busy(d)' /\ dispatches'[d].req = r => d = c
            BY <1>7, <2>5
        <3> QED BY <1>2, <1>3, <1>5, <1>6, <1>10, <1>12, <2>1, <2>2, <2>3, <3>1, <3>2 DEF UnderWay
    <2>7. Logged'
        <3>1. \A d \in Caller : Busy(d) => Busy(d)' /\ dispatches'[d].req = dispatches[d].req
            BY <1>3, <2>3 DEF Busy
        <3>2. Busy(c)' /\ dispatches'[c].req = r
            BY <2>2, <2>3 DEF Busy
        <3>3. \A q \in 1 .. seq' : q \in 1 .. seq \/ q = r
            BY <1>3, <1>6
        <3>4. \A q \in 1 .. seq : q \in 1 .. seq'
            BY <1>3, <1>6
        <3>5. log' = log /\ answers' = answers
            BY <1>3, <2>1
        <3>6. \A q \in 1 .. seq' :
                \/ \E d \in Caller : Busy(d)' /\ dispatches'[d].req = q
                \/ \E i \in 1 .. Len(log) : log[i].request = q
            BY <1>1, <3>1, <3>2, <3>3 DEF Logged
        <3> QED BY <1>1, <3>4, <3>5, <3>6 DEF Logged
    <2>8. l \in Link \ disturbed' => Alone(l)'
        <3> SUFFICES ASSUME l \notin disturbed' PROVE Alone(l)'
            OBVIOUS
        <3>1. l \notin disturbed /\ InUse(l) = {}
            BY <2>1
        <3>2. \A d \in Caller : ~On(d, l)
            BY <3>1 DEF InUse, On
        <3>3. links'[l].sent = {} /\ links'[l].replies = <<>> /\ ~links'[l].has
            BY <1>1, <1>2, <1>3, <3>1, <3>2, EmptyFacts DEF Own
        <3>4. \A d \in Caller : On(d, l)' => d = c
            BY <2>3, <3>2 DEF On, Busy
        <3>5. On(c, l)'
            BY <2>2, <2>3 DEF On, Busy
        <3> QED BY <1>2, <3>3, <3>4, <3>5, AloneAfter
    <2>9. Own'
        BY <1>3, <1>11, <2>1, <2>2, <2>3, <2>8, OneLink
    <2> QED BY <1>9, <2>4, <2>5, <2>6, <2>7, <2>9 DEF DispatchInv
<1>14. CASE ~Granted(a, m)
    <2> DEFINE e == [request |-> r, ok |-> FALSE]
    <2>1. log' = Append(log, e) /\ UNCHANGED <<dispatches, disturbed>>
        BY <1>3, <1>14 DEF Dispatch
    <2>2. e \in Entry /\ e.request = r /\ ~e.ok
        BY <1>1 DEF Entry
    <2> HIDE DEF e
    <2>3. /\ log' \in Seq(Entry) /\ Len(log') = Len(log) + 1 /\ log'[Len(log) + 1] = e /\ Len(log) \in Nat
          /\ \A i \in 1 .. Len(log) : log'[i] = log[i]
        BY <1>4, <2>1, <2>2
    <2>4. \A i : i \in 1 .. Len(log') <=> i \in 1 .. Len(log) \/ i = Len(log) + 1
        BY <2>3
    <2>5. DispatchShape'
        <3>1. seq' \in Nat
            BY <1>1, <1>3
        <3> QED BY <1>1, <1>3, <1>5, <2>1, <2>3, <3>1 DEF DispatchShape, Busy
    <2>6. Logged'
        <3>1. \A i, j \in 1 .. Len(log') : log'[i].request = log'[j].request => i = j
            <4>1. \A i \in 1 .. Len(log) : log'[i].request # r
                BY <1>12, <2>3
            <4>2. log'[Len(log) + 1].request = r
                BY <2>2, <2>3
            <4>3. \A i, j \in 1 .. Len(log) : log'[i].request = log'[j].request => i = j
                BY <1>1, <2>3 DEF Logged
            <4> QED BY <2>4, <4>1, <4>2, <4>3
        <3>2. \A i \in 1 .. Len(log') : log'[i].request \in 1 .. r /\ (log'[i].ok <=> log'[i].request \in DOMAIN answers)
            <4>1. \A i \in 1 .. Len(log) : log'[i].request \in 1 .. r /\ (log'[i].ok <=> log'[i].request \in DOMAIN answers)
                BY <1>1, <1>6, <2>3 DEF Logged
            <4>2. log'[Len(log) + 1].request \in 1 .. r /\ (log'[Len(log) + 1].ok <=> log'[Len(log) + 1].request \in DOMAIN answers)
                BY <1>6, <1>10, <2>2, <2>3
            <4> QED BY <2>4, <4>1, <4>2
        <3>3. ASSUME NEW q \in 1 .. r
              PROVE  \/ \E d \in Caller : Busy(d) /\ dispatches[d].req = q
                     \/ \E i \in 1 .. Len(log') : log'[i].request = q
            <4>1. Len(log) + 1 \in 1 .. Len(log') /\ log'[Len(log) + 1].request = r
                BY <2>2, <2>3
            <4>2. ASSUME NEW i \in 1 .. Len(log), log[i].request = q PROVE \E j \in 1 .. Len(log') : log'[j].request = q
                BY <2>3, <2>4, <4>2
            <4>3. CASE q = r
                BY <4>1, <4>3
            <4> QED BY <1>1, <1>6, <4>2, <4>3 DEF Logged
        <3>4. \A d \in Caller : Busy(d)' <=> Busy(d)
            BY <2>1 DEF Busy
        <3> QED BY <1>3, <2>1, <3>1, <3>2, <3>3, <3>4 DEF Logged
    <2>7. ASSUME NEW d \in Caller, Busy(d)' PROVE UnderWay(d)'
        <3>1. Busy(d) /\ UnderWay(d) /\ dispatches[d].req \in 1 .. seq /\ dispatches[d].req # r
            BY <1>1, <1>7, <2>1, <2>7 DEF Busy, UnderWay
        <3>2. \A i \in 1 .. Len(log') : log'[i].request # dispatches[d].req
            BY <2>2, <2>3, <2>4, <3>1 DEF UnderWay
        <3>3. \A b \in Caller : Busy(b)' /\ dispatches[b].req = dispatches[d].req => b = d
            BY <2>1, <3>1 DEF UnderWay, Busy
        <3> QED BY <1>3, <1>5, <1>6, <1>8, <2>1, <3>1, <3>2, <3>3 DEF UnderWay
    <2>8. Own'
        <3>1. \A k \in Link : \A d \in Caller : (On(d, k)' <=> On(d, k)) /\ dispatches'[d] = dispatches[d]
            BY <1>3, <2>1 DEF On, Busy
        <3>2. \A k \in Link : links'[k] = links[k]
            BY <1>3
        <3>3. \A k \in Link \ disturbed' : Alone(k)'
            BY <1>1, <2>1, <3>1, <3>2, AloneKept DEF Own
        <3> QED BY <1>3, <1>11, <2>1, <3>3 DEF Own
    <2> QED BY <1>9, <2>5, <2>6, <2>7, <2>8 DEF DispatchInv
<1> QED BY <1>13, <1>14

LEMMA BusyFacts ==
    ASSUME DispatchInv, NEW c \in Caller, Busy(c)
    PROVE  /\ dispatches[c].conn \in Link /\ dispatches[c].req \in 1 .. seq /\ Allowed(dispatches[c].req)
           /\ requests[dispatches[c].req].conn = dispatches[c].conn /\ On(c, dispatches[c].conn)
           /\ dispatches[c].req \notin DOMAIN answers
           /\ dispatches[c].conn \notin disturbed => Alone(dispatches[c].conn)
           /\ dispatches[c] \in Dispatching /\ links[dispatches[c].conn] \in Pipe
<1>1. UnderWay(c) /\ Own /\ dispatches[c] \in Dispatching
    BY Parts
<1>2. dispatches[c].req \in 1 .. seq /\ dispatches[c].conn = requests[dispatches[c].req].conn
    BY <1>1 DEF UnderWay
<1>3. dispatches[c].conn \in Link
    BY <1>2, Parts DEF Request
<1>4. links[dispatches[c].conn] \in Pipe
    BY <1>3, Parts
<1> QED BY <1>1, <1>2, <1>3, <1>4 DEF UnderWay, On, Own

(* What is on its way, or answered, has been sent by a dispatch. *)
LEMMA CoveredKept ==
    ASSUME DispatchInv, UNCHANGED <<seq, requests>>,
           \A l \in Link : \A r \in links'[l].sent :
                r \in links[l].sent \/ \E c \in Caller : Busy(c) /\ dispatches[c].req = r,
           \A r \in DOMAIN answers' : r \in DOMAIN answers \/ \E c \in Caller : Busy(c) /\ dispatches[c].req = r
    PROVE  Covered'
<1>1. \A c \in Caller : Busy(c) => dispatches[c].req \in 1 .. seq /\ Allowed(dispatches[c].req)
    BY BusyFacts
<1>2. \A r : Allowed(r)' <=> Allowed(r)
    BY DEF Allowed
<1>3. Covered
    BY Parts
<1> QED BY <1>1, <1>2, <1>3 DEF Covered

LEMMA ShapeKept ==
    ASSUME DispatchInv, UNCHANGED <<agents, seq, requests>>, dispatches' \in [Caller -> Dispatching],
           \A d \in Caller : ~Busy(d)' => dispatches'[d] = Idle, log' \in Seq(Entry), links' \in [Link -> Pipe],
           disturbed' \in SUBSET Link
    PROVE  DispatchShape'
BY Parts DEF DispatchShape

(* A step of one dispatch that goes on, and what it does to its connection. *)
Moved(c, rec, p) ==
    LET l == dispatches[c].conn IN
    /\ rec.req = dispatches[c].req /\ rec.conn = l /\ rec.at # "idle"
    /\ rec.at = "post" => l \notin Stdio
    /\ rec.at = "read" => l \in Stdio
    /\ dispatches' = [dispatches EXCEPT ![c] = rec] /\ links' = [links EXCEPT ![l] = p]
    /\ UNCHANGED <<agents, seq, requests, log, answers, disturbed>>
    /\ p.sent \subseteq links[l].sent \cup {rec.req}
    /\ Alone(l) =>
        /\ p.sent \subseteq {rec.req}
        /\ p.sent # {} => rec.at \in (IF l \in Stdio THEN {"receive", "read"} ELSE {"post"})
        /\ p.replies # <<>> => l \in Stdio /\ p.sent = {} /\ Len(p.replies) = 1 /\ p.replies[1] = rec.req
                               /\ rec.at \in {"receive", "read"}
        /\ p.has => l \notin Stdio /\ p.resp = rec.req /\ rec.at = "receive"

LEMMA MovesFine ==
    ASSUME DispatchInv, NEW c \in Caller, Busy(c), NEW rec \in Dispatching, NEW p \in Pipe, Moved(c, rec, p)
    PROVE  DispatchInv'
<1> USE DEF Moved
<1> PICK l : l = dispatches[c].conn
    OBVIOUS
<1>1. /\ l \in Link /\ On(c, l) /\ (l \notin disturbed => Alone(l)) /\ links[l] \in Pipe
    BY BusyFacts
<1>2. links \in [Link -> Pipe] /\ Own /\ log \in Seq(Entry) /\ disturbed \in SUBSET Link
    BY Parts DEF DispatchShape
<1>3. /\ Logged' /\ dispatches' \in [Caller -> Dispatching] /\ dispatches'[c] = rec
      /\ \A d \in Caller : d # c => dispatches'[d] = dispatches[d]
      /\ \A d \in Caller : ~Busy(d)' => dispatches'[d] = Idle
      /\ \A d \in Caller : Busy(d)' => UnderWay(d)'
    BY Moves
<1>4. links' \in [Link -> Pipe] /\ links'[l] = p /\ \A m \in Link : m # l => links'[m] = links[m]
    BY <1>1, <1>2
<1>5. DispatchShape'
    BY <1>2, <1>3, <1>4, ShapeKept
<1>6. Covered'
    BY <1>1, <1>4, CoveredKept
<1>7. l \in Link \ disturbed' => Alone(l)'
    <2> SUFFICES ASSUME l \notin disturbed' PROVE Alone(l)'
        OBVIOUS
    <2>1. Alone(l) /\ \A d \in Caller : On(d, l) => d = c
        BY <1>1 DEF Alone
    <2>2. \A d \in Caller : On(d, l)' => d = c
        BY <1>3, <2>1 DEF On, Busy
    <2>3. On(c, l)'
        BY <1>3 DEF On, Busy
    <2> QED BY <1>1, <1>3, <1>4, <2>1, <2>2, <2>3, AloneAfter
<1>8. Own'
    <2>1. \A r \in DOMAIN answers' : answers'[r] = r \/ requests'[r].conn \in disturbed'
        BY <1>2 DEF Own
    <2> QED BY <1>3, <1>4, <1>7, <2>1, OneLink
<1> QED BY <1>3, <1>5, <1>6, <1>8 DEF DispatchInv

LEMMA ExpireFine ==
    ASSUME DispatchInv, NEW c \in Caller, Expire(c)
    PROVE  DispatchInv'
<1>1. Busy(c) /\ UNCHANGED <<agents, log, seq, links, requests, answers, disturbed>>
    BY DEF Expire, Busy
<1>2. dispatches[c] \in Dispatching /\ dispatches[c].conn \in Link /\ On(c, dispatches[c].conn)
      /\ links[dispatches[c].conn] \in Pipe
    BY <1>1, BusyFacts
<1>3. PICK rec : rec = [dispatches[c] EXCEPT !.expired = TRUE]
    OBVIOUS
<1>4. rec \in Dispatching /\ rec.at = dispatches[c].at /\ rec.req = dispatches[c].req /\ rec.conn = dispatches[c].conn
    BY <1>2, <1>3 DEF Dispatching
<1>5. dispatches' = [dispatches EXCEPT ![c] = rec]
    BY <1>3, Parts DEF Expire, DispatchShape
<1>6. links' = [links EXCEPT ![dispatches[c].conn] = links[dispatches[c].conn]]
    BY <1>1, <1>2, Parts DEF DispatchShape
<1>7. rec.at # "idle" /\ (rec.at = "post" => rec.conn \notin Stdio) /\ (rec.at = "read" => rec.conn \in Stdio)
    BY <1>1, <1>4, Parts DEF Busy, UnderWay
<1>8. Alone(dispatches[c].conn) =>
        LET l == dispatches[c].conn
            p == links[l]
        IN  /\ p.sent \subseteq {rec.req}
            /\ p.sent # {} => rec.at \in (IF l \in Stdio THEN {"receive", "read"} ELSE {"post"})
            /\ p.replies # <<>> => l \in Stdio /\ p.sent = {} /\ Len(p.replies) = 1 /\ p.replies[1] = rec.req
                                   /\ rec.at \in {"receive", "read"}
            /\ p.has => l \notin Stdio /\ p.resp = rec.req /\ rec.at = "receive"
    BY <1>2, <1>4, AloneFacts
<1>9. Moved(c, rec, links[dispatches[c].conn])
    BY <1>1, <1>2, <1>4, <1>5, <1>6, <1>7, <1>8 DEF Moved
<1> QED BY <1>1, <1>2, <1>4, <1>9, MovesFine

LEMMA RequestFine ==
    ASSUME DispatchInv, NEW c \in Caller, Send(c)
    PROVE  DispatchInv'
<1> PICK l : l = dispatches[c].conn
    OBVIOUS
<1>1. dispatches[c].at = "send" /\ Busy(c) /\ UNCHANGED <<agents, log, seq, requests, answers, disturbed>>
    BY DEF Send, Busy
<1>2. dispatches[c] \in Dispatching /\ l \in Link /\ On(c, l) /\ links[l] \in Pipe /\ dispatches[c].req \in Nat
    BY <1>1, BusyFacts DEF Dispatching
<1>3. PICK rec : rec = [dispatches[c] EXCEPT !.at = IF l \in Stdio THEN "receive" ELSE "post"]
    OBVIOUS
<1>4. /\ rec \in Dispatching /\ rec.at = (IF l \in Stdio THEN "receive" ELSE "post")
      /\ rec.req = dispatches[c].req /\ rec.conn = l
    BY <1>2, <1>3 DEF Dispatching
<1>5. dispatches' = [dispatches EXCEPT ![c] = rec]
    BY <1>3, Parts DEF Send, DispatchShape
<1>6. PICK p : p = [links[l] EXCEPT !.sent = @ \cup {dispatches[c].req}]
    OBVIOUS
<1>7. /\ p \in Pipe /\ p.sent = links[l].sent \cup {dispatches[c].req} /\ p.replies = links[l].replies
      /\ p.has = links[l].has /\ p.resp = links[l].resp
    BY <1>2, <1>6 DEF Pipe
<1>8. links' = [links EXCEPT ![l] = p]
    BY <1>6, Parts DEF Send, DispatchShape
<1>9. Alone(l) => links[l].sent = {} /\ links[l].replies = <<>> /\ ~links[l].has
    BY <1>1, <1>2, AloneFacts
<1>10. rec.at # "idle" /\ (rec.at = "post" => rec.conn \notin Stdio) /\ (rec.at = "read" => rec.conn \in Stdio)
    BY <1>4
<1>11. Alone(l) =>
            /\ p.sent \subseteq {rec.req}
            /\ p.sent # {} => rec.at \in (IF l \in Stdio THEN {"receive", "read"} ELSE {"post"})
            /\ p.replies = <<>> /\ ~p.has
    BY <1>4, <1>7, <1>9
<1>12. Moved(c, rec, p)
    BY <1>1, <1>4, <1>5, <1>7, <1>8, <1>10, <1>11 DEF Moved
<1> QED BY <1>1, <1>4, <1>7, <1>12, MovesFine

LEMMA PostedFine ==
    ASSUME DispatchInv, NEW c \in Caller, Posted(c)
    PROVE  DispatchInv'
<1> PICK l : l = dispatches[c].conn
    OBVIOUS
<1>1. dispatches[c].at = "post" /\ Busy(c) /\ UNCHANGED <<agents, log, seq, requests, answers, disturbed>>
    BY DEF Posted, Busy
<1>2. dispatches[c] \in Dispatching /\ l \in Link /\ On(c, l) /\ links[l] \in Pipe /\ dispatches[c].req \in Nat
    BY <1>1, BusyFacts DEF Dispatching
<1>3. l \notin Stdio
    BY <1>1, Parts DEF UnderWay
<1>4. PICK rec : rec = [dispatches[c] EXCEPT !.at = "receive"]
    OBVIOUS
<1>5. rec \in Dispatching /\ rec.at = "receive" /\ rec.req = dispatches[c].req /\ rec.conn = l
    BY <1>2, <1>4 DEF Dispatching
<1>6. dispatches' = [dispatches EXCEPT ![c] = rec]
    BY <1>4, Parts DEF Posted, DispatchShape
<1>7. PICK p : p = [links[l] EXCEPT !.sent = @ \ {dispatches[c].req}, !.has = TRUE, !.resp = dispatches[c].req]
    OBVIOUS
<1>8. /\ p \in Pipe /\ p.sent = links[l].sent \ {dispatches[c].req} /\ p.replies = links[l].replies
      /\ p.has /\ p.resp = dispatches[c].req
    BY <1>2, <1>7 DEF Pipe
<1>9. links' = [links EXCEPT ![l] = p]
    BY <1>7, Parts DEF Posted, DispatchShape
<1>10. Alone(l) => links[l].sent \subseteq {dispatches[c].req} /\ links[l].replies = <<>>
    BY <1>1, <1>2, <1>3, AloneFacts
<1>11. Alone(l) => p.sent = {} /\ p.replies = <<>> /\ p.resp = rec.req
    BY <1>5, <1>8, <1>10
<1>12. Moved(c, rec, p)
    BY <1>1, <1>3, <1>5, <1>6, <1>8, <1>9, <1>11 DEF Moved
<1> QED BY <1>1, <1>5, <1>8, <1>12, MovesFine

(* A dispatch that ends, and what it leaves on its connection. *)
Over(c, ok, p) ==
    LET l == dispatches[c].conn
        r == dispatches[c].req
    IN  /\ Finish(c, ok) /\ UNCHANGED <<agents, seq, requests>>
        /\ DOMAIN answers' = DOMAIN answers \cup (IF ok THEN {r} ELSE {})
        /\ \A q \in DOMAIN answers : answers'[q] = answers[q]
        /\ ok /\ Alone(l) => answers'[r] = r
        /\ links' = [links EXCEPT ![l] = p] /\ p.sent \subseteq links[l].sent
        /\ disturbed' \in {disturbed, disturbed \cup {l}}
        /\ l \notin disturbed' /\ Alone(l) => p.sent = {} /\ p.replies = <<>> /\ ~p.has

LEMMA EndsFine ==
    ASSUME DispatchInv, NEW c \in Caller, Busy(c), NEW ok \in BOOLEAN, NEW p \in Pipe, Over(c, ok, p)
    PROVE  DispatchInv'
<1> USE DEF Over
<1> PICK l : l = dispatches[c].conn
    OBVIOUS
<1> PICK r : r = dispatches[c].req
    OBVIOUS
<1>1. /\ l \in Link /\ On(c, l) /\ (l \notin disturbed => Alone(l)) /\ links[l] \in Pipe
      /\ r \in 1 .. seq /\ requests[r].conn = l /\ r \notin DOMAIN answers
    BY BusyFacts
<1>2. links \in [Link -> Pipe] /\ Own /\ Covered /\ disturbed \in SUBSET Link
    BY Parts DEF DispatchShape
<1>3. /\ Logged' /\ log' \in Seq(Entry)
      /\ dispatches' \in [Caller -> Dispatching]
      /\ \A d \in Caller : ~Busy(d)' => dispatches'[d] = Idle
      /\ \A d \in Caller : Busy(d)' => UnderWay(d)'
      /\ ~Busy(c)' /\ \A d \in Caller : d # c => dispatches'[d] = dispatches[d]
    BY FinishesOne
<1>4. links' \in [Link -> Pipe] /\ links'[l] = p /\ \A m \in Link : m # l => links'[m] = links[m]
    BY <1>1, <1>2
<1>5. DispatchShape'
    BY <1>1, <1>2, <1>3, <1>4, ShapeKept
<1>6. Covered'
    <2>1. \A m \in Link : \A q \in links'[m].sent : q \in links[m].sent
        BY <1>4
    <2>2. \A q \in DOMAIN answers' : q \in DOMAIN answers \/ \E d \in Caller : Busy(d) /\ dispatches[d].req = q
        OBVIOUS
    <2> QED BY <2>1, <2>2, CoveredKept
<1>7. l \in Link \ disturbed' => Alone(l)'
    <2> SUFFICES ASSUME l \notin disturbed' PROVE Alone(l)'
        OBVIOUS
    <2>1. Alone(l) /\ \A d \in Caller : On(d, l) => d = c
        BY <1>1 DEF Alone
    <2>2. \A d \in Caller : ~On(d, l)'
        BY <1>3, <2>1 DEF On, Busy
    <2>3. p.sent = {} /\ p.replies = <<>> /\ ~p.has
        BY <2>1
    <2> QED BY <1>1, <1>4, <2>2, <2>3, NoneAfter
<1>8. \A q \in DOMAIN answers' : answers'[q] = q \/ requests'[q].conn \in disturbed'
    <2> SUFFICES ASSUME NEW q \in DOMAIN answers' PROVE answers'[q] = q \/ requests[q].conn \in disturbed'
        OBVIOUS
    <2>1. CASE q \in DOMAIN answers
        BY <1>2, <2>1 DEF Own
    <2>2. CASE ok /\ q = r
        BY <1>1, <2>2
    <2> QED BY <2>1, <2>2
<1>9. Own'
    <2>1. \A d \in Caller : dispatches'[d] = dispatches[d]
            \/ ((dispatches[d].conn = l \/ ~Busy(d)) /\ (dispatches'[d].conn = l \/ ~Busy(d)'))
        BY <1>3
    <2>2. disturbed \subseteq disturbed'
        OBVIOUS
    <2> QED BY <1>4, <1>7, <1>8, <2>1, <2>2, OneLink
<1> QED BY <1>3, <1>5, <1>6, <1>9 DEF DispatchInv

(* It leaves the connection as it is. *)
LEMMA EndsHere ==
    ASSUME DispatchInv, NEW c \in Caller, Busy(c), Finish(c, FALSE), UNCHANGED <<agents, seq, requests, links, answers>>,
           disturbed' \in {disturbed, disturbed \cup {dispatches[c].conn}},
           dispatches[c].conn \notin disturbed' /\ Alone(dispatches[c].conn) =>
                LET p == links[dispatches[c].conn] IN p.sent = {} /\ p.replies = <<>> /\ ~p.has
    PROVE  DispatchInv'
<1>1. dispatches[c].conn \in Link /\ links[dispatches[c].conn] \in Pipe
    BY BusyFacts
<1>2. links' = [links EXCEPT ![dispatches[c].conn] = links[dispatches[c].conn]]
    BY <1>1, Parts DEF DispatchShape
<1>3. FALSE \in BOOLEAN /\ DOMAIN answers' = DOMAIN answers \cup (IF FALSE THEN {dispatches[c].req} ELSE {})
    OBVIOUS
<1>4. Over(c, FALSE, links[dispatches[c].conn])
    BY <1>1, <1>2, <1>3 DEF Over
<1> QED BY <1>1, <1>4, EndsFine

LEMMA SendFailedFine ==
    ASSUME DispatchInv, NEW c \in Caller, SendFailed(c)
    PROVE  DispatchInv'
<1>1. dispatches[c].at = "send" /\ Busy(c) /\ Finish(c, FALSE) /\ UNCHANGED <<agents, seq, links, requests, answers, disturbed>>
    BY DEF SendFailed, Busy
<1>2. dispatches[c].conn \in Link /\ On(c, dispatches[c].conn)
    BY <1>1, BusyFacts
<1> QED BY <1>1, <1>2, AloneFacts, EndsHere

LEMMA PostFailedFine ==
    ASSUME DispatchInv, NEW c \in Caller, PostFailed(c)
    PROVE  DispatchInv'
<1> PICK l : l = dispatches[c].conn
    OBVIOUS
<1>1. dispatches[c].at = "post" /\ Busy(c) /\ Finish(c, FALSE) /\ UNCHANGED <<agents, seq, requests, answers, disturbed>>
    BY DEF PostFailed, Busy
<1>2. l \in Link /\ On(c, l) /\ links[l] \in Pipe
    BY <1>1, BusyFacts
<1>3. PICK p : p = [links[l] EXCEPT !.sent = @ \ {dispatches[c].req}]
    OBVIOUS
<1>4. p \in Pipe /\ p.sent = links[l].sent \ {dispatches[c].req} /\ p.replies = links[l].replies /\ p.has = links[l].has
    BY <1>2, <1>3 DEF Pipe
<1>5. links' = [links EXCEPT ![l] = p]
    BY <1>3, Parts DEF PostFailed, DispatchShape
<1>6. Alone(l) => p.sent = {} /\ p.replies = <<>> /\ ~p.has
    BY <1>1, <1>2, <1>4, AloneFacts
<1>7. FALSE \in BOOLEAN /\ DOMAIN answers' = DOMAIN answers \cup (IF FALSE THEN {dispatches[c].req} ELSE {})
    BY <1>1
<1>8. Over(c, FALSE, p)
    BY <1>1, <1>4, <1>5, <1>6, <1>7 DEF Over
<1> QED BY <1>1, <1>4, <1>8, EndsFine

LEMMA ReceiveFine ==
    ASSUME DispatchInv, NEW c \in Caller, Receive(c)
    PROVE  DispatchInv'
<1> PICK l : l = dispatches[c].conn
    OBVIOUS
<1> PICK r : r = dispatches[c].req
    OBVIOUS
<1>1. dispatches[c].at = "receive" /\ Busy(c) /\ UNCHANGED <<agents, seq, requests>>
    BY DEF Receive, Busy
<1>2. l \in Link /\ On(c, l) /\ links[l] \in Pipe /\ dispatches[c] \in Dispatching /\ r \in 1 .. seq
    BY <1>1, BusyFacts
<1>3. CASE dispatches[c].expired /\ Finish(c, FALSE) /\ disturbed' = disturbed \cup {l} /\ UNCHANGED <<links, answers>>
    BY <1>1, <1>3, EndsHere
<1>4. CASE l \in Stdio /\ dispatches' = [dispatches EXCEPT ![c].at = "read"] /\ UNCHANGED <<log, links, answers, disturbed>>
    <2>1. PICK rec : rec = [dispatches[c] EXCEPT !.at = "read"]
        OBVIOUS
    <2>2. rec \in Dispatching /\ rec.at = "read" /\ rec.req = r /\ rec.conn = l
        BY <1>2, <2>1 DEF Dispatching
    <2>3. dispatches' = [dispatches EXCEPT ![c] = rec]
        BY <1>4, <2>1, Parts DEF DispatchShape
    <2>4. PICK p \in Pipe : p = links[l]
        BY <1>2
    <2>5. links' = [links EXCEPT ![l] = p]
        BY <1>2, <1>4, <2>4, Parts DEF DispatchShape
    <2>6. Alone(l) =>
                /\ p.sent \subseteq {rec.req}
                /\ p.sent # {} => rec.at \in (IF l \in Stdio THEN {"receive", "read"} ELSE {"post"})
                /\ p.replies # <<>> => l \in Stdio /\ p.sent = {} /\ Len(p.replies) = 1 /\ p.replies[1] = rec.req
                                       /\ rec.at \in {"receive", "read"}
                /\ p.has => l \notin Stdio /\ p.resp = rec.req /\ rec.at = "receive"
        BY <1>1, <1>2, <1>4, <2>2, <2>4, AloneFacts
    <2>7. rec.at # "idle" /\ (rec.at = "post" => rec.conn \notin Stdio) /\ (rec.at = "read" => rec.conn \in Stdio)
        BY <1>4, <2>2
    <2>8. p.sent \subseteq links[dispatches[c].conn].sent \cup {dispatches[c].req}
        BY <2>4
    <2>9. Moved(c, rec, p)
        BY <1>1, <1>4, <2>2, <2>3, <2>5, <2>6, <2>7, <2>8 DEF Moved
    <2> QED BY <1>1, <2>2, <2>9, MovesFine
<1>5. CASE /\ l \notin Stdio /\ links[l].has /\ Finish(c, TRUE) /\ answers' = Assigned(answers, r, links[l].resp)
           /\ links' = [links EXCEPT ![l].has = FALSE] /\ UNCHANGED disturbed
    <2>1. PICK p : p = [links[l] EXCEPT !.has = FALSE]
        OBVIOUS
    <2>2. p \in Pipe /\ p.sent = links[l].sent /\ p.replies = links[l].replies /\ ~p.has
        BY <1>2, <2>1 DEF Pipe
    <2>3. links' = [links EXCEPT ![l] = p]
        BY <1>5, <2>1, Parts DEF DispatchShape
    <2>4. r \notin DOMAIN answers
        BY <1>1, BusyFacts
    <2>5. /\ DOMAIN answers' = DOMAIN answers \cup {r} /\ answers'[r] = links[l].resp
          /\ \A q \in DOMAIN answers : answers'[q] = answers[q]
        BY <1>5, <2>4 DEF Assigned
    <2>6. DOMAIN answers' = DOMAIN answers \cup (IF TRUE THEN {r} ELSE {}) /\ TRUE \in BOOLEAN
        BY <2>5
    <2>7. Alone(l) => links[l].resp = r /\ links[l].sent = {} /\ links[l].replies = <<>>
        BY <1>1, <1>2, <1>5, AloneFacts
    <2>8. Alone(l) => answers'[r] = r /\ p.sent = {} /\ p.replies = <<>> /\ ~p.has
        BY <2>2, <2>5, <2>7
    <2>9. Over(c, TRUE, p)
        BY <1>1, <1>5, <2>2, <2>3, <2>5, <2>6, <2>8 DEF Over
    <2> QED BY <1>1, <2>2, <2>9, EndsFine
<1>6. CASE l \notin Stdio /\ ~links[l].has /\ Finish(c, FALSE) /\ UNCHANGED <<links, answers, disturbed>>
    BY <1>1, <1>2, <1>6, AloneFacts, EndsHere
<1> QED BY <1>3, <1>4, <1>5, <1>6 DEF Receive

LEMMA ReadFailedFine ==
    ASSUME DispatchInv, NEW c \in Caller, ReadFailed(c)
    PROVE  DispatchInv'
<1>1. Busy(c) /\ Finish(c, FALSE) /\ disturbed' = disturbed \cup {dispatches[c].conn}
      /\ UNCHANGED <<agents, seq, links, requests, answers>>
    BY DEF ReadFailed, Busy
<1> QED BY <1>1, EndsHere

LEMMA ReplyFine ==
    ASSUME DispatchInv, NEW l \in Link, NEW r \in 1 .. seq, Reply(l, r)
    PROVE  DispatchInv'
<1>1. /\ l \in Stdio /\ r \in links[l].sent /\ UNCHANGED <<agents, log, seq, dispatches, requests, answers, disturbed>>
      /\ links[l] \in Pipe /\ links \in [Link -> Pipe] /\ Own /\ Logged /\ r \in Nat
    BY Parts DEF Reply, DispatchShape
<1>2. PICK p : p = [links[l] EXCEPT !.sent = @ \ {r}, !.replies = Append(@, r)]
    OBVIOUS
<1>3. /\ p \in Pipe /\ p.sent = links[l].sent \ {r} /\ p.replies = Append(links[l].replies, r) /\ p.has = links[l].has
    <2>1. links[l].sent \ {r} \in SUBSET Nat /\ Append(links[l].replies, r) \in Seq(Nat)
        BY <1>1 DEF Pipe
    <2> QED BY <1>1, <1>2, <2>1 DEF Pipe
<1>4. links' = [links EXCEPT ![l] = p]
    BY <1>1, <1>2 DEF Reply
<1>5. links' \in [Link -> Pipe] /\ links'[l] = p /\ \A m \in Link : m # l => links'[m] = links[m]
    BY <1>1, <1>3, <1>4
<1>6. \A d \in Caller : (Busy(d)' <=> Busy(d)) /\ \A m : On(d, m)' <=> On(d, m)
    BY <1>1 DEF Busy, On
<1>7. DispatchShape'
    BY <1>1, <1>5, Parts DEF DispatchShape, Busy
<1>8. Covered'
    <2>1. \A m \in Link : \A q \in links'[m].sent : q \in links[m].sent
        BY <1>3, <1>5
    <2> QED BY <1>1, <2>1, CoveredKept
<1>9. Logged' /\ \A d \in Caller : Busy(d)' => UnderWay(d)'
    BY <1>1, Parts DEF Logged, Busy, UnderWay, Allowed
<1>10. l \in Link \ disturbed' => Alone(l)'
    <2> SUFFICES ASSUME l \notin disturbed PROVE Alone(l)'
        BY <1>1
    <2>1. Alone(l)
        BY <1>1 DEF Own
    <2>2. PICK c \in Caller : On(c, l)
        BY <1>1, <2>1, EmptyFacts
    <2>3. /\ \A d \in Caller : On(d, l) => d = c
          /\ links[l].sent \subseteq {dispatches[c].req} /\ dispatches[c].at \in {"receive", "read"}
          /\ links[l].replies = <<>> /\ ~links[l].has
        BY <1>1, <2>1, <2>2, AloneFacts
    <2>4. r = dispatches[c].req /\ p.sent = {} /\ p.replies = <<r>> /\ ~p.has
        BY <1>1, <1>3, <2>3
    <2>5. Len(p.replies) = 1 /\ p.replies[1] = r
        BY <2>4
    <2> QED BY <1>1, <1>5, <1>6, <2>2, <2>3, <2>4, <2>5, AloneAfter
<1>11. Own'
    <2>1. \A q \in DOMAIN answers' : answers'[q] = q \/ requests'[q].conn \in disturbed'
        BY <1>1 DEF Own
    <2> QED BY <1>1, <1>5, <1>10, <2>1, OneLink
<1> QED BY <1>7, <1>8, <1>9, <1>11 DEF DispatchInv

LEMMA SpeakFine ==
    ASSUME DispatchInv, NEW l \in Link, Speak(l)
    PROVE  DispatchInv'
<1>1. /\ disturbed' = disturbed \cup {l} /\ UNCHANGED <<agents, log, seq, dispatches, requests, answers>>
      /\ links[l] \in Pipe /\ links \in [Link -> Pipe] /\ disturbed \in SUBSET Link /\ Own /\ Logged
    BY Parts DEF Speak, DispatchShape
<1>2. PICK p : p = [links[l] EXCEPT !.replies = Append(@, 0)]
    OBVIOUS
<1>3. p \in Pipe /\ p.sent = links[l].sent
    <2>1. Append(links[l].replies, 0) \in Seq(Nat)
        BY <1>1 DEF Pipe
    <2> QED BY <1>1, <1>2, <2>1 DEF Pipe
<1>4. links' = [links EXCEPT ![l] = p]
    BY <1>1, <1>2 DEF Speak
<1>5. links' \in [Link -> Pipe] /\ links'[l] = p /\ \A m \in Link : m # l => links'[m] = links[m]
    BY <1>1, <1>3, <1>4
<1>6. DispatchShape'
    BY <1>1, <1>5, Parts DEF DispatchShape, Busy
<1>7. Covered'
    <2>1. \A m \in Link : \A q \in links'[m].sent : q \in links[m].sent
        BY <1>3, <1>5
    <2> QED BY <1>1, <2>1, CoveredKept
<1>8. Logged' /\ \A d \in Caller : Busy(d)' => UnderWay(d)'
    BY <1>1, Parts DEF Logged, Busy, UnderWay, Allowed
<1>9. Own'
    <2>1. \A q \in DOMAIN answers' : answers'[q] = q \/ requests'[q].conn \in disturbed'
        BY <1>1 DEF Own
    <2> QED BY <1>1, <1>5, <2>1, OneLink
<1> QED BY <1>6, <1>7, <1>8, <1>9 DEF DispatchInv

(* Several readers get one line. *)
LEMMA ReadFine ==
    ASSUME DispatchInv, NEW l \in Link, NEW served \in SUBSET Caller, NEW garbled \in SUBSET Caller, Read(l, served, garbled)
    PROVE  DispatchInv'
<1> DEFINE ids == {dispatches[c].req : c \in served}
           good == {dispatches[c].req : c \in served \ garbled}
           n == Cardinality(ids)
<1>1. /\ served # {} /\ \A c \in served : dispatches[c].at = "read" /\ dispatches[c].conn = l /\ Busy(c) /\ On(c, l)
      /\ links[l].replies # <<>> /\ links' = [links EXCEPT ![l].replies = Tail(@)]
      /\ answers' = [r \in DOMAIN answers \cup good |-> IF r \in good THEN Head(links[l].replies) ELSE answers[r]]
      /\ dispatches' = [c \in Caller |-> IF c \in served THEN Idle ELSE dispatches[c]]
      /\ UNCHANGED <<agents, seq, requests, disturbed>>
    BY DEF Read, At, Busy, On
<1>2. links[l] \in Pipe /\ links \in [Link -> Pipe] /\ Own /\ seq \in Nat /\ log \in Seq(Entry)
      /\ disturbed \in SUBSET Link
    BY Parts DEF DispatchShape
<1>3. PICK turn \in [1 .. n -> ids] :
        /\ {turn[i] : i \in DOMAIN turn} = ids
        /\ log' = log \o [i \in DOMAIN turn |-> [request |-> turn[i], ok |-> turn[i] \in good]]
    BY DEF Read
<1>4. /\ ids \subseteq 1 .. seq /\ good \subseteq ids
      /\ \A c \in served : dispatches[c].req \in 1 .. seq /\ dispatches[c].req \notin DOMAIN answers
                        /\ requests[dispatches[c].req].conn = l
    BY <1>1, BusyFacts
<1>5. IsFiniteSet(ids) /\ n \in Nat
    <2>1. IsFiniteSet(1 .. seq)
        <3>1. 1 \in Int /\ seq \in Int
            BY <1>2
        <3> QED BY <3>1, FS_Interval, Zenon
    <2>2. IsFiniteSet(ids)
        BY <1>4, <2>1, FS_Subset
    <2> QED BY <2>2, FS_CardinalityType
<1>6. \A i, j \in 1 .. n : turn[i] = turn[j] => i = j
    <2>1. IsFiniteSet(1 .. n) /\ Cardinality(1 .. n) = n
        BY <1>5, FS_Interval
    <2>2. turn \in Surjection(1 .. n, ids)
        BY <1>3 DEF Surjection
    <2>3. turn \in Injection(1 .. n, ids)
        BY <2>1, <2>2, FS_SurjSameCardinalityImpliesInj
    <2> QED BY <2>3 DEF Injection, IsInjective
<1> DEFINE entry == [i \in 1 .. n |-> [request |-> turn[i], ok |-> turn[i] \in good]]
<1>7. entry \in [1 .. n -> Entry] /\ \A i \in 1 .. n : entry[i].request = turn[i] /\ (entry[i].ok <=> turn[i] \in good)
    <2>1. \A i \in 1 .. n : turn[i] \in Nat /\ (turn[i] \in good) \in BOOLEAN
        BY <1>4
    <2> QED BY <2>1 DEF Entry
<1>8. log' = log \o entry
    BY <1>3
<1>9. /\ log' \in Seq(Entry) /\ Len(log') = Len(log) + n
      /\ \A i \in 1 .. Len(log) : log'[i] = log[i]
      /\ \A i \in 1 .. n : log'[Len(log) + i] = entry[i]
    <2> HIDE DEF entry, n
    <2>1. entry \in Seq(Entry) /\ Len(entry) = n
        BY <1>5, <1>7
    <2> QED BY <1>2, <1>8, <2>1
<1>10. /\ \A i, j \in 1 .. n : entry[i].request = entry[j].request => i = j
       /\ \A i \in 1 .. n : (\E c \in served : entry[i].request = dispatches[c].req) /\ (entry[i].ok <=> entry[i].request \in good)
       /\ \A c \in served : \E i \in 1 .. n : entry[i].request = dispatches[c].req
       /\ \A r \in good : \E c \in served : dispatches[c].req = r
    <2> HIDE DEF entry, n
    <2>1. \A i \in 1 .. n : turn[i] \in ids
        OBVIOUS
    <2>2. \A c \in served : \E i \in 1 .. n : turn[i] = dispatches[c].req
        BY <1>3
    <2>3. \A r \in good : \E c \in served : dispatches[c].req = r
        OBVIOUS
    <2>4. \A i \in 1 .. n : \E c \in served : entry[i].request = dispatches[c].req
        BY <1>7, <2>1
    <2>5. \A i \in 1 .. n : entry[i].ok <=> entry[i].request \in good
        <3> HIDE DEF good
        <3> QED BY <1>7
    <2>6. \A i, j \in 1 .. n : entry[i].request = entry[j].request => i = j
        BY <1>6, <1>7
    <2>7. \A c \in served : \E i \in 1 .. n : entry[i].request = dispatches[c].req
        BY <1>7, <2>2
    <2> HIDE DEF good, ids
    <2> QED BY <2>3, <2>4, <2>5, <2>6, <2>7
<1>11. DOMAIN answers' = DOMAIN answers \cup good
    BY <1>1
<1> HIDE DEF entry, n, ids
<1>12. /\ Logged' /\ dispatches' \in [Caller -> Dispatching]
       /\ \A c \in Caller : ~Busy(c)' => dispatches'[c] = Idle
       /\ \A c \in Caller : Busy(c)' => UnderWay(c)'
    <2> HIDE DEF good
    <2>1. \A c \in served : Busy(c)
        BY <1>1
    <2>2. Ended(served, good, n, entry)
        BY <1>1, <1>9, <1>10, <1>11, <2>1 DEF Ended
    <2> QED BY <1>5, <1>7, <2>2, Finishes
<1>13. PICK p : p = [links[l] EXCEPT !.replies = Tail(@)]
    OBVIOUS
<1>14. p \in Pipe /\ p.sent = links[l].sent /\ p.replies = Tail(links[l].replies) /\ p.has = links[l].has
    <2>1. Tail(links[l].replies) \in Seq(Nat)
        BY <1>1, <1>2, HeadTailProperties DEF Pipe
    <2> QED BY <1>1, <1>2, <1>13, <2>1 DEF Pipe
<1>15. links' \in [Link -> Pipe] /\ links'[l] = p /\ \A m \in Link : m # l => links'[m] = links[m]
    BY <1>1, <1>2, <1>13, <1>14
<1>16. DispatchShape'
    BY <1>1, <1>2, <1>9, <1>12, <1>15, ShapeKept
<1>17. Covered'
    <2>1. \A m \in Link : \A q \in links'[m].sent : q \in links[m].sent
        BY <1>14, <1>15
    <2>2. \A q \in good : \E c \in Caller : Busy(c) /\ dispatches[c].req = q
        BY <1>1
    <2> QED BY <1>1, <1>11, <2>1, <2>2, CoveredKept
<1>18. ASSUME Alone(l)
       PROVE  /\ \A q \in good : Head(links[l].replies) = q
              /\ Alone(l)'
    <2>1. PICK c \in served : TRUE
        BY <1>1
    <2>2. /\ \A d \in Caller : On(d, l) => d = c
          /\ links[l].sent = {} /\ Len(links[l].replies) = 1 /\ links[l].replies[1] = dispatches[c].req
          /\ ~links[l].has
        BY <1>1, <1>18, <2>1, AloneFacts
    <2>3. \A d \in served : d = c
        BY <1>1, <2>2
    <2>4. links[l].replies \in Seq(Nat)
        BY <1>2 DEF Pipe
    <2>5. Head(links[l].replies) = dispatches[c].req /\ Tail(links[l].replies) = <<>>
        <3>1. Len(Tail(links[l].replies)) = 0 /\ Tail(links[l].replies) \in Seq(Nat)
            BY <1>1, <2>2, <2>4, HeadTailProperties
        <3>2. Tail(links[l].replies) = <<>>
            BY <3>1, EmptySeq
        <3> QED BY <2>2, <2>4, <3>2
    <2>6. \A d \in Caller : ~On(d, l)'
        <3>1. \A d \in Caller : d \in served => ~Busy(d)'
            BY <1>1 DEF Busy, Idle
        <3>2. \A d \in Caller : d \notin served => dispatches'[d] = dispatches[d]
            BY <1>1
        <3> QED BY <2>1, <2>2, <3>1, <3>2 DEF On, Busy
    <2>7. Alone(l)'
        BY <1>14, <1>15, <2>2, <2>5, <2>6, NoneAfter
    <2> QED BY <2>3, <2>5, <2>7
<1>19. Own'
    <2>1. ASSUME NEW q \in DOMAIN answers' PROVE answers'[q] = q \/ requests'[q].conn \in disturbed'
        <3>1. CASE q \in good
            <4>1. answers'[q] = Head(links[l].replies) /\ requests[q].conn = l
                BY <1>1, <1>4, <1>11, <3>1
            <4>2. l \notin disturbed => Alone(l)
                BY <1>2 DEF Own
            <4> QED BY <1>1, <1>18, <3>1, <4>1, <4>2
        <3>2. CASE q \notin good
            <4>1. answers'[q] = answers[q] /\ q \in DOMAIN answers
                BY <1>1, <1>11, <3>2
            <4> QED BY <1>1, <1>2, <4>1 DEF Own
        <3> QED BY <3>1, <3>2
    <2>2. l \in Link \ disturbed' => Alone(l)'
        BY <1>1, <1>2, <1>18 DEF Own
    <2>3. \A d \in Caller : dispatches'[d] = dispatches[d]
            \/ ((dispatches[d].conn = l \/ ~Busy(d)) /\ (dispatches'[d].conn = l \/ ~Busy(d)'))
        <3>1. \A d \in Caller : d \in served => ~Busy(d)' /\ dispatches[d].conn = l
            BY <1>1 DEF Busy, Idle
        <3>2. \A d \in Caller : d \notin served => dispatches'[d] = dispatches[d]
            BY <1>1
        <3> QED BY <3>1, <3>2
    <2> QED BY <1>1, <1>15, <2>1, <2>2, <2>3, OneLink
<1> QED BY <1>12, <1>16, <1>17, <1>19 DEF DispatchInv

LEMMA DispatchStep == DispatchInv /\ [AssistantNext]_assistantVars => DispatchInv'
<1> SUFFICES ASSUME DispatchInv, [AssistantNext]_assistantVars PROVE DispatchInv'
    OBVIOUS
<1>1. ASSUME NEW a \in Agent, NEW l \in Link, NEW caps \in Grant, RegisterAgent(a, l, caps) PROVE DispatchInv'
    BY <1>1, RegisterAgentFine
<1>2. ASSUME NEW c \in Caller, NEW a \in Agent, NEW m \in Method, Dispatch(c, a, m) PROVE DispatchInv'
    BY <1>2, DispatchFine
<1>3. ASSUME NEW c \in Caller, Expire(c) PROVE DispatchInv'
    BY <1>3, ExpireFine
<1>4. ASSUME NEW c \in Caller, Send(c) PROVE DispatchInv'
    BY <1>4, RequestFine
<1>5. ASSUME NEW c \in Caller, SendFailed(c) PROVE DispatchInv'
    BY <1>5, SendFailedFine
<1>6. ASSUME NEW c \in Caller, Posted(c) PROVE DispatchInv'
    BY <1>6, PostedFine
<1>7. ASSUME NEW c \in Caller, PostFailed(c) PROVE DispatchInv'
    BY <1>7, PostFailedFine
<1>8. ASSUME NEW c \in Caller, Receive(c) PROVE DispatchInv'
    BY <1>8, ReceiveFine
<1>9. ASSUME NEW c \in Caller, ReadFailed(c) PROVE DispatchInv'
    BY <1>9, ReadFailedFine
<1>10. ASSUME NEW l \in Link, NEW served \in SUBSET Caller, NEW garbled \in SUBSET Caller, Read(l, served, garbled) PROVE DispatchInv'
    BY <1>10, ReadFine
<1>11. ASSUME NEW l \in Link, NEW r \in 1 .. seq, Reply(l, r) PROVE DispatchInv'
    BY <1>11, ReplyFine
<1>13. ASSUME NEW l \in Link, Speak(l) PROVE DispatchInv'
    BY <1>13, SpeakFine
<1>12. CASE UNCHANGED assistantVars
    <2>1. DispatchShape' /\ Logged' /\ Covered'
        BY <1>12, Parts DEF DispatchShape, Logged, Covered, Busy, Allowed, assistantVars
    <2>2. Own'
        BY <1>12, Parts DEF Own, Alone, On, Busy, Awaited, assistantVars
    <2>3. \A c \in Caller : Busy(c)' => UnderWay(c)'
        BY <1>12, Parts DEF UnderWay, Busy, Allowed, assistantVars
    <2> QED BY <2>1, <2>2, <2>3 DEF DispatchInv
<1> QED BY <1>1, <1>2, <1>3, <1>4, <1>5, <1>6, <1>7, <1>8, <1>9, <1>10, <1>11, <1>12, <1>13 DEF AssistantNext

LEMMA DispatchStart == AssistantInit => DispatchInv
<1> SUFFICES ASSUME AssistantInit PROVE DispatchInv
    OBVIOUS
<1>1. /\ log = <<>> /\ seq = 0 /\ disturbed = {} /\ requests = <<>>
      /\ dispatches = [c \in Caller |-> Idle]
      /\ links = [l \in Link |-> [sent |-> {}, replies |-> <<>>, has |-> FALSE, resp |-> 0]]
    BY DEF AssistantInit
<1>2. DOMAIN agents = {} /\ DOMAIN answers = {}
    BY DEF AssistantInit
<1>3. Idle \in Dispatching /\ Idle.at = "idle"
    BY DEF Idle, Dispatching
<1>4. [sent |-> {}, replies |-> <<>>, has |-> FALSE, resp |-> 0] \in Pipe
    BY DEF Pipe
<1>5. \A c \in Caller : ~Busy(c)
    BY <1>1, <1>3 DEF Busy
<1>6. DispatchShape
    BY <1>1, <1>2, <1>3, <1>4 DEF DispatchShape
<1>7. Logged
    BY <1>1 DEF Logged
<1>8. Covered
    BY <1>1, <1>2 DEF Covered
<1>9. Own
    BY <1>1, <1>2, <1>5 DEF Own, Alone, On
<1> QED BY <1>5, <1>6, <1>7, <1>8, <1>9 DEF DispatchInv

(* What ties the dispatches under way to the log and to what is on their   *)
(* connections.                                                            *)
THEOREM DispatchInvariant == AssistantSpec => []DispatchInv
<1> QED BY DispatchStart, DispatchStep, PTL DEF AssistantSpec

(* manager.go INV-2, INV-4.  However many goroutines dispatch over however *)
(* many connections, each dispatch that is over is in the log once with    *)
(* its outcome, nothing leaves without the capabilities it needs, and an   *)
(* answer belongs to its request unless its connection was disturbed.      *)
THEOREM DispatchesAccountedHolds == AssistantSpec => []DispatchesAccounted
<1>1. DispatchInv => DispatchesAccounted
    <2> SUFFICES ASSUME DispatchInv PROVE DispatchesAccounted
        OBVIOUS
    <2>1. Logged /\ Covered /\ Own /\ log \in Seq(Entry) /\ DOMAIN log = 1 .. Len(log)
        BY Parts DEF DispatchShape
    <2>2. ASSUME NEW r \in 1 .. seq
          PROVE  \/ \E c \in Caller : dispatches[c].req = r
                 \/ \E i \in DOMAIN log : log[i] = [request |-> r, ok |-> r \in DOMAIN answers]
        <3>1. CASE \E i \in 1 .. Len(log) : log[i].request = r
            <4>1. PICK i \in 1 .. Len(log) : log[i].request = r
                BY <3>1
            <4>2. log[i] \in Entry /\ (log[i].ok <=> r \in DOMAIN answers)
                BY <2>1, <4>1 DEF Logged
            <4>3. log[i] = [request |-> log[i].request, ok |-> log[i].ok] /\ log[i].ok \in BOOLEAN
                BY <4>2 DEF Entry
            <4>4. log[i].ok = (r \in DOMAIN answers)
                BY <4>2, <4>3
            <4> QED BY <2>1, <4>1, <4>3, <4>4
        <3> QED BY <2>1, <3>1 DEF Logged
    <2>3. \A r \in 1 .. seq : (\E l \in Link : r \in links[l].sent) \/ r \in DOMAIN answers
            => Needs[requests[r].method] \subseteq requests[r].caps
        BY <2>1 DEF Covered, Allowed
    <2> QED BY <2>1, <2>2, <2>3 DEF DispatchesAccounted, Logged, Own
<1> QED BY <1>1, DispatchInvariant, PTL

-----------------------------------------------------------------------------
(* WorkDeque.  The inductive invariant says where every cell is: in the    *)
(* pool, in one live slot of the current ring, in the owner's hand, or in  *)
(* the hand of one thief that won it; and why a thief may trust the ring   *)
(* it loaded long ago: as long as top is what it read, the slot it looks   *)
(* at is live, and a live slot has the same cell in every ring.            *)
USE DequeAssumption DEF DequeAssumption

MaybeCell == Cell \cup {NoCell}
Places == {"idle", "put", "publish", "look", "cas", "restore", "bottom", "array", "slot", "consume"}
Local == [pc : Places, b : Int, tp : Nat, a : Nat \ {0}, c : MaybeCell]

(* A ring has some positive size and that many slots. *)
AnyRing == UNION {[size : {n}, slot : [0 .. n - 1 -> MaybeCell]] : n \in Nat \ {0}}

Shape ==
    /\ top \in Nat /\ bottom \in Int /\ pushed \in 0 .. MaxPush
    /\ arrays \in Seq(AnyRing) /\ arrays # <<>>
    /\ fn \in [Cell -> Task \cup {NoTask}] /\ free \in SUBSET Cell
    /\ got \in [Task \cup {NoTask} -> Nat]
    /\ owner \in Local /\ owner.pc \in {"idle", "put", "publish", "look", "cas", "restore"}
    /\ thief \in [Thief -> Local]
    /\ \A t \in Thief : thief[t].pc \in {"idle", "bottom", "array", "slot", "cas", "consume"}

(* The live slots: while the owner pops, the one it claimed counts as well. *)
Popping == owner.pc \in {"look", "cas", "restore"}
Pushing == owner.pc \in {"put", "publish"}
Lim == IF Popping THEN owner.b + 1 ELSE bottom
Live == top .. Lim - 1
Slot(i) == Get(Current, i)

(* What the owner's locals say about the cursors and the ring. *)
OwnerSound ==
    /\ top <= Lim /\ Lim - top <= Current.size
    /\ Pushing => owner.b = bottom /\ owner.tp <= top /\ pushed < MaxPush /\ owner.c \in Cell
    /\ owner.pc = "put" => owner.b - owner.tp <= Current.size
    /\ owner.pc = "publish" => Slot(owner.b) = owner.c /\ owner.b + 1 - top <= Current.size
    /\ Popping => bottom = owner.b
    /\ owner.pc \in {"idle", "look"} => owner.c = NoCell
    /\ owner.pc = "cas" =>
        owner.tp = owner.b /\ owner.b <= top /\ (top = owner.b => owner.c = Slot(owner.b))
    /\ owner.pc = "restore" => top = owner.b + 1

(* What a thief's locals are worth as long as top has not moved. *)
ThiefSound(t) ==
    /\ thief[t].tp <= top
    /\ thief[t].pc \in {"array", "slot", "cas"} /\ thief[t].tp = top => top < Lim
    /\ thief[t].pc = "slot" =>
        /\ thief[t].a <= Len(arrays)
        /\ thief[t].tp = top => Get(arrays[thief[t].a], top) = Slot(top)
    /\ thief[t].pc = "cas" /\ thief[t].tp = top => thief[t].c = Slot(top)
ThievesSound == \A t \in Thief : ThiefSound(t)

(* Every cell outside the pool is in exactly one place. *)
OwnerHolds(c) == owner.c = c /\ (Pushing \/ owner.pc = "restore")
ThiefHolds(t, c) == thief[t].c = c /\ thief[t].pc = "consume"

WonAlone(t) == thief[t].pc = "consume" =>
    /\ thief[t].c \in Cell /\ thief[t].c \notin free
    /\ \A i \in Live : Slot(i) # thief[t].c
    /\ ~OwnerHolds(thief[t].c)
    /\ \A s \in Thief : ThiefHolds(s, thief[t].c) => s = t

CellsPlaced ==
    /\ \A c \in Cell \ free :
        \/ \E i \in Live : Slot(i) = c
        \/ OwnerHolds(c)
        \/ \E t \in Thief : ThiefHolds(t, c)
    /\ \A i \in Live : Slot(i) \in Cell /\ Slot(i) \notin free
    /\ \A i, j \in Live : i # j => Slot(i) # Slot(j)
    /\ \A c \in Cell : OwnerHolds(c) => c \notin free /\ \A i \in Live : Slot(i) # c
    /\ \A t \in Thief : WonAlone(t)

(* A cell outside the pool carries a task of its own, not returned yet; a  *)
(* published task was returned once or is carried.                         *)
TasksKnown ==
    /\ got[NoTask] = 0
    /\ \A c \in Cell : c \in free <=> fn[c] = NoTask
    /\ \A c, d \in Cell : fn[c] = fn[d] /\ c # d => fn[c] = NoTask
    /\ \A c \in Cell : got[fn[c]] = 0
    /\ \A c \in Cell : fn[c] <= pushed \/ (Pushing /\ owner.c = c /\ fn[c] = pushed + 1)
    /\ Pushing => fn[owner.c] = pushed + 1
    /\ \A k \in Task : got[k] <= 1 /\ (pushed < k => got[k] = 0)
    /\ \A k \in 1 .. pushed : got[k] = 1 \/ \E c \in Cell : fn[c] = k

DequeInv == Shape /\ OwnerSound /\ ThievesSound /\ CellsPlaced /\ TasksKnown

-----------------------------------------------------------------------------
(* Two indexes less than a ring apart use different slots. *)
LEMMA ModApart ==
    ASSUME NEW i \in Int, NEW j \in Int, NEW n \in Nat \ {0}, i < j, j - i < n
    PROVE  i % n # j % n
<1> DEFINE p == i \div n
           q == j \div n
<1>1. p \in Int /\ q \in Int /\ i = n * p + (i % n) /\ j = n * q + (j % n)
    OBVIOUS
<1> SUFFICES ASSUME i % n = j % n PROVE FALSE
    OBVIOUS
<1>2. n * q - n * p = n * (q - p) /\ q - p \in Int
    BY <1>1
<1>3. n * (q - p) > 0 /\ n * (q - p) < n
    BY <1>1, <1>2
<1>4. q - p >= 1 \/ q - p <= 0
    BY <1>1
<1> QED BY <1>3, <1>4

(* A ring yields cells, ... *)
LEMMA RingGet ==
    ASSUME NEW r \in AnyRing
    PROVE  /\ r.size \in Nat \ {0}
           /\ r.slot \in [0 .. r.size - 1 -> MaybeCell]
           /\ \A i \in Int : i % r.size \in 0 .. r.size - 1 /\ Get(r, i) \in MaybeCell
<1>1. PICK n \in Nat \ {0} : r \in [size : {n}, slot : [0 .. n - 1 -> MaybeCell]]
    BY DEF AnyRing
<1>2. r.size = n /\ r.slot \in [0 .. n - 1 -> MaybeCell]
    BY <1>1
<1>3. \A i \in Int : i % n \in 0 .. n - 1
    BY SMT
<1> QED BY <1>2, <1>3 DEF Get

LEMMA RingIntro ==
    ASSUME NEW n \in Nat \ {0}, NEW f \in [0 .. n - 1 -> MaybeCell]
    PROVE  [size |-> n, slot |-> f] \in AnyRing
BY DEF AnyRing

(* ... writing one leaves the other indexes within its size alone, ... *)
LEMMA RingPut ==
    ASSUME NEW r \in AnyRing, NEW b \in Int, NEW c \in MaybeCell
    PROVE  /\ Put(r, b, c) \in AnyRing /\ Put(r, b, c).size = r.size
           /\ Get(Put(r, b, c), b) = c
           /\ \A i \in Int : i < b /\ b - i < r.size => Get(Put(r, b, c), i) = Get(r, i)
<1> DEFINE n == r.size
           m == b % n
           f == [r.slot EXCEPT ![m] = c]
<1>1. n \in Nat \ {0} /\ r.slot \in [0 .. n - 1 -> MaybeCell] /\ m \in 0 .. n - 1
    BY RingGet
<1>2. PICK k \in Nat \ {0} : r \in [size : {k}, slot : [0 .. k - 1 -> MaybeCell]]
    BY DEF AnyRing
<1>3. Put(r, b, c) = [size |-> n, slot |-> f]
    <2>1. r = [size |-> n, slot |-> r.slot] /\ r = [[size |-> n, slot |-> r.slot] EXCEPT !.slot = r.slot]
        BY <1>2
    <2>2. Put(r, b, c) = [r EXCEPT !.slot = f]
        BY <2>1 DEF Put
    <2> HIDE DEF f, n
    <2> QED BY <2>1, <2>2
<1>4. f \in [0 .. n - 1 -> MaybeCell] /\ f[m] = c
    BY <1>1
<1>5. Put(r, b, c) \in AnyRing /\ Put(r, b, c).size = n /\ Put(r, b, c).slot = f
    <2> HIDE DEF n, f
    <2> QED BY <1>1, <1>3, <1>4, RingIntro
<1>6. Get(Put(r, b, c), b) = c
    BY <1>4, <1>5 DEF Get
<1>7. ASSUME NEW i \in Int, i < b, b - i < n PROVE Get(Put(r, b, c), i) = Get(r, i)
    <2>1. i % n # m /\ i % n \in 0 .. n - 1
        BY <1>1, <1>7, ModApart, RingGet
    <2>2. f[i % n] = r.slot[i % n]
        BY <1>1, <2>1
    <2> QED BY <1>5, <2>2 DEF Get
<1> QED BY <1>5, <1>6, <1>7

(* ... and growing it keeps what lies between the cursors. *)
LEMMA RingGrow ==
    ASSUME NEW r \in AnyRing, NEW lo \in Nat, NEW b \in Int, b - lo <= r.size
    PROVE  /\ Grow(r, lo, b) \in AnyRing /\ Grow(r, lo, b).size = 2 * r.size
           /\ \A i \in lo .. b - 1 : Get(Grow(r, lo, b), i) = Get(r, i)
<1> DEFINE n == 2 * r.size
           Val(j) == IF \E i \in lo .. b - 1 : i % n = j
                     THEN Get(r, CHOOSE i \in lo .. b - 1 : i % n = j)
                     ELSE NoCell
           f == [j \in 0 .. n - 1 |-> Val(j)]
<1>1. r.size \in Nat \ {0} /\ n \in Nat \ {0} /\ \A i \in Int : i % n \in 0 .. n - 1
    <2>1. r.size \in Nat \ {0}
        BY RingGet
    <2>2. n \in Nat \ {0}
        BY <2>1
    <2> HIDE DEF n
    <2> QED BY <2>1, <2>2
<1>2. Grow(r, lo, b) = [size |-> n, slot |-> f]
    BY DEF Grow
<1>3. \A j \in 0 .. n - 1 : Val(j) \in MaybeCell
    <2> SUFFICES ASSUME NEW j \in 0 .. n - 1, NEW h \in lo .. b - 1, h % n = j
                 PROVE  Get(r, CHOOSE i \in lo .. b - 1 : i % n = j) \in MaybeCell
        BY DEF MaybeCell
    <2> DEFINE k == CHOOSE i \in lo .. b - 1 : i % n = j
    <2>1. k \in lo .. b - 1
        OBVIOUS
    <2> HIDE DEF k
    <2>2. Get(r, k) \in MaybeCell
        BY <2>1, RingGet
    <2> QED BY <2>2 DEF k
<1> HIDE DEF n
<1>4. f \in [0 .. n - 1 -> MaybeCell]
    BY <1>3
<1>5. ASSUME NEW i \in lo .. b - 1 PROVE f[i % n] = Get(r, i)
    <2>1. i % n \in 0 .. n - 1
        BY <1>1
    <2> DEFINE k == CHOOSE k \in lo .. b - 1 : k % n = i % n
    <2>2. k \in lo .. b - 1 /\ k % n = i % n
        OBVIOUS
    <2>3. k < i => i - k < n
        BY <1>1, <2>2 DEF n
    <2>4. i < k => k - i < n
        BY <1>1, <2>2 DEF n
    <2> HIDE DEF k
    <2>5. k \in Int /\ i \in Int
        BY <2>2
    <2>6. ~(k < i)
        BY <1>1, <2>2, <2>3, <2>5, ModApart
    <2>7. ~(i < k)
        BY <1>1, <2>2, <2>4, <2>5, ModApart
    <2>8. k = i
        BY <2>5, <2>6, <2>7
    <2>9. f[i % n] = Get(r, k)
        BY <2>1 DEF k
    <2> QED BY <2>8, <2>9
<1> HIDE DEF f
<1>6. /\ Grow(r, lo, b) \in AnyRing
      /\ Grow(r, lo, b).size = n /\ Grow(r, lo, b).slot = f
    BY <1>1, <1>2, <1>4, RingIntro
<1> QED BY <1>5, <1>6 DEF Get, n

-----------------------------------------------------------------------------
(* The current ring is a ring. *)
LEMMA CurrentRing ==
    ASSUME Shape
    PROVE  /\ Len(arrays) \in Nat \ {0} /\ Current \in AnyRing
           /\ Current.size \in Nat \ {0}
           /\ \A i \in Int : Slot(i) \in MaybeCell
<1>1. Len(arrays) \in Nat \ {0} /\ Current \in AnyRing
    BY DEF Shape, Current
<1> QED BY <1>1, RingGet DEF Slot

(* PushPut: whether it grows or not, the ring then has room for the new    *)
(* index, and every live index keeps its cell in every ring.               *)
LEMMA PutRings ==
    ASSUME DequeInv, PushPut
    PROVE  /\ arrays' \in Seq(AnyRing) /\ arrays' # <<>> /\ Len(arrays) <= Len(arrays')
           /\ owner.b + 1 - top <= (Current').size
           /\ Get(Current', owner.b) = owner.c
           /\ \A i \in top .. owner.b - 1 : Get(Current', i) = Slot(i)
           /\ \A k \in 1 .. Len(arrays) :
                top < owner.b /\ Get(arrays[k], top) = Slot(top)
                    => Get(arrays'[k], top) = Slot(top)
<1> DEFINE L == Len(arrays)
           b == owner.b
           lo == owner.tp
           c == owner.c
<1>1. /\ owner.pc = "put" /\ b \in Int /\ lo \in Nat /\ c \in MaybeCell /\ b = bottom
      /\ lo <= top /\ b - lo <= Current.size /\ top <= b /\ b - top <= Current.size
      /\ top \in Nat
    BY DEF DequeInv, Shape, Local, MaybeCell, OwnerSound, PushPut, Pushing, Popping, Lim
<1>2. L \in Nat \ {0} /\ Current \in AnyRing /\ Current.size \in Nat \ {0}
    BY CurrentRing DEF DequeInv
<1>3. arrays \in Seq(AnyRing)
    BY DEF DequeInv, Shape
<1> HIDE DEF b, lo, c
<1>4. CASE b - lo > Current.size - 1
    <2> DEFINE G == Grow(Current, lo, b)
               R == Put(G, b, c)
    <2>1. G \in AnyRing /\ G.size = 2 * Current.size
        BY <1>1, <1>2, RingGrow
    <2>2. \A i \in lo .. b - 1 : Get(G, i) = Slot(i)
        BY <1>1, <1>2, RingGrow DEF Slot
    <2> HIDE DEF G
    <2>3. R \in AnyRing /\ R.size = G.size /\ Get(R, b) = c
        BY <1>1, <2>1, RingPut
    <2>4. \A i \in Int : i < b /\ b - i < G.size => Get(R, i) = Get(G, i)
        BY <1>1, <2>1, RingPut
    <2>5. arrays' = Append(arrays, R)
        BY <1>4 DEF PushPut, G, b, lo, c
    <2> HIDE DEF R
    <2>6. /\ arrays' \in Seq(AnyRing) /\ Len(arrays') = L + 1 /\ arrays'[L + 1] = R
          /\ \A k \in 1 .. L : arrays'[k] = arrays[k]
        BY <1>2, <1>3, <2>3, <2>5
    <2>7. Current' = R
        BY <2>6 DEF Current
    <2>8. \A i \in top .. b - 1 : Get(R, i) = Slot(i)
        BY <1>1, <1>2, <2>1, <2>2, <2>4
    <2>9. b + 1 - top <= R.size /\ arrays' # <<>> /\ L <= Len(arrays')
        BY <1>1, <1>2, <2>1, <2>3, <2>6
    <2> QED BY <2>3, <2>6, <2>7, <2>8, <2>9 DEF b, c
<1>5. CASE ~(b - lo > Current.size - 1)
    <2> DEFINE R == Put(Current, b, c)
    <2>1. R \in AnyRing /\ R.size = Current.size /\ Get(R, b) = c
        BY <1>1, <1>2, RingPut
    <2>2. \A i \in Int : i < b /\ b - i < Current.size => Get(R, i) = Get(Current, i)
        BY <1>1, <1>2, RingPut
    <2>3. arrays' = [arrays EXCEPT ![L] = R]
        BY <1>5 DEF PushPut, Current, b, lo, c
    <2> HIDE DEF R
    <2>4. /\ arrays' \in Seq(AnyRing) /\ Len(arrays') = L /\ arrays'[L] = R
          /\ \A k \in 1 .. L : k # L => arrays'[k] = arrays[k]
        BY <1>2, <1>3, <2>1, <2>3
    <2>5. Current' = R
        BY <2>4 DEF Current
    <2>6. \A i \in top .. b - 1 : Get(R, i) = Slot(i)
        BY <1>1, <1>2, <1>5, <2>2 DEF Slot
    <2>7. b + 1 - top <= R.size /\ arrays' # <<>> /\ L <= Len(arrays')
        BY <1>1, <1>2, <1>5, <2>1, <2>4
    <2>8. \A k \in 1 .. L : top < b /\ Get(arrays[k], top) = Slot(top)
                => Get(arrays'[k], top) = Slot(top)
        BY <1>1, <2>4, <2>6
    <2> QED BY <2>1, <2>4, <2>5, <2>6, <2>7, <2>8 DEF b, c
<1> QED BY <1>4, <1>5

-----------------------------------------------------------------------------
(* Before anything happens all cells are in the pool. *)
LEMMA InitDeque == DequeInit => DequeInv
<1> SUFFICES ASSUME DequeInit PROVE DequeInv
    OBVIOUS
<1>1. Ring(InitSize) \in AnyRing /\ Ring(InitSize).size = InitSize
    <2> DEFINE f == [i \in 0 .. InitSize - 1 |-> NoCell]
    <2>1. f \in [0 .. InitSize - 1 -> MaybeCell]
        BY DEF MaybeCell
    <2>2. Ring(InitSize) = [size |-> InitSize, slot |-> f]
        BY DEF Ring
    <2> HIDE DEF f
    <2> QED BY <2>1, <2>2, RingIntro
<1>2. arrays \in Seq(AnyRing) /\ arrays # <<>> /\ Current = Ring(InitSize) /\ Len(arrays) = 1
    <2> HIDE DEF Ring
    <2> QED BY <1>1 DEF DequeInit, Current
<1>3. Shape
    <2>1. Resting \in Local
        BY DEF Resting, Local, Places, MaybeCell
    <2>2. fn \in [Cell -> Task \cup {NoTask}] /\ got \in [Task \cup {NoTask} -> Nat]
        BY DEF DequeInit
    <2>3. thief \in [Thief -> Local]
        BY <2>1 DEF DequeInit
    <2> QED BY <1>2, <2>1, <2>2, <2>3 DEF DequeInit, Shape, Resting
<1>4. OwnerSound /\ Lim = 0
    BY <1>1, <1>2 DEF DequeInit, OwnerSound, Popping, Pushing, Lim, Resting
<1>5. ThievesSound
    BY DEF DequeInit, ThievesSound, ThiefSound, Resting
<1>6. CellsPlaced
    BY <1>4 DEF DequeInit, CellsPlaced, WonAlone, OwnerHolds, ThiefHolds, Live, Resting, Pushing
<1>7. TasksKnown
    BY DEF DequeInit, TasksKnown, Resting, Pushing, NoTask, Task
<1> QED BY <1>3, <1>4, <1>5, <1>6, <1>7 DEF DequeInv

(* What a step that leaves the rings alone leaves of the slots. *)
LEMMA SameRings ==
    ASSUME arrays' = arrays
    PROVE  Current' = Current /\ \A i : Slot(i)' = Slot(i)
BY DEF Current, Slot

LEMMA PushLoadInv == ASSUME DequeInv, PushLoad PROVE DequeInv'
<1> USE DEF DequeInv, PushLoad
<1>1. PICK c \in free :
        /\ free' = free \ {c}
        /\ fn' = [fn EXCEPT ![c] = pushed + 1]
        /\ owner' = [owner EXCEPT !.pc = "put", !.b = bottom, !.tp = top, !.c = c]
    OBVIOUS
<1>2. Current' = Current /\ \A i : Slot(i)' = Slot(i)
    BY SameRings
<1>3. Shape'
    <2>1. owner' \in Local /\ owner'.pc = "put"
        BY <1>1 DEF Shape, Local, Places, MaybeCell
    <2>2. pushed + 1 \in Task
        BY DEF Shape, Task
    <2>3. fn' \in [Cell -> Task \cup {NoTask}]
        BY <1>1, <2>2 DEF Shape
    <2> QED BY <1>1, <2>1, <2>3 DEF Shape
<1>4. /\ Lim = bottom /\ Lim' = bottom /\ ~Popping' /\ Pushing' /\ ~Pushing
      /\ owner'.c = c /\ owner'.b = bottom /\ owner'.tp = top /\ owner'.pc = "put"
      /\ c \in Cell /\ pushed \in Nat /\ pushed < MaxPush
    BY <1>1 DEF Lim, Popping, Pushing, Shape, Local
<1>5. OwnerSound'
    BY <1>2, <1>3, <1>4, CurrentRing DEF OwnerSound, Shape
<1>6. ThievesSound'
    BY <1>2, <1>4 DEF ThievesSound, ThiefSound
<1>7. CellsPlaced'
    BY <1>1, <1>2, <1>4 DEF CellsPlaced, WonAlone, OwnerHolds, ThiefHolds, Live, Shape
<1>8. TasksKnown'
    BY <1>1, <1>4 DEF TasksKnown, Shape, Task, NoTask
<1> QED BY <1>3, <1>5, <1>6, <1>7, <1>8

LEMMA PushPutInv == ASSUME DequeInv, PushPut PROVE DequeInv'
<1> USE DEF DequeInv
<1>1. /\ arrays' \in Seq(AnyRing) /\ arrays' # <<>> /\ Len(arrays) <= Len(arrays')
      /\ owner.b + 1 - top <= (Current').size
      /\ Get(Current', owner.b) = owner.c
      /\ \A i \in top .. owner.b - 1 : Get(Current', i) = Slot(i)
      /\ \A k \in 1 .. Len(arrays) :
                top < owner.b /\ Get(arrays[k], top) = Slot(top)
                    => Get(arrays'[k], top) = Slot(top)
    BY PutRings
<1>2. /\ Lim = bottom /\ Lim' = bottom /\ ~Popping' /\ Pushing' /\ Pushing /\ owner.b = bottom
      /\ owner'.c = owner.c /\ owner'.b = owner.b /\ owner'.tp = owner.tp /\ owner'.pc = "publish"
      /\ top \in Nat /\ bottom \in Int /\ owner.c \in Cell /\ pushed < MaxPush
      /\ Live' = Live /\ Live = top .. bottom - 1
      /\ UNCHANGED <<top, bottom, fn, free, thief, pushed, got>>
    BY DEF PushPut, Lim, Popping, Pushing, Shape, Local, OwnerSound, Live
<1>3. (\A i \in Live : Slot(i)' = Slot(i)) /\ Slot(owner.b)' = owner.c
    BY <1>1, <1>2 DEF Slot
<1>4. Shape'
    <2>1. owner' \in Local /\ owner'.pc = "publish"
        BY DEF PushPut, Shape, Local, Places
    <2> QED BY <1>1, <2>1 DEF PushPut, Shape
<1>5. OwnerSound'
    <2>1. (Current').size \in Nat
        <3>1. Len(arrays') \in Nat \ {0} /\ Current' \in AnyRing
            BY <1>4 DEF Shape, Current
        <3> QED BY <3>1, RingGet
    <2> QED BY <1>1, <1>2, <1>3, <2>1 DEF OwnerSound
<1>6. ThievesSound'
    <2> SUFFICES ASSUME NEW t \in Thief PROVE ThiefSound(t)'
        BY DEF ThievesSound
    <2>1. ThiefSound(t) /\ thief[t].a \in Nat \ {0} /\ Len(arrays) \in Nat
        BY CurrentRing DEF ThievesSound, Shape, Local
    <2>2. top < Lim => top \in Live /\ top < owner.b
        BY <1>2
    <2>3. top < Lim => Slot(top)' = Slot(top)
        BY <1>2, <1>3, <2>2
    <2>4. thief' = thief /\ top' = top /\ Lim' = Lim /\ Lim = owner.b
        BY <1>2
    <2>5. thief[t].pc = "slot" => thief[t].a \in 1 .. Len(arrays)
        BY <2>1 DEF ThiefSound
    <2>6. thief[t].pc = "slot" /\ thief[t].tp = top => Get(arrays'[thief[t].a], top) = Slot(top)
        BY <1>1, <2>1, <2>4, <2>5 DEF ThiefSound
    <2>7. thief[t].pc = "slot" => thief[t].a <= Len(arrays')
        BY <1>1, <1>4, <2>1, <2>5 DEF Shape
    <2> QED BY <2>1, <2>3, <2>4, <2>6, <2>7 DEF ThiefSound
<1>7. CellsPlaced'
    BY <1>2, <1>3 DEF CellsPlaced, WonAlone, OwnerHolds, ThiefHolds
<1>8. TasksKnown'
    BY <1>2 DEF TasksKnown
<1> QED BY <1>4, <1>5, <1>6, <1>7, <1>8

LEMMA PushPublishInv == ASSUME DequeInv, PushPublish PROVE DequeInv'
<1> USE DEF DequeInv
<1>1. Current' = Current /\ \A i : Slot(i)' = Slot(i)
    BY SameRings DEF PushPublish
<1>2. /\ Lim = bottom /\ Lim' = bottom + 1 /\ bottom' = bottom + 1
      /\ Pushing /\ ~Popping' /\ ~Pushing' /\ owner.b = bottom /\ pushed' = pushed + 1
      /\ Slot(bottom) = owner.c /\ owner.c \in Cell /\ pushed < MaxPush /\ pushed \in Nat
      /\ bottom + 1 - top <= Current.size /\ top <= bottom /\ top \in Nat /\ bottom \in Int
      /\ owner' = Resting
      /\ UNCHANGED <<top, arrays, fn, free, thief, got>>
    BY DEF PushPublish, Lim, Popping, Pushing, Shape, Local, OwnerSound, Resting
<1>3. Shape'
    <2>1. Resting \in Local /\ Resting.pc = "idle"
        BY DEF Resting, Local, Places, MaybeCell
    <2>2. pushed + 1 \in 0 .. MaxPush /\ bottom + 1 \in Int
        BY <1>2
    <2> QED BY <1>2, <2>1, <2>2 DEF Shape
<1>4. OwnerSound'
    BY <1>1, <1>2, CurrentRing DEF OwnerSound, Resting
<1>5. ThievesSound'
    BY <1>1, <1>2 DEF ThievesSound, ThiefSound
<1>6. CellsPlaced'
    <2>1. Live' = Live \cup {bottom} /\ bottom \notin Live
        BY <1>2 DEF Live
    <2>2. OwnerHolds(owner.c) /\ \A c : ~OwnerHolds(c)'
        BY <1>2 DEF OwnerHolds, Resting
    <2>3. \A c : OwnerHolds(c) => Slot(bottom) = c
        BY <1>2 DEF OwnerHolds
    <2> QED BY <1>1, <1>2, <2>1, <2>2, <2>3 DEF CellsPlaced, WonAlone, ThiefHolds
<1>7. TasksKnown'
    <2>1. fn \in [Cell -> Nat] /\ got \in [Task \cup {NoTask} -> Nat]
        BY DEF Shape, Task, NoTask
    <2>2. fn[owner.c] = pushed + 1 /\ pushed + 1 \in Task /\ got[pushed + 1] = 0
        BY <1>2 DEF TasksKnown, Task
    <2>3. \A k \in Task : got'[k] <= 1 /\ (pushed' < k => got'[k] = 0)
        BY <1>2, <2>1 DEF TasksKnown, Task
    <2>4. \A c \in Cell : fn'[c] <= pushed'
        BY <1>2, <2>1, <2>2 DEF TasksKnown
    <2>5. ASSUME NEW k \in 1 .. pushed' PROVE got'[k] = 1 \/ \E c \in Cell : fn'[c] = k
        <3>1. k \in 1 .. pushed \/ k = pushed + 1
            BY <1>2
        <3> QED BY <1>2, <2>2, <3>1 DEF TasksKnown
    <2> QED BY <1>2, <2>1, <2>3, <2>4, <2>5 DEF TasksKnown
<1> QED BY <1>3, <1>4, <1>5, <1>6, <1>7

-----------------------------------------------------------------------------
(* Consuming a cell that is out of the pool returns its task for the first *)
(* time and puts the cell back.                                            *)
LEMMA ConsumeTasks ==
    ASSUME Shape, TasksKnown, NEW c \in Cell, c \notin free, Consume(c), pushed' = pushed,
           Pushing => owner.c # c /\ owner' = owner,
           ~Pushing => ~Pushing'
    PROVE  /\ TasksKnown'
           /\ fn' \in [Cell -> Task \cup {NoTask}] /\ free' \in SUBSET Cell
           /\ got' \in [Task \cup {NoTask} -> Nat]
<1> DEFINE k == fn[c]
<1>1. /\ k \in Task /\ k # NoTask /\ got[k] = 0 /\ k <= pushed /\ pushed \in 0 .. MaxPush
      /\ fn \in [Cell -> Task \cup {NoTask}] /\ got \in [Task \cup {NoTask} -> Nat]
    BY DEF Shape, TasksKnown, Task, NoTask
<1>2. /\ got' = [got EXCEPT ![k] = @ + 1]
      /\ fn' = [fn EXCEPT ![c] = NoTask]
      /\ free' = free \cup {c}
    BY DEF Consume
<1> HIDE DEF k
<1>3. fn' \in [Cell -> Task \cup {NoTask}] /\ got' \in [Task \cup {NoTask} -> Nat] /\ free' \in SUBSET Cell
    BY <1>1, <1>2 DEF Shape
<1>4. got'[k] = 1 /\ \A j \in Task \cup {NoTask} : j # k => got'[j] = got[j]
    BY <1>1, <1>2
<1>5. fn'[c] = NoTask /\ \A d \in Cell : d # c => fn'[d] = fn[d] /\ fn[d] # k
    <2>1. \A d \in Cell : d # c => fn[d] # k
        BY <1>1 DEF TasksKnown, k
    <2> QED BY <1>1, <1>2, <2>1
<1>6. got'[NoTask] = 0 /\ \A d \in Cell : got'[fn'[d]] = 0
    BY <1>1, <1>4, <1>5 DEF TasksKnown
<1>7. /\ \A d \in Cell : d \in free' <=> fn'[d] = NoTask
      /\ \A d, e \in Cell : fn'[d] = fn'[e] /\ d # e => fn'[d] = NoTask
    BY <1>2, <1>5 DEF TasksKnown
<1>8. \A j \in Task : got'[j] <= 1 /\ (pushed < j => got'[j] = 0)
    BY <1>1, <1>4 DEF TasksKnown, Task
<1>9. ASSUME NEW j \in 1 .. pushed PROVE got'[j] = 1 \/ \E d \in Cell : fn'[d] = j
    <2>1. j \in Task
        BY <1>1 DEF Task
    <2>2. CASE got[j] = 1
        BY <1>4, <2>1, <2>2
    <2>3. CASE j = k
        BY <1>4, <2>3
    <2>4. CASE \E d \in Cell : fn[d] = j /\ j # k
        BY <1>5, <2>4 DEF k
    <2> QED BY <2>2, <2>3, <2>4 DEF TasksKnown
<1>10. /\ \A d \in Cell : fn'[d] <= pushed \/ (Pushing' /\ owner'.c = d /\ fn'[d] = pushed + 1)
       /\ Pushing' => fn'[owner'.c] = pushed + 1
    <2>1. \A d \in Cell : fn[d] <= pushed \/ (Pushing /\ owner.c = d /\ fn[d] = pushed + 1)
        BY DEF TasksKnown
    <2>2. Pushing => Pushing' /\ owner'.c = owner.c /\ owner.c # c /\ fn[owner.c] = pushed + 1
        BY DEF Pushing, TasksKnown
    <2>3. fn'[c] <= pushed
        BY <1>1, <1>5 DEF NoTask
    <2>4. Pushing' => Pushing
        OBVIOUS
    <2>5. fn'[owner.c] = fn[owner.c] \/ owner.c = c
        BY <1>1, <1>2
    <2> QED BY <1>5, <2>1, <2>2, <2>3, <2>4, <2>5
<1> QED BY <1>3, <1>6, <1>7, <1>8, <1>9, <1>10 DEF TasksKnown

-----------------------------------------------------------------------------
LEMMA PopClaimInv == ASSUME DequeInv, PopClaim PROVE DequeInv'
<1> USE DEF DequeInv
<1>1. Current' = Current /\ \A i : Slot(i)' = Slot(i)
    BY SameRings DEF PopClaim
<1>2. /\ owner' = [owner EXCEPT !.pc = "look", !.b = bottom - 1] /\ bottom' = bottom - 1
      /\ owner'.pc = "look" /\ owner'.b = bottom - 1 /\ owner'.c = NoCell /\ owner.c = NoCell
      /\ Popping' /\ ~Pushing /\ ~Pushing' /\ bottom \in Int /\ Lim = bottom /\ Lim' = bottom
      /\ UNCHANGED <<top, arrays, fn, free, thief, pushed, got>>
    BY DEF PopClaim, Lim, Popping, Pushing, Shape, Local, OwnerSound
<1>3. Shape'
    <2>1. owner \in Local /\ bottom - 1 \in Int /\ owner' = [owner EXCEPT !.pc = "look", !.b = bottom - 1]
        BY <1>2 DEF Shape
    <2>2. owner' \in Local
        BY <2>1 DEF Local, Places
    <2> QED BY <1>2, <2>1, <2>2 DEF Shape
<1>4. OwnerSound'
    BY <1>1, <1>2 DEF OwnerSound
<1>5. ThievesSound'
    BY <1>1, <1>2 DEF ThievesSound, ThiefSound
<1>6. CellsPlaced'
    <2>1. Live' = Live
        BY <1>2 DEF Live
    <2>2. \A c : ~OwnerHolds(c) /\ ~OwnerHolds(c)'
        BY <1>2 DEF OwnerHolds, PopClaim
    <2> QED BY <1>1, <1>2, <2>1, <2>2 DEF CellsPlaced, WonAlone, ThiefHolds
<1>7. TasksKnown'
    BY <1>2 DEF TasksKnown
<1> QED BY <1>3, <1>4, <1>5, <1>6, <1>7

(* The owner's pop moves from one place to the next: its hand, the live    *)
(* slots and the cells stay as they are.                                   *)
LEMMA PopMoves ==
    ASSUME DequeInv, Shape', OwnerSound', Popping, Popping', owner'.b = owner.b,
           UNCHANGED <<top, bottom, arrays, fn, free, thief, pushed, got>>,
           \A c \in Cell : OwnerHolds(c)' <=> OwnerHolds(c)
    PROVE  DequeInv'
<1> USE DEF DequeInv
<1>1. Current' = Current /\ \A i : Slot(i)' = Slot(i)
    BY SameRings
<1>2. Lim' = Lim /\ Live' = Live
    BY DEF Lim, Live
<1>3. ~Pushing /\ ~Pushing'
    BY DEF Pushing, Popping
<1>4. ThievesSound'
    BY <1>1, <1>2 DEF ThievesSound, ThiefSound
<1>5. CellsPlaced'
    BY <1>1, <1>2 DEF CellsPlaced, WonAlone, ThiefHolds
<1>6. TasksKnown'
    BY <1>3 DEF TasksKnown
<1> QED BY <1>4, <1>5, <1>6

LEMMA PopEmptyInv == ASSUME DequeInv, PopEmpty PROVE DequeInv'
<1> USE DEF DequeInv
<1>1. Current' = Current /\ \A i : Slot(i)' = Slot(i)
    BY SameRings DEF PopEmpty
<1>2. /\ owner' = [owner EXCEPT !.pc = "restore"] /\ owner.pc = "look"
      /\ owner'.pc = "restore" /\ owner'.b = owner.b /\ owner'.c = NoCell /\ owner.c = NoCell
      /\ Popping /\ Popping' /\ ~Pushing /\ ~Pushing' /\ Lim' = Lim /\ Lim = owner.b + 1
      /\ top = owner.b + 1
      /\ UNCHANGED <<top, bottom, arrays, fn, free, thief, pushed, got>>
    BY DEF PopEmpty, Lim, Popping, Pushing, Shape, Local, OwnerSound
<1>3. Shape'
    <2>1. owner' \in Local
        BY <1>2 DEF Shape, Local, Places
    <2> QED BY <1>2, <2>1 DEF Shape
<1>4. OwnerSound'
    BY <1>1, <1>2 DEF OwnerSound
<1>5. \A c \in Cell : OwnerHolds(c)' <=> OwnerHolds(c)
    BY <1>2 DEF OwnerHolds
<1> QED BY <1>2, <1>3, <1>4, <1>5, PopMoves

LEMMA PopLastInv == ASSUME DequeInv, PopLast PROVE DequeInv'
<1> USE DEF DequeInv
<1>1. Current' = Current /\ \A i : Slot(i)' = Slot(i)
    BY SameRings DEF PopLast
<1>2. /\ owner' = [owner EXCEPT !.pc = "cas", !.tp = top, !.c = Slot(owner.b)] /\ owner.pc = "look"
      /\ owner'.pc = "cas" /\ owner'.b = owner.b /\ owner'.c = Slot(owner.b) /\ owner'.tp = top
      /\ Popping /\ Popping' /\ ~Pushing /\ ~Pushing' /\ Lim' = Lim /\ Lim = owner.b + 1
      /\ top = owner.b /\ top \in Nat
      /\ UNCHANGED <<top, bottom, arrays, fn, free, thief, pushed, got>>
    BY DEF PopLast, Lim, Popping, Pushing, Shape, Local, OwnerSound, Slot
<1>3. Shape'
    <2>1. Slot(owner.b) \in MaybeCell
        BY <1>2, CurrentRing
    <2>2. owner' \in Local
        BY <1>2, <2>1 DEF Shape, Local, Places
    <2> QED BY <1>2, <2>2 DEF Shape
<1>4. OwnerSound'
    BY <1>1, <1>2 DEF OwnerSound
<1>5. \A c \in Cell : OwnerHolds(c)' <=> OwnerHolds(c)
    BY <1>2 DEF OwnerHolds
<1> QED BY <1>2, <1>3, <1>4, <1>5, PopMoves

(* Several were left: the claimed slot leaves the ring and its cell is     *)
(* consumed.                                                               *)
LEMMA PopManyInv == ASSUME DequeInv, PopMany PROVE DequeInv'
<1> USE DEF DequeInv
<1> DEFINE c == Slot(owner.b)
<1>1. Current' = Current /\ \A i : Slot(i)' = Slot(i)
    BY SameRings DEF PopMany
<1>2. /\ owner.pc = "look" /\ top < owner.b /\ Consume(c) /\ owner' = Resting
      /\ Popping /\ ~Popping' /\ ~Pushing /\ ~Pushing'
      /\ Lim = owner.b + 1 /\ Lim' = owner.b /\ bottom = owner.b /\ owner.b \in Int /\ top \in Nat
      /\ UNCHANGED <<top, bottom, arrays, thief, pushed>>
    BY DEF PopMany, Lim, Popping, Pushing, Shape, Local, OwnerSound, Slot, Resting
<1>3. Live = Live' \cup {owner.b} /\ owner.b \notin Live'
    BY <1>2 DEF Live
<1>4. c \in Cell /\ c \notin free
    BY <1>3 DEF CellsPlaced, WonAlone
<1> HIDE DEF c
<1>5. /\ TasksKnown'
      /\ fn' \in [Cell -> Task \cup {NoTask}] /\ free' \in SUBSET Cell
      /\ got' \in [Task \cup {NoTask} -> Nat]
    BY <1>2, <1>4, ConsumeTasks
<1>6. Shape'
    <2>1. Resting \in Local /\ Resting.pc = "idle"
        BY DEF Resting, Local, Places, MaybeCell
    <2> QED BY <1>2, <1>5, <2>1 DEF Shape
<1>7. OwnerSound'
    <2>1. Current.size \in Nat
        BY CurrentRing
    <2> QED BY <1>1, <1>2, <2>1 DEF OwnerSound, Resting
<1>8. ThievesSound'
    BY <1>1, <1>2 DEF ThievesSound, ThiefSound
<1>9. CellsPlaced'
    <2>1. free' = free \cup {c}
        BY <1>2 DEF Consume
    <2>2. \A d : ~OwnerHolds(d) /\ ~OwnerHolds(d)'
        BY <1>2 DEF OwnerHolds, Resting
    <2>3. \A i \in Live' : Slot(i) # c /\ Slot(i) \in Cell /\ Slot(i) \notin free
        BY <1>3 DEF CellsPlaced, WonAlone, c
    <2>4. \A t \in Thief : thief[t].pc = "consume" => thief[t].c # c
        BY <1>3 DEF CellsPlaced, WonAlone, c
    <2>5. \A d \in Cell \ free' : (\E i \in Live' : Slot(i) = d) \/ \E t \in Thief : ThiefHolds(t, d)
        BY <1>3, <2>1, <2>2 DEF CellsPlaced, WonAlone, c
    <2> QED BY <1>1, <1>2, <1>3, <2>1, <2>2, <2>3, <2>4, <2>5 DEF CellsPlaced, WonAlone, ThiefHolds
<1> QED BY <1>5, <1>6, <1>7, <1>8, <1>9

(* The last one: whoever moves top has the cell.                           *)
LEMMA PopCASInv == ASSUME DequeInv, PopCAS PROVE DequeInv'
<1> USE DEF DequeInv
<1>1. Current' = Current /\ \A i : Slot(i)' = Slot(i)
    BY SameRings DEF PopCAS
<1>2. /\ owner.pc = "cas" /\ Popping /\ Popping' /\ ~Pushing /\ ~Pushing'
      /\ owner'.pc = "restore" /\ owner'.b = owner.b /\ owner.b \in Int
      /\ Lim' = Lim /\ Lim = owner.b + 1
      /\ top \in Nat /\ owner.tp = owner.b /\ owner.b <= top /\ top <= owner.b + 1 /\ bottom = owner.b
      /\ UNCHANGED <<bottom, arrays, fn, free, thief, pushed, got>>
    BY ZenonT(40) DEF PopCAS, Lim, Popping, Pushing, Shape, Local, OwnerSound
<1>3. top' = owner.b + 1
    BY <1>2 DEF PopCAS
<1>4. Shape'
    <2>1. owner \in Local /\ NoCell \in MaybeCell
        BY DEF Shape, MaybeCell
    <2>2. owner' = [owner EXCEPT !.pc = "restore"] \/ owner' = [owner EXCEPT !.pc = "restore", !.c = NoCell]
        BY DEF PopCAS
    <2>3. owner' \in Local
        BY <2>1, <2>2 DEF Local, Places
    <2> QED BY <1>2, <1>3, <2>3 DEF Shape
<1>5. OwnerSound'
    <2>1. Current.size \in Nat
        BY CurrentRing
    <2> QED BY <1>1, <1>2, <1>3, <2>1 DEF OwnerSound
<1>6. ThievesSound'
    <2> SUFFICES ASSUME NEW t \in Thief PROVE ThiefSound(t)'
        BY DEF ThievesSound
    <2>1. ThiefSound(t) /\ thief[t].tp \in Nat
        BY DEF ThievesSound, Shape, Local
    <2>2. CASE top = owner.b
        BY <1>1, <1>2, <1>3, <2>1, <2>2 DEF ThiefSound
    <2>3. CASE top = owner.b + 1
        BY <1>1, <1>2, <1>3, <2>1, <2>3 DEF ThiefSound
    <2> QED BY <1>2, <2>2, <2>3
<1>7. Live' = {} /\ \A c : ~OwnerHolds(c)
    BY <1>2, <1>3 DEF Live, OwnerHolds
<1>8. CellsPlaced'
    <2>1. CASE top = owner.b
        <3>1. owner'.c = Slot(owner.b) /\ Live = {owner.b}
            BY <1>2, <2>1 DEF PopCAS, OwnerSound, Live, Shape, Local
        <3>2. \A c : OwnerHolds(c)' <=> c = Slot(owner.b)
            BY <1>2, <3>1 DEF OwnerHolds
        <3> QED BY <1>1, <1>2, <1>7, <3>1, <3>2 DEF CellsPlaced, WonAlone, ThiefHolds
    <2>2. CASE top = owner.b + 1
        <3>1. owner' = [owner EXCEPT !.pc = "restore", !.c = NoCell]
            BY <1>2, <2>2 DEF PopCAS
        <3>2. owner'.c = NoCell /\ Live = {}
            BY <1>2, <2>2, <3>1 DEF Live, Shape, Local
        <3>3. \A c \in Cell : ~OwnerHolds(c)'
            BY <1>2, <3>2 DEF OwnerHolds
        <3> QED BY <1>1, <1>2, <1>7, <3>2, <3>3 DEF CellsPlaced, WonAlone, ThiefHolds
    <2> QED BY <1>2, <2>1, <2>2
<1>9. TasksKnown'
    BY <1>2 DEF TasksKnown
<1> QED BY <1>4, <1>5, <1>6, <1>8, <1>9

LEMMA PopRestoreInv == ASSUME DequeInv, PopRestore PROVE DequeInv'
<1> USE DEF DequeInv
<1>1. Current' = Current /\ \A i : Slot(i)' = Slot(i)
    BY SameRings DEF PopRestore
<1>2. /\ owner.pc = "restore" /\ Popping /\ ~Popping' /\ ~Pushing /\ ~Pushing'
      /\ owner' = Resting /\ owner.b \in Int /\ top \in Nat /\ owner.c \in MaybeCell
      /\ bottom' = owner.b + 1 /\ Lim' = Lim /\ Lim = owner.b + 1 /\ Live' = Live
      /\ UNCHANGED <<top, arrays, thief, pushed>>
    BY DEF PopRestore, Lim, Popping, Pushing, Shape, Local, Resting, Live
<1>3. OwnerSound'
    BY <1>1, <1>2 DEF OwnerSound, Resting
<1>4. ThievesSound'
    BY <1>1, <1>2 DEF ThievesSound, ThiefSound
<1>5. Resting \in Local /\ Resting.pc = "idle"
    BY DEF Resting, Local, Places, MaybeCell
<1>6. \A c : OwnerHolds(c) <=> owner.c = c
    BY <1>2 DEF OwnerHolds
<1>7. \A c : ~OwnerHolds(c)'
    BY <1>2 DEF OwnerHolds, Resting
<1>8. CASE owner.c = NoCell
    <2>1. UNCHANGED <<got, fn, free>>
        BY <1>8 DEF PopRestore
    <2>2. Shape'
        BY <1>2, <1>5, <2>1 DEF Shape
    <2>3. \A c \in Cell : ~OwnerHolds(c)
        BY <1>6, <1>8
    <2>4. CellsPlaced'
        BY <1>1, <1>2, <1>7, <2>1, <2>3 DEF CellsPlaced, WonAlone, ThiefHolds
    <2>5. TasksKnown'
        BY <1>2, <2>1 DEF TasksKnown
    <2> QED BY <1>3, <1>4, <2>2, <2>4, <2>5
<1>9. CASE owner.c # NoCell
    <2>1. Consume(owner.c) /\ owner.c \in Cell
        BY <1>2, <1>9 DEF PopRestore, MaybeCell
    <2>2. owner.c \notin free
        BY <1>6, <2>1 DEF CellsPlaced, WonAlone
    <2>3. /\ TasksKnown'
          /\ fn' \in [Cell -> Task \cup {NoTask}] /\ free' \in SUBSET Cell
          /\ got' \in [Task \cup {NoTask} -> Nat]
        BY <1>2, <2>1, <2>2, ConsumeTasks
    <2>4. Shape'
        BY <1>2, <1>5, <2>3 DEF Shape
    <2>5. free' = free \cup {owner.c}
        BY <2>1 DEF Consume
    <2>6. CellsPlaced'
        BY <1>1, <1>2, <1>6, <1>7, <2>1, <2>5 DEF CellsPlaced, WonAlone, ThiefHolds
    <2> QED BY <1>3, <1>4, <2>3, <2>4, <2>6
<1> QED BY <1>8, <1>9

-----------------------------------------------------------------------------
(* A thief moves from one place to the next without touching the deque: it *)
(* is enough that what its locals are worth still holds.                   *)
LEMMA StealMoves ==
    ASSUME DequeInv, NEW t \in Thief, NEW me \in Local,
           me.pc \in {"idle", "bottom", "array", "slot", "cas"}, thief[t].pc # "consume",
           thief' = [thief EXCEPT ![t] = me], ThiefSound(t)',
           UNCHANGED <<top, bottom, arrays, fn, free, owner, pushed, got>>
    PROVE  DequeInv'
<1> USE DEF DequeInv
<1>1. Current' = Current /\ \A i : Slot(i)' = Slot(i)
    BY SameRings
<1>2. Lim' = Lim /\ Live' = Live /\ Pushing' = Pushing /\ Popping' = Popping
    BY DEF Lim, Live, Pushing, Popping
<1>3. thief \in [Thief -> Local] /\ thief'[t] = me /\ \A s \in Thief : s # t => thief'[s] = thief[s]
    BY DEF Shape
<1>4. Shape'
    <2>1. thief' \in [Thief -> Local]
        BY <1>3
    <2> QED BY <1>3, <2>1 DEF Shape
<1>5. OwnerSound'
    BY <1>1, <1>2 DEF OwnerSound
<1>6. ThievesSound'
    <2> SUFFICES ASSUME NEW s \in Thief, s # t PROVE ThiefSound(s)'
        BY DEF ThievesSound
    <2>1. ThiefSound(s) /\ thief'[s] = thief[s]
        BY <1>3 DEF ThievesSound
    <2> QED BY <1>1, <1>2, <2>1 DEF ThiefSound
<1>7. CellsPlaced'
    <2>1. \A s \in Thief : thief'[s].pc = "consume" <=> thief[s].pc = "consume"
        BY <1>3
    <2>2. \A s \in Thief : thief[s].pc = "consume" => thief'[s] = thief[s]
        BY <1>3
    <2>3. \A c : OwnerHolds(c)' <=> OwnerHolds(c)
        BY <1>2 DEF OwnerHolds
    <2> QED BY <1>1, <1>2, <2>1, <2>2, <2>3 DEF CellsPlaced, WonAlone, ThiefHolds
<1>8. TasksKnown'
    BY <1>2 DEF TasksKnown
<1> QED BY <1>4, <1>5, <1>6, <1>7, <1>8

LEMMA StealTopInv == ASSUME DequeInv, NEW t \in Thief, StealTop(t) PROVE DequeInv'
<1> DEFINE me == [thief[t] EXCEPT !.pc = "bottom", !.tp = top]
<1>1. thief[t] \in Local /\ thief[t].pc = "idle" /\ top \in Nat /\ thief \in [Thief -> Local]
    BY DEF DequeInv, Shape, StealTop
<1>2. me \in Local /\ me.pc = "bottom" /\ me.tp = top
    BY <1>1 DEF Local, Places
<1>3. thief' = [thief EXCEPT ![t] = me] /\ UNCHANGED <<top, bottom, arrays, fn, free, owner, pushed, got>>
    BY <1>1 DEF StealTop
<1> HIDE DEF me
<1>4. ThiefSound(t)'
    BY <1>1, <1>2, <1>3 DEF ThiefSound
<1> QED BY <1>1, <1>2, <1>3, <1>4, StealMoves

LEMMA StealBottomInv == ASSUME DequeInv, NEW t \in Thief, StealBottom(t) PROVE DequeInv'
<1> DEFINE me == IF thief[t].tp >= bottom THEN Resting ELSE [thief[t] EXCEPT !.pc = "array"]
<1>1. /\ thief[t] \in Local /\ thief[t].pc = "bottom" /\ top \in Nat /\ bottom \in Int
      /\ thief \in [Thief -> Local] /\ thief[t].tp \in Nat /\ thief[t].tp <= top
    BY DEF DequeInv, Shape, StealBottom, ThievesSound, ThiefSound, Local
<1>2. Resting \in Local /\ Resting.pc = "idle" /\ Resting.tp = 0
    BY DEF Resting, Local, Places, MaybeCell
<1>3. me \in Local /\ me.pc \in {"idle", "array"} /\ me.tp <= top
    BY <1>1, <1>2 DEF Local, Places
<1>4. me.pc = "array" => me.tp < bottom
    BY <1>1, <1>2
<1>5. thief' = [thief EXCEPT ![t] = me] /\ UNCHANGED <<top, bottom, arrays, fn, free, owner, pushed, got>>
    BY <1>1 DEF StealBottom
<1> HIDE DEF me
<1>6. bottom <= Lim /\ Lim' = Lim /\ Lim \in Int
    BY <1>1, <1>5 DEF DequeInv, OwnerSound, Lim, Popping, Shape, Local
<1>7. ThiefSound(t)'
    BY <1>1, <1>3, <1>4, <1>5, <1>6 DEF ThiefSound
<1> QED BY <1>1, <1>3, <1>5, <1>7, StealMoves

LEMMA StealArrayInv == ASSUME DequeInv, NEW t \in Thief, StealArray(t) PROVE DequeInv'
<1> DEFINE me == [thief[t] EXCEPT !.pc = "slot", !.a = Len(arrays)]
<1>1. thief[t] \in Local /\ thief[t].pc = "array" /\ thief \in [Thief -> Local] /\ ThiefSound(t)
    BY DEF DequeInv, Shape, StealArray, ThievesSound
<1>2. Len(arrays) \in Nat \ {0}
    BY CurrentRing DEF DequeInv
<1>3. me \in Local /\ me.pc = "slot" /\ me.a = Len(arrays) /\ me.tp = thief[t].tp
    BY <1>1, <1>2 DEF Local, Places
<1>4. thief' = [thief EXCEPT ![t] = me] /\ UNCHANGED <<top, bottom, arrays, fn, free, owner, pushed, got>>
    BY <1>1 DEF StealArray
<1> HIDE DEF me
<1>5. thief'[t] = me /\ Lim' = Lim /\ Slot(top)' = Slot(top) /\ Slot(top) = Get(arrays[Len(arrays)], top)
    BY <1>1, <1>4 DEF Lim, Popping, Slot, Current
<1>6. ThiefSound(t)'
    BY <1>1, <1>2, <1>3, <1>4, <1>5 DEF ThiefSound
<1> QED BY <1>1, <1>3, <1>4, <1>6, StealMoves

LEMMA StealSlotInv == ASSUME DequeInv, NEW t \in Thief, StealSlot(t) PROVE DequeInv'
<1> DEFINE seen == Get(arrays[thief[t].a], thief[t].tp)
           me == [thief[t] EXCEPT !.pc = "cas", !.c = seen]
<1>1. /\ thief[t] \in Local /\ thief[t].pc = "slot" /\ thief \in [Thief -> Local] /\ ThiefSound(t)
      /\ thief[t].a \in Nat \ {0} /\ thief[t].tp \in Nat
    BY DEF DequeInv, Shape, StealSlot, ThievesSound, Local
<1>2. seen \in MaybeCell
    <2>1. thief[t].a \in 1 .. Len(arrays)
        BY <1>1, CurrentRing DEF ThiefSound, DequeInv
    <2>2. arrays[thief[t].a] \in AnyRing
        BY <2>1 DEF DequeInv, Shape
    <2> QED BY <1>1, <2>2, RingGet
<1> HIDE DEF seen
<1>3. me \in Local /\ me.pc = "cas" /\ me.c = seen /\ me.tp = thief[t].tp
    BY <1>1, <1>2 DEF Local, Places
<1>4. thief' = [thief EXCEPT ![t] = me] /\ UNCHANGED <<top, bottom, arrays, fn, free, owner, pushed, got>>
    BY <1>1 DEF StealSlot, seen
<1> HIDE DEF me
<1>5. thief'[t] = me /\ Lim' = Lim /\ Slot(top)' = Slot(top)
    BY <1>1, <1>4 DEF Lim, Popping, Slot, Current
<1>6. thief[t].tp = top => seen = Slot(top)
    BY <1>1 DEF ThiefSound, seen
<1>7. ThiefSound(t)'
    BY <1>1, <1>3, <1>4, <1>5, <1>6 DEF ThiefSound
<1> QED BY <1>1, <1>3, <1>4, <1>7, StealMoves

(* Moving top takes the slot away from everybody else.                     *)
LEMMA StealCASInv == ASSUME DequeInv, NEW t \in Thief, StealCAS(t) PROVE DequeInv'
<1>1. CASE top # thief[t].tp
    <2>1. Resting \in Local /\ Resting.pc = "idle" /\ Resting.tp = 0
        BY DEF Resting, Local, Places, MaybeCell
    <2>2. /\ thief[t].pc = "cas" /\ thief' = [thief EXCEPT ![t] = Resting]
          /\ UNCHANGED <<top, bottom, arrays, fn, free, owner, pushed, got>>
        BY <1>1 DEF StealCAS
    <2>3. thief'[t] = Resting /\ top \in Nat
        BY <2>2 DEF DequeInv, Shape
    <2>4. ThiefSound(t)'
        BY <2>1, <2>2, <2>3 DEF ThiefSound
    <2> QED BY <2>1, <2>2, <2>4, StealMoves
<1>2. CASE top = thief[t].tp
    <2> USE DEF DequeInv
    <2> DEFINE c == Slot(top)
    <2>1. Current' = Current /\ \A i : Slot(i)' = Slot(i)
        BY SameRings DEF StealCAS
    <2>2. /\ thief[t] \in Local /\ thief \in [Thief -> Local] /\ thief[t].pc = "cas"
          /\ thief[t].c = c /\ top < Lim /\ top \in Nat /\ Lim \in Int
          /\ top' = top + 1 /\ thief' = [thief EXCEPT ![t].pc = "consume"]
          /\ UNCHANGED <<bottom, arrays, fn, free, owner, pushed, got>>
        BY SMTT(30), <1>2 DEF StealCAS, Shape, ThievesSound, ThiefSound, Lim, Local
    <2>3. /\ thief'[t] \in Local /\ thief'[t].pc = "consume" /\ thief'[t].c = c /\ thief'[t].tp = top
          /\ \A s \in Thief : s # t => thief'[s] = thief[s]
        BY <1>2, <2>2 DEF Local, Places
    <2>4. Lim' = Lim /\ Pushing' = Pushing /\ Popping' = Popping
        BY <2>2 DEF Lim, Pushing, Popping
    <2>5. Live = Live' \cup {top} /\ top \notin Live'
        BY <2>2, <2>4 DEF Live
    <2>6. c \in Cell /\ c \notin free /\ \A i \in Live' : Slot(i) # c
        BY <2>5 DEF CellsPlaced, WonAlone
    <2>7. Shape'
        <3>1. thief' \in [Thief -> Local]
            BY <2>2, <2>3
        <3> QED BY <2>2, <2>3, <3>1 DEF Shape
    <2>8. OwnerSound'
        <3>1. Current.size \in Nat /\ owner.b \in Int /\ bottom \in Int /\ owner.tp \in Nat
            BY CurrentRing DEF Shape, Local
        <3>2. Popping => Lim = owner.b + 1
            BY DEF Lim
        <3>3. owner.pc # "restore"
            BY <2>2, <3>1, <3>2 DEF OwnerSound, Popping
        <3>4. owner.pc = "cas" => owner.b <= top
            BY DEF OwnerSound
        <3> QED BY <2>1, <2>2, <2>4, <3>1, <3>2, <3>3, <3>4 DEF OwnerSound, Popping, Pushing
    <2>9. ThievesSound'
        <3> SUFFICES ASSUME NEW s \in Thief PROVE ThiefSound(s)'
            BY DEF ThievesSound
        <3>1. ThiefSound(s) /\ thief[s].tp \in Nat
            BY DEF ThievesSound, Shape, Local
        <3>2. thief'[s].tp = thief[s].tp /\ thief'[s].a = thief[s].a /\ (s = t \/ thief'[s] = thief[s])
            BY <1>2, <2>2, <2>3 DEF Local
        <3> QED BY <2>2, <2>3, <3>1, <3>2 DEF ThiefSound
    <2>10. CellsPlaced'
        <3>1. \A d : OwnerHolds(d)' <=> OwnerHolds(d)
            BY <2>2, <2>4 DEF OwnerHolds
        <3>2. ~OwnerHolds(c) /\ \A s \in Thief : ~ThiefHolds(s, c)
            BY <2>5, <2>6 DEF CellsPlaced, WonAlone, ThiefHolds
        <3>3. \A s \in Thief, d \in Cell : ThiefHolds(s, d)' <=> ThiefHolds(s, d) \/ (s = t /\ d = c)
            BY <2>2, <2>3 DEF ThiefHolds
        <3>4. ASSUME NEW d \in Cell \ free'
              PROVE  \/ \E i \in Live' : Slot(i)' = d
                     \/ OwnerHolds(d)'
                     \/ \E s \in Thief : ThiefHolds(s, d)'
            BY <2>1, <2>2, <2>5, <3>1, <3>3 DEF CellsPlaced, WonAlone
        <3>5. ASSUME NEW s \in Thief PROVE WonAlone(s)'
            <4>1. CASE s = t
                BY <2>1, <2>2, <2>3, <2>6, <3>1, <3>2, <3>3, <4>1 DEF WonAlone
            <4>2. CASE s # t
                <5>1. thief'[s] = thief[s] /\ WonAlone(s)
                    BY <2>3, <4>2 DEF CellsPlaced
                <5>2. thief[s].pc = "consume" => thief[s].c # c
                    BY <3>2 DEF ThiefHolds
                <5> QED BY <2>1, <2>2, <2>5, <3>1, <3>3, <5>1, <5>2 DEF WonAlone
            <4> QED BY <4>1, <4>2
        <3> QED BY <2>1, <2>2, <2>5, <3>1, <3>4, <3>5 DEF CellsPlaced
    <2>11. TasksKnown'
        BY <2>2, <2>4 DEF TasksKnown
    <2> QED BY <2>7, <2>8, <2>9, <2>10, <2>11
<1> QED BY <1>1, <1>2

LEMMA StealConsumeInv == ASSUME DequeInv, NEW t \in Thief, StealConsume(t) PROVE DequeInv'
<1> USE DEF DequeInv
<1> DEFINE c == thief[t].c
<1>1. Current' = Current /\ \A i : Slot(i)' = Slot(i)
    BY SameRings DEF StealConsume
<1>2. /\ thief[t].pc = "consume" /\ Consume(c) /\ thief' = [thief EXCEPT ![t] = Resting]
      /\ thief \in [Thief -> Local] /\ top \in Nat
      /\ UNCHANGED <<top, bottom, arrays, owner, pushed>>
    BY DEF StealConsume, Shape
<1>3. /\ Resting \in Local /\ Resting.pc = "idle" /\ Resting.tp = 0
      /\ thief'[t] = Resting /\ \A s \in Thief : s # t => thief'[s] = thief[s]
    BY <1>2 DEF Resting, Local, Places, MaybeCell
<1>4. /\ c \in Cell /\ c \notin free /\ ~OwnerHolds(c)
      /\ \A i \in Live : Slot(i) # c
      /\ \A s \in Thief : ThiefHolds(s, c) => s = t
    BY <1>2 DEF CellsPlaced, WonAlone
<1> HIDE DEF c
<1>5. Lim' = Lim /\ Live' = Live /\ Pushing' = Pushing /\ Popping' = Popping
    BY <1>2 DEF Lim, Live, Pushing, Popping
<1>6. /\ TasksKnown'
      /\ fn' \in [Cell -> Task \cup {NoTask}] /\ free' \in SUBSET Cell
      /\ got' \in [Task \cup {NoTask} -> Nat]
    <2>1. Pushing => owner.c # c
        BY <1>4 DEF OwnerHolds
    <2> QED BY <1>2, <1>4, <1>5, <2>1, ConsumeTasks
<1>7. Shape'
    <2>1. thief' \in [Thief -> Local]
        BY <1>2, <1>3
    <2> QED BY <1>2, <1>3, <1>6, <2>1 DEF Shape
<1>8. OwnerSound'
    BY <1>1, <1>2, <1>5 DEF OwnerSound
<1>9. ThievesSound'
    <2> SUFFICES ASSUME NEW s \in Thief PROVE ThiefSound(s)'
        BY DEF ThievesSound
    <2>1. ThiefSound(s)
        BY DEF ThievesSound
    <2>2. s = t \/ thief'[s] = thief[s]
        BY <1>3
    <2> QED BY <1>1, <1>2, <1>3, <1>5, <2>1, <2>2 DEF ThiefSound
<1>10. CellsPlaced'
    <2>1. free' = free \cup {c} /\ \A d : OwnerHolds(d)' <=> OwnerHolds(d)
        BY <1>2, <1>5 DEF Consume, OwnerHolds
    <2>2. \A d : \A s \in Thief : ThiefHolds(s, d)' <=> ThiefHolds(s, d) /\ s # t
        BY <1>3 DEF ThiefHolds
    <2>3. \A d : ThiefHolds(t, d) <=> d = c
        BY <1>2 DEF ThiefHolds, c
    <2>4. \A d \in Cell \ free' :
             \/ \E i \in Live' : Slot(i)' = d
             \/ OwnerHolds(d)'
             \/ \E s \in Thief : ThiefHolds(s, d)'
        BY <1>1, <1>5, <2>1, <2>2, <2>3 DEF CellsPlaced, WonAlone
    <2>5. ASSUME NEW s \in Thief PROVE WonAlone(s)'
        <3>1. CASE s = t
            BY <1>3, <3>1 DEF WonAlone
        <3>2. CASE s # t
            <4>1. thief'[s] = thief[s] /\ WonAlone(s)
                BY <1>3, <3>2 DEF CellsPlaced
            <4>2. thief[s].pc = "consume" => thief[s].c # c
                BY <1>4, <3>2 DEF ThiefHolds
            <4> QED BY <1>1, <1>5, <2>1, <2>2, <4>1, <4>2 DEF WonAlone
        <3> QED BY <3>1, <3>2
    <2> QED BY <1>1, <1>4, <1>5, <2>1, <2>4, <2>5 DEF CellsPlaced
<1> QED BY <1>6, <1>7, <1>8, <1>9, <1>10

-----------------------------------------------------------------------------
(* Every step, and every stutter, keeps the inductive invariant. *)
LEMMA StepDeque == DequeInv /\ [DequeNext]_dequeVars => DequeInv'
<1> SUFFICES ASSUME DequeInv, [DequeNext]_dequeVars PROVE DequeInv'
    OBVIOUS
<1>1. CASE PushLoad \/ PushPut \/ PushPublish
    BY <1>1, PushLoadInv, PushPutInv, PushPublishInv
<1>2. CASE PopClaim \/ PopEmpty \/ PopMany \/ PopLast \/ PopCAS \/ PopRestore
    BY <1>2, PopClaimInv, PopEmptyInv, PopManyInv, PopLastInv, PopCASInv, PopRestoreInv
<1>3. ASSUME NEW t \in Thief, Steal(t) PROVE DequeInv'
    BY <1>3, StealTopInv, StealBottomInv, StealArrayInv, StealSlotInv, StealCASInv, StealConsumeInv DEF Steal
<1>4. CASE UNCHANGED dequeVars
    BY <1>4 DEF dequeVars, DequeInv, Shape, OwnerSound, ThievesSound, ThiefSound, CellsPlaced, WonAlone,
                TasksKnown, Slot, Current, Live, Lim, Popping, Pushing, OwnerHolds, ThiefHolds
<1> QED BY <1>1, <1>2, <1>3, <1>4 DEF DequeNext

(* The inductive invariant holds of every interleaving of the owner and    *)
(* the thieves.                                                            *)
THEOREM DequeInvariant == DequeSpec => []DequeInv
<1> QED BY InitDeque, StepDeque, PTL DEF DequeSpec

(* The declared shape of cursors, rings and locals. *)
THEOREM DequeTypeCorrect == DequeSpec => []DequeTypeOK
<1>1. DequeInv => DequeTypeOK
    <2> SUFFICES ASSUME DequeInv PROVE DequeTypeOK
        OBVIOUS
    <2>1. ASSUME NEW k \in 1 .. Len(arrays)
          PROVE  arrays[k].slot \in [0 .. arrays[k].size - 1 -> MaybeCell]
        <3>1. arrays[k] \in AnyRing
            BY DEF DequeInv, Shape
        <3> QED BY <3>1, RingGet
    <2> QED BY <2>1 DEF DequeInv, Shape, DequeTypeOK, MaybeCell
<1> QED BY <1>1, DequeInvariant, PTL

(* deque.go:31-33: no task is returned twice, no recycled cell is ever     *)
(* consumed; pool.go:13: whenever the owner is between two calls every     *)
(* published task was returned, is held by a thief that won it, or is      *)
(* still to be found in the ring.                                          *)
THEOREM TasksConservedHolds == DequeSpec => []TasksConserved
<1>1. DequeInv => TasksConserved
    <2> SUFFICES ASSUME DequeInv PROVE TasksConserved
        OBVIOUS
    <2>1. TakenOnce
        BY DEF DequeInv, TasksKnown, TakenOnce
    <2>2. ASSUME owner.pc = "idle", NEW k \in 1 .. pushed, got[k] # 1
          PROVE  InHand(k) \/ InDeque(k)
        <3>1. PICK c \in Cell : fn[c] = k
            BY <2>2 DEF DequeInv, TasksKnown
        <3>2. c \notin free
            BY <3>1 DEF DequeInv, TasksKnown, Shape, NoTask
        <3>3. \A d : ~OwnerHolds(d)
            BY <2>2 DEF OwnerHolds, Pushing
        <3>4. CASE \E i \in Live : Slot(i) = c
            <4>1. Live = top .. bottom - 1
                BY <2>2 DEF Live, Lim, Popping
            <4> QED BY <3>1, <3>4, <4>1 DEF InDeque, Slot
        <3>5. CASE \E t \in Thief : ThiefHolds(t, c)
            BY <3>1, <3>5 DEF InHand, ThiefHolds
        <3> QED BY <3>2, <3>3, <3>4, <3>5 DEF DequeInv, CellsPlaced
    <2> QED BY <2>1, <2>2 DEF TasksConserved, NothingLost
<1> QED BY <1>1, DequeInvariant, PTL

-----------------------------------------------------------------------------
(* RenderFrame.                                                            *)
(* The sort of Build: a pass is emitted after all that produce for it.     *)
Emission(E, s) ==
    /\ s \in Seq(Index)
    /\ \A l \in DOMAIN s : \A e \in E : e[2] = s[l] => \E k \in DOMAIN s : k < l /\ s[k] = e[1]

Rounds(m, f) == f = [n \in 0 .. m |-> IF n = 0 THEN <<>> ELSE Round(f[n - 1], Edges)]

LEMMA RoundsExist == \A m \in Nat : \E f : Rounds(m, f)
<1> DEFINE S == {m \in Nat : \E f : Rounds(m, f)}
<1>1. 0 \in S
  <2> DEFINE f == [n \in 0 .. 0 |-> <<>>]
  <2>1. Rounds(0, f)
    BY DEF Rounds
  <2> QED
    BY <2>1
<1>2. ASSUME NEW m \in Nat, m \in S PROVE m + 1 \in S
  <2>1. PICK f : Rounds(m, f)
    BY <1>2
  <2> DEFINE g == [n \in 0 .. m + 1 |-> IF n = m + 1 THEN Round(f[m], Edges) ELSE f[n]]
  <2>2. \A n \in 0 .. m : g[n] = f[n]
    OBVIOUS
  <2>3. \A n \in 0 .. m : f[n] = IF n = 0 THEN <<>> ELSE Round(f[n - 1], Edges)
    BY <2>1 DEF Rounds
  <2>4. ASSUME NEW n \in 0 .. m + 1 PROVE g[n] = IF n = 0 THEN <<>> ELSE Round(g[n - 1], Edges)
    <3>1. CASE n = m + 1
      <4>1. g[n] = Round(f[m], Edges) /\ n - 1 = m /\ m \in 0 .. m
        BY <3>1
      <4>2. g[m] = f[m]
        BY <2>2, <4>1
      <4> QED
        BY <3>1, <4>1, <4>2
    <3>2. CASE n \in 0 .. m /\ n # 0
      <4>1. n - 1 \in 0 .. m
        BY <3>2
      <4> QED
        BY <2>2, <2>3, <3>2, <4>1
    <3>3. CASE n = 0
      BY <2>2, <2>3, <3>3
    <3> QED
      BY <3>1, <3>2, <3>3
  <2>5. g = [n \in 0 .. m + 1 |-> g[n]]
    OBVIOUS
  <2> HIDE DEF g
  <2>6. g = [n \in 0 .. m + 1 |-> IF n = 0 THEN <<>> ELSE Round(g[n - 1], Edges)]
    BY <2>4, <2>5
  <2> QED
    BY <2>6 DEF Rounds
<1> HIDE DEF S
<1>3. \A m \in Nat : m \in S
  BY <1>1, <1>2, SetInduction
<1> QED
  BY <1>3 DEF S

LEMMA RoundEmits ==
    ASSUME NEW E, NEW s, Emission(E, s), passes \in Seq(Pass)
    PROVE  Emission(E, Round(s, E))
<1>1. CASE Ready(s, E) = {}
  BY <1>1 DEF Round
<1>2. CASE Ready(s, E) # {}
  <2> DEFINE next == Min(Ready(s, E))
  <2>1. Ready(s, E) \in SUBSET Nat
    BY DEF Ready, Index
  <2>2. next \in Ready(s, E)
    BY <1>2, <2>1, LeastElement DEF Min
  <2> HIDE DEF next
  <2>3. Round(s, E) = Append(s, next)
    BY <1>2 DEF Round, next
  <2>4. next \in Index /\ \A e \in E : e[2] = next => e[1] \in Range(s)
    BY <2>2 DEF Ready
  <2>5. PICK n \in Nat : n = Len(s)
    BY DEF Emission
  <2>6. s \in Seq(Index) /\ DOMAIN s = 1 .. n
    BY <2>5 DEF Emission
  <2> DEFINE t == Append(s, next)
  <2>7. t \in Seq(Index) /\ DOMAIN t = 1 .. n + 1
    BY <2>4, <2>5, <2>6
  <2>8. t[n + 1] = next /\ \A k \in 1 .. n : t[k] = s[k]
    BY <2>4, <2>5, <2>6
  <2> HIDE DEF t
  <2>9. ASSUME NEW l \in DOMAIN t, NEW e \in E, e[2] = t[l] PROVE \E k \in DOMAIN t : k < l /\ t[k] = e[1]
    <3>1. CASE l \in 1 .. n
      <4>1. PICK k \in 1 .. n : k < l /\ s[k] = e[1]
        BY <2>6, <2>8, <2>9, <3>1 DEF Emission
      <4> QED
        BY <2>7, <2>8, <4>1
    <3>2. CASE l = n + 1
      <4>1. e[1] \in Range(s)
        BY <2>4, <2>8, <2>9, <3>2
      <4>2. PICK k \in 1 .. n : s[k] = e[1]
        BY <2>6, <4>1 DEF Range
      <4> QED
        BY <2>7, <2>8, <3>2, <4>2
    <3> QED
      BY <2>7, <3>1, <3>2
  <2> QED
    BY <2>3, <2>7, <2>9 DEF Emission, t
<1> QED
  BY <1>1, <1>2

LEMMA SortedEmits ==
    ASSUME passes \in Seq(Pass)
    PROVE  Emission(Edges, Sorted)
<1>1. PICK N \in Nat : N = Len(passes)
  OBVIOUS
<1> DEFINE f == CHOOSE f : Rounds(N, f)
<1>2. Rounds(N, f)
  BY RoundsExist
<1>3. Sorted = f[N]
  BY <1>1 DEF Sorted, Rounds
<1> HIDE DEF f
<1>4. f[0] = <<>> /\ \A n \in 0 .. N : n # 0 => f[n] = Round(f[n - 1], Edges)
  BY <1>2 DEF Rounds
<1> DEFINE S == {n \in Nat : n <= N => Emission(Edges, f[n])}
<1>5. 0 \in S
  <2>1. Emission(Edges, <<>>)
    BY DEF Emission
  <2> QED
    BY <1>4, <2>1
<1>6. ASSUME NEW n \in Nat, n \in S PROVE n + 1 \in S
  <2>1. SUFFICES ASSUME n + 1 <= N PROVE Emission(Edges, f[n + 1])
    OBVIOUS
  <2>2. Emission(Edges, f[n])
    BY <1>6, <2>1
  <2>3. n + 1 \in 0 .. N /\ n + 1 # 0 /\ (n + 1) - 1 = n
    BY <2>1
  <2>4. f[n + 1] = Round(f[n], Edges)
    BY <1>4, <2>3
  <2> QED
    BY <2>2, <2>4, RoundEmits
<1> HIDE DEF S
<1>7. \A n \in Nat : n \in S
  BY <1>5, <1>6, SetInduction
<1>8. N \in S /\ N <= N
  BY <1>7
<1>9. Emission(Edges, f[N])
  BY <1>8 DEF S
<1> QED
  BY <1>3, <1>9

-----------------------------------------------------------------------------
FrameTypeOK ==
    /\ passes \in Seq(Pass)
    /\ refs \in [Resource -> Nat] /\ pending \in [Resource -> Nat] /\ held \in [Resource -> Nat]
    /\ frame \in Nat

(* A deletion is pending only where nobody refers to the resource; who     *)
(* holds a resource is counted; EndFrame's list is gone with the frame.    *)
CountsSound ==
    /\ \A r \in Resource : refs[r] >= held[r] /\ (pending[r] > 0 => refs[r] = 0)
    /\ dead # {} => at = "destroy"

Lives(r) == r \notin destroyed \cup dead

(* What is held lives, and what is referred to unless a pass produces it:  *)
(* such a resource may have been destroyed before the pass came.           *)
CountedLive ==
    \A r \in Resource \ revived : held[r] > 0 \/ (refs[r] > 0 /\ r \notin Produced) => Lives(r)

(* From Build's check to the last pass no external resource of the graph   *)
(* is destroyed.                                                           *)
InputsLive ==
    at \in {"pin", "execute"} =>
        \A j \in Index : \A r \in passes[j].in \ Produced : r \in destroyed => r \in revived

(* What a pass still to run reads is written, or a pass before it in the   *)
(* order produces it.                                                      *)
ProducersFirst ==
    at = "execute" =>
        /\ order \in Seq(Index)
        /\ \A l \in DOMAIN order : \A r \in passes[order[l]].in \cap Produced :
                r \in written \/ \E k \in DOMAIN order : k < l /\ order[k] = Producer(r)

FrameInv ==
    /\ FrameTypeOK /\ CountsSound /\ CountedLive /\ InputsLive /\ ProducersFirst
    /\ ReadsAreReady

(* Where the passes are what they were, so is what follows from them.      *)
LEMMA GraphUnchanged ==
    ASSUME passes' = passes
    PROVE  /\ Index' = Index /\ Produced' = Produced
           /\ \A r : Producer(r)' = Producer(r)
<1>1. Index' = Index
  BY DEF Index
<1>2. \A r : Writers(r)' = Writers(r)
  BY <1>1 DEF Writers
<1> QED
  BY <1>1, <1>2 DEF Produced, Producer

LEMMA ProducerWrites ==
    ASSUME FrameTypeOK, NEW r \in Produced
    PROVE  Producer(r) \in Index /\ r \in passes[Producer(r)].out
<1>1. PICK N \in Nat : N = Len(passes)
  BY DEF FrameTypeOK
<1>2. Writers(r) \in SUBSET Nat /\ Writers(r) # {} /\ \A i \in Writers(r) : i <= N
  BY <1>1 DEF Writers, Produced, Index
<1>3. Producer(r) \in Writers(r)
  BY <1>2, GreatestElement DEF Producer
<1> QED
  BY <1>3 DEF Writers

LEMMA UsesCounted ==
    ASSUME FrameTypeOK, NEW r
    PROVE  /\ Uses(r) \in Nat
           /\ Uses(r) > 0 => r \in Produced \/ \E i \in Index : r \in passes[i].in
           /\ r \in Resource /\ (r \in Produced \/ \E i \in Index : r \in passes[i].in) => Uses(r) > 0
<1> DEFINE readers == {i \in Index : r \in passes[i].in}
<1>1. IsFiniteSet(Index)
  <2>1. PICK N \in Nat : N = Len(passes)
    BY DEF FrameTypeOK
  <2> QED
    BY <2>1, FS_Interval DEF Index
<1>2. IsFiniteSet(readers) /\ IsFiniteSet(Writers(r))
  BY <1>1, FS_Subset DEF Writers
<1>3. Cardinality(readers) \in Nat /\ Cardinality(Writers(r)) \in Nat
  BY <1>2, FS_CardinalityType
<1>4. (Cardinality(readers) = 0 <=> readers = {}) /\ (Cardinality(Writers(r)) = 0 <=> Writers(r) = {})
  BY <1>2, FS_EmptySet
<1>5. Uses(r) = Cardinality(readers) + Cardinality(Writers(r))
  BY DEF Uses
<1>6. readers = {} <=> ~\E i \in Index : r \in passes[i].in
  OBVIOUS
<1>7. r \in Produced => Writers(r) # {}
  BY DEF Produced
<1>8. Writers(r) # {} => r \in Produced
  <2>1. \A i \in Index : passes[i].out \subseteq Resource
    BY FrameAssumption DEF FrameTypeOK, Index, FrameAssumption
  <2> QED
    BY <2>1 DEF Produced, Writers
<1> HIDE DEF readers
<1> QED
  BY <1>3, <1>4, <1>5, <1>6, <1>7, <1>8

(* What a step leaves alone when it touches neither the graph nor the      *)
(* resources that live.                                                    *)
LEMMA HoldStep ==
    ASSUME FrameInv, NEW r \in Resource, Hold(r)
    PROVE  FrameInv'
<1>1. /\ held' = [held EXCEPT ![r] = @ + 1] /\ refs' = [refs EXCEPT ![r] = @ + 1]
      /\ pending' = [pending EXCEPT ![r] = 0]
      /\ passes' = passes /\ order' = order /\ destroyed' = destroyed /\ frame' = frame
      /\ at' = at /\ dead' = dead /\ written' = written /\ misread' = misread
      /\ revived \subseteq revived' /\ (r \in dead => r \in revived')
      /\ r \notin destroyed \/ held[r] > 0
  BY DEF Hold, Retain
<1>2. Index' = Index /\ Produced' = Produced /\ \A x : Producer(x)' = Producer(x)
  BY <1>1, GraphUnchanged
<1>3. FrameTypeOK /\ FrameTypeOK'
  BY <1>1 DEF FrameTypeOK, FrameInv
<1>4. \A x \in Resource : x # r => held'[x] = held[x] /\ refs'[x] = refs[x] /\ pending'[x] = pending[x]
  BY <1>1, <1>3 DEF FrameTypeOK
<1>5. held'[r] = held[r] + 1 /\ refs'[r] = refs[r] + 1 /\ pending'[r] = 0
      /\ held[r] \in Nat /\ refs[r] \in Nat
  BY <1>1, <1>3 DEF FrameTypeOK
<1>6. CountsSound'
  BY <1>1, <1>4, <1>5 DEF CountsSound, FrameInv
<1>7. CountedLive'
  <2> SUFFICES ASSUME NEW x \in Resource, x \notin revived', held'[x] > 0 \/ (refs'[x] > 0 /\ x \notin Produced)
               PROVE  x \notin destroyed \cup dead
    BY <1>1, <1>2 DEF CountedLive, Lives
  <2>1. CASE x # r
    BY <1>1, <1>4, <2>1 DEF FrameInv, CountedLive, Lives
  <2>2. CASE x = r
    BY <1>1, <2>2 DEF FrameInv, CountedLive, Lives
  <2> QED
    BY <2>1, <2>2
<1>8. InputsLive'
  BY <1>1, <1>2 DEF InputsLive, FrameInv
<1>9. ProducersFirst'
  BY <1>1, <1>2 DEF ProducersFirst, FrameInv
<1> QED
  BY <1>1, <1>3, <1>6, <1>7, <1>8, <1>9 DEF FrameInv, ReadsAreReady

LEMMA LetGoStep ==
    ASSUME FrameInv, NEW r \in Resource, NEW f \in Nat, LetGo(r, f)
    PROVE  FrameInv'
<1>1. /\ held' = [held EXCEPT ![r] = @ - 1] /\ held[r] > 0
      /\ passes' = passes /\ order' = order /\ destroyed' = destroyed /\ frame' = frame
      /\ at' = at /\ dead' = dead /\ written' = written /\ misread' = misread /\ revived' = revived
  BY DEF LetGo
<1>2. Index' = Index /\ Produced' = Produced /\ \A x : Producer(x)' = Producer(x)
  BY <1>1, GraphUnchanged
<1>3. /\ FrameTypeOK /\ held[r] \in Nat /\ refs[r] \in Nat /\ refs[r] >= held[r]
      /\ pending[r] \in Nat
  BY DEF FrameTypeOK, FrameInv, CountsSound
<1>4. /\ refs' = [refs EXCEPT ![r] = @ - 1]
      /\ pending' = IF refs[r] = 1 THEN [pending EXCEPT ![r] = f + 1] ELSE pending
  BY <1>1, <1>3 DEF LetGo, Release
<1>5. refs[r] - 1 \in Nat /\ held[r] - 1 \in Nat /\ f + 1 \in Nat
  BY <1>1, <1>3
<1>6. FrameTypeOK'
  BY <1>1, <1>3, <1>4, <1>5 DEF FrameTypeOK
<1>7. \A x \in Resource : x # r => held'[x] = held[x] /\ refs'[x] = refs[x] /\ pending'[x] = pending[x]
  BY <1>1, <1>3, <1>4 DEF FrameTypeOK
<1>8. held'[r] = held[r] - 1 /\ refs'[r] = refs[r] - 1 /\ (refs[r] # 1 => pending'[r] = pending[r])
  BY <1>1, <1>3, <1>4 DEF FrameTypeOK
<1>9. CountsSound'
  <2>1. ASSUME NEW x \in Resource PROVE refs'[x] >= held'[x] /\ (pending'[x] > 0 => refs'[x] = 0)
    <3>1. CASE x # r
      BY <1>7, <3>1 DEF CountsSound, FrameInv
    <3>2. CASE x = r
      <4>1. pending[r] = 0
        BY <1>1, <1>3 DEF CountsSound, FrameInv
      <4> QED
        BY <1>1, <1>3, <1>8, <3>2, <4>1
    <3> QED
      BY <3>1, <3>2
  <2> QED
    BY <1>1, <2>1 DEF CountsSound, FrameInv
<1>10. CountedLive'
  <2> SUFFICES ASSUME NEW x \in Resource, x \notin revived, held'[x] > 0 \/ (refs'[x] > 0 /\ x \notin Produced)
               PROVE  x \notin destroyed \cup dead
    BY <1>1, <1>2 DEF CountedLive, Lives
  <2>1. held[x] > 0 \/ (refs[x] > 0 /\ x \notin Produced)
    BY <1>1, <1>7
  <2> QED
    BY <2>1 DEF FrameInv, CountedLive, Lives
<1>11. InputsLive'
  BY <1>1, <1>2 DEF InputsLive, FrameInv
<1>12. ProducersFirst'
  BY <1>1, <1>2 DEF ProducersFirst, FrameInv
<1> QED
  BY <1>1, <1>6, <1>9, <1>10, <1>11, <1>12 DEF FrameInv, ReadsAreReady

LEMMA AddPassStep ==
    ASSUME FrameInv, NEW p \in Pass, AddPass(p)
    PROVE  FrameInv'
<1>1. /\ at = "idle" /\ passes' = Append(passes, p) /\ passes \in Seq(Pass)
      /\ order' = order /\ refs' = refs /\ pending' = pending /\ destroyed' = destroyed
      /\ frame' = frame /\ at' = at /\ dead' = dead /\ held' = held
      /\ written' = written /\ misread' = misread /\ revived' = revived
  BY DEF AddPass, tracker, users, FrameInv, FrameTypeOK
<1>2. FrameTypeOK'
  <2>1. Append(passes, p) \in Seq(Pass)
    BY <1>1
  <2> QED
    BY <1>1, <2>1 DEF FrameTypeOK, FrameInv
<1>3. Produced \subseteq Produced'
  <2>1. PICK N \in Nat : N = Len(passes)
    BY <1>1
  <2>2. Len(passes') = N + 1 /\ \A i \in 1 .. N : passes'[i] = passes[i]
    BY <1>1, <2>1
  <2>3. \A r : Writers(r) \subseteq Writers(r)'
    BY <2>1, <2>2 DEF Writers, Index
  <2> QED
    BY <2>3 DEF Produced
<1>4. CountsSound'
  BY <1>1 DEF CountsSound, FrameInv
<1>5. CountedLive'
  BY <1>1, <1>3 DEF CountedLive, Lives, FrameInv
<1>6. InputsLive' /\ ProducersFirst'
  BY <1>1 DEF InputsLive, ProducersFirst
<1> QED
  BY <1>1, <1>2, <1>4, <1>5, <1>6 DEF FrameInv, ReadsAreReady

LEMMA CollectCheckStep ==
    ASSUME FrameInv, Collect \/ Check
    PROVE  FrameInv'
<1>1. /\ passes' = passes /\ order' = order /\ refs' = refs /\ pending' = pending /\ destroyed' = destroyed
      /\ dead' = dead /\ held' = held /\ misread' = misread /\ revived' = revived
      /\ at \in {"idle", "check"} /\ at' \in {"check", "idle", "pin"}
      /\ at' = "pin" => ~Released
      /\ frame' = frame \/ frame' = frame + 1
  BY DEF Collect, Check, tracker, users
<1>2. Index' = Index /\ Produced' = Produced
  BY <1>1, GraphUnchanged
<1>3. FrameTypeOK /\ FrameTypeOK'
  BY <1>1 DEF FrameTypeOK, FrameInv
<1>4. CountsSound' /\ CountedLive'
  BY <1>1, <1>2 DEF CountsSound, CountedLive, Lives, FrameInv
<1>5. InputsLive'
  <2> SUFFICES ASSUME at' = "pin", NEW j \in Index, NEW r \in passes[j].in \ Produced, r \in destroyed
               PROVE  r \in revived
    BY <1>1, <1>2 DEF InputsLive
  <2>1. r \in Resource
    BY <1>3, FrameAssumption DEF FrameTypeOK, FrameAssumption, Index
  <2>2. refs[r] \in Nat /\ refs[r] # 0
    BY <1>1, <1>3, <2>1 DEF Released, FrameTypeOK
  <2> QED
    BY <2>1, <2>2 DEF FrameInv, CountedLive, Lives
<1>6. ProducersFirst'
  BY <1>1 DEF ProducersFirst
<1> QED
  BY <1>1, <1>3, <1>4, <1>5, <1>6 DEF FrameInv, ReadsAreReady

LEMMA PinStep ==
    ASSUME FrameInv, PinAndSort
    PROVE  FrameInv'
<1>1. /\ at = "pin" /\ refs' = [r \in Resource |-> refs[r] + Uses(r)]
      /\ pending' = [r \in Resource |-> IF Uses(r) > 0 THEN 0 ELSE pending[r]]
      /\ at' \in {"idle", "execute"} /\ (at' = "execute" => order' = Sorted)
      /\ passes' = passes /\ destroyed' = destroyed /\ frame' = frame /\ dead' = dead
      /\ held' = held /\ written' = written /\ misread' = misread /\ revived' = revived
  BY DEF PinAndSort, users
<1>2. Index' = Index /\ Produced' = Produced /\ \A x : Producer(x)' = Producer(x)
  BY <1>1, GraphUnchanged
<1>3. FrameTypeOK /\ \A r \in Resource : Uses(r) \in Nat
  BY UsesCounted DEF FrameInv
<1>4. FrameTypeOK'
  BY <1>1, <1>3 DEF FrameTypeOK
<1>5. dead = {}
  BY <1>1 DEF FrameInv, CountsSound
<1>6. CountsSound'
  <2>1. ASSUME NEW r \in Resource PROVE refs'[r] >= held'[r] /\ (pending'[r] > 0 => refs'[r] = 0)
    <3>1. refs[r] \in Nat /\ held[r] \in Nat /\ pending[r] \in Nat /\ Uses(r) \in Nat
      BY <1>3 DEF FrameTypeOK
    <3>2. refs[r] >= held[r] /\ (pending[r] > 0 => refs[r] = 0)
      BY DEF FrameInv, CountsSound
    <3>3. refs'[r] = refs[r] + Uses(r) /\ pending'[r] = IF Uses(r) > 0 THEN 0 ELSE pending[r]
      BY <1>1
    <3> QED
      BY <1>1, <3>1, <3>2, <3>3
  <2> QED
    BY <1>1, <1>5, <2>1 DEF CountsSound
<1>7. CountedLive'
  <2> SUFFICES ASSUME NEW r \in Resource, r \notin revived, held[r] > 0 \/ (refs'[r] > 0 /\ r \notin Produced)
               PROVE  r \notin destroyed
    BY <1>1, <1>2, <1>5 DEF CountedLive, Lives
  <2>1. CASE held[r] > 0 \/ (refs[r] > 0 /\ r \notin Produced)
    BY <2>1 DEF FrameInv, CountedLive, Lives
  <2>2. CASE refs[r] = 0 /\ refs'[r] > 0 /\ r \notin Produced
    <3>1. Uses(r) > 0
      BY <1>1, <1>3, <2>2
    <3>2. \E i \in Index : r \in passes[i].in
      BY <1>3, <2>2, <3>1, UsesCounted
    <3> QED
      BY <1>1, <2>2, <3>2 DEF FrameInv, InputsLive
  <2> QED
    BY <1>3, <2>1, <2>2 DEF FrameTypeOK
<1>8. InputsLive'
  BY <1>1, <1>2 DEF InputsLive, FrameInv
<1>9. ProducersFirst'
  <2> SUFFICES ASSUME at' = "execute" PROVE ProducersFirst'
    BY DEF ProducersFirst
  <2>1. order' = Sorted /\ Emission(Edges, Sorted)
    BY <1>1, <1>3, SortedEmits DEF FrameTypeOK
  <2> DEFINE s == Sorted
  <2>2. s \in Seq(Index) /\ DOMAIN s = 1 .. Len(s)
    BY <2>1 DEF Emission
  <2>3. ASSUME NEW l \in DOMAIN s, NEW r \in passes[s[l]].in \cap Produced
        PROVE  \E k \in DOMAIN s : k < l /\ s[k] = Producer(r)
    <3> DEFINE e == <<Producer(r), s[l]>>
    <3>1. s[l] \in Index
      BY <2>2
    <3>2. <<r, s[l]>> \in {y \in Produced \X Index : y[1] \in passes[y[2]].in}
      BY <3>1
    <3>3. e \in Edges
      BY <3>2 DEF Edges
    <3>4. e[1] = Producer(r) /\ e[2] = s[l]
      OBVIOUS
    <3> HIDE DEF e
    <3>5. \A x \in Edges : x[2] = s[l] => \E k \in DOMAIN s : k < l /\ s[k] = x[1]
      BY <2>1, Zenon DEF Emission
    <3> QED
      BY <3>3, <3>4, <3>5
  <2> HIDE DEF s
  <2>4. order' = s
    BY <2>1 DEF s
  <2> QED
    BY <1>1, <1>2, <2>2, <2>3, <2>4 DEF ProducersFirst
<1> QED
  BY <1>1, <1>4, <1>6, <1>7, <1>8, <1>9 DEF FrameInv, ReadsAreReady

LEMMA ExecutePassStep ==
    ASSUME FrameInv, ExecutePass
    PROVE  FrameInv'
<1> DEFINE j == Head(order)
<1>1. /\ at = "execute" /\ order # <<>> /\ order' = Tail(order)
      /\ misread' = misread \cup ((passes[j].in \cap destroyed) \ Produced)
                            \cup {r \in passes[j].in \cap Produced : r \notin written}
      /\ written' = written \cup {r \in passes[j].out : Producer(r) = j}
      /\ passes' = passes /\ refs' = refs /\ pending' = pending /\ destroyed' = destroyed /\ frame' = frame
      /\ at' = at /\ dead' = dead /\ held' = held /\ revived' = revived
  BY DEF ExecutePass, tracker, users
<1>2. Index' = Index /\ Produced' = Produced /\ \A x : Producer(x)' = Producer(x)
  BY <1>1, GraphUnchanged
<1>3. FrameTypeOK /\ FrameTypeOK'
  BY <1>1 DEF FrameTypeOK, FrameInv
<1>4. PICK n \in Nat : n = Len(order) /\ order \in Seq(Index)
  BY <1>1 DEF FrameInv, ProducersFirst
<1>5. n > 0 /\ DOMAIN order = 1 .. n /\ j = order[1] /\ j \in Index
  BY <1>1, <1>4
<1>6. Tail(order) \in Seq(Index) /\ DOMAIN Tail(order) = 1 .. n - 1
      /\ \A l \in 1 .. n - 1 : Tail(order)[l] = order[l + 1]
  BY <1>1, <1>4, <1>5
<1>7. \A l \in 1 .. n : \A r \in passes[order[l]].in \cap Produced :
            r \in written \/ \E k \in 1 .. n : k < l /\ order[k] = Producer(r)
  BY <1>1, <1>5, Zenon DEF FrameInv, ProducersFirst
<1> HIDE DEF j
<1>8. ReadsAreReady'
  <2>1. ASSUME NEW r \in (passes[j].in \cap destroyed) \ Produced PROVE r \in revived
    BY <1>1, <1>5, <2>1 DEF FrameInv, InputsLive
  <2>2. ASSUME NEW r \in passes[j].in \cap Produced PROVE r \in written
    <3>1. 1 \in 1 .. n /\ passes[order[1]].in = passes[j].in
      BY <1>5
    <3>2. r \in written \/ \E k \in 1 .. n : k < 1 /\ order[k] = Producer(r)
      BY <1>7, <3>1
    <3> QED
      BY <3>2
  <2> QED
    BY <1>1, <2>1, <2>2 DEF FrameInv, ReadsAreReady
<1>9. ASSUME NEW l \in 1 .. n - 1, NEW r \in passes[Tail(order)[l]].in \cap Produced
      PROVE  r \in written' \/ \E k \in 1 .. n - 1 : k < l /\ Tail(order)[k] = Producer(r)
  <2>1. l + 1 \in 1 .. n /\ Tail(order)[l] = order[l + 1]
    BY <1>6
  <2>2. r \in written \/ \E k \in 1 .. n : k < l + 1 /\ order[k] = Producer(r)
    BY <1>7, <2>1
  <2>3. CASE r \in written
    BY <1>1, <2>3
  <2>4. ASSUME NEW k \in 1 .. n, k < l + 1, order[k] = Producer(r)
        PROVE  r \in written' \/ \E m \in 1 .. n - 1 : m < l /\ Tail(order)[m] = Producer(r)
    <3>1. CASE k = 1
      <4>1. Producer(r) = j /\ r \in passes[j].out
        BY <1>3, <1>5, <2>4, <3>1, ProducerWrites
      <4> QED
        BY <1>1, <4>1
    <3>2. CASE k # 1
      <4>1. k - 1 \in 1 .. n - 1 /\ (k - 1) + 1 = k /\ k - 1 < l
        BY <2>4, <3>2
      <4> QED
        BY <1>6, <2>4, <4>1
    <3> QED
      BY <3>1, <3>2
  <2> QED
    BY <2>2, <2>3, <2>4
<1>10. ProducersFirst'
  <2> DEFINE rest == Tail(order)
  <2>1. rest \in Seq(Index) /\ DOMAIN rest = 1 .. n - 1
    BY <1>6
  <2>2. \A l \in 1 .. n - 1 : \A r \in passes[rest[l]].in \cap Produced :
            r \in written' \/ \E k \in 1 .. n - 1 : k < l /\ rest[k] = Producer(r)
    BY <1>9
  <2>3. order' = rest
    BY <1>1
  <2> HIDE DEF rest
  <2> QED
    BY <1>1, <1>2, <2>1, <2>2, <2>3 DEF ProducersFirst
<1>11. CountsSound' /\ CountedLive'
  BY <1>1, <1>2 DEF CountsSound, CountedLive, Lives, FrameInv
<1>12. InputsLive'
  BY <1>1, <1>2 DEF InputsLive, FrameInv
<1> QED
  BY <1>3, <1>8, <1>10, <1>11, <1>12 DEF FrameInv

LEMMA EndFrameStep ==
    ASSUME FrameInv, EndFrame
    PROVE  FrameInv'
<1>1. /\ at = "execute" /\ at' = "destroy" /\ dead' = {r \in Resource : pending[r] > 0 /\ pending[r] - 1 < frame}
      /\ pending' = [r \in Resource |-> IF r \in dead' THEN 0 ELSE pending[r]]
      /\ passes' = passes /\ refs' = refs /\ destroyed' = destroyed /\ frame' = frame
      /\ held' = held /\ misread' = misread /\ revived' = revived
  BY DEF EndFrame, users
<1>2. Produced' = Produced
  BY <1>1, GraphUnchanged
<1>3. FrameTypeOK /\ FrameTypeOK'
  BY <1>1 DEF FrameTypeOK, FrameInv
<1>4. CountsSound'
  BY <1>1, <1>3 DEF CountsSound, FrameInv, FrameTypeOK
<1>5. CountedLive'
  <2> SUFFICES ASSUME NEW r \in Resource, r \notin revived, held[r] > 0 \/ (refs[r] > 0 /\ r \notin Produced)
               PROVE  r \notin destroyed \cup dead'
    BY <1>1, <1>2 DEF CountedLive, Lives
  <2>1. refs[r] > 0 /\ refs[r] \in Nat /\ pending[r] \in Nat
    BY <1>3 DEF FrameInv, CountsSound, FrameTypeOK
  <2>2. ~(pending[r] > 0)
    BY <2>1 DEF FrameInv, CountsSound
  <2> QED
    BY <1>1, <2>2 DEF FrameInv, CountedLive, Lives
<1>6. InputsLive' /\ ProducersFirst'
  BY <1>1 DEF InputsLive, ProducersFirst
<1> QED
  BY <1>1, <1>3, <1>4, <1>5, <1>6 DEF FrameInv, ReadsAreReady

LEMMA DestroyStep ==
    ASSUME FrameInv, Destroy
    PROVE  FrameInv'
<1>1. /\ destroyed' = destroyed \cup dead /\ dead' = {} /\ at' = "idle"
      /\ passes' = passes /\ refs' = refs /\ pending' = pending /\ frame' = frame
      /\ held' = held /\ misread' = misread /\ revived' = revived
  BY DEF Destroy, tracker, users
<1>2. Produced' = Produced
  BY <1>1, GraphUnchanged
<1>3. FrameTypeOK' /\ CountsSound' /\ InputsLive' /\ ProducersFirst'
  BY <1>1 DEF FrameTypeOK, CountsSound, InputsLive, ProducersFirst, FrameInv
<1>4. CountedLive'
  BY <1>1, <1>2 DEF CountedLive, Lives, FrameInv
<1> QED
  BY <1>1, <1>3, <1>4 DEF FrameInv, ReadsAreReady

(* The render graph's inductive invariant holds for any passes over any    *)
(* resources, and any use of the device between frames and passes.         *)
THEOREM FrameInvariant == FrameSpec => []FrameInv
<1>1. FrameInit => FrameInv
  BY DEF FrameInit, None, FrameInv, FrameTypeOK, CountsSound, CountedLive, Lives, InputsLive, ProducersFirst, ReadsAreReady
<1>2. ASSUME FrameInv, [FrameNext]_frameVars PROVE FrameInv'
  <2>1. ASSUME NEW r \in Resource, Hold(r) PROVE FrameInv'
    BY <1>2, <2>1, HoldStep
  <2>2. ASSUME NEW r \in Resource, NEW f \in 0 .. MaxFrame, LetGo(r, f) PROVE FrameInv'
    BY <1>2, <2>2, LetGoStep
  <2>3. ASSUME NEW p \in Pass, AddPass(p) PROVE FrameInv'
    BY <1>2, <2>3, AddPassStep
  <2>4. CASE Collect \/ Check
    BY <1>2, <2>4, CollectCheckStep
  <2>5. CASE PinAndSort
    BY <1>2, <2>5, PinStep
  <2>6. CASE ExecutePass
    BY <1>2, <2>6, ExecutePassStep
  <2>7. CASE EndFrame \/ Destroy
    BY <1>2, <2>7, EndFrameStep, DestroyStep
  <2>8. CASE UNCHANGED frameVars
    <3>1. /\ passes' = passes /\ order' = order /\ refs' = refs /\ pending' = pending /\ destroyed' = destroyed
          /\ frame' = frame /\ at' = at /\ dead' = dead /\ held' = held /\ written' = written
          /\ misread' = misread /\ revived' = revived
      BY <2>8 DEF frameVars
    <3>2. Index' = Index /\ Produced' = Produced /\ \A x : Producer(x)' = Producer(x)
      BY <3>1, GraphUnchanged
    <3>3. FrameTypeOK' /\ CountsSound' /\ CountedLive' /\ InputsLive' /\ ReadsAreReady'
      BY <1>2, <3>1, <3>2 DEF FrameInv, FrameTypeOK, CountsSound, CountedLive, Lives, InputsLive, ReadsAreReady
    <3>4. ProducersFirst'
      BY <1>2, <3>1, <3>2 DEF FrameInv, ProducersFirst
    <3> QED
      BY <3>3, <3>4 DEF FrameInv
  <2> QED
    BY <1>2, <2>1, <2>2, <2>3, <2>4, <2>5, <2>6, <2>7, <2>8 DEF FrameNext
<1> QED
  BY <1>1, <1>2, PTL DEF FrameSpec

(* resources.go:9-15, graph.go.  Every pass reads what was written or what *)
(* still exists, and what somebody holds is counted and not destroyed; a   *)
(* resource retained while EndFrame was about to destroy it is excepted.   *)
THEOREM FrameSoundHolds == FrameSpec => []FrameSound
<1>1. FrameInv => FrameSound
  <2> SUFFICES ASSUME FrameInv, NEW r \in Resource \ revived, held[r] > 0
               PROVE  refs[r] >= held[r] /\ r \notin destroyed \cup dead
    BY DEF FrameSound, HeldAlive, FrameInv
  <2> QED
    BY DEF FrameInv, CountsSound, CountedLive, Lives
<1> QED
  BY <1>1, FrameInvariant, PTL

-----------------------------------------------------------------------------
(* What is told grows by one with each event of an open graph. *)
LEMMA ToldGrows ==
    ASSUME NEW h, NEW i \in Nat, \A j \in 1 .. i + 1 : h[j].open \in BOOLEAN
    PROVE  /\ Told(h, i) \in Nat
           /\ Told(h, i + 1) = IF h[i + 1].open THEN Told(h, i) + 1 ELSE Told(h, i)
<1> DEFINE S(n) == {j \in 1 .. n : h[j].open}
<1>1. IsFiniteSet(S(i)) /\ Cardinality(S(i)) \in Nat
  <2>1. IsFiniteSet(1 .. i)
    BY FS_Interval
  <2> QED
    BY <2>1, FS_Subset, FS_CardinalityType
<1>2. i + 1 \notin S(i)
  OBVIOUS
<1>3. CASE h[i + 1].open
  <2>1. S(i + 1) = S(i) \cup {i + 1}
    BY <1>3
  <2>2. Cardinality(S(i) \cup {i + 1}) = Cardinality(S(i)) + 1
    <3> HIDE DEF S
    <3> QED
      BY <1>1, <1>2, FS_AddElement
  <2> QED
    BY <1>1, <1>3, <2>1, <2>2 DEF Told
<1>4. CASE ~h[i + 1].open
  <2>1. S(i + 1) = S(i)
    BY <1>4
  <2> QED
    BY <1>1, <1>4, <2>1 DEF Told
<1> QED
  BY <1>3, <1>4

(* It depends on what happened so far only. *)
LEMMA ToldAlike ==
    ASSUME NEW h, NEW k, NEW i \in Nat, \A j \in 1 .. i : h[j] = k[j]
    PROVE  Told(h, i) = Told(k, i)
<1>1. {j \in 1 .. i : h[j].open} = {j \in 1 .. i : k[j].open}
  OBVIOUS
<1> QED
  BY <1>1 DEF Told

(* An event of an open graph has a place among what is told. *)
LEMMA ToldPlace ==
    ASSUME NEW h, NEW n \in Nat, NEW i \in 1 .. n, h[i].open
    PROVE  Told(h, i) \in 1 .. Told(h, n)
<1> DEFINE S(m) == {j \in 1 .. m : h[j].open}
<1>1. \A m \in Nat : IsFiniteSet(S(m))
  <2> TAKE m \in Nat
  <2>1. IsFiniteSet(1 .. m)
    BY FS_Interval
  <2> QED
    BY <2>1, FS_Subset
<1>2. i \in S(i) /\ S(i) \subseteq S(n) /\ i \in Nat
  OBVIOUS
<1> HIDE DEF S
<1>3. Cardinality(S(i)) <= Cardinality(S(n)) /\ Cardinality(S(i)) \in Nat /\ Cardinality(S(n)) \in Nat
  BY <1>1, <1>2, FS_Subset, FS_CardinalityType
<1>4. Cardinality(S(i)) # 0
  BY <1>1, <1>2, FS_EmptySet
<1> QED
  BY <1>3, <1>4 DEF Told, S

Happening == [graph : GraphID, node : GraphNode, error : BOOLEAN, hit : BOOLEAN, open : BOOLEAN]
TraceEvent == [kind : {"step", "hit", "error"}, graph : GraphID, node : GraphNode, frame : Nat]
Debugged == [breakpoints : SUBSET GraphNode, execCount : [GraphNode -> Nat], latest : [GraphNode -> Nat],
             trace : Seq(Nat), cursor : Nat]

DebugShape ==
    /\ happened \in Seq(Happening) /\ messages \in Seq(TraceEvent) /\ queued \in Seq(TraceEvent)
    /\ DOMAIN debugged \subseteq GraphID /\ debugged \in [DOMAIN debugged -> Debugged]
    /\ opened \in [GraphID -> Nat] /\ stepped \in [GraphID -> Seq(Nat)]

(* The steps of graph g in h after the first o events. *)
StepsAfter(h, o, g) == {i \in DOMAIN h : i > o /\ h[i].graph = g /\ ~h[i].error}

(* The state d of graph g, opened after the first o of the events h and    *)
(* stepped through as s.                                                   *)
TraceSound(g, d, h, o) ==
    /\ Len(d.trace) <= MaxTrace
    /\ \A i, j \in DOMAIN d.trace : i < j => d.trace[i] < d.trace[j]
    /\ \A k \in DOMAIN d.trace : d.trace[k] \in StepsAfter(h, o, g)
    /\ \A i \in StepsAfter(h, o, g) :
        \/ \E k \in DOMAIN d.trace : d.trace[k] = i
        \/ Len(d.trace) = MaxTrace /\ \A k \in DOMAIN d.trace : i < d.trace[k]

NodesSound(g, d, h, o) ==
    \A n \in GraphNode :
        /\ d.execCount[n] = Cardinality({i \in StepsAfter(h, o, g) : h[i].node = n})
        /\ d.latest[n] # 0 => d.latest[n] \in StepsAfter(h, o, g) /\ h[d.latest[n]].node = n

ReplaySound(g, d, h, o, s) ==
    /\ d.cursor <= Len(d.trace)
    /\ \A i \in DOMAIN s : s[i] \in StepsAfter(h, o, g) \cup {0}
    /\ \A i, j \in DOMAIN s : i < j /\ s[j] # 0 => s[i] < s[j]
    /\ \A i \in DOMAIN s, k \in DOMAIN d.trace : k > d.cursor => s[i] < d.trace[k]

GraphSound(g, d, h, o, s) == TraceSound(g, d, h, o) /\ NodesSound(g, d, h, o) /\ ReplaySound(g, d, h, o, s)

DebugInv ==
    /\ DebugShape
    /\ EditorHearsAll
    /\ \A g \in DOMAIN debugged :
        opened[g] <= Len(happened) /\ GraphSound(g, debugged[g], happened, opened[g], stepped[g])

-----------------------------------------------------------------------------
(* A step of the graph is one more, anything else leaves its steps alone. *)
LEMMA StepsAfterOne ==
    ASSUME NEW h \in Seq(Happening), NEW x \in Happening, NEW g, NEW o \in Nat, o <= Len(h)
    PROVE  StepsAfter(Append(h, x), o, g)
               = StepsAfter(h, o, g) \cup (IF x.graph = g /\ ~x.error THEN {Len(h) + 1} ELSE {})
<1> DEFINE k == Append(h, x)
<1>1. Len(k) = Len(h) + 1 /\ DOMAIN h = 1 .. Len(h) /\ DOMAIN k = 1 .. Len(h) + 1 /\ Len(h) \in Nat
  OBVIOUS
<1>2. k[Len(h) + 1] = x /\ \A i \in 1 .. Len(h) : k[i] = h[i]
  OBVIOUS
<1> HIDE DEF k
<1> SUFFICES StepsAfter(k, o, g) = StepsAfter(h, o, g) \cup (IF x.graph = g /\ ~x.error THEN {Len(h) + 1} ELSE {})
  BY DEF k
<1>3. ASSUME NEW i PROVE i \in DOMAIN k <=> i \in DOMAIN h \/ i = Len(h) + 1
  BY <1>1
<1>4. Len(h) + 1 > o /\ Len(h) + 1 \notin DOMAIN h
  BY <1>1
<1> QED
  BY <1>1, <1>2, <1>3, <1>4 DEF StepsAfter

LEMMA StepsAfterBounds ==
    ASSUME NEW h \in Seq(Happening), NEW g, NEW o \in Nat
    PROVE  StepsAfter(h, o, g) \subseteq 1 .. Len(h) /\ Len(h) \in Nat
  BY DEF StepsAfter

(* What happens elsewhere says nothing about the graph. *)
LEMMA GraphElsewhere ==
    ASSUME NEW g, NEW d \in Debugged, NEW h \in Seq(Happening), NEW o \in Nat, NEW s \in Seq(Nat),
           NEW x \in Happening, o <= Len(h), x.graph # g \/ x.error, GraphSound(g, d, h, o, s)
    PROVE  GraphSound(g, d, Append(h, x), o, s)
<1> DEFINE k == Append(h, x)
           T == StepsAfter(h, o, g)
<1>1. StepsAfter(k, o, g) = T
  <2>1. ~(x.graph = g /\ ~x.error)
    OBVIOUS
  <2>2. StepsAfter(k, o, g) = T \cup (IF x.graph = g /\ ~x.error THEN {Len(h) + 1} ELSE {})
    BY StepsAfterOne
  <2> QED
    BY <2>1, <2>2
<1>2. T \subseteq 1 .. Len(h) /\ Len(h) \in Nat
  BY StepsAfterBounds
<1>3. \A i \in T : k[i] = h[i]
  BY <1>2
<1> HIDE DEF k, T
<1> SUFFICES GraphSound(g, d, k, o, s)
  BY DEF k
<1>4. TraceSound(g, d, k, o)
  BY <1>1 DEF GraphSound, TraceSound, T
<1>5. NodesSound(g, d, k, o)
  <2> SUFFICES ASSUME NEW n \in GraphNode
               PROVE  /\ d.execCount[n] = Cardinality({i \in StepsAfter(k, o, g) : k[i].node = n})
                      /\ d.latest[n] # 0 => d.latest[n] \in StepsAfter(k, o, g) /\ k[d.latest[n]].node = n
    BY DEF NodesSound
  <2>1. {i \in T : k[i].node = n} = {i \in T : h[i].node = n}
    BY <1>3
  <2> QED
    BY <1>1, <1>3, <2>1 DEF GraphSound, NodesSound, T
<1>6. ReplaySound(g, d, k, o, s)
  BY <1>1 DEF GraphSound, ReplaySound, T
<1> QED
  BY <1>4, <1>5, <1>6 DEF GraphSound

(* The ring of one more step: the old one, or shifted by one. *)
LEMMA TraceOneMore ==
    ASSUME NEW t \in Seq(Nat), NEW step \in Nat, Len(t) <= MaxTrace
    PROVE  LET new == Trimmed(Append(t, step)) IN
           /\ new \in Seq(Nat) /\ Len(new) \in 1 .. MaxTrace /\ new[Len(new)] = step
           /\ \E c \in {0, 1} :
               /\ Len(new) = Len(t) + 1 - c /\ (c = 1 => Len(t) = MaxTrace)
               /\ \A i \in 1 .. Len(new) - 1 : i + c \in 1 .. Len(t) /\ new[i] = t[i + c]
<1> DEFINE all == Append(t, step)
           new == Trimmed(all)
<1>1. MaxTrace \in Nat /\ MaxTrace >= 1 /\ Len(t) \in Nat
  BY GraphDebugAssumption
<1>2. all \in Seq(Nat) /\ Len(all) = Len(t) + 1 /\ all[Len(t) + 1] = step /\ \A i \in 1 .. Len(t) : all[i] = t[i]
  OBVIOUS
<1> HIDE DEF all
<1>3. CASE Len(all) > MaxTrace
  <2>1. Len(t) = MaxTrace /\ Len(all) - MaxTrace + 1 = 2
    BY <1>1, <1>2, <1>3
  <2>2. new = SubSeq(all, 2, Len(t) + 1)
    BY <1>2, <1>3, <2>1 DEF Trimmed
  <2> HIDE DEF new
  <2>3. new \in Seq(Nat) /\ Len(new) = Len(t) /\ \A i \in 1 .. Len(t) : new[i] = all[i + 1]
    BY <1>1, <1>2, <2>1, <2>2
  <2>4. new[Len(new)] = step
    BY <1>1, <1>2, <2>1, <2>3
  <2>5. ASSUME NEW i \in 1 .. Len(new) - 1 PROVE i + 1 \in 1 .. Len(t) /\ new[i] = t[i + 1]
    <3>1. i \in 1 .. Len(t) /\ i + 1 \in 1 .. Len(t)
      BY <1>1, <2>3
    <3> QED
      BY <1>2, <2>3, <3>1
  <2>6. Len(new) = Len(t) + 1 - 1 /\ Len(new) \in 1 .. MaxTrace
    BY <1>1, <2>1, <2>3
  <2> QED
    BY <2>1, <2>3, <2>4, <2>5, <2>6 DEF new, all
<1>4. CASE ~(Len(all) > MaxTrace)
  <2>1. new = all
    BY <1>4 DEF Trimmed
  <2>2. Len(new) = Len(t) + 1 - 0 /\ Len(new) \in 1 .. MaxTrace
    BY <1>1, <1>2, <1>4, <2>1
  <2>3. ASSUME NEW i \in 1 .. Len(new) - 1 PROVE i + 0 \in 1 .. Len(t) /\ new[i] = t[i + 0]
    BY <1>1, <1>2, <2>1
  <2>4. new \in Seq(Nat) /\ new[Len(new)] = step
    BY <1>2, <2>1
  <2> QED
    BY <2>2, <2>3, <2>4 DEF new, all
<1> QED
  BY <1>1, <1>2, <1>3, <1>4

(* Where the ring of n cells that is shifted by c holds what had m cells. *)
LEMMA RingShift ==
    ASSUME NEW m \in Nat, NEW n \in Nat, NEW c \in {0, 1}, n >= 1, n = m + 1 - c
    PROVE  /\ m <= n
           /\ \A i \in 1 .. n : i = n \/ i \in 1 .. n - 1
           /\ \A j \in 1 .. m : j - c \in 1 .. n \/ (c = 1 /\ j = 1 /\ n = m)
OBVIOUS

(* RecordFrame keeps the graph sound. *)
LEMMA GraphStepped ==
    ASSUME NEW g, NEW d \in Debugged, NEW h \in Seq(Happening), NEW o \in Nat, NEW s \in Seq(Nat),
           NEW x \in Happening, o <= Len(h), x.graph = g, ~x.error, GraphSound(g, d, h, o, s)
    PROVE  LET step == Len(h) + 1
               e == [d EXCEPT !.execCount[x.node] = @ + 1, !.latest[x.node] = step,
                              !.trace = Trimmed(Append(@, step))]
           IN  e \in Debugged /\ GraphSound(g, e, Append(h, x), o, s)
<1> DEFINE step == Len(h) + 1
           e == [d EXCEPT !.execCount[x.node] = @ + 1, !.latest[x.node] = step,
                          !.trace = Trimmed(Append(@, step))]
           k == Append(h, x)
           T == StepsAfter(h, o, g)
           t == d.trace
           new == Trimmed(Append(t, step))
<1>1. StepsAfter(k, o, g) = T \cup {step}
  <2>1. x.graph = g /\ ~x.error
    OBVIOUS
  <2>2. StepsAfter(k, o, g) = T \cup (IF x.graph = g /\ ~x.error THEN {Len(h) + 1} ELSE {})
    BY StepsAfterOne
  <2> QED
    BY <2>1, <2>2
<1>2. T \subseteq 1 .. Len(h) /\ Len(h) \in Nat /\ \A n : IsFiniteSet({i \in T : h[i].node = n})
  <2> HIDE DEF e, k, new, step, t
  <2>1. T \subseteq 1 .. Len(h) /\ Len(h) \in Nat
    BY StepsAfterBounds
  <2> HIDE DEF T
  <2>2. ASSUME NEW n PROVE IsFiniteSet({i \in T : h[i].node = n})
    <3>1. IsFiniteSet(1 .. Len(h))
      BY <2>1, FS_Interval
    <3> QED
      BY <2>1, <3>1, FS_Subset
  <2> QED
    BY <2>1, <2>2
<1>3. (\A i \in T : k[i] = h[i]) /\ k[step] = x
  BY <1>2
<1>4. /\ d.breakpoints \in SUBSET GraphNode /\ d.execCount \in [GraphNode -> Nat]
      /\ d.latest \in [GraphNode -> Nat] /\ t \in Seq(Nat) /\ d.cursor \in Nat
  BY DEF Debugged
<1>5. TraceSound(g, d, h, o) /\ NodesSound(g, d, h, o) /\ ReplaySound(g, d, h, o, s)
  BY DEF GraphSound
<1>6. Len(t) <= MaxTrace /\ DOMAIN t = 1 .. Len(t) /\ Len(t) \in Nat
  BY <1>4, <1>5 DEF TraceSound
<1>7. /\ new \in Seq(Nat) /\ Len(new) \in 1 .. MaxTrace /\ new[Len(new)] = step
      /\ \E c \in {0, 1} :
          /\ Len(new) = Len(t) + 1 - c /\ (c = 1 => Len(t) = MaxTrace)
          /\ \A i \in 1 .. Len(new) - 1 : i + c \in 1 .. Len(t) /\ new[i] = t[i + c]
  <2>1. step \in Nat
    BY <1>2
  <2> HIDE DEF step, t
  <2>2. t \in Seq(Nat) /\ Len(t) <= MaxTrace
    BY <1>4, <1>6
  <2> QED
    BY <2>1, <2>2, TraceOneMore, ZenonT(60)
<1>8. DOMAIN new = 1 .. Len(new)
  BY <1>7
<1>9. x.node \in GraphNode
  BY DEF Happening
<1>9a. e = [breakpoints |-> d.breakpoints, execCount |-> [d.execCount EXCEPT ![x.node] = @ + 1],
            latest |-> [d.latest EXCEPT ![x.node] = step], trace |-> new, cursor |-> d.cursor]
  <2>1. d = [breakpoints |-> d.breakpoints, execCount |-> d.execCount, latest |-> d.latest,
             trace |-> d.trace, cursor |-> d.cursor]
    BY DEF Debugged
  <2>2. e = [d EXCEPT !.execCount = [d.execCount EXCEPT ![x.node] = @ + 1],
                      !.latest = [d.latest EXCEPT ![x.node] = step], !.trace = new]
    BY Zenon
  <2> HIDE DEF e, k, T, step, new, t
  <2> QED
    BY <2>1, <2>2
<1>10. /\ e.trace = new /\ e.cursor = d.cursor /\ e.breakpoints = d.breakpoints
       /\ e.execCount = [d.execCount EXCEPT ![x.node] = @ + 1]
       /\ e.latest = [d.latest EXCEPT ![x.node] = step]
       /\ e = [breakpoints |-> e.breakpoints, execCount |-> e.execCount, latest |-> e.latest,
               trace |-> e.trace, cursor |-> e.cursor]
  <2> HIDE DEF e, new, step
  <2> QED
    BY <1>9a
<1>11. step \in Nat /\ step \notin T /\ \A i \in T : i < step /\ i \in Nat
  BY <1>2
<1> HIDE DEF e, k, T, t, new, step
<1>12. e \in Debugged
  <2>1. e.execCount \in [GraphNode -> Nat]
    BY <1>4, <1>9, <1>10
  <2>2. e.latest \in [GraphNode -> Nat]
    BY <1>4, <1>9, <1>10, <1>11
  <2> QED
    BY <1>4, <1>7, <1>10, <2>1, <2>2 DEF Debugged
<1>13. (\A j \in DOMAIN t : t[j] \in T) /\ (\A i, j \in DOMAIN t : i < j => t[i] < t[j])
  BY <1>5 DEF TraceSound, t, T
<1>14. PICK c \in {0, 1} :
           /\ Len(new) = Len(t) + 1 - c /\ (c = 1 => Len(t) = MaxTrace)
           /\ \A i \in 1 .. Len(new) - 1 : i + c \in DOMAIN t /\ new[i] = t[i + c]
  BY <1>6, <1>7
<1>14a. /\ Len(t) <= Len(new)
        /\ \A i \in 1 .. Len(new) : i = Len(new) \/ i \in 1 .. Len(new) - 1
        /\ \A j \in 1 .. Len(t) : j - c \in 1 .. Len(new) \/ (c = 1 /\ j = 1 /\ Len(new) = Len(t))
  <2>1. Len(new) \in Nat /\ Len(new) >= 1
    BY <1>7
  <2>2. Len(new) = Len(t) + 1 - c
    BY <1>14
  <2> QED
    BY <1>6, <2>1, <2>2, RingShift
<1>15. TraceSound(g, e, k, o)
  <2>1. \A j \in 1 .. Len(new) : new[j] \in T \cup {step}
    <3> TAKE j \in 1 .. Len(new)
    <3>1. CASE j = Len(new)
      BY <1>7, <3>1
    <3>2. CASE j # Len(new)
      <4>1. j \in 1 .. Len(new) - 1
        BY <1>14a, <3>2
      <4> QED
        BY <1>13, <1>14, <4>1
    <3> QED
      BY <3>1, <3>2
  <2>2. ASSUME NEW i \in 1 .. Len(new), NEW j \in 1 .. Len(new), i < j PROVE new[i] < new[j]
    <3>1. i \in 1 .. Len(new) - 1
      BY <1>7, <2>2
    <3>2. CASE j = Len(new)
      BY <1>7, <1>11, <1>13, <1>14, <3>1, <3>2
    <3>3. CASE j # Len(new)
      <4>1. j \in 1 .. Len(new) - 1
        BY <1>14a, <3>3
      <4>2. i + c < j + c
        <5>1. i \in Int /\ j \in Int /\ c \in Int
          BY <1>7
        <5> QED
          BY <2>2, <5>1
      <4> QED
        BY <1>13, <1>14, <3>1, <4>1, <4>2
    <3> QED
      BY <3>2, <3>3
  <2>3. ASSUME NEW i \in T \cup {step}
        PROVE  \/ \E j \in 1 .. Len(new) : new[j] = i
               \/ Len(new) = MaxTrace /\ \A j \in 1 .. Len(new) : i < new[j]
    <3>1. CASE i = step
      BY <1>7, <3>1
    <3>2. CASE i \in T /\ \E j \in DOMAIN t : t[j] = i
      <4>1. PICK j \in 1 .. Len(t) : t[j] = i
        BY <1>6, <3>2
      <4>2. CASE j - c \in 1 .. Len(new)
        <5>1. j - c \in 1 .. Len(new) - 1 /\ (j - c) + c = j
          BY <1>6, <1>7, <1>14, <4>1, <4>2
        <5>2. new[j - c] = t[j]
          BY <1>14, <5>1
        <5> QED
          BY <4>1, <4>2, <5>2
      <4>3. CASE j - c \notin 1 .. Len(new)
        <5>1. c = 1 /\ j = 1 /\ Len(new) = MaxTrace
          <6>1. c = 1 /\ j = 1 /\ Len(new) = Len(t)
            BY <1>14a, <4>1, <4>3
          <6> QED
            BY <1>14, <6>1
        <5>2. ASSUME NEW m \in 1 .. Len(new) PROVE i < new[m]
          <6>1. CASE m = Len(new)
            BY <1>7, <1>11, <3>2, <6>1
          <6>2. CASE m # Len(new)
            <7>1. m \in 1 .. Len(new) - 1 /\ 1 < m + c /\ 1 \in DOMAIN t
              BY <1>6, <1>7, <4>1, <5>1, <6>2
            <7> QED
              BY <1>13, <1>14, <4>1, <5>1, <7>1
          <6> QED
            BY <6>1, <6>2
        <5> QED
          BY <5>1, <5>2
      <4> QED
        BY <4>2, <4>3
    <3>3. CASE i \in T /\ Len(t) = MaxTrace /\ \A j \in DOMAIN t : i < t[j]
      <4>1. Len(new) = MaxTrace
        BY <1>6, <1>7, <1>14, <3>3
      <4>2. ASSUME NEW m \in 1 .. Len(new) PROVE i < new[m]
        <5>1. CASE m = Len(new)
          BY <1>7, <1>11, <3>3, <5>1
        <5>2. CASE m # Len(new)
          <6>1. m \in 1 .. Len(new) - 1
            BY <1>14a, <5>2
          <6> QED
            BY <1>14, <3>3, <6>1
        <5> QED
          BY <5>1, <5>2
      <4> QED
        BY <4>1, <4>2
    <3>4. i = step \/ (i \in T /\ \E j \in DOMAIN t : t[j] = i)
          \/ (i \in T /\ Len(t) = MaxTrace /\ \A j \in DOMAIN t : i < t[j])
      BY <1>5 DEF TraceSound, t, T
    <3> QED
      BY <3>1, <3>2, <3>3, <3>4
  <2>4. Len(new) <= MaxTrace
    BY <1>7, GraphDebugAssumption
  <2> QED
    BY <1>1, <1>8, <1>10, <2>1, <2>2, <2>3, <2>4 DEF TraceSound
<1>16. NodesSound(g, e, k, o)
  <2> SUFFICES ASSUME NEW n \in GraphNode
               PROVE  /\ e.execCount[n] = Cardinality({i \in T \cup {step} : k[i].node = n})
                      /\ e.latest[n] # 0 => e.latest[n] \in T \cup {step} /\ k[e.latest[n]].node = n
    BY <1>1 DEF NodesSound
  <2> DEFINE P == {i \in T : h[i].node = n}
  <2>1. d.execCount[n] = Cardinality(P) /\ (d.latest[n] # 0 => d.latest[n] \in T /\ h[d.latest[n]].node = n)
    BY <1>5 DEF NodesSound, T
  <2>2. CASE n = x.node
    <3>1. {i \in T \cup {step} : k[i].node = n} = P \cup {step}
      BY <1>3, <2>2
    <3>2. Cardinality(P \cup {step}) = Cardinality(P) + 1
      <4>1. step \notin P /\ IsFiniteSet(P)
        BY <1>2, <1>11
      <4> HIDE DEF P
      <4> QED
        BY <4>1, FS_AddElement
    <3>3. e.execCount[n] = d.execCount[n] + 1 /\ e.latest[n] = step
      BY <1>4, <1>9, <1>10, <2>2
    <3> QED
      BY <1>3, <2>1, <2>2, <3>1, <3>2, <3>3
  <2>3. CASE n # x.node
    <3>1. {i \in T \cup {step} : k[i].node = n} = P
      BY <1>3, <1>11, <2>3
    <3>2. e.execCount[n] = d.execCount[n] /\ e.latest[n] = d.latest[n]
      BY <1>4, <1>9, <1>10, <2>3
    <3> QED
      BY <1>3, <2>1, <3>1, <3>2
  <2> QED
    BY <2>2, <2>3
<1>17. ReplaySound(g, e, k, o, s)
  <2>1. /\ d.cursor <= Len(t) /\ \A i \in DOMAIN s : s[i] \in T \cup {0}
        /\ \A i, j \in DOMAIN s : i < j /\ s[j] # 0 => s[i] < s[j]
        /\ \A i \in DOMAIN s, j \in DOMAIN t : j > d.cursor => s[i] < t[j]
    BY <1>5 DEF ReplaySound, t, T
  <2>2. e.cursor <= Len(new)
    <3>1. d.cursor <= Len(t) /\ Len(t) <= Len(new) /\ d.cursor \in Nat /\ Len(t) \in Nat /\ Len(new) \in Nat
      BY <1>4, <1>6, <1>7, <1>14a, <2>1
    <3> QED
      BY <1>10, <3>1
  <2>3. ASSUME NEW i \in DOMAIN s, NEW j \in DOMAIN new, j > e.cursor PROVE s[i] < new[j]
    <3>1. CASE j = Len(new)
      <4>1. s[i] < step
        BY <1>11, <2>1, GraphDebugAssumption, <1>2 DEF step
      <4> QED
        BY <1>7, <3>1, <4>1
    <3>2. CASE j # Len(new)
      <4>1. j \in 1 .. Len(new) - 1
        BY <1>8, <1>14a, <3>2
      <4>2. j + c \in DOMAIN t /\ new[j] = t[j + c]
        BY <1>14, <4>1
      <4>3. j + c > d.cursor
        BY <1>4, <1>10, <2>3, <4>1
      <4> QED
        BY <2>1, <4>2, <4>3
    <3> QED
      BY <3>1, <3>2
  <2> QED
    BY <1>1, <1>10, <2>1, <2>2, <2>3 DEF ReplaySound
<1>18. e \in Debugged /\ GraphSound(g, e, k, o, s)
  BY <1>12, <1>15, <1>16, <1>17 DEF GraphSound
<1> QED
  BY <1>18 DEF e, k, step
(* A graph that is opened has no step yet. *)
LEMMA GraphOpened ==
    ASSUME NEW g, NEW h \in Seq(Happening)
    PROVE  NewGraphDebug \in Debugged /\ GraphSound(g, NewGraphDebug, h, Len(h), <<>>)
<1> DEFINE d == NewGraphDebug
<1>1. /\ d.trace = <<>> /\ d.cursor = 0 /\ Len(<<>>) = 0 /\ DOMAIN <<>> = {}
      /\ \A n \in GraphNode : d.execCount[n] = 0 /\ d.latest[n] = 0
  BY DEF NewGraphDebug
<1>2. d \in Debugged
  BY DEF NewGraphDebug, Debugged
<1>3. StepsAfter(h, Len(h), g) = {}
  BY DEF StepsAfter
<1>4. 0 <= MaxTrace
  BY GraphDebugAssumption
<1> HIDE DEF d
<1>5. TraceSound(g, d, h, Len(h))
  BY <1>1, <1>3, <1>4 DEF TraceSound
<1>6. NodesSound(g, d, h, Len(h))
  <2> SUFFICES ASSUME NEW n \in GraphNode
               PROVE  d.execCount[n] = Cardinality({i \in StepsAfter(h, Len(h), g) : h[i].node = n})
    BY <1>1 DEF NodesSound
  <2>1. {i \in StepsAfter(h, Len(h), g) : h[i].node = n} = {}
    BY <1>3
  <2> QED
    BY <1>1, <2>1, FS_EmptySet
<1>7. ReplaySound(g, d, h, Len(h), <<>>)
  BY <1>1, <1>3 DEF ReplaySound
<1> QED
  BY <1>2, <1>5, <1>6, <1>7 DEF GraphSound, d

(* Breakpoints are nothing to the trace. *)
LEMMA GraphToggled ==
    ASSUME NEW g, NEW d \in Debugged, NEW h \in Seq(Happening), NEW o \in Nat, NEW s \in Seq(Nat),
           NEW b \in SUBSET GraphNode, GraphSound(g, d, h, o, s)
    PROVE  LET e == [d EXCEPT !.breakpoints = b] IN e \in Debugged /\ GraphSound(g, e, h, o, s)
<1> DEFINE e == [d EXCEPT !.breakpoints = b]
<1>1. e \in Debugged /\ e.trace = d.trace /\ e.cursor = d.cursor /\ e.execCount = d.execCount /\ e.latest = d.latest
  BY DEF Debugged
<1> HIDE DEF e
<1>2. GraphSound(g, e, h, o, s)
  BY <1>1 DEF GraphSound, TraceSound, NodesSound, ReplaySound
<1> QED
  BY <1>1, <1>2 DEF e

(* StepNext shows the step under the cursor, or none. *)
LEMMA GraphShown ==
    ASSUME NEW g, NEW d \in Debugged, NEW h \in Seq(Happening), NEW o \in Nat, NEW s \in Seq(Nat),
           GraphSound(g, d, h, o, s)
    PROVE  IF d.cursor >= Len(d.trace)
           THEN GraphSound(g, d, h, o, Append(s, 0))
           ELSE LET e == [d EXCEPT !.cursor = @ + 1]
                    shown == d.trace[d.cursor + 1]
                IN  shown \in Nat /\ e \in Debugged /\ GraphSound(g, e, h, o, Append(s, shown))
<1>1. d.trace \in Seq(Nat) /\ d.cursor \in Nat /\ DOMAIN d.trace = 1 .. Len(d.trace) /\ Len(d.trace) \in Nat
  BY DEF Debugged
<1>2. TraceSound(g, d, h, o) /\ NodesSound(g, d, h, o) /\ ReplaySound(g, d, h, o, s)
  BY DEF GraphSound
<1>3. /\ d.cursor <= Len(d.trace) /\ \A i \in DOMAIN s : s[i] \in StepsAfter(h, o, g) \cup {0}
      /\ \A i, j \in DOMAIN s : i < j /\ s[j] # 0 => s[i] < s[j]
      /\ \A i \in DOMAIN s, k \in DOMAIN d.trace : k > d.cursor => s[i] < d.trace[k]
  BY <1>2 DEF ReplaySound
<1>4. ASSUME NEW x \in Nat
      PROVE  LET z == Append(s, x) IN
             DOMAIN z = 1 .. Len(s) + 1 /\ DOMAIN s = 1 .. Len(s) /\ Len(s) \in Nat /\ z[Len(s) + 1] = x
             /\ \A i \in 1 .. Len(s) : z[i] = s[i]
  OBVIOUS
<1>5. CASE d.cursor >= Len(d.trace)
  <2> DEFINE z == Append(s, 0)
  <2>1. DOMAIN z = 1 .. Len(s) + 1 /\ DOMAIN s = 1 .. Len(s) /\ Len(s) \in Nat /\ z[Len(s) + 1] = 0
        /\ \A i \in 1 .. Len(s) : z[i] = s[i]
    BY <1>4
  <2> HIDE DEF z
  <2>1a. \A i \in DOMAIN z : i = Len(s) + 1 \/ i \in 1 .. Len(s)
    BY <2>1
  <2>2. \A i \in DOMAIN z : z[i] \in StepsAfter(h, o, g) \cup {0}
    BY <1>3, <2>1, <2>1a
  <2>3. \A i, j \in DOMAIN z : i < j /\ z[j] # 0 => z[i] < z[j]
    <3> SUFFICES ASSUME NEW i \in DOMAIN z, NEW j \in DOMAIN z, i < j, z[j] # 0 PROVE z[i] < z[j]
      OBVIOUS
    <3>1. j \in 1 .. Len(s)
      BY <2>1, <2>1a
    <3>2. i \in 1 .. Len(s)
      BY <2>1, <2>1a, <3>1
    <3> QED
      BY <1>3, <2>1, <3>1, <3>2
  <2>4. \A k \in DOMAIN d.trace : ~(k > d.cursor)
    BY <1>1, <1>5
  <2>5. GraphSound(g, d, h, o, z)
    BY <1>2, <1>3, <2>2, <2>3, <2>4 DEF GraphSound, ReplaySound
  <2> QED
    BY <1>5, <2>5 DEF z
<1>6. CASE ~(d.cursor >= Len(d.trace))
  <2> DEFINE e == [d EXCEPT !.cursor = @ + 1]
             c == d.cursor + 1
             shown == d.trace[c]
             z == Append(s, shown)
  <2>1. e \in Debugged /\ e.trace = d.trace /\ e.cursor = c /\ e.execCount = d.execCount /\ e.latest = d.latest
    <3>1. c \in Nat /\ e = [d EXCEPT !.cursor = c]
      BY <1>1
    <3> HIDE DEF c, z, shown, e
    <3> QED
      BY <3>1 DEF Debugged
  <2>2. c \in DOMAIN d.trace /\ c > d.cursor /\ c \in Nat
    BY <1>1, <1>6
  <2>3. /\ \A i, j \in DOMAIN d.trace : i < j => d.trace[i] < d.trace[j]
        /\ shown \in StepsAfter(h, o, g) /\ shown \in Nat
    <3>1. \A i, j \in DOMAIN d.trace : i < j => d.trace[i] < d.trace[j]
      BY <1>2 DEF TraceSound
    <3>2. shown \in StepsAfter(h, o, g)
      BY <1>2, <2>2 DEF TraceSound
    <3>3. shown \in Nat
      <4> HIDE DEF e, z, c
      <4> QED
        BY <1>1, <2>2
    <3> QED
      BY <3>1, <3>2, <3>3
  <2>4. DOMAIN z = 1 .. Len(s) + 1 /\ DOMAIN s = 1 .. Len(s) /\ Len(s) \in Nat /\ z[Len(s) + 1] = shown
        /\ \A i \in 1 .. Len(s) : z[i] = s[i]
    BY <1>4, <2>3
  <2>5. \A i \in 1 .. Len(s) : s[i] < shown
    BY <1>3, <2>2, <2>4
  <2> HIDE DEF z, e, c, shown
  <2>6. \A i \in DOMAIN z : z[i] \in StepsAfter(h, o, g) \cup {0}
    BY <1>3, <2>3, <2>4
  <2>7. \A i, j \in DOMAIN z : i < j /\ z[j] # 0 => z[i] < z[j]
    BY <1>3, <2>4, <2>5
  <2>8. ASSUME NEW i \in DOMAIN z, NEW k \in DOMAIN d.trace, k > c PROVE z[i] < d.trace[k]
    <3>1. k > d.cursor /\ c < k
      BY <1>1, <2>2, <2>8
    <3>2. CASE i = Len(s) + 1
      BY <2>2, <2>3, <2>4, <3>1, <3>2 DEF shown
    <3>3. CASE i # Len(s) + 1
      <4>1. i \in DOMAIN s
        BY <2>4, <3>3
      <4> QED
        BY <1>3, <2>4, <3>1, <4>1
    <3> QED
      BY <3>2, <3>3
  <2>9. c <= Len(d.trace)
    BY <1>1, <2>2
  <2>10. ReplaySound(g, e, h, o, z)
    BY <2>1, <2>6, <2>7, <2>8, <2>9 DEF ReplaySound
  <2>11. TraceSound(g, e, h, o) /\ NodesSound(g, e, h, o)
    BY <1>2, <2>1 DEF TraceSound, NodesSound
  <2>12. shown \in Nat /\ e \in Debugged /\ GraphSound(g, e, h, o, z)
    BY <2>1, <2>3, <2>10, <2>11 DEF GraphSound
  <2> QED
    BY <1>6, <2>12 DEF z, e, c, shown
<1> QED
  BY <1>5, <1>6

(* ResetCursor forgets what was shown. *)
LEMMA GraphReset ==
    ASSUME NEW g, NEW d \in Debugged, NEW h \in Seq(Happening), NEW o \in Nat, NEW s \in Seq(Nat),
           GraphSound(g, d, h, o, s)
    PROVE  LET e == [d EXCEPT !.cursor = 0] IN e \in Debugged /\ GraphSound(g, e, h, o, <<>>)
<1> DEFINE e == [d EXCEPT !.cursor = 0]
<1>1. e \in Debugged /\ e.trace = d.trace /\ e.cursor = 0 /\ e.execCount = d.execCount /\ e.latest = d.latest
  BY DEF Debugged
<1>2. 0 <= Len(d.trace) /\ DOMAIN <<>> = {}
  BY DEF Debugged
<1> HIDE DEF e
<1>3. GraphSound(g, e, h, o, <<>>)
  <2>1. TraceSound(g, e, h, o) /\ NodesSound(g, e, h, o)
    BY <1>1 DEF GraphSound, TraceSound, NodesSound
  <2>2. ReplaySound(g, e, h, o, <<>>)
    BY <1>1, <1>2 DEF ReplaySound
  <2> QED
    BY <2>1, <2>2 DEF GraphSound
<1> QED
  BY <1>1, <1>3 DEF e

-----------------------------------------------------------------------------
(* The message v of the i-th event of h. *)
MessageOf(v, h, i) ==
    /\ v.graph = h[i].graph /\ v.node = h[i].node
    /\ v.kind = (IF h[i].error THEN "error" ELSE IF h[i].hit THEN "hit" ELSE "step")
    /\ IF h[i].error
       THEN v.frame # 0 => /\ v.frame < i /\ ~h[v.frame].error
                           /\ h[v.frame].node = h[i].node /\ h[v.frame].graph = h[i].graph
       ELSE v.frame = i

HeardAll(h, m) ==
    /\ Len(m) = Told(h, Len(h))
    /\ \A i \in DOMAIN h : h[i].open => MessageOf(m[Told(h, i)], h, i)

LEMMA EditorHears == EditorHearsAll <=> HeardAll(happened, messages \o queued)
BY DEF EditorHearsAll, HeardAll, MessageOf

(* What happens is told if the graph is open, and then only. *)
LEMMA HeardMore ==
    ASSUME NEW h \in Seq(Happening), NEW m \in Seq(TraceEvent), NEW x \in Happening, NEW n \in Seq(TraceEvent),
           HeardAll(h, m),
           IF x.open THEN \E v \in TraceEvent : n = Append(m, v) /\ MessageOf(v, Append(h, x), Len(h) + 1)
           ELSE n = m
    PROVE  HeardAll(Append(h, x), n)
<1> DEFINE k == Append(h, x)
           l == Len(h)
<1>1. l \in Nat /\ DOMAIN h = 1 .. l /\ Len(k) = l + 1 /\ DOMAIN k = 1 .. l + 1 /\ k[l + 1] = x
      /\ \A i \in 1 .. l : k[i] = h[i]
  OBVIOUS
<1>2. \A i \in 1 .. l : h[i] \in Happening
  OBVIOUS
<1> HIDE DEF k
<1>3. Told(k, l) \in Nat /\ Told(k, l + 1) = IF x.open THEN Told(k, l) + 1 ELSE Told(k, l)
  <2>1. \A j \in 1 .. l + 1 : k[j].open \in BOOLEAN
    BY <1>1, <1>2 DEF Happening
  <2> QED
    BY <1>1, <2>1, ToldGrows
<1>4. \A i \in 1 .. l : Told(k, i) = Told(h, i)
  <2> TAKE i \in 1 .. l
  <2>1. i \in Nat /\ \A j \in 1 .. i : k[j] = h[j]
    BY <1>1
  <2> QED
    BY <2>1, ToldAlike
<1>5. Told(k, l) = Told(h, l)
  BY <1>1, ToldAlike
<1>6. Len(m) = Told(k, l) /\ Len(m) \in Nat
  BY <1>5 DEF HeardAll
<1>7. Len(n) = Told(k, l + 1) /\ \A j \in 1 .. Len(m) : n[j] = m[j]
  <2>1. CASE x.open
    <3>1. PICK v \in TraceEvent : n = Append(m, v)
      BY <2>1
    <3>2. Len(n) = Len(m) + 1 /\ \A j \in 1 .. Len(m) : n[j] = m[j]
      BY <1>6, <3>1
    <3> QED
      BY <1>3, <1>6, <2>1, <3>2
  <2>2. CASE ~x.open
    BY <1>3, <1>6, <2>2
  <2> QED
    BY <2>1, <2>2
<1>8. ASSUME NEW i \in 1 .. l, h[i].open PROVE MessageOf(n[Told(k, i)], k, i)
  <2> DEFINE v == m[Told(h, i)]
  <2>1. MessageOf(v, h, i)
    BY <1>1, <1>8 DEF HeardAll
  <2>2. Told(h, i) \in 1 .. Len(m)
    BY <1>1, <1>5, <1>6, <1>8, ToldPlace
  <2>3. v = n[Told(k, i)] /\ v \in TraceEvent
    BY <1>4, <1>7, <2>2
  <2>4. v.frame \in Nat /\ i \in Nat /\ i <= l
    BY <1>1, <2>3 DEF TraceEvent
  <2> HIDE DEF v
  <2>5. v.frame # 0 /\ v.frame < i => k[v.frame] = h[v.frame]
    BY <1>1, <2>4
  <2>6. k[i] = h[i]
    BY <1>1
  <2>7. MessageOf(v, k, i)
    BY <2>1, <2>5, <2>6 DEF MessageOf
  <2> QED
    BY <2>3, <2>7
<1>9. ASSUME x.open PROVE MessageOf(n[Told(k, l + 1)], k, l + 1)
  <2>1. PICK v \in TraceEvent : n = Append(m, v) /\ MessageOf(v, k, l + 1)
    BY <1>9 DEF k
  <2>2. n[Told(k, l + 1)] = v
    BY <1>3, <1>6, <1>9, <2>1
  <2> QED
    BY <2>1, <2>2
<1>10. ASSUME NEW i \in DOMAIN k, k[i].open PROVE MessageOf(n[Told(k, i)], k, i)
  <2>1. CASE i = l + 1
    BY <1>1, <1>9, <1>10, <2>1
  <2>2. CASE i # l + 1
    <3>1. i \in 1 .. l
      BY <1>1, <2>2
    <3> QED
      BY <1>1, <1>8, <1>10, <3>1
  <2> QED
    BY <2>1, <2>2
<1> QED
  BY <1>1, <1>7, <1>10 DEF HeardAll, k

-----------------------------------------------------------------------------
LEMMA DebugInitial == DebugInit => DebugInv
<1> SUFFICES ASSUME DebugInit PROVE DebugInv
  OBVIOUS
<1>1. /\ debugged = << >> /\ queued = <<>> /\ messages = <<>> /\ happened = <<>>
      /\ opened = [g \in GraphID |-> 0] /\ stepped = [g \in GraphID |-> <<>>]
  BY DEF DebugInit
<1>2. DOMAIN debugged = {} /\ debugged \in [DOMAIN debugged -> Debugged]
  BY <1>1
<1>3. DebugShape
  BY <1>1, <1>2 DEF DebugShape
<1>4. HeardAll(happened, messages \o queued)
  <2>1. happened = <<>> /\ messages \o queued = <<>> /\ Len(<<>>) = 0 /\ DOMAIN <<>> = {}
    BY <1>1
  <2>2. Told(<<>>, 0) = 0
    <3>1. {j \in 1 .. 0 : <<>>[j].open} = {}
      OBVIOUS
    <3> QED
      BY <3>1, FS_EmptySet DEF Told
  <2> QED
    BY <2>1, <2>2 DEF HeardAll
<1> QED
  BY <1>2, <1>3, <1>4, EditorHears DEF DebugInv

LEMMA DebugInductive == DebugInv /\ [DebugNext]_debugVars => DebugInv'
<1> SUFFICES ASSUME DebugInv, [DebugNext]_debugVars PROVE DebugInv'
  OBVIOUS
<1>1. /\ happened \in Seq(Happening) /\ messages \in Seq(TraceEvent) /\ queued \in Seq(TraceEvent)
      /\ DOMAIN debugged \subseteq GraphID /\ debugged \in [DOMAIN debugged -> Debugged]
      /\ opened \in [GraphID -> Nat] /\ stepped \in [GraphID -> Seq(Nat)]
  BY DEF DebugInv, DebugShape
<1>2. HeardAll(happened, messages \o queued)
  BY EditorHears DEF DebugInv
<1>3. \A g \in DOMAIN debugged :
        opened[g] <= Len(happened) /\ GraphSound(g, debugged[g], happened, opened[g], stepped[g])
  BY DEF DebugInv
<1>4. ASSUME DebugShape', HeardAll(happened', messages' \o queued'),
             \A g \in DOMAIN debugged' :
                 opened'[g] <= Len(happened')
                 /\ GraphSound(g, debugged'[g], happened', opened'[g], stepped'[g])
      PROVE  DebugInv'
  <2>1. EditorHearsAll'
    BY <1>4 DEF EditorHearsAll, HeardAll, MessageOf
  <2> QED
    BY <1>4, <2>1 DEF DebugInv
<1>5. ASSUME NEW g \in GraphID, Open(g) PROVE DebugInv'
  <2>1. /\ debugged' = [h \in DOMAIN debugged \cup {g} |-> IF h \in DOMAIN debugged THEN debugged[h] ELSE NewGraphDebug]
        /\ stepped' = [stepped EXCEPT ![g] = IF IsOpen(g) THEN @ ELSE <<>>]
        /\ opened' = [opened EXCEPT ![g] = IF IsOpen(g) THEN @ ELSE Len(happened)]
        /\ queued' = queued /\ messages' = messages /\ happened' = happened
    BY <1>5 DEF Open
  <2>2. NewGraphDebug \in Debugged /\ GraphSound(g, NewGraphDebug, happened, Len(happened), <<>>)
    BY <1>1, GraphOpened
  <2>3. DOMAIN debugged' = DOMAIN debugged \cup {g} /\ debugged' \in [DOMAIN debugged' -> Debugged]
    BY <1>1, <2>1, <2>2
  <2>4. opened' \in [GraphID -> Nat] /\ stepped' \in [GraphID -> Seq(Nat)]
    <3>1. Len(happened) \in Nat /\ <<>> \in Seq(Nat)
      BY <1>1
    <3> QED
      BY <1>1, <2>1, <3>1
  <2>5. DebugShape'
    BY <1>1, <2>1, <2>3, <2>4 DEF DebugShape
  <2>6. ASSUME NEW f \in DOMAIN debugged'
        PROVE  opened'[f] <= Len(happened) /\ GraphSound(f, debugged'[f], happened, opened'[f], stepped'[f])
    <3>1. CASE f \in DOMAIN debugged
      <4>1. debugged'[f] = debugged[f] /\ opened'[f] = opened[f] /\ stepped'[f] = stepped[f]
        BY <1>1, <2>1, <3>1 DEF IsOpen
      <4> QED
        BY <1>3, <3>1, <4>1
    <3>2. CASE f \notin DOMAIN debugged
      <4>1. f = g /\ debugged'[f] = NewGraphDebug /\ opened'[f] = Len(happened) /\ stepped'[f] = <<>>
        BY <1>1, <2>1, <2>3, <3>2 DEF IsOpen
      <4>2. Len(happened) <= Len(happened)
        BY <1>1
      <4> QED
        BY <2>2, <4>1, <4>2
    <3> QED
      BY <3>1, <3>2
  <2> QED
    BY <1>2, <1>4, <2>1, <2>5, <2>6
<1>6. ASSUME NEW g \in GraphID, CloseGraph(g) PROVE DebugInv'
  <2>1. /\ debugged' = [h \in DOMAIN debugged \ {g} |-> debugged[h]]
        /\ queued' = queued /\ messages' = messages /\ happened' = happened
        /\ opened' = opened /\ stepped' = stepped
    BY <1>6 DEF CloseGraph
  <2>2. DOMAIN debugged' = DOMAIN debugged \ {g} /\ debugged' \in [DOMAIN debugged' -> Debugged]
        /\ \A f \in DOMAIN debugged' : debugged'[f] = debugged[f] /\ f \in DOMAIN debugged
    BY <1>1, <2>1
  <2>3. DebugShape'
    BY <1>1, <2>1, <2>2 DEF DebugShape
  <2> QED
    BY <1>2, <1>3, <1>4, <2>1, <2>2, <2>3
<1>7. ASSUME NEW g \in GraphID, NEW e \in Debugged, g \in DOMAIN debugged, NEW s \in Seq(Nat),
             debugged' = [debugged EXCEPT ![g] = e], stepped' = [stepped EXCEPT ![g] = s],
             GraphSound(g, e, happened, opened[g], s),
             queued' = queued, messages' = messages, happened' = happened, opened' = opened
      PROVE  DebugInv'
  <2>1. DOMAIN debugged' = DOMAIN debugged /\ debugged' \in [DOMAIN debugged' -> Debugged]
        /\ stepped' \in [GraphID -> Seq(Nat)]
    BY <1>1, <1>7
  <2>2. DebugShape'
    BY <1>1, <1>7, <2>1 DEF DebugShape
  <2>3. ASSUME NEW f \in DOMAIN debugged'
        PROVE  opened'[f] <= Len(happened') /\ GraphSound(f, debugged'[f], happened', opened'[f], stepped'[f])
    <3>1. CASE f = g
      <4>1. debugged'[f] = e /\ stepped'[f] = s
        BY <1>1, <1>7, <3>1
      <4> QED
        BY <1>3, <1>7, <3>1, <4>1
    <3>2. CASE f # g
      <4>1. debugged'[f] = debugged[f] /\ stepped'[f] = stepped[f] /\ f \in DOMAIN debugged
        BY <1>1, <1>7, <2>1, <3>2
      <4> QED
        BY <1>3, <1>7, <4>1
    <3> QED
      BY <3>1, <3>2
  <2> QED
    BY <1>2, <1>4, <1>7, <2>2, <2>3
<1>8. ASSUME NEW g \in GraphID, NEW n \in GraphNode, ToggleBreakpoint(g, n) PROVE DebugInv'
  <2> DEFINE d == debugged[g]
             b == IF n \in d.breakpoints THEN d.breakpoints \ {n} ELSE d.breakpoints \cup {n}
             e == [d EXCEPT !.breakpoints = b]
  <2>1. g \in DOMAIN debugged /\ d \in Debugged
    BY <1>1, <1>8 DEF ToggleBreakpoint, IsOpen
  <2>2. b \in SUBSET GraphNode
    BY <2>1 DEF Debugged
  <2>3. GraphSound(g, d, happened, opened[g], stepped[g])
    BY <1>3, <2>1
  <2>4. e \in Debugged /\ GraphSound(g, e, happened, opened[g], stepped[g])
    <3> HIDE DEF b, d
    <3> QED
      BY <1>1, <2>1, <2>2, <2>3, GraphToggled
  <2>5. debugged' = [debugged EXCEPT ![g] = e] /\ stepped' = [stepped EXCEPT ![g] = stepped[g]]
    BY <1>1, <1>8 DEF ToggleBreakpoint
  <2>6. queued' = queued /\ messages' = messages /\ happened' = happened /\ opened' = opened
    BY <1>8 DEF ToggleBreakpoint
  <2> QED
    BY <1>1, <1>7, <2>1, <2>4, <2>5, <2>6
<1>9. ASSUME NEW g \in GraphID, StepNext(g) PROVE DebugInv'
  <2> DEFINE d == debugged[g]
             c == d.cursor + 1
             shown == d.trace[c]
             e == [d EXCEPT !.cursor = c]
  <2>1. g \in DOMAIN debugged /\ d \in Debugged /\ opened[g] \in Nat /\ stepped[g] \in Seq(Nat)
    BY <1>1, <1>9 DEF StepNext, IsOpen
  <2>2. GraphSound(g, d, happened, opened[g], stepped[g])
    BY <1>3, <2>1
  <2>3. queued' = queued /\ messages' = messages /\ happened' = happened /\ opened' = opened
    BY <1>9 DEF StepNext
  <2>4. IF d.cursor >= Len(d.trace)
        THEN GraphSound(g, d, happened, opened[g], Append(stepped[g], 0))
        ELSE shown \in Nat /\ e \in Debugged /\ GraphSound(g, e, happened, opened[g], Append(stepped[g], shown))
    BY <1>1, <2>1, <2>2, GraphShown
  <2>5. CASE d.cursor >= Len(d.trace)
    <3>1. stepped' = [stepped EXCEPT ![g] = Append(stepped[g], 0)] /\ debugged' = [debugged EXCEPT ![g] = d]
      BY <1>1, <1>9, <2>5 DEF StepNext
    <3>2. Append(stepped[g], 0) \in Seq(Nat)
      BY <2>1
    <3> QED
      BY <1>7, <2>1, <2>3, <2>4, <2>5, <3>1, <3>2
  <2>6. CASE ~(d.cursor >= Len(d.trace))
    <3>1. stepped' = [stepped EXCEPT ![g] = Append(stepped[g], shown)] /\ debugged' = [debugged EXCEPT ![g] = e]
      BY <1>9, <2>6 DEF StepNext
    <3>2. Append(stepped[g], shown) \in Seq(Nat)
      BY <2>1, <2>4, <2>6
    <3> QED
      BY <1>7, <2>1, <2>3, <2>4, <2>6, <3>1, <3>2
  <2> QED
    BY <2>5, <2>6
<1>10. ASSUME NEW g \in GraphID, ResetCursor(g) PROVE DebugInv'
  <2> DEFINE d == debugged[g]
             e == [d EXCEPT !.cursor = 0]
  <2>1. g \in DOMAIN debugged /\ d \in Debugged /\ opened[g] \in Nat /\ stepped[g] \in Seq(Nat)
    BY <1>1, <1>10 DEF ResetCursor, IsOpen
  <2>2. GraphSound(g, d, happened, opened[g], stepped[g])
    BY <1>3, <2>1
  <2>3. e \in Debugged /\ GraphSound(g, e, happened, opened[g], <<>>)
    BY <1>1, <2>1, <2>2, GraphReset
  <2>4. debugged' = [debugged EXCEPT ![g] = e] /\ stepped' = [stepped EXCEPT ![g] = <<>>]
        /\ queued' = queued /\ messages' = messages /\ happened' = happened /\ opened' = opened
    BY <1>10 DEF ResetCursor
  <2>5. <<>> \in Seq(Nat)
    OBVIOUS
  <2> QED
    BY <1>7, <2>1, <2>3, <2>4, <2>5
<1>11. ASSUME NEW x \in Happening, NEW m \in Seq(TraceEvent), happened' = Append(happened, x), queued' = m,
              messages' = messages, opened' = opened, stepped' = stepped,
              DOMAIN debugged' = DOMAIN debugged, debugged' \in [DOMAIN debugged' -> Debugged],
              x.open <=> x.graph \in DOMAIN debugged,
              \A f \in DOMAIN debugged : f # x.graph \/ x.error => debugged'[f] = debugged[f],
              x.graph \in DOMAIN debugged /\ ~x.error =>
                  GraphSound(x.graph, debugged'[x.graph], Append(happened, x), opened[x.graph], stepped[x.graph]),
              IF x.open
              THEN \E v \in TraceEvent : m = Append(queued, v) /\ MessageOf(v, Append(happened, x), Len(happened) + 1)
              ELSE m = queued
       PROVE  DebugInv'
  <2>1. happened' \in Seq(Happening) /\ Len(happened) \in Nat /\ Len(happened') = Len(happened) + 1
    BY <1>1, <1>11
  <2>2. DebugShape'
    BY <1>1, <1>11, <2>1 DEF DebugShape
  <2>3. HeardAll(happened', messages' \o queued')
    <3> DEFINE old == messages \o queued
               new == messages \o m
    <3>1. old \in Seq(TraceEvent) /\ new \in Seq(TraceEvent)
      BY <1>1
    <3>2. \A v : m = Append(queued, v) => new = Append(old, v)
      BY <1>1
    <3>3. IF x.open
          THEN \E v \in TraceEvent : new = Append(old, v) /\ MessageOf(v, Append(happened, x), Len(happened) + 1)
          ELSE new = old
      BY <1>11, <3>2
    <3>4. HeardAll(happened, old)
      BY <1>2
    <3> HIDE DEF old, new
    <3>5. HeardAll(Append(happened, x), new)
      BY <1>1, <3>1, <3>3, <3>4, HeardMore
    <3> QED
      BY <1>11, <3>5 DEF new
  <2>4. ASSUME NEW f \in DOMAIN debugged'
        PROVE  opened'[f] <= Len(happened') /\ GraphSound(f, debugged'[f], happened', opened'[f], stepped'[f])
    <3>1. /\ f \in DOMAIN debugged /\ opened[f] \in Nat /\ opened[f] <= Len(happened)
          /\ GraphSound(f, debugged[f], happened, opened[f], stepped[f])
          /\ debugged[f] \in Debugged /\ stepped[f] \in Seq(Nat)
      BY <1>1, <1>3, <1>11
    <3>2. opened'[f] <= Len(happened')
      BY <1>11, <2>1, <3>1
    <3>3. CASE f # x.graph \/ x.error
      <4>1. GraphSound(f, debugged[f], Append(happened, x), opened[f], stepped[f])
        BY <1>1, <3>1, <3>3, GraphElsewhere
      <4> QED
        BY <1>11, <3>1, <3>2, <3>3, <4>1
    <3>4. CASE f = x.graph /\ ~x.error
      BY <1>11, <3>1, <3>2, <3>4
    <3> QED
      BY <3>3, <3>4
  <2> QED
    BY <1>4, <2>2, <2>3, <2>4
<1>12. ASSUME NEW g \in GraphID, NEW n \in GraphNode, RecordFrame(g, n) PROVE DebugInv'
  <2> DEFINE step == Len(happened) + 1
             hit == IsOpen(g) /\ n \in debugged[g].breakpoints
             x == [graph |-> g, node |-> n, error |-> FALSE, hit |-> hit, open |-> IsOpen(g)]
             v == [kind |-> IF hit THEN "hit" ELSE "step", graph |-> g, node |-> n, frame |-> step]
             d == debugged[g]
             e == [d EXCEPT !.execCount[n] = @ + 1, !.latest[n] = step, !.trace = Trimmed(Append(@, step))]
  <2>1. happened' = Append(happened, x) /\ messages' = messages /\ opened' = opened /\ stepped' = stepped
    BY <1>12 DEF RecordFrame
  <2>2. hit \in BOOLEAN /\ IsOpen(g) \in BOOLEAN
    BY DEF IsOpen
  <2>3. x \in Happening /\ x.graph = g /\ x.node = n /\ x.error = FALSE /\ x.hit = hit /\ x.open = IsOpen(g)
    <3> HIDE DEF hit
    <3> QED
      BY <2>2 DEF Happening
  <2>4. step \in Nat
    BY <1>1
  <2>5. v \in TraceEvent /\ v.graph = g /\ v.node = n /\ v.kind = (IF hit THEN "hit" ELSE "step") /\ v.frame = step
    <3> HIDE DEF hit, step
    <3> QED
      BY <2>4 DEF TraceEvent
  <2>6. Append(happened, x)[step] = x
    BY <1>1, <2>3
  <2>7. MessageOf(v, Append(happened, x), step)
    <3> HIDE DEF hit, step, x, v
    <3> QED
      BY <2>3, <2>5, <2>6 DEF MessageOf
  <2>8. CASE IsOpen(g)
    <3>1. debugged' = [debugged EXCEPT ![g] = e] /\ queued' = Append(queued, v)
      BY <1>12, <2>8 DEF RecordFrame
    <3>2. g \in DOMAIN debugged /\ d \in Debugged
      BY <1>1, <2>8 DEF IsOpen
    <3>3. e \in Debugged /\ GraphSound(g, e, Append(happened, x), opened[g], stepped[g])
      <4>1. opened[g] \in Nat /\ stepped[g] \in Seq(Nat) /\ opened[g] <= Len(happened)
            /\ GraphSound(g, d, happened, opened[g], stepped[g])
        BY <1>1, <1>3, <3>2
      <4>2. e = [d EXCEPT !.execCount[x.node] = @ + 1, !.latest[x.node] = step, !.trace = Trimmed(Append(@, step))]
        OBVIOUS
      <4> HIDE DEF e, x, d
      <4> QED
        BY <1>1, <2>3, <3>2, <4>1, <4>2, GraphStepped
    <3> HIDE DEF e, x, v, d
    <3>4. DOMAIN debugged' = DOMAIN debugged /\ debugged' \in [DOMAIN debugged' -> Debugged]
          /\ debugged'[g] = e /\ \A f \in DOMAIN debugged : f # g => debugged'[f] = debugged[f]
      BY <1>1, <3>1, <3>2, <3>3
    <3>5. queued' \in Seq(TraceEvent)
      BY <1>1, <2>5, <3>1
    <3>6. x.open /\ \E w \in TraceEvent : queued' = Append(queued, w) /\ MessageOf(w, Append(happened, x), Len(happened) + 1)
      BY <2>3, <2>5, <2>7, <2>8, <3>1
    <3> QED
      BY <1>11, <2>1, <2>3, <3>2, <3>3, <3>4, <3>5, <3>6
  <2>9. CASE ~IsOpen(g)
    <3>1. debugged' = debugged /\ queued' = queued
      BY <1>12, <2>9 DEF RecordFrame
    <3>2. g \notin DOMAIN debugged
      BY <2>9 DEF IsOpen
    <3> HIDE DEF x, e, v, d
    <3> QED
      BY <1>1, <1>11, <2>1, <2>3, <2>9, <3>1, <3>2
  <2> QED
    BY <2>8, <2>9
<1>13. ASSUME NEW g \in GraphID, NEW n \in GraphNode, RecordError(g, n) PROVE DebugInv'
  <2> DEFINE l == Len(happened) + 1
             newest == debugged[g].latest[n]
             x == [graph |-> g, node |-> n, error |-> TRUE, hit |-> FALSE, open |-> IsOpen(g)]
             v == [kind |-> "error", graph |-> g, node |-> n, frame |-> newest]
  <2>1. /\ happened' = Append(happened, x) /\ messages' = messages /\ opened' = opened /\ stepped' = stepped
        /\ debugged' = debugged /\ queued' = (IF IsOpen(g) THEN Append(queued, v) ELSE queued)
    BY <1>13 DEF RecordError
  <2>2. IsOpen(g) \in BOOLEAN
    BY DEF IsOpen
  <2>3. x \in Happening /\ x.graph = g /\ x.node = n /\ x.error = TRUE /\ x.open = IsOpen(g)
    BY <2>2 DEF Happening
  <2>4. Append(happened, x)[l] = x /\ l \in Nat
    BY <1>1, <2>3
  <2>5. CASE IsOpen(g)
    <3>1. g \in DOMAIN debugged /\ debugged[g] \in Debugged
      BY <1>1, <2>5 DEF IsOpen
    <3>2. newest \in Nat
      BY <3>1 DEF Debugged
    <3>3. v \in TraceEvent /\ v.graph = g /\ v.node = n /\ v.kind = "error" /\ v.frame = newest
      <4> HIDE DEF newest
      <4> QED
        BY <3>2 DEF TraceEvent
    <3>4. newest # 0 => newest \in StepsAfter(happened, opened[g], g) /\ happened[newest].node = n
      BY <1>3, <3>1 DEF GraphSound, NodesSound
    <3>5. newest # 0 => /\ newest < l /\ ~Append(happened, x)[newest].error
                       /\ Append(happened, x)[newest].node = n /\ Append(happened, x)[newest].graph = g
      <4> HIDE DEF newest, x
      <4>1. SUFFICES ASSUME newest # 0 PROVE /\ newest < l /\ ~Append(happened, x)[newest].error
                       /\ Append(happened, x)[newest].node = n /\ Append(happened, x)[newest].graph = g
        OBVIOUS
      <4>2. newest \in 1 .. Len(happened) /\ happened[newest].graph = g /\ ~happened[newest].error
        BY <1>1, <3>4, <4>1 DEF StepsAfter
      <4>3. Append(happened, x)[newest] = happened[newest]
        BY <1>1, <2>3, <4>2
      <4> QED
        BY <1>1, <3>4, <4>1, <4>2, <4>3
    <3> HIDE DEF x, v, newest, l
    <3>6. MessageOf(v, Append(happened, x), l)
      BY <2>3, <2>4, <3>3, <3>5 DEF MessageOf
    <3>7. queued' = Append(queued, v) /\ queued' \in Seq(TraceEvent)
      BY <1>1, <2>1, <2>5, <3>3
    <3>8. x.open /\ \E w \in TraceEvent : queued' = Append(queued, w) /\ MessageOf(w, Append(happened, x), Len(happened) + 1)
      BY <2>3, <2>5, <3>3, <3>6, <3>7 DEF l
    <3> QED
      BY <1>1, <1>11, <2>1, <2>3, <3>1, <3>7, <3>8
  <2>6. CASE ~IsOpen(g)
    <3>1. queued' = queued /\ g \notin DOMAIN debugged
      BY <2>1, <2>6 DEF IsOpen
    <3> HIDE DEF x, v, newest, l
    <3> QED
      BY <1>1, <1>11, <2>1, <2>3, <2>6, <3>1
  <2> QED
    BY <2>5, <2>6
<1>14. ASSUME DebugSync PROVE DebugInv'
  <2>1. /\ messages' = messages \o queued /\ queued' = <<>> /\ debugged' = debugged
        /\ happened' = happened /\ opened' = opened /\ stepped' = stepped
    BY <1>14 DEF DebugSync
  <2>2. messages' \in Seq(TraceEvent) /\ queued' \in Seq(TraceEvent) /\ messages' \o queued' = messages \o queued
    BY <1>1, <2>1
  <2>3. DebugShape'
    BY <1>1, <2>1, <2>2 DEF DebugShape
  <2> QED
    BY <1>2, <1>3, <1>4, <2>1, <2>2, <2>3
<1>15. CASE UNCHANGED debugVars
  <2>1. /\ debugged' = debugged /\ queued' = queued /\ messages' = messages
        /\ happened' = happened /\ opened' = opened /\ stepped' = stepped
    BY <1>15 DEF debugVars
  <2>2. DebugShape'
    BY <1>1, <2>1 DEF DebugShape
  <2> QED
    BY <1>2, <1>3, <1>4, <2>1, <2>2
<1> QED
  BY <1>5, <1>6, <1>8, <1>9, <1>10, <1>12, <1>13, <1>14, <1>15 DEF DebugNext

(* debug.go, sync.go.  Of each open graph the trace, the counts, the       *)
(* cursor and what was stepped through agree with the steps since it was   *)
(* opened.                                                                 *)
THEOREM DebugInvariant == DebugSpec => []DebugInv
BY DebugInitial, DebugInductive, PTL DEF DebugSpec

(* internal/grapheditor.  The editor hears all that happens in the graphs  *)
(* that are open, once and in order; the trace of each is its newest       *)
(* steps, and stepping through it never goes back.                         *)
THEOREM DebugFaithfulHolds == DebugSpec => []DebugFaithful
<1>1. DebugInv => DebugFaithful
  <2> SUFFICES ASSUME DebugInv PROVE TraceNewest /\ SteppingAscends
    BY DEF DebugInv, DebugFaithful
  <2>1. ASSUME NEW g PROVE StepsSince(g) = StepsAfter(happened, opened[g], g)
    BY DEF StepsSince, StepsAfter
  <2>2. ASSUME NEW g \in DOMAIN debugged
        PROVE  /\ TraceSound(g, debugged[g], happened, opened[g]) /\ NodesSound(g, debugged[g], happened, opened[g])
               /\ ReplaySound(g, debugged[g], happened, opened[g], stepped[g])
    BY DEF DebugInv, GraphSound
  <2>3. TraceNewest
    BY <2>1, <2>2 DEF TraceNewest, TraceSound, NodesSound
  <2>4. SteppingAscends
    BY <2>1, <2>2 DEF SteppingAscends, ReplaySound
  <2> QED
    BY <2>3, <2>4
<1> QED
  BY <1>1, DebugInvariant, PTL

=============================================================================
