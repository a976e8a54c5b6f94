----------------------------- MODULE PluginHost -----------------------------
(***************************************************************************)
(* internal/plugin: what a plugin is granted, start after start of the     *)
(* engine, and the life of one that runs out of process: the proxy drives  *)
(* its phases over a supervisor, which a monitor goroutine watches.  One   *)
(* action is one step of the host, of the monitor, or of the process.      *)
(* Only tests call these functions so far; the host here calls them in     *)
(* the order the comments and the tests give.                              *)
(***************************************************************************)
EXTENDS Naturals, Sequences, FiniteSets, SequencesExt

CONSTANTS
    Cap,                \* capabilities a manifest may require
    Automatic, Prompted,  \* TierGranted, TierPrompt; the rest is TierAlwaysPrompt
    MaxSessions         \* bound: starts of the engine

ASSUME PluginAssumption ==
    /\ Automatic \subseteq Cap /\ Prompted \subseteq Cap /\ Automatic \cap Prompted = {}
    /\ MaxSessions \in Nat

VARIABLES
    persisted,   \* GrantStore: the saved capabilities of the plugin
    session,     \* starts so far
    granted,     \* record.granted
    status,      \* record.state; "skipped" when it was not registered
    host,        \* "down", or in "handshake", "idle" between phases, in "receive"
    phase,       \* phases the host has begun, 0 .. 4
    failed,      \* Supervisor.failed
    process,     \* "running" or "exited"
    told,        \* what the process has been sent
    replies,     \* what the host has not read; the end of the pipe is "eof"
    \* ghosts
    approved,    \* <<capability, session>>: the user said yes
    answered     \* the replies of the process, in order

pluginVars == <<persisted, session, granted, status, host, phase, failed, process, told, replies, approved, answered>>
grantVars == <<persisted, session, granted, approved>>

Phases == <<"build", "ready", "finish", "cleanup">>

PluginInit ==
    /\ persisted = {} /\ session = 0 /\ granted = {} /\ status = "skipped"
    /\ host = "down" /\ phase = 0 /\ failed = FALSE /\ process = "exited"
    /\ told = <<>> /\ replies = <<>> /\ approved = {} /\ answered = <<>>

-----------------------------------------------------------------------------
(* Mutant: whatever was approved is remembered. *)
RememberedAll(required, yes) == (required \cap persisted) \cup yes

(* toPersist *)
Remembered(required, yes) == Prompted \cap ((required \cap persisted) \cup yes)

(* A start: ResolveGrants asks for what is not persisted, of the           *)
(* AlwaysPrompt tier every time, and saves what it found if an answer was  *)
(* new.  With everything granted the plugin is registered, Spawn starts    *)
(* the process and sends PluginInit.                                       *)
StartSession(required, yes) ==
    LET known == required \cap (Automatic \cup (Prompted \cap persisted)) IN
    /\ host = "down" /\ session < MaxSessions
    /\ yes \subseteq required \ known
    /\ session' = session + 1
    /\ approved' = approved \cup (yes \X {session + 1})
    /\ persisted' = IF yes \cap Prompted # {} THEN Remembered(required, yes) ELSE persisted
    /\ phase' = 0 /\ failed' = FALSE /\ replies' = <<>> /\ answered' = <<>>
    /\ IF known \cup yes = required
       THEN granted' = required /\ status' = "approved" /\ host' = "handshake"
            /\ process' = "running" /\ told' = <<"init">>
       ELSE granted' = {} /\ status' = "skipped" /\ host' = "down"
            /\ process' = "exited" /\ told' = <<>>

(* The process answers what it was sent, rightly or not, exits whenever it *)
(* likes, or does nothing.                                                 *)
ProcessReplies(reply) ==
    /\ process = "running" /\ Len(told) > Len(answered)
    /\ replies' = Append(replies, reply)
    /\ answered' = Append(answered, reply)
    /\ UNCHANGED <<grantVars, status, host, phase, failed, process, told>>

ProcessExits ==
    /\ process = "running"
    /\ process' = "exited"
    /\ replies' = Append(replies, "eof")
    /\ UNCHANGED <<grantVars, status, host, phase, failed, told, answered>>

(* monitorProcess: Wait closes the pipe, whether it has been read or not.  *)
Monitor ==
    /\ process = "exited" /\ host # "down" /\ ~failed
    /\ failed' = TRUE
    /\ replies' \in {replies, <<"eof">>}
    /\ UNCHANGED <<grantVars, status, host, phase, process, told, answered>>

-----------------------------------------------------------------------------
(* handshake: PluginHello, anything else, or the timeout.  A failure kills *)
(* the process; the plugin stays Approved.                                 *)
HandshakeEnds ==
    /\ host = "handshake"
    /\ \/ /\ replies # <<>> /\ Head(replies) = "done"
          /\ host' = "idle" /\ replies' = Tail(replies)
          /\ UNCHANGED process
       \/ /\ host' = "down" /\ process' = "exited" /\ replies' = <<>>
    /\ UNCHANGED <<grantVars, status, phase, failed, told, answered>>

(* What the proxy does when DriveLifecycle returns from phase k.  Cleanup  *)
(* closes the supervisor, however it went.                                 *)
Returned(k, ok) ==
    /\ status' = CASE k = 4 -> "disabled" [] k < 4 /\ ~ok -> "failed"
                   [] k = 1 /\ ok -> "active" [] OTHER -> status
    /\ failed' = (failed \/ ~ok \/ k = 4)
    /\ process' = IF k = 4 THEN "exited" ELSE process
    /\ host' = IF k = 4 THEN "down" ELSE "idle"

(* The next phase.  A failed plugin is left alone, but Build and Cleanup   *)
(* note their states; a send to a process that is gone fails.              *)
Drive ==
    /\ host = "idle"
    /\ phase' = phase + 1
    /\ \/ /\ ~failed /\ process = "running"
          /\ told' = Append(told, Phases[phase + 1]) /\ host' = "receive"
          /\ status' = IF phase = 0 THEN "loading" ELSE status
          /\ UNCHANGED <<failed, process>>
       \/ /\ failed /\ phase \in {1, 2}
          /\ UNCHANGED <<status, host, failed, process, told>>
       \/ /\ process = "exited" /\ (failed => phase \in {0, 3})
          /\ Returned(phase + 1, FALSE)
          /\ UNCHANGED told
       \/ /\ failed /\ process = "running" /\ phase = 3
          /\ Returned(4, FALSE)
          /\ UNCHANGED told
    /\ UNCHANGED <<grantVars, replies, answered>>

(* The reply.  There is no deadline: the context lives until Cleanup. *)
ReceiveReply ==
    /\ host = "receive" /\ replies # <<>>
    /\ replies' = Tail(replies)
    /\ Returned(phase, Head(replies) = "done")
    /\ UNCHANGED <<grantVars, phase, told, answered>>

PluginNext ==
    \/ \E required \in SUBSET Cap \ {{}} : \E yes \in SUBSET required : StartSession(required, yes)
    \/ \E reply \in {"done", "bad"} : ProcessReplies(reply)
    \/ ProcessExits \/ Monitor \/ HandshakeEnds \/ Drive \/ ReceiveReply

PluginSpec == PluginInit /\ [][PluginNext]_pluginVars

-----------------------------------------------------------------------------
(* INV-9, no silent escalation: what a plugin has is automatic, or was     *)
(* approved by the user, of the AlwaysPrompt tier in this very session;    *)
(* and only approved capabilities of the Prompt tier are remembered.       *)
GrantsApproved ==
    /\ \A c \in granted \ Automatic :
        \E s \in 1 .. session : <<c, s>> \in approved /\ (c \in Prompted \/ s = session)
    /\ persisted \subseteq {c \in Prompted : \E s \in 1 .. session : <<c, s>> \in approved}

(* INV-8 and INV-4.  Whenever the process answers, lies or dies, it has    *)
(* been sent the phases in order, each after it had answered all before;   *)
(* the plugin is Active only if Build was answered, and once it has failed *)
(* it is never Active again.                                               *)
PhasesInOrder ==
    /\ IsPrefix(told, <<"init">> \o Phases)
    /\ \A i \in 1 .. Len(told) - 1 : i <= Len(answered) /\ answered[i] = "done"
    /\ status = "active" => Len(answered) > 1 /\ answered[2] = "done"
    /\ status = "failed" => failed
    /\ status = "disabled" => host = "down" /\ process = "exited"

PluginContained == GrantsApproved /\ PhasesInOrder

(* grants.go, "decided once per install and remembered": saving keeps only *)
(* what the manifest requires now.                                         *)
DecidedOnce == \A c \in Prompted, s \in 1 .. session : <<c, s>> \in approved => c \in persisted

(* supervisor.go, "so the host detects the crash without polling": nobody  *)
(* waits for Done, and the manager goes on calling the plugin Active.      *)
CrashNoticed == failed /\ host = "idle" => status # "active"
=============================================================================
