---------------------------- MODULE RenderServer ----------------------------
(***************************************************************************)
(* The command queue of internal/render/server.go.  Frontend goroutines    *)
(* enqueue, the bound goroutine drains, and what it submits itself runs at *)
(* once.  A command is arbitrary code: here its body is its own effect and *)
(* then perhaps one Submit, which is an inline one, because commands run   *)
(* on the bound goroutine.  `calls` is that goroutine's stack of Drain and *)
(* Submit calls, the innermost one last.                                   *)
(***************************************************************************)
EXTENDS Naturals, Sequences, SequencesExt

CONSTANTS
    Command,     \* the commands; each is submitted at most once
    Nested,      \* [Command -> Command or NoCommand]: what a command submits
    NoCommand

ASSUME ServerAssumption ==
    /\ Nested \in [Command -> Command \cup {NoCommand}] /\ NoCommand \notin Command
    /\ \A c, d \in Command : c # d /\ Nested[c] = Nested[d] => Nested[c] = NoCommand

VARIABLES
    queue, bound, closed,   \* Server.queue, srvGID is set, Server.closed
    calls,      \* the bound goroutine's calls: [batch, then, drains, body]
    accepted,   \* history: the commands accepted, in the order of the lock
    ran,        \* history: the commands run, in order
    refused,    \* history: the commands refused
    dropped,    \* history: the commands Close threw away
    overtook    \* history: <<c, d>>: c was accepted behind d, and taken in front of it

serverVars == <<queue, bound, closed, calls, accepted, ran, refused, dropped, overtook>>

ServerInit ==
    /\ queue = <<>> /\ bound = FALSE /\ closed = FALSE
    /\ calls = <<>>
    /\ accepted = <<>> /\ ran = <<>> /\ refused = {} /\ dropped = {} /\ overtook = {}

Fresh(c) ==
    /\ c \notin Range(accepted) \cup refused
    /\ \A d \in Command : Nested[d] # c

Top == Last(calls)
WithTop(call) == Append(Front(calls), call)

(* What calls have taken from the queue and not run yet. *)
Taken(stack) ==
    UNION {Range(stack[i].batch) \cup ({stack[i].then} \ {NoCommand}) : i \in 1 .. Len(stack)}

Refuse(c) == refused' = refused \cup {c} /\ UNCHANGED <<queue, accepted, overtook>>

-----------------------------------------------------------------------------
(* Submit, and Initialize, on another goroutine or before Bind. *)
Submit(c) ==
    /\ Fresh(c)
    /\ IF closed THEN Refuse(c)
       ELSE /\ queue' = Append(queue, c)
            /\ accepted' = Append(accepted, c)
            /\ UNCHANGED <<refused, overtook>>
    /\ UNCHANGED <<bound, closed, calls, ran, dropped>>

Bind ==
    /\ ~bound /\ calls = <<>>
    /\ bound' = TRUE
    /\ UNCHANGED <<queue, closed, calls, accepted, ran, refused, dropped, overtook>>

(* Mutant: the command runs without a look at the queue. *)
SubmitInlineAtOnce(c, stack) ==
    IF closed THEN Refuse(c) /\ calls' = stack
    ELSE /\ accepted' = Append(accepted, c)
         /\ calls' = Append(stack, [batch |-> <<>>, then |-> c, drains |-> FALSE, body |-> NoCommand])
         /\ overtook' = overtook \cup {c} \X Taken(stack)
         /\ UNCHANGED <<queue, refused>>

(* Submit on the bound goroutine: what is queued runs first, then c. *)
SubmitInline(c, stack) ==
    IF closed THEN Refuse(c) /\ calls' = stack
    ELSE /\ accepted' = Append(accepted, c)
         /\ calls' = Append(stack, [batch |-> queue, then |-> c, drains |-> FALSE, body |-> NoCommand])
         /\ queue' = <<>>
         /\ overtook' = overtook \cup (Range(queue) \cup {c}) \X Taken(stack)
         /\ UNCHANGED refused

(* ... by a feature of the frame, *)
SubmitBound(c) ==
    /\ bound /\ calls = <<>>
    /\ Fresh(c)
    /\ SubmitInline(c, calls)
    /\ UNCHANGED <<bound, closed, ran, dropped>>

(* ... and by a command that is running. *)
SubmitNested ==
    /\ calls # <<>> /\ Top.body # NoCommand
    /\ SubmitInline(Nested[Top.body], WithTop([Top EXCEPT !.body = NoCommand]))
    /\ UNCHANGED <<bound, closed, ran, dropped>>

(* Drain, on the bound goroutine. *)
Drain ==
    /\ bound /\ calls = <<>>
    /\ calls' = << [batch |-> <<>>, then |-> NoCommand, drains |-> TRUE, body |-> NoCommand] >>
    /\ UNCHANGED <<queue, bound, closed, accepted, ran, refused, dropped, overtook>>

DrainTake ==
    /\ calls # <<>> /\ Top.drains
    /\ Top.batch = <<>> /\ Top.body = NoCommand
    /\ queue' = <<>>
    /\ calls' = IF queue = <<>> THEN Front(calls) ELSE WithTop([Top EXCEPT !.batch = queue])
    /\ UNCHANGED <<bound, closed, accepted, ran, refused, dropped, overtook>>

Body(c) == IF Nested[c] = NoCommand THEN NoCommand ELSE c

(* The next command of the innermost call, or its return. *)
RunBatch ==
    /\ calls # <<>> /\ Top.body = NoCommand /\ Top.batch # <<>>
    /\ ran' = Append(ran, Head(Top.batch))
    /\ calls' = WithTop([Top EXCEPT !.batch = Tail(@), !.body = Body(Head(Top.batch))])
    /\ UNCHANGED <<queue, bound, closed, accepted, refused, dropped, overtook>>

RunThen ==
    /\ calls # <<>> /\ Top.body = NoCommand /\ Top.batch = <<>> /\ Top.then # NoCommand
    /\ ran' = Append(ran, Top.then)
    /\ calls' = WithTop([Top EXCEPT !.then = NoCommand, !.body = Body(Top.then)])
    /\ UNCHANGED <<queue, bound, closed, accepted, refused, dropped, overtook>>

Return ==
    /\ calls # <<>> /\ Top.body = NoCommand /\ Top.batch = <<>> /\ Top.then = NoCommand
    /\ ~Top.drains
    /\ calls' = Front(calls)
    /\ UNCHANGED <<queue, bound, closed, accepted, ran, refused, dropped, overtook>>

Close ==
    /\ ~closed
    /\ closed' = TRUE
    /\ queue' = <<>>
    /\ dropped' = Range(queue)
    /\ UNCHANGED <<bound, calls, accepted, ran, refused, overtook>>

ServerNext ==
    \/ \E c \in Command : Submit(c) \/ SubmitBound(c)
    \/ SubmitNested \/ Bind \/ Drain \/ DrainTake \/ RunBatch \/ RunThen \/ Return \/ Close

ServerSpec == ServerInit /\ [][ServerNext]_serverVars

-----------------------------------------------------------------------------
Before(seq, c, d) == \E i, j \in 1 .. Len(seq) : i < j /\ seq[i] = c /\ seq[j] = d

(* server.go:74-76.  Every accepted command runs once or waits, unless     *)
(* Close dropped it, and it runs behind all that were accepted before it.  *)
(* The one way to overtake is an inline Submit by a command of a batch     *)
(* that is not finished.                                                   *)
InOrderUnlessNested ==
    /\ IsInjective(ran)
    /\ Range(accepted) = Range(ran) \cup Range(queue) \cup Taken(calls) \cup dropped
    /\ \A c \in Range(ran), d \in Range(accepted) \ dropped :
           Before(accepted, d, c) => Before(ran, d, c) \/ <<c, d>> \in overtook

(* server.go:74 and server_test.go:97 ("global FIFO").  Nobody overtakes.  *)
GlobalFIFO == overtook = {}

(* server.go:118-119.  Nothing queued runs once the server is closed.      *)
NothingRunsClosed == [][closed => ran' = ran]_serverVars
=============================================================================
