------------------------------ MODULE AppFrame ------------------------------
(***************************************************************************)
(* The life of an App (pkg/app): startup, then frames that run the         *)
(* schedules in a fixed order until an exit is requested or a system       *)
(* panics.  Three services live in those frames: the double-buffered event *)
(* bus that EventsPlugin rotates in First (internal/ecs/event/bus.go), the *)
(* state machine applied in StateTransition (internal/ecs/state), and the  *)
(* AppExit bus drained at the tail (pkg/app/exit.go).                      *)
(***************************************************************************)
EXTENDS Naturals, Sequences, FiniteSets, SequencesExt, FiniteSetsExt

CONSTANTS
    Reader,       \* systems that read the game's event bus
    Position,     \* [Reader -> UserStages]: the schedule each one is in
    Steady,       \* readers without a run condition: they read every frame
    State,        \* values of the state machine
    InitialState,
    None,         \* no transition is pending
    Code,         \* exit codes
    MaxFrames,    \* bound: frames
    MaxSent,      \* bound: events sent, requests to exit among them
    MaxChanges    \* bound: swaps before the last request for a transition

(* Early: systems of First that run before ecs.SwapEvents.  PostUpdate and *)
(* the fixed schedules are further stages like Update.                     *)
Stages == <<"Startup", "Early", "Swap", "First", "StateTransition", "Update", "Tail">>
UserStages == {"Startup", "Early", "First", "Update"}

ASSUME FrameAssumption ==
    /\ Position \in [Reader -> UserStages \ {"Startup"}]
    /\ Steady \subseteq Reader
    /\ InitialState \in State /\ None \notin State
    /\ Code \subseteq Nat

VARIABLES
    app,          \* "running", "stopped" or "failed"
    stage,        \* position in Stages
    frame,        \* frames started
    runOnce,      \* RunMode
    shouldExit, exitCode,
    bus, exitBus, \* EventBus[T] and EventBus[AppExit]
    cursor,       \* [Reader -> Nat]
    exitCursor,   \* cursor of App.exitReader
    waiting,      \* steady readers that have still to run in this stage
    state, next, changed,     \* State, NextState and LastTransition.Changed
    got,          \* history: [Reader -> events received]
    sentAt,       \* history: number of swaps before each event was sent
    swaps,        \* history: number of swaps
    codes,        \* history: exit codes in the order they were requested
    seenState     \* history: [UserStages -> state at the last visit]

appVars == <<app, stage, frame, runOnce, shouldExit, exitCode>>
busVars == <<bus, cursor, waiting, got, sentAt, swaps>>
exitVars == <<exitBus, exitCursor, codes>>
stateVars == <<state, next, changed, seenState>>
vars == <<appVars, busVars, exitVars, stateVars>>

-----------------------------------------------------------------------------
(* EventBus.  `base` is the number of events sent before the current       *)
(* buffer began.                                                           *)
NewBus == [prev |-> <<>>, cur |-> <<>>, base |-> 0, sent |-> 0]

SendOn(b, e) == [b EXCEPT !.cur = Append(@, e), !.sent = @ + 1]

(* Mutant: both buffers are emptied. *)
SwappedClearing(b) == [b EXCEPT !.prev = <<>>, !.cur = <<>>, !.base = b.sent]

Swapped(b) == [b EXCEPT !.prev = b.cur, !.cur = <<>>, !.base = b.sent]

Oldest(b) == b.base - Len(b.prev)

(* readAt until it reports false, or until n events were taken. *)
Unread(b, c) ==
    LET from == Max({c, Oldest(b)})
    IN  SubSeq(b.prev, from - Oldest(b) + 1, Len(b.prev))
        \o SubSeq(b.cur, Max({from, b.base}) - b.base + 1, Len(b.cur))

After(b, c, n) == Max({c, Oldest(b)}) + n

-----------------------------------------------------------------------------
Init ==
    /\ app = "running" /\ stage = 1 /\ frame = 0
    /\ runOnce \in BOOLEAN
    /\ shouldExit = FALSE /\ exitCode = 0
    /\ bus = NewBus /\ exitBus = NewBus
    /\ cursor = [r \in Reader |-> 0] /\ exitCursor = 0
    /\ waiting = {}
    /\ state = InitialState /\ next = None /\ changed = FALSE
    /\ got = [r \in Reader |-> <<>>]
    /\ sentAt = <<>> /\ swaps = 0 /\ codes = <<>>
    /\ seenState = [p \in UserStages |-> InitialState]

Here == Stages[stage]
InSystem == app = "running" /\ Here \in UserStages

(* A system sends an event; events are numbered as they are sent. *)
Send ==
    /\ InSystem /\ bus.sent + exitBus.sent < MaxSent
    /\ bus' = SendOn(bus, bus.sent + 1)
    /\ sentAt' = Append(sentAt, swaps)
    /\ UNCHANGED <<appVars, cursor, waiting, got, swaps, exitVars, stateVars>>

(* A reader runs: it iterates over its unread events, and may break.  One  *)
(* with a run condition may also not run at all.                           *)
Read(r) ==
    /\ InSystem /\ Position[r] = Here
    /\ r \in Steady => r \in waiting
    /\ LET unread == Unread(bus, cursor[r])
       IN  \E n \in 0 .. Len(unread) :
            /\ r \in Steady => n = Len(unread)
            /\ got' = [got EXCEPT ![r] = @ \o SubSeq(unread, 1, n)]
            /\ cursor' = [cursor EXCEPT ![r] = After(bus, cursor[r], n)]
    /\ waiting' = waiting \ {r}
    /\ UNCHANGED <<appVars, bus, sentAt, swaps, exitVars, stateVars>>

(* TransitionTo: a later request replaces an earlier one. *)
TransitionTo(s) ==
    /\ InSystem
    /\ swaps < MaxChanges
    /\ next' = s
    /\ UNCHANGED <<appVars, busVars, exitVars, state, changed, seenState>>

(* RequestExit: an AppExit event. *)
RequestExit(code) ==
    /\ InSystem /\ bus.sent + exitBus.sent < MaxSent
    /\ exitBus' = SendOn(exitBus, code)
    /\ codes' = Append(codes, code)
    /\ UNCHANGED <<appVars, busVars, exitCursor, stateVars>>

(* App.Exit *)
Exit ==
    /\ InSystem
    /\ shouldExit' = TRUE
    /\ UNCHANGED <<app, stage, frame, runOnce, exitCode, busVars, exitVars, stateVars>>

(* A system panics: the executor reports it, update and Run return it. *)
Panic ==
    /\ InSystem
    /\ app' = "failed"
    /\ UNCHANGED <<stage, frame, runOnce, shouldExit, exitCode, busVars, exitVars, stateVars>>

-----------------------------------------------------------------------------
Enter(i) ==
    /\ stage' = i
    /\ waiting' = {r \in Steady : Position[r] = Stages[i]}

(* The systems of a stage are done. *)
Advance ==
    /\ InSystem /\ Here # "Startup"
    /\ waiting = {}
    /\ Enter(stage + 1)
    /\ seenState' = [seenState EXCEPT ![Here] = state]
    /\ UNCHANGED <<app, frame, runOnce, shouldExit, exitCode, bus, cursor, got, sentAt,
                   swaps, exitVars, state, next, changed>>

(* ecs.SwapEvents: SwapAll rotates every registered bus. *)
SwapEvents ==
    /\ app = "running" /\ Here = "Swap"
    /\ bus' = Swapped(bus)
    /\ exitBus' = Swapped(exitBus)
    /\ swaps' = swaps + 1
    /\ Enter(stage + 1)
    /\ UNCHANGED <<app, frame, runOnce, shouldExit, exitCode, cursor, got, sentAt,
                   exitCursor, codes, stateVars>>

(* Mutant: without a pending transition the last one stays in place. *)
ApplyTransitionKeeps ==
    /\ app = "running" /\ Here = "StateTransition"
    /\ IF next \in {None, state}
       THEN UNCHANGED <<state, changed>>
       ELSE changed' = TRUE /\ state' = next
    /\ next' = None
    /\ Enter(stage + 1)
    /\ UNCHANGED <<app, frame, runOnce, shouldExit, exitCode, bus, cursor, got, sentAt,
                   swaps, exitVars, seenState>>

(* applyTransition *)
ApplyTransition ==
    /\ app = "running" /\ Here = "StateTransition"
    /\ IF next \in {None, state}
       THEN changed' = FALSE /\ UNCHANGED state
       ELSE changed' = TRUE /\ state' = next
    /\ next' = None
    /\ Enter(stage + 1)
    /\ UNCHANGED <<app, frame, runOnce, shouldExit, exitCode, bus, cursor, got, sentAt,
                   swaps, exitVars, seenState>>

(* The runner's loop condition. *)
NextFrame ==
    IF shouldExit' \/ (runOnce /\ frame > 0)
    THEN app' = "stopped" /\ UNCHANGED <<stage, frame, waiting>>
    ELSE frame < MaxFrames /\ frame' = frame + 1 /\ Enter(2) /\ UNCHANGED app

(* Startup is over; RunOnce runs its frame without looking at shouldExit. *)
Start ==
    /\ app = "running" /\ Here = "Startup"
    /\ IF runOnce
       THEN frame' = frame + 1 /\ Enter(2) /\ UNCHANGED <<app, shouldExit>>
       ELSE UNCHANGED shouldExit /\ NextFrame
    /\ UNCHANGED <<runOnce, exitCode, bus, cursor, got, sentAt, swaps, exitVars, stateVars>>

FirstError(s) ==
    LET errors == SelectSeq(s, LAMBDA code : code # 0)
    IN  IF errors = <<>> THEN 0 ELSE errors[1]

DrainedCode(unread) == IF exitCode # 0 THEN exitCode ELSE FirstError(unread)

(* drainExitEvents at the end of the frame, then the runner's loop. *)
DrainExitEvents ==
    /\ app = "running" /\ Here = "Tail"
    /\ LET unread == Unread(exitBus, exitCursor)
       IN  /\ shouldExit' = (shouldExit \/ unread # <<>>)
           /\ exitCode' = DrainedCode(unread)
           /\ exitCursor' = After(exitBus, exitCursor, Len(unread))
    /\ NextFrame
    /\ UNCHANGED <<runOnce, bus, cursor, got, sentAt, swaps, exitBus, codes, stateVars>>

Loop == Advance \/ SwapEvents \/ ApplyTransition \/ Start \/ DrainExitEvents

Next ==
    \/ Send
    \/ \E r \in Reader : Read(r)
    \/ \E s \in State : TransitionTo(s)
    \/ \E code \in Code : RequestExit(code)
    \/ Exit
    \/ Panic
    \/ Loop

Spec == Init /\ [][Next]_vars

-----------------------------------------------------------------------------
(* plugin.go:11-15, bus.go:12-20.  A reader that runs every frame, in any  *)
(* schedule, receives every event exactly once and in the order they were  *)
(* sent, the ones sent at startup and after it ran included.               *)
SteadyReadersMissNothing ==
    \A r \in Steady : got[r] = [e \in 1 .. cursor[r] |-> e]

(* bus.go:75-85, 100-110.  Whatever a reader skips, by not running or by breaking  *)
(* out of its loop, an event is passed over only after it has been through *)
(* two swaps.                                                              *)
LostOnlyAfterTwoSwaps ==
    \A r \in Reader : \A e \in cursor[r] + 1 .. cursor'[r] :
        e \in ToSet(got'[r]) \/ sentAt[e] + 2 <= swaps

(* bus.go:75-110.  Both: the buses deliver whatever a reader is there for. *)
BusesDeliver == [][SteadyReadersMissNothing' /\ LostOnlyAfterTwoSwaps]_vars

(* exit.go:45-47, 63-68.  The code Run reports is the first failure code that *)
(* was requested, in every schedule of every frame.  App.Exit during       *)
(* startup is the exception: then no frame runs and nothing is drained.    *)
FirstFailureReported == app = "stopped" /\ frame > 0 => exitCode = FirstError(codes)

(* state.go:42-44, 75-103.  At every position of the frame StateChanged  *)
(* holds exactly if the state differs from what the same position saw in   *)
(* the frame before: each system sees every transition once, not twice.    *)
ChangeSeenOnce ==
    app = "running" /\ Here \in UserStages => (changed <=> state # seenState[Here])

=============================================================================
