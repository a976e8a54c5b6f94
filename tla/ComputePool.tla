---------------------------- MODULE ComputePool ----------------------------
(***************************************************************************)
(* The compute pool of pkg/task: workers that park on a token channel,     *)
(* callers that Spawn, BlockOn or RunScope, and Shutdown.  Only the Normal *)
(* priority deque and the scope deques ever receive a task, so the other   *)
(* deques a scan visits are empty and are left out.  Of a steal from the   *)
(* Normal deque two steps are kept, the look and the compare-and-swap,     *)
(* because losing the race between them is reported as "empty"; a pop by   *)
(* the owner and a steal under scopeMu are atomic (module WorkDeque).      *)
(***************************************************************************)
EXTENDS Integers, Sequences, FiniteSets

CONSTANTS
    Worker,         \* the pool's goroutines
    Spawner,        \* callers that Spawn and Detach
    Blocker,        \* callers that Spawn, then BlockOn their first handle
    Scoper,         \* callers that RunScope
    Teams,          \* bound: the sets of callers that appear together
    Spawns          \* bound: how many tasks each caller spawns

ASSUME PoolAssumption ==
    /\ IsFiniteSet(Worker) /\ Worker # {}
    /\ Worker \cap (Spawner \cup Blocker \cup Scoper) = {}
    /\ Teams \subseteq SUBSET (Spawner \cup Blocker \cup Scoper)
    /\ Spawns \in [Spawner \cup Blocker \cup Scoper -> Nat \ {0}]

Caller == Spawner \cup Blocker \cup Scoper
Task == UNION {{c} \X (1 .. Spawns[c]) : c \in Caller}
NoTask == <<"none", 0>>

VARIABLES
    items,      \* every task ever pushed on the Normal deque, in order
    top,        \* its top cursor: items[top + 1] is the next one stolen
    scopeDq,    \* the deque of each scope
    scopes,     \* the scopes registered with the pool
    pending,    \* Scope.pending
    notify,     \* tokens in the wake-up channel, capacity: one per worker
    closed, quit,
    worker,     \* [pc, tp, task, draining] of each worker
    caller,     \* [pc, k, tp, task] of each caller
    stopper,    \* program counter of the goroutine calling Shutdown
    ran,        \* how many times each task was executed
    quiet       \* history: every caller had finished when Shutdown started

vars == <<items, top, scopeDq, scopes, pending, notify, closed, quit,
          worker, caller, stopper, ran, quiet>>
queues == <<items, top, scopeDq, scopes, pending>>

Init ==
    /\ items = <<>> /\ top = 0
    /\ scopeDq = [s \in Scoper |-> <<>>] /\ scopes = {}
    /\ pending = [s \in Scoper |-> 0]
    /\ notify = 0 /\ closed = FALSE /\ quit = FALSE
    /\ worker = [w \in Worker |-> [pc |-> "scan", tp |-> 0, task |-> NoTask, draining |-> FALSE]]
    /\ \E team \in Teams :
           caller = [c \in Caller |-> [pc |-> IF c \in team THEN "start" ELSE "absent",
                                      k |-> 1, tp |-> 0, task |-> NoTask]]
    /\ stopper = "idle"
    /\ ran = [t \in Task |-> 0]
    /\ quiet = FALSE

(* wake: a token, unless the channel is full. *)
Wake == notify' = IF notify < Cardinality(Worker) THEN notify + 1 ELSE notify

(* The task runs to its end; a scope's child also decrements pending. *)
RunTask(t) ==
    /\ ran' = [ran EXCEPT ![t] = @ + 1]
    /\ pending' = IF t[1] \in Scoper THEN [pending EXCEPT ![t[1]] = @ - 1] ELSE pending

(* The compare-and-swap of a steal loses when top has moved since it was read. *)
LostRace(seen) == top # seen
Oldest == items[top + 1]

-----------------------------------------------------------------------------
(* nextTask, first part: look at the priority deques. *)
WorkerLook(w) ==
    /\ worker[w].pc = "scan"
    /\ worker' = IF top < Len(items)
                 THEN [worker EXCEPT ![w].pc = "cas", ![w].tp = top]
                 ELSE [worker EXCEPT ![w].pc = "scope"]
    /\ UNCHANGED <<queues, notify, closed, quit, caller, stopper, ran, quiet>>

(* Mutant: the result of the compare-and-swap is ignored. *)
WorkerStealBlind(w) ==
    /\ worker[w].pc = "cas"
    /\ worker' = [worker EXCEPT ![w].pc = "run", ![w].task = items[worker[w].tp + 1]]
    /\ top' = worker[w].tp + 1
    /\ UNCHANGED <<items, scopeDq, scopes, pending, notify, closed, quit, caller, stopper, ran, quiet>>

(* The compare-and-swap on top.  A lost race goes on to the scope deques   *)
(* as if the deque had been empty.                                         *)
WorkerSteal(w) ==
    /\ worker[w].pc = "cas"
    /\ IF LostRace(worker[w].tp)
       THEN /\ worker' = [worker EXCEPT ![w].pc = "scope"]
            /\ UNCHANGED top
       ELSE /\ worker' = [worker EXCEPT ![w].pc = "run", ![w].task = Oldest]
            /\ top' = top + 1
    /\ UNCHANGED <<items, scopeDq, scopes, pending, notify, closed, quit, caller, stopper, ran, quiet>>

(* stealScope: the head of some registered scope's deque. *)
WorkerScope(w) ==
    /\ worker[w].pc = "scope"
    /\ \E s \in scopes :
        /\ scopeDq[s] # <<>>
        /\ worker' = [worker EXCEPT ![w].pc = "run", ![w].task = Head(scopeDq[s])]
        /\ scopeDq' = [scopeDq EXCEPT ![s] = Tail(@)]
    /\ UNCHANGED <<items, top, scopes, pending, notify, closed, quit, caller, stopper, ran, quiet>>

(* Nothing found: park, or leave when draining. *)
WorkerNothing(w) ==
    /\ worker[w].pc = "scope"
    /\ \A s \in scopes : scopeDq[s] = <<>>
    /\ worker' = [worker EXCEPT ![w].pc = IF worker[w].draining THEN "exit" ELSE "park"]
    /\ UNCHANGED <<queues, notify, closed, quit, caller, stopper, ran, quiet>>

WorkerRun(w) ==
    /\ worker[w].pc = "run"
    /\ RunTask(worker[w].task)
    /\ worker' = [worker EXCEPT ![w].pc = "scan", ![w].task = NoTask]
    /\ UNCHANGED <<items, top, scopeDq, scopes, notify, closed, quit, caller, stopper, quiet>>

(* The select of run: a token or quit, whichever is picked. *)
WorkerWoken(w) ==
    /\ worker[w].pc = "park"
    /\ notify > 0
    /\ notify' = notify - 1
    /\ worker' = [worker EXCEPT ![w].pc = "scan"]
    /\ UNCHANGED <<queues, closed, quit, caller, stopper, ran, quiet>>

(* Mutant: quit leaves at once instead of draining. *)
WorkerQuitUndrained(w) ==
    /\ worker[w].pc = "park"
    /\ quit
    /\ worker' = [worker EXCEPT ![w].pc = "exit"]
    /\ UNCHANGED <<queues, notify, closed, quit, caller, stopper, ran, quiet>>

WorkerQuit(w) ==
    /\ worker[w].pc = "park"
    /\ quit
    /\ worker' = [worker EXCEPT ![w].pc = "scan", ![w].draining = TRUE]
    /\ UNCHANGED <<queues, notify, closed, quit, caller, stopper, ran, quiet>>

WorkerNext(w) ==
    \/ WorkerLook(w) \/ WorkerSteal(w) \/ WorkerScope(w) \/ WorkerNothing(w)
    \/ WorkerRun(w) \/ WorkerWoken(w) \/ WorkerQuit(w)

-----------------------------------------------------------------------------
Mine(c) == <<c, caller[c].k>>

(* After the k-th spawn: the next one, or what the caller does afterwards. *)
Spawned(c, after) ==
    IF caller[c].k < Spawns[c]
    THEN [caller EXCEPT ![c].k = @ + 1, ![c].pc = "start"]
    ELSE [caller EXCEPT ![c].pc = after]

AfterSpawns(c) == IF c \in Blocker THEN "wait" ELSE "end"

(* Spawn on a closed pool runs the task inline. *)
SpawnInline(c) ==
    /\ c \notin Scoper
    /\ caller[c].pc = "start"
    /\ closed
    /\ RunTask(Mine(c))
    /\ caller' = Spawned(c, AfterSpawns(c))
    /\ UNCHANGED <<items, top, scopeDq, scopes, notify, closed, quit, worker, stopper, quiet>>

(* submitPrio: the closed check, the push under submitMu, the wake. *)
SubmitCheck(c) ==
    /\ c \notin Scoper
    /\ caller[c].pc = "start"
    /\ ~closed
    /\ caller' = [caller EXCEPT ![c].pc = "push"]
    /\ UNCHANGED <<queues, notify, closed, quit, worker, stopper, ran, quiet>>

SubmitPush(c) ==
    /\ caller[c].pc = "push"
    /\ items' = Append(items, Mine(c))
    /\ caller' = [caller EXCEPT ![c].pc = "wake"]
    /\ UNCHANGED <<top, scopeDq, scopes, pending, notify, closed, quit, worker, stopper, ran, quiet>>

SubmitWake(c) ==
    /\ caller[c].pc = "wake"
    /\ Wake
    /\ caller' = Spawned(c, AfterSpawns(c))
    /\ UNCHANGED <<queues, closed, quit, worker, stopper, ran, quiet>>

-----------------------------------------------------------------------------
(* BlockOn: return once the handle is finished ... *)
BlockReturn(c) ==
    /\ caller[c].pc = "wait"
    /\ ran[<<c, 1>>] > 0
    /\ caller' = [caller EXCEPT ![c].pc = "end"]
    /\ UNCHANGED <<queues, notify, closed, quit, worker, stopper, ran, quiet>>

(* Mutant: the waiter sleeps instead of helping. *)
BlockLookAsleep(c) ==
    /\ caller[c].pc = "wait"
    /\ ran[<<c, 1>>] = 0
    /\ UNCHANGED vars

(* ... otherwise help: tryRunOne steals one task from anywhere. *)
BlockLook(c) ==
    /\ caller[c].pc = "wait"
    /\ ran[<<c, 1>>] = 0
    /\ caller' = IF top < Len(items)
                 THEN [caller EXCEPT ![c].pc = "cas", ![c].tp = top]
                 ELSE [caller EXCEPT ![c].pc = "scope"]
    /\ UNCHANGED <<queues, notify, closed, quit, worker, stopper, ran, quiet>>

BlockSteal(c) ==
    /\ caller[c].pc = "cas"
    /\ IF LostRace(caller[c].tp)
       THEN /\ caller' = [caller EXCEPT ![c].pc = "scope"]
            /\ UNCHANGED top
       ELSE /\ caller' = [caller EXCEPT ![c].pc = "run", ![c].task = Oldest]
            /\ top' = top + 1
    /\ UNCHANGED <<items, scopeDq, scopes, pending, notify, closed, quit, worker, stopper, ran, quiet>>

BlockScope(c) ==
    /\ caller[c].pc = "scope"
    /\ \/ /\ \E s \in scopes :
              /\ scopeDq[s] # <<>>
              /\ caller' = [caller EXCEPT ![c].pc = "run", ![c].task = Head(scopeDq[s])]
              /\ scopeDq' = [scopeDq EXCEPT ![s] = Tail(@)]
       \/ /\ \A s \in scopes : scopeDq[s] = <<>>
          /\ caller' = [caller EXCEPT ![c].pc = "wait"]
          /\ UNCHANGED scopeDq
    /\ UNCHANGED <<items, top, scopes, pending, notify, closed, quit, worker, stopper, ran, quiet>>

BlockRun(c) ==
    /\ caller[c].pc = "run"
    /\ RunTask(caller[c].task)
    /\ caller' = [caller EXCEPT ![c].pc = "wait", ![c].task = NoTask]
    /\ UNCHANGED <<items, top, scopeDq, scopes, notify, closed, quit, worker, stopper, quiet>>

-----------------------------------------------------------------------------
(* RunScope: register the deque, then the body spawns the children. *)
ScopeOpen(s) ==
    /\ s \in Scoper
    /\ caller[s].pc = "start"
    /\ scopes' = scopes \cup {s}
    /\ caller' = [caller EXCEPT ![s].pc = "spawn"]
    /\ UNCHANGED <<items, top, scopeDq, pending, notify, closed, quit, worker, stopper, ran, quiet>>

(* Scope.Spawn: count the child, push it, wake a worker. *)
ScopeCount(s) ==
    /\ caller[s].pc = "spawn"
    /\ pending' = [pending EXCEPT ![s] = @ + 1]
    /\ caller' = [caller EXCEPT ![s].pc = "child"]
    /\ UNCHANGED <<items, top, scopeDq, scopes, notify, closed, quit, worker, stopper, ran, quiet>>

ScopePush(s) ==
    /\ caller[s].pc = "child"
    /\ scopeDq' = [scopeDq EXCEPT ![s] = Append(@, Mine(s))]
    /\ caller' = [caller EXCEPT ![s].pc = "nudge"]
    /\ UNCHANGED <<items, top, scopes, pending, notify, closed, quit, worker, stopper, ran, quiet>>

ScopeWake(s) ==
    /\ caller[s].pc = "nudge"
    /\ Wake
    /\ caller' = IF caller[s].k < Spawns[s]
                 THEN [caller EXCEPT ![s].k = @ + 1, ![s].pc = "spawn"]
                 ELSE [caller EXCEPT ![s].pc = "join"]
    /\ UNCHANGED <<queues, closed, quit, worker, stopper, ran, quiet>>

(* The join: pop and run an own child, or yield; leave at pending = 0. *)
ScopePop(s) ==
    /\ caller[s].pc = "join"
    /\ pending[s] > 0
    /\ scopeDq[s] # <<>>
    /\ caller' = [caller EXCEPT ![s].pc = "child_run", ![s].task = scopeDq[s][Len(scopeDq[s])]]
    /\ scopeDq' = [scopeDq EXCEPT ![s] = SubSeq(@, 1, Len(@) - 1)]
    /\ UNCHANGED <<items, top, scopes, pending, notify, closed, quit, worker, stopper, ran, quiet>>

ScopeRun(s) ==
    /\ caller[s].pc = "child_run"
    /\ RunTask(caller[s].task)
    /\ caller' = [caller EXCEPT ![s].pc = "join", ![s].task = NoTask]
    /\ UNCHANGED <<items, top, scopeDq, scopes, notify, closed, quit, worker, stopper, quiet>>

(* Mutant: the join ends at an empty deque, children in flight or not. *)
ScopeCloseEarly(s) ==
    /\ caller[s].pc = "join"
    /\ scopeDq[s] = <<>>
    /\ scopes' = scopes \ {s}
    /\ caller' = [caller EXCEPT ![s].pc = "end"]
    /\ UNCHANGED <<items, top, scopeDq, pending, notify, closed, quit, worker, stopper, ran, quiet>>

ScopeClose(s) ==
    /\ caller[s].pc = "join"
    /\ pending[s] <= 0
    /\ scopes' = scopes \ {s}
    /\ caller' = [caller EXCEPT ![s].pc = "end"]
    /\ UNCHANGED <<items, top, scopeDq, pending, notify, closed, quit, worker, stopper, ran, quiet>>

CallerNext(c) ==
    \/ SpawnInline(c) \/ SubmitCheck(c) \/ SubmitPush(c) \/ SubmitWake(c)
    \/ BlockReturn(c) \/ BlockLook(c) \/ BlockSteal(c) \/ BlockScope(c) \/ BlockRun(c)
    \/ ScopeOpen(c) \/ ScopeCount(c) \/ ScopePush(c) \/ ScopeWake(c)
    \/ ScopePop(c) \/ ScopeRun(c) \/ ScopeClose(c)

-----------------------------------------------------------------------------
CallersDone == \A c \in Caller : caller[c].pc \in {"end", "absent"}

(* Shutdown: refuse submissions, then tell the workers and wait for them.  *)
ShutdownClose ==
    /\ stopper = "idle"
    /\ closed' = TRUE
    /\ quiet' = CallersDone
    /\ stopper' = "quit"
    /\ UNCHANGED <<queues, notify, quit, worker, caller, ran>>

ShutdownQuit ==
    /\ stopper = "quit"
    /\ quit' = TRUE
    /\ notify' = Cardinality(Worker)
    /\ stopper' = "join"
    /\ UNCHANGED <<queues, closed, worker, caller, ran, quiet>>

ShutdownJoin ==
    /\ stopper = "join"
    /\ \A w \in Worker : worker[w].pc = "exit"
    /\ stopper' = "end"
    /\ UNCHANGED <<queues, notify, closed, quit, worker, caller, ran, quiet>>

Next ==
    \/ \E w \in Worker : WorkerNext(w)
    \/ \E c \in Caller : CallerNext(c)
    \/ ShutdownClose \/ ShutdownQuit \/ ShutdownJoin

(* The Go scheduler preempts and every wait loop yields: no goroutine that *)
(* can run is passed over for ever.  Nothing obliges anyone to call        *)
(* Shutdown.                                                               *)
Fairness ==
    /\ \A w \in Worker : WF_vars(WorkerNext(w))
    /\ \A c \in Caller : WF_vars(CallerNext(c))
    /\ WF_vars(ShutdownQuit \/ ShutdownJoin)

Spec == Init /\ [][Next]_vars /\ Fairness

-----------------------------------------------------------------------------
(* The pool's state has its declared shape. *)
TypeOK ==
    /\ items \in Seq(Task) /\ top \in 0 .. Len(items)
    /\ scopeDq \in [Scoper -> Seq(Task)] /\ scopes \in SUBSET Scoper
    /\ \A s \in Scoper : pending[s] \in 0 .. Spawns[s]
    /\ notify \in 0 .. Cardinality(Worker)
    /\ \A w \in Worker : worker[w].task \in Task \cup {NoTask}
    /\ ran \in [Task -> Nat]

(* Whatever steals, pops and waits race for a task, it runs at most once. *)
RunsOnce == \A t \in Task : ran[t] <= 1

(* l2-task-system INV-2 (scope.go:8-10).  A scope is closed only when      *)
(* every child spawned in it has finished, so what a child borrowed from   *)
(* the caller's stack outlives it.                                         *)
ScopeOutlivesChildren ==
    \A s \in Scoper : caller[s].pc = "end" => \A k \in 1 .. Spawns[s] : ran[<<s, k>>] = 1

AllParked ==
    /\ \A w \in Worker : worker[w].pc = "park"
    /\ notify = 0
    /\ \A c \in Caller : caller[c].pc \in {"start", "end", "absent"}

(* pool.go:255, "Genuinely empty: park until woken".  When every worker is *)
(* parked, no token can wake one and no caller is on its way to a wake-up, *)
(* no task is left waiting.                                                *)
ParkedOnlyWhenEmpty == AllParked => top = Len(items)

(* The part of it that holds: as long as no BlockOn waiter has stolen      *)
(* beside the workers, a lost race always has a worker as its winner, and  *)
(* that worker looks again.                                                *)
ParkedWithoutHelpers ==
    AllParked /\ (\A b \in Blocker : caller[b].pc \in {"start", "absent"}) => top = Len(items)

AllRan == top = Len(items) /\ \A k \in 1 .. Len(items) : ran[items[k]] = 1

(* l2-task-system INV-4 (pool.go:13-14, :266-267).  Once Shutdown has      *)
(* joined the workers, everything that was ever queued has run.            *)
DrainedAtExit == stopper = "end" => AllRan

(* The part of it that holds: a Shutdown that starts after the last caller *)
(* has finished drains everything, stranded tasks included.                *)
DrainedWhenQuiet == stopper = "end" /\ quiet => AllRan

(* pool.go:194, :255 and :266-267.  Both: workers that sleep or are gone   *)
(* have left nothing behind, as far as the code guarantees it.             *)
RestMeansDone == ParkedWithoutHelpers /\ DrainedWhenQuiet

(* scope.go:23-25.  A scope always ends, even when the pool is shut down   *)
(* under it, because its own goroutine drains its deque.                   *)
ScopesClose == \A s \in Scoper : (caller[s].pc = "spawn") ~> (caller[s].pc = "end")

(* handle.go:73-74.  A waiter that helps instead of sleeping is never      *)
(* stuck, whether it races the workers or the workers have left.           *)
BlockOnReturns == \A c \in Blocker : (caller[c].pc = "wait") ~> (caller[c].pc = "end")

(* scope.go:23-25 and handle.go:73-74.  Both: whoever waits for tasks is   *)
(* released.                                                               *)
EveryoneReturns == ScopesClose /\ BlockOnReturns
=============================================================================
