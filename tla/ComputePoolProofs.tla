------------------------- MODULE ComputePoolProofs -------------------------
(***************************************************************************)
(* Proofs about ComputePool, for any number of workers and callers and any *)
(* number of spawns.                                                       *)
(*                                                                         *)
(* The inductive invariant follows each task: once its caller has spawned  *)
(* it, it waits in one place of one deque, or one goroutine holds it, or   *)
(* it has run.  A scope's pending counts exactly its children that have    *)
(* been counted and have not run.  And while a task waits, some goroutine  *)
(* has still to look for it.                                               *)
(***************************************************************************)
EXTENDS ComputePool, FiniteSetTheorems, TLAPS

USE PoolAssumption DEF PoolAssumption

WorkerPlaces == {"scan", "cas", "scope", "run", "park", "exit"}
ScoperPlaces == {"absent", "start", "spawn", "child", "nudge", "join", "child_run", "end"}
SpawnPlaces == {"absent", "start", "push", "wake", "end"}
BlockPlaces == {"wait", "cas", "scope", "run"}
Workers == [pc : WorkerPlaces, tp : Nat, task : Task \cup {NoTask}, draining : BOOLEAN]
Callers == [pc : ScoperPlaces \cup SpawnPlaces \cup BlockPlaces, k : Nat \ {0}, tp : Nat, task : Task \cup {NoTask}]

PoolShape ==
    /\ items \in Seq(Task) /\ top \in Nat /\ top <= Len(items)
    /\ scopeDq \in [Scoper -> Seq(Task)] /\ scopes \in SUBSET Scoper
    /\ pending \in [Scoper -> Int]
    /\ notify \in 0 .. Cardinality(Worker)
    /\ closed \in BOOLEAN /\ quit \in BOOLEAN /\ quiet \in BOOLEAN
    /\ stopper \in {"idle", "quit", "join", "end"}
    /\ worker \in [Worker -> Workers] /\ caller \in [Caller -> Callers]
    /\ ran \in [Task -> Nat]

(* Each caller does what its role does, and goes through its spawns once.  *)
RoleOf(c, me) ==
    /\ me.k <= Spawns[c]
    /\ c \in Scoper => me.pc \in ScoperPlaces
    /\ c \notin Scoper => me.pc \in SpawnPlaces \cup BlockPlaces
    /\ c \notin Scoper /\ c \notin Blocker => me.pc \in SpawnPlaces
    /\ c \in Scoper /\ me.pc \in {"join", "child_run", "end"} => me.k = Spawns[c]
Roles == \A c \in Caller : RoleOf(c, caller[c])

(* Who is about to move top has seen a task at the place it read. *)
Looked ==
    /\ \A w \in Worker : worker[w].pc = "cas" => worker[w].tp < Len(items)
    /\ \A c \in Caller : caller[c].pc = "cas" => caller[c].tp < Len(items)

(* A task exists from the moment it is in a deque, or ran inline. *)
Past(me, k, before) == k < me.k \/ (k = me.k /\ me.pc \notin before)
Unspawned == {"absent", "start", "push", "spawn", "child"}
IsSpawned(t) == Past(caller[t[1]], t[2], Unspawned)

Goroutine == Worker \cup Caller

(* The goroutine r is running the task t. *)
Holds(r, t) ==
    \/ r \in Worker /\ worker[r].pc = "run" /\ worker[r].task = t
    \/ r \in Caller /\ caller[r].pc \in {"run", "child_run"} /\ caller[r].task = t

(* A task waits in at most one place, nobody runs it then, and it has not run. *)
ItemsSound ==
    \A i \in 1 .. Len(items) :
        /\ IsSpawned(items[i]) /\ items[i][1] \notin Scoper
        /\ \A j \in 1 .. Len(items) : items[i] = items[j] => i = j
        /\ i > top => ran[items[i]] = 0 /\ \A r \in Goroutine : ~Holds(r, items[i])
ScopesSound ==
    \A s \in Scoper : \A i \in 1 .. Len(scopeDq[s]) :
        /\ IsSpawned(scopeDq[s][i]) /\ scopeDq[s][i][1] = s
        /\ \A j \in 1 .. Len(scopeDq[s]) : scopeDq[s][i] = scopeDq[s][j] => i = j
        /\ ran[scopeDq[s][i]] = 0 /\ \A r \in Goroutine : ~Holds(r, scopeDq[s][i])

(* A task that is being run has one goroutine, and has not run before. *)
HandsSound ==
    \A r \in Goroutine, t \in Task \cup {NoTask} : Holds(r, t) =>
        /\ t \in Task /\ IsSpawned(t) /\ ran[t] = 0
        /\ \A q \in Goroutine : Holds(q, t) => q = r

RanSound == \A t \in Task : ran[t] <= 1 /\ (ran[t] = 1 => IsSpawned(t))

(* What was taken from the deque has run, or somebody is running it. *)
TakenKept ==
    \A i \in 1 .. top : ran[items[i]] = 1 \/ \E r \in Goroutine : Holds(r, items[i])

TasksPlaced == ItemsSound /\ ScopesSound /\ HandsSound /\ RanSound /\ TakenKept

(* pending counts the children that have been counted and have not run. *)
Uncounted == {"absent", "start", "spawn"}
Counted(s, k) == Past(caller[s], k, Uncounted)
Outstanding(s) == {k \in 1 .. Spawns[s] : Counted(s, k) /\ ran[<<s, k>>] = 0}
PendingExact == \A s \in Scoper : pending[s] = Cardinality(Outstanding(s))

(* A worker that will look at the deque again, if it is not empty. *)
WillLook(w) == worker[w].pc \in {"scan", "run"} \/ (worker[w].pc = "cas" /\ worker[w].tp = top)

(* As long as nobody but workers steals, one of them will look, or be woken. *)
NoHelper == \A b \in Blocker : caller[b].pc \notin BlockPlaces \cup {"end"}
Attended ==
    NoHelper /\ top < Len(items) =>
        \/ notify > 0
        \/ \E w \in Worker : WillLook(w)
        \/ \E w \in Worker : worker[w].pc = "exit"
        \/ \E c \in Caller : caller[c].pc = "wake"

(* After the last caller, the last worker to leave finds the deque empty. *)
Drained ==
    /\ \A w \in Worker : worker[w].pc = "exit" => worker[w].draining
    /\ \A w \in Worker : worker[w].draining => quit
    /\ stopper = "idle" => ~quit /\ ~quiet
    /\ stopper = "quit" => ~quit
    /\ stopper = "end" => \A w \in Worker : worker[w].pc = "exit"
    /\ quiet => CallersDone
    /\ quiet /\ top < Len(items) => \E w \in Worker : WillLook(w) \/ ~worker[w].draining

PoolInv == PoolShape /\ Roles /\ Looked /\ TasksPlaced /\ PendingExact /\ Attended /\ Drained

-----------------------------------------------------------------------------
(* A task is a caller and a number. *)
LEMMA TaskFacts ==
    /\ \A c \in Caller : \A k \in 1 .. Spawns[c] : <<c, k>> \in Task
    /\ \A t \in Task : t[1] \in Caller /\ t[2] \in 1 .. Spawns[t[1]] /\ t = <<t[1], t[2]>>
    /\ NoTask \notin Task
    /\ \A c \in Caller : Spawns[c] \in Nat \ {0}
<1>1. \A c \in Caller : Spawns[c] \in Nat \ {0}
    BY DEF Caller
<1>2. \A c \in Caller : \A k \in 1 .. Spawns[c] : <<c, k>> \in Task
    BY DEF Task
<1>3. ASSUME NEW t \in Task
      PROVE  t[1] \in Caller /\ t[2] \in 1 .. Spawns[t[1]] /\ t = <<t[1], t[2]>>
    BY DEF Task
<1>4. NoTask \notin Task
    <2> SUFFICES ASSUME NoTask \in Task PROVE FALSE
        OBVIOUS
    <2>1. NoTask[2] \in 1 .. Spawns[NoTask[1]] /\ Spawns[NoTask[1]] \in Nat
        BY <1>1, <1>3
    <2>2. NoTask[2] = 0
        BY DEF NoTask
    <2> QED BY <2>1, <2>2
<1> QED BY <1>1, <1>2, <1>3, <1>4

(* The elements of the deques are tasks. *)
LEMMA QueueFacts ==
    ASSUME PoolShape
    PROVE  /\ Len(items) \in Nat /\ \A i \in 1 .. Len(items) : items[i] \in Task
           /\ \A s \in Scoper : /\ scopeDq[s] \in Seq(Task) /\ Len(scopeDq[s]) \in Nat
                                /\ \A i \in 1 .. Len(scopeDq[s]) : scopeDq[s][i] \in Task
BY DEF PoolShape

(* A step that takes no task and runs none, and forgets no spawn, leaves   *)
(* the tasks placed.                                                       *)
LEMMA TasksStay ==
    ASSUME PoolShape, TasksPlaced, UNCHANGED <<items, top, scopeDq, ran>>,
           \A t \in Task : IsSpawned(t) => IsSpawned(t)',
           \A r \in Goroutine, t \in Task \cup {NoTask} : Holds(r, t)' <=> Holds(r, t)
    PROVE  TasksPlaced'
<1>1. ItemsSound'
    BY QueueFacts DEF TasksPlaced, ItemsSound
<1>2. ScopesSound'
    BY QueueFacts DEF TasksPlaced, ScopesSound
<1>3. HandsSound'
    BY DEF TasksPlaced, HandsSound
<1>4. RanSound'
    BY DEF TasksPlaced, RanSound
<1>5. TakenKept'
    BY QueueFacts DEF TasksPlaced, TakenKept, PoolShape
<1> QED BY <1>1, <1>2, <1>3, <1>4, <1>5 DEF TasksPlaced

(* A won compare-and-swap moves the oldest task into one goroutine's hands. *)
LEMMA TaskTaken ==
    ASSUME PoolShape, TasksPlaced, NEW r \in Goroutine, top < Len(items), top' = top + 1,
           UNCHANGED <<items, scopeDq, ran>>,
           \A t \in Task : IsSpawned(t)' <=> IsSpawned(t),
           \A q \in Goroutine, t \in Task \cup {NoTask} :
               Holds(q, t)' <=> Holds(q, t) \/ (q = r /\ t = Oldest)
    PROVE  TasksPlaced'
<1>1. top \in Nat /\ top + 1 \in 1 .. Len(items) /\ Oldest \in Task /\ Oldest = items[top + 1]
    BY QueueFacts DEF PoolShape, Oldest
<1>2. /\ IsSpawned(Oldest) /\ ran[Oldest] = 0 /\ Oldest[1] \notin Scoper
      /\ \A q \in Goroutine : ~Holds(q, Oldest)
      /\ \A i \in 1 .. Len(items) : items[i] = Oldest => i = top + 1
    BY <1>1 DEF TasksPlaced, ItemsSound
<1> HIDE DEF Oldest
<1>3. ItemsSound'
    BY <1>1, <1>2, QueueFacts DEF TasksPlaced, ItemsSound
<1>4. ScopesSound'
    <2>1. \A s \in Scoper : \A i \in 1 .. Len(scopeDq[s]) : scopeDq[s][i] # Oldest
        BY <1>2 DEF TasksPlaced, ScopesSound
    <2> QED BY <2>1, QueueFacts DEF TasksPlaced, ScopesSound
<1>5. HandsSound'
    BY <1>1, <1>2 DEF TasksPlaced, HandsSound
<1>6. RanSound'
    BY DEF TasksPlaced, RanSound
<1>7. TakenKept'
    BY <1>1, QueueFacts DEF TasksPlaced, TakenKept, PoolShape
<1> QED BY <1>3, <1>4, <1>5, <1>6, <1>7 DEF TasksPlaced

(* So does taking a child from either end of a scope's deque. *)
OneLess(dq, t0, rest) ==
    /\ \E i \in 1 .. Len(dq) : t0 = dq[i]
    /\ \E d \in {0, 1} : \A i \in 1 .. Len(rest) :
           i + d \in 1 .. Len(dq) /\ rest[i] = dq[i + d] /\ rest[i] # t0

LEMMA ChildTaken ==
    ASSUME PoolShape, TasksPlaced, NEW r \in Goroutine, NEW s \in Scoper, NEW t0, NEW rest \in Seq(Task),
           scopeDq' = [scopeDq EXCEPT ![s] = rest], OneLess(scopeDq[s], t0, rest),
           UNCHANGED <<items, top, ran>>,
           \A t \in Task : IsSpawned(t)' <=> IsSpawned(t),
           \A q \in Goroutine, t \in Task \cup {NoTask} : Holds(q, t)' <=> Holds(q, t) \/ (q = r /\ t = t0)
    PROVE  TasksPlaced'
<1>1. /\ t0 \in Task /\ IsSpawned(t0) /\ ran[t0] = 0 /\ t0[1] = s
      /\ \A q \in Goroutine : ~Holds(q, t0)
    BY QueueFacts DEF TasksPlaced, ScopesSound, OneLess
<1>2. ItemsSound'
    <2>1. \A i \in 1 .. Len(items) : items[i] # t0
        BY <1>1 DEF TasksPlaced, ItemsSound
    <2> QED BY <2>1, QueueFacts DEF TasksPlaced, ItemsSound
<1>3. ScopesSound'
    <2> SUFFICES ASSUME NEW z \in Scoper, NEW i \in 1 .. Len(scopeDq'[z])
                 PROVE  /\ IsSpawned(scopeDq[z][i])' /\ scopeDq'[z][i][1] = z
                        /\ \A j \in 1 .. Len(scopeDq'[z]) : scopeDq'[z][i] = scopeDq'[z][j] => i = j
                        /\ ran'[scopeDq'[z][i]] = 0
                        /\ \A q \in Goroutine : ~Holds(q, scopeDq[z][i])'
        BY DEF ScopesSound
    <2>1. CASE z = s
        <3>1. scopeDq'[z] = rest
            BY <2>1 DEF PoolShape
        <3>2. PICK d \in {0, 1} : \A j \in 1 .. Len(rest) :
                 /\ j + d \in 1 .. Len(scopeDq[s])
                 /\ rest[j] = scopeDq[s][j + d] /\ rest[j] # t0
            BY DEF OneLess
        <3>3. rest[i] \in Task /\ rest[i] = scopeDq[s][i + d] /\ i + d \in 1 .. Len(scopeDq[s]) /\ rest[i] # t0
            BY <3>1, <3>2
        <3>4. /\ IsSpawned(rest[i]) /\ rest[i][1] = s /\ ran[rest[i]] = 0
              /\ \A q \in Goroutine : ~Holds(q, rest[i])
            BY <3>3 DEF TasksPlaced, ScopesSound
        <3>5. \A j \in 1 .. Len(rest) : rest[i] = rest[j] => i = j
            BY <3>1, <3>2, <3>3 DEF TasksPlaced, ScopesSound
        <3> QED BY <2>1, <3>1, <3>3, <3>4, <3>5
    <2>2. CASE z # s
        <3>1. scopeDq'[z] = scopeDq[z]
            BY <2>2 DEF PoolShape
        <3>2. scopeDq[z][i] \in Task /\ scopeDq[z][i] # t0
            BY <1>1, <2>2, <3>1, QueueFacts DEF TasksPlaced, ScopesSound
        <3> QED BY <3>1, <3>2 DEF TasksPlaced, ScopesSound
    <2> QED BY <2>1, <2>2
<1>4. HandsSound'
    BY <1>1 DEF TasksPlaced, HandsSound
<1>5. RanSound'
    BY DEF TasksPlaced, RanSound
<1>6. TakenKept'
    BY QueueFacts DEF TasksPlaced, TakenKept, PoolShape
<1> QED BY <1>2, <1>3, <1>4, <1>5, <1>6 DEF TasksPlaced

(* Running a task ends its goroutine's hold on it. *)
LEMMA TaskRun ==
    ASSUME PoolShape, TasksPlaced, NEW r \in Goroutine, NEW t0 \in Task, Holds(r, t0),
           ran' = [ran EXCEPT ![t0] = @ + 1],
           UNCHANGED <<items, top, scopeDq>>,
           \A t \in Task : IsSpawned(t)' <=> IsSpawned(t),
           \A q \in Goroutine, t \in Task \cup {NoTask} : Holds(q, t)' <=> Holds(q, t) /\ q # r
    PROVE  TasksPlaced'
<1>1. IsSpawned(t0) /\ ran[t0] = 0 /\ \A q \in Goroutine : Holds(q, t0) => q = r
    BY DEF TasksPlaced, HandsSound
<1>2. ran'[t0] = 1 /\ \A t \in Task : t # t0 => ran'[t] = ran[t]
    BY <1>1 DEF PoolShape
<1>3. \A t \in Task : Holds(r, t) => t = t0
    BY TaskFacts DEF Holds, Goroutine, Caller
<1>4. ItemsSound'
    <2>1. \A i \in 1 .. Len(items) : i > top => items[i] # t0
        BY DEF TasksPlaced, ItemsSound
    <2> QED BY <1>2, <2>1, QueueFacts DEF TasksPlaced, ItemsSound
<1>5. ScopesSound'
    <2>1. \A s \in Scoper : \A i \in 1 .. Len(scopeDq[s]) : scopeDq[s][i] # t0
        BY DEF TasksPlaced, ScopesSound
    <2> QED BY <1>2, <2>1, QueueFacts DEF TasksPlaced, ScopesSound
<1>6. HandsSound'
    BY <1>1, <1>2 DEF TasksPlaced, HandsSound
<1>7. RanSound'
    BY <1>1, <1>2 DEF TasksPlaced, RanSound
<1>8. TakenKept'
    <2> SUFFICES ASSUME NEW i \in 1 .. top PROVE ran'[items[i]] = 1 \/ \E q \in Goroutine : Holds(q, items[i])'
        BY DEF TakenKept
    <2>1. items[i] \in Task
        BY QueueFacts DEF PoolShape
    <2>2. ran[items[i]] = 1 \/ \E q \in Goroutine : Holds(q, items[i])
        BY DEF TasksPlaced, TakenKept
    <2>3. Holds(r, items[i]) => items[i] = t0
        BY <1>3, <2>1
    <2> QED BY <1>2, <2>1, <2>2, <2>3
<1> QED BY <1>4, <1>5, <1>6, <1>7, <1>8 DEF TasksPlaced

(* Spawning: a task that was nowhere is pushed on the deque, ... *)
LEMMA TaskNowhere ==
    ASSUME PoolShape, TasksPlaced, NEW t0 \in Task, ~IsSpawned(t0)
    PROVE  /\ ran[t0] = 0
           /\ \A i \in 1 .. Len(items) : items[i] # t0
           /\ \A s \in Scoper : \A i \in 1 .. Len(scopeDq[s]) : scopeDq[s][i] # t0
           /\ \A r \in Goroutine : ~Holds(r, t0)
<1>1. ran[t0] \in Nat /\ ran[t0] <= 1 /\ ran[t0] # 1
    BY DEF PoolShape, TasksPlaced, RanSound
<1> QED BY <1>1 DEF TasksPlaced, ItemsSound, ScopesSound, HandsSound

LEMMA TaskPushed ==
    ASSUME PoolShape, TasksPlaced, NEW t0 \in Task, ~IsSpawned(t0), t0[1] \notin Scoper,
           items' = Append(items, t0),
           UNCHANGED <<top, scopeDq, ran>>,
           \A t \in Task : IsSpawned(t)' <=> IsSpawned(t) \/ t = t0,
           \A r \in Goroutine, t \in Task \cup {NoTask} : Holds(r, t)' <=> Holds(r, t)
    PROVE  TasksPlaced'
<1>1. /\ items \in Seq(Task) /\ Len(items) \in Nat /\ Len(items') = Len(items) + 1 /\ top <= Len(items)
      /\ items'[Len(items) + 1] = t0 /\ \A i \in 1 .. Len(items) : items'[i] = items[i] /\ items[i] \in Task
    BY QueueFacts DEF PoolShape
<1>2. /\ ran[t0] = 0 /\ (\A i \in 1 .. Len(items) : items[i] # t0) /\ \A r \in Goroutine : ~Holds(r, t0)
    BY TaskNowhere
<1>3. ItemsSound'
    <2> SUFFICES ASSUME NEW i \in 1 .. Len(items) + 1
                 PROVE  /\ IsSpawned(items[i])' /\ items'[i][1] \notin Scoper
                        /\ \A j \in 1 .. Len(items) + 1 : items'[i] = items'[j] => i = j
                        /\ i > top => ran'[items'[i]] = 0 /\ \A r \in Goroutine : ~Holds(r, items[i])'
        BY <1>1 DEF ItemsSound
    <2>1. CASE i = Len(items) + 1
        BY <1>1, <1>2, <2>1
    <2>2. CASE i \in 1 .. Len(items)
        <3>1. /\ IsSpawned(items[i]) /\ items[i][1] \notin Scoper /\ items[i] \in Task /\ items'[i] = items[i]
              /\ \A j \in 1 .. Len(items) : items[i] = items[j] => i = j
              /\ i > top => ran[items[i]] = 0 /\ \A r \in Goroutine : ~Holds(r, items[i])
            BY <1>1, <2>2 DEF TasksPlaced, ItemsSound
        <3>2. ASSUME NEW j \in 1 .. Len(items) + 1, items'[i] = items'[j] PROVE i = j
            BY <1>1, <1>2, <2>2, <3>1, <3>2
        <3> QED BY <3>1, <3>2
    <2> QED BY <1>1, <2>1, <2>2
<1>4. ScopesSound'
    BY QueueFacts DEF TasksPlaced, ScopesSound
<1>5. HandsSound'
    BY DEF TasksPlaced, HandsSound
<1>6. RanSound'
    BY DEF TasksPlaced, RanSound
<1>7. TakenKept'
    <2>1. \A i \in 1 .. top : items'[i] = items[i] /\ items[i] \in Task
        BY <1>1 DEF PoolShape
    <2> QED BY ZenonT(40), <2>1 DEF TasksPlaced, TakenKept
<1> QED BY <1>3, <1>4, <1>5, <1>6, <1>7 DEF TasksPlaced

(* ... or on its scope's deque, ... *)
LEMMA ChildPushed ==
    ASSUME PoolShape, TasksPlaced, NEW t0 \in Task, ~IsSpawned(t0), NEW s \in Scoper, t0[1] = s,
           scopeDq' = [scopeDq EXCEPT ![s] = Append(@, t0)],
           UNCHANGED <<items, top, ran>>,
           \A t \in Task : IsSpawned(t)' <=> IsSpawned(t) \/ t = t0,
           \A r \in Goroutine, t \in Task \cup {NoTask} : Holds(r, t)' <=> Holds(r, t)
    PROVE  TasksPlaced'
<1> DEFINE n == Len(scopeDq[s])
<1>1. /\ scopeDq[s] \in Seq(Task) /\ n \in Nat /\ Len(scopeDq'[s]) = n + 1
      /\ scopeDq'[s][n + 1] = t0 /\ \A i \in 1 .. n : scopeDq'[s][i] = scopeDq[s][i] /\ scopeDq[s][i] \in Task
      /\ \A z \in Scoper : z # s => scopeDq'[z] = scopeDq[z]
    BY QueueFacts DEF PoolShape
<1>2. /\ ran[t0] = 0 /\ \A r \in Goroutine : ~Holds(r, t0)
      /\ \A z \in Scoper : \A i \in 1 .. Len(scopeDq[z]) : scopeDq[z][i] # t0
    BY TaskNowhere
<1>3. ItemsSound'
    BY QueueFacts DEF TasksPlaced, ItemsSound
<1>4. ScopesSound'
    <2> SUFFICES ASSUME NEW z \in Scoper, NEW i \in 1 .. Len(scopeDq'[z])
                 PROVE  /\ IsSpawned(scopeDq[z][i])' /\ scopeDq'[z][i][1] = z
                        /\ \A j \in 1 .. Len(scopeDq'[z]) : scopeDq'[z][i] = scopeDq'[z][j] => i = j
                        /\ ran'[scopeDq'[z][i]] = 0
                        /\ \A q \in Goroutine : ~Holds(q, scopeDq[z][i])'
        BY DEF ScopesSound
    <2>1. CASE z = s /\ i = n + 1
        BY <1>1, <1>2, <2>1
    <2>2. CASE z = s /\ i \in 1 .. n
        BY <1>1, <1>2, <2>2 DEF TasksPlaced, ScopesSound
    <2>3. CASE z # s
        BY <1>1, <2>3, QueueFacts DEF TasksPlaced, ScopesSound
    <2> QED BY <1>1, <2>1, <2>2, <2>3
<1>5. HandsSound'
    BY DEF TasksPlaced, HandsSound
<1>6. RanSound'
    BY DEF TasksPlaced, RanSound
<1>7. TakenKept'
    BY QueueFacts DEF TasksPlaced, TakenKept, PoolShape
<1> QED BY <1>3, <1>4, <1>5, <1>6, <1>7 DEF TasksPlaced

(* ... or runs at once, when the pool is closed. *)
LEMMA TaskInlined ==
    ASSUME PoolShape, TasksPlaced, NEW t0 \in Task, ~IsSpawned(t0),
           ran' = [ran EXCEPT ![t0] = @ + 1],
           UNCHANGED <<items, top, scopeDq>>,
           \A t \in Task : IsSpawned(t)' <=> IsSpawned(t) \/ t = t0,
           \A r \in Goroutine, t \in Task \cup {NoTask} : Holds(r, t)' <=> Holds(r, t)
    PROVE  TasksPlaced'
<1>1. /\ ran[t0] = 0 /\ (\A i \in 1 .. Len(items) : items[i] # t0) /\ (\A r \in Goroutine : ~Holds(r, t0))
      /\ \A s \in Scoper : \A i \in 1 .. Len(scopeDq[s]) : scopeDq[s][i] # t0
    BY TaskNowhere
<1>2. ran'[t0] = 1 /\ \A t \in Task : t # t0 => ran'[t] = ran[t]
    BY <1>1 DEF PoolShape
<1>3. ItemsSound'
    BY <1>1, <1>2, QueueFacts DEF TasksPlaced, ItemsSound
<1>4. ScopesSound'
    BY <1>1, <1>2, QueueFacts DEF TasksPlaced, ScopesSound
<1>5. HandsSound'
    BY <1>1, <1>2 DEF TasksPlaced, HandsSound
<1>6. RanSound'
    BY <1>2 DEF TasksPlaced, RanSound
<1>7. TakenKept'
    BY <1>2, QueueFacts DEF TasksPlaced, TakenKept, PoolShape
<1> QED BY <1>3, <1>4, <1>5, <1>6, <1>7 DEF TasksPlaced

-----------------------------------------------------------------------------
(* pending is the size of a finite set; it stays exact when the children   *)
(* that are out stay the same, and follows one that comes or goes.         *)
LEMMA OutstandingFinite ==
    ASSUME NEW s \in Scoper
    PROVE  /\ IsFiniteSet(Outstanding(s)) /\ Cardinality(Outstanding(s)) \in Nat
           /\ Cardinality(Outstanding(s)) <= Spawns[s]
<1>1. Spawns[s] \in Nat
    BY TaskFacts DEF Caller
<1>2. IsFiniteSet(1 .. Spawns[s]) /\ Cardinality(1 .. Spawns[s]) = Spawns[s]
    BY <1>1, FS_Interval
<1>3. Outstanding(s) \in SUBSET (1 .. Spawns[s])
    BY DEF Outstanding
<1> QED BY <1>2, <1>3, FS_Subset, FS_CardinalityType

LEMMA PendingStays ==
    ASSUME PoolShape, PendingExact, UNCHANGED <<pending, ran>>,
           \A s \in Scoper : \A k \in 1 .. Spawns[s] : Counted(s, k)' <=> Counted(s, k)
    PROVE  PendingExact'
<1>1. \A s \in Scoper : Outstanding(s)' = Outstanding(s)
    BY DEF Outstanding
<1> QED BY <1>1 DEF PendingExact

LEMMA PendingRun ==
    ASSUME PoolShape, TasksPlaced, PendingExact, NEW r \in Goroutine, NEW t0 \in Task, Holds(r, t0), RunTask(t0),
           \A s \in Scoper : \A k \in 1 .. Spawns[s] : Counted(s, k)' <=> Counted(s, k)
    PROVE  PendingExact'
<1>1. t0[1] \in Caller /\ t0[2] \in 1 .. Spawns[t0[1]] /\ t0 = <<t0[1], t0[2]>>
    BY TaskFacts
<1>2. IsSpawned(t0) /\ ran[t0] = 0 /\ ran'[t0] = 1 /\ \A t \in Task : t # t0 => ran'[t] = ran[t]
    BY DEF TasksPlaced, HandsSound, RunTask, PoolShape
<1> SUFFICES ASSUME NEW s \in Scoper PROVE pending'[s] = Cardinality(Outstanding(s)')
    BY DEF PendingExact
<1>3. \A k \in 1 .. Spawns[s] : <<s, k>> \in Task /\ (<<s, k>> = t0 <=> s = t0[1] /\ k = t0[2])
    BY <1>1, TaskFacts DEF Caller
<1>4. CASE t0[1] = s
    <2>1. t0[2] \in Outstanding(s)
        <3>1. Counted(s, t0[2])
            BY <1>2, <1>4 DEF IsSpawned, Counted, Past, Unspawned, Uncounted
        <3> QED BY <1>1, <1>2, <1>4, <3>1 DEF Outstanding
    <2>2. Outstanding(s)' = Outstanding(s) \ {t0[2]}
        BY <1>1, <1>2, <1>3, <1>4 DEF Outstanding
    <2>3. Cardinality(Outstanding(s) \ {t0[2]}) = Cardinality(Outstanding(s)) - 1
        <3>1. IsFiniteSet(Outstanding(s))
            BY OutstandingFinite
        <3> DEFINE S == Outstanding(s)
                   x == t0[2]
        <3> HIDE DEF S, x
        <3>2. IsFiniteSet(S) /\ x \in S
            BY <2>1, <3>1 DEF S, x
        <3>3. Cardinality(S \ {x}) = Cardinality(S) - 1
            BY <3>2, FS_RemoveElement
        <3> QED BY <3>3 DEF S, x
    <2>4. pending'[s] = pending[s] - 1
        BY <1>4 DEF RunTask, PoolShape
    <2> QED BY <2>2, <2>3, <2>4 DEF PendingExact
<1>5. CASE t0[1] # s
    <2>1. Outstanding(s)' = Outstanding(s)
        BY <1>2, <1>3, <1>5 DEF Outstanding
    <2>2. pending'[s] = pending[s]
        BY <1>5 DEF RunTask, PoolShape
    <2> QED BY <2>1, <2>2 DEF PendingExact
<1> QED BY <1>4, <1>5

-----------------------------------------------------------------------------
(* A caller's own step: what its record says of spawns and of hands.       *)
LEMMA CallerRecords ==
    ASSUME PoolShape, NEW c \in Caller, NEW me \in Callers, caller' = [caller EXCEPT ![c] = me]
    PROVE  /\ caller' \in [Caller -> Callers] /\ caller'[c] = me
           /\ \A d \in Caller : d # c => caller'[d] = caller[d]
BY DEF PoolShape

(* A caller goes on to another place of its program, spawning, running and *)
(* taking nothing.                                                         *)
LEMMA CallerMoves ==
    ASSUME PoolShape, TasksPlaced, PendingExact, NEW c \in Caller, NEW me \in Callers,
           caller' = [caller EXCEPT ![c] = me],
           {caller[c].pc, me.pc} \cap {"run", "child_run"} = {},
           \/ /\ me.k = caller[c].k
              /\ me.pc \in Unspawned <=> caller[c].pc \in Unspawned
              /\ c \in Scoper => (me.pc \in Uncounted <=> caller[c].pc \in Uncounted)
           \/ /\ me.k = caller[c].k + 1
              /\ me.pc \in {"start", "spawn"} /\ caller[c].pc \notin Unspawned,
           UNCHANGED <<items, top, scopeDq, pending, ran, worker>>
    PROVE  TasksPlaced' /\ PendingExact'
<1>1. caller'[c] = me /\ \A d \in Caller : d # c => caller'[d] = caller[d]
    BY CallerRecords
<1>2. caller[c].k \in Nat /\ caller[c] \in Callers
    BY DEF PoolShape, Callers
<1>3. \A k \in Nat : Past(me, k, Unspawned) <=> Past(caller[c], k, Unspawned)
    BY <1>2 DEF Past, Unspawned
<1>4. c \in Scoper => \A k \in Nat : Past(me, k, Uncounted) <=> Past(caller[c], k, Uncounted)
    BY <1>2 DEF Past, Unspawned, Uncounted
<1>5. \A t \in Task : IsSpawned(t)' <=> IsSpawned(t)
    BY <1>1, <1>3, TaskFacts DEF IsSpawned
<1>6. \A s \in Scoper : \A k \in 1 .. Spawns[s] : Counted(s, k)' <=> Counted(s, k)
    <2>1. \A s \in Scoper : s \in Caller /\ Spawns[s] \in Nat
        BY TaskFacts DEF Caller
    <2> QED BY <1>1, <1>4, <2>1 DEF Counted
<1>7. \A r \in Goroutine, t \in Task \cup {NoTask} : Holds(r, t)' <=> Holds(r, t)
    BY <1>1 DEF Holds
<1> QED BY <1>5, <1>6, <1>7, TasksStay, PendingStays

LEMMA WorkerRecords ==
    ASSUME PoolShape, NEW w \in Worker, NEW me \in Workers, worker' = [worker EXCEPT ![w] = me]
    PROVE  /\ worker' \in [Worker -> Workers] /\ worker'[w] = me
           /\ \A v \in Worker : v # w => worker'[v] = worker[v]
BY DEF PoolShape

LEMMA WorkerMoves ==
    ASSUME PoolShape, TasksPlaced, PendingExact, NEW w \in Worker, NEW me \in Workers,
           worker' = [worker EXCEPT ![w] = me], {worker[w].pc, me.pc} \cap {"run"} = {},
           UNCHANGED <<items, top, scopeDq, pending, ran, caller>>
    PROVE  TasksPlaced' /\ PendingExact'
<1>1. worker'[w] = me /\ \A v \in Worker : v # w => worker'[v] = worker[v]
    BY WorkerRecords
<1>2. \A t \in Task : IsSpawned(t)' <=> IsSpawned(t)
    BY DEF IsSpawned
<1>3. \A s \in Scoper : \A k \in 1 .. Spawns[s] : Counted(s, k)' <=> Counted(s, k)
    BY DEF Counted
<1>4. \A r \in Goroutine, t \in Task \cup {NoTask} : Holds(r, t)' <=> Holds(r, t)
    BY <1>1 DEF Holds
<1> QED BY <1>2, <1>3, <1>4, TasksStay, PendingStays

(* Callers do not disturb those who will look for the tasks that wait: one *)
(* that was on its way to a wake-up leaves a token behind.                 *)
LEMMA CallerAttended ==
    ASSUME PoolShape, Attended, NEW c \in Caller, NEW me \in Callers, caller' = [caller EXCEPT ![c] = me],
           UNCHANGED <<items, top, worker>>, notify' \in Nat, notify <= notify',
           caller[c].pc = "wake" => notify' > 0,
           c \in Blocker /\ caller[c].pc \in BlockPlaces \cup {"end"} => me.pc \in BlockPlaces \cup {"end"}
    PROVE  Attended'
<1> SUFFICES ASSUME NoHelper', top < Len(items), ~(notify' > 0)
             PROVE  \/ \E w \in Worker : WillLook(w)'
                    \/ \E w \in Worker : worker'[w].pc = "exit"
                    \/ \E d \in Caller : caller'[d].pc = "wake"
    BY DEF Attended
<1>1. caller'[c] = me /\ \A d \in Caller : d # c => caller'[d] = caller[d]
    BY CallerRecords
<1>2. NoHelper
    <2>1. \A b \in Blocker : b \in Caller
        BY DEF Caller
    <2> QED BY <1>1, <2>1 DEF NoHelper
<1>3. ~(notify > 0) /\ caller[c].pc # "wake"
    BY DEF PoolShape
<1>4. \A w \in Worker : WillLook(w)' <=> WillLook(w)
    BY DEF WillLook
<1> QED BY <1>1, <1>2, <1>3, <1>4 DEF Attended

(* A caller that is still at work when Shutdown starts is no quiet one. *)
LEMMA CallerDrained ==
    ASSUME Drained, NEW c \in Caller, caller[c].pc \notin {"end", "absent"},
           UNCHANGED <<quit, worker, stopper, quiet>>
    PROVE  Drained'
<1>1. ~quiet
    BY DEF Drained, CallersDone
<1> QED BY <1>1 DEF Drained

LEMMA CallerShape ==
    ASSUME PoolInv, NEW c \in Caller, NEW me \in Callers, caller' = [caller EXCEPT ![c] = me], RoleOf(c, me),
           me.pc = "cas" => me.tp < Len(items), UNCHANGED worker, UNCHANGED items
    PROVE  caller' \in [Caller -> Callers] /\ Roles' /\ Looked'
<1>1. caller' \in [Caller -> Callers] /\ caller'[c] = me /\ \A d \in Caller : d # c => caller'[d] = caller[d]
    BY CallerRecords DEF PoolInv
<1>2. Roles'
    BY <1>1 DEF PoolInv, Roles, RoleOf
<1>3. Looked'
    BY <1>1 DEF PoolInv, Looked
<1> QED BY <1>1, <1>2, <1>3

(* The steps of a caller that touch no task. *)
LEMMA CallerNeutral ==
    ASSUME PoolInv, NEW c \in Caller, NEW me \in Callers, caller' = [caller EXCEPT ![c] = me],
           RoleOf(c, me), caller[c].pc \notin {"end", "absent", "run", "child_run"},
           me.pc \notin {"run", "child_run"},
           \/ /\ me.k = caller[c].k
              /\ me.pc \in Unspawned <=> caller[c].pc \in Unspawned
              /\ c \in Scoper => (me.pc \in Uncounted <=> caller[c].pc \in Uncounted)
           \/ /\ me.k = caller[c].k + 1
              /\ me.pc \in {"start", "spawn"} /\ caller[c].pc \notin Unspawned,
           caller[c].pc = "wake" => notify' > 0,
           c \in Blocker /\ caller[c].pc \in BlockPlaces => me.pc \in BlockPlaces \cup {"end"},
           me.pc = "cas" => me.tp < Len(items),
           scopes' \in SUBSET Scoper, notify' \in 0 .. Cardinality(Worker), notify <= notify',
           UNCHANGED <<items, top, scopeDq, pending, ran, worker, closed, quit, stopper, quiet>>
    PROVE  PoolInv'
<1> USE DEF PoolInv
<1>1. caller' \in [Caller -> Callers] /\ Roles' /\ Looked'
    BY CallerShape
<1>2. PoolShape'
    BY <1>1 DEF PoolShape
<1>3. TasksPlaced' /\ PendingExact'
    BY ZenonT(40), CallerMoves
<1>4. Cardinality(Worker) \in Nat
    BY FS_CardinalityType
<1>5. Attended'
    <2>1. notify' \in Nat
        BY <1>4
    <2>2. c \in Blocker /\ caller[c].pc \in BlockPlaces \cup {"end"} => me.pc \in BlockPlaces \cup {"end"}
        OBVIOUS
    <2> QED BY <2>1, <2>2, CallerAttended
<1>6. Drained'
    BY CallerDrained
<1> QED BY <1>1, <1>2, <1>3, <1>5, <1>6

(* wake adds a token or finds the channel full: there is one afterwards. *)
LEMMA WakeFacts ==
    ASSUME PoolShape, Wake
    PROVE  notify' \in 0 .. Cardinality(Worker) /\ notify' > 0 /\ notify <= notify'
<1>1. Cardinality(Worker) \in Nat /\ Cardinality(Worker) # 0
    BY FS_CardinalityType, FS_EmptySet
<1> QED BY <1>1 DEF Wake, PoolShape

LEMMA SubmitCheckInv == ASSUME PoolInv, NEW c \in Caller, SubmitCheck(c) PROVE PoolInv'
<1> DEFINE me == [caller[c] EXCEPT !.pc = "push"]
<1>1. caller[c] \in Callers /\ RoleOf(c, caller[c]) /\ caller \in [Caller -> Callers] /\ PoolShape
    BY DEF PoolInv, PoolShape, Roles
<1>2. me \in Callers /\ me.pc = "push" /\ me.k = caller[c].k
    BY <1>1 DEF Callers, SpawnPlaces
<1>3. caller' = [caller EXCEPT ![c] = me]
    BY <1>1 DEF SubmitCheck
<1>4. c \notin Scoper /\ caller[c].pc = "start" /\ UNCHANGED <<queues, notify, closed, quit, worker, stopper, ran, quiet>>
    BY DEF SubmitCheck
<1> HIDE DEF me
<1>5. RoleOf(c, me)
    BY <1>1, <1>2, <1>4 DEF RoleOf, SpawnPlaces
<1>6. notify \in 0 .. Cardinality(Worker) /\ notify <= notify /\ scopes \in SUBSET Scoper
    BY <1>1, FS_CardinalityType DEF PoolShape
<1> QED BY <1>2, <1>3, <1>4, <1>5, <1>6, CallerNeutral DEF queues, Unspawned, BlockPlaces

(* What every caller's step starts from. *)
LEMMA CallerFacts ==
    ASSUME PoolInv, NEW c \in Caller
    PROVE  /\ caller[c] \in Callers /\ RoleOf(c, caller[c]) /\ caller \in [Caller -> Callers] /\ PoolShape
           /\ caller[c].k \in Nat \ {0} /\ Spawns[c] \in Nat \ {0}
           /\ notify \in 0 .. Cardinality(Worker) /\ notify <= notify /\ scopes \in SUBSET Scoper
           /\ notify \in Nat /\ Cardinality(Worker) \in Nat
<1>1. caller[c] \in Callers /\ RoleOf(c, caller[c]) /\ caller \in [Caller -> Callers] /\ PoolShape
    BY DEF PoolInv, PoolShape, Roles
<1>2. caller[c].k \in Nat \ {0}
    BY <1>1 DEF Callers
<1>3. Cardinality(Worker) \in Nat
    BY FS_CardinalityType
<1> QED BY <1>1, <1>2, <1>3, TaskFacts DEF PoolShape

LEMMA SubmitWakeInv == ASSUME PoolInv, NEW c \in Caller, SubmitWake(c) PROVE PoolInv'
<1> DEFINE me == IF caller[c].k < Spawns[c] THEN [caller[c] EXCEPT !.k = @ + 1, !.pc = "start"]
                                            ELSE [caller[c] EXCEPT !.pc = AfterSpawns(c)]
<1>1. /\ caller[c].pc = "wake" /\ Wake
      /\ UNCHANGED <<queues, closed, quit, worker, stopper, ran, quiet>>
      /\ caller' = Spawned(c, AfterSpawns(c))
    BY DEF SubmitWake
<1>2. c \notin Scoper
    BY <1>1, CallerFacts DEF RoleOf, ScoperPlaces
<1>3. me \in Callers
    <2>1. [caller[c] EXCEPT !.k = @ + 1, !.pc = "start"] \in Callers
        <3>1. caller[c].k + 1 \in Nat \ {0} /\ caller[c] \in Callers
            BY CallerFacts
        <3>2. [caller[c] EXCEPT !.k = caller[c].k + 1, !.pc = "start"] \in Callers
            BY <3>1 DEF Callers, SpawnPlaces, BlockPlaces
        <3> QED BY <3>2
    <2>2. [caller[c] EXCEPT !.pc = AfterSpawns(c)] \in Callers
        BY CallerFacts DEF Callers, SpawnPlaces, BlockPlaces, AfterSpawns
    <2> QED BY <2>1, <2>2
<1>4. caller' = [caller EXCEPT ![c] = me]
    BY <1>1, CallerFacts DEF Spawned
<1>5. \/ me.k = caller[c].k + 1 /\ me.pc = "start" /\ me.k <= Spawns[c]
      \/ me.k = caller[c].k /\ me.pc = AfterSpawns(c) /\ me.k = Spawns[c]
    BY CallerFacts DEF Callers, RoleOf
<1> HIDE DEF me
<1>6. RoleOf(c, me)
    BY <1>2, <1>5, CallerFacts DEF RoleOf, SpawnPlaces, BlockPlaces, AfterSpawns
<1>7. me.pc \in {"start", "wait", "end"}
    BY <1>5 DEF AfterSpawns
<1>8. \/ /\ me.k = caller[c].k
         /\ me.pc \in Unspawned <=> caller[c].pc \in Unspawned
      \/ /\ me.k = caller[c].k + 1
         /\ me.pc \in {"start", "spawn"} /\ caller[c].pc \notin Unspawned
    BY <1>1, <1>5 DEF Unspawned, AfterSpawns
<1>9. notify' \in 0 .. Cardinality(Worker) /\ notify' > 0 /\ notify <= notify'
    BY <1>1, WakeFacts DEF PoolInv
<1> QED BY <1>1, <1>2, <1>3, <1>4, <1>6, <1>7, <1>8, <1>9, CallerFacts, CallerNeutral DEF queues, BlockPlaces

LEMMA BlockReturnInv == ASSUME PoolInv, NEW c \in Caller, BlockReturn(c) PROVE PoolInv'
<1> DEFINE me == [caller[c] EXCEPT !.pc = "end"]
<1>1. /\ caller[c].pc = "wait"
      /\ UNCHANGED <<queues, notify, closed, quit, worker, stopper, ran, quiet>>
      /\ caller' = [caller EXCEPT ![c].pc = "end"]
    BY DEF BlockReturn
<1>2. c \notin Scoper
    BY <1>1, CallerFacts DEF RoleOf, ScoperPlaces
<1>3. me \in Callers /\ me.pc = "end" /\ me.k = caller[c].k /\ caller' = [caller EXCEPT ![c] = me]
    BY <1>1, CallerFacts DEF Callers, SpawnPlaces
<1> HIDE DEF me
<1>4. RoleOf(c, me)
    BY <1>2, <1>3, CallerFacts DEF RoleOf, SpawnPlaces
<1> QED BY <1>1, <1>2, <1>3, <1>4, CallerFacts, CallerNeutral DEF queues, Unspawned

LEMMA BlockLookInv == ASSUME PoolInv, NEW c \in Caller, BlockLook(c) PROVE PoolInv'
<1> DEFINE me == IF top < Len(items) THEN [caller[c] EXCEPT !.pc = "cas", !.tp = top]
                                     ELSE [caller[c] EXCEPT !.pc = "scope"]
<1>1. /\ caller[c].pc = "wait"
      /\ UNCHANGED <<queues, notify, closed, quit, worker, stopper, ran, quiet>>
    BY DEF BlockLook
<1>2. c \notin Scoper /\ c \in Blocker
    BY <1>1, CallerFacts DEF RoleOf, ScoperPlaces, SpawnPlaces
<1>3. top \in Nat
    BY DEF PoolInv, PoolShape
<1>4. /\ me \in Callers /\ me.pc \in {"cas", "scope"} /\ me.k = caller[c].k
      /\ me.pc = "cas" => me.tp < Len(items)
    BY ZenonT(40), <1>3, CallerFacts DEF Callers, BlockPlaces
<1>5. caller' = [caller EXCEPT ![c] = me]
    BY CallerFacts DEF BlockLook
<1> HIDE DEF me
<1>6. RoleOf(c, me)
    BY <1>2, <1>4, CallerFacts DEF RoleOf, BlockPlaces
<1> QED BY <1>1, <1>2, <1>4, <1>5, <1>6, CallerFacts, CallerNeutral DEF queues, Unspawned, BlockPlaces

LEMMA ScopeOpenInv == ASSUME PoolInv, NEW c \in Caller, ScopeOpen(c) PROVE PoolInv'
<1> DEFINE me == [caller[c] EXCEPT !.pc = "spawn"]
<1>1. /\ c \in Scoper /\ caller[c].pc = "start" /\ scopes' = scopes \cup {c}
      /\ UNCHANGED <<items, top, scopeDq, pending, notify, closed, quit, worker, stopper, ran, quiet>>
      /\ caller' = [caller EXCEPT ![c].pc = "spawn"]
    BY DEF ScopeOpen
<1>2. me \in Callers /\ me.pc = "spawn" /\ me.k = caller[c].k /\ caller' = [caller EXCEPT ![c] = me]
    BY <1>1, CallerFacts DEF Callers, ScoperPlaces
<1> HIDE DEF me
<1>3. RoleOf(c, me)
    BY <1>1, <1>2, CallerFacts DEF RoleOf, ScoperPlaces
<1>4. scopes' \in SUBSET Scoper
    BY <1>1, CallerFacts
<1> QED BY <1>1, <1>2, <1>3, <1>4, CallerFacts, CallerNeutral DEF Unspawned, Uncounted, BlockPlaces

LEMMA ScopeWakeInv == ASSUME PoolInv, NEW c \in Caller, ScopeWake(c) PROVE PoolInv'
<1> DEFINE me == IF caller[c].k < Spawns[c] THEN [caller[c] EXCEPT !.k = @ + 1, !.pc = "spawn"]
                                            ELSE [caller[c] EXCEPT !.pc = "join"]
<1>1. /\ caller[c].pc = "nudge" /\ Wake
      /\ UNCHANGED <<queues, closed, quit, worker, stopper, ran, quiet>>
    BY DEF ScopeWake
<1>2. c \in Scoper
    BY <1>1, CallerFacts DEF RoleOf, SpawnPlaces, BlockPlaces
<1>3. me \in Callers
    <2>1. [caller[c] EXCEPT !.k = @ + 1, !.pc = "spawn"] \in Callers
        <3>1. caller[c].k + 1 \in Nat \ {0} /\ caller[c] \in Callers
            BY CallerFacts
        <3>2. [caller[c] EXCEPT !.k = caller[c].k + 1, !.pc = "spawn"] \in Callers
            BY <3>1 DEF Callers, ScoperPlaces
        <3> QED BY <3>2
    <2>2. [caller[c] EXCEPT !.pc = "join"] \in Callers
        BY CallerFacts DEF Callers, ScoperPlaces
    <2> QED BY <2>1, <2>2
<1>4. caller' = [caller EXCEPT ![c] = me]
    BY <1>1, CallerFacts DEF ScopeWake
<1>5. \/ me.k = caller[c].k + 1 /\ me.pc = "spawn" /\ me.k <= Spawns[c]
      \/ me.k = caller[c].k /\ me.pc = "join" /\ me.k = Spawns[c]
    <2>1. caller[c].k <= Spawns[c] /\ caller[c] \in Callers
        BY CallerFacts DEF RoleOf
    <2>2. CASE caller[c].k < Spawns[c]
        BY <2>1, <2>2, CallerFacts DEF Callers
    <2>3. CASE ~(caller[c].k < Spawns[c])
        BY <2>1, <2>3, CallerFacts DEF Callers
    <2> QED BY <2>2, <2>3
<1> HIDE DEF me
<1>6. RoleOf(c, me)
    BY <1>2, <1>5, CallerFacts DEF RoleOf, ScoperPlaces
<1>7. notify' \in 0 .. Cardinality(Worker) /\ notify' > 0 /\ notify <= notify'
    BY <1>1, WakeFacts DEF PoolInv
<1> QED BY <1>1, <1>2, <1>3, <1>4, <1>5, <1>6, <1>7, CallerFacts, CallerNeutral
        DEF queues, Unspawned, Uncounted, BlockPlaces

LEMMA ScopeCloseInv == ASSUME PoolInv, NEW c \in Caller, ScopeClose(c) PROVE PoolInv'
<1> DEFINE me == [caller[c] EXCEPT !.pc = "end"]
<1>1. /\ caller[c].pc = "join" /\ scopes' = scopes \ {c}
      /\ UNCHANGED <<items, top, scopeDq, pending, notify, closed, quit, worker, stopper, ran, quiet>>
      /\ caller' = [caller EXCEPT ![c].pc = "end"]
    BY DEF ScopeClose
<1>2. c \in Scoper
    BY <1>1, CallerFacts DEF RoleOf, SpawnPlaces, BlockPlaces
<1>3. me \in Callers /\ me.pc = "end" /\ me.k = caller[c].k /\ caller' = [caller EXCEPT ![c] = me]
    BY <1>1, CallerFacts DEF Callers, ScoperPlaces
<1> HIDE DEF me
<1>4. RoleOf(c, me)
    BY <1>1, <1>2, <1>3, CallerFacts DEF RoleOf, ScoperPlaces
<1>5. scopes' \in SUBSET Scoper
    BY <1>1, CallerFacts
<1> QED BY <1>1, <1>2, <1>3, <1>4, <1>5, CallerFacts, CallerNeutral DEF Unspawned, Uncounted, BlockPlaces

-----------------------------------------------------------------------------
(* A caller that spawns its next task makes exactly that one exist. *)
LEMMA CallerSpawns ==
    ASSUME PoolInv, NEW c \in Caller, NEW me \in Callers, caller' = [caller EXCEPT ![c] = me],
           caller[c].pc \in Unspawned,
           \/ me.k = caller[c].k /\ me.pc \notin Unspawned
           \/ me.k = caller[c].k + 1 /\ me.pc \in Unspawned,
           {caller[c].pc, me.pc} \cap {"run", "child_run"} = {}, UNCHANGED worker
    PROVE  /\ Mine(c) \in Task /\ Mine(c)[1] = c /\ Mine(c)[2] = caller[c].k /\ ~IsSpawned(Mine(c))
           /\ \A t \in Task : IsSpawned(t)' <=> IsSpawned(t) \/ t = Mine(c)
           /\ \A r \in Goroutine, t \in Task \cup {NoTask} : Holds(r, t)' <=> Holds(r, t)
<1>1. caller'[c] = me /\ \A d \in Caller : d # c => caller'[d] = caller[d]
    BY CallerRecords DEF PoolInv
<1>2. caller[c].k \in 1 .. Spawns[c]
    BY CallerFacts DEF RoleOf
<1>3. /\ Mine(c) \in Task /\ Mine(c)[1] = c /\ Mine(c)[2] = caller[c].k /\ ~IsSpawned(Mine(c))
    BY <1>2, TaskFacts DEF Mine, IsSpawned, Past
<1>4. \A k \in Nat : Past(me, k, Unspawned) <=> Past(caller[c], k, Unspawned) \/ k = caller[c].k
    BY <1>2 DEF Past
<1>5. ASSUME NEW t \in Task PROVE IsSpawned(t)' <=> IsSpawned(t) \/ t = Mine(c)
    <2>1. t[1] \in Caller /\ t[2] \in Nat /\ t = <<t[1], t[2]>>
        BY TaskFacts
    <2>2. CASE t[1] = c
        <3>1. t = Mine(c) <=> t[2] = caller[c].k
            BY <2>1, <2>2 DEF Mine
        <3> QED BY <1>1, <1>4, <2>1, <2>2, <3>1 DEF IsSpawned
    <2>3. CASE t[1] # c
        BY <1>1, <1>3, <2>1, <2>3 DEF IsSpawned
    <2> QED BY <2>2, <2>3
<1>6. \A r \in Goroutine, t \in Task \cup {NoTask} : Holds(r, t)' <=> Holds(r, t)
    BY <1>1 DEF Holds
<1> QED BY <1>3, <1>5, <1>6

(* Only a scope's own steps count its children. *)
LEMMA CountedSame ==
    ASSUME PoolInv, NEW c \in Caller, NEW me \in Callers, caller' = [caller EXCEPT ![c] = me],
           c \in Scoper => me.k = caller[c].k /\ (me.pc \in Uncounted <=> caller[c].pc \in Uncounted)
    PROVE  \A s \in Scoper : \A k \in 1 .. Spawns[s] : Counted(s, k)' <=> Counted(s, k)
<1>1. caller'[c] = me /\ \A d \in Caller : d # c => caller'[d] = caller[d]
    BY CallerRecords DEF PoolInv
<1>2. \A s \in Scoper : s \in Caller
    BY DEF Caller
<1> QED BY <1>1, <1>2 DEF Counted, Past

LEMMA RunShape ==
    ASSUME PoolShape, NEW t0 \in Task, ran' = [ran EXCEPT ![t0] = @ + 1]
    PROVE  ran' \in [Task -> Nat]
<1>1. ran \in [Task -> Nat] /\ ran[t0] + 1 \in Nat
    BY DEF PoolShape
<1>2. ran' = [ran EXCEPT ![t0] = ran[t0] + 1]
    OBVIOUS
<1> QED BY <1>1, <1>2

LEMMA PendingShape ==
    ASSUME PoolShape, NEW t0 \in Task, RunTask(t0)
    PROVE  pending' \in [Scoper -> Int]
<1>1. CASE t0[1] \in Scoper
    <2>1. pending[t0[1]] - 1 \in Int /\ pending \in [Scoper -> Int]
        BY <1>1 DEF PoolShape
    <2>2. pending' = [pending EXCEPT ![t0[1]] = pending[t0[1]] - 1]
        BY <1>1 DEF RunTask
    <2> QED BY <2>1, <2>2
<1>2. CASE t0[1] \notin Scoper
    BY <1>2 DEF RunTask, PoolShape
<1> QED BY <1>1, <1>2

LEMMA SpawnInlineInv == ASSUME PoolInv, NEW c \in Caller, SpawnInline(c) PROVE PoolInv'
<1> DEFINE me == IF caller[c].k < Spawns[c] THEN [caller[c] EXCEPT !.k = @ + 1, !.pc = "start"]
                                            ELSE [caller[c] EXCEPT !.pc = AfterSpawns(c)]
           t0 == Mine(c)
<1>1. /\ c \notin Scoper /\ caller[c].pc = "start" /\ RunTask(t0)
      /\ UNCHANGED <<items, top, scopeDq, scopes, notify, closed, quit, worker, stopper, quiet>>
    BY DEF SpawnInline
<1>2. me \in Callers
    <2>1. [caller[c] EXCEPT !.k = @ + 1, !.pc = "start"] \in Callers
        <3>1. caller[c].k + 1 \in Nat \ {0} /\ caller[c] \in Callers
            BY CallerFacts
        <3>2. [caller[c] EXCEPT !.k = caller[c].k + 1, !.pc = "start"] \in Callers
            BY <3>1 DEF Callers, SpawnPlaces, BlockPlaces
        <3> QED BY <3>2
    <2>2. [caller[c] EXCEPT !.pc = AfterSpawns(c)] \in Callers
        BY CallerFacts DEF Callers, SpawnPlaces, BlockPlaces, AfterSpawns
    <2> QED BY <2>1, <2>2
<1>3. caller' = [caller EXCEPT ![c] = me]
    BY CallerFacts DEF SpawnInline, Spawned
<1>4. \/ me.k = caller[c].k + 1 /\ me.pc = "start" /\ me.k <= Spawns[c]
      \/ me.k = caller[c].k /\ me.pc = AfterSpawns(c) /\ me.k = Spawns[c]
    BY CallerFacts DEF Callers, RoleOf
<1> HIDE DEF me
<1>5. RoleOf(c, me)
    BY <1>1, <1>4, CallerFacts DEF RoleOf, SpawnPlaces, BlockPlaces, AfterSpawns
<1>6. /\ t0 \in Task /\ t0[1] = c /\ ~IsSpawned(t0)
      /\ \A t \in Task : IsSpawned(t)' <=> IsSpawned(t) \/ t = t0
      /\ \A r \in Goroutine, t \in Task \cup {NoTask} : Holds(r, t)' <=> Holds(r, t)
    BY ZenonT(40), <1>1, <1>2, <1>3, <1>4, CallerSpawns DEF Unspawned, AfterSpawns
<1> HIDE DEF t0
<1>7. ran' = [ran EXCEPT ![t0] = @ + 1] /\ pending' = pending
    BY <1>1, <1>6 DEF RunTask
<1>8. TasksPlaced'
    BY <1>1, <1>6, <1>7, TaskInlined DEF PoolInv
<1>9. PendingExact'
    <2>1. \A s \in Scoper : \A k \in 1 .. Spawns[s] : Counted(s, k)' <=> Counted(s, k)
        BY <1>1, <1>2, <1>3, CountedSame
    <2>2. \A s \in Scoper : \A k \in 1 .. Spawns[s] : <<s, k>> # t0 /\ <<s, k>> \in Task
        BY ZenonT(40), <1>1, <1>6, TaskFacts DEF Caller
    <2>3. \A s \in Scoper : \A k \in 1 .. Spawns[s] : ran'[<<s, k>>] = ran[<<s, k>>]
        BY <1>7, <2>2 DEF PoolInv, PoolShape
    <2>4. \A s \in Scoper : Outstanding(s)' = Outstanding(s)
        BY <2>1, <2>3 DEF Outstanding
    <2> QED BY <1>7, <2>4 DEF PoolInv, PendingExact
<1>10. caller' \in [Caller -> Callers] /\ Roles' /\ Looked'
    <2>1. me.pc # "cas"
        BY <1>4 DEF AfterSpawns
    <2> QED BY <1>1, <1>2, <1>3, <1>5, <2>1, CallerShape
<1>11. PoolShape'
    <2>1. ran' \in [Task -> Nat]
        BY <1>6, <1>7, RunShape DEF PoolInv
    <2> QED BY <1>1, <1>7, <1>10, <2>1 DEF PoolInv, PoolShape
<1>12. Attended'
    BY <1>1, <1>2, <1>3, CallerFacts, CallerAttended DEF PoolInv, BlockPlaces
<1>13. Drained'
    BY <1>1, CallerDrained DEF PoolInv
<1> QED BY <1>8, <1>9, <1>10, <1>11, <1>12, <1>13 DEF PoolInv

LEMMA SubmitPushInv == ASSUME PoolInv, NEW c \in Caller, SubmitPush(c) PROVE PoolInv'
<1> DEFINE me == [caller[c] EXCEPT !.pc = "wake"]
           t0 == Mine(c)
<1>1. /\ caller[c].pc = "push" /\ items' = Append(items, t0)
      /\ UNCHANGED <<top, scopeDq, scopes, pending, notify, closed, quit, worker, stopper, ran, quiet>>
    BY DEF SubmitPush
<1>2. c \notin Scoper
    BY <1>1, CallerFacts DEF RoleOf, ScoperPlaces
<1>3. me \in Callers /\ me.pc = "wake" /\ me.k = caller[c].k
    BY CallerFacts DEF Callers, SpawnPlaces
<1>4. caller' = [caller EXCEPT ![c] = me]
    BY CallerFacts DEF SubmitPush
<1> HIDE DEF me
<1>5. RoleOf(c, me)
    BY <1>2, <1>3, CallerFacts DEF RoleOf, SpawnPlaces
<1>6. /\ t0 \in Task /\ t0[1] = c /\ ~IsSpawned(t0)
      /\ \A t \in Task : IsSpawned(t)' <=> IsSpawned(t) \/ t = t0
      /\ \A r \in Goroutine, t \in Task \cup {NoTask} : Holds(r, t)' <=> Holds(r, t)
    BY <1>1, <1>3, <1>4, CallerSpawns DEF Unspawned
<1> HIDE DEF t0
<1>7. TasksPlaced'
    BY <1>1, <1>2, <1>6, TaskPushed DEF PoolInv
<1>8. PendingExact'
    BY <1>1, <1>2, <1>3, <1>4, CountedSame, PendingStays DEF PoolInv
<1>9. /\ caller' \in [Caller -> Callers] /\ caller'[c] = me
      /\ \A d \in Caller : d # c => caller'[d] = caller[d]
    BY <1>3, <1>4, CallerRecords, CallerFacts
<1>10. PoolShape'
    <2>1. items' \in Seq(Task) /\ Len(items') = Len(items) + 1
        BY <1>1, <1>6 DEF PoolInv, PoolShape
    <2> QED BY <1>1, <1>9, <2>1, QueueFacts DEF PoolInv, PoolShape
<1>11. Roles'
    BY <1>5, <1>9 DEF PoolInv, Roles, RoleOf
<1>12. Looked'
    <2>1. Len(items') = Len(items) + 1 /\ Len(items) \in Nat
        BY <1>1, <1>6, QueueFacts DEF PoolInv, PoolShape
    <2>2. \A d \in Caller : caller'[d].pc = "cas" => caller[d].pc = "cas" /\ caller'[d].tp = caller[d].tp /\ caller[d].tp \in Nat
        BY <1>3, <1>9, CallerFacts DEF Callers
    <2>3. \A w \in Worker : worker[w].tp \in Nat
        BY DEF PoolInv, PoolShape, Workers
    <2> QED BY <1>1, <2>1, <2>2, <2>3 DEF PoolInv, Looked
<1>13. Attended'
    BY <1>3, <1>9 DEF Attended
<1>14. Drained'
    BY <1>1, CallerDrained DEF PoolInv, Drained, CallersDone
<1> QED BY <1>7, <1>8, <1>9, <1>10, <1>11, <1>12, <1>13, <1>14 DEF PoolInv

LEMMA ScopePushInv == ASSUME PoolInv, NEW c \in Caller, ScopePush(c) PROVE PoolInv'
<1> DEFINE me == [caller[c] EXCEPT !.pc = "nudge"]
           t0 == Mine(c)
<1>1. /\ caller[c].pc = "child" /\ scopeDq' = [scopeDq EXCEPT ![c] = Append(@, t0)]
      /\ UNCHANGED <<items, top, scopes, pending, notify, closed, quit, worker, stopper, ran, quiet>>
    BY DEF ScopePush
<1>2. c \in Scoper
    BY <1>1, CallerFacts DEF RoleOf, SpawnPlaces, BlockPlaces
<1>3. me \in Callers /\ me.pc = "nudge" /\ me.k = caller[c].k
    BY CallerFacts DEF Callers, ScoperPlaces
<1>4. caller' = [caller EXCEPT ![c] = me]
    BY CallerFacts DEF ScopePush
<1> HIDE DEF me
<1>5. RoleOf(c, me)
    BY <1>2, <1>3, CallerFacts DEF RoleOf, ScoperPlaces
<1>6. /\ t0 \in Task /\ t0[1] = c /\ ~IsSpawned(t0)
      /\ \A t \in Task : IsSpawned(t)' <=> IsSpawned(t) \/ t = t0
      /\ \A r \in Goroutine, t \in Task \cup {NoTask} : Holds(r, t)' <=> Holds(r, t)
    BY <1>1, <1>3, <1>4, CallerSpawns DEF Unspawned
<1> HIDE DEF t0
<1>7. TasksPlaced'
    BY <1>1, <1>2, <1>6, ChildPushed DEF PoolInv
<1>8. PendingExact'
    BY <1>1, <1>2, <1>3, <1>4, CountedSame, PendingStays DEF PoolInv, Uncounted
<1>9. caller' \in [Caller -> Callers] /\ Roles' /\ Looked'
    BY <1>1, <1>3, <1>4, <1>5, CallerShape
<1>10. PoolShape'
    <2>1. scopeDq' \in [Scoper -> Seq(Task)]
        BY <1>1, <1>2, <1>6 DEF PoolInv, PoolShape
    <2> QED BY <1>1, <1>9, <2>1 DEF PoolInv, PoolShape
<1>11. Attended'
    BY <1>1, <1>3, <1>4, CallerFacts, CallerAttended DEF PoolInv, BlockPlaces
<1>12. Drained'
    BY <1>1, CallerDrained DEF PoolInv
<1> QED BY <1>7, <1>8, <1>9, <1>10, <1>11, <1>12 DEF PoolInv

LEMMA ScopeCountInv == ASSUME PoolInv, NEW c \in Caller, ScopeCount(c) PROVE PoolInv'
<1> DEFINE me == [caller[c] EXCEPT !.pc = "child"]
           k0 == caller[c].k
<1>1. /\ caller[c].pc = "spawn" /\ pending' = [pending EXCEPT ![c] = @ + 1]
      /\ UNCHANGED <<items, top, scopeDq, scopes, notify, closed, quit, worker, stopper, ran, quiet>>
    BY DEF ScopeCount
<1>2. c \in Scoper
    BY <1>1, CallerFacts DEF RoleOf, SpawnPlaces, BlockPlaces
<1>3. me \in Callers /\ me.pc = "child" /\ me.k = k0
    BY CallerFacts DEF Callers, ScoperPlaces
<1>4. caller' = [caller EXCEPT ![c] = me]
    BY CallerFacts DEF ScopeCount
<1> HIDE DEF me
<1>5. RoleOf(c, me)
    BY <1>2, <1>3, CallerFacts DEF RoleOf, ScoperPlaces
<1>6. /\ caller' \in [Caller -> Callers] /\ Roles' /\ Looked' /\ caller'[c] = me
      /\ \A d \in Caller : d # c => caller'[d] = caller[d]
    BY <1>1, <1>3, <1>4, <1>5, CallerShape, CallerRecords, CallerFacts
<1>7. TasksPlaced'
    <2>1. \A t \in Task : IsSpawned(t)' <=> IsSpawned(t)
        BY <1>1, <1>3, <1>6, TaskFacts DEF IsSpawned, Past, Unspawned
    <2>2. \A r \in Goroutine, t \in Task \cup {NoTask} : Holds(r, t)' <=> Holds(r, t)
        BY <1>1, <1>3, <1>6 DEF Holds
    <2> QED BY <1>1, <2>1, <2>2, TasksStay DEF PoolInv
<1>8. PendingExact'
    <2> SUFFICES ASSUME NEW s \in Scoper PROVE pending'[s] = Cardinality(Outstanding(s)')
        BY DEF PendingExact
    <2>1. CASE s = c
        <3>1. k0 \in 1 .. Spawns[c] /\ ~Counted(c, k0)
            BY <1>1, CallerFacts DEF RoleOf, Counted, Past, Uncounted
        <3>2. \A k \in 1 .. Spawns[c] : Counted(c, k)' <=> Counted(c, k) \/ k = k0
            BY <1>1, <1>3, <1>6, <3>1 DEF Counted, Past, Uncounted
        <3>3. ran[<<c, k0>>] = 0
            <4>1. <<c, k0>> \in Task /\ ~IsSpawned(<<c, k0>>)
                BY <1>1, <3>1, TaskFacts DEF IsSpawned, Past, Unspawned
            <4> QED BY <4>1, TaskNowhere DEF PoolInv
        <3>4. Outstanding(c)' = Outstanding(c) \cup {k0} /\ k0 \notin Outstanding(c)
            BY <1>1, <3>1, <3>2, <3>3 DEF Outstanding
        <3> DEFINE S == Outstanding(c)
        <3>5. IsFiniteSet(S)
            BY <1>2, OutstandingFinite
        <3> HIDE DEF S, k0
        <3>6. Cardinality(S \cup {k0}) = Cardinality(S) + 1
            BY <3>4, <3>5, FS_AddElement DEF S
        <3>7. pending'[c] = pending[c] + 1 /\ pending[c] = Cardinality(S)
            BY <1>1, <1>2 DEF PoolInv, PoolShape, PendingExact, S
        <3> QED BY <2>1, <3>4, <3>6, <3>7 DEF S
    <2>2. CASE s # c
        <3>1. s \in Caller
            BY DEF Caller
        <3>2. Outstanding(s)' = Outstanding(s)
            BY <1>1, <1>6, <2>2, <3>1 DEF Outstanding, Counted
        <3>3. pending'[s] = pending[s]
            BY <1>1, <2>2 DEF PoolInv, PoolShape
        <3> QED BY <3>2, <3>3 DEF PoolInv, PendingExact
    <2> QED BY <2>1, <2>2
<1>9. PoolShape'
    <2>1. pending[c] + 1 \in Int /\ pending \in [Scoper -> Int]
        BY <1>2 DEF PoolInv, PoolShape
    <2>2. pending' = [pending EXCEPT ![c] = pending[c] + 1]
        BY <1>1
    <2>3. pending' \in [Scoper -> Int]
        BY <2>1, <2>2
    <2> QED BY <1>1, <1>6, <2>3 DEF PoolInv, PoolShape
<1>10. Attended'
    BY <1>1, <1>3, <1>4, CallerFacts, CallerAttended DEF PoolInv, BlockPlaces
<1>11. Drained'
    BY <1>1, CallerDrained DEF PoolInv
<1> QED BY <1>6, <1>7, <1>8, <1>9, <1>10, <1>11 DEF PoolInv

(* A caller that takes a task, or ends one, spawns nothing.                *)
LEMMA CallerHands ==
    ASSUME PoolInv, NEW c \in Caller, NEW me \in Callers, caller' = [caller EXCEPT ![c] = me],
           me.k = caller[c].k, {caller[c].pc, me.pc} \cap (Unspawned \cup Uncounted) = {}, UNCHANGED worker
    PROVE  /\ caller'[c] = me /\ c \in Goroutine
           /\ \A t \in Task : IsSpawned(t)' <=> IsSpawned(t)
           /\ \A s \in Scoper : \A k \in 1 .. Spawns[s] : Counted(s, k)' <=> Counted(s, k)
           /\ \A r \in Goroutine, t \in Task \cup {NoTask} : r # c => (Holds(r, t)' <=> Holds(r, t))
           /\ \A t \in Task \cup {NoTask} :
                Holds(c, t)' <=> me.pc \in {"run", "child_run"} /\ me.task = t
           /\ \A t \in Task \cup {NoTask} :
                Holds(c, t) <=> caller[c].pc \in {"run", "child_run"} /\ caller[c].task = t
<1>1. caller'[c] = me /\ \A d \in Caller : d # c => caller'[d] = caller[d]
    BY CallerRecords DEF PoolInv
<1>2. \A t \in Task : IsSpawned(t)' <=> IsSpawned(t)
    BY <1>1, TaskFacts DEF IsSpawned, Past
<1>3. \A s \in Scoper : \A k \in 1 .. Spawns[s] : Counted(s, k)' <=> Counted(s, k)
    BY CountedSame
<1>4. c \notin Worker
    BY DEF Caller
<1> QED BY <1>1, <1>2, <1>3, <1>4 DEF Holds, Goroutine

LEMMA CallerTakes ==
    ASSUME PoolInv, NEW c \in Caller, NEW me \in Callers,
           caller' = [caller EXCEPT ![c] = me],
           me.k = caller[c].k, me.pc \in {"run", "child_run"},
           caller[c].pc \in {"cas", "scope", "join"}, UNCHANGED worker
    PROVE  /\ c \in Goroutine /\ caller'[c] = me
           /\ \A t \in Task : IsSpawned(t)' <=> IsSpawned(t)
           /\ \A s \in Scoper : \A k \in 1 .. Spawns[s] : Counted(s, k)' <=> Counted(s, k)
           /\ \A q \in Goroutine, t \in Task \cup {NoTask} :
                Holds(q, t)' <=> Holds(q, t) \/ (q = c /\ t = me.task)
<1>1. {caller[c].pc, me.pc} \cap (Unspawned \cup Uncounted) = {}
    BY DEF Unspawned, Uncounted
<1>2. /\ c \in Goroutine /\ caller'[c] = me
      /\ \A t \in Task : IsSpawned(t)' <=> IsSpawned(t)
      /\ \A s \in Scoper : \A k \in 1 .. Spawns[s] : Counted(s, k)' <=> Counted(s, k)
      /\ \A r \in Goroutine, t \in Task \cup {NoTask} : r # c => (Holds(r, t)' <=> Holds(r, t))
      /\ \A t \in Task \cup {NoTask} : Holds(c, t)' <=> me.task = t
      /\ \A t \in Task \cup {NoTask} : ~Holds(c, t)
    <2>1. caller[c].pc \notin {"run", "child_run"}
        OBVIOUS
    <2> QED BY <1>1, <2>1, CallerHands
<1> QED BY <1>2

LEMMA CallerEnds ==
    ASSUME PoolInv, NEW c \in Caller, NEW me \in Callers, caller' = [caller EXCEPT ![c] = me],
           me.k = caller[c].k, caller[c].pc \in {"run", "child_run"},
           me.pc \in {"wait", "join"}, UNCHANGED worker
    PROVE  /\ c \in Goroutine /\ Holds(c, caller[c].task) /\ caller[c].task \in Task
           /\ \A t \in Task : IsSpawned(t)' <=> IsSpawned(t)
           /\ \A s \in Scoper : \A k \in 1 .. Spawns[s] : Counted(s, k)' <=> Counted(s, k)
           /\ \A q \in Goroutine, t \in Task \cup {NoTask} : Holds(q, t)' <=> Holds(q, t) /\ q # c
<1>1. {caller[c].pc, me.pc} \cap (Unspawned \cup Uncounted) = {}
    BY DEF Unspawned, Uncounted
<1>2. /\ c \in Goroutine
      /\ \A t \in Task : IsSpawned(t)' <=> IsSpawned(t)
      /\ \A s \in Scoper : \A k \in 1 .. Spawns[s] : Counted(s, k)' <=> Counted(s, k)
      /\ \A r \in Goroutine, t \in Task \cup {NoTask} : r # c => (Holds(r, t)' <=> Holds(r, t))
      /\ \A t \in Task \cup {NoTask} : ~Holds(c, t)'
      /\ \A t \in Task \cup {NoTask} : Holds(c, t) <=> caller[c].task = t
    <2>1. me.pc \notin {"run", "child_run"}
        OBVIOUS
    <2> QED BY <1>1, <2>1, CallerHands
<1>3. caller[c].task \in Task \cup {NoTask}
    BY CallerFacts DEF Callers
<1>4. caller[c].task \in Task
    BY <1>2, <1>3 DEF PoolInv, TasksPlaced, HandsSound
<1> QED BY <1>2, <1>3, <1>4

LEMMA HelperFacts ==
    ASSUME PoolInv, NEW c \in Caller, caller[c].pc \in BlockPlaces
    PROVE  c \notin Scoper /\ c \in Blocker
BY CallerFacts DEF RoleOf, ScoperPlaces, SpawnPlaces, BlockPlaces

LEMMA BlockStealInv == ASSUME PoolInv, NEW c \in Caller, BlockSteal(c) PROVE PoolInv'
<1>1. /\ caller[c].pc = "cas" /\ caller[c].pc \in BlockPlaces
      /\ UNCHANGED <<items, scopeDq, scopes, pending, notify, closed, quit, worker, stopper, ran, quiet>>
    BY DEF BlockSteal, BlockPlaces
<1>2. c \notin Scoper /\ c \in Blocker
    BY <1>1, HelperFacts
<1>3. CASE LostRace(caller[c].tp)
    <2> DEFINE me == [caller[c] EXCEPT !.pc = "scope"]
    <2>1. me \in Callers /\ me.pc = "scope" /\ me.k = caller[c].k
        BY CallerFacts DEF Callers, BlockPlaces
    <2>2. caller' = [caller EXCEPT ![c] = me] /\ top' = top
        BY <1>3, CallerFacts DEF BlockSteal
    <2> HIDE DEF me
    <2>3. RoleOf(c, me)
        BY <1>2, <2>1, CallerFacts DEF RoleOf, BlockPlaces
    <2> QED BY <1>1, <1>2, <2>1, <2>2, <2>3, CallerFacts, CallerNeutral DEF Unspawned, BlockPlaces
<1>4. CASE ~LostRace(caller[c].tp) /\ top < Len(items)
    <2> DEFINE me == [caller[c] EXCEPT !.pc = "run", !.task = Oldest]
    <2>1. Oldest \in Task /\ top \in Nat /\ Len(items) \in Nat
        BY <1>4, QueueFacts DEF PoolInv, PoolShape, Oldest
    <2>2. me \in Callers /\ me.pc = "run" /\ me.k = caller[c].k /\ me.task = Oldest
        BY ZenonT(40), <2>1, CallerFacts DEF Callers, BlockPlaces
    <2>3. caller' = [caller EXCEPT ![c] = me] /\ top' = top + 1
        BY <1>4, CallerFacts DEF BlockSteal
    <2> HIDE DEF me
    <2>4. RoleOf(c, me)
        BY <1>2, <2>2, CallerFacts DEF RoleOf, BlockPlaces
    <2>5. caller' \in [Caller -> Callers] /\ Roles' /\ Looked'
        BY <1>1, <2>2, <2>3, <2>4, CallerShape
    <2>6. /\ caller'[c] = me /\ c \in Goroutine
          /\ \A t \in Task : IsSpawned(t)' <=> IsSpawned(t)
          /\ \A s \in Scoper : \A k \in 1 .. Spawns[s] : Counted(s, k)' <=> Counted(s, k)
          /\ \A q \in Goroutine, t \in Task \cup {NoTask} :
                 Holds(q, t)' <=> Holds(q, t) \/ (q = c /\ t = Oldest)
        <3>1. /\ caller[c].pc \in {"cas", "scope", "join"} /\ UNCHANGED worker
              /\ me.pc \in {"run", "child_run"}
            BY <1>1, <2>2
        <3> HIDE DEF Oldest
        <3>2. /\ caller'[c] = me /\ c \in Goroutine
              /\ \A t \in Task : IsSpawned(t)' <=> IsSpawned(t)
              /\ \A s \in Scoper : \A k \in 1 .. Spawns[s] : Counted(s, k)' <=> Counted(s, k)
              /\ \A q \in Goroutine, t \in Task \cup {NoTask} :
                     Holds(q, t)' <=> Holds(q, t) \/ (q = c /\ t = me.task)
            BY <2>2, <2>3, <3>1, CallerTakes
        <3> QED BY <2>2, <3>2
    <2>7. TasksPlaced'
        BY <1>1, <1>4, <2>3, <2>6, TaskTaken DEF PoolInv
    <2>8. PendingExact'
        BY <1>1, <2>6, PendingStays DEF PoolInv
    <2>9. PoolShape'
        BY <1>1, <1>4, <2>1, <2>3, <2>5 DEF PoolInv, PoolShape
    <2>10. Attended'
        BY <1>2, <2>2, <2>6 DEF Attended, NoHelper, BlockPlaces
    <2>11. Drained'
        BY <1>1, CallerDrained DEF PoolInv
    <2> QED BY <2>5, <2>7, <2>8, <2>9, <2>10, <2>11 DEF PoolInv
<1>5. LostRace(caller[c].tp) \/ top < Len(items)
    BY <1>1 DEF LostRace, PoolInv, Looked
<1> QED BY <1>3, <1>4, <1>5

(* The two ends of a scope's deque. *)
LEMMA HeadTaken ==
    ASSUME PoolShape, NEW s \in Scoper, scopeDq[s] # <<>>, ScopesSound
    PROVE  /\ Head(scopeDq[s]) \in Task /\ Tail(scopeDq[s]) \in Seq(Task)
           /\ OneLess(scopeDq[s], Head(scopeDq[s]), Tail(scopeDq[s]))
<1> DEFINE q == scopeDq[s]
<1>1. q \in Seq(Task) /\ Len(q) \in Nat /\ Len(q) > 0 /\ q # <<>>
    BY DEF PoolShape
<1>2. Head(q) = q[1] /\ q[1] \in Task /\ Tail(q) \in Seq(Task) /\ Len(Tail(q)) = Len(q) - 1
    BY <1>1
<1>3. \A i \in 1 .. Len(q) - 1 : i + 1 \in 1 .. Len(q) /\ Tail(q)[i] = q[i + 1]
    BY <1>1
<1>4. \A i, j \in 1 .. Len(q) : q[i] = q[j] => i = j
    BY DEF ScopesSound
<1> HIDE DEF q
<1>5. \A i \in 1 .. Len(Tail(q)) : i + 1 \in 1 .. Len(q) /\ Tail(q)[i] = q[i + 1] /\ Tail(q)[i] # Head(q)
    <2> SUFFICES ASSUME NEW i \in 1 .. Len(q) - 1 PROVE i + 1 \in 1 .. Len(q) /\ Tail(q)[i] = q[i + 1] /\ Tail(q)[i] # q[1]
        BY <1>2
    <2>1. i + 1 \in 1 .. Len(q) /\ 1 \in 1 .. Len(q) /\ Tail(q)[i] = q[i + 1] /\ i + 1 # 1
        BY <1>1, <1>3
    <2> QED BY <1>4, <2>1
<1>6. 1 \in 1 .. Len(q) /\ Head(q) = q[1]
    BY <1>1, <1>2
<1>7. Head(q) \in Task /\ Tail(q) \in Seq(Task)
    BY <1>2
<1> QED BY <1>5, <1>6, <1>7 DEF q, OneLess

LEMMA LastTaken ==
    ASSUME PoolShape, NEW s \in Scoper, scopeDq[s] # <<>>, ScopesSound
    PROVE  LET last == scopeDq[s][Len(scopeDq[s])]
               rest == SubSeq(scopeDq[s], 1, Len(scopeDq[s]) - 1)
           IN  /\ last \in Task /\ rest \in Seq(Task)
               /\ OneLess(scopeDq[s], last, rest)
<1> DEFINE q == scopeDq[s]
           n == Len(q)
           rest == SubSeq(q, 1, n - 1)
<1>1. q \in Seq(Task) /\ n \in Nat /\ n > 0
    BY DEF PoolShape
<1>2. rest \in Seq(Task) /\ Len(rest) = n - 1 /\ \A i \in 1 .. n - 1 : rest[i] = q[i]
    BY <1>1
<1>3. \A i, j \in 1 .. n : q[i] = q[j] => i = j
    BY DEF ScopesSound
<1>4. q[n] \in Task /\ n \in 1 .. n
    BY <1>1
<1> HIDE DEF q, rest, n
<1>5. \A i \in 1 .. Len(rest) : i + 0 \in 1 .. n /\ rest[i] = q[i + 0] /\ rest[i] # q[n]
    BY <1>1, <1>2, <1>3, <1>4
<1>6. \E d \in {0, 1} : \A i \in 1 .. Len(rest) : i + d \in 1 .. n /\ rest[i] = q[i + d] /\ rest[i] # q[n]
    BY <1>5
<1> QED BY <1>2, <1>4, <1>6 DEF q, rest, n, OneLess

LEMMA BlockScopeInv == ASSUME PoolInv, NEW c \in Caller, BlockScope(c) PROVE PoolInv'
<1>1. /\ caller[c].pc = "scope" /\ caller[c].pc \in BlockPlaces
      /\ UNCHANGED <<items, top, scopes, pending, notify, closed, quit, worker, stopper, ran, quiet>>
    BY DEF BlockScope, BlockPlaces
<1>2. c \notin Scoper /\ c \in Blocker
    BY <1>1, HelperFacts
<1>3. ASSUME NEW s \in scopes, scopeDq[s] # <<>>,
             caller' = [caller EXCEPT ![c].pc = "run", ![c].task = Head(scopeDq[s])],
             scopeDq' = [scopeDq EXCEPT ![s] = Tail(@)]
      PROVE  PoolInv'
    <2> DEFINE t0 == Head(scopeDq[s])
               rest == Tail(scopeDq[s])
               me == [caller[c] EXCEPT !.pc = "run", !.task = t0]
    <2>1. s \in Scoper
        BY DEF PoolInv, PoolShape
    <2>2. t0 \in Task /\ rest \in Seq(Task) /\ OneLess(scopeDq[s], t0, rest)
        BY <1>3, <2>1, HeadTaken DEF PoolInv, TasksPlaced
    <2>3. scopeDq' = [scopeDq EXCEPT ![s] = rest]
        BY <1>3
    <2> HIDE DEF t0, rest
    <2>4. me \in Callers /\ me.pc = "run" /\ me.k = caller[c].k /\ me.task = t0
        <3>1. t0 \in Task \cup {NoTask} /\ caller[c] \in Callers
            BY <2>2, CallerFacts
        <3> QED BY <3>1 DEF Callers, BlockPlaces
    <2>5. caller' = [caller EXCEPT ![c] = me]
        BY <1>3, CallerFacts DEF t0
    <2> HIDE DEF me
    <2>6. RoleOf(c, me)
        BY <1>2, <2>4, CallerFacts DEF RoleOf, BlockPlaces
    <2>7. caller' \in [Caller -> Callers] /\ Roles' /\ Looked'
        BY <1>1, <2>4, <2>5, <2>6, CallerShape
    <2>8. /\ c \in Goroutine /\ caller'[c] = me
          /\ \A t \in Task : IsSpawned(t)' <=> IsSpawned(t)
          /\ \A z \in Scoper : \A k \in 1 .. Spawns[z] : Counted(z, k)' <=> Counted(z, k)
          /\ \A q \in Goroutine, t \in Task \cup {NoTask} :
                 Holds(q, t)' <=> Holds(q, t) \/ (q = c /\ t = t0)
        <3>1. /\ caller[c].pc \in {"cas", "scope", "join"} /\ UNCHANGED worker
              /\ me.pc \in {"run", "child_run"}
            BY <1>1, <2>4
        <3>2. /\ caller'[c] = me /\ c \in Goroutine
              /\ \A t \in Task : IsSpawned(t)' <=> IsSpawned(t)
              /\ \A z \in Scoper : \A k \in 1 .. Spawns[z] : Counted(z, k)' <=> Counted(z, k)
              /\ \A q \in Goroutine, t \in Task \cup {NoTask} :
                     Holds(q, t)' <=> Holds(q, t) \/ (q = c /\ t = me.task)
            BY <2>4, <2>5, <3>1, CallerTakes
        <3> QED BY <2>4, <3>2
    <2>9. TasksPlaced'
        BY <1>1, <2>1, <2>2, <2>3, <2>8, ChildTaken DEF PoolInv
    <2>10. PendingExact'
        BY <1>1, <2>8, PendingStays DEF PoolInv
    <2>11. PoolShape'
        <3>1. scopeDq' \in [Scoper -> Seq(Task)]
            BY <2>1, <2>2, <2>3 DEF PoolInv, PoolShape
        <3> QED BY <1>1, <2>7, <3>1 DEF PoolInv, PoolShape
    <2>12. Attended'
        BY <1>2, <2>4, <2>8 DEF Attended, NoHelper, BlockPlaces
    <2>13. Drained'
        BY <1>1, CallerDrained DEF PoolInv
    <2> QED BY <2>7, <2>9, <2>10, <2>11, <2>12, <2>13 DEF PoolInv
<1>4. ASSUME caller' = [caller EXCEPT ![c].pc = "wait"], UNCHANGED scopeDq PROVE PoolInv'
    <2> DEFINE me == [caller[c] EXCEPT !.pc = "wait"]
    <2>1. me \in Callers /\ me.pc = "wait" /\ me.k = caller[c].k
        BY CallerFacts DEF Callers, BlockPlaces
    <2>2. caller' = [caller EXCEPT ![c] = me]
        BY <1>4, CallerFacts
    <2> HIDE DEF me
    <2>3. RoleOf(c, me)
        BY <1>2, <2>1, CallerFacts DEF RoleOf, BlockPlaces
    <2> QED BY <1>1, <1>2, <1>4, <2>1, <2>2, <2>3, CallerFacts, CallerNeutral DEF Unspawned, BlockPlaces
<1> QED BY <1>3, <1>4 DEF BlockScope

LEMMA ScopePopInv == ASSUME PoolInv, NEW c \in Caller, ScopePop(c) PROVE PoolInv'
<1> DEFINE t0 == scopeDq[c][Len(scopeDq[c])]
           rest == SubSeq(scopeDq[c], 1, Len(scopeDq[c]) - 1)
           me == [caller[c] EXCEPT !.pc = "child_run", !.task = t0]
<1>1. /\ caller[c].pc = "join" /\ scopeDq[c] # <<>>
      /\ scopeDq' = [scopeDq EXCEPT ![c] = rest]
      /\ UNCHANGED <<items, top, scopes, pending, notify, closed, quit, worker, stopper, ran, quiet>>
    BY DEF ScopePop
<1>2. c \in Scoper
    BY <1>1, CallerFacts DEF RoleOf, SpawnPlaces, BlockPlaces
<1>3. t0 \in Task /\ rest \in Seq(Task) /\ OneLess(scopeDq[c], t0, rest)
    BY <1>1, <1>2, LastTaken DEF PoolInv, TasksPlaced
<1> HIDE DEF t0, rest
<1>4. me \in Callers /\ me.pc = "child_run" /\ me.k = caller[c].k /\ me.task = t0
    <2>1. t0 \in Task \cup {NoTask} /\ caller[c] \in Callers
        BY <1>3, CallerFacts
    <2> QED BY <2>1 DEF Callers, ScoperPlaces
<1>5. caller' = [caller EXCEPT ![c] = me]
    BY CallerFacts DEF ScopePop, t0
<1> HIDE DEF me
<1>6. RoleOf(c, me)
    BY <1>1, <1>2, <1>4, CallerFacts DEF RoleOf, ScoperPlaces
<1>7. caller' \in [Caller -> Callers] /\ Roles' /\ Looked'
    BY <1>1, <1>4, <1>5, <1>6, CallerShape
<1>8. /\ c \in Goroutine
      /\ \A t \in Task : IsSpawned(t)' <=> IsSpawned(t)
      /\ \A s \in Scoper : \A k \in 1 .. Spawns[s] : Counted(s, k)' <=> Counted(s, k)
      /\ \A q \in Goroutine, t \in Task \cup {NoTask} :
             Holds(q, t)' <=> Holds(q, t) \/ (q = c /\ t = t0)
    <2>1. /\ c \in Goroutine
          /\ \A t \in Task : IsSpawned(t)' <=> IsSpawned(t)
          /\ \A s \in Scoper : \A k \in 1 .. Spawns[s] : Counted(s, k)' <=> Counted(s, k)
          /\ \A q \in Goroutine, t \in Task \cup {NoTask} :
                 Holds(q, t)' <=> Holds(q, t) \/ (q = c /\ t = me.task)
        BY <1>1, <1>4, <1>5, CallerTakes
    <2> QED BY <1>4, <2>1
<1>9. TasksPlaced'
    BY <1>1, <1>2, <1>3, <1>8, ChildTaken DEF PoolInv
<1>10. PendingExact'
    BY <1>1, <1>8, PendingStays DEF PoolInv
<1>11. PoolShape'
    <2>1. scopeDq' \in [Scoper -> Seq(Task)]
        BY <1>1, <1>2, <1>3 DEF PoolInv, PoolShape
    <2> QED BY <1>1, <1>7, <2>1 DEF PoolInv, PoolShape
<1>12. Attended'
    BY <1>1, <1>4, <1>5, CallerFacts, CallerAttended DEF PoolInv, BlockPlaces
<1>13. Drained'
    BY <1>1, CallerDrained DEF PoolInv
<1> QED BY <1>7, <1>9, <1>10, <1>11, <1>12, <1>13 DEF PoolInv

(* A caller runs the task it holds.                                        *)
LEMMA CallerRuns ==
    ASSUME PoolInv, NEW c \in Caller, NEW me \in Callers, caller' = [caller EXCEPT ![c] = me],
           me.k = caller[c].k, RoleOf(c, me),
           \/ caller[c].pc = "run" /\ me.pc = "wait"
           \/ caller[c].pc = "child_run" /\ me.pc = "join",
           RunTask(caller[c].task),
           UNCHANGED <<items, top, scopeDq, scopes, notify, closed, quit, worker, stopper, quiet>>
    PROVE  PoolInv'
<1> DEFINE t0 == caller[c].task
<1>1. /\ c \in Goroutine /\ Holds(c, t0) /\ t0 \in Task
      /\ \A t \in Task : IsSpawned(t)' <=> IsSpawned(t)
      /\ \A s \in Scoper : \A k \in 1 .. Spawns[s] : Counted(s, k)' <=> Counted(s, k)
      /\ \A q \in Goroutine, t \in Task \cup {NoTask} : Holds(q, t)' <=> Holds(q, t) /\ q # c
    BY CallerEnds
<1>2. caller' \in [Caller -> Callers] /\ Roles' /\ Looked'
    BY CallerShape
<1> HIDE DEF t0
<1>3. RunTask(t0) /\ ran' = [ran EXCEPT ![t0] = @ + 1]
    BY DEF RunTask, t0
<1>4. TasksPlaced'
    BY <1>1, <1>3, TaskRun DEF PoolInv
<1>5. PendingExact'
    BY <1>1, <1>3, PendingRun DEF PoolInv
<1>6. PoolShape'
    <2>1. ran' \in [Task -> Nat]
        BY <1>1, <1>3, RunShape DEF PoolInv
    <2>2. pending' \in [Scoper -> Int]
        BY <1>1, <1>3, PendingShape DEF PoolInv
    <2> QED BY <1>2, <2>1, <2>2 DEF PoolInv, PoolShape
<1>7. Attended'
    BY CallerFacts, CallerAttended DEF PoolInv, BlockPlaces
<1>8. Drained'
    BY CallerDrained DEF PoolInv
<1> QED BY <1>2, <1>4, <1>5, <1>6, <1>7, <1>8 DEF PoolInv

LEMMA BlockRunInv == ASSUME PoolInv, NEW c \in Caller, BlockRun(c) PROVE PoolInv'
<1> DEFINE me == [caller[c] EXCEPT !.pc = "wait", !.task = NoTask]
<1>1. /\ caller[c].pc = "run" /\ caller[c].pc \in BlockPlaces /\ RunTask(caller[c].task)
      /\ UNCHANGED <<items, top, scopeDq, scopes, notify, closed, quit, worker, stopper, quiet>>
    BY DEF BlockRun, BlockPlaces
<1>2. c \notin Scoper /\ c \in Blocker
    BY <1>1, HelperFacts
<1>3. me \in Callers /\ me.pc = "wait" /\ me.k = caller[c].k
    BY ZenonT(40), CallerFacts DEF Callers, BlockPlaces
<1>4. caller' = [caller EXCEPT ![c] = me]
    BY CallerFacts DEF BlockRun
<1> HIDE DEF me
<1>5. RoleOf(c, me)
    BY <1>2, <1>3, CallerFacts DEF RoleOf, BlockPlaces
<1> QED BY <1>1, <1>3, <1>4, <1>5, CallerRuns

LEMMA ScopeRunInv == ASSUME PoolInv, NEW c \in Caller, ScopeRun(c) PROVE PoolInv'
<1> DEFINE me == [caller[c] EXCEPT !.pc = "join", !.task = NoTask]
<1>1. /\ caller[c].pc = "child_run" /\ RunTask(caller[c].task)
      /\ UNCHANGED <<items, top, scopeDq, scopes, notify, closed, quit, worker, stopper, quiet>>
    BY DEF ScopeRun
<1>2. c \in Scoper
    BY <1>1, CallerFacts DEF RoleOf, SpawnPlaces, BlockPlaces
<1>3. me \in Callers /\ me.pc = "join" /\ me.k = caller[c].k
    BY ZenonT(40), CallerFacts DEF Callers, ScoperPlaces
<1>4. caller' = [caller EXCEPT ![c] = me]
    BY CallerFacts DEF ScopeRun
<1> HIDE DEF me
<1>5. RoleOf(c, me)
    BY <1>1, <1>2, <1>3, CallerFacts DEF RoleOf, ScoperPlaces
<1> QED BY <1>1, <1>3, <1>4, <1>5, CallerRuns

-----------------------------------------------------------------------------
(* What every worker's step starts from. *)
LEMMA WorkerFacts ==
    ASSUME PoolInv, NEW w \in Worker
    PROVE  /\ worker[w] \in Workers /\ worker \in [Worker -> Workers] /\ PoolShape
           /\ w \in Goroutine /\ w \notin Caller
           /\ notify \in Nat /\ Cardinality(Worker) \in Nat /\ notify \in 0 .. Cardinality(Worker)
           /\ top \in Nat /\ Len(items) \in Nat
<1>1. Cardinality(Worker) \in Nat
    BY FS_CardinalityType
<1>2. w \notin Caller
    BY DEF Caller
<1> QED BY <1>1, <1>2, QueueFacts DEF PoolInv, PoolShape, Goroutine

LEMMA WorkerHands ==
    ASSUME PoolInv, NEW w \in Worker, NEW me \in Workers, worker' = [worker EXCEPT ![w] = me], UNCHANGED caller
    PROVE  /\ worker' \in [Worker -> Workers] /\ worker'[w] = me
           /\ \A t \in Task : IsSpawned(t)' <=> IsSpawned(t)
           /\ \A s \in Scoper : \A k \in 1 .. Spawns[s] : Counted(s, k)' <=> Counted(s, k)
           /\ \A r \in Goroutine, t \in Task \cup {NoTask} : r # w => (Holds(r, t)' <=> Holds(r, t))
           /\ \A t \in Task \cup {NoTask} : Holds(w, t)' <=> me.pc = "run" /\ me.task = t
           /\ \A t \in Task \cup {NoTask} : Holds(w, t) <=> worker[w].pc = "run" /\ worker[w].task = t
<1>1. worker' \in [Worker -> Workers] /\ worker'[w] = me /\ \A v \in Worker : v # w => worker'[v] = worker[v]
    BY WorkerRecords DEF PoolInv
<1>2. w \notin Caller
    BY DEF Caller
<1>3. \A t \in Task : IsSpawned(t)' <=> IsSpawned(t)
    BY DEF IsSpawned
<1>4. \A s \in Scoper : \A k \in 1 .. Spawns[s] : Counted(s, k)' <=> Counted(s, k)
    BY DEF Counted
<1> QED BY <1>1, <1>2, <1>3, <1>4 DEF Holds, Goroutine

(* A worker's step either leaves it about to look, or it was not: whoever  *)
(* was to look for the tasks that wait still is.                           *)
LEMMA WorkerStands ==
    ASSUME PoolInv, NEW w \in Worker, NEW me \in Workers, worker' = [worker EXCEPT ![w] = me],
           worker[w].pc # "exit",
           \/ top' < Len(items) => me.pc \in {"scan", "run"} \/ (me.pc = "cas" /\ me.tp = top')
           \/ ~WillLook(w) /\ me.draining = worker[w].draining /\ UNCHANGED <<top, notify>>,
           me.pc = "exit" => me.draining, me.draining => quit,
           me.pc = "cas" => me.tp < Len(items),
           UNCHANGED <<items, quit, stopper, quiet, caller>>
    PROVE  worker' \in [Worker -> Workers] /\ Roles' /\ Looked' /\ Attended' /\ Drained'
<1>1. worker' \in [Worker -> Workers] /\ worker'[w] = me /\ \A v \in Worker : v # w => worker'[v] = worker[v]
    BY WorkerRecords DEF PoolInv
<1>2. Roles'
    BY DEF PoolInv, Roles, RoleOf
<1>3. Looked'
    BY <1>1 DEF PoolInv, Looked
<1>4. CASE top' < Len(items) => me.pc \in {"scan", "run"} \/ (me.pc = "cas" /\ me.tp = top')
    <2>1. top' < Len(items) => WillLook(w)'
        BY <1>1, <1>4 DEF WillLook
    <2>2. Attended'
        BY <2>1 DEF Attended
    <2>3. Drained'
        BY <1>1, <2>1 DEF PoolInv, Drained, CallersDone
    <2> QED BY <1>1, <1>2, <1>3, <2>2, <2>3
<1>5. CASE ~WillLook(w) /\ me.draining = worker[w].draining /\ UNCHANGED <<top, notify>>
    <2>1. \A v \in Worker : /\ WillLook(v) => WillLook(v)'
                            /\ worker[v].pc = "exit" => worker'[v].pc = "exit"
                            /\ worker'[v].draining = worker[v].draining
        BY <1>1, <1>5 DEF WillLook
    <2>2. top' = top /\ notify' = notify
        BY <1>5
    <2>3. Attended'
        <3>1. NoHelper' <=> NoHelper
            BY DEF NoHelper
        <3>2. Attended
            BY DEF PoolInv
        <3>3. (\E v \in Worker : WillLook(v)) => \E v \in Worker : WillLook(v)'
            BY <2>1
        <3>4. (\E v \in Worker : worker[v].pc = "exit") => \E v \in Worker : worker'[v].pc = "exit"
            BY <2>1
        <3> QED BY <2>2, <3>1, <3>2, <3>3, <3>4 DEF Attended
    <2>4. Drained'
        <3>1. /\ \A v \in Worker : worker'[v].pc = "exit" => worker'[v].draining
              /\ \A v \in Worker : worker'[v].draining => quit
            BY <1>1, <2>1 DEF PoolInv, Drained
        <3>2. /\ stopper = "idle" => ~quit /\ ~quiet
              /\ stopper = "quit" => ~quit
              /\ stopper = "end" => \A v \in Worker : worker'[v].pc = "exit"
              /\ quiet => CallersDone
            BY <2>1 DEF PoolInv, Drained
        <3>3. quiet /\ top < Len(items) => \E v \in Worker : WillLook(v)' \/ ~worker'[v].draining
            <4>1. quiet /\ top < Len(items) => \E v \in Worker : WillLook(v) \/ ~worker[v].draining
                BY DEF PoolInv, Drained
            <4> QED BY <2>1, <4>1, Zenon
        <3> QED BY <2>2, <3>1, <3>2, <3>3 DEF Drained, CallersDone
    <2> QED BY <1>1, <1>2, <1>3, <2>3, <2>4
<1> QED BY <1>4, <1>5

(* The steps of a worker that touch no task. *)
LEMMA WorkerNeutral ==
    ASSUME PoolInv, NEW w \in Worker, NEW me \in Workers, worker' = [worker EXCEPT ![w] = me],
           {worker[w].pc, me.pc} \cap {"run"} = {},
           worker' \in [Worker -> Workers], Roles', Looked', Attended', Drained',
           notify' \in 0 .. Cardinality(Worker),
           UNCHANGED <<queues, closed, quit, caller, stopper, ran, quiet>>
    PROVE  PoolInv'
<1>1. TasksPlaced' /\ PendingExact'
    BY WorkerMoves DEF PoolInv, queues
<1>2. PoolShape'
    BY DEF PoolInv, PoolShape, queues
<1> QED BY <1>1, <1>2 DEF PoolInv

LEMMA WorkerLookInv == ASSUME PoolInv, NEW w \in Worker, WorkerLook(w) PROVE PoolInv'
<1> DEFINE me == IF top < Len(items) THEN [worker[w] EXCEPT !.pc = "cas", !.tp = top]
                                     ELSE [worker[w] EXCEPT !.pc = "scope"]
<1>1. worker[w].pc = "scan" /\ UNCHANGED <<queues, notify, closed, quit, caller, stopper, ran, quiet>>
    BY DEF WorkerLook
<1>2. worker' = [worker EXCEPT ![w] = me]
    BY WorkerFacts DEF WorkerLook
<1>3. /\ me \in Workers /\ me.pc \in {"cas", "scope"} /\ me.draining = worker[w].draining
      /\ top < Len(items) <=> me.pc = "cas"
      /\ me.pc = "cas" => me.tp = top
    BY ZenonT(40), WorkerFacts DEF Workers, WorkerPlaces
<1> HIDE DEF me
<1>4. me.draining => quit
    BY <1>3 DEF PoolInv, Drained
<1>5. worker' \in [Worker -> Workers] /\ Roles' /\ Looked' /\ Attended' /\ Drained'
    BY <1>1, <1>2, <1>3, <1>4, WorkerStands DEF queues
<1> QED BY ZenonT(40), <1>1, <1>2, <1>3, <1>5, WorkerFacts, WorkerNeutral

LEMMA WorkerNothingInv == ASSUME PoolInv, NEW w \in Worker, WorkerNothing(w) PROVE PoolInv'
<1> DEFINE me == [worker[w] EXCEPT !.pc = IF worker[w].draining THEN "exit" ELSE "park"]
<1>1. worker[w].pc = "scope" /\ UNCHANGED <<queues, notify, closed, quit, caller, stopper, ran, quiet>>
    BY DEF WorkerNothing
<1>2. worker' = [worker EXCEPT ![w] = me]
    BY WorkerFacts DEF WorkerNothing
<1>3. /\ me \in Workers /\ me.pc \in {"exit", "park"} /\ me.draining = worker[w].draining
      /\ me.pc = "exit" => me.draining
    BY WorkerFacts DEF Workers, WorkerPlaces
<1> HIDE DEF me
<1>4. me.draining => quit
    BY <1>3 DEF PoolInv, Drained
<1>5. ~WillLook(w)
    BY <1>1 DEF WillLook
<1>6. worker' \in [Worker -> Workers] /\ Roles' /\ Looked' /\ Attended' /\ Drained'
    BY <1>1, <1>2, <1>3, <1>4, <1>5, WorkerStands DEF queues
<1> QED BY ZenonT(40), <1>1, <1>2, <1>3, <1>6, WorkerFacts, WorkerNeutral

LEMMA WorkerWokenInv == ASSUME PoolInv, NEW w \in Worker, WorkerWoken(w) PROVE PoolInv'
<1> DEFINE me == [worker[w] EXCEPT !.pc = "scan"]
<1>1. /\ worker[w].pc = "park" /\ notify > 0 /\ notify' = notify - 1
      /\ UNCHANGED <<queues, closed, quit, caller, stopper, ran, quiet>>
    BY DEF WorkerWoken
<1>2. worker' = [worker EXCEPT ![w] = me]
    BY WorkerFacts DEF WorkerWoken
<1>3. me \in Workers /\ me.pc = "scan" /\ me.draining = worker[w].draining
    BY WorkerFacts DEF Workers, WorkerPlaces
<1> HIDE DEF me
<1>4. me.draining => quit
    BY <1>3 DEF PoolInv, Drained
<1>5. worker' \in [Worker -> Workers] /\ Roles' /\ Looked' /\ Attended' /\ Drained'
    BY <1>1, <1>2, <1>3, <1>4, WorkerStands DEF queues
<1>6. notify' \in 0 .. Cardinality(Worker)
    BY <1>1, WorkerFacts
<1> QED BY <1>1, <1>2, <1>3, <1>5, <1>6, WorkerNeutral

LEMMA WorkerQuitInv == ASSUME PoolInv, NEW w \in Worker, WorkerQuit(w) PROVE PoolInv'
<1> DEFINE me == [worker[w] EXCEPT !.pc = "scan", !.draining = TRUE]
<1>1. /\ worker[w].pc = "park" /\ quit
      /\ UNCHANGED <<queues, notify, closed, quit, caller, stopper, ran, quiet>>
    BY DEF WorkerQuit
<1>2. worker' = [worker EXCEPT ![w] = me]
    BY WorkerFacts DEF WorkerQuit
<1>3. me \in Workers /\ me.pc = "scan"
    BY ZenonT(40), WorkerFacts DEF Workers, WorkerPlaces
<1> HIDE DEF me
<1>4. worker' \in [Worker -> Workers] /\ Roles' /\ Looked' /\ Attended' /\ Drained'
    BY <1>1, <1>2, <1>3, WorkerStands DEF queues
<1> QED BY <1>1, <1>2, <1>3, <1>4, WorkerFacts, WorkerNeutral

(* A worker takes a task: it will look again when it has run it. *)
LEMMA WorkerTakes ==
    ASSUME PoolInv, NEW w \in Worker, NEW me \in Workers, worker' = [worker EXCEPT ![w] = me],
           me.pc = "run", worker[w].pc \in {"cas", "scope"}, me.draining = worker[w].draining,
           UNCHANGED <<items, quit, stopper, quiet, caller>>
    PROVE  /\ worker' \in [Worker -> Workers] /\ Roles' /\ Looked' /\ Attended' /\ Drained'
           /\ \A t \in Task : IsSpawned(t)' <=> IsSpawned(t)
           /\ \A s \in Scoper : \A k \in 1 .. Spawns[s] : Counted(s, k)' <=> Counted(s, k)
           /\ \A q \in Goroutine, t \in Task \cup {NoTask} :
                  Holds(q, t)' <=> Holds(q, t) \/ (q = w /\ t = me.task)
<1>1. me.draining => quit
    BY DEF PoolInv, Drained
<1>2. worker' \in [Worker -> Workers] /\ Roles' /\ Looked' /\ Attended' /\ Drained'
    BY <1>1, WorkerStands
<1>3. /\ \A t \in Task : IsSpawned(t)' <=> IsSpawned(t)
      /\ \A s \in Scoper : \A k \in 1 .. Spawns[s] : Counted(s, k)' <=> Counted(s, k)
      /\ \A q \in Goroutine, t \in Task \cup {NoTask} : q # w => (Holds(q, t)' <=> Holds(q, t))
      /\ \A t \in Task \cup {NoTask} : Holds(w, t)' <=> me.task = t
      /\ \A t \in Task \cup {NoTask} : ~Holds(w, t)
    <2>1. worker[w].pc # "run" /\ me.pc = "run"
        OBVIOUS
    <2> QED BY ZenonT(40), <2>1, WorkerHands
<1> QED BY <1>2, <1>3

LEMMA WorkerStealInv == ASSUME PoolInv, NEW w \in Worker, WorkerSteal(w) PROVE PoolInv'
<1>1. /\ worker[w].pc = "cas"
      /\ UNCHANGED <<items, scopeDq, scopes, pending, notify, closed, quit, caller, stopper, ran, quiet>>
    BY DEF WorkerSteal
<1>2. CASE LostRace(worker[w].tp)
    <2> DEFINE me == [worker[w] EXCEPT !.pc = "scope"]
    <2>1. worker' = [worker EXCEPT ![w] = me] /\ top' = top
        BY <1>2, WorkerFacts DEF WorkerSteal
    <2>2. me \in Workers /\ me.pc = "scope" /\ me.draining = worker[w].draining
        BY SMTT(30), WorkerFacts DEF Workers, WorkerPlaces
    <2> HIDE DEF me
    <2>3. me.draining => quit
        BY <2>2 DEF PoolInv, Drained
    <2>4. ~WillLook(w)
        BY <1>1, <1>2 DEF WillLook, LostRace
    <2>5. worker' \in [Worker -> Workers] /\ Roles' /\ Looked' /\ Attended' /\ Drained'
        BY <1>1, <2>1, <2>2, <2>3, <2>4, WorkerStands
    <2> QED BY <1>1, <2>1, <2>2, <2>5, WorkerFacts, WorkerNeutral DEF queues
<1>3. CASE ~LostRace(worker[w].tp) /\ top < Len(items)
    <2> DEFINE me == [worker[w] EXCEPT !.pc = "run", !.task = Oldest]
    <2>1. Oldest \in Task /\ top \in Nat /\ Len(items) \in Nat
        BY <1>3, QueueFacts DEF PoolInv, PoolShape, Oldest
    <2>2. worker' = [worker EXCEPT ![w] = me] /\ top' = top + 1
        BY <1>3, WorkerFacts DEF WorkerSteal
    <2>3. me \in Workers /\ me.pc = "run" /\ me.draining = worker[w].draining /\ me.task = Oldest
        BY ZenonT(40), <2>1, WorkerFacts DEF Workers, WorkerPlaces
    <2> HIDE DEF me
    <2>4. /\ worker' \in [Worker -> Workers] /\ Roles' /\ Looked' /\ Attended' /\ Drained'
          /\ \A t \in Task : IsSpawned(t)' <=> IsSpawned(t)
          /\ \A s \in Scoper : \A k \in 1 .. Spawns[s] : Counted(s, k)' <=> Counted(s, k)
          /\ \A q \in Goroutine, t \in Task \cup {NoTask} :
                 Holds(q, t)' <=> Holds(q, t) \/ (q = w /\ t = me.task)
        BY <1>1, <2>2, <2>3, WorkerTakes
    <2>5. TasksPlaced'
        <3>1. \A q \in Goroutine, t \in Task \cup {NoTask} :
                 Holds(q, t)' <=> Holds(q, t) \/ (q = w /\ t = Oldest)
            BY <2>3, <2>4
        <3> QED BY <1>1, <1>3, <2>2, <2>4, <3>1, WorkerFacts, TaskTaken DEF PoolInv
    <2>6. PendingExact'
        BY <1>1, <2>4, PendingStays DEF PoolInv
    <2>7. PoolShape'
        BY <1>1, <1>3, <2>1, <2>2, <2>4 DEF PoolInv, PoolShape
    <2> QED BY <2>4, <2>5, <2>6, <2>7 DEF PoolInv
<1>4. LostRace(worker[w].tp) \/ top < Len(items)
    BY <1>1 DEF LostRace, PoolInv, Looked
<1> QED BY <1>2, <1>3, <1>4

LEMMA WorkerScopeInv == ASSUME PoolInv, NEW w \in Worker, WorkerScope(w) PROVE PoolInv'
<1>1. /\ worker[w].pc = "scope"
      /\ UNCHANGED <<items, top, scopes, pending, notify, closed, quit, caller, stopper, ran, quiet>>
    BY DEF WorkerScope
<1>2. PICK s \in scopes :
        /\ scopeDq[s] # <<>>
        /\ worker' = [worker EXCEPT ![w].pc = "run", ![w].task = Head(scopeDq[s])]
        /\ scopeDq' = [scopeDq EXCEPT ![s] = Tail(@)]
    BY DEF WorkerScope
<1> DEFINE t0 == Head(scopeDq[s])
           rest == Tail(scopeDq[s])
           me == [worker[w] EXCEPT !.pc = "run", !.task = t0]
<1>3. s \in Scoper
    BY DEF PoolInv, PoolShape
<1>4. t0 \in Task /\ rest \in Seq(Task) /\ OneLess(scopeDq[s], t0, rest)
    BY <1>2, <1>3, HeadTaken DEF PoolInv, TasksPlaced
<1>5. scopeDq' = [scopeDq EXCEPT ![s] = rest]
    BY <1>2
<1> HIDE DEF t0, rest
<1>6. worker' = [worker EXCEPT ![w] = me]
    BY <1>2, WorkerFacts DEF t0
<1>7. me \in Workers /\ me.pc = "run" /\ me.draining = worker[w].draining /\ me.task = t0
    <2>1. t0 \in Task \cup {NoTask} /\ worker[w] \in Workers
        BY <1>4, WorkerFacts
    <2> QED BY <2>1 DEF Workers, WorkerPlaces
<1> HIDE DEF me
<1>8. /\ worker' \in [Worker -> Workers] /\ Roles' /\ Looked' /\ Attended' /\ Drained'
      /\ \A t \in Task : IsSpawned(t)' <=> IsSpawned(t)
      /\ \A z \in Scoper : \A k \in 1 .. Spawns[z] : Counted(z, k)' <=> Counted(z, k)
      /\ \A q \in Goroutine, t \in Task \cup {NoTask} :
             Holds(q, t)' <=> Holds(q, t) \/ (q = w /\ t = me.task)
    BY <1>1, <1>6, <1>7, WorkerTakes
<1>9. TasksPlaced'
    <2>1. \A q \in Goroutine, t \in Task \cup {NoTask} :
             Holds(q, t)' <=> Holds(q, t) \/ (q = w /\ t = t0)
        BY <1>7, <1>8
    <2>2. PoolShape /\ TasksPlaced /\ w \in Goroutine
        BY WorkerFacts DEF PoolInv
    <2>3. UNCHANGED <<items, top, ran>>
        BY <1>1
    <2> QED BY <1>3, <1>4, <1>5, <1>8, <2>1, <2>2, <2>3, ChildTaken
<1>10. PendingExact'
    BY <1>1, <1>8, PendingStays DEF PoolInv
<1>11. PoolShape'
    <2>1. scopeDq' \in [Scoper -> Seq(Task)]
        BY <1>3, <1>4, <1>5 DEF PoolInv, PoolShape
    <2> QED BY <1>1, <1>8, <2>1 DEF PoolInv, PoolShape
<1> QED BY <1>8, <1>9, <1>10, <1>11 DEF PoolInv

LEMMA WorkerRunInv == ASSUME PoolInv, NEW w \in Worker, WorkerRun(w) PROVE PoolInv'
<1> DEFINE me == [worker[w] EXCEPT !.pc = "scan", !.task = NoTask]
           t0 == worker[w].task
<1>1. /\ worker[w].pc = "run" /\ RunTask(t0)
      /\ UNCHANGED <<items, top, scopeDq, scopes, notify, closed, quit, caller, stopper, quiet>>
    BY DEF WorkerRun
<1>2. worker' = [worker EXCEPT ![w] = me]
    BY WorkerFacts DEF WorkerRun
<1>3. me \in Workers /\ me.pc = "scan" /\ me.draining = worker[w].draining
    BY ZenonT(40), WorkerFacts DEF Workers, WorkerPlaces
<1> HIDE DEF me
<1>4. me.draining => quit
    BY <1>3 DEF PoolInv, Drained
<1>5. worker' \in [Worker -> Workers] /\ Roles' /\ Looked' /\ Attended' /\ Drained'
    BY <1>1, <1>2, <1>3, <1>4, WorkerStands
<1>6. /\ \A t \in Task : IsSpawned(t)' <=> IsSpawned(t)
      /\ \A s \in Scoper : \A k \in 1 .. Spawns[s] : Counted(s, k)' <=> Counted(s, k)
      /\ \A q \in Goroutine, t \in Task \cup {NoTask} : q # w => (Holds(q, t)' <=> Holds(q, t))
      /\ \A t \in Task \cup {NoTask} : ~Holds(w, t)'
      /\ \A t \in Task \cup {NoTask} : Holds(w, t) <=> t0 = t
    <2>1. me.pc # "run"
        BY <1>3
    <2> QED BY <1>1, <1>2, <1>3, <2>1, WorkerHands
<1>7. t0 \in Task /\ Holds(w, t0)
    <2>1. t0 \in Task \cup {NoTask}
        BY WorkerFacts DEF Workers
    <2> QED BY <1>6, <2>1, WorkerFacts DEF PoolInv, TasksPlaced, HandsSound
<1> HIDE DEF t0
<1>8. \A q \in Goroutine, t \in Task \cup {NoTask} : Holds(q, t)' <=> Holds(q, t) /\ q # w
    BY <1>6
<1>9. ran' = [ran EXCEPT ![t0] = @ + 1]
    BY <1>1 DEF RunTask
<1>10. TasksPlaced'
    BY ZenonT(40), <1>1, <1>6, <1>7, <1>8, <1>9, WorkerFacts, TaskRun DEF PoolInv
<1>11. PendingExact'
    BY <1>1, <1>6, <1>7, WorkerFacts, PendingRun DEF PoolInv
<1>12. PoolShape'
    <2>1. ran' \in [Task -> Nat]
        BY <1>7, <1>9, RunShape DEF PoolInv
    <2>2. pending' \in [Scoper -> Int]
        BY <1>1, <1>7, PendingShape DEF PoolInv
    <2> QED BY <1>1, <1>5, <2>1, <2>2 DEF PoolInv, PoolShape
<1> QED BY <1>5, <1>10, <1>11, <1>12 DEF PoolInv

-----------------------------------------------------------------------------
(* Shutdown: when it starts no worker is draining, and quit leaves a token *)
(* for each.                                                               *)
LEMMA ShutdownInv == ASSUME PoolInv, ShutdownClose \/ ShutdownQuit \/ ShutdownJoin PROVE PoolInv'
<1>1. UNCHANGED <<items, top, scopeDq, scopes, pending, worker, caller, ran>>
    BY DEF ShutdownClose, ShutdownQuit, ShutdownJoin, queues
<1>2. Cardinality(Worker) \in Nat /\ Cardinality(Worker) # 0
    BY FS_CardinalityType, FS_EmptySet
<1>3. PoolShape'
    <2>1. /\ closed' \in BOOLEAN /\ quit' \in BOOLEAN
          /\ stopper' \in {"quit", "join", "end"} /\ notify' \in 0 .. Cardinality(Worker)
        <3>1. closed \in BOOLEAN /\ quit \in BOOLEAN /\ notify \in 0 .. Cardinality(Worker)
            BY DEF PoolInv, PoolShape
        <3>2. CASE ShutdownClose
            BY <3>1, <3>2 DEF ShutdownClose
        <3>3. CASE ShutdownQuit
            BY <1>2, <3>1, <3>3 DEF ShutdownQuit
        <3>4. CASE ShutdownJoin
            BY <3>1, <3>4 DEF ShutdownJoin
        <3> QED BY <3>2, <3>3, <3>4
    <2>2. quiet' \in BOOLEAN
        <3>1. quiet \in BOOLEAN
            BY DEF PoolInv, PoolShape
        <3>2. CallersDone \in BOOLEAN
            BY DEF CallersDone
        <3> QED BY <3>1, <3>2 DEF ShutdownClose, ShutdownQuit, ShutdownJoin
    <2> QED BY <1>1, <2>1, <2>2 DEF PoolInv, PoolShape
<1>4. Roles' /\ Looked'
    BY <1>1 DEF PoolInv, Roles, RoleOf, Looked
<1>5. \A t \in Task : IsSpawned(t)' <=> IsSpawned(t)
    BY <1>1 DEF IsSpawned
<1>6. \A s \in Scoper : \A k \in 1 .. Spawns[s] : Counted(s, k)' <=> Counted(s, k)
    BY <1>1 DEF Counted
<1>7. \A r \in Goroutine, t \in Task \cup {NoTask} : Holds(r, t)' <=> Holds(r, t)
    BY <1>1 DEF Holds
<1>8. TasksPlaced' /\ PendingExact'
    BY <1>1, <1>5, <1>6, <1>7, TasksStay, PendingStays DEF PoolInv
<1>9. \A w \in Worker : WillLook(w)' <=> WillLook(w)
    BY <1>1 DEF WillLook
<1>10. Attended'
    <2>1. NoHelper' <=> NoHelper
        BY <1>1 DEF NoHelper
    <2>2. notify' = notify \/ notify' > 0
        BY <1>2 DEF ShutdownClose, ShutdownQuit, ShutdownJoin
    <2> QED BY <1>1, <1>9, <2>1, <2>2 DEF PoolInv, Attended
<1>11. Drained'
    <2>1. CASE ShutdownClose
        <3>1. \A w \in Worker : ~worker[w].draining
            BY <2>1 DEF ShutdownClose, PoolInv, Drained
        <3> QED BY <1>1, <2>1, <3>1 DEF ShutdownClose, PoolInv, Drained, CallersDone
    <2>2. CASE ShutdownQuit
        BY <1>1, <1>9, <2>2 DEF ShutdownQuit, PoolInv, Drained, CallersDone
    <2>3. CASE ShutdownJoin
        BY <1>1, <1>9, <2>3 DEF ShutdownJoin, PoolInv, Drained, CallersDone
    <2> QED BY <2>1, <2>2, <2>3
<1> QED BY <1>3, <1>4, <1>8, <1>10, <1>11 DEF PoolInv

-----------------------------------------------------------------------------
LEMMA InitPool == Init => PoolInv
<1> SUFFICES ASSUME Init PROVE PoolInv
    OBVIOUS
<1>1. Cardinality(Worker) \in Nat /\ Cardinality(Worker) # 0
    BY FS_CardinalityType, FS_EmptySet
<1>2. /\ caller \in [Caller -> Callers]
      /\ \A c \in Caller : caller[c].pc \in {"start", "absent"} /\ caller[c].k = 1
    <2>1. PICK team \in Teams :
             caller = [c \in Caller |-> [pc |-> IF c \in team THEN "start" ELSE "absent",
                                         k |-> 1, tp |-> 0, task |-> NoTask]]
        BY DEF Init
    <2> QED BY <2>1 DEF Callers, SpawnPlaces
<1>3. /\ worker \in [Worker -> Workers]
      /\ \A w \in Worker : worker[w].pc = "scan" /\ worker[w].draining = FALSE
    BY DEF Init, Workers, WorkerPlaces
<1>4. items = <<>> /\ Len(items) = 0 /\ top = 0
    BY DEF Init
<1>5. PoolShape
    <2>1. scopeDq \in [Scoper -> Seq(Task)]
        BY DEF Init
    <2>2. /\ notify \in 0 .. Cardinality(Worker) /\ ran \in [Task -> Nat]
          /\ pending \in [Scoper -> Int] /\ scopes \in SUBSET Scoper
        BY <1>1 DEF Init
    <2>3. closed \in BOOLEAN /\ quit \in BOOLEAN /\ quiet \in BOOLEAN /\ stopper = "idle"
        BY DEF Init
    <2>4. items \in Seq(Task) /\ top \in Nat /\ top <= Len(items)
        BY <1>4
    <2> QED BY <1>2, <1>3, <2>1, <2>2, <2>3, <2>4 DEF PoolShape
<1>6. Roles
    BY <1>2, TaskFacts DEF Roles, RoleOf, ScoperPlaces, SpawnPlaces
<1>7. Looked
    BY <1>2, <1>3 DEF Looked
<1>8. \A r \in Goroutine, t \in Task \cup {NoTask} : ~Holds(r, t)
    BY <1>2, <1>3 DEF Holds
<1>9. \A s \in Scoper : Len(scopeDq[s]) = 0
    BY DEF Init
<1>10. \A t \in Task : ran[t] = 0
    BY DEF Init
<1>11. TasksPlaced
    BY <1>4, <1>8, <1>9, <1>10 DEF TasksPlaced, ItemsSound, ScopesSound, HandsSound, RanSound, TakenKept
<1>12. PendingExact
    <2> SUFFICES ASSUME NEW s \in Scoper PROVE pending[s] = Cardinality(Outstanding(s))
        BY DEF PendingExact
    <2>1. s \in Caller
        BY DEF Caller
    <2>2. \A k \in 1 .. Spawns[s] : ~Counted(s, k)
        BY <1>2, <2>1, TaskFacts DEF Counted, Past, Uncounted
    <2>3. Outstanding(s) = {}
        BY <2>2 DEF Outstanding
    <2> QED BY <2>3, FS_EmptySet DEF Init
<1>13. Attended
    BY <1>4 DEF Attended
<1>14. Drained
    BY <1>3, <1>4 DEF Init, Drained
<1> QED BY <1>5, <1>6, <1>7, <1>11, <1>12, <1>13, <1>14 DEF PoolInv

LEMMA StepPool == PoolInv /\ [Next]_vars => PoolInv'
<1> SUFFICES ASSUME PoolInv, [Next]_vars PROVE PoolInv'
    OBVIOUS
<1>1. ASSUME NEW w \in Worker, WorkerNext(w) PROVE PoolInv'
    BY <1>1, WorkerLookInv, WorkerStealInv, WorkerScopeInv, WorkerNothingInv, WorkerRunInv,
       WorkerWokenInv, WorkerQuitInv DEF WorkerNext
<1>2. ASSUME NEW c \in Caller, CallerNext(c) PROVE PoolInv'
    BY <1>2, SpawnInlineInv, SubmitCheckInv, SubmitPushInv, SubmitWakeInv, BlockReturnInv, BlockLookInv,
       BlockStealInv, BlockScopeInv, BlockRunInv, ScopeOpenInv, ScopeCountInv, ScopePushInv, ScopeWakeInv,
       ScopePopInv, ScopeRunInv, ScopeCloseInv DEF CallerNext
<1>3. ASSUME ShutdownClose \/ ShutdownQuit \/ ShutdownJoin PROVE PoolInv'
    BY <1>3, ShutdownInv
<1>4. ASSUME UNCHANGED vars PROVE PoolInv'
    <2> USE <1>4 DEF vars
    <2>1. PoolShape' /\ Roles' /\ Looked'
        BY DEF PoolInv, PoolShape, Roles, RoleOf, Looked
    <2>2. \A t \in Task : IsSpawned(t)' <=> IsSpawned(t)
        BY DEF IsSpawned
    <2>3. \A s \in Scoper : \A k \in 1 .. Spawns[s] : Counted(s, k)' <=> Counted(s, k)
        BY DEF Counted
    <2>4. \A r \in Goroutine, t \in Task \cup {NoTask} : Holds(r, t)' <=> Holds(r, t)
        BY DEF Holds
    <2>5. TasksPlaced' /\ PendingExact'
        BY <2>2, <2>3, <2>4, TasksStay, PendingStays DEF PoolInv
    <2>6. \A w \in Worker : WillLook(w)' <=> WillLook(w)
        BY DEF WillLook
    <2>7. NoHelper' <=> NoHelper
        BY DEF NoHelper
    <2>8. Attended' /\ Drained'
        BY <2>6, <2>7 DEF PoolInv, Attended, Drained, CallersDone
    <2> QED BY <2>1, <2>5, <2>8 DEF PoolInv
<1> QED BY <1>1, <1>2, <1>3, <1>4 DEF Next

(* The inductive invariant holds of every behaviour of the pool. *)
THEOREM PoolInvariant == Spec => []PoolInv
<1>1. Init => PoolInv
    BY InitPool
<1>2. PoolInv /\ [Next]_vars => PoolInv'
    BY StepPool
<1> QED BY <1>1, <1>2, PTL DEF Spec

(* A task is executed at most once, however many workers, helping waiters  *)
(* and joining scopes race for it.                                         *)
THEOREM RunsOnceHolds == Spec => []RunsOnce
<1>1. PoolInv => RunsOnce
    BY DEF PoolInv, TasksPlaced, RanSound, RunsOnce
<1> QED BY <1>1, PoolInvariant, PTL

-----------------------------------------------------------------------------
(* A scope is closed at pending zero, and nobody counts a child for it     *)
(* afterwards.                                                             *)
ScopesEnded == \A s \in Scoper : caller[s].pc = "end" => pending[s] <= 0

LEMMA StepEnded == PoolInv /\ ScopesEnded /\ [Next]_vars => ScopesEnded'
<1> SUFFICES ASSUME PoolInv, ScopesEnded, [Next]_vars, NEW s \in Scoper, caller'[s].pc = "end"
             PROVE  pending'[s] <= 0
    BY DEF ScopesEnded
<1>1. s \in Caller /\ pending[s] \in Int /\ caller \in [Caller -> Callers] /\ pending \in [Scoper -> Int]
    BY DEF Caller, PoolInv, PoolShape
<1>2. ASSUME caller'[s].pc = caller[s].pc, UNCHANGED pending PROVE pending'[s] <= 0
    BY <1>2 DEF ScopesEnded
<1>3. ASSUME NEW t0, RunTask(t0), caller'[s].pc = caller[s].pc PROVE pending'[s] <= 0
    BY <1>1, <1>3 DEF RunTask, ScopesEnded
<1>4. ASSUME NEW w \in Worker, WorkerNext(w) PROVE pending'[s] <= 0
    <2>1. CASE WorkerRun(w)
        BY <1>3, <2>1 DEF WorkerRun
    <2>2. CASE ~WorkerRun(w)
        BY <1>2, <1>4, <2>2 DEF WorkerNext, WorkerLook, WorkerSteal, WorkerScope, WorkerNothing, WorkerWoken,
           WorkerQuit, queues
    <2> QED BY <2>1, <2>2
<1>5. ASSUME NEW c \in Caller, CallerNext(c), c # s PROVE pending'[s] <= 0
    <2>1. CASE SpawnInline(c) \/ BlockRun(c) \/ ScopeRun(c)
        <3>1. caller'[s].pc = caller[s].pc
            BY <1>1, <1>5, <2>1 DEF SpawnInline, BlockRun, ScopeRun, Spawned
        <3> QED BY <1>3, <2>1, <3>1 DEF SpawnInline, BlockRun, ScopeRun
    <2>2. CASE ScopeCount(c)
        <3>1. pending'[s] = pending[s] /\ caller'[s].pc = caller[s].pc
            BY <1>1, <1>5, <2>2 DEF ScopeCount
        <3> QED BY <3>1 DEF ScopesEnded
    <2>3. CASE SubmitCheck(c) \/ SubmitPush(c) \/ SubmitWake(c) \/ BlockReturn(c) \/ BlockLook(c)
               \/ BlockSteal(c) \/ BlockScope(c)
        <3>1. caller'[s].pc = caller[s].pc
            BY <1>1, <1>5, <2>3 DEF SubmitCheck, SubmitPush, SubmitWake, BlockReturn, BlockLook, BlockSteal,
               BlockScope, Spawned
        <3>2. UNCHANGED pending
            BY <2>3 DEF SubmitCheck, SubmitPush, SubmitWake, BlockReturn, BlockLook, BlockSteal, BlockScope, queues
        <3> QED BY <1>2, <3>1, <3>2
    <2>4. CASE ScopeOpen(c) \/ ScopePush(c) \/ ScopeWake(c) \/ ScopePop(c) \/ ScopeClose(c)
        <3>1. caller'[s].pc = caller[s].pc
            BY <1>1, <1>5, <2>4 DEF ScopeOpen, ScopePush, ScopeWake, ScopePop, ScopeClose
        <3>2. UNCHANGED pending
            BY <2>4 DEF ScopeOpen, ScopePush, ScopeWake, ScopePop, ScopeClose, queues
        <3> QED BY <1>2, <3>1, <3>2
    <2> QED BY <1>5, <2>1, <2>2, <2>3, <2>4 DEF CallerNext
<1>6. ASSUME CallerNext(s) PROVE pending'[s] <= 0
    <2>1. caller[s] \in Callers /\ caller[s].pc \in ScoperPlaces
        BY <1>1, CallerFacts DEF RoleOf
    <2>2. CASE ScopeClose(s)
        BY <1>1, <2>2 DEF ScopeClose
    <2>3. CASE ~ScopeClose(s)
        <3>1. ScopeOpen(s) \/ ScopeCount(s) \/ ScopePush(s) \/ ScopeWake(s) \/ ScopePop(s) \/ ScopeRun(s)
            BY <1>6, <2>1, <2>3 DEF CallerNext, SpawnInline, SubmitCheck, SubmitPush, SubmitWake, BlockReturn,
               BlockLook, BlockSteal, BlockScope, BlockRun, ScoperPlaces
        <3>2. caller'[s].pc # "end"
            <4>1. CASE ScopeWake(s)
                BY <1>1, <2>1, <4>1 DEF Callers, ScopeWake
            <4>2. CASE ScopePop(s) \/ ScopeRun(s)
                BY <1>1, <2>1, <4>2 DEF Callers, ScopePop, ScopeRun
            <4>3. CASE ScopeOpen(s) \/ ScopeCount(s) \/ ScopePush(s)
                BY <1>1, <2>1, <4>3 DEF Callers, ScopeOpen, ScopeCount, ScopePush
            <4> QED BY <3>1, <4>1, <4>2, <4>3
        <3> QED BY <3>2
    <2> QED BY <2>2, <2>3
<1>7. ASSUME ShutdownClose \/ ShutdownQuit \/ ShutdownJoin \/ UNCHANGED vars PROVE pending'[s] <= 0
    BY <1>2, <1>7 DEF ShutdownClose, ShutdownQuit, ShutdownJoin, queues, vars
<1> QED BY <1>4, <1>5, <1>6, <1>7 DEF Next

(* l2-task-system INV-2, for any number of children: a scope that has been *)
(* closed has no child left to run, because pending counts them exactly.   *)
THEOREM ScopeOutlivesChildrenHolds == Spec => []ScopeOutlivesChildren
<1>1. Init => ScopesEnded
    BY DEF Init, ScopesEnded
<1>2. PoolInv /\ ScopesEnded => ScopeOutlivesChildren
    <2> SUFFICES ASSUME PoolInv, ScopesEnded, NEW s \in Scoper, caller[s].pc = "end", NEW k \in 1 .. Spawns[s]
                 PROVE  ran[<<s, k>>] = 1
        BY DEF ScopeOutlivesChildren
    <2>1. s \in Caller /\ <<s, k>> \in Task /\ Spawns[s] \in Nat \ {0}
        BY TaskFacts DEF Caller
    <2>2. caller[s].k = Spawns[s]
        BY <2>1 DEF PoolInv, Roles, RoleOf
    <2>3. Counted(s, k)
        BY <2>1, <2>2 DEF Counted, Past, Uncounted
    <2>4. Outstanding(s) = {}
        <3>1. Cardinality(Outstanding(s)) = 0
            <4>1. Cardinality(Outstanding(s)) \in Nat
                BY OutstandingFinite
            <4>2. pending[s] = Cardinality(Outstanding(s)) /\ pending[s] <= 0
                BY DEF PoolInv, PendingExact, ScopesEnded
            <4> QED BY <4>1, <4>2
        <3> QED BY <3>1, OutstandingFinite, FS_EmptySet
    <2>5. ran[<<s, k>>] # 0
        BY <2>3, <2>4 DEF Outstanding
    <2>6. ran[<<s, k>>] \in Nat /\ ran[<<s, k>>] <= 1
        BY <2>1 DEF PoolInv, PoolShape, TasksPlaced, RanSound
    <2> QED BY <2>5, <2>6
<1>3. PoolInv /\ ScopesEnded /\ [Next]_vars => ScopesEnded'
    BY StepEnded
<1> QED BY <1>1, <1>2, <1>3, PoolInvariant, PTL DEF Spec

(* pool.go:255 and :266-267, as far as the code guarantees them: when all  *)
(* workers sleep and no BlockOn waiter has been stealing, the deque is     *)
(* empty; and a Shutdown after the last caller leaves nothing behind.      *)
THEOREM RestMeansDoneHolds == Spec => []RestMeansDone
<1>1. PoolInv => ParkedWithoutHelpers
    <2> SUFFICES ASSUME PoolInv, AllParked, \A b \in Blocker : caller[b].pc \in {"start", "absent"}
                 PROVE  top = Len(items)
        BY DEF ParkedWithoutHelpers
    <2>1. NoHelper
        BY DEF NoHelper, BlockPlaces
    <2>2. \A w \in Worker : worker[w].pc = "park" /\ ~WillLook(w)
        BY DEF AllParked, WillLook
    <2>3. ~(notify > 0) /\ \A c \in Caller : caller[c].pc # "wake"
        BY DEF AllParked
    <2>4. top \in Nat /\ Len(items) \in Nat /\ top <= Len(items)
        BY QueueFacts DEF PoolInv, PoolShape
    <2> QED BY <2>1, <2>2, <2>3, <2>4 DEF PoolInv, Attended
<1>2. PoolInv => DrainedWhenQuiet
    <2> SUFFICES ASSUME PoolInv, stopper = "end", quiet PROVE AllRan
        BY DEF DrainedWhenQuiet
    <2>1. \A w \in Worker : worker[w].pc = "exit" /\ worker[w].draining /\ ~WillLook(w)
        BY DEF PoolInv, Drained, WillLook
    <2>2. top \in Nat /\ Len(items) \in Nat /\ top <= Len(items)
        BY QueueFacts DEF PoolInv, PoolShape
    <2>3. top = Len(items)
        BY <2>1, <2>2 DEF PoolInv, Drained
    <2>4. \A r \in Goroutine, t \in Task \cup {NoTask} : ~Holds(r, t)
        <3>1. \A c \in Caller : caller[c].pc \in {"end", "absent"}
            BY DEF PoolInv, Drained, CallersDone
        <3> QED BY <2>1, <3>1 DEF Holds
    <2>5. \A i \in 1 .. Len(items) : ran[items[i]] = 1
        BY <2>3, <2>4, QueueFacts DEF PoolInv, TasksPlaced, TakenKept
    <2> QED BY <2>3, <2>5 DEF AllRan
<1> QED BY <1>1, <1>2, PoolInvariant, PTL DEF RestMeansDone
=============================================================================
