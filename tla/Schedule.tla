------------------------------ MODULE Schedule ------------------------------
(***************************************************************************)
(* internal/ecs/scheduler: systems are registered in a schedule, ordering  *)
(* constraints are declared between systems and between sets of systems,   *)
(* Build derives the execution order, and the sequential executor runs the *)
(* systems in it and flushes their commands.  A node's ID is its position  *)
(* in `nodes`.                                                             *)
(***************************************************************************)
EXTENDS Naturals, Sequences, FiniteSets, SequencesExt

CONSTANTS
    Name,          \* system names
    Set,           \* system sets
    Reads, Writes, Excludes,   \* [Name -> set of components]: query.Access
    NoName,        \* a name no system has
    MaxWork,       \* bound: declarations and runs together
    MaxCommands    \* bound: commands the systems buffer

ASSUME ScheduleAssumption ==
    /\ DOMAIN Reads = Name /\ DOMAIN Writes = Name /\ DOMAIN Excludes = Name
    /\ NoName \notin Name

VARIABLES
    nodes,       \* the systems in registration order
    sets,        \* [Name -> SUBSET Set]: the sets a system has joined
    gated,       \* systems and sets that carry a run condition
    befores, afters,         \* <<source, target name>> constraints
    setBefores, setAfters,   \* <<set, other set>> constraints
    built, order,
    err,         \* what Build reported, while nothing was declared since
    todo,        \* IDs the current run has still to visit
    running,
    run,         \* number of the current or last run
    buffered,    \* commands not flushed yet: [system, run]
    flushed,     \* commands flushed: [system, run, at]
    given,       \* history: every command a system buffered
    failed       \* history: the runs a panic ended

declVars == <<nodes, sets, gated, befores, afters, setBefores, setAfters>>
buildVars == <<built, order, err>>
runVars == <<todo, running, run, buffered, flushed, given, failed>>
scheduleVars == <<declVars, buildVars, runVars>>

ScheduleInit ==
    /\ nodes = <<>>
    /\ sets = [n \in Name |-> {}]
    /\ gated = {}
    /\ befores = {} /\ afters = {} /\ setBefores = {} /\ setAfters = {}
    /\ built = FALSE /\ order = <<>> /\ err = "none"
    /\ todo = <<>> /\ running = FALSE /\ run = 0
    /\ buffered = {} /\ flushed = {} /\ given = {} /\ failed = {}

IDs == DOMAIN nodes
Known == ToSet(nodes)
ID(n) == CHOOSE i \in IDs : nodes[i] = n

Decls == Cardinality(befores) + Cardinality(afters) + Cardinality(setBefores)
         + Cardinality(setAfters) + Cardinality(gated)
         + Cardinality({p \in Name \X Set : p[2] \in sets[p[1]]})

-----------------------------------------------------------------------------
(* Access.Conflicts *)
Conflicts(m, n) ==
    LET touched(k) == Reads[k] \cup Writes[k] \cup Excludes[k]
    IN  \/ Excludes[m] \cap touched(n) # {}
        \/ Excludes[n] \cap touched(m) # {}
        \/ Writes[m] \cap (Writes[n] \cup Reads[n]) # {}
        \/ Writes[n] \cap Reads[m] # {}

MembersOf(s) == {i \in IDs : s \in sets[nodes[i]]}

(* Build, parts 1 to 3: the constraints the program declared. *)
ExplicitEdges ==
    {<<ID(p[1]), ID(p[2])>> : p \in befores} \cup {<<ID(p[2]), ID(p[1])>> : p \in afters}
    \cup (UNION {MembersOf(p[1]) \X MembersOf(p[2]) : p \in setBefores})
    \cup (UNION {MembersOf(p[2]) \X MembersOf(p[1]) : p \in setAfters})

(* Mutant: the pair is ordered although the opposite edge is declared. *)
ImplicitEdgesBlind(explicit) ==
    {e \in IDs \X IDs : e[1] < e[2] /\ Conflicts(nodes[e[1]], nodes[e[2]])}

(* Build, part 4: conflicting systems without a direct edge run in          *)
(* registration order.                                                     *)
ImplicitEdges(explicit) ==
    {e \in IDs \X IDs :
        e[1] < e[2] /\ Conflicts(nodes[e[1]], nodes[e[2]]) /\ <<e[2], e[1]>> \notin explicit}

Edges == ExplicitEdges \cup ImplicitEdges(ExplicitEdges)

(* Mutant: a node is ready as soon as one of its predecessors is emitted. *)
KahnStepEager(edges, sorted) ==
    LET ready == {i \in IDs \ ToSet(sorted) :
                    (\A e \in edges : e[2] # i) \/ (\E e \in edges : e[2] = i /\ e[1] \in ToSet(sorted))}
    IN  IF ready = {} THEN sorted ELSE Append(sorted, CHOOSE i \in ready : \A j \in ready : i <= j)

(* DAG.Build, one round: emit the lowest ID whose predecessors are out. *)
KahnStep(edges, sorted) ==
    LET ready == {i \in IDs \ ToSet(sorted) :
                    \A e \in edges : e[2] = i => e[1] \in ToSet(sorted)}
    IN  IF ready = {} THEN sorted ELSE Append(sorted, CHOOSE i \in ready : \A j \in ready : i <= j)

(* DAG.Build: at most one round for each node. *)
Kahn(edges) ==
    LET sorted[k \in 0 .. Len(nodes)] == IF k = 0 THEN <<>> ELSE KahnStep(edges, sorted[k - 1])
    IN  sorted[Len(nodes)]

-----------------------------------------------------------------------------
Declaring == ~running /\ UNCHANGED runVars
Bounded == Decls + run < MaxWork
Invalidate == built' = FALSE /\ err' = "none" /\ UNCHANGED order

(* AddSystem; a duplicate name changes nothing. *)
AddSystem(n) ==
    /\ Declaring
    /\ n \notin Known
    /\ nodes' = Append(nodes, n)
    /\ Invalidate
    /\ UNCHANGED <<sets, gated, befores, afters, setBefores, setAfters>>

(* SystemNodeBuilder.Before and After: the target may be added later. *)
Before(n, target) ==
    /\ Declaring /\ Bounded
    /\ n \in Known
    /\ befores' = befores \cup {<<n, target>>}
    /\ Invalidate
    /\ UNCHANGED <<nodes, sets, gated, afters, setBefores, setAfters>>

After(n, target) ==
    /\ Declaring /\ Bounded
    /\ n \in Known
    /\ afters' = afters \cup {<<n, target>>}
    /\ Invalidate
    /\ UNCHANGED <<nodes, sets, gated, befores, setBefores, setAfters>>

InSet(n, s) ==
    /\ Declaring /\ Bounded
    /\ n \in Known /\ s \notin sets[n]
    /\ sets' = [sets EXCEPT ![n] = @ \cup {s}]
    /\ Invalidate
    /\ UNCHANGED <<nodes, gated, befores, afters, setBefores, setAfters>>

SetBefore(s, other) ==
    /\ Declaring /\ Bounded
    /\ setBefores' = setBefores \cup {<<s, other>>}
    /\ Invalidate
    /\ UNCHANGED <<nodes, sets, gated, befores, afters, setAfters>>

SetAfter(s, other) ==
    /\ Declaring /\ Bounded
    /\ setAfters' = setAfters \cup {<<s, other>>}
    /\ Invalidate
    /\ UNCHANGED <<nodes, sets, gated, befores, afters, setBefores>>

(* A system's RunIf needs no rebuild: the executor reads the conditions. *)
RunIf(n) ==
    /\ Declaring /\ Bounded
    /\ n \in Known
    /\ gated' = gated \cup {n}
    /\ UNCHANGED <<nodes, sets, befores, afters, setBefores, setAfters, buildVars>>

SetRunIf(s) ==
    /\ Declaring /\ Bounded
    /\ gated' = gated \cup {s}
    /\ Invalidate
    /\ UNCHANGED <<nodes, sets, befores, afters, setBefores, setAfters>>

(* Build.  An early return keeps the old order and `built`.  Which error   *)
(* is reported when there are several depends on the declaration order.    *)
Unknown == \E p \in befores \cup afters : p[2] \notin Known
SelfReference == \E p \in befores \cup afters : p[1] = p[2]

Build ==
    /\ Declaring
    /\ ~built
    /\ UNCHANGED declVars
    /\ \/ /\ Unknown
          /\ err' = "unknown"
          /\ UNCHANGED <<built, order>>
       \/ /\ SelfReference
          /\ err' = "cycle"
          /\ UNCHANGED <<built, order>>
       \/ /\ ~Unknown /\ ~SelfReference
          /\ IF Len(Kahn(Edges)) = Len(nodes)
             THEN err' = "none" /\ built' = TRUE /\ order' = Kahn(Edges)
             ELSE err' = "cycle" /\ UNCHANGED <<built, order>>

-----------------------------------------------------------------------------
(* SequentialExecutor.Run refuses a schedule that is not built. *)
StartRun ==
    /\ ~running /\ built /\ Bounded
    /\ running' = TRUE
    /\ run' = run + 1
    /\ todo' = order
    /\ UNCHANGED <<declVars, buildVars, buffered, flushed, given, failed>>

Conditional(i) == nodes[i] \in gated \/ sets[nodes[i]] \cap gated # {}

MayBuffer(n) ==
    \E cmds \in SUBSET {[system |-> n, run |-> run]} :
        /\ Cardinality(given \cup cmds) <= MaxCommands
        /\ buffered' = buffered \cup cmds
        /\ given' = given \cup cmds

(* The next system runs, and buffers a command or not. *)
RunSystem ==
    /\ running /\ todo # <<>>
    /\ MayBuffer(nodes[Head(todo)])
    /\ todo' = Tail(todo)
    /\ UNCHANGED <<declVars, buildVars, running, run, flushed, failed>>

(* A condition of the system or of one of its sets is false. *)
SkipSystem ==
    /\ running /\ todo # <<>>
    /\ Conditional(Head(todo))
    /\ todo' = Tail(todo)
    /\ UNCHANGED <<declVars, buildVars, running, run, buffered, flushed, given, failed>>

(* Mutant: the commands buffered so far are thrown away. *)
PanicDiscards ==
    /\ running /\ todo # <<>>
    /\ buffered' = {}
    /\ running' = FALSE
    /\ todo' = <<>>
    /\ failed' = failed \cup {run}
    /\ UNCHANGED <<declVars, buildVars, run, flushed, given>>

(* The next system panics, after it may have buffered a command: the run   *)
(* ends there and the flush is skipped.                                    *)
Panic ==
    /\ running /\ todo # <<>>
    /\ MayBuffer(nodes[Head(todo)])
    /\ running' = FALSE
    /\ todo' = <<>>
    /\ failed' = failed \cup {run}
    /\ UNCHANGED <<declVars, buildVars, run, flushed>>

(* Every system is done: World.ApplyDeferred flushes every buffer. *)
Flush ==
    /\ running /\ todo = <<>>
    /\ flushed' = flushed \cup {[system |-> c.system, run |-> c.run, at |-> run] : c \in buffered}
    /\ buffered' = {}
    /\ running' = FALSE
    /\ UNCHANGED <<declVars, buildVars, todo, run, given, failed>>

ScheduleNext ==
    \/ \E n \in Name : AddSystem(n)
    \/ \E n \in Name, t \in Name \cup {NoName} : Before(n, t) \/ After(n, t)
    \/ \E n \in Name, s \in Set : InSet(n, s)
    \/ \E s \in Set, t \in Set : SetBefore(s, t) \/ SetAfter(s, t)
    \/ \E n \in Name : RunIf(n)
    \/ \E s \in Set : SetRunIf(s)
    \/ Build
    \/ StartRun \/ RunSystem \/ SkipSystem \/ Panic \/ Flush

ScheduleSpec == ScheduleInit /\ [][ScheduleNext]_scheduleVars

-----------------------------------------------------------------------------
(* A nonempty set of systems each of which waits for another one of it.    *)
Cyclic(edges) ==
    \E loop \in SUBSET IDs \ {{}} : \A j \in loop : \E i \in loop : <<i, j>> \in edges

(* What the comments of Schedule ask for: the declared constraints, and    *)
(* registration order between conflicting systems nobody ordered directly. *)
Required ==
    ExplicitEdges \cup
    {e \in IDs \X IDs :
        e[1] < e[2] /\ Conflicts(nodes[e[1]], nodes[e[2]]) /\ <<e[2], e[1]>> \notin ExplicitEdges}

Orders == {p \in [IDs -> IDs] : \A i, j \in IDs : i # j => p[i] # p[j]}
Respects(p, edges) == \A k, l \in IDs : <<p[k], p[l]>> \in edges => k < l

(* schedule.go:49-60.  As long as the schedule counts as built, its order  *)
(* holds every system once and respects every constraint declared so far,  *)
(* whatever was declared after an earlier Build.                           *)
OrderSound ==
    built => /\ ~Unknown
             /\ order \in Orders
             /\ Respects(order, Required)

(* Build reports a cycle only when the required order has one: an implicit *)
(* edge never opposes a declared edge between the same two systems.        *)
FailsOnlyOnCycle == err = "cycle" => SelfReference \/ Cyclic(Required)

(* executor.go:45-52.  A command is flushed by the first run, from its own *)
(* on, that no panic ended; until then it stays buffered and is not lost.  *)
CommandsKept ==
    /\ given = buffered \cup {[system |-> f.system, run |-> f.run] : f \in flushed}
    /\ \A f \in flushed : f.at \notin failed /\ f.run .. (f.at - 1) \subseteq failed
    /\ \A c \in buffered : ~running => c.run .. run \subseteq failed

(* schedule.go:54-58, read as a promise: constraints that are acyclic by   *)
(* themselves build.  The code does not keep it, since a declared path of  *)
(* two or more edges does not suppress an implicit edge.                   *)
BuildsWhenAcyclic == err = "cycle" => SelfReference \/ Cyclic(ExplicitEdges)
=============================================================================
