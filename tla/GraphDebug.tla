----------------------------- MODULE GraphDebug -----------------------------
(***************************************************************************)
(* internal/grapheditor: the interpreter records the steps and errors of   *)
(* running graphs into the DebugStore, the editor sets breakpoints and     *)
(* steps through the trace, and the sync system forwards what was recorded *)
(* once per frame.  Every method holds the store's lock: one action each.  *)
(***************************************************************************)
EXTENDS Naturals, Sequences, FiniteSets

CONSTANTS
    GraphID, GraphNode,
    MaxTrace,       \* DebugStore.maxTrace (256)
    MaxSteps,       \* bound: steps and errors recorded
    MaxReplays      \* bound: StepNext calls

ASSUME GraphDebugAssumption == MaxTrace \in Nat \ {0} /\ {MaxSteps, MaxReplays} \subseteq Nat

VARIABLES
    debugged,    \* DebugStore.graphs: open graph -> its graphDebug
    queued,      \* DebugStore.pending: TraceEvents
    messages,    \* what the sink received, [kind, graph, node, frame]
    \* ghosts
    happened,    \* [graph, node, error, hit, open] of what ran, in order
    opened,      \* graph -> what had happened when it was opened last
    stepped,     \* graph -> the steps StepNext returned since the last reset
    replays      \* StepNext calls

debugVars == <<debugged, queued, messages, happened, opened, stepped, replays>>

DebugInit ==
    /\ debugged = << >> /\ queued = <<>> /\ messages = <<>>
    /\ happened = <<>> /\ opened = [g \in GraphID |-> 0] /\ stepped = [g \in GraphID |-> <<>>] /\ replays = 0

NewGraphDebug ==
    [breakpoints |-> {}, execCount |-> [n \in GraphNode |-> 0], latest |-> [n \in GraphNode |-> 0],
     trace |-> <<>>, cursor |-> 0]

IsOpen(g) == g \in DOMAIN debugged

-----------------------------------------------------------------------------
(* Idempotent: an open graph keeps its state. *)
Open(g) ==
    /\ debugged' = [h \in DOMAIN debugged \cup {g} |-> IF h \in DOMAIN debugged THEN debugged[h] ELSE NewGraphDebug]
    /\ stepped' = [stepped EXCEPT ![g] = IF IsOpen(g) THEN @ ELSE <<>>]
    /\ opened' = [opened EXCEPT ![g] = IF IsOpen(g) THEN @ ELSE Len(happened)]
    /\ UNCHANGED <<queued, messages, happened, replays>>

(* What is queued stays queued. *)
CloseGraph(g) ==
    /\ IsOpen(g)
    /\ debugged' = [h \in DOMAIN debugged \ {g} |-> debugged[h]]
    /\ UNCHANGED <<queued, messages, happened, opened, stepped, replays>>

ToggleBreakpoint(g, n) ==
    /\ IsOpen(g)
    /\ debugged' = [debugged EXCEPT ![g].breakpoints = IF n \in @ THEN @ \ {n} ELSE @ \cup {n}]
    /\ UNCHANGED <<queued, messages, happened, opened, stepped, replays>>

(* Mutant: the ring drops the frame that is new. *)
TrimmedNewest(trace) == IF Len(trace) > MaxTrace THEN SubSeq(trace, 1, MaxTrace) ELSE trace

Trimmed(trace) == IF Len(trace) > MaxTrace THEN SubSeq(trace, Len(trace) - MaxTrace + 1, Len(trace)) ELSE trace

(* Recorder.RecordStep and RecordFrame. *)
RecordFrame(g, n) ==
    LET step == Len(happened) + 1
        hit == IsOpen(g) /\ n \in debugged[g].breakpoints
    IN
    /\ step <= MaxSteps
    /\ IF IsOpen(g)
       THEN /\ debugged' = [debugged EXCEPT ![g].execCount[n] = @ + 1, ![g].latest[n] = step,
                                            ![g].trace = Trimmed(Append(@, step))]
            /\ queued' = Append(queued, [kind |-> IF hit THEN "hit" ELSE "step", graph |-> g, node |-> n, frame |-> step])
       ELSE UNCHANGED <<debugged, queued>>
    /\ happened' = Append(happened, [graph |-> g, node |-> n, error |-> FALSE, hit |-> hit, open |-> IsOpen(g)])
    /\ UNCHANGED <<messages, opened, stepped, replays>>

(* RecordError: the event carries the node's latest frame, none if the     *)
(* node has not run.                                                       *)
RecordError(g, n) ==
    /\ Len(happened) < MaxSteps
    /\ queued' = IF IsOpen(g)
                  THEN Append(queued, [kind |-> "error", graph |-> g, node |-> n, frame |-> debugged[g].latest[n]])
                  ELSE queued
    /\ happened' = Append(happened, [graph |-> g, node |-> n, error |-> TRUE, hit |-> FALSE, open |-> IsOpen(g)])
    /\ UNCHANGED <<debugged, messages, opened, stepped, replays>>

(* syncDebugEvents: DrainEvents, toProtocol and the sink. *)
DebugSync ==
    /\ queued # <<>>
    /\ messages' = messages \o queued
    /\ queued' = <<>>
    /\ UNCHANGED <<debugged, happened, opened, stepped, replays>>

(* StepNext; 0 in stepped is the answer that the trace is exhausted. *)
StepNext(g) ==
    LET d == debugged[g] IN
    /\ IsOpen(g) /\ replays < MaxReplays
    /\ replays' = replays + 1
    /\ IF d.cursor >= Len(d.trace)
       THEN /\ stepped' = [stepped EXCEPT ![g] = Append(@, 0)]
            /\ UNCHANGED debugged
       ELSE /\ stepped' = [stepped EXCEPT ![g] = Append(@, d.trace[d.cursor + 1])]
            /\ debugged' = [debugged EXCEPT ![g].cursor = @ + 1]
    /\ UNCHANGED <<queued, messages, happened, opened>>

(* Continue: ResetCursor. *)
ResetCursor(g) ==
    /\ IsOpen(g) /\ debugged[g].cursor # 0
    /\ debugged' = [debugged EXCEPT ![g].cursor = 0]
    /\ stepped' = [stepped EXCEPT ![g] = <<>>]
    /\ UNCHANGED <<queued, messages, happened, opened, replays>>

DebugNext ==
    \/ \E g \in GraphID : Open(g) \/ CloseGraph(g) \/ StepNext(g) \/ ResetCursor(g)
    \/ \E g \in GraphID, n \in GraphNode : ToggleBreakpoint(g, n) \/ RecordFrame(g, n) \/ RecordError(g, n)
    \/ DebugSync

DebugSpec == DebugInit /\ [][DebugNext]_debugVars

-----------------------------------------------------------------------------
(* How many of the first i things that happened in h the editor is told. *)
Told(h, i) == Cardinality({j \in 1 .. i : h[j].open})

(* sync.go.  The editor hears of every step and error of a graph that was  *)
(* open then, once, in the order they happened, whether the graph is still *)
(* open when the system runs or not, and as a hit if and only if the node  *)
(* had a breakpoint when it ran; an error shows an earlier step of that    *)
(* very node.                                                              *)
EditorHearsAll ==
    LET heard == messages \o queued
    IN /\ Len(heard) = Told(happened, Len(happened))
       /\ \A i \in DOMAIN happened : happened[i].open =>
            LET h == happened[i] m == heard[Told(happened, i)] IN
            /\ m.graph = h.graph /\ m.node = h.node
            /\ m.kind = (IF h.error THEN "error" ELSE IF h.hit THEN "hit" ELSE "step")
            /\ IF h.error
               THEN m.frame # 0 => /\ m.frame < i /\ ~happened[m.frame].error
                                   /\ happened[m.frame].node = h.node /\ happened[m.frame].graph = h.graph
               ELSE m.frame = i

(* The steps of a graph since it was opened. *)
StepsSince(g) == {i \in DOMAIN happened : i > opened[g] /\ happened[i].graph = g /\ ~happened[i].error}

(* debug.go:142-154, 198-199.  The trace is the newest steps since the     *)
(* graph was opened, in order and as many as fit, and each node's count is *)
(* of its steps.                                                           *)
TraceNewest ==
    \A g \in DOMAIN debugged :
        LET d == debugged[g] IN
        /\ \A i, j \in DOMAIN d.trace : i < j => d.trace[i] < d.trace[j]
        /\ \A k \in DOMAIN d.trace : d.trace[k] \in StepsSince(g)
        /\ \A i \in StepsSince(g) :
            \/ \E k \in DOMAIN d.trace : d.trace[k] = i
            \/ Len(d.trace) = MaxTrace /\ \A k \in DOMAIN d.trace : i < d.trace[k]
        /\ \A n \in GraphNode : d.execCount[n] = Cardinality({i \in StepsSince(g) : happened[i].node = n})

(* debug.go:233-245.  Stepping never goes back, shows no step twice, and   *)
(* none of another graph nor of before it was opened.                      *)
SteppingAscends ==
    \A g \in DOMAIN debugged :
        LET s == stepped[g] IN
        /\ \A i \in DOMAIN s : s[i] \in StepsSince(g) \cup {0}
        /\ \A i, j \in DOMAIN s : i < j /\ s[j] # 0 => s[i] < s[j]

(* All three, of what the editor is shown of the graphs that run. *)
DebugFaithful == EditorHearsAll /\ TraceNewest /\ SteppingAscends

(* StepNext, "with ok=false once the cursor reaches the end of the trace". *)
(* The ring moves under the cursor: once it is full, steps are skipped,    *)
(* and at its end none is ever shown again.                                *)
StepsInTurn ==
    \A g \in DOMAIN debugged :
        stepped[g] # <<>> /\ debugged[g].trace # <<>> /\ stepped[g][Len(stepped[g])] = 0
            => /\ Len(stepped[g]) > 1
               /\ stepped[g][Len(stepped[g]) - 1] = debugged[g].trace[Len(debugged[g].trace)]
=============================================================================
