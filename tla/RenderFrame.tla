---------------------------- MODULE RenderFrame -----------------------------
(***************************************************************************)
(* One render frame of internal/render: RunFrame builds the render graph   *)
(* against the reference counts of the ResourceTracker, executes the       *)
(* passes, presents, and destroys what was freed in earlier frames.  Any   *)
(* goroutine retains and releases resources meanwhile.  The tracker locks  *)
(* each call by itself; here the checks of one Build are one step, its     *)
(* pins another.  The backend has nothing but the destroyed resources.     *)
(***************************************************************************)
EXTENDS Naturals, Sequences, FiniteSets, FiniteSetsExt, SequencesExt

CONSTANTS
    Resource,    \* RIDs
    Pass,        \* the passes one can add: [in, out: SUBSET Resource]
    MaxPasses,   \* bound: passes of the graph
    MaxHeld,     \* bound: references held outside the graph, for one resource
    MaxFrame     \* bound: frames

ASSUME FrameAssumption ==
    /\ Pass \subseteq [in : SUBSET Resource, out : SUBSET Resource]
    /\ {MaxPasses, MaxHeld, MaxFrame} \subseteq Nat

VARIABLES
    passes, order,   \* RenderGraph.passes, .order
    refs,            \* ResourceTracker.refs, 0 where there is no entry
    pending,         \* [Resource -> Nat]: frame + 1 of ResourceTracker.pending, or 0
    destroyed,       \* the resources the backend destroyed
    frame,           \* RenderSubApp.frame
    at,              \* where RunFrame is
    dead,            \* EndFrame's list
    created,         \* resources that exist
    held,            \* [Resource -> references held by anybody but the graph]
    written,         \* history: in-graph resources written in this frame
    misread,         \* history: external resources read when destroyed, in-graph ones not yet written
    revived          \* history: resources retained while EndFrame was about to destroy them

frameVars == <<passes, order, refs, pending, destroyed, frame, at, dead, created, held, written, misread, revived>>
tracker == <<refs, pending>>
users == <<created, held>>

None == [r \in Resource |-> 0]

FrameInit ==
    /\ passes = <<>> /\ order = <<>>
    /\ refs = None /\ pending = None /\ destroyed = {}
    /\ frame = 0 /\ at = "idle" /\ dead = {}
    /\ created = {} /\ held = None
    /\ written = {} /\ misread = {} /\ revived = {}

-----------------------------------------------------------------------------
(* ResourceTracker. *)

(* Mutant: the pending free stays. *)
RetainAnyway(r) == refs' = [refs EXCEPT ![r] = @ + 1] /\ UNCHANGED pending

Retain(r) == refs' = [refs EXCEPT ![r] = @ + 1] /\ pending' = [pending EXCEPT ![r] = 0]

Release(r, f) ==
    IF refs[r] = 0 THEN UNCHANGED tracker
    ELSE /\ refs' = [refs EXCEPT ![r] = @ - 1]
         /\ pending' = IF refs[r] = 1 THEN [pending EXCEPT ![r] = f + 1] ELSE pending

(* A user creates a resource, shares it, or comes back to one it has       *)
(* released and that is not destroyed yet.                                 *)
Hold(r) ==
    /\ held[r] < MaxHeld
    /\ r \notin destroyed \/ held[r] > 0
    /\ created' = created \cup {r}
    /\ held' = [held EXCEPT ![r] = @ + 1]
    /\ Retain(r)
    /\ revived' = IF r \in dead THEN revived \cup {r} ELSE revived
    /\ UNCHANGED <<passes, order, destroyed, frame, at, dead, written, misread>>

(* The frame number may have been read before the next frame began. *)
LetGo(r, f) ==
    /\ held[r] > 0
    /\ f \in {frame, frame - 1} \cap Nat
    /\ held' = [held EXCEPT ![r] = @ - 1]
    /\ Release(r, f)
    /\ UNCHANGED <<passes, order, destroyed, frame, at, dead, created, written, misread, revived>>

-----------------------------------------------------------------------------
(* RenderGraph. *)

AddPass(p) ==
    /\ at = "idle" /\ Len(passes) < MaxPasses
    /\ passes' = Append(passes, p)
    /\ UNCHANGED <<order, tracker, destroyed, frame, at, dead, users, written, misread, revived>>

Index == 1 .. Len(passes)
Writers(r) == {i \in Index : r \in passes[i].out}
Produced == {r \in Resource : Writers(r) # {}}

(* The last writer wins. *)
Producer(r) == Max(Writers(r))

Edges == {<<Producer(x[1]), x[2]>> : x \in {y \in Produced \X Index : y[1] \in passes[y[2]].in}}

SelfRead == \E e \in Edges : e[1] = e[2]

(* The passes all of whose producers have run. *)
Ready(done, edges) == {j \in Index \ Range(done) : \A e \in edges : e[2] = j => e[1] \in Range(done)}

(* Kahn with a sorted frontier: always the lowest index, once a round. *)
Round(done, edges) == IF Ready(done, edges) = {} THEN done ELSE Append(done, Min(Ready(done, edges)))

Sorted ==
    LET done[n \in 0 .. Len(passes)] == IF n = 0 THEN <<>> ELSE Round(done[n - 1], Edges)
    IN  done[Len(passes)]

Cyclic == SelfRead \/ Len(Sorted) < Len(passes)

(* How often Build's loop retains a resource. *)
Uses(r) == Cardinality({i \in Index : r \in passes[i].in}) + Cardinality(Writers(r))

-----------------------------------------------------------------------------
(* RunFrame. *)

Collect ==
    /\ at = "idle" /\ frame < MaxFrame
    /\ frame' = frame + 1
    /\ at' = "check"
    /\ written' = {}
    /\ UNCHANGED <<passes, order, tracker, destroyed, dead, users, misread, revived>>

(* Build: a pass reads an external resource nobody refers to. *)
Released == \E j \in Index : \E r \in passes[j].in \ Produced : refs[r] = 0

Check ==
    /\ at = "check"
    /\ at' = IF Released THEN "idle" ELSE "pin"
    /\ UNCHANGED <<passes, order, tracker, destroyed, frame, dead, users, written, misread, revived>>

(* Build: pin everything, then sort; an error leaves the pins.  Nobody     *)
(* takes a pin back.                                                       *)
PinAndSort ==
    /\ at = "pin"
    /\ refs' = [r \in Resource |-> refs[r] + Uses(r)]
    /\ pending' = [r \in Resource |-> IF Uses(r) > 0 THEN 0 ELSE pending[r]]
    /\ order' = IF Cyclic THEN order ELSE Sorted
    /\ at' = IF Cyclic THEN "idle" ELSE "execute"
    /\ UNCHANGED <<passes, destroyed, frame, dead, users, written, misread, revived>>

(* Execute, one pass. *)
ExecutePass ==
    /\ at = "execute" /\ order # <<>>
    /\ LET j == Head(order) IN
       /\ misread' = misread \cup ((passes[j].in \cap destroyed) \ Produced)
                             \cup {r \in passes[j].in \cap Produced : r \notin written}
       /\ written' = written \cup {r \in passes[j].out : Producer(r) = j}
    /\ order' = Tail(order)
    /\ UNCHANGED <<passes, tracker, destroyed, frame, at, dead, users, revived>>

(* Submit, Present, and EndFrame under its lock. *)
EndFrame ==
    /\ at = "execute" /\ order = <<>>
    /\ dead' = {r \in Resource : pending[r] > 0 /\ pending[r] - 1 < frame}
    /\ pending' = [r \in Resource |-> IF r \in dead' THEN 0 ELSE pending[r]]
    /\ at' = "destroy"
    /\ UNCHANGED <<passes, order, refs, destroyed, frame, users, written, misread, revived>>

(* EndFrame after its lock. *)
Destroy ==
    /\ at = "destroy"
    /\ destroyed' = destroyed \cup dead
    /\ dead' = {}
    /\ at' = "idle"
    /\ UNCHANGED <<passes, order, tracker, frame, users, written, misread, revived>>

FrameNext ==
    \/ \E r \in Resource : Hold(r) \/ \E f \in 0 .. MaxFrame : LetGo(r, f)
    \/ \E p \in Pass : AddPass(p)
    \/ Collect \/ Check \/ PinAndSort \/ ExecutePass \/ EndFrame \/ Destroy

FrameSpec == FrameInit /\ [][FrameNext]_frameVars

-----------------------------------------------------------------------------
(* l1-render-core invariants 1 to 3.  A pass reads a resource of the graph *)
(* after its producer has written it, and no external resource that is     *)
(* destroyed, unless that was retained while EndFrame was about to destroy *)
(* it.                                                                     *)
ReadsAreReady == misread \subseteq revived

(* resources.go:9-15.  What somebody holds is counted and not destroyed;   *)
(* the same exception.                                                     *)
HeldAlive ==
    \A r \in Resource \ revived : held[r] > 0 => refs[r] >= held[r] /\ r \notin destroyed \cup dead

FrameSound == ReadsAreReady /\ HeldAlive

(* graph.go:67 ("alive for the pass duration").  Between frames the count  *)
(* is what the users hold, so that what they let go is destroyed.          *)
PinsEnd == at = "idle" => \A r \in Resource : refs[r] = held[r]

(* graph.go:15-19.  Build reports an external resource that was released   *)
(* before the graph runs.                                                  *)
ReleasedReported ==
    at = "pin" => \A j \in Index : \A r \in passes[j].in \ Produced : held[r] > 0 \/ refs[r] = 0
=============================================================================
