----------------------------- MODULE WorkDeque -----------------------------
(***************************************************************************)
(* The Chase-Lev work-stealing deque of pkg/task/deque.go.  One owner      *)
(* pushes and pops at the bottom, thieves steal at the top.  sync/atomic   *)
(* is sequentially consistent, so one action is one atomic access plus the *)
(* purely local computation around it.  Cells are recycled through         *)
(* cellPool: a cell seen by a slow thief may meanwhile carry another task. *)
(***************************************************************************)
EXTENDS Integers, Sequences, FiniteSets

CONSTANTS
    Thief,      \* the goroutines that steal
    Cell,       \* the cells cellPool hands out
    MaxPush,    \* bound: tasks pushed in a run; task k is the k-th pushed
    InitSize    \* ring slots before the first grow (256 in the code)

NoTask == 0
Task == 1 .. MaxPush
NoCell == "nocell"

ASSUME DequeAssumption ==
    MaxPush \in Nat /\ InitSize \in Nat \ {0} /\ NoCell \notin Cell

VARIABLES
    top, bottom,   \* the two atomic cursors
    arrays,        \* every ring ever published; thieves may hold an old one
    fn,            \* the task each cell carries
    free,          \* cells sitting in cellPool
    owner,         \* the owner's program counter and locals
    thief,         \* each thief's program counter and locals
    pushed,        \* number of tasks published by pushBottom
    got            \* how many times each task was returned to a caller

dequeVars == <<top, bottom, arrays, fn, free, owner, thief, pushed, got>>

Ring(n) == [size |-> n, slot |-> [i \in 0 .. n - 1 |-> NoCell]]
Get(a, i) == a.slot[i % a.size]
Put(a, i, c) == [a EXCEPT !.slot[i % a.size] = c]
Current == arrays[Len(arrays)]

(* Mutant: the oldest live slot is not copied. *)
GrowShort(a, tp, b) ==
    [size |-> 2 * a.size,
     slot |-> [j \in 0 .. 2 * a.size - 1 |->
         IF \E i \in tp + 1 .. b - 1 : i % (2 * a.size) = j
         THEN Get(a, CHOOSE i \in tp + 1 .. b - 1 : i % (2 * a.size) = j)
         ELSE NoCell]]

(* grow: a doubled copy holding the live range. *)
Grow(a, tp, b) ==
    [size |-> 2 * a.size,
     slot |-> [j \in 0 .. 2 * a.size - 1 |->
         IF \E i \in tp .. b - 1 : i % (2 * a.size) = j
         THEN Get(a, CHOOSE i \in tp .. b - 1 : i % (2 * a.size) = j)
         ELSE NoCell]]

Resting == [pc |-> "idle", b |-> 0, tp |-> 0, a |-> 1, c |-> NoCell]

DequeInit ==
    /\ top = 0 /\ bottom = 0
    /\ arrays = <<Ring(InitSize)>>
    /\ fn = [c \in Cell |-> NoTask]
    /\ free = Cell
    /\ owner = Resting
    /\ thief = [t \in Thief |-> Resting]
    /\ pushed = 0
    /\ got = [t \in Task \cup {NoTask} |-> 0]

(* consume: hand out the cell's task and recycle the cell. *)
Consume(c) ==
    /\ got' = [got EXCEPT ![fn[c]] = @ + 1]
    /\ fn' = [fn EXCEPT ![c] = NoTask]
    /\ free' = free \cup {c}

-----------------------------------------------------------------------------
(* pushBottom: take a cell and load top ... *)
PushLoad ==
    /\ owner.pc = "idle"
    /\ pushed < MaxPush
    /\ \E c \in free :
        /\ free' = free \ {c}
        /\ fn' = [fn EXCEPT ![c] = pushed + 1]
        /\ owner' = [owner EXCEPT !.pc = "put", !.b = bottom, !.tp = top, !.c = c]
    /\ UNCHANGED <<top, bottom, arrays, thief, pushed, got>>

(* ... grow the ring when it looks full, write the slot ... *)
PushPut ==
    /\ owner.pc = "put"
    /\ arrays' = IF owner.b - owner.tp > Current.size - 1
                 THEN Append(arrays, Put(Grow(Current, owner.tp, owner.b), owner.b, owner.c))
                 ELSE [arrays EXCEPT ![Len(arrays)] = Put(@, owner.b, owner.c)]
    /\ owner' = [owner EXCEPT !.pc = "publish"]
    /\ UNCHANGED <<top, bottom, fn, free, thief, pushed, got>>

(* ... and publish it. *)
PushPublish ==
    /\ owner.pc = "publish"
    /\ bottom' = owner.b + 1
    /\ pushed' = pushed + 1
    /\ owner' = Resting
    /\ UNCHANGED <<top, arrays, fn, free, thief, got>>

(* popBottom: claim the last slot ... *)
PopClaim ==
    /\ owner.pc = "idle"
    /\ owner' = [owner EXCEPT !.pc = "look", !.b = bottom - 1]
    /\ bottom' = bottom - 1
    /\ UNCHANGED <<top, arrays, fn, free, thief, pushed, got>>

(* ... then load top: nothing left, ... *)
PopEmpty ==
    /\ owner.pc = "look"
    /\ top > owner.b
    /\ owner' = [owner EXCEPT !.pc = "restore"]
    /\ UNCHANGED <<top, bottom, arrays, fn, free, thief, pushed, got>>

(* ... several left, so the slot is the owner's, ... *)
PopMany ==
    /\ owner.pc = "look"
    /\ top < owner.b
    /\ Consume(Get(Current, owner.b))
    /\ owner' = Resting
    /\ UNCHANGED <<top, bottom, arrays, thief, pushed>>

(* ... or exactly one, which a thief may be taking. *)
PopLast ==
    /\ owner.pc = "look"
    /\ top = owner.b
    /\ owner' = [owner EXCEPT !.pc = "cas", !.tp = top, !.c = Get(Current, owner.b)]
    /\ UNCHANGED <<top, bottom, arrays, fn, free, thief, pushed, got>>

PopCAS ==
    /\ owner.pc = "cas"
    /\ IF top = owner.tp
       THEN top' = top + 1 /\ owner' = [owner EXCEPT !.pc = "restore"]
       ELSE UNCHANGED top /\ owner' = [owner EXCEPT !.pc = "restore", !.c = NoCell]
    /\ UNCHANGED <<bottom, arrays, fn, free, thief, pushed, got>>

(* bottom goes back to its canonical value; a won last cell is consumed.   *)
PopRestore ==
    /\ owner.pc = "restore"
    /\ bottom' = owner.b + 1
    /\ IF owner.c = NoCell THEN UNCHANGED <<got, fn, free>> ELSE Consume(owner.c)
    /\ owner' = Resting
    /\ UNCHANGED <<top, arrays, thief, pushed>>

-----------------------------------------------------------------------------
(* steal: load top, ... *)
StealTop(t) ==
    /\ thief[t].pc = "idle"
    /\ thief' = [thief EXCEPT ![t].pc = "bottom", ![t].tp = top]
    /\ UNCHANGED <<top, bottom, arrays, fn, free, owner, pushed, got>>

(* ... then bottom: give up when there is nothing between them, ... *)
StealBottom(t) ==
    /\ thief[t].pc = "bottom"
    /\ thief' = IF thief[t].tp >= bottom
                THEN [thief EXCEPT ![t] = Resting]
                ELSE [thief EXCEPT ![t].pc = "array"]
    /\ UNCHANGED <<top, bottom, arrays, fn, free, owner, pushed, got>>

(* ... load the ring pointer, ... *)
StealArray(t) ==
    /\ thief[t].pc = "array"
    /\ thief' = [thief EXCEPT ![t].pc = "slot", ![t].a = Len(arrays)]
    /\ UNCHANGED <<top, bottom, arrays, fn, free, owner, pushed, got>>

(* ... the slot of that ring, ... *)
StealSlot(t) ==
    /\ thief[t].pc = "slot"
    /\ thief' = [thief EXCEPT ![t].pc = "cas",
                              ![t].c = Get(arrays[thief[t].a], thief[t].tp)]
    /\ UNCHANGED <<top, bottom, arrays, fn, free, owner, pushed, got>>

(* ... and claim it by moving top; a lost race returns empty-handed. *)
StealCAS(t) ==
    /\ thief[t].pc = "cas"
    /\ IF top = thief[t].tp
       THEN top' = top + 1 /\ thief' = [thief EXCEPT ![t].pc = "consume"]
       ELSE UNCHANGED top /\ thief' = [thief EXCEPT ![t] = Resting]
    /\ UNCHANGED <<bottom, arrays, fn, free, owner, pushed, got>>

StealConsume(t) ==
    /\ thief[t].pc = "consume"
    /\ Consume(thief[t].c)
    /\ thief' = [thief EXCEPT ![t] = Resting]
    /\ UNCHANGED <<top, bottom, arrays, owner, pushed>>

Steal(t) ==
    StealTop(t) \/ StealBottom(t) \/ StealArray(t) \/ StealSlot(t) \/ StealCAS(t) \/ StealConsume(t)

DequeNext ==
    \/ PushLoad \/ PushPut \/ PushPublish
    \/ PopClaim \/ PopEmpty \/ PopMany \/ PopLast \/ PopCAS \/ PopRestore
    \/ \E t \in Thief : Steal(t)

DequeSpec == DequeInit /\ [][DequeNext]_dequeVars

-----------------------------------------------------------------------------
(* The cursors, rings and locals have their declared shape. *)
DequeTypeOK ==
    /\ top \in Nat /\ bottom \in Int /\ pushed \in 0 .. MaxPush
    /\ \A k \in 1 .. Len(arrays) : arrays[k].slot \in [0 .. arrays[k].size - 1 -> Cell \cup {NoCell}]
    /\ fn \in [Cell -> Task \cup {NoTask}] /\ free \in SUBSET Cell
    /\ owner.pc \in {"idle", "put", "publish", "look", "cas", "restore"}
    /\ \A t \in Thief : thief[t].pc \in {"idle", "bottom", "array", "slot", "cas", "consume"}

(* deque.go:31-33.  A cell has one winner: no task is returned twice, and  *)
(* nobody ever consumes a cell somebody else already recycled.             *)
TakenOnce == got[NoTask] = 0 /\ \A k \in Task : got[k] <= 1

InHand(k) == \E t \in Thief : thief[t].pc = "consume" /\ fn[thief[t].c] = k
InDeque(k) == \E i \in top .. bottom - 1 :
                  Get(Current, i) # NoCell /\ fn[Get(Current, i)] = k

(* pool.go:13, "Work is never silently dropped": when the owner is between *)
(* two calls, every published task was returned, is in the hands of a      *)
(* winning thief, or can still be found in the ring, even across a grow.   *)
NothingLost ==
    owner.pc = "idle" =>
        \A k \in 1 .. pushed : got[k] = 1 \/ InHand(k) \/ InDeque(k)

(* deque.go:31-33 and pool.go:13.  Both: every task is returned exactly    *)
(* once, or can still be found.                                            *)
TasksConserved == TakenOnce /\ NothingLost

=============================================================================
