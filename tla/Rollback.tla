------------------------------ MODULE Rollback ------------------------------
(***************************************************************************)
(* Client prediction: internal/net/predict over the rollback coordinator   *)
(* and the snapshot ring of internal/net.  The simulation is deterministic *)
(* (deterministic.go:60).  The value of a predicted entity after a tick is *)
(* the last few inputs, so that runs which differed can agree again.  The  *)
(* world is the sequence of rows the entity occupies: Restore spawns into  *)
(* whatever world it is given, and every row is simulated and captured.    *)
(* Checksums do not collide.                                               *)
(***************************************************************************)
EXTENDS Naturals, Sequences, SequencesExt

CONSTANTS
    Inputs,           \* what a remote player can do; 0 is what is predicted
    Memory,           \* how many ticks an input shows in the state
    SnapshotRing,     \* capacity of SnapshotManager (16)
    HistoryCapacity,  \* capacity of PredictionHistory (64)
    LastTick,         \* bound: ticks simulated
    MaxRollbacks      \* bound: rollbacks

ASSUME RollbackAssumption ==
    /\ 0 \in Inputs /\ Inputs \subseteq Nat
    /\ {Memory, SnapshotRing, HistoryCapacity} \subseteq Nat \ {0}
    /\ {LastTick, MaxRollbacks} \subseteq Nat

VARIABLES
    current,     \* RollbackCoordinator.current
    rows,        \* the rows of the predicted entity
    snaps,       \* SnapshotManager.ring: [tick, rows]
    predictions, \* PredictionHistory.ring: [tick, sum]
    state,       \* ServerState: [tick, sum], tick 0 when it is not valid
    inputs,      \* the remote player's recorded inputs, 0 where none is
    truth,       \* the remote player's inputs, as the server simulates them
    rollbacks,   \* history: rollbacks so far
    confirmed,   \* history: the last tick whose prediction the server confirmed
    undone       \* history: a reconciliation went back to a confirmed tick

rollbackVars == <<current, rows, snaps, predictions, state, inputs, truth, rollbacks, confirmed, undone>>

NoState == [tick |-> 0, sum |-> <<>>]

RollbackInit ==
    /\ current = 0 /\ rows = << [i \in 1 .. Memory |-> 0] >>
    /\ snaps = <<>> /\ predictions = <<>>
    /\ state = NoState
    /\ inputs = [t \in 1 .. LastTick |-> 0]
    /\ truth \in [1 .. LastTick -> Inputs]
    /\ rollbacks = 0 /\ confirmed = 0 /\ undone = FALSE

-----------------------------------------------------------------------------
(* Both rings drop their oldest entry when they are full. *)
Stored(ring, cap, entry) == Append(IF Len(ring) >= cap THEN Tail(ring) ELSE ring, entry)

Has(ring, t) == \E i \in 1 .. Len(ring) : ring[i].tick = t

(* Get finds the oldest entry of a tick. *)
Get(ring, t) == ring[SelectInSeq(ring, LAMBDA x : x.tick = t)]

Shown(values) == SubSeq(values, Len(values) + 1 - Memory, Len(values))

RunTick(world, ins, t) == [i \in 1 .. Len(world) |-> Shown(Append(world[i], ins[t]))]

TakeSnapshot(ring, world, t) == Stored(ring, SnapshotRing, [tick |-> t, rows |-> world])

RecordTick(ring, t, sum) ==
    IF Has(ring, t)
    THEN [ring EXCEPT ![SelectInSeq(ring, LAMBDA x : x.tick = t)].sum = sum]
    ELSE Stored(ring, HistoryCapacity, [tick |-> t, sum |-> sum])

(* Mutant: what is confirmed stays in the history. *)
DiscardThroughKept(ring, t) == ring

DiscardBefore(ring, t) ==
    LET kept[i \in 0 .. Len(ring)] ==
            IF i = 0 THEN <<>> ELSE IF ring[i].tick >= t THEN Append(kept[i - 1], ring[i]) ELSE kept[i - 1]
    IN  kept[Len(ring)]

DiscardThrough(ring, t) == DiscardBefore(ring, t + 1)

(* RestoreSnapshot into the live world, then the ticks up to the last one. *)
Resimulated(from, to, ins) ==
    FoldLeft(LAMBDA acc, t : LET world == RunTick(acc.rows, ins, t)
                             IN [rows |-> world, snaps |-> TakeSnapshot(acc.snaps, world, t)],
             [rows |-> rows \o Get(snaps, from).rows, snaps |-> snaps],
             [i \in 1 .. to - from |-> from + i])

(* The history of the ticks that were run again. *)
Rerecorded(from, to, resimulated) ==
    LET recorded[i \in 0 .. to - from] ==
            IF i = 0 THEN predictions
            ELSE IF Has(resimulated, from + i)
                 THEN RecordTick(recorded[i - 1], from + i, Get(resimulated, from + i).rows)
                 ELSE recorded[i - 1]
    IN  recorded[to - from]

-----------------------------------------------------------------------------
(* PredictionSystem. *)
Predict ==
    /\ current < LastTick
    /\ LET world == RunTick(rows, inputs, current + 1) IN
       /\ rows' = world
       /\ snaps' = TakeSnapshot(snaps, world, current + 1)
       /\ predictions' = RecordTick(predictions, current + 1, Get(snaps', current + 1).rows)
    /\ current' = current + 1
    /\ UNCHANGED <<state, inputs, truth, rollbacks, confirmed, undone>>

(* The game or replication fills ServerState, whatever the order in which  *)
(* the server's updates arrive; an unread one is replaced.                 *)
ServerUpdate(t) ==
    /\ state' = [tick |-> t, sum |-> << Shown([i \in 1 .. Memory |-> 0] \o SubSeq(truth, 1, t)) >>]
    /\ UNCHANGED <<current, rows, snaps, predictions, inputs, truth, rollbacks, confirmed, undone>>

(* ReconciliationSystem. *)
Reconcile ==
    /\ state.tick # 0
    /\ state' = NoState
    /\ UNCHANGED <<current, inputs, truth>>
    /\ \/ /\ ~Has(predictions, state.tick)
          /\ predictions' = DiscardBefore(predictions, state.tick)
          /\ UNCHANGED <<rows, snaps, rollbacks, confirmed, undone>>
       \/ /\ Has(predictions, state.tick) /\ Get(predictions, state.tick).sum = state.sum
          /\ predictions' = DiscardThrough(predictions, state.tick)
          /\ confirmed' = state.tick
          /\ UNCHANGED <<rows, snaps, rollbacks, undone>>
       \/ /\ Has(predictions, state.tick) /\ Get(predictions, state.tick).sum # state.sum
          /\ IF Has(snaps, state.tick)
             THEN LET result == Resimulated(state.tick, current, inputs) IN
                  /\ rollbacks < MaxRollbacks
                  /\ rollbacks' = rollbacks + 1
                  /\ rows' = result.rows /\ snaps' = result.snaps
                  /\ predictions' = DiscardThrough(Rerecorded(state.tick, current, snaps'), state.tick)
             ELSE UNCHANGED <<rows, snaps, predictions, rollbacks>>
          /\ undone' = (undone \/ state.tick <= confirmed)
          /\ UNCHANGED confirmed

(* ReceiveRemoteInput. *)
RemoteInput(t) ==
    /\ inputs[t] # truth[t]
    /\ inputs' = [inputs EXCEPT ![t] = truth[t]]
    /\ IF t >= current \/ ~Has(snaps, t)
       THEN UNCHANGED <<rows, snaps, rollbacks>>
       ELSE LET result == Resimulated(t, current, inputs') IN
            /\ rollbacks < MaxRollbacks
            /\ rollbacks' = rollbacks + 1
            /\ rows' = result.rows /\ snaps' = result.snaps
    /\ UNCHANGED <<current, predictions, state, truth, confirmed, undone>>

RollbackNext ==
    \/ Predict \/ Reconcile
    \/ \E t \in 1 .. LastTick : ServerUpdate(t) \/ RemoteInput(t)

RollbackSpec == RollbackInit /\ [][RollbackNext]_rollbackVars

-----------------------------------------------------------------------------
(* reconcile.go:59-63.  Server updates arrive in any order; one for a tick *)
(* up to a confirmed one never leads to a rollback.                        *)
ConfirmedTicksStand == ~undone

(* rollback.go:41-42, l1-client-prediction INV-4.  A rollback restores the *)
(* world of the snapshot: the entity still occupies one row.               *)
EntitiesOnce == Len(rows) = 1

(* l1-client-prediction INV-1 and 4.3 ("Restore predicted entities to       *)
(* server state at tick T").  After a reconciliation of the current tick   *)
(* the entity has the server's value.                                      *)
MispredictionCorrected ==
    [][state.tick = current /\ rollbacks' > rollbacks /\ state' = NoState
           => rows'[Len(rows')] = state.sum[1]]_rollbackVars

(* rollback.go:11-14.  The corrected input is applied and the ticks run    *)
(* again: the state shows the input that is recorded.                      *)
LateInputsApplied ==
    \A back \in 0 .. Memory - 1 :
        LET t == current - back IN
        t > 0 /\ inputs[t] # 0 => rows[Len(rows)][Memory - back] = inputs[t]

(* reconcile.go:81-82.  The history holds the checksums of the ticks as    *)
(* they were simulated last.                                               *)
HistoryRefreshed == \A i \in 1 .. Len(predictions) : predictions[i].tick = current => predictions[i].sum = rows
=============================================================================
