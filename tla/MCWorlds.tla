------------------------------ MODULE MCWorlds ------------------------------
(***************************************************************************)
(* TLC instance of what copies, restores or dates the contents of a world: *)
(* prediction with rollback, change ticks and the queries that read them,  *)
(* scenes, the entities of a hot reload.  A behaviour moves one of them    *)
(* and leaves the others as they began: every behaviour of each is         *)
(* checked, and no product.                                                *)
(*                                                                         *)
(* The ring of snapshots is shorter than the history, as in the code (16   *)
(* to 64).  One query looks for changes of a column and excludes the       *)
(* sparse type, one looks for added sparse components too.  A scene of two *)
(* entities refers to itself in every way.  Three slots go through up to    *)
(* two reloads.                                                            *)
(***************************************************************************)
EXTENDS Rollback, ChangeDetection, Scenes, EntityRestore, TLC

CONSTANTS col, set, e1, e2

MCQuery == {
    [required |-> {col}, excluded |-> {set}, added |-> {}, changed |-> {col}],
    [required |-> {col, set}, excluded |-> {}, added |-> {set}, changed |-> {col}] }

MCSymmetry == Permutations({e1, e2})

WorldsInit == RollbackInit /\ ChangeInit /\ SceneInit /\ RestoreInit

(* Where a choice is made at the start, one choice is enough to be idle.   *)
RollbackIdle == RollbackInit /\ \A t \in 1 .. LastTick : truth[t] = 0
QueryIdle == ChangeInit /\ cache.query.added = {}

WorldsNext ==
    \/ QueryIdle /\ SceneInit /\ RestoreInit /\ RollbackNext /\ UNCHANGED <<changeVars, sceneVars, vars>>
    \/ RollbackIdle /\ SceneInit /\ RestoreInit /\ ChangeNext /\ UNCHANGED <<rollbackVars, sceneVars, vars>>
    \/ RollbackIdle /\ QueryIdle /\ RestoreInit /\ SceneNext /\ UNCHANGED <<rollbackVars, changeVars, vars>>
    \/ RollbackIdle /\ QueryIdle /\ SceneInit /\ RestoreNext /\ UNCHANGED <<rollbackVars, changeVars, sceneVars>>

WorldsSpec == WorldsInit /\ [][WorldsNext]_<<rollbackVars, changeVars, sceneVars, vars>>
=============================================================================
