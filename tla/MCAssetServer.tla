---------------------------- MODULE MCAssetServer ----------------------------
(***************************************************************************)
(* TLC instance of AssetServer: one permit, two files, two loads.  A       *)
(* behaviour has one of two loads.  Either both files are loaded and never *)
(* change, or one is loaded, watched and edited, and no handle is misused. *)
(***************************************************************************)
EXTENDS AssetServer

CONSTANTS p, q

VARIABLE watching

WithinLoad ==
    IF watching THEN loaded'[q] = 0 /\ unloaded' = {} /\ revived' = {}
    ELSE UNCHANGED files

MCInit == Init /\ watching \in BOOLEAN

MCNext == Next /\ WithinLoad /\ UNCHANGED watching

MCSpec ==
    /\ MCInit /\ [][MCNext]_<<vars, watching>>
    /\ WF_vars(\E k \in Made : Job(k))
=============================================================================
