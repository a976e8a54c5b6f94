----------------------------- MODULE MCLockstep -----------------------------
(* TLC instance of Lockstep: two peers and a ring that wraps. *)
EXTENDS Lockstep
=============================================================================
