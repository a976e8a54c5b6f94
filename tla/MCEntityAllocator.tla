------------------------- MODULE MCEntityAllocator -------------------------
(* TLC instance of EntityAllocator: three slots, generations up to three,  *)
(* batches of up to three entities.                                        *)
EXTENDS EntityAllocator
=============================================================================
