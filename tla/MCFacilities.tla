---------------------------- MODULE MCFacilities ----------------------------
(***************************************************************************)
(* TLC instance of what systems build on the World: the frame loop with    *)
(* its double-buffered buses (AppFrame), the message rings                 *)
(* (MessageChannel) and the hierarchy commands (Hierarchy).  They share no *)
(* state, so a behaviour moves one of them and leaves the others as they   *)
(* began: every behaviour of each is checked, and no product.              *)
(* The frames have a steady reader on each side of the swap and one with a *)
(* run condition; the ring has two messages and is lapped; one of the four *)
(* entities has no Transform.                                              *)
(***************************************************************************)
EXTENDS AppFrame, MessageChannel, Hierarchy, TLC

CONSTANTS early, late, some, menu, play, a, b, c, d

MCPosition == (early :> "Early") @@ (late :> "Update") @@ (some :> "Update")

EntitySymmetry == Permutations({a, b, c})

FacilitiesInit == Init /\ ChannelInit /\ HierarchyInit

FrameIdle == ~runOnce /\ Init

FacilitiesNext ==
    \/ ChannelInit /\ HierarchyInit /\ Next /\ UNCHANGED <<channelVars, hierarchyVars>>
    \/ FrameIdle /\ HierarchyInit /\ ChannelNext /\ UNCHANGED <<vars, hierarchyVars>>
    \/ FrameIdle /\ ChannelInit /\ HierarchyNext /\ UNCHANGED <<vars, channelVars>>

FacilitiesSpec == FacilitiesInit /\ [][FacilitiesNext]_<<vars, channelVars, hierarchyVars>>
=============================================================================
