---------------------------- MODULE MCNetworking ----------------------------
(***************************************************************************)
(* TLC instance of the client-server stack: the handshake and the table of *)
(* connections, and the reliable channel of an accepted connection.  A     *)
(* behaviour moves one of them and leaves the other as it began: every     *)
(* behaviour of each is checked, and no product.                           *)
(* The duplicate filter is two frames wide under a window of three; the    *)
(* server has one place for two clients, one of which speaks an older      *)
(* protocol.                                                               *)
(***************************************************************************)
EXTENDS ReliableChannel, Handshake

CONSTANTS p1, old

NetworkingInit == Init /\ HandshakeInit

ChannelIdle == Init /\ mode = "ordered"

NetworkingNext ==
    \/ HandshakeInit /\ Next /\ UNCHANGED handshakeVars
    \/ ChannelIdle /\ HandshakeNext /\ UNCHANGED vars

NetworkingSpec == NetworkingInit /\ [][NetworkingNext]_<<vars, handshakeVars>>
=============================================================================
