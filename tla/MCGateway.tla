------------------------------ MODULE MCGateway ------------------------------
(* Two peers of any kind, two event loops of the UDP server. *)
EXTENDS MFGateway
=============================================================================
