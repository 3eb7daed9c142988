------------------------- MODULE MCPacketProcessor -------------------------
(* Instances of PacketProcessor for TLC.                                   *)
EXTENDS ForwardingRefinement
=============================================================================
