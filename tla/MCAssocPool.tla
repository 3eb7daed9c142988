---------------------------- MODULE MCAssocPool ----------------------------
(* AssocPool for TLC. *)
EXTENDS AssocPool
=============================================================================
