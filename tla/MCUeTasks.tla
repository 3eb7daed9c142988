----------------------------- MODULE MCUeTasks -----------------------------
(* Instances of UeTasks for TLC.                                           *)
EXTENDS UeTasks
=============================================================================
