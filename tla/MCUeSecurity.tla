---------------------------- MODULE MCUeSecurity ----------------------------
(* Instances of UeSecurity for TLC.                                        *)
EXTENDS UeSecurity
=============================================================================
