----------------------------- MODULE MCIdentity -----------------------------
(***************************************************************************)
(* MobileIdentity for TLC, with a three-digit MNC: the MSIN of a 15-digit  *)
(* IMSI then has nine digits.                                              *)
(***************************************************************************)
EXTENDS MobileIdentity

MCCountryCodes == {<<1, 2, 3>>}
MCNetworkCodes == {<<4, 5, 0>>}
MCPlmnOctets == {}
MCMsins == {<<1, 2, 3, 4, 5, 6, 7, 8>>, <<1, 2, 3, 4, 5, 6, 7, 8, 9>>}
=============================================================================
