------------------------------ MODULE MCClaims ------------------------------
(***************************************************************************)
(* Instances of Claims for TLC: the values are all in the configuration.   *)
(***************************************************************************)
EXTENDS Claims
=============================================================================
