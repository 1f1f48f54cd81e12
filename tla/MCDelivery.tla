----------------------------- MODULE MCDelivery -----------------------------
(***************************************************************************)
(* Instances of Delivery for TLC.                                          *)
(***************************************************************************)
EXTENDS Delivery, TLC

\* A schedule of two tries, the second a tick after the first.
Twice == <<1>>

Symmetry == Permutations(Workers)
=============================================================================
