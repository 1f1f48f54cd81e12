------------------------------- MODULE MCEncode -------------------------------
(* The instance of Encode that TLC checks. *)
EXTENDS Encode, TLC

Symmetry == Permutations(Chips) \cup Permutations(Rounds)
=============================================================================
