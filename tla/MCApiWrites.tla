----------------------------- MODULE MCApiWrites -----------------------------
(* Values for ApiWrites' constants: one key used for two different requests,*)
(* another for a third, and a request without a key.                        *)
EXTENDS ApiWrites, TLC

CONSTANTS k1, k2, e1, e2

Symmetry == Permutations(Requests)

MCInputs ==
  {[key |-> k1, op |-> "delete", ref |-> e1], [key |-> k1, op |-> "put", ref |-> e2],
   [key |-> k2, op |-> "delete", ref |-> e2], [key |-> NoKey, op |-> "put", ref |-> e1]}

MCOldKeys == {{}, {k1, k2}}
=============================================================================
