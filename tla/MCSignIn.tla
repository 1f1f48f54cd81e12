------------------------------ MODULE MCSignIn ------------------------------
(* An instance of SignIn for TLC.                                           *)
EXTENDS SignIn, TLC

Symmetry == Permutations(Logins) \cup Permutations(Attempts) \cup Permutations(Enrolls)
            \cup Permutations(Scripts)

crowd(l, a, e, s) == [logins |-> l, attempts |-> a, enrolls |-> e, scripts |-> s]

(* The cap alone; the lock; the links; a sign-in across a reset.            *)
MCCrowds == {crowd(3, 0, 0, 0), crowd(1, 3, 0, 0), crowd(0, 0, 2, 2), crowd(1, 1, 1, 1)}
=============================================================================
