---------------------------- MODULE MCMembership ----------------------------
(* Membership on a small instance.                                         *)
EXTENDS Membership, TLC

Symmetry == Permutations(Threads) \cup Permutations(Requests) \cup Permutations(Keys)
=============================================================================
