----------------------------- MODULE MCRegistry -----------------------------
(* Registry on a small instance: keys of one owner and a key of another,  *)
(* one name.                                                               *)
EXTENDS Registry, TLC

CONSTANTS k1, k2, k3, alice, bob

MCOwner == k1 :> alice @@ k2 :> alice @@ k3 :> bob

Symmetry == Permutations(Ops)
=============================================================================
