----------------------------- MODULE MCDispatch -----------------------------
(* Dispatch on a small instance.                                           *)
EXTENDS Dispatch, TLC

Symmetry == Permutations(Calls)
=============================================================================
