----------------------------- MODULE MCPublish ------------------------------
(* Publish on a small instance.                                            *)
EXTENDS Publish, TLC

Symmetry == Permutations(Posts \ Beats) \cup Permutations(Beats)
=============================================================================
