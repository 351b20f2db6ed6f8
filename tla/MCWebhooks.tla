----------------------------- MODULE MCWebhooks -----------------------------
(* The instances of Webhooks that TLC checks.                              *)
EXTENDS Webhooks, TLC

Symmetry == Permutations(Hooks \ Malformed)
=============================================================================
