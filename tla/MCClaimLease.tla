---------------------------- MODULE MCClaimLease ----------------------------
(* The instances of ClaimLease that TLC checks.                            *)
EXTENDS ClaimLease, TLC

Symmetry == Permutations(Actors) \cup Permutations(Threads) \cup Permutations(Tokens)
                \cup Permutations(Messages)
=============================================================================
