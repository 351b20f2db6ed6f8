----------------------------- MODULE MCLongPoll -----------------------------
(* The instances of LongPoll that TLC checks.  p1 and p2 are posted through *)
(* the server, q by the worker process.                                    *)
EXTENDS LongPoll, TLC

Symmetry == Permutations(Clients) \cup Permutations(Local)
=============================================================================
