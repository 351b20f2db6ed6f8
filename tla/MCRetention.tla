---------------------------- MODULE MCRetention -----------------------------
(* Retention on a small instance.                                          *)
EXTENDS Retention
=============================================================================
