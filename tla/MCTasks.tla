------------------------------ MODULE MCTasks -------------------------------
(* Tasks on a small instance.                                              *)
EXTENDS Tasks
=============================================================================
