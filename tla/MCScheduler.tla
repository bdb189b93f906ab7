---------------------------- MODULE MCScheduler ----------------------------
(* Scheduler on a small instance. *)
EXTENDS Scheduler, TLC

TaskSymmetry == Permutations(Tasks)
=============================================================================
