---------------------------- MODULE MCScheduler ----------------------------
(* Scheduler for TLC. *)
EXTENDS Scheduler, TLC

Symmetry == Permutations(Run) \cup Permutations(Workspace)
=============================================================================
