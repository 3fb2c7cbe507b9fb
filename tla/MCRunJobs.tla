----------------------------- MODULE MCRunJobs -----------------------------
(* RunJobs for TLC: interchangeable runs and runners. *)
EXTENDS RunJobs, TLC

Symmetry == Permutations(Run) \cup Permutations(Runner)
=============================================================================
