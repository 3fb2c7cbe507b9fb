---------------------------- MODULE MCAllocator ----------------------------
(* Allocator for TLC. *)
EXTENDS Allocator, TLC

Symmetry == Permutations(Job) \cup Permutations(Runner)
=============================================================================
