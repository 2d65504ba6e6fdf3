---------------------------- MODULE MCStackCache ----------------------------
(* StackCache for a few tasks, stacks and CPUs. *)
EXTENDS StackCache, TLC

(* Tasks, stacks and CPUs are alike. *)
Symmetry == Permutations(Tasks) \cup Permutations(Stacks) \cup Permutations(Cpus)
=============================================================================
