-------------------------- MODULE MCDispatchLoop --------------------------
(* Model values and symmetry for the runs of DispatchLoop. *)
EXTENDS DispatchLoop, TLC
CONSTANTS c1, c2, l1, l2, t1, t2

Symmetry == Permutations(Callers) \cup Permutations(Loops) \cup Permutations(Tasks)
=============================================================================
