--------------------------- MODULE MCThreadPool ---------------------------
(* Model values and symmetry for the runs of ThreadPool. *)
EXTENDS ThreadPool, TLC
CONSTANTS c1, c2, w1, w2, w3, t1, t2, t3

Symmetry == Permutations(Callers) \cup Permutations(Workers) \cup Permutations(Tasks)
=============================================================================
