----------------------------- MODULE MCRefCount -----------------------------
(* RefCount for TLC: two threads, enough Refs for a copy beside the content  *)
(* of the AtomicRef, and two WeakRefs.  No symmetry: the refinement is of    *)
(* liveness too.                                                             *)
EXTENDS RefCount
=============================================================================
