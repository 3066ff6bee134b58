-------------------------- MODULE SharedOwnership --------------------------
(***************************************************************************)
(* What core/ref.h promises of Ref<T> and WeakRef<T>: an object is born    *)
(* with one reference; while it has one, more can be made from it, by a    *)
(* copy or through a weak reference; once the last is dropped no reference *)
(* is made again and the object is reclaimed, once.                        *)
(***************************************************************************)
CONSTANT Refs

VARIABLES owned, phase

vars == <<owned, phase>>

Init == owned = {} /\ phase = "unborn"

Birth(r) == phase = "unborn" /\ phase' = "owned" /\ owned' = {r}

Share(r) == owned # {} /\ r \notin owned /\ owned' = owned \cup {r} /\ UNCHANGED phase

DropOne(r) == r \in owned /\ owned' = owned \ {r} /\ UNCHANGED phase

Reclaim == phase = "owned" /\ owned = {} /\ phase' = "reclaimed" /\ UNCHANGED owned

Next == Reclaim \/ \E r \in Refs : Birth(r) \/ Share(r) \/ DropOne(r)

Spec == Init /\ [][Next]_vars /\ WF_vars(Reclaim)

\* The safety half, which the proof is about.
SafeSpec == Init /\ [][Next]_vars
=============================================================================
