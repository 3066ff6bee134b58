------------------------------- MODULE RWLock -------------------------------
(***************************************************************************)
(* What a read-write lock promises: readers share it, a writer has it      *)
(* alone.                                                                  *)
(***************************************************************************)
CONSTANTS Threads, Nobody

VARIABLES readers, writer

vars == <<readers, writer>>

Init == readers = {} /\ writer = Nobody

AcquireRead(t) == writer = Nobody /\ readers' = readers \cup {t} /\ UNCHANGED writer

ReleaseRead(t) == t \in readers /\ readers' = readers \ {t} /\ UNCHANGED writer

AcquireWrite(t) == writer = Nobody /\ readers = {} /\ writer' = t /\ UNCHANGED readers

ReleaseWrite(t) == writer = t /\ writer' = Nobody /\ UNCHANGED readers

Next == \E t \in Threads : \/ AcquireRead(t) \/ ReleaseRead(t)
                           \/ AcquireWrite(t) \/ ReleaseWrite(t)

Spec == Init /\ [][Next]_vars
=============================================================================
