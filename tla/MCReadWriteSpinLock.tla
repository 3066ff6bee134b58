------------------------ MODULE MCReadWriteSpinLock ------------------------
(***************************************************************************)
(* ReadWriteSpinLock for TLC and for the proofs, beside RefCount and over  *)
(* its threads; what RefCount describes keeps its initial state.  The cfg  *)
(* gives it three threads, so that two readers can overlap with a writer   *)
(* that waits; no symmetry, because the run checks liveness.               *)
(***************************************************************************)
EXTENDS RefCount

VARIABLES lockReading, lockWriting, nReading, rwPc

RW == INSTANCE ReadWriteSpinLock WITH Nobody <- Null, pc <- rwPc

ASSUME LockAssumption == RW!ThreadsAssumption

RWSpec ==
    /\ Init /\ RW!Init
    /\ [][RW!Next /\ UNCHANGED vars]_<<vars, lockReading, lockWriting, nReading, rwPc>>
    /\ RW!Fairness

-----------------------------------------------------------------------------
\* A writer is alone: no second writer and no reader.
WriterAlone == RW!WriterAlone

\* The two spin locks and the counter implement a read-write lock.
ImplementsRWLock == RW!ImplementsRWLock

\* Every reader that waits is served, and tryLockRead never waits.
ReadersServed == RW!ReadersServed
=============================================================================
