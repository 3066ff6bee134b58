------------------------- MODULE ReadWriteSpinLock -------------------------
(***************************************************************************)
(* ReadWriteSpinLock of core/rw_lock.cpp over the SpinLock of              *)
(* core/spin_lock.cpp: m_lockReading guards the number of readers, and the *)
(* first reader takes m_lockWriting, which the last one gives back, maybe  *)
(* on another thread.  A step is one spin lock operation or one access to  *)
(* m_nReading.                                                             *)
(***************************************************************************)
EXTENDS Naturals, FiniteSets

CONSTANTS Threads, Nobody

ThreadsAssumption == IsFiniteSet(Threads) /\ Nobody \notin Threads

VARIABLES
    lockReading,    \* whether m_lockReading is taken
    lockWriting,    \* whether m_lockWriting is taken
    nReading,       \* m_nReading
    pc              \* the step each thread is at

vars == <<lockReading, lockWriting, nReading, pc>>

LockReadSteps   == {"rLock", "rInc", "rTest", "rWait", "rUnlock"}
TryReadSteps    == {"tInc", "tTest", "tTry", "tReset", "tFail", "tUnlock"}
UnlockReadSteps == {"uLock", "uDec", "uTest", "uRelease", "uUnlock"}
Steps == {"idle", "reading", "wWait", "writing"}
         \cup LockReadSteps \cup TryReadSteps \cup UnlockReadSteps

Init ==
    /\ lockReading = FALSE /\ lockWriting = FALSE /\ nReading = 0
    /\ pc = [t \in Threads |-> "idle"]

Go(t, from, to) == pc[t] = from /\ pc' = [pc EXCEPT ![t] = to]

\* SpinLock: lock and tryLock succeed where the flag is clear; unlock clears it.
TakeReading  == ~lockReading /\ lockReading' = TRUE /\ UNCHANGED <<lockWriting, nReading>>
FreeReading  == lockReading' = FALSE /\ UNCHANGED <<lockWriting, nReading>>
TakeWriting  == ~lockWriting /\ lockWriting' = TRUE /\ UNCHANGED <<lockReading, nReading>>
FreeWriting  == lockWriting' = FALSE /\ UNCHANGED <<lockReading, nReading>>
Nothing      == UNCHANGED <<lockReading, lockWriting, nReading>>
SetReading(n) == nReading' = n /\ UNCHANGED <<lockReading, lockWriting>>

-----------------------------------------------------------------------------
(* lockRead                                                                *)
LockRead(t) == Go(t, "idle", "rLock") /\ Nothing

RLock(t)   == Go(t, "rLock", "rInc") /\ TakeReading
RInc(t)    == Go(t, "rInc", "rTest") /\ SetReading(nReading + 1)
RTest(t)   == Go(t, "rTest", IF nReading = 1 THEN "rWait" ELSE "rUnlock") /\ Nothing
RWait(t)   == Go(t, "rWait", "rUnlock") /\ TakeWriting
RUnlock(t) == Go(t, "rUnlock", "reading") /\ FreeReading

-----------------------------------------------------------------------------
(* tryLockRead: it gives up, without a trace, where m_lockReading is taken *)
TryLockRead(t) == Go(t, "idle", "tInc") /\ TakeReading
TInc(t)    == Go(t, "tInc", "tTest") /\ SetReading(nReading + 1)

TTest(t)   == Go(t, "tTest", IF nReading = 1 THEN "tTry" ELSE "tUnlock") /\ Nothing

TTry(t)    == IF lockWriting THEN Go(t, "tTry", "tReset") /\ Nothing
                             ELSE Go(t, "tTry", "tUnlock") /\ TakeWriting

\* Faulty variant: the failed attempt forgets to take back its count.
TReset_Forgotten(t) == Go(t, "tReset", "tFail") /\ Nothing

TReset(t)  == Go(t, "tReset", "tFail") /\ SetReading(0)
TFail(t)   == Go(t, "tFail", "idle") /\ FreeReading
TUnlock(t) == Go(t, "tUnlock", "reading") /\ FreeReading

-----------------------------------------------------------------------------
(* unlockRead                                                              *)
UnlockRead(t) == Go(t, "reading", "uLock") /\ Nothing
ULock(t)    == Go(t, "uLock", "uDec") /\ TakeReading
UDec(t)     == Go(t, "uDec", "uTest") /\ SetReading(nReading - 1)

\* Faulty variants: every reader releases the write lock; none does.
UTest_Always(t) == Go(t, "uTest", "uRelease") /\ Nothing
UTest_Never(t)  == Go(t, "uTest", "uUnlock") /\ Nothing

UTest(t)    == Go(t, "uTest", IF nReading = 0 THEN "uRelease" ELSE "uUnlock") /\ Nothing
URelease(t) == Go(t, "uRelease", "uUnlock") /\ FreeWriting
UUnlock(t)  == Go(t, "uUnlock", "idle") /\ FreeReading

-----------------------------------------------------------------------------
(* lockWrite, tryLockWrite, unlockWrite                                    *)
LockWrite(t)    == Go(t, "idle", "wWait") /\ Nothing
WWait(t)        == Go(t, "wWait", "writing") /\ TakeWriting
TryLockWrite(t) == Go(t, "idle", "writing") /\ TakeWriting
UnlockWrite(t)  == Go(t, "writing", "idle") /\ FreeWriting

-----------------------------------------------------------------------------
\* Steps of an operation in progress that do not wait for another thread.
Proceed(t) ==
    \/ RInc(t) \/ RTest(t) \/ RUnlock(t)
    \/ TInc(t) \/ TTest(t) \/ TTry(t) \/ TReset(t) \/ TFail(t) \/ TUnlock(t)
    \/ UDec(t) \/ UTest(t) \/ URelease(t) \/ UUnlock(t)

\* Steps that spin on a lock.
Spin(t) == RLock(t) \/ RWait(t) \/ ULock(t) \/ WWait(t)

Release(t) == UnlockRead(t) \/ UnlockWrite(t)

Begin(t) == LockRead(t) \/ TryLockRead(t) \/ LockWrite(t) \/ TryLockWrite(t)

Next == \E t \in Threads : Proceed(t) \/ Spin(t) \/ Release(t) \/ Begin(t)

\* A thread inside an operation runs on, a thread that spins on a lock which is
\* free infinitely often gets it, and a writer eventually releases.  Nothing is
\* assumed of readers: they may keep the lock for ever.
Fairness == \A t \in Threads :
    /\ WF_vars(Proceed(t)) /\ WF_vars(UnlockWrite(t))
    /\ SF_vars(RLock(t)) /\ SF_vars(RWait(t)) /\ SF_vars(ULock(t)) /\ SF_vars(WWait(t))

Spec == Init /\ [][Next]_vars /\ Fairness

-----------------------------------------------------------------------------
TypeOK ==
    /\ lockReading \in BOOLEAN /\ lockWriting \in BOOLEAN
    /\ nReading \in Nat
    /\ pc \in [Threads -> Steps]

\* Threads that m_nReading counts: between the increment and the decrement.
Counted == {t \in Threads : pc[t] \in {"rTest", "rWait", "rUnlock", "tTest", "tTry", "tReset",
                                       "tUnlock", "reading", "uLock", "uDec"}}

\* Threads that have the lock for reading, and for writing.
HasRead  == {"rUnlock", "tUnlock", "reading", "uLock", "uDec"}
Readers == {t \in Threads : \/ pc[t] \in HasRead
                            \/ pc[t] \in {"rTest", "tTest"} /\ nReading > 1}
Writers == {t \in Threads : pc[t] = "writing"}

\* A writer is alone: no second writer and no reader, although the readers' share
\* of m_lockWriting is taken by one thread and given back by another.
WriterAlone == Cardinality(Writers) <= 1 /\ (Writers = {} \/ Readers = {})

\* m_nReading is exact even where a tryLockRead that fails resets it to zero, so a
\* reader is never forgotten and the write lock never leaked: it is taken exactly
\* while a writer or some reader needs it.
CountExact ==
    /\ nReading = Cardinality(Counted)
    /\ lockWriting <=> \/ Writers # {} \/ Readers # {}
                       \/ \E t \in Threads : pc[t] = "uRelease"
                       \/ nReading = 0 /\ \E t \in Threads : pc[t] = "uTest"

Writer == IF Writers = {} THEN Nobody ELSE CHOOSE t \in Writers : TRUE
Lock == INSTANCE RWLock WITH readers <- Readers, writer <- Writer

\* The two spin locks and the counter implement a read-write lock.
ImplementsRWLock == Lock!Spec

\* tryLockRead never waits: whatever the lock's state, the thread inside it can
\* take its next step, so it returns although the writer it meets never releases.
TryNeverWaits == \A t \in Threads : pc[t] \in TryReadSteps => ENABLED Proceed(t)

\* Every reader that waits is served, though other readers keep the lock for ever
\* and any number of writers wait for it; and one that only tries never waits.
ReadersServed ==
    /\ \A t \in Threads : pc[t] = "rLock" ~> pc[t] = "reading"
    /\ []TryNeverWaits
=============================================================================
