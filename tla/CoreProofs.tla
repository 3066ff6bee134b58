----------------------------- MODULE CoreProofs -----------------------------
(***************************************************************************)
(* What threads share most: the memory that references count and the       *)
(* read-write lock of two spin locks.  The inductive invariants of         *)
(* RefCount and of ReadWriteSpinLock, and the theorems they prove.         *)
(***************************************************************************)
EXTENDS MCReadWriteSpinLock, FiniteSetTheorems, TLAPS

USE DEF object, weakCell, locks, pointers, locals

\* Steps at which the argument of an operation is in use.
ArgSteps == IncSteps \cup {"aLockStore", "swap", "aUnlock", "dec"}

\* Steps that need neither a Ref nor a WeakRef.
QuietSteps == {"idle", "aLockStore", "swap", "aUnlock"}

\* The spin locks are owned by the thread that is between lock and unlock.
LockInv == \A t \in Threads :
    /\ pc[t] \in ALockSteps => alock = t
    /\ pc[t] \in WLockSteps \cup {"relNull", "relUnlock"} <=> wlock = t
    /\ pc[t] \in {"getCheck", "poolUnlock"} <=> plock = t

\* What the Ref an operation works on is: a Ref the thread owns or, while the
\* AtomicRef is locked, its content.
ArgInv == \A t \in Threads :
    /\ pc[t] \notin ArgSteps => arg[t] = Null
    /\ pc[t] = "dec" => arg[t] # Null
    /\ arg[t] # Null => \/ holder[arg[t]] = t
                        \/ /\ pc[t] \in IncSteps
                           /\ holder[arg[t]] = Shared /\ alock = t
    /\ pc[t] = "inc" /\ arg[t] # Null => seen[t]

\* Before the first Ref there is nothing to share.
Blank == /\ Held = {} /\ WHeld = {} /\ count = 0 /\ wcount = 0
         /\ ~weak /\ ~wobj /\ cell = "none"

IsCreating(t) == pc[t] \in IncSteps /\ arg[t] = Null

BirthInv ==
    /\ mem = "none" => Blank /\ \A u \in Threads : pc[u] \in QuietSteps
    /\ \A t \in Threads : IsCreating(t) =>
         /\ mem = "live" /\ Blank
         /\ \A u \in Threads \ {t} : pc[u] \in QuietSteps
         /\ pc[t] = "inc" => ~seen[t]

\* An object without a Ref is being constructed or freed, by one thread.
DeathInv ==
    /\ Held # {} => mem = "live"
    /\ mem = "live" /\ Held = {} =>
         \E t \in Threads : pc[t] \in FreeSteps \/ IsCreating(t)
    /\ mem = "deleted" => ~weak
    /\ \A t \in Threads : pc[t] \in FreeSteps =>
         /\ mem = "live" /\ Held = {}
         /\ \A u \in Threads \ {t} : pc[u] \notin FreeSteps
         /\ pc[t] = "delete" => ~weak
         /\ pc[t] \in {"relLock", "relNull", "relUnlock", "relDec", "clearPtr"} => weak
         /\ pc[t] \in {"relUnlock", "relDec", "clearPtr"} => ~wobj

\* m_object is set exactly while m_weak is and free() has not cleared it; a
\* thread that uses the cell is kept safe by a Ref or by a WeakRef.
CellInv ==
    /\ wobj => weak
    /\ Held # {} => (weak => wobj) /\ (~weak => cell = "none" /\ WHeld = {})
    /\ \A t \in Threads :
         /\ pc[t] \in {"test", "up", "undo"} => wobj
         /\ pc[t] = "undo" => Held = {}
         /\ pc[t] \in GetSteps => \E r \in Refs : holder[r] = t
         /\ pc[t] \in {"poolUnlock", "weakInc"} => weak
         /\ pc[t] \in WLockSteps \cup {"wLock"} => \E w \in WRefs : wholder[w] = t

UndoUnit == IF \E t \in Threads : pc[t] = "undo" THEN 1 ELSE 0
WeakUnit == IF weak /\ \A t \in Threads : pc[t] # "clearPtr" THEN 1 ELSE 0

CountInv ==
    /\ count = Cardinality(Held) + UndoUnit
    /\ wcount = Cardinality(WHeld) + WeakUnit
    /\ cell = "live" <=> wcount # 0

IInv == TypeOK /\ LockInv /\ ArgInv /\ BirthInv /\ DeathInv /\ CellInv /\ CountInv

\* The sets of non-null references are finite, so a count of zero means that they
\* are empty.
LEMMA Finite ==
    ASSUME IInv
    PROVE /\ IsFiniteSet(Held) /\ Cardinality(Held) \in Nat
          /\ IsFiniteSet(WHeld) /\ Cardinality(WHeld) \in Nat
          /\ Held = {} <=> Cardinality(Held) = 0
          /\ WHeld = {} <=> Cardinality(WHeld) = 0
          /\ Held # {} => count >= 1
          /\ WHeld # {} => wcount >= 1
<1>1. IsFiniteSet(Held) /\ IsFiniteSet(WHeld)
  BY ConstantsAssumption, FS_Subset DEF Held, WHeld
<1>2. /\ Cardinality(Held) \in Nat /\ Cardinality(WHeld) \in Nat
      /\ Held = {} <=> Cardinality(Held) = 0
      /\ WHeld = {} <=> Cardinality(WHeld) = 0
  BY <1>1, FS_CardinalityType, FS_EmptySet
<1> QED BY <1>1, <1>2 DEF IInv, CountInv, UndoUnit, WeakUnit

\* Dropping a Ref takes one from the set of Refs, and the counter reaches zero
\* exactly when it was the last.
LEMMA DropOneRef ==
    ASSUME IInv, NEW t \in Threads, NEW r \in Refs, holder[r] = t,
           holder' = [holder EXCEPT ![r] = Null]
    PROVE /\ Held' = Held \ {r} /\ Held # {} /\ UndoUnit = 0 /\ count >= 1
          /\ Cardinality(Held') = Cardinality(Held) - 1
          /\ count = 1 <=> Held' = {}
<1>1. Held' = Held \ {r} /\ r \in Held
  BY ConstantsAssumption DEF IInv, TypeOK, Held
<1>2. UndoUnit = 0
  BY <1>1 DEF IInv, CellInv, UndoUnit
<1>3. IsFiniteSet(Held) /\ Cardinality(Held) \in Nat /\ count >= 1
  BY <1>1, Finite
<1>4. Cardinality(Held') = Cardinality(Held) - 1 /\ IsFiniteSet(Held')
  BY <1>1, <1>3, FS_RemoveElement
<1>5. Held' = {} <=> Cardinality(Held') = 0
  BY <1>4, FS_EmptySet
<1> QED BY <1>1, <1>2, <1>3, <1>4, <1>5 DEF IInv, CountInv

\* Filling a null Ref adds one to the set of Refs.
LEMMA AddRef ==
    ASSUME IInv, NEW t \in Threads, NEW n \in Refs \ Held,
           holder' = [holder EXCEPT ![n] = t]
    PROVE Held' = Held \cup {n} /\ Cardinality(Held') = Cardinality(Held) + 1
<1>1. Held' = Held \cup {n}
  BY ConstantsAssumption DEF IInv, TypeOK, Held
<1> QED BY <1>1, Finite, FS_AddElement

\* Filling a null WeakRef adds one to the set of WeakRefs.
LEMMA AddWRef ==
    ASSUME IInv, NEW t \in Threads, NEW n \in WRefs \ WHeld,
           wholder' = [wholder EXCEPT ![n] = t]
    PROVE Cardinality(WHeld') = Cardinality(WHeld) + 1
<1>1. WHeld' = WHeld \cup {n}
  BY ConstantsAssumption DEF IInv, TypeOK, WHeld
<1> QED BY <1>1, Finite, FS_AddElement

\* Dropping a WeakRef takes one from the set of WeakRefs.
LEMMA DropOneWRef ==
    ASSUME IInv, NEW t \in Threads, NEW n \in WRefs, wholder[n] = t,
           wholder' = [wholder EXCEPT ![n] = Null]
    PROVE Cardinality(WHeld') = Cardinality(WHeld) - 1
<1>1. WHeld' = WHeld \ {n} /\ n \in WHeld
  BY ConstantsAssumption DEF IInv, TypeOK, WHeld
<1> QED BY <1>1, Finite, FS_RemoveElement

\* The thread about to increment inside CWeakRef::lock is the only one that can
\* have an increment to take back, so the counter it reads is the number of Refs.
LEMMA LockerAlone ==
    ASSUME IInv, NEW t \in Threads, pc[t] = "up"
    PROVE /\ \A u \in Threads : pc[u] # "undo"
          /\ UndoUnit = 0 /\ count = Cardinality(Held)
          /\ Held = {} <=> count = 0
<1>1. \A u \in Threads : pc[u] # "undo"
  BY ConstantsAssumption DEF IInv, LockInv, WLockSteps
<1>2. UndoUnit = 0
  BY <1>1 DEF UndoUnit
<1> QED BY <1>1, <1>2, Finite DEF IInv, CountInv

\* Every step keeps the owners of the spin locks.
LEMMA LockStep == ASSUME IInv, NEW t \in Threads, Begin(t) \/ Continue(t) PROVE LockInv'
<1> USE ConstantsAssumption DEF IInv, TypeOK, LockInv, Go, Steps, IncSteps,
    FreeSteps, ALockSteps, GetSteps, WLockSteps, ArgSteps, QuietSteps
<1>1. CASE New(t)
  BY <1>1 DEF New
<1>2. CASE Copy(t)
  BY <1>2 DEF Copy
<1>3. CASE Drop(t)
  BY <1>3 DEF Drop, DropRef
<1>4. CASE StartLoad(t)
  BY <1>4 DEF StartLoad
<1>5. CASE StartStore(t)
  BY <1>5 DEF StartStore
<1>6. CASE StartWeak(t)
  BY <1>6 DEF StartWeak
<1>7. CASE WeakDrop(t)
  BY <1>7 DEF WeakDrop, DropCell
<1>8. CASE StartLock(t)
  BY <1>8 DEF StartLock
<1>9. CASE IncTest(t)
  BY <1>9 DEF IncTest
<1>10. CASE Inc(t)
  BY <1>10 DEF Inc
<1>11. CASE AcquireALock(t)
  BY <1>11 DEF AcquireALock
<1>12. CASE Retain(t)
  BY <1>12 DEF Retain
<1>13. CASE SwapPtr(t)
  BY <1>13 DEF SwapPtr
<1>14. CASE ReleaseALock(t)
  BY <1>14 DEF ReleaseALock
<1>15. CASE DropBefore(t)
  BY <1>15 DEF DropBefore, DropRef
<1>16. CASE ClearWeak(t)
  BY <1>16 DEF ClearWeak
<1>17. CASE ReleaseLock(t)
  BY <1>17 DEF ReleaseLock
<1>18. CASE ReleaseNull(t)
  BY <1>18 DEF ReleaseNull
<1>19. CASE ReleaseUnlock(t)
  BY <1>19 DEF ReleaseUnlock
<1>20. CASE ReleaseDec(t)
  BY <1>20 DEF ReleaseDec, DropCell
<1>21. CASE ClearPtr(t)
  BY <1>21 DEF ClearPtr
<1>22. CASE Delete(t)
  BY <1>22 DEF Delete
<1>23. CASE GetWeak(t)
  BY <1>23 DEF GetWeak
<1>24. CASE PoolLock(t)
  BY <1>24 DEF PoolLock
<1>25. CASE GetCheck(t)
  BY <1>25 DEF GetCheck
<1>26. CASE PoolUnlock(t)
  BY <1>26 DEF PoolUnlock
<1>27. CASE WeakInc(t)
  BY <1>27 DEF WeakInc, TakeCell
<1>28. CASE LockCell(t)
  BY <1>28 DEF LockCell
<1>29. CASE LoadObject(t)
  BY <1>29 DEF LoadObject
<1>30. CASE TestCount(t)
  BY <1>30 DEF TestCount
<1>31. CASE UpCount(t)
  BY <1>31 DEF UpCount
<1>32. CASE UndoCount(t)
  BY <1>32 DEF UndoCount
<1>33. CASE UnlockCell(t)
  BY <1>33 DEF UnlockCell
<1>34. CASE \E u \in Threads : Move(t, u)
  BY <1>34 DEF Move
<1>35. CASE \E u \in Threads : WeakCopy(t, u)
  BY <1>35 DEF WeakCopy, TakeCell
<1> QED BY <1>1, <1>2, <1>3, <1>4, <1>5, <1>6, <1>7, <1>8, <1>9, <1>10, <1>11,
    <1>12, <1>13, <1>14, <1>15, <1>16, <1>17, <1>18, <1>19, <1>20, <1>21, <1>22, <1>23,
    <1>24, <1>25, <1>26, <1>27, <1>28, <1>29, <1>30, <1>31, <1>32, <1>33, <1>34, <1>35
    DEF Begin, Continue
\* Every step keeps the types.
LEMMA TypeStep == ASSUME IInv, NEW t \in Threads, Begin(t) \/ Continue(t) PROVE TypeOK'
<1> USE ConstantsAssumption, Finite DEF IInv, TypeOK, ArgInv, IncResult, Held,
    WHeld, Go, Steps, IncSteps, FreeSteps, ALockSteps, GetSteps, WLockSteps, ArgSteps,
    QuietSteps
<1>1. CASE New(t)
  BY <1>1 DEF New
<1>2. CASE Copy(t)
  BY <1>2 DEF Copy
<1>3. CASE Drop(t)
  BY <1>3 DEF Drop, DropRef
<1>4. CASE StartLoad(t)
  BY <1>4 DEF StartLoad
<1>5. CASE StartStore(t)
  BY <1>5 DEF StartStore
<1>6. CASE StartWeak(t)
  BY <1>6 DEF StartWeak
<1>7. CASE WeakDrop(t)
  BY <1>7 DEF WeakDrop, DropCell
<1>8. CASE StartLock(t)
  BY <1>8 DEF StartLock
<1>9. CASE IncTest(t)
  BY <1>9 DEF IncTest
<1>10. CASE Inc(t)
  BY <1>10 DEF Inc
<1>11. CASE AcquireALock(t)
  BY <1>11 DEF AcquireALock
<1>12. CASE Retain(t)
  BY <1>12 DEF Retain
<1>13. CASE SwapPtr(t)
  BY <1>13 DEF SwapPtr
<1>14. CASE ReleaseALock(t)
  BY <1>14 DEF ReleaseALock
<1>15. CASE DropBefore(t)
  BY <1>15 DEF DropBefore, DropRef
<1>16. CASE ClearWeak(t)
  BY <1>16 DEF ClearWeak
<1>17. CASE ReleaseLock(t)
  BY <1>17 DEF ReleaseLock
<1>18. CASE ReleaseNull(t)
  BY <1>18 DEF ReleaseNull
<1>19. CASE ReleaseUnlock(t)
  BY <1>19 DEF ReleaseUnlock
<1>20. CASE ReleaseDec(t)
  <2>1. wcount >= 1
    BY <1>20, Finite DEF ReleaseDec, CountInv, WeakUnit, DeathInv
  <2> QED BY <1>20, <2>1 DEF ReleaseDec, DropCell
<1>21. CASE ClearPtr(t)
  BY <1>21 DEF ClearPtr
<1>22. CASE Delete(t)
  BY <1>22 DEF Delete
<1>23. CASE GetWeak(t)
  BY <1>23 DEF GetWeak
<1>24. CASE PoolLock(t)
  BY <1>24 DEF PoolLock
<1>25. CASE GetCheck(t)
  <2>1. CASE weak
    BY <1>25, <2>1 DEF GetCheck
  <2>2. CASE ~weak
    BY <1>25, <2>2 DEF GetCheck
  <2> QED BY <2>1, <2>2
<1>26. CASE PoolUnlock(t)
  BY <1>26 DEF PoolUnlock
<1>27. CASE WeakInc(t)
  BY <1>27 DEF WeakInc, TakeCell
<1>28. CASE LockCell(t)
  BY <1>28 DEF LockCell
<1>29. CASE LoadObject(t)
  BY <1>29 DEF LoadObject
<1>30. CASE TestCount(t)
  BY <1>30 DEF TestCount
<1>31. CASE UpCount(t)
  BY <1>31 DEF UpCount
<1>32. CASE UndoCount(t)
  <2>1. count >= 1
    BY <1>32, Finite DEF UndoCount, CountInv, UndoUnit
  <2> QED BY <1>32, <2>1 DEF UndoCount
<1>33. CASE UnlockCell(t)
  BY <1>33 DEF UnlockCell
<1>34. CASE \E u \in Threads : Move(t, u)
  BY <1>34 DEF Move
<1>35. CASE \E u \in Threads : WeakCopy(t, u)
  BY <1>35 DEF WeakCopy, TakeCell
<1> QED BY <1>1, <1>2, <1>3, <1>4, <1>5, <1>6, <1>7, <1>8, <1>9, <1>10, <1>11,
    <1>12, <1>13, <1>14, <1>15, <1>16, <1>17, <1>18, <1>19, <1>20, <1>21, <1>22, <1>23,
    <1>24, <1>25, <1>26, <1>27, <1>28, <1>29, <1>30, <1>31, <1>32, <1>33, <1>34, <1>35
    DEF Begin, Continue
\* Every step keeps what the operations in progress work on.
LEMMA ArgStep == ASSUME IInv, NEW t \in Threads, Begin(t) \/ Continue(t) PROVE ArgInv'
<1> USE ConstantsAssumption, Finite DEF IInv, TypeOK, LockInv, ArgInv, Held, Go,
    Steps, IncSteps, FreeSteps, ALockSteps, GetSteps, WLockSteps, ArgSteps, QuietSteps
<1>1. CASE New(t)
  BY <1>1 DEF New
<1>2. CASE Copy(t)
  BY <1>2 DEF Copy
<1>3. CASE Drop(t)
  BY <1>3 DEF Drop, DropRef
<1>4. CASE StartLoad(t)
  BY <1>4 DEF StartLoad
<1>5. CASE StartStore(t)
  BY <1>5 DEF StartStore
<1>6. CASE StartWeak(t)
  BY <1>6 DEF StartWeak
<1>7. CASE WeakDrop(t)
  BY <1>7 DEF WeakDrop, DropCell
<1>8. CASE StartLock(t)
  BY <1>8 DEF StartLock
<1>9. CASE IncTest(t)
  <2>1. arg[t] # Null => count # 0
    BY <1>9, Finite DEF IncTest
  <2>2. /\ pc' = [pc EXCEPT ![t] = "inc"] /\ UNCHANGED <<holder, arg, alock>>
        /\ arg[t] # Null => seen'[t]
        /\ \A u \in Threads \ {t} : seen'[u] = seen[u]
    BY <1>9, <2>1 DEF IncTest
  <2> QED BY <1>9, <2>2
<1>10. CASE Inc(t)
  BY <1>10 DEF Inc
<1>11. CASE AcquireALock(t)
  BY <1>11 DEF AcquireALock
<1>12. CASE Retain(t)
  BY <1>12 DEF Retain
<1>13. CASE SwapPtr(t)
  BY <1>13 DEF SwapPtr
<1>14. CASE ReleaseALock(t)
  BY <1>14 DEF ReleaseALock
<1>15. CASE DropBefore(t)
  BY <1>15 DEF DropBefore, DropRef
<1>16. CASE ClearWeak(t)
  BY <1>16 DEF ClearWeak
<1>17. CASE ReleaseLock(t)
  BY <1>17 DEF ReleaseLock
<1>18. CASE ReleaseNull(t)
  BY <1>18 DEF ReleaseNull
<1>19. CASE ReleaseUnlock(t)
  BY <1>19 DEF ReleaseUnlock
<1>20. CASE ReleaseDec(t)
  BY <1>20 DEF ReleaseDec, DropCell
<1>21. CASE ClearPtr(t)
  BY <1>21 DEF ClearPtr
<1>22. CASE Delete(t)
  BY <1>22 DEF Delete
<1>23. CASE GetWeak(t)
  BY <1>23 DEF GetWeak
<1>24. CASE PoolLock(t)
  BY <1>24 DEF PoolLock
<1>25. CASE GetCheck(t)
  BY <1>25 DEF GetCheck
<1>26. CASE PoolUnlock(t)
  BY <1>26 DEF PoolUnlock
<1>27. CASE WeakInc(t)
  BY <1>27 DEF WeakInc, TakeCell
<1>28. CASE LockCell(t)
  BY <1>28 DEF LockCell
<1>29. CASE LoadObject(t)
  BY <1>29 DEF LoadObject
<1>30. CASE TestCount(t)
  BY <1>30 DEF TestCount
<1>31. CASE UpCount(t)
  BY <1>31 DEF UpCount
<1>32. CASE UndoCount(t)
  BY <1>32 DEF UndoCount
<1>33. CASE UnlockCell(t)
  BY <1>33 DEF UnlockCell
<1>34. CASE \E u \in Threads : Move(t, u)
  BY <1>34 DEF Move
<1>35. CASE \E u \in Threads : WeakCopy(t, u)
  BY <1>35 DEF WeakCopy, TakeCell
<1> QED BY <1>1, <1>2, <1>3, <1>4, <1>5, <1>6, <1>7, <1>8, <1>9, <1>10, <1>11,
    <1>12, <1>13, <1>14, <1>15, <1>16, <1>17, <1>18, <1>19, <1>20, <1>21, <1>22, <1>23,
    <1>24, <1>25, <1>26, <1>27, <1>28, <1>29, <1>30, <1>31, <1>32, <1>33, <1>34, <1>35
    DEF Begin, Continue
\* Every step keeps the facts about an object under construction.
LEMMA BirthStep == ASSUME IInv, NEW t \in Threads, Begin(t) \/ Continue(t) PROVE BirthInv'
<1> USE ConstantsAssumption DEF IInv, TypeOK, LockInv, ArgInv, BirthInv, DeathInv,
    CellInv, Blank, IsCreating, Held, WHeld, Go, Steps, IncSteps, FreeSteps, ALockSteps,
    GetSteps, WLockSteps, ArgSteps, QuietSteps
<1>1. CASE New(t)
  BY <1>1 DEF New
<1>2. CASE Copy(t)
  BY <1>2 DEF Copy
<1>3. CASE Drop(t)
  BY <1>3 DEF Drop, DropRef
<1>4. CASE StartLoad(t)
  BY <1>4 DEF StartLoad
<1>5. CASE StartStore(t)
  BY <1>5 DEF StartStore
<1>6. CASE StartWeak(t)
  BY <1>6 DEF StartWeak
<1>7. CASE WeakDrop(t)
  BY <1>7 DEF WeakDrop, DropCell
<1>8. CASE StartLock(t)
  BY <1>8 DEF StartLock
<1>9. CASE IncTest(t)
  BY <1>9 DEF IncTest
<1>10. CASE Inc(t)
  BY <1>10 DEF Inc
<1>11. CASE AcquireALock(t)
  BY <1>11 DEF AcquireALock
<1>12. CASE Retain(t)
  BY <1>12 DEF Retain
<1>13. CASE SwapPtr(t)
  BY <1>13 DEF SwapPtr
<1>14. CASE ReleaseALock(t)
  BY <1>14 DEF ReleaseALock
<1>15. CASE DropBefore(t)
  BY <1>15 DEF DropBefore, DropRef
<1>16. CASE ClearWeak(t)
  BY <1>16 DEF ClearWeak
<1>17. CASE ReleaseLock(t)
  BY <1>17 DEF ReleaseLock
<1>18. CASE ReleaseNull(t)
  BY <1>18 DEF ReleaseNull
<1>19. CASE ReleaseUnlock(t)
  BY <1>19 DEF ReleaseUnlock
<1>20. CASE ReleaseDec(t)
  BY <1>20 DEF ReleaseDec, DropCell
<1>21. CASE ClearPtr(t)
  BY <1>21 DEF ClearPtr
<1>22. CASE Delete(t)
  BY <1>22 DEF Delete
<1>23. CASE GetWeak(t)
  BY <1>23 DEF GetWeak
<1>24. CASE PoolLock(t)
  BY <1>24 DEF PoolLock
<1>25. CASE GetCheck(t)
  BY <1>25 DEF GetCheck
<1>26. CASE PoolUnlock(t)
  BY <1>26 DEF PoolUnlock
<1>27. CASE WeakInc(t)
  BY <1>27 DEF WeakInc, TakeCell
<1>28. CASE LockCell(t)
  BY <1>28 DEF LockCell
<1>29. CASE LoadObject(t)
  BY <1>29 DEF LoadObject
<1>30. CASE TestCount(t)
  BY <1>30 DEF TestCount
<1>31. CASE UpCount(t)
  BY <1>31 DEF UpCount
<1>32. CASE UndoCount(t)
  BY <1>32 DEF UndoCount
<1>33. CASE UnlockCell(t)
  BY <1>33 DEF UnlockCell
<1>34. CASE \E u \in Threads : Move(t, u)
  BY <1>34 DEF Move
<1>35. CASE \E u \in Threads : WeakCopy(t, u)
  BY <1>35 DEF WeakCopy, TakeCell
<1> QED BY <1>1, <1>2, <1>3, <1>4, <1>5, <1>6, <1>7, <1>8, <1>9, <1>10, <1>11,
    <1>12, <1>13, <1>14, <1>15, <1>16, <1>17, <1>18, <1>19, <1>20, <1>21, <1>22, <1>23,
    <1>24, <1>25, <1>26, <1>27, <1>28, <1>29, <1>30, <1>31, <1>32, <1>33, <1>34, <1>35
    DEF Begin, Continue
\* Every step keeps the facts about an object without a Ref.
LEMMA DeathStep == ASSUME IInv, NEW t \in Threads, Begin(t) \/ Continue(t) PROVE DeathInv'
<1>a. pc[t] = "up" => /\ Held = {} <=> count = 0
                       /\ count \in Nat
                       /\ \A u \in Threads : pc[u] # "undo"
  BY LockerAlone DEF IInv, TypeOK
<1>b. \A n \in Refs \ Held : holder' = [holder EXCEPT ![n] = t] => Held' = Held \cup {n}
  BY AddRef
<1> USE ConstantsAssumption DEF IInv, TypeOK, LockInv, ArgInv, BirthInv, DeathInv,
    CellInv, Blank, IsCreating, Go, Steps, IncSteps, FreeSteps, ALockSteps, GetSteps,
    WLockSteps, ArgSteps, QuietSteps
<1>1. CASE New(t)
  BY <1>1 DEF Held, New
<1>2. CASE Copy(t)
  BY <1>2 DEF Held, Copy
<1>3. CASE Drop(t)
  <2>1. PICK r \in Refs : DropRef(t, r) /\ pc[t] = "idle"
    BY <1>3 DEF Drop
  <2>2. /\ Held # {} /\ count \in Nat /\ Held' = Held \ {r}
        /\ count = 1 <=> Held' = {}
    BY <2>1, DropOneRef DEF DropRef
  <2>3. mem' = mem /\ weak' = weak /\ wobj' = wobj
        /\ pc' = [pc EXCEPT ![t] = IF count = 1 THEN "clear" ELSE "idle"]
        /\ \A u \in Threads : pc[u] \notin FreeSteps
    BY <2>1, <2>2 DEF DropRef
  <2> QED BY <2>2, <2>3
<1>4. CASE StartLoad(t)
  BY <1>4 DEF Held, StartLoad
<1>5. CASE StartStore(t)
  BY <1>5 DEF Held, StartStore
<1>6. CASE StartWeak(t)
  BY <1>6 DEF Held, StartWeak
<1>7. CASE WeakDrop(t)
  BY <1>7 DEF Held, WeakDrop, DropCell
<1>8. CASE StartLock(t)
  BY <1>8 DEF Held, StartLock
<1>9. CASE IncTest(t)
  BY <1>9 DEF Held, IncTest
<1>10. CASE Inc(t)
  BY <1>10 DEF Held, Inc
<1>11. CASE AcquireALock(t)
  BY <1>11 DEF Held, AcquireALock
<1>12. CASE Retain(t)
  BY <1>12 DEF Held, Retain
<1>13. CASE SwapPtr(t)
  <2>1. Held' = Held
    BY <1>13 DEF SwapPtr, Held
  <2>2. UNCHANGED <<mem, weak, wobj>> /\ pc' = [pc EXCEPT ![t] = "aUnlock"] /\ pc[t]
      = "swap"
    BY <1>13 DEF SwapPtr
  <2>3. Held # {} => \A u \in Threads : ~IsCreating(u)
    OBVIOUS
  <2>4. \A u \in Threads : IsCreating(u) => IsCreating(u)'
    BY <1>13, <2>2 DEF SwapPtr
  <2> QED BY <2>1, <2>2, <2>4
<1>14. CASE ReleaseALock(t)
  BY <1>14 DEF Held, ReleaseALock
<1>15. CASE DropBefore(t)
  <2>1. PICK r \in Refs : DropRef(t, r) /\ pc[t] = "dec"
    BY <1>15 DEF DropBefore
  <2>2. /\ Held # {} /\ count \in Nat /\ Held' = Held \ {r}
        /\ count = 1 <=> Held' = {}
    BY <2>1, DropOneRef DEF DropRef
  <2>3. mem' = mem /\ weak' = weak /\ wobj' = wobj
        /\ pc' = [pc EXCEPT ![t] = IF count = 1 THEN "clear" ELSE "idle"]
        /\ \A u \in Threads : pc[u] \notin FreeSteps
    BY <2>1, <2>2 DEF DropRef
  <2> QED BY <2>2, <2>3
<1>16. CASE ClearWeak(t)
  BY <1>16 DEF Held, ClearWeak
<1>17. CASE ReleaseLock(t)
  BY <1>17 DEF Held, ReleaseLock
<1>18. CASE ReleaseNull(t)
  BY <1>18 DEF Held, ReleaseNull
<1>19. CASE ReleaseUnlock(t)
  BY <1>19 DEF Held, ReleaseUnlock
<1>20. CASE ReleaseDec(t)
  BY <1>20 DEF Held, ReleaseDec, DropCell
<1>21. CASE ClearPtr(t)
  BY <1>21 DEF Held, ClearPtr
<1>22. CASE Delete(t)
  BY <1>22 DEF Held, Delete
<1>23. CASE GetWeak(t)
  BY <1>23 DEF Held, GetWeak
<1>24. CASE PoolLock(t)
  BY <1>24 DEF Held, PoolLock
<1>25. CASE GetCheck(t)
  BY <1>25 DEF Held, GetCheck
<1>26. CASE PoolUnlock(t)
  BY <1>26 DEF Held, PoolUnlock
<1>27. CASE WeakInc(t)
  BY <1>27 DEF Held, WeakInc, TakeCell
<1>28. CASE LockCell(t)
  BY <1>28 DEF Held, LockCell
<1>29. CASE LoadObject(t)
  BY <1>29 DEF Held, LoadObject
<1>30. CASE TestCount(t)
  BY <1>30 DEF Held, TestCount
<1>31. CASE UpCount(t)
  <2>1. count \in Nat /\ pc[t] = "up" /\ UNCHANGED <<mem, weak, wobj, arg>>
    BY <1>31 DEF UpCount
  <2>2. CASE count = 0
    <3>1. Held' = Held /\ pc' = [pc EXCEPT ![t] = "undo"]
      BY <1>31, <2>1, <2>2 DEF UpCount, LockSucceeds, Held
    <3> QED BY <2>1, <3>1
  <2>3. CASE count # 0
    <3>1. PICK n \in Refs \ Held : holder' = [holder EXCEPT ![n] = t]
      BY <1>31, <2>1, <2>3 DEF UpCount, LockSucceeds
    <3>2. Held' = Held \cup {n}
      BY <3>1, <1>b
    <3>3. Held # {} /\ Held' # {}
      BY <2>1, <2>3, <3>2, <1>a
    <3>4. pc' = [pc EXCEPT ![t] = "wUnlock"]
      BY <1>31, <2>1, <2>3 DEF UpCount, LockSucceeds
    <3> QED BY <2>1, <3>3, <3>4
  <2> QED BY <2>2, <2>3
<1>32. CASE UndoCount(t)
  BY <1>32 DEF Held, UndoCount
<1>33. CASE UnlockCell(t)
  BY <1>33 DEF Held, UnlockCell
<1>34. CASE \E u \in Threads : Move(t, u)
  <2>1. Held' = Held /\ \A v \in Threads : arg[v] # Null => holder'[arg[v]] # Null
    BY <1>34, ConstantsAssumption DEF Move, Held
  <2>2. UNCHANGED <<mem, weak, wobj, pc, arg>>
    BY <1>34 DEF Move
  <2> QED BY <2>1, <2>2
<1>35. CASE \E u \in Threads : WeakCopy(t, u)
  <2>1. Held' = Held /\ UNCHANGED <<mem, weak, wobj, pc, arg>>
    BY <1>35 DEF WeakCopy, Held
  <2> QED BY <2>1
<1> QED BY <1>1, <1>2, <1>3, <1>4, <1>5, <1>6, <1>7, <1>8, <1>9, <1>10, <1>11,
    <1>12, <1>13, <1>14, <1>15, <1>16, <1>17, <1>18, <1>19, <1>20, <1>21, <1>22, <1>23,
    <1>24, <1>25, <1>26, <1>27, <1>28, <1>29, <1>30, <1>31, <1>32, <1>33, <1>34, <1>35
    DEF Begin, Continue
\* Every step keeps the facts about the weak cell.
LEMMA CellStep == ASSUME IInv, NEW t \in Threads, Begin(t) \/ Continue(t) PROVE CellInv'
<1>a. pc[t] = "up" => /\ Held = {} <=> count = 0
                       /\ count \in Nat
                       /\ \A u \in Threads : pc[u] # "undo"
  BY LockerAlone DEF IInv, TypeOK
<1>b. \A n \in Refs \ Held : holder' = [holder EXCEPT ![n] = t] => Held' = Held \cup {n}
  BY AddRef
<1> USE ConstantsAssumption DEF IInv, TypeOK, LockInv, ArgInv, BirthInv, DeathInv,
    CellInv, Blank, IsCreating, Held, WHeld, Go, Steps, IncSteps, FreeSteps, ALockSteps,
    GetSteps, WLockSteps, ArgSteps, QuietSteps
<1>1. CASE New(t)
  BY <1>1 DEF New
<1>2. CASE Copy(t)
  BY <1>2 DEF Copy
<1>3. CASE Drop(t)
  BY <1>3 DEF Drop, DropRef
<1>4. CASE StartLoad(t)
  BY <1>4 DEF StartLoad
<1>5. CASE StartStore(t)
  BY <1>5 DEF StartStore
<1>6. CASE StartWeak(t)
  BY <1>6 DEF StartWeak
<1>7. CASE WeakDrop(t)
  BY <1>7 DEF WeakDrop, DropCell
<1>8. CASE StartLock(t)
  BY <1>8 DEF StartLock
<1>9. CASE IncTest(t)
  BY <1>9 DEF IncTest
<1>10. CASE Inc(t)
  BY <1>10 DEF Inc
<1>11. CASE AcquireALock(t)
  BY <1>11 DEF AcquireALock
<1>12. CASE Retain(t)
  BY <1>12 DEF Retain
<1>13. CASE SwapPtr(t)
  BY <1>13 DEF SwapPtr
<1>14. CASE ReleaseALock(t)
  BY <1>14 DEF ReleaseALock
<1>15. CASE DropBefore(t)
  BY <1>15 DEF DropBefore, DropRef
<1>16. CASE ClearWeak(t)
  BY <1>16 DEF ClearWeak
<1>17. CASE ReleaseLock(t)
  BY <1>17 DEF ReleaseLock
<1>18. CASE ReleaseNull(t)
  BY <1>18 DEF ReleaseNull
<1>19. CASE ReleaseUnlock(t)
  BY <1>19 DEF ReleaseUnlock
<1>20. CASE ReleaseDec(t)
  BY <1>20 DEF ReleaseDec, DropCell
<1>21. CASE ClearPtr(t)
  BY <1>21 DEF ClearPtr
<1>22. CASE Delete(t)
  BY <1>22 DEF Delete
<1>23. CASE GetWeak(t)
  BY <1>23 DEF GetWeak
<1>24. CASE PoolLock(t)
  BY <1>24 DEF PoolLock
<1>25. CASE GetCheck(t)
  BY <1>25 DEF GetCheck
<1>26. CASE PoolUnlock(t)
  BY <1>26 DEF PoolUnlock
<1>27. CASE WeakInc(t)
  BY <1>27 DEF WeakInc, TakeCell
<1>28. CASE LockCell(t)
  BY <1>28 DEF LockCell
<1>29. CASE LoadObject(t)
  BY <1>29 DEF LoadObject
<1>30. CASE TestCount(t)
  BY <1>30 DEF TestCount
<1>31. CASE UpCount(t)
  <2>1. count \in Nat /\ pc[t] = "up"
        /\ UNCHANGED <<mem, weak, cell, wobj, wlock, wholder, arg>>
    BY <1>31 DEF UpCount
  <2>2. CASE count = 0
    BY <1>31, <2>1, <2>2, <1>a DEF UpCount, LockSucceeds
  <2>3. CASE count # 0
    <3>1. PICK n \in Refs \ Held : holder' = [holder EXCEPT ![n] = t]
      BY <1>31, <2>1, <2>3 DEF UpCount, LockSucceeds
    <3>2. Held # {} /\ \A u \in Threads : pc[u] # "undo"
      BY <2>1, <2>3, <1>a
    <3>3. pc' = [pc EXCEPT ![t] = "wUnlock"]
      BY <1>31, <2>1, <2>3 DEF UpCount, LockSucceeds
    <3>4. \A u \in Threads : (\E r \in Refs : holder[r] = u) => \E r \in Refs :
        holder'[r] = u
      BY <3>1
    <3> QED BY <2>1, <3>2, <3>3, <3>4
  <2> QED BY <2>2, <2>3
<1>32. CASE UndoCount(t)
  BY <1>32 DEF UndoCount
<1>33. CASE UnlockCell(t)
  BY <1>33 DEF UnlockCell
<1>34. CASE \E u \in Threads : Move(t, u)
  BY <1>34 DEF Move
<1>35. CASE \E u \in Threads : WeakCopy(t, u)
  BY <1>35 DEF WeakCopy, TakeCell
<1> QED BY <1>1, <1>2, <1>3, <1>4, <1>5, <1>6, <1>7, <1>8, <1>9, <1>10, <1>11,
    <1>12, <1>13, <1>14, <1>15, <1>16, <1>17, <1>18, <1>19, <1>20, <1>21, <1>22, <1>23,
    <1>24, <1>25, <1>26, <1>27, <1>28, <1>29, <1>30, <1>31, <1>32, <1>33, <1>34, <1>35
    DEF Begin, Continue
\* Every step keeps the two counters exact.
LEMMA CountStep == ASSUME IInv, NEW t \in Threads, Begin(t) \/ Continue(t) PROVE CountInv'
<1>a. /\ Cardinality(Held) \in Nat /\ Cardinality(WHeld) \in Nat
      /\ Held = {} <=> Cardinality(Held) = 0
      /\ WHeld = {} <=> Cardinality(WHeld) = 0
      /\ Held # {} => count >= 1
      /\ WHeld # {} => wcount >= 1
  BY Finite
<1>b. \A u \in Threads, n \in Refs \ Held :
        holder' = [holder EXCEPT ![n] = u] => Cardinality(Held') = Cardinality(Held) + 1
  BY AddRef
<1>c. \A u \in Threads, n \in WRefs \ WHeld :
        wholder' = [wholder EXCEPT ![n] = u] => Cardinality(WHeld') = Cardinality(WHeld) + 1
  BY AddWRef
<1>d. \A n \in WRefs : /\ wholder[n] = t /\ wholder' = [wholder EXCEPT ![n] = Null]
                        => Cardinality(WHeld') = Cardinality(WHeld) - 1
  BY DropOneWRef
<1>e. pc[t] = "up" => /\ \A u \in Threads : pc[u] # "undo"
                       /\ count = Cardinality(Held)
  BY LockerAlone
<1>f. \A r \in Refs : /\ holder[r] = t /\ holder' = [holder EXCEPT ![r] = Null]
                       => /\ Held # {} /\ Cardinality(Held') = Cardinality(Held) - 1
  BY DropOneRef
<1> USE ConstantsAssumption DEF IInv, TypeOK, CountInv, UndoUnit, WeakUnit, Go,
    Steps, IncSteps, FreeSteps, ALockSteps, GetSteps, WLockSteps
<1>1. CASE New(t)
  BY <1>1 DEF Held, WHeld, New
<1>2. CASE Copy(t)
  BY <1>2 DEF Held, WHeld, Copy
<1>3. CASE Drop(t)
  <2>1. PICK r \in Refs : DropRef(t, r) /\ pc[t] \in {"idle", "dec"}
    BY <1>3 DEF Drop, ArgInv
  <2>2. Cardinality(Held') = Cardinality(Held) - 1 /\ count >= 1
    BY <2>1, <1>a, <1>f DEF DropRef
  <2>3. WHeld' = WHeld /\ UNCHANGED <<UndoUnit, WeakUnit>>
    BY <2>1 DEF DropRef, WHeld
  <2> QED BY <2>1, <1>a, <2>2, <2>3 DEF DropRef
<1>4. CASE StartLoad(t)
  BY <1>4 DEF Held, WHeld, StartLoad
<1>5. CASE StartStore(t)
  BY <1>5 DEF Held, WHeld, StartStore
<1>6. CASE StartWeak(t)
  BY <1>6 DEF Held, WHeld, StartWeak
<1>7. CASE WeakDrop(t)
  <2>1. PICK n \in WRefs : wholder[n] = t /\ wholder' = [wholder EXCEPT ![n] = Null]
    BY <1>7 DEF WeakDrop
  <2>2. Cardinality(WHeld') = Cardinality(WHeld) - 1
    BY <2>1, <1>d
  <2>3. Held' = Held /\ UNCHANGED <<UndoUnit, WeakUnit>>
    BY <1>7 DEF WeakDrop, Held
  <2>4. WHeld # {}
    BY <2>1 DEF WHeld
  <2>5. wcount' = wcount - 1 /\ wcount >= 1 /\ wcount' = Cardinality(WHeld') + WeakUnit'
    BY <1>7, <1>a, <2>2, <2>3, <2>4 DEF WeakDrop, DropCell
  <2>6. cell' = "live" <=> wcount' # 0
    BY <1>7, <2>5 DEF WeakDrop, DropCell
  <2> QED BY <1>7, <2>3, <2>5, <2>6 DEF WeakDrop
<1>8. CASE StartLock(t)
  BY <1>8 DEF Held, WHeld, StartLock
<1>9. CASE IncTest(t)
  BY <1>9 DEF Held, WHeld, IncTest
<1>10. CASE Inc(t)
  <2>1. PICK n \in Refs \ Held : holder' = [holder EXCEPT ![n] = t]
    BY <1>10 DEF Inc
  <2>2. Cardinality(Held') = Cardinality(Held) + 1
    BY <2>1, <1>b
  <2>3. count' = count + 1
    <3>1. CASE arg[t] # Null
      BY <1>10, <3>1 DEF Inc, IncResult, ArgInv
    <3>2. CASE arg[t] = Null
      <4>1. count = 0 /\ ~seen[t]
        BY <1>10, <3>2 DEF Inc, BirthInv, Blank, IsCreating
      <4> QED BY <1>10, <4>1 DEF Inc, IncResult
    <3> QED BY <3>1, <3>2
  <2>4. UNCHANGED <<UndoUnit, WeakUnit, WHeld>>
    BY <1>10 DEF Inc, WHeld
  <2> QED BY <1>10, <1>a, <2>2, <2>3, <2>4 DEF Inc
<1>11. CASE AcquireALock(t)
  BY <1>11 DEF Held, WHeld, AcquireALock
<1>12. CASE Retain(t)
  BY <1>12 DEF Held, WHeld, Retain
<1>13. CASE SwapPtr(t)
  <2>1. Held' = Held /\ WHeld' = WHeld
    <3>1. arg[t] \in Refs => holder[arg[t]] = t
      BY <1>13 DEF SwapPtr, ArgInv
    <3> QED BY <1>13, <3>1 DEF SwapPtr, Held, WHeld
  <2>2. UNCHANGED <<UndoUnit, WeakUnit>>
    BY <1>13 DEF SwapPtr
  <2> QED BY <1>13, <2>1, <2>2 DEF SwapPtr
<1>14. CASE ReleaseALock(t)
  BY <1>14 DEF Held, WHeld, ReleaseALock
<1>15. CASE DropBefore(t)
  <2>1. PICK r \in Refs : DropRef(t, r) /\ pc[t] \in {"idle", "dec"}
    BY <1>15 DEF DropBefore, ArgInv
  <2>2. Cardinality(Held') = Cardinality(Held) - 1 /\ count >= 1
    BY <2>1, <1>a, <1>f DEF DropRef
  <2>3. WHeld' = WHeld /\ UNCHANGED <<UndoUnit, WeakUnit>>
    BY <2>1 DEF DropRef, WHeld
  <2> QED BY <2>1, <1>a, <2>2, <2>3 DEF DropRef
<1>16. CASE ClearWeak(t)
  BY <1>16 DEF Held, WHeld, ClearWeak
<1>17. CASE ReleaseLock(t)
  BY <1>17 DEF Held, WHeld, ReleaseLock
<1>18. CASE ReleaseNull(t)
  BY <1>18 DEF Held, WHeld, ReleaseNull
<1>19. CASE ReleaseUnlock(t)
  BY <1>19 DEF Held, WHeld, ReleaseUnlock
<1>20. CASE ReleaseDec(t)
  <2>1. WeakUnit = 1 /\ WeakUnit' = 0 /\ UndoUnit' = UndoUnit
    BY <1>20 DEF ReleaseDec, DeathInv
  <2>2. Held' = Held /\ WHeld' = WHeld
    BY <1>20 DEF ReleaseDec, Held, WHeld
  <2>3. wcount' = wcount - 1 /\ wcount >= 1 /\ wcount' = Cardinality(WHeld') + WeakUnit'
    BY <1>20, <1>a, <2>1, <2>2 DEF ReleaseDec, DropCell
  <2>4. cell' = "live" <=> wcount' # 0
    BY <1>20, <2>3 DEF ReleaseDec, DropCell
  <2> QED BY <1>20, <2>1, <2>2, <2>3, <2>4 DEF ReleaseDec
<1>21. CASE ClearPtr(t)
  <2>1. WeakUnit = 0 /\ WeakUnit' = 0 /\ UndoUnit' = UndoUnit
    BY <1>21 DEF ClearPtr
  <2>2. Held' = Held /\ WHeld' = WHeld
    BY <1>21 DEF ClearPtr, Held, WHeld
  <2> QED BY <1>21, <1>a, <2>1, <2>2 DEF ClearPtr
<1>22. CASE Delete(t)
  BY <1>22 DEF Held, WHeld, Delete
<1>23. CASE GetWeak(t)
  BY <1>23 DEF Held, WHeld, GetWeak
<1>24. CASE PoolLock(t)
  BY <1>24 DEF Held, WHeld, PoolLock
<1>25. CASE GetCheck(t)
  <2>1. Held' = Held /\ WHeld' = WHeld /\ UndoUnit' = UndoUnit
    BY <1>25 DEF GetCheck, Held, WHeld
  <2>2. CASE weak
    <3>1. WeakUnit' = WeakUnit
      BY <1>25, <2>2 DEF GetCheck
    <3> QED BY <1>25, <2>1, <2>2, <3>1, <1>a DEF GetCheck
  <2>3. CASE ~weak
    <3>1. Held # {}
      BY <1>25 DEF GetCheck, CellInv, Held
    <3>2. WHeld = {} /\ \A u \in Threads : pc[u] # "clearPtr"
      BY <3>1, <2>3 DEF CellInv, DeathInv
    <3>3. WeakUnit' = 1
      BY <1>25, <2>3, <3>2 DEF GetCheck
    <3> QED BY <1>25, <2>1, <2>3, <3>2, <3>3, <1>a DEF GetCheck
  <2> QED BY <2>2, <2>3
<1>26. CASE PoolUnlock(t)
  BY <1>26 DEF Held, WHeld, PoolUnlock
<1>27. CASE WeakInc(t)
  <2>1. PICK n \in WRefs \ WHeld : wholder' = [wholder EXCEPT ![n] = t]
    BY <1>27 DEF WeakInc, TakeCell
  <2>2. Cardinality(WHeld') = Cardinality(WHeld) + 1
    BY <2>1, <1>c
  <2>3. Held' = Held /\ UNCHANGED <<UndoUnit, WeakUnit>>
    BY <1>27 DEF WeakInc, Held
  <2>4. WeakUnit = 1
    BY <1>27 DEF WeakInc, CellInv, DeathInv, Held
  <2> QED BY <1>27, <1>a, <2>2, <2>3, <2>4 DEF WeakInc, TakeCell, CellInv
<1>28. CASE LockCell(t)
  BY <1>28 DEF Held, WHeld, LockCell
<1>29. CASE LoadObject(t)
  BY <1>29 DEF Held, WHeld, LoadObject
<1>30. CASE TestCount(t)
  BY <1>30 DEF Held, WHeld, TestCount
<1>31. CASE UpCount(t)
  <2>1. count \in Nat /\ pc[t] = "up" /\ count' = count + 1
        /\ UNCHANGED <<weak, cell, wcount, wholder>>
    BY <1>31 DEF UpCount
  <2>2. CASE count = 0
    <3>1. Held' = Held /\ WHeld' = WHeld /\ pc' = [pc EXCEPT ![t] = "undo"]
      BY <1>31, <2>1, <2>2 DEF UpCount, LockSucceeds, Held, WHeld
    <3>2. UndoUnit' = 1 /\ UndoUnit = 0 /\ WeakUnit' = WeakUnit
      BY <2>1, <3>1, <1>e
    <3> QED BY <2>1, <3>1, <3>2, <1>a
  <2>3. CASE count # 0
    <3>1. PICK n \in Refs \ Held : holder' = [holder EXCEPT ![n] = t]
      BY <1>31, <2>1, <2>3 DEF UpCount, LockSucceeds
    <3>2. Cardinality(Held') = Cardinality(Held) + 1 /\ WHeld' = WHeld
      BY <2>1, <3>1, <1>b DEF WHeld
    <3>3. pc' = [pc EXCEPT ![t] = "wUnlock"]
      BY <1>31, <2>1, <2>3 DEF UpCount, LockSucceeds
    <3>4. UNCHANGED <<UndoUnit, WeakUnit>>
      BY <2>1, <3>3
    <3> QED BY <2>1, <3>2, <3>4, <1>a
  <2> QED BY <2>2, <2>3
<1>32. CASE UndoCount(t)
  <2>1. UndoUnit = 1 /\ UndoUnit' = 0 /\ WeakUnit' = WeakUnit
    BY <1>32 DEF UndoCount, LockInv
  <2>2. Held' = Held /\ WHeld' = WHeld
    BY <1>32 DEF UndoCount, Held, WHeld
  <2> QED BY <1>32, <1>a, <2>1, <2>2 DEF UndoCount
<1>33. CASE UnlockCell(t)
  BY <1>33 DEF Held, WHeld, UnlockCell
<1>34. CASE \E u \in Threads : Move(t, u)
  <2>1. Held' = Held /\ WHeld' = WHeld /\ UNCHANGED <<UndoUnit, WeakUnit>>
    BY <1>34 DEF Move, Held, WHeld
  <2> QED BY <1>34, <2>1 DEF Move
<1>35. CASE \E u \in Threads : WeakCopy(t, u)
  <2>0. PICK u \in Threads : WeakCopy(t, u)
    BY <1>35
  <2>1. PICK n \in WRefs \ WHeld : wholder' = [wholder EXCEPT ![n] = u]
    BY <2>0 DEF WeakCopy, TakeCell
  <2>2. Cardinality(WHeld') = Cardinality(WHeld) + 1
    BY <2>1, <1>c
  <2>3. Held' = Held /\ UNCHANGED <<UndoUnit, WeakUnit>>
    BY <2>0 DEF WeakCopy, Held
  <2>4. WHeld # {}
    BY <2>0 DEF WeakCopy, WHeld
  <2> QED BY <2>0, <1>a, <2>2, <2>3, <2>4 DEF WeakCopy, TakeCell
<1> QED BY <1>1, <1>2, <1>3, <1>4, <1>5, <1>6, <1>7, <1>8, <1>9, <1>10, <1>11,
    <1>12, <1>13, <1>14, <1>15, <1>16, <1>17, <1>18, <1>19, <1>20, <1>21, <1>22, <1>23,
    <1>24, <1>25, <1>26, <1>27, <1>28, <1>29, <1>30, <1>31, <1>32, <1>33, <1>34, <1>35
    DEF Begin, Continue

\* The initial states satisfy the invariant.
LEMMA InitInv == Init => IInv
<1> SUFFICES ASSUME Init PROVE IInv
  OBVIOUS
<1> USE ConstantsAssumption DEF Init
<1>1. Held = {} /\ WHeld = {}
  BY DEF Held, WHeld
<1>2. Cardinality({}) = 0
  BY FS_EmptySet
<1>3. TypeOK /\ LockInv /\ ArgInv
  BY DEF TypeOK, LockInv, ArgInv, Steps, IncSteps, FreeSteps, ALockSteps,
      WLockSteps, ArgSteps
<1>4. BirthInv /\ DeathInv /\ CellInv
  BY <1>1 DEF BirthInv, DeathInv, CellInv, Blank, IsCreating, QuietSteps, IncSteps,
      FreeSteps,
              GetSteps, WLockSteps
<1>5. CountInv
  BY <1>1, <1>2 DEF CountInv, UndoUnit, WeakUnit
<1> QED BY <1>3, <1>4, <1>5 DEF IInv

\* Every step of the program keeps the invariant.
LEMMA StepInv == IInv /\ [Next]_vars => IInv'
<1>1. ASSUME IInv, NEW t \in Threads, Begin(t) \/ Continue(t) PROVE IInv'
  BY <1>1, TypeStep, LockStep, ArgStep, BirthStep, DeathStep, CellStep, CountStep DEF IInv
<1>2. ASSUME IInv, UNCHANGED vars PROVE IInv'
  <2>1. Held' = Held /\ WHeld' = WHeld /\ UNCHANGED <<UndoUnit, WeakUnit>>
    BY <1>2 DEF vars, Held, WHeld, UndoUnit, WeakUnit
  <2>2. TypeOK' /\ LockInv' /\ ArgInv'
    BY <1>2 DEF vars, IInv, TypeOK, LockInv, ArgInv
  <2>3. BirthInv' /\ DeathInv' /\ CellInv' /\ CountInv'
    BY <1>2, <2>1 DEF vars, IInv, BirthInv, DeathInv, CellInv, CountInv, Blank, IsCreating
  <2> QED BY <2>2, <2>3 DEF IInv
<1> QED BY <1>1, <1>2 DEF Next

\* The inductive invariant holds in every state of the program.
THEOREM Invariance == Spec => []IInv
BY InitInv, StepInv, PTL DEF Spec

\* Every variable keeps its type; in particular neither counter goes below zero.
THEOREM TypeCorrect == Spec => []TypeOK
<1>1. IInv => TypeOK
  BY DEF IInv
<1> QED BY <1>1, Invariance, PTL

\* Whatever the number of threads and references, no thread touches the object or
\* the cell after it was deleted, and no Ref or WeakRef dangles.
THEOREM MemorySafety == Spec => []NoUseAfterFree
<1>1. IInv => NoUseAfterFree
  <2> SUFFICES ASSUME IInv, NEW t \in Threads
               PROVE (TouchesObject(t) => mem = "live") /\ (TouchesCell(t) => cell = "live")
    BY DEF NoUseAfterFree
  <2> USE ConstantsAssumption DEF IInv
  <2>1. /\ WHeld # {} => cell = "live"
        /\ weak /\ (\A u \in Threads : pc[u] # "clearPtr") => cell = "live"
    BY Finite DEF CountInv, WeakUnit
  <2>2. TouchesObject(t) => mem = "live"
    <3>1. (\E r \in Refs : holder[r] = t) => mem = "live"
      BY DEF DeathInv, Held
    <3>2. pc[t] \in IncSteps \cup {"dec"} => mem = "live"
      BY DEF ArgInv, BirthInv, IsCreating, DeathInv, Held, TypeOK
    <3>3. pc[t] \in {"test", "up", "undo"} => Held # {} \/ \E u \in Threads : pc[u]
        \in FreeSteps
      <4>1. pc[t] \in {"test", "up", "undo"} => wobj /\ weak
        BY DEF CellInv
      <4>2. weak => mem # "deleted" /\ mem # "none"
        BY DEF DeathInv, BirthInv, Blank
      <4>3. \A u \in Threads : IsCreating(u) => ~weak
        BY DEF BirthInv, Blank
      <4> QED BY <4>1, <4>2, <4>3 DEF DeathInv, TypeOK
    <3>4. pc[t] \in FreeSteps \cup GetSteps => mem = "live"
      BY <3>1 DEF DeathInv, CellInv
    <3> QED BY <3>1, <3>2, <3>3, <3>4 DEF TouchesObject, DeathInv
  <2>3. TouchesCell(t) => cell = "live"
    <3>1. (\E w \in WRefs : wholder[w] = t) => cell = "live"
      BY <2>1 DEF WHeld
    <3>2. pc[t] \in WLockSteps \cup {"wLock"} => cell = "live"
      BY <3>1 DEF CellInv
    <3>3. pc[t] \in {"relLock", "relNull", "relUnlock", "relDec"} => cell = "live"
      BY <2>1 DEF DeathInv, FreeSteps
    <3>4. pc[t] = "weakInc" => cell = "live"
      <4>1. pc[t] = "weakInc" => Held # {} /\ weak
        BY DEF CellInv, Held, GetSteps
      <4>2. Held # {} => \A u \in Threads : pc[u] # "clearPtr"
        BY DEF DeathInv, FreeSteps
      <4> QED BY <4>1, <4>2, <2>1
    <3> QED BY <3>1, <3>2, <3>3, <3>4 DEF TouchesCell
  <2> QED BY <2>2, <2>3
<1> QED BY <1>1, Invariance, PTL

\* Both reference counts are exact in every state.
THEOREM ExactCounts == Spec => []CountsExact
<1>1. IInv => CountsExact
  <2> SUFFICES ASSUME IInv PROVE CountsExact
    OBVIOUS
  <2>1. UndoUnit = Cardinality(Undoing)
    <3>1. CASE Undoing = {}
      BY <3>1, FS_EmptySet DEF UndoUnit, Undoing
    <3>2. CASE Undoing # {}
      <4>1. PICK t \in Threads : pc[t] = "undo"
        BY <3>2 DEF Undoing
      <4>2. \A u \in Threads : pc[u] = "undo" => u = t
        BY <4>1 DEF IInv, LockInv, WLockSteps
      <4>3. Undoing = {t}
        BY <4>1, <4>2 DEF Undoing
      <4> QED BY <4>1, <4>3, FS_Singleton DEF UndoUnit
    <3> QED BY <3>1, <3>2
  <2> QED BY <2>1 DEF IInv, CountInv, WeakUnit, CountsExact
<1> QED BY <1>1, Invariance, PTL

\* free() is run by at most one thread, never while a Ref exists, always once none
\* does, and the cell does not outlive both the object and the WeakRefs.
THEOREM FreedOnce == Spec => []FreedOnceNoLeak
<1>1. IInv => FreedOnceNoLeak
  <2> SUFFICES ASSUME IInv PROVE FreedOnceNoLeak
    OBVIOUS
  <2>1. Cardinality(Freers) <= 1
    <3>1. CASE Freers = {}
      BY <3>1, FS_EmptySet
    <3>2. CASE Freers # {}
      <4>1. PICK t \in Threads : t \in Freers
        BY <3>2 DEF Freers
      <4>2. Freers = {t}
        BY <4>1 DEF Freers, IInv, DeathInv
      <4>3. Cardinality(Freers) = 1
        BY <4>2, FS_Singleton
      <4> QED BY <4>3
    <3> QED BY <3>1, <3>2
  <2>2. Freers # {} => Held = {}
    BY DEF Freers, IInv, DeathInv
  <2>3. mem = "live" /\ Held = {} => Freers # {} \/ Creating
    BY DEF Freers, Creating, IsCreating, IInv, DeathInv
  <2>4. mem = "deleted" /\ WHeld = {} => cell # "live"
    BY FS_EmptySet DEF IInv, DeathInv, CountInv, WeakUnit
  <2> QED BY <2>1, <2>2, <2>3, <2>4 DEF FreedOnceNoLeak
<1> QED BY <1>1, Invariance, PTL

\* CWeakRef::lock never refuses a Ref while one exists, and no Ref is made of an
\* object that is being freed.
THEOREM LockIsSharp == Spec => LockFailsOnlyWhenDead
<1>1. ASSUME IInv, NEW t \in Threads, Begin(t) \/ Continue(t)
      PROVE /\ cell = "live" /\ ~wobj => Held = {}
            /\ \A u \in Threads :
                 /\ pc[u] \in {"load", "test", "undo"} /\ pc'[u] = "wUnlock" => Held = {}
                 /\ pc[u] = "up" /\ pc'[u] = "undo" => Held = {}
            /\ Freers # {} => Held' = {}
  <2>1. cell = "live" /\ ~wobj => Held = {}
    BY <1>1 DEF IInv, CellInv
  <2>2. Held # {} => count >= 1
    BY <1>1, Finite
  <2>3. \A u \in Threads : pc[u] = "load" /\ Held # {} => wobj
    BY <1>1, ConstantsAssumption DEF IInv, CellInv, WHeld, WLockSteps
  <2>4. \A u \in Threads : pc[u] = "undo" => Held = {}
    BY <1>1 DEF IInv, CellInv
  <2>5. Freers # {} => Held = {} /\ \A u \in Threads : ~IsCreating(u)
    BY <1>1 DEF IInv, DeathInv, BirthInv, Freers, QuietSteps, FreeSteps, IsCreating,
        IncSteps
  <2>6. pc[t] = "up" => (Held = {} <=> count = 0) /\ count \in Nat
    BY <1>1, LockerAlone DEF IInv, TypeOK
  <2>7. \A u \in Threads : u # t => pc'[u] = pc[u]
    BY <1>1 DEF Begin, Continue, IInv, TypeOK, Go, DropRef,
       New, Copy, Drop, StartLoad, StartStore, StartWeak, WeakDrop, StartLock,
       IncTest, Inc, AcquireALock, Retain, SwapPtr, ReleaseALock, DropBefore,
       ClearWeak, ReleaseLock, ReleaseNull, ReleaseUnlock, ReleaseDec,
       ClearPtr, Delete, GetWeak, PoolLock, GetCheck, PoolUnlock, WeakInc,
       LockCell, LoadObject, TestCount, UpCount, UndoCount, UnlockCell, Move,
       WeakCopy
  <2>8. /\ pc[t] = "load" => LoadObject(t)
        /\ pc[t] = "test" => TestCount(t)
        /\ pc[t] = "up" => UpCount(t)
    BY <1>1 DEF Begin, Continue,
       New, Copy, Drop, StartLoad, StartStore, StartWeak, WeakDrop, StartLock,
       IncTest, Inc, AcquireALock, Retain, SwapPtr, ReleaseALock, DropBefore,
       ClearWeak, ReleaseLock, ReleaseNull, ReleaseUnlock, ReleaseDec,
       ClearPtr, Delete, GetWeak, PoolLock, GetCheck, PoolUnlock, WeakInc,
       LockCell, LoadObject, TestCount, UpCount, UndoCount, UnlockCell, Move,
       WeakCopy
  <2>9. \A u \in Threads : pc[u] \in {"load", "test"} /\ pc'[u] = "wUnlock" => Held = {}
    BY <1>1, <2>2, <2>3, <2>7, <2>8 DEF LoadObject, TestCount, Go, IInv, TypeOK
  <2>10. \A u \in Threads : pc[u] = "up" /\ pc'[u] = "undo" => Held = {}
    BY <1>1, <2>6, <2>7, <2>8 DEF UpCount, LockSucceeds, Go, IInv, TypeOK
  <2>11. Freers # {} => Held' = {}
    <3> SUFFICES ASSUME Freers # {} PROVE Held' = {}
      OBVIOUS
    <3>1. \A n \in Refs : holder[n] = Null
      BY <2>5 DEF Held
    <3>2. \A n \in Refs : holder'[n] = Null
      BY <1>1, <2>5, <2>6, <3>1, ConstantsAssumption
         DEF Begin, Continue, LockSucceeds, IInv, TypeOK, ArgInv, IsCreating,
             IncSteps, DropRef,
             New, Copy, Drop, StartLoad, StartStore, StartWeak, WeakDrop,
             StartLock, IncTest, Inc, AcquireALock, Retain, SwapPtr,
             ReleaseALock, DropBefore, ClearWeak, ReleaseLock, ReleaseNull,
             ReleaseUnlock, ReleaseDec, ClearPtr, Delete, GetWeak, PoolLock,
             GetCheck, PoolUnlock, WeakInc, LockCell, LoadObject, TestCount,
             UpCount, UndoCount, UnlockCell, Move, WeakCopy
    <3> QED BY <3>2 DEF Held
  <2> QED BY <2>1, <2>4, <2>9, <2>10, <2>11
<1>2. IInv /\ [Next]_vars =>
        [/\ cell = "live" /\ ~wobj => Held = {}
         /\ \A t \in Threads :
              /\ pc[t] \in {"load", "test", "undo"} /\ pc'[t] = "wUnlock" => Held = {}
              /\ pc[t] = "up" /\ pc'[t] = "undo" => Held = {}
         /\ Freers # {} => Held' = {}]_vars
  BY <1>1 DEF Next
<1> QED BY <1>2, Invariance, PTL DEF Spec, LockFailsOnlyWhenDead

\* A step of the counters is a step of shared ownership: it makes a Ref from an
\* existing one, drops one, reclaims the object, or is not seen by a client.
LEMMA OwnershipStep ==
    ASSUME IInv, NEW t \in Threads, Begin(t) \/ Continue(t)
    PROVE Ownership!Next \/ UNCHANGED <<Held, Phase>>
<1>a. /\ Held # {} => mem = "live" /\ \A u \in Threads : ~IsCreating(u)
      /\ pc[t] \in FreeSteps => mem = "live" /\ Held = {} /\ \A u \in Threads :
          ~IsCreating(u)
      /\ \A u \in Threads : IsCreating(u) => mem = "live" /\ Held = {}
      /\ \A u \in Threads \ {t} : IsCreating(t) => ~IsCreating(u)
  BY DEF IInv, BirthInv, DeathInv, Blank, QuietSteps, FreeSteps, IsCreating, IncSteps
<1>b. \A n \in Refs \ Held : holder' = [holder EXCEPT ![n] = t] => Held' = Held \cup {n}
  BY AddRef
<1>c. \A r \in Refs : holder[r] = t /\ holder' = [holder EXCEPT ![r] = Null]
                        => Held' = Held \ {r} /\ r \in Held
  BY ConstantsAssumption DEF IInv, TypeOK, Held
<1>d. pc[t] = "up" => (Held = {} <=> count = 0) /\ count \in Nat
  BY LockerAlone DEF IInv, TypeOK
<1>e. TypeOK /\ ArgInv /\ (mem = "none" => Held = {})
  BY DEF IInv, BirthInv, Blank
<1>f. Creating <=> \E u \in Threads : IsCreating(u)
  BY DEF Creating, IsCreating
<1>g. Creating' <=> \E u \in Threads : IsCreating(u)'
  BY DEF Creating, IsCreating
<1> USE DEF Ownership!Next, Ownership!Birth, Ownership!Share, Ownership!DropOne,
            Ownership!Reclaim, Phase
<1>1. CASE New(t)
  <2>1. UNCHANGED Held /\ mem = "none" /\ mem' = "live"
    BY <1>1 DEF New, Held
  <2>2. IsCreating(t)'
    BY <1>1, <1>e DEF New, Go, IsCreating, IncSteps, TypeOK
  <2> QED BY <2>1, <2>2, <1>g
<1>2. CASE Inc(t)
  <2>1. PICK n \in Refs \ Held : holder' = [holder EXCEPT ![n] = t]
    BY <1>2 DEF Inc
  <2>2. Held' = Held \cup {n} /\ mem' = mem
    BY <1>2, <2>1, <1>b DEF Inc
  <2>3. ~IsCreating(t)' /\ \A u \in Threads \ {t} : IsCreating(u)' = IsCreating(u)
    BY <1>2, <1>e DEF Inc, Go, IsCreating, IncSteps, TypeOK
  <2>4. CASE IsCreating(t)
    <3>1. mem = "live" /\ Held = {} /\ Creating /\ ~Creating'
      BY <2>3, <2>4, <1>a, <1>f, <1>g
    <3> QED BY <2>2, <3>1
  <2>5. CASE ~IsCreating(t)
    <3>1. Held # {}
      BY <1>2, <2>5, <1>e, ConstantsAssumption DEF Inc, IsCreating, IncSteps,
          ArgInv, TypeOK, Held
    <3>2. ~Creating /\ ~Creating' /\ mem = "live"
      BY <2>3, <3>1, <1>a, <1>f, <1>g
    <3> QED BY <2>2, <3>1, <3>2
  <2> QED BY <2>4, <2>5
<1>3. CASE Drop(t) \/ DropBefore(t)
  <2>1. PICK r \in Refs : DropRef(t, r)
    BY <1>3, <1>e DEF Drop, DropBefore, ArgInv, TypeOK
  <2>2. Held' = Held \ {r} /\ r \in Held /\ mem' = mem
    BY <2>1, <1>c DEF DropRef
  <2>3. ~IsCreating(t)' /\ \A u \in Threads \ {t} : IsCreating(u)' = IsCreating(u)
    BY <2>1, <1>e DEF DropRef, Go, IsCreating, IncSteps, TypeOK
  <2>4. ~Creating /\ ~Creating'
    BY <2>2, <2>3, <1>a, <1>f, <1>g
  <2> QED BY <2>2, <2>4
<1>4. CASE UpCount(t)
  <2>1. mem' = mem /\ ~IsCreating(t) /\ ~IsCreating(t)'
        /\ \A u \in Threads \ {t} : IsCreating(u)' = IsCreating(u)
    BY <1>4, <1>e DEF UpCount, Go, IsCreating, IncSteps, TypeOK
  <2>2. Creating' <=> Creating
    BY <2>1, <1>f, <1>g
  <2>3. CASE count = 0
    BY <1>4, <2>1, <2>2, <2>3 DEF UpCount, LockSucceeds, Held
  <2>4. CASE count # 0
    <3>1. PICK n \in Refs \ Held : holder' = [holder EXCEPT ![n] = t]
      BY <1>4, <2>4, <1>d DEF UpCount, LockSucceeds
    <3>2. Held' = Held \cup {n} /\ Held # {}
      BY <1>4, <2>4, <3>1, <1>b, <1>d DEF UpCount
    <3> QED BY <2>1, <2>2, <3>2
  <2> QED BY <2>3, <2>4
<1>5. CASE Delete(t)
  <2>1. mem = "live" /\ Held = {} /\ ~Creating
    BY <1>5, <1>a, <1>f DEF Delete, FreeSteps
  <2>2. Held' = Held /\ mem' = "deleted"
    BY <1>5 DEF Delete, Held
  <2> QED BY <2>1, <2>2
<1>6. CASE SwapPtr(t) \/ \E u \in Threads : Move(t, u)
  <2>1. UNCHANGED mem /\ Held' = Held
    <3>1. pc[t] = "swap" /\ arg[t] # Null => holder[arg[t]] = t
      BY <1>e DEF ArgInv, IncSteps
    <3> QED BY <1>6, <3>1, <1>e, ConstantsAssumption DEF SwapPtr, Move, TypeOK, Held
  <2>2. \A u \in Threads : IsCreating(u)' = IsCreating(u)
    BY <1>6, <1>e DEF SwapPtr, Move, Go, IsCreating, IncSteps, TypeOK
  <2> QED BY <2>1, <2>2, <1>f, <1>g
<1>7. CASE Copy(t) \/ StartLoad(t) \/ StartStore(t) \/ StartWeak(t) \/ WeakDrop(t) \/
           StartLock(t) \/ IncTest(t) \/ AcquireALock(t) \/ Retain(t) \/
           ReleaseALock(t) \/ ClearWeak(t) \/ ReleaseLock(t) \/ ReleaseNull(t) \/
           ReleaseUnlock(t) \/ ReleaseDec(t) \/ ClearPtr(t) \/ GetWeak(t) \/
           PoolLock(t) \/ GetCheck(t) \/ PoolUnlock(t) \/ WeakInc(t) \/ LockCell(t) \/
           LoadObject(t) \/ TestCount(t) \/ UndoCount(t) \/ UnlockCell(t)
           \/ \E u \in Threads : WeakCopy(t, u)
  <2>1. UNCHANGED <<holder, mem>>
    BY <1>7 DEF Copy, StartLoad, StartStore, StartWeak, WeakDrop, StartLock, IncTest,
           AcquireALock, Retain, ReleaseALock, ClearWeak, ReleaseLock, ReleaseNull,
           ReleaseUnlock, ReleaseDec, ClearPtr, GetWeak, PoolLock, GetCheck,
           PoolUnlock, WeakInc, LockCell, LoadObject, TestCount, UndoCount,
               UnlockCell, WeakCopy
  <2>2. \A u \in Threads : IsCreating(u)' = IsCreating(u)
    <3>1. \A u \in Threads \ {t} : IsCreating(u)' = IsCreating(u)
      BY <1>7, <1>e DEF IsCreating, Go, TypeOK, Copy, StartLoad, StartStore,
          StartWeak, WeakDrop, StartLock, IncTest,
           AcquireALock, Retain, ReleaseALock, ClearWeak, ReleaseLock, ReleaseNull,
           ReleaseUnlock, ReleaseDec, ClearPtr, GetWeak, PoolLock, GetCheck,
           PoolUnlock, WeakInc, LockCell, LoadObject, TestCount, UndoCount,
               UnlockCell, WeakCopy
    <3>2. IsCreating(t)' = IsCreating(t)
      BY <1>7, <1>e, ConstantsAssumption DEF IsCreating, IncSteps, Go, TypeOK, Copy,
          StartLoad, StartStore, StartWeak, WeakDrop, StartLock, IncTest,
           AcquireALock, Retain, ReleaseALock, ClearWeak, ReleaseLock, ReleaseNull,
           ReleaseUnlock, ReleaseDec, ClearPtr, GetWeak, PoolLock, GetCheck,
           PoolUnlock, WeakInc, LockCell, LoadObject, TestCount, UndoCount,
               UnlockCell, WeakCopy
    <3> QED BY <3>1, <3>2
  <2> QED BY <2>1, <2>2, <1>f, <1>g DEF Held
<1> QED BY <1>1, <1>2, <1>3, <1>4, <1>5, <1>6, <1>7 DEF Begin, Continue

\* The reference counts implement SharedOwnership (its safety half): the atomic
\* steps of any number of threads, seen through the Refs that exist and the object
\* that is constructed or deleted, are births, shares, drops and one reclaim.
THEOREM RefinesOwnership == Spec => Ownership!SafeSpec
<1>1. Init => Ownership!Init
  BY DEF Init, Ownership!Init, Held, Phase
<1>2. IInv /\ [Next]_vars => [Ownership!Next]_(Ownership!vars)
  <2>1. UNCHANGED vars => UNCHANGED <<Held, Phase>>
    BY DEF vars, Held, Phase, Creating
  <2> QED BY <2>1, OwnershipStep DEF Next, Ownership!vars
<1> QED BY <1>1, <1>2, Invariance, PTL DEF Spec, Ownership!SafeSpec

-----------------------------------------------------------------------------
(* ReadWriteSpinLock                                                       *)
\* Steps between lock and unlock of m_lockReading.
Guarded == {"rInc", "rTest", "rWait", "rUnlock", "uDec", "uTest", "uRelease", "uUnlock"}
           \cup RW!TryReadSteps

CountedSteps == {"rTest", "rWait", "rUnlock", "tTest", "tTry", "tReset", "tUnlock",
                 "reading", "uLock", "uDec"}

\* m_lockReading is taken exactly while one thread is between lock and unlock.
RWGuardInv ==
    /\ lockReading <=> \E t \in Threads : rwPc[t] \in Guarded
    /\ \A t, u \in Threads : rwPc[t] \in Guarded /\ rwPc[u] \in Guarded => t = u

\* The count at the steps that depend on it.
RWStepInv ==
    /\ nReading = Cardinality(RW!Counted)
    /\ \A t \in Threads :
         /\ rwPc[t] \in {"rWait", "tTry", "tReset"} => nReading = 1
         /\ rwPc[t] = "uRelease" => nReading = 0

Returning == \/ \E t \in Threads : rwPc[t] = "uRelease"
             \/ nReading = 0 /\ \E t \in Threads : rwPc[t] = "uTest"

\* m_lockWriting has one owner: a writer, the readers together, or the last of
\* them on its way out.
RWWriteInv ==
    /\ lockWriting <=> RW!Writers # {} \/ RW!Readers # {} \/ Returning
    /\ \A t, u \in RW!Writers : t = u
    /\ RW!Writers # {} => RW!Readers = {} /\ ~Returning
    /\ RW!Readers # {} => ~Returning

RWIInv == RW!TypeOK /\ RWGuardInv /\ RWStepInv /\ RWWriteInv

\* One step of thread t.
RWStep(t) == RW!Proceed(t) \/ RW!Spin(t) \/ RW!Release(t) \/ RW!Begin(t)

\* The instance counts as this module does.
LEMMA SameCardinality == ASSUME NEW S PROVE RW!Cardinality(S) = Cardinality(S)
BY DEF RW!Cardinality, Cardinality

\* The number of counted threads follows the increments and the decrements.
LEMMA CountedChange ==
    ASSUME RW!TypeOK, NEW t \in Threads, NEW to \in RW!Steps, rwPc' = [rwPc EXCEPT ![t] = to]
    PROVE /\ IsFiniteSet(RW!Counted) /\ Cardinality(RW!Counted) \in Nat
          /\ RW!Counted = {} <=> Cardinality(RW!Counted) = 0
          /\ rwPc[t] \in CountedSteps <=> t \in RW!Counted
          /\ to \in CountedSteps /\ rwPc[t] \notin CountedSteps
                => Cardinality(RW!Counted') = Cardinality(RW!Counted) + 1
          /\ to \notin CountedSteps /\ rwPc[t] \in CountedSteps
                => Cardinality(RW!Counted') = Cardinality(RW!Counted) - 1
          /\ (to \in CountedSteps <=> rwPc[t] \in CountedSteps)
                => Cardinality(RW!Counted') = Cardinality(RW!Counted)
<1>1. IsFiniteSet(RW!Counted)
  BY ConstantsAssumption, FS_Subset DEF RW!Counted
<1>2. RW!Counted' = IF to \in CountedSteps THEN RW!Counted \cup {t} ELSE RW!Counted \ {t}
  BY DEF RW!Counted, CountedSteps, RW!TypeOK
<1>3. t \in RW!Counted <=> rwPc[t] \in CountedSteps
  BY DEF RW!Counted, CountedSteps
<1>4. Cardinality(RW!Counted) \in Nat /\ (RW!Counted = {} <=> Cardinality(RW!Counted) = 0)
  BY <1>1, FS_EmptySet, FS_CardinalityType
<1>5. t \notin RW!Counted => Cardinality(RW!Counted \cup {t}) = Cardinality(RW!Counted) + 1
  BY <1>1, FS_AddElement
<1>6. t \in RW!Counted => Cardinality(RW!Counted \ {t}) = Cardinality(RW!Counted) - 1
  BY <1>1, FS_RemoveElement
<1>7. CASE to \in CountedSteps
  BY <1>1, <1>2, <1>3, <1>4, <1>5, <1>7
<1>8. CASE to \notin CountedSteps
  BY <1>1, <1>2, <1>3, <1>4, <1>6, <1>8
<1> QED BY <1>7, <1>8

\* A thread between lock and unlock of m_lockReading knows the other counted
\* threads: all of them have the lock for reading, and there are some exactly when
\* the count exceeds its own share.
LEMMA Others ==
    ASSUME RWIInv, NEW t \in Threads, rwPc[t] \in Guarded
    PROVE /\ nReading \in Nat
          /\ \A u \in RW!Counted \ {t} : rwPc[u] \in {"reading", "uLock"} /\ u \in RW!Readers
          /\ t \in RW!Counted <=> rwPc[t] \in CountedSteps
          /\ t \in RW!Counted => nReading >= 1
          /\ t \in RW!Counted => (nReading = 1 <=> RW!Counted \ {t} = {})
          /\ t \notin RW!Counted => (nReading = 0 <=> RW!Counted \ {t} = {})
<1>1. IsFiniteSet(RW!Counted)
  BY ConstantsAssumption, FS_Subset DEF RW!Counted
<1>2. \A u \in RW!Counted \ {t} : rwPc[u] \in {"reading", "uLock"} /\ u \in RW!Readers
  BY DEF RWIInv, RWGuardInv, RW!Counted, Guarded, RW!TryReadSteps, RW!Readers, RW!HasRead
<1>3. t \in RW!Counted <=> rwPc[t] \in CountedSteps
  BY DEF RW!Counted, CountedSteps
<1>4. nReading = Cardinality(RW!Counted) /\ nReading \in Nat
  BY DEF RWIInv, RWStepInv, RW!TypeOK
<1>5. CASE t \in RW!Counted
  <2>1. Cardinality(RW!Counted \ {t}) = nReading - 1 /\ IsFiniteSet(RW!Counted \ {t})
    BY <1>1, <1>4, <1>5, FS_RemoveElement
  <2>2. RW!Counted # {} /\ nReading # 0
    BY <1>1, <1>4, <1>5, FS_EmptySet
  <2>3. RW!Counted \ {t} = {} <=> nReading - 1 = 0
    BY <2>1, FS_EmptySet
  <2> QED BY <1>2, <1>3, <1>4, <1>5, <2>2, <2>3
<1>6. CASE t \notin RW!Counted
  <2>1. RW!Counted \ {t} = RW!Counted
    BY <1>6
  <2> QED BY <1>1, <1>2, <1>3, <1>4, <1>6, <2>1, FS_EmptySet
<1> QED BY <1>5, <1>6

\* Every step keeps the types.
LEMMA RWTypeStep ==
    ASSUME RWIInv, NEW t \in Threads, RWStep(t)
    PROVE  RW!TypeOK'
<1>a. rwPc[t] = "uDec" => nReading >= 1
  BY Others DEF Guarded, CountedSteps
<1> USE DEF RWIInv, RW!TypeOK, RW!Go, RW!TakeReading, RW!FreeReading, RW!TakeWriting,
  RW!FreeWriting,
    RW!Nothing, RW!SetReading, RW!Steps, RW!LockReadSteps, RW!TryReadSteps, RW!UnlockReadSteps
<1>1. CASE RW!RInc(t)
  BY <1>1 DEF RW!RInc
<1>2. CASE RW!RTest(t)
  BY <1>2 DEF RW!RTest
<1>3. CASE RW!RUnlock(t)
  BY <1>3 DEF RW!RUnlock
<1>4. CASE RW!TInc(t)
  BY <1>4 DEF RW!TInc
<1>5. CASE RW!TTest(t)
  BY <1>5 DEF RW!TTest
<1>6. CASE RW!TTry(t)
  BY <1>6 DEF RW!TTry
<1>7. CASE RW!TReset(t)
  BY <1>7 DEF RW!TReset
<1>8. CASE RW!TFail(t)
  BY <1>8 DEF RW!TFail
<1>9. CASE RW!TUnlock(t)
  BY <1>9 DEF RW!TUnlock
<1>10. CASE RW!UDec(t)
  <2>1. nReading >= 1
    BY <1>10, <1>a DEF RW!UDec, Guarded, CountedSteps
  <2> QED BY <1>10, <2>1 DEF RW!UDec
<1>11. CASE RW!UTest(t)
  BY <1>11 DEF RW!UTest
<1>12. CASE RW!URelease(t)
  BY <1>12 DEF RW!URelease
<1>13. CASE RW!UUnlock(t)
  BY <1>13 DEF RW!UUnlock
<1>14. CASE RW!RLock(t)
  BY <1>14 DEF RW!RLock
<1>15. CASE RW!RWait(t)
  BY <1>15 DEF RW!RWait
<1>16. CASE RW!ULock(t)
  BY <1>16 DEF RW!ULock
<1>17. CASE RW!WWait(t)
  BY <1>17 DEF RW!WWait
<1>18. CASE RW!UnlockRead(t)
  BY <1>18 DEF RW!UnlockRead
<1>19. CASE RW!UnlockWrite(t)
  BY <1>19 DEF RW!UnlockWrite
<1>20. CASE RW!LockRead(t)
  BY <1>20 DEF RW!LockRead
<1>21. CASE RW!TryLockRead(t)
  BY <1>21 DEF RW!TryLockRead
<1>22. CASE RW!LockWrite(t)
  BY <1>22 DEF RW!LockWrite
<1>23. CASE RW!TryLockWrite(t)
  BY <1>23 DEF RW!TryLockWrite
<1> QED BY <1>1, <1>2, <1>3, <1>4, <1>5, <1>6, <1>7, <1>8, <1>9, <1>10, <1>11,
    <1>12, <1>13, <1>14, <1>15, <1>16, <1>17, <1>18, <1>19, <1>20, <1>21, <1>22, <1>23
    DEF RWStep, RW!Proceed, RW!Spin, RW!Release, RW!Begin

\* Every step keeps the owner of m_lockReading.
LEMMA RWGuardStep ==
    ASSUME RWIInv, NEW t \in Threads, RWStep(t)
    PROVE  RWGuardInv'
<1> USE DEF RWIInv, RW!TypeOK, RWGuardInv, Guarded, RW!Go, RW!TakeReading, RW!FreeReading,
    RW!TakeWriting, RW!FreeWriting, RW!Nothing, RW!SetReading, RW!Steps, RW!LockReadSteps,
      RW!TryReadSteps,
    RW!UnlockReadSteps
<1>1. CASE RW!RInc(t)
  BY <1>1 DEF RW!RInc
<1>2. CASE RW!RTest(t)
  BY <1>2 DEF RW!RTest
<1>3. CASE RW!RUnlock(t)
  BY <1>3 DEF RW!RUnlock
<1>4. CASE RW!TInc(t)
  BY <1>4 DEF RW!TInc
<1>5. CASE RW!TTest(t)
  BY <1>5 DEF RW!TTest
<1>6. CASE RW!TTry(t)
  BY <1>6 DEF RW!TTry
<1>7. CASE RW!TReset(t)
  BY <1>7 DEF RW!TReset
<1>8. CASE RW!TFail(t)
  BY <1>8 DEF RW!TFail
<1>9. CASE RW!TUnlock(t)
  BY <1>9 DEF RW!TUnlock
<1>10. CASE RW!UDec(t)
  BY <1>10 DEF RW!UDec
<1>11. CASE RW!UTest(t)
  BY <1>11 DEF RW!UTest
<1>12. CASE RW!URelease(t)
  BY <1>12 DEF RW!URelease
<1>13. CASE RW!UUnlock(t)
  BY <1>13 DEF RW!UUnlock
<1>14. CASE RW!RLock(t)
  BY <1>14 DEF RW!RLock
<1>15. CASE RW!RWait(t)
  BY <1>15 DEF RW!RWait
<1>16. CASE RW!ULock(t)
  BY <1>16 DEF RW!ULock
<1>17. CASE RW!WWait(t)
  BY <1>17 DEF RW!WWait
<1>18. CASE RW!UnlockRead(t)
  BY <1>18 DEF RW!UnlockRead
<1>19. CASE RW!UnlockWrite(t)
  BY <1>19 DEF RW!UnlockWrite
<1>20. CASE RW!LockRead(t)
  BY <1>20 DEF RW!LockRead
<1>21. CASE RW!TryLockRead(t)
  BY <1>21 DEF RW!TryLockRead
<1>22. CASE RW!LockWrite(t)
  BY <1>22 DEF RW!LockWrite
<1>23. CASE RW!TryLockWrite(t)
  BY <1>23 DEF RW!TryLockWrite
<1> QED BY <1>1, <1>2, <1>3, <1>4, <1>5, <1>6, <1>7, <1>8, <1>9, <1>10, <1>11,
    <1>12, <1>13, <1>14, <1>15, <1>16, <1>17, <1>18, <1>19, <1>20, <1>21, <1>22, <1>23
    DEF RWStep, RW!Proceed, RW!Spin, RW!Release, RW!Begin

\* Every step keeps the count exact.
LEMMA RWCountStep ==
    ASSUME RWIInv, NEW t \in Threads, RWStep(t)
    PROVE  RWStepInv'
<1>a. \A to \in RW!Steps : rwPc' = [rwPc EXCEPT ![t] = to] =>
          /\ Cardinality(RW!Counted) \in Nat
          /\ to \in CountedSteps /\ rwPc[t] \notin CountedSteps
                => Cardinality(RW!Counted') = Cardinality(RW!Counted) + 1
          /\ to \notin CountedSteps /\ rwPc[t] \in CountedSteps
                => Cardinality(RW!Counted') = Cardinality(RW!Counted) - 1
          /\ (to \in CountedSteps <=> rwPc[t] \in CountedSteps)
                => Cardinality(RW!Counted') = Cardinality(RW!Counted)
  BY CountedChange DEF RWIInv

<1> USE DEF RWIInv, RW!TypeOK, RWGuardInv, RWStepInv, Guarded, CountedSteps, RW!Go, RW!TakeReading,
    RW!FreeReading, RW!TakeWriting, RW!FreeWriting, RW!Nothing, RW!SetReading, RW!Steps,
      RW!LockReadSteps,
    RW!TryReadSteps, RW!UnlockReadSteps
<1>1. CASE RW!RInc(t)
  <2>1. Cardinality(RW!Counted') = Cardinality(RW!Counted) + 1
    BY <1>1, <1>a DEF RW!RInc
  <2> QED BY <1>1, <2>1, <1>a DEF RW!RInc
<1>2. CASE RW!RTest(t)
  <2>1. Cardinality(RW!Counted') = Cardinality(RW!Counted) /\ nReading' = nReading
    BY <1>2, <1>a DEF RW!RTest
  <2> QED BY <1>2, <2>1 DEF RW!RTest
<1>3. CASE RW!RUnlock(t)
  <2>1. Cardinality(RW!Counted') = Cardinality(RW!Counted) /\ nReading' = nReading
    BY <1>3, <1>a DEF RW!RUnlock
  <2> QED BY <1>3, <2>1 DEF RW!RUnlock
<1>4. CASE RW!TInc(t)
  <2>1. Cardinality(RW!Counted') = Cardinality(RW!Counted) + 1
    BY <1>4, <1>a DEF RW!TInc
  <2> QED BY <1>4, <2>1, <1>a DEF RW!TInc
<1>5. CASE RW!TTest(t)
  <2>1. Cardinality(RW!Counted') = Cardinality(RW!Counted) /\ nReading' = nReading
    BY <1>5, <1>a DEF RW!TTest
  <2> QED BY <1>5, <2>1 DEF RW!TTest
<1>6. CASE RW!TTry(t)
  <2>1. Cardinality(RW!Counted') = Cardinality(RW!Counted) /\ nReading' = nReading
    BY <1>6, <1>a DEF RW!TTry
  <2> QED BY <1>6, <2>1 DEF RW!TTry
<1>7. CASE RW!TReset(t)
  <2>1. Cardinality(RW!Counted') = Cardinality(RW!Counted) - 1
    BY <1>7, <1>a DEF RW!TReset
  <2> QED BY <1>7, <2>1, <1>a DEF RW!TReset
<1>8. CASE RW!TFail(t)
  <2>1. Cardinality(RW!Counted') = Cardinality(RW!Counted) /\ nReading' = nReading
    BY <1>8, <1>a DEF RW!TFail
  <2> QED BY <1>8, <2>1 DEF RW!TFail
<1>9. CASE RW!TUnlock(t)
  <2>1. Cardinality(RW!Counted') = Cardinality(RW!Counted) /\ nReading' = nReading
    BY <1>9, <1>a DEF RW!TUnlock
  <2> QED BY <1>9, <2>1 DEF RW!TUnlock
<1>10. CASE RW!UDec(t)
  <2>1. Cardinality(RW!Counted') = Cardinality(RW!Counted) - 1
    BY <1>10, <1>a DEF RW!UDec
  <2> QED BY <1>10, <2>1, <1>a DEF RW!UDec
<1>11. CASE RW!UTest(t)
  <2>1. CASE nReading = 0
    <3>1. Cardinality(RW!Counted') = Cardinality(RW!Counted) /\ nReading' = nReading
      BY <1>11, <1>a, <2>1 DEF RW!UTest
    <3> QED BY <1>11, <2>1, <3>1 DEF RW!UTest
  <2>2. CASE nReading # 0
    <3>1. Cardinality(RW!Counted') = Cardinality(RW!Counted) /\ nReading' = nReading
      BY <1>11, <1>a, <2>2 DEF RW!UTest
    <3> QED BY <1>11, <2>2, <3>1 DEF RW!UTest
  <2> QED BY <2>1, <2>2
<1>12. CASE RW!URelease(t)
  <2>1. Cardinality(RW!Counted') = Cardinality(RW!Counted) /\ nReading' = nReading
    BY <1>12, <1>a DEF RW!URelease
  <2> QED BY <1>12, <2>1 DEF RW!URelease
<1>13. CASE RW!UUnlock(t)
  <2>1. Cardinality(RW!Counted') = Cardinality(RW!Counted) /\ nReading' = nReading
    BY <1>13, <1>a DEF RW!UUnlock
  <2> QED BY <1>13, <2>1 DEF RW!UUnlock
<1>14. CASE RW!RLock(t)
  <2>1. Cardinality(RW!Counted') = Cardinality(RW!Counted) /\ nReading' = nReading
    BY <1>14, <1>a DEF RW!RLock
  <2> QED BY <1>14, <2>1 DEF RW!RLock
<1>15. CASE RW!RWait(t)
  <2>1. Cardinality(RW!Counted') = Cardinality(RW!Counted) /\ nReading' = nReading
    BY <1>15, <1>a DEF RW!RWait
  <2> QED BY <1>15, <2>1 DEF RW!RWait
<1>16. CASE RW!ULock(t)
  <2>1. Cardinality(RW!Counted') = Cardinality(RW!Counted) /\ nReading' = nReading
    BY <1>16, <1>a DEF RW!ULock
  <2> QED BY <1>16, <2>1 DEF RW!ULock
<1>17. CASE RW!WWait(t)
  <2>1. Cardinality(RW!Counted') = Cardinality(RW!Counted) /\ nReading' = nReading
    BY <1>17, <1>a DEF RW!WWait
  <2> QED BY <1>17, <2>1 DEF RW!WWait
<1>18. CASE RW!UnlockRead(t)
  <2>1. Cardinality(RW!Counted') = Cardinality(RW!Counted) /\ nReading' = nReading
    BY <1>18, <1>a DEF RW!UnlockRead
  <2> QED BY <1>18, <2>1 DEF RW!UnlockRead
<1>19. CASE RW!UnlockWrite(t)
  <2>1. Cardinality(RW!Counted') = Cardinality(RW!Counted) /\ nReading' = nReading
    BY <1>19, <1>a DEF RW!UnlockWrite
  <2> QED BY <1>19, <2>1 DEF RW!UnlockWrite
<1>20. CASE RW!LockRead(t)
  <2>1. Cardinality(RW!Counted') = Cardinality(RW!Counted) /\ nReading' = nReading
    BY <1>20, <1>a DEF RW!LockRead
  <2> QED BY <1>20, <2>1 DEF RW!LockRead
<1>21. CASE RW!TryLockRead(t)
  <2>1. Cardinality(RW!Counted') = Cardinality(RW!Counted) /\ nReading' = nReading
    BY <1>21, <1>a DEF RW!TryLockRead
  <2> QED BY <1>21, <2>1 DEF RW!TryLockRead
<1>22. CASE RW!LockWrite(t)
  <2>1. Cardinality(RW!Counted') = Cardinality(RW!Counted) /\ nReading' = nReading
    BY <1>22, <1>a DEF RW!LockWrite
  <2> QED BY <1>22, <2>1 DEF RW!LockWrite
<1>23. CASE RW!TryLockWrite(t)
  <2>1. Cardinality(RW!Counted') = Cardinality(RW!Counted) /\ nReading' = nReading
    BY <1>23, <1>a DEF RW!TryLockWrite
  <2> QED BY <1>23, <2>1 DEF RW!TryLockWrite
<1> QED BY <1>1, <1>2, <1>3, <1>4, <1>5, <1>6, <1>7, <1>8, <1>9, <1>10, <1>11,
    <1>12, <1>13, <1>14, <1>15, <1>16, <1>17, <1>18, <1>19, <1>20, <1>21, <1>22, <1>23
    DEF RWStep, RW!Proceed, RW!Spin, RW!Release, RW!Begin

\* Every step keeps the owner of m_lockWriting.
LEMMA RWWriteStep ==
    ASSUME RWIInv, NEW t \in Threads, RWStep(t)
    PROVE  RWWriteInv'
<1>a. rwPc[t] \in Guarded =>
          /\ nReading \in Nat
          /\ \A u \in RW!Counted \ {t} : rwPc[u] \in {"reading", "uLock"} /\ u \in RW!Readers
          /\ t \in RW!Counted <=> rwPc[t] \in CountedSteps
          /\ t \in RW!Counted => nReading >= 1
          /\ t \in RW!Counted => (nReading = 1 <=> RW!Counted \ {t} = {})
          /\ t \notin RW!Counted => (nReading = 0 <=> RW!Counted \ {t} = {})
  BY Others
<1> USE DEF RWIInv, RW!TypeOK, RWGuardInv, RWStepInv, RWWriteInv, Guarded, CountedSteps,
    RW!Readers, RW!Writers, RW!Counted, Returning, RW!HasRead, RW!Go, RW!TakeReading,
      RW!FreeReading,
    RW!TakeWriting, RW!FreeWriting, RW!Nothing, RW!SetReading, RW!Steps, RW!LockReadSteps,
      RW!TryReadSteps,
    RW!UnlockReadSteps
<1>1. CASE RW!RInc(t)
  <2>1. /\ t \notin RW!Counted /\ nReading \in Nat /\ nReading' = nReading + 1
        /\ rwPc[t] = "rInc" /\ rwPc' = [rwPc EXCEPT ![t] = "rTest"] /\ UNCHANGED lockWriting
        /\ \A u \in Threads \ {t} : rwPc[u] \notin Guarded
    BY <1>1, <1>a DEF RW!RInc
  <2>2. RW!Writers' = RW!Writers /\ ~Returning /\ ~Returning'
    BY <2>1
  <2>3. CASE nReading = 0
    <3>1. RW!Counted = {} /\ RW!Readers = {} /\ RW!Readers' = {}
      BY <1>1, <2>1, <2>3, <1>a DEF RW!RInc
    <3> QED BY <2>1, <2>2, <3>1
  <2>4. CASE nReading # 0
    <3>1. RW!Readers # {} /\ RW!Readers' # {}
      BY <1>1, <2>1, <2>4, <1>a DEF RW!RInc
    <3> QED BY <2>1, <2>2, <3>1
  <2> QED BY <2>3, <2>4
<1>2. CASE RW!RTest(t)
  <2>1. /\ t \in RW!Counted /\ nReading \in Nat /\ nReading >= 1 /\ nReading' = nReading
        /\ UNCHANGED lockWriting
        /\ \A u \in Threads \ {t} : rwPc[u] \notin Guarded
    BY <1>2, <1>a DEF RW!RTest
  <2>2. RW!Writers' = RW!Writers /\ ~Returning /\ ~Returning'
    BY <1>2, <2>1 DEF RW!RTest
  <2>3. RW!Readers' = RW!Readers
    <3>1. CASE nReading = 1
      BY <1>2, <2>1, <3>1 DEF RW!RTest
    <3>2. CASE nReading # 1
      BY <1>2, <2>1, <3>2 DEF RW!RTest
    <3> QED BY <3>1, <3>2
  <2> QED BY <2>1, <2>2, <2>3
<1>3. CASE RW!RUnlock(t)
  BY <1>3 DEF RW!RUnlock
<1>4. CASE RW!TInc(t)
  <2>1. /\ t \notin RW!Counted /\ nReading \in Nat /\ nReading' = nReading + 1
        /\ rwPc[t] = "tInc" /\ rwPc' = [rwPc EXCEPT ![t] = "tTest"] /\ UNCHANGED lockWriting
        /\ \A u \in Threads \ {t} : rwPc[u] \notin Guarded
    BY <1>4, <1>a DEF RW!TInc
  <2>2. RW!Writers' = RW!Writers /\ ~Returning /\ ~Returning'
    BY <2>1
  <2>3. CASE nReading = 0
    <3>1. RW!Counted = {} /\ RW!Readers = {} /\ RW!Readers' = {}
      BY <1>4, <2>1, <2>3, <1>a DEF RW!TInc
    <3> QED BY <2>1, <2>2, <3>1
  <2>4. CASE nReading # 0
    <3>1. RW!Readers # {} /\ RW!Readers' # {}
      BY <1>4, <2>1, <2>4, <1>a DEF RW!TInc
    <3> QED BY <2>1, <2>2, <3>1
  <2> QED BY <2>3, <2>4
<1>5. CASE RW!TTest(t)
  <2>1. /\ t \in RW!Counted /\ nReading \in Nat /\ nReading >= 1 /\ nReading' = nReading
        /\ UNCHANGED lockWriting
        /\ \A u \in Threads \ {t} : rwPc[u] \notin Guarded
    BY <1>5, <1>a DEF RW!TTest
  <2>2. RW!Writers' = RW!Writers /\ ~Returning /\ ~Returning'
    BY <1>5, <2>1 DEF RW!TTest
  <2>3. RW!Readers' = RW!Readers
    <3>1. CASE nReading = 1
      BY <1>5, <2>1, <3>1 DEF RW!TTest
    <3>2. CASE nReading # 1
      BY <1>5, <2>1, <3>2 DEF RW!TTest
    <3> QED BY <3>1, <3>2
  <2> QED BY <2>1, <2>2, <2>3
<1>6. CASE RW!TTry(t)
  BY <1>6 DEF RW!TTry
<1>7. CASE RW!TReset(t)
  BY <1>7 DEF RW!TReset
<1>8. CASE RW!TFail(t)
  BY <1>8 DEF RW!TFail
<1>9. CASE RW!TUnlock(t)
  BY <1>9 DEF RW!TUnlock
<1>10. CASE RW!UDec(t)
  <2>1. /\ t \in RW!Counted /\ nReading \in Nat /\ nReading >= 1 /\ nReading' = nReading - 1
        /\ rwPc[t] = "uDec" /\ rwPc' = [rwPc EXCEPT ![t] = "uTest"]
        /\ UNCHANGED lockWriting /\ t \in RW!Readers
        /\ \A u \in Threads \ {t} : rwPc[u] \notin Guarded
    BY <1>10, <1>a DEF RW!UDec
  <2>2. RW!Writers' = RW!Writers /\ RW!Writers = {} /\ lockWriting
    BY <2>1
  <2>3. RW!Readers' = RW!Readers \ {t}
    BY <2>1
  <2>4. CASE nReading = 1
    <3>1. RW!Readers' = {} /\ Returning'
      BY <2>1, <2>3, <2>4, <1>a
    <3> QED BY <2>1, <2>2, <3>1
  <2>5. CASE nReading # 1
    <3>1. RW!Readers' # {} /\ ~Returning'
      BY <2>1, <2>3, <2>5, <1>a
    <3> QED BY <2>1, <2>2, <3>1
  <2> QED BY <2>4, <2>5
<1>11. CASE RW!UTest(t)
  BY <1>11 DEF RW!UTest
<1>12. CASE RW!URelease(t)
  BY <1>12 DEF RW!URelease
<1>13. CASE RW!UUnlock(t)
  BY <1>13 DEF RW!UUnlock
<1>14. CASE RW!RLock(t)
  BY <1>14 DEF RW!RLock
<1>15. CASE RW!RWait(t)
  BY <1>15 DEF RW!RWait
<1>16. CASE RW!ULock(t)
  BY <1>16 DEF RW!ULock
<1>17. CASE RW!WWait(t)
  BY <1>17 DEF RW!WWait
<1>18. CASE RW!UnlockRead(t)
  BY <1>18 DEF RW!UnlockRead
<1>19. CASE RW!UnlockWrite(t)
  BY <1>19 DEF RW!UnlockWrite
<1>20. CASE RW!LockRead(t)
  BY <1>20 DEF RW!LockRead
<1>21. CASE RW!TryLockRead(t)
  BY <1>21 DEF RW!TryLockRead
<1>22. CASE RW!LockWrite(t)
  BY <1>22 DEF RW!LockWrite
<1>23. CASE RW!TryLockWrite(t)
  BY <1>23 DEF RW!TryLockWrite
<1> QED BY <1>1, <1>2, <1>3, <1>4, <1>5, <1>6, <1>7, <1>8, <1>9, <1>10, <1>11,
    <1>12, <1>13, <1>14, <1>15, <1>16, <1>17, <1>18, <1>19, <1>20, <1>21, <1>22, <1>23
    DEF RWStep, RW!Proceed, RW!Spin, RW!Release, RW!Begin

\* The initial states satisfy the invariant.
LEMMA RWInitInv == RW!Init => RWIInv
<1> SUFFICES ASSUME RW!Init PROVE RWIInv
  OBVIOUS
<1>1. RW!Counted = {} /\ RW!Readers = {} /\ RW!Writers = {} /\ ~Returning
  BY DEF RW!Init, RW!Counted, RW!Readers, RW!Writers, Returning, RW!HasRead
<1>2. RW!TypeOK /\ RWGuardInv
  BY DEF RW!Init, RW!TypeOK, RWGuardInv, Guarded, RW!TryReadSteps, RW!Steps
<1>3. RWStepInv /\ RWWriteInv
  BY <1>1, FS_EmptySet DEF RW!Init, RWStepInv, RWWriteInv
<1> QED BY <1>2, <1>3 DEF RWIInv

\* Every step keeps the invariant.
LEMMA RWNextInv == RWIInv /\ [RW!Next]_(RW!vars) => RWIInv'
<1>1. ASSUME RWIInv, NEW t \in Threads, RWStep(t) PROVE RWIInv'
  BY <1>1, RWTypeStep, RWGuardStep, RWCountStep, RWWriteStep DEF RWIInv
<1>2. ASSUME RWIInv, UNCHANGED RW!vars PROVE RWIInv'
  <2>1. UNCHANGED <<RW!Counted, RW!Readers, RW!Writers, Returning>>
    BY <1>2 DEF RW!vars, RW!Counted, RW!Readers, RW!Writers, Returning
  <2> QED BY <1>2, <2>1 DEF RW!vars, RWIInv, RW!TypeOK, RWGuardInv, RWStepInv, RWWriteInv
<1> QED BY <1>1, <1>2 DEF RW!Next, RWStep

\* The inductive invariant holds in every state.
THEOREM RWInvariance == RW!Spec => []RWIInv
BY RWInitInv, RWNextInv, PTL DEF RW!Spec

\* Every variable keeps its type: m_nReading never goes below zero.
THEOREM RWTypeCorrect == RW!Spec => []RW!TypeOK
<1>1. RWIInv => RW!TypeOK
  BY DEF RWIInv
<1> QED BY <1>1, RWInvariance, PTL

\* For any number of threads, a thread in lockWrite's section is alone, though the
\* readers' share of the lock is released by another thread than took it.
THEOREM Exclusion == RW!Spec => []WriterAlone
<1>1. RWIInv => WriterAlone
  <2> SUFFICES ASSUME RWIInv PROVE WriterAlone
    OBVIOUS
  <2>1. CASE RW!Writers = {}
    BY <2>1, FS_EmptySet, SameCardinality DEF WriterAlone, RW!WriterAlone
  <2>2. CASE RW!Writers # {}
    <3>1. PICK t \in RW!Writers : RW!Writers = {t}
      BY <2>2 DEF RWIInv, RWWriteInv
    <3>2. Cardinality(RW!Writers) = 1
      BY <3>1, FS_Singleton
    <3>3. RW!Readers = {}
      BY <2>2 DEF RWIInv, RWWriteInv
    <3> QED BY <3>2, <3>3, SameCardinality DEF WriterAlone, RW!WriterAlone
  <2> QED BY <2>1, <2>2
<1> QED BY <1>1, RWInvariance, PTL

\* m_nReading counts the readers in every state, and m_lockWriting is taken exactly
\* while somebody needs it: the lock is never leaked.
THEOREM ReadersCounted == RW!Spec => []RW!CountExact
<1>1. RWIInv => RW!CountExact
  BY SameCardinality DEF RWIInv, RWStepInv, RWWriteInv, Returning, RW!CountExact
<1> QED BY <1>1, RWInvariance, PTL

\* A step of the spin locks and of the counter is a step of the read-write lock or
\* is not seen.
LEMMA RWLockStep ==
    ASSUME RWIInv, RWIInv', NEW t \in Threads, RWStep(t)
    PROVE  RW!Lock!Next \/ UNCHANGED <<RW!Readers, RW!Writer>>
<1> USE DEF RW!Lock!Next, RW!Lock!AcquireRead, RW!Lock!ReleaseRead, RW!Lock!AcquireWrite,
    RW!Lock!ReleaseWrite
<1>a. rwPc[t] \in Guarded =>
        /\ nReading \in Nat
        /\ t \in RW!Counted <=> rwPc[t] \in CountedSteps
        /\ t \in RW!Counted => nReading >= 1
        /\ \A u \in Threads \ {t} : rwPc[u] \notin Guarded
  BY Others DEF RWIInv, RWGuardInv
<1>b. RW!Writers = {} => RW!Writer = Null
  BY DEF RW!Writer
<1>c. \A u \in Threads : RW!Writers = {u} => RW!Writer = u
  BY DEF RW!Writer
<1>d. RW!Writers' = {} => RW!Writer' = Null
  BY DEF RW!Writer
<1>e. \A u \in Threads : RW!Writers' = {u} => RW!Writer' = u
  BY DEF RW!Writer
<1>f. RW!Writers' = RW!Writers => RW!Writer' = RW!Writer
  BY DEF RW!Writer
<1>g. rwPc \in [Threads -> RW!Steps] /\ (RW!Readers # {} => RW!Writers = {})
      /\ (~lockWriting => RW!Writers = {} /\ RW!Readers = {})
  BY DEF RWIInv, RW!TypeOK, RWWriteInv
<1> DEFINE Private == {"idle", "rLock", "rInc", "rWait", "wWait", "tInc", "tTry", "tReset",
                       "tFail", "uTest", "uRelease", "uUnlock"}
<1>h. ASSUME NEW to \in RW!Steps, rwPc' = [rwPc EXCEPT ![t] = to], nReading' = nReading,
             \/ rwPc[t] \in Private /\ to \in Private
             \/ rwPc[t] \in RW!HasRead /\ to \in RW!HasRead
      PROVE  UNCHANGED <<RW!Readers, RW!Writer>>
  <2>1. UNCHANGED <<RW!Readers, RW!Writers>>
    BY <1>h, <1>g DEF RW!Readers, RW!Writers, RW!HasRead, RW!Steps
  <2> QED BY <2>1, <1>f
<1>i. CASE \/ RW!RUnlock(t) \/ RW!TFail(t) \/ RW!TUnlock(t) \/ RW!URelease(t)
           \/ RW!UUnlock(t) \/ RW!RLock(t)
           \/ RW!ULock(t) \/ RW!UnlockRead(t) \/ RW!LockRead(t) \/ RW!TryLockRead(t)
           \/ RW!LockWrite(t)
           \/ RW!UTest(t)
  <2> DEFINE Moves(to) == rwPc' = [rwPc EXCEPT ![t] = to] /\ nReading' = nReading
  <2>1. CASE RW!RLock(t) \/ RW!LockRead(t) \/ RW!TryLockRead(t) \/ RW!LockWrite(t)
    <3>1. rwPc[t] \in Private /\ \E to \in {"rInc", "rLock", "tInc", "wWait"} : Moves(to)
      BY <2>1 DEF RW!Go, RW!Nothing, RW!TakeReading, RW!RLock, RW!LockRead, RW!TryLockRead,
        RW!LockWrite
    <3>2. PICK to \in {"rInc", "rLock", "tInc", "wWait"} : Moves(to)
      BY <3>1
    <3>3. to \in RW!Steps /\ to \in Private
      BY DEF RW!Steps, RW!LockReadSteps, RW!TryReadSteps, RW!UnlockReadSteps
    <3> QED BY <3>1, <3>2, <3>3, <1>h
  <2>2. CASE RW!RUnlock(t) \/ RW!TUnlock(t) \/ RW!UnlockRead(t) \/ RW!ULock(t)
    <3>1. rwPc[t] \in RW!HasRead /\ \E to \in {"reading", "uLock", "uDec"} : Moves(to)
      BY <2>2 DEF RW!Go, RW!Nothing, RW!FreeReading, RW!TakeReading, RW!HasRead, RW!RUnlock,
        RW!TUnlock, RW!UnlockRead,
           RW!ULock
    <3>2. PICK to \in {"reading", "uLock", "uDec"} : Moves(to)
      BY <3>1
    <3>3. to \in RW!Steps /\ to \in RW!HasRead
      BY DEF RW!Steps, RW!UnlockReadSteps, RW!HasRead
    <3> QED BY <3>1, <3>2, <3>3, <1>h
  <2>3. CASE RW!TFail(t) \/ RW!UTest(t) \/ RW!URelease(t) \/ RW!UUnlock(t)
    <3>1. rwPc[t] \in Private /\ \E to \in {"idle", "uRelease", "uUnlock"} : Moves(to)
      BY <2>3 DEF RW!Go, RW!Nothing, RW!FreeReading, RW!FreeWriting, RW!TFail, RW!UTest,
        RW!URelease, RW!UUnlock
    <3>2. PICK to \in {"idle", "uRelease", "uUnlock"} : Moves(to)
      BY <3>1
    <3>3. to \in RW!Steps /\ to \in Private
      BY DEF RW!Steps, RW!LockReadSteps, RW!TryReadSteps, RW!UnlockReadSteps
    <3> QED BY <3>1, <3>2, <3>3, <1>h
  <2> QED BY <1>i, <2>1, <2>2, <2>3
<1>j. CASE RW!RInc(t) \/ RW!TInc(t)
  <2>1. /\ rwPc[t] \in {"rInc", "tInc"} /\ nReading' = nReading + 1 /\ nReading \in Nat
        /\ \E to \in {"rTest", "tTest"} : rwPc' = [rwPc EXCEPT ![t] = to]
        /\ \A u \in Threads \ {t} : rwPc[u] \notin Guarded
    BY <1>j, <1>a DEF RW!RInc, RW!TInc, RW!Go, RW!SetReading, Guarded, RW!TryReadSteps
  <2>2. RW!Writers' = RW!Writers
    BY <2>1, <1>g DEF RW!Writers
  <2>3. RW!Readers' = IF nReading = 0 THEN RW!Readers ELSE RW!Readers \cup {t}
    BY <2>1, <1>g DEF RW!Readers, RW!HasRead, Guarded, RW!TryReadSteps
  <2>4. nReading # 0 => RW!Readers # {}
    <3>1. nReading # 0 => RW!Counted \ {t} # {}
      BY <2>1, Others DEF Guarded, RW!TryReadSteps, CountedSteps
    <3> QED BY <2>1, <3>1, Others DEF Guarded, RW!TryReadSteps
  <2> QED BY <2>2, <2>3, <2>4, <1>b, <1>f, <1>g
<1>k. CASE RW!RTest(t) \/ RW!TTest(t)
  <2>1. /\ rwPc[t] \in {"rTest", "tTest"} /\ nReading' = nReading
        /\ nReading >= 1
        /\ nReading \in Nat
        /\ nReading = 1 => \E to \in {"rWait", "tTry"} : rwPc' = [rwPc EXCEPT ![t] = to]
        /\ nReading # 1 => \E to \in {"rUnlock", "tUnlock"} : rwPc' = [rwPc EXCEPT ![t] = to]
    BY <1>k, <1>a DEF RW!RTest, RW!TTest, RW!Go, RW!Nothing, Guarded, RW!TryReadSteps, CountedSteps
  <2>2. RW!Writers' = RW!Writers /\ RW!Readers' = RW!Readers
    BY <2>1, <1>g DEF RW!Writers, RW!Readers, RW!HasRead
  <2> QED BY <2>2, <1>f
<1>l. CASE RW!RWait(t) \/ RW!TTry(t)
  <2>1. CASE lockWriting
    <3>1. rwPc[t] = "tTry" /\ rwPc' = [rwPc EXCEPT ![t] = "tReset"] /\ nReading' = nReading
      BY <1>l, <2>1 DEF RW!RWait, RW!TTry, RW!Go, RW!Nothing, RW!TakeWriting
    <3>2. "tReset" \in RW!Steps /\ "tReset" \in Private /\ "tTry" \in Private
      BY DEF RW!Steps, RW!TryReadSteps
    <3> QED BY <3>1, <3>2, <1>h
  <2>2. CASE ~lockWriting
    <3>1. /\ rwPc[t] \in {"rWait", "tTry"} /\ nReading' = nReading
          /\ \E to \in {"rUnlock", "tUnlock"} : rwPc' = [rwPc EXCEPT ![t] = to]
      BY <1>l, <2>2 DEF RW!RWait, RW!TTry, RW!Go, RW!TakeWriting
    <3>2. RW!Writers' = RW!Writers /\ RW!Readers' = RW!Readers \cup {t}
      BY <3>1, <1>g DEF RW!Writers, RW!Readers, RW!HasRead
    <3> QED BY <3>2, <2>2, <1>b, <1>f, <1>g
  <2> QED BY <2>1, <2>2
<1>m. CASE RW!TReset(t)
  <2>1. /\ rwPc[t] = "tReset" /\ rwPc' = [rwPc EXCEPT ![t] = "tFail"]
        /\ \A u \in Threads \ {t} : rwPc[u] \notin Guarded
    BY <1>m, <1>a DEF RW!TReset, RW!Go, Guarded, RW!TryReadSteps
  <2>2. RW!Writers' = RW!Writers /\ RW!Readers' = RW!Readers
    BY <2>1, <1>g DEF RW!Writers, RW!Readers, RW!HasRead, Guarded, RW!TryReadSteps
  <2> QED BY <2>2, <1>f
<1>n. CASE RW!UDec(t)
  <2>1. /\ rwPc[t] = "uDec" /\ rwPc' = [rwPc EXCEPT ![t] = "uTest"]
        /\ \A u \in Threads \ {t} : rwPc[u] \notin Guarded
    BY <1>n, <1>a DEF RW!UDec, RW!Go, Guarded
  <2>2. RW!Writers' = RW!Writers /\ RW!Readers' = RW!Readers \ {t} /\ t \in RW!Readers
    BY <2>1, <1>g DEF RW!Writers, RW!Readers, RW!HasRead, Guarded, RW!TryReadSteps
  <2> QED BY <2>2, <1>f
<1>o. CASE RW!WWait(t) \/ RW!TryLockWrite(t)
  <2>1. /\ rwPc[t] \in {"wWait", "idle"} /\ rwPc' = [rwPc EXCEPT ![t] = "writing"]
        /\ ~lockWriting /\ nReading' = nReading
    BY <1>o DEF RW!WWait, RW!TryLockWrite, RW!Go, RW!TakeWriting
  <2>2. RW!Readers' = RW!Readers /\ RW!Writers' = RW!Writers \cup {t}
    BY <2>1, <1>g DEF RW!Writers, RW!Readers, RW!HasRead
  <2> QED BY <2>1, <2>2, <1>b, <1>e, <1>g
<1>p. CASE RW!UnlockWrite(t)
  <2>1. rwPc[t] = "writing" /\ rwPc' = [rwPc EXCEPT ![t] = "idle"] /\ nReading' = nReading
    BY <1>p DEF RW!UnlockWrite, RW!Go, RW!FreeWriting
  <2>2. RW!Readers' = RW!Readers /\ RW!Writers' = RW!Writers \ {t} /\ t \in RW!Writers
    BY <2>1, <1>g DEF RW!Writers, RW!Readers, RW!HasRead
  <2>3. RW!Writers = {t}
    BY <2>2 DEF RWIInv, RWWriteInv
  <2> QED BY <2>2, <2>3, <1>c, <1>d
<1> QED BY <1>i, <1>j, <1>k, <1>l, <1>m, <1>n, <1>o, <1>p
        DEF RWStep, RW!Proceed, RW!Spin, RW!Release, RW!Begin

\* ReadWriteSpinLock implements a read-write lock for any number of threads.
THEOREM RWRefinement == RW!Spec => ImplementsRWLock
<1>1. RW!Init => RW!Lock!Init
  BY DEF RW!Init, RW!Lock!Init, RW!Readers, RW!Writers, RW!Writer, RW!HasRead
<1>2. RWIInv /\ RWIInv' /\ [RW!Next]_(RW!vars) => [RW!Lock!Next]_(RW!Lock!vars)
  <2>1. UNCHANGED RW!vars => UNCHANGED <<RW!Readers, RW!Writer>>
    BY DEF RW!vars, RW!Readers, RW!Writers, RW!Writer
  <2> QED BY <2>1, RWLockStep DEF RW!Next, RWStep, RW!Lock!vars
<1> QED BY <1>1, <1>2, RWInvariance, PTL DEF RW!Spec, RW!Lock!Spec, ImplementsRWLock, RW!ImplementsRWLock
=============================================================================
