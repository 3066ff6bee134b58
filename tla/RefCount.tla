------------------------------ MODULE RefCount ------------------------------
(***************************************************************************)
(* Reference counting of SLib: core/ref.h and core/ref.cpp.                *)
(*                                                                         *)
(* One CRef object with the CWeakRef cell it may own, shared by a set of   *)
(* threads through Ref<T> variables, one AtomicRef<T> and WeakRef<T>       *)
(* variables.  A member of Refs is a Ref<T> whose pointer is the object    *)
(* when holder names the thread that owns the variable; the one whose      *)
(* holder is Shared is the content of the AtomicRef.  Moving a Ref is a    *)
(* change of holder.  A step is one access to shared memory (a load, a     *)
(* store, an interlocked operation, one spin lock operation).              *)
(***************************************************************************)
EXTENDS Naturals, FiniteSets

CONSTANTS
    Threads,    \* the threads of the process
    Refs,       \* Ref<T> variables for the object
    WRefs,      \* WeakRef<T> variables for the object
    Null,       \* a null Ref, a free lock
    Shared      \* the AtomicRef<T> variable, as a holder

ASSUME ConstantsAssumption ==
    /\ IsFiniteSet(Threads) /\ IsFiniteSet(Refs) /\ IsFiniteSet(WRefs)
    /\ Null \notin Threads \cup Refs
    /\ Shared \notin Threads \cup {Null}

VARIABLES
    mem,        \* the object's memory: "none" before new, "live", "deleted"
    count,      \* CRef::m_nRefCount
    weak,       \* whether CRef::m_weak points to the cell
    cell,       \* the cell's memory: "none", "live", "deleted"
    wcount,     \* m_nRefCount of the cell
    wobj,       \* whether CWeakRef::m_object points to the object
    wlock,      \* owner of CWeakRef::m_lock
    plock,      \* owner of the object's lock in SpinLockPoolForWeakRef
    alock,      \* owner of AtomicRef::m_lock
    holder,     \* holder[r]: the thread that owns Ref r, Shared, or Null
    wholder,    \* wholder[w]: the thread that owns WeakRef w, or Null
    pc,         \* the step each thread is at
    arg,        \* the Ref the operation of a thread works on
    seen        \* whether increaseReference found the count nonzero

object   == <<mem, count, weak>>
weakCell == <<cell, wcount, wobj>>
locks    == <<wlock, plock, alock>>
pointers == <<holder, wholder>>
locals   == <<arg, seen>>
vars == <<object, weakCell, locks, pointers, pc, locals>>

Held  == {r \in Refs : holder[r] # Null}
WHeld == {w \in WRefs : wholder[w] # Null}
Undoing == {t \in Threads : pc[t] = "undo"}

\* Steps of increaseReference, of free(), of AtomicRef, of _getWeakObject and
\* of CWeakRef::lock.
IncSteps   == {"incTest", "inc"}
FreeSteps  == {"clear", "relLock", "relNull", "relUnlock", "relDec", "clearPtr",
               "delete"}
ALockSteps == {"retain", "swap", "aUnlock"}
GetSteps   == {"getWeak", "poolLock", "getCheck", "poolUnlock", "weakInc"}
WLockSteps == {"load", "test", "up", "undo", "wUnlock"}
Steps == {"idle", "dec", "aLockLoad", "aLockStore", "wLock"}
         \cup IncSteps \cup FreeSteps \cup ALockSteps \cup GetSteps \cup WLockSteps

\* Bound: an operation that ends with a new Ref (or WeakRef) starts only while
\* there is a null variable left for it.
Acquiring  == {t \in Threads : pc[t] \in IncSteps \cup {"aLockLoad", "retain", "wLock"}
                                        \cup WLockSteps}
Room  == Cardinality(Acquiring) < Cardinality(Refs \ Held)
WRoom == Cardinality({t \in Threads : pc[t] \in GetSteps}) < Cardinality(WRefs \ WHeld)

Init ==
    /\ mem = "none" /\ count = 0 /\ weak = FALSE
    /\ cell = "none" /\ wcount = 0 /\ wobj = FALSE
    /\ wlock = Null /\ plock = Null /\ alock = Null
    /\ holder = [r \in Refs |-> Null]
    /\ wholder = [w \in WRefs |-> Null]
    /\ pc = [t \in Threads |-> "idle"]
    /\ arg = [t \in Threads |-> Null]
    /\ seen = [t \in Threads |-> FALSE]

Go(t, step) == pc' = [pc EXCEPT ![t] = step]

-----------------------------------------------------------------------------
(* Ref<T>: construction, copy, move, destruction                           *)

\* Ref<T> r = new T: the count is zero until the first increaseReference.
New(t) ==
    /\ pc[t] = "idle" /\ mem = "none" /\ Room
    /\ mem' = "live"
    /\ Go(t, "incTest") /\ arg' = [arg EXCEPT ![t] = Null]
    /\ UNCHANGED <<count, weak, weakCell, locks, pointers, seen>>

\* Ref(const Ref&): copy a Ref the thread owns.
Copy(t) ==
    /\ pc[t] = "idle" /\ Room
    /\ \E r \in Refs : holder[r] = t /\ arg' = [arg EXCEPT ![t] = r]
    /\ Go(t, "incTest")
    /\ UNCHANGED <<object, weakCell, locks, pointers, seen>>

\* increaseReference_NoSync: `if (m_nRefCount)`.
IncTest(t) ==
    /\ pc[t] = "incTest"
    /\ seen' = [seen EXCEPT ![t] = count # 0]
    /\ Go(t, "inc")
    /\ UNCHANGED <<object, weakCell, locks, pointers, arg>>

\* What increaseReference stores: an increment when the test saw a nonzero
\* count, the constant 1 (and a call of init) when it saw zero.
IncResult(nonzero) == IF nonzero THEN count + 1 ELSE 1

Inc(t) ==
    /\ pc[t] = "inc"
    /\ count' = IncResult(seen[t])
    /\ \E n \in Refs \ Held : holder' = [holder EXCEPT ![n] = t]
    /\ Go(t, IF alock = t THEN "aUnlock" ELSE "idle")
    /\ arg' = [arg EXCEPT ![t] = Null]
    /\ UNCHANGED <<mem, weak, weakCell, locks, wholder, seen>>

\* Ref(Ref&&) into a variable another thread will use.
Move(t, u) ==
    /\ pc[t] = "idle" /\ t # u
    /\ \E r \in Refs : holder[r] = t /\ holder' = [holder EXCEPT ![r] = u]
    /\ UNCHANGED <<object, weakCell, locks, wholder, locals, pc>>

\* ~Ref, setNull: the interlocked decrement of decreaseReference; the thread
\* that brings the count to zero runs free().
DropRef(t, r) ==
    /\ holder[r] = t
    /\ holder' = [holder EXCEPT ![r] = Null]
    /\ count' = count - 1
    /\ Go(t, IF count = 1 THEN "clear" ELSE "idle")
    /\ arg' = [arg EXCEPT ![t] = Null]
    /\ UNCHANGED <<mem, weak, weakCell, locks, wholder, seen>>

Drop(t) == pc[t] = "idle" /\ \E r \in Refs : DropRef(t, r)

-----------------------------------------------------------------------------
(* AtomicRef<T>: _retain, _replace, _release, _swap                        *)

\* _retain: null is seen without the lock.
StartLoad(t) ==
    /\ pc[t] = "idle" /\ Room
    /\ \E r \in Refs : holder[r] = Shared
    /\ Go(t, "aLockLoad")
    /\ UNCHANGED <<object, weakCell, locks, pointers, locals>>

\* _replace(other), _swap, _release: other is a Ref the thread gives up, or null.
StartStore(t) ==
    /\ pc[t] = "idle"
    /\ \E r \in Refs \cup {Null} :
         /\ r \in Refs => holder[r] = t
         /\ arg' = [arg EXCEPT ![t] = r]
    /\ Go(t, "aLockStore")
    /\ UNCHANGED <<object, weakCell, locks, pointers, seen>>

\* Faulty variant: the lock of the AtomicRef is not waited for.
AcquireALock_NoWait(t) ==
    /\ pc[t] \in {"aLockLoad", "aLockStore"}
    /\ alock' = t
    /\ Go(t, IF pc[t] = "aLockLoad" THEN "retain" ELSE "swap")
    /\ UNCHANGED <<object, weakCell, wlock, plock, pointers, locals>>

AcquireALock(t) ==
    /\ pc[t] \in {"aLockLoad", "aLockStore"} /\ alock = Null
    /\ alock' = t
    /\ Go(t, IF pc[t] = "aLockLoad" THEN "retain" ELSE "swap")
    /\ UNCHANGED <<object, weakCell, wlock, plock, pointers, locals>>

\* `T* o = _ptr; if (o) o->increaseReference_NoSync();` under the lock.
Retain(t) ==
    /\ pc[t] = "retain"
    /\ \/ \E r \in Refs :
            /\ holder[r] = Shared
            /\ arg' = [arg EXCEPT ![t] = r]
            /\ Go(t, "incTest")
       \/ /\ \A r \in Refs : holder[r] # Shared
          /\ Go(t, "aUnlock")
          /\ UNCHANGED arg
    /\ UNCHANGED <<object, weakCell, locks, pointers, seen>>

\* `before = _ptr; _ptr = other;` under the lock: the old content becomes a Ref
\* of the thread, to be released after the unlock.
SwapPtr(t) ==
    /\ pc[t] = "swap"
    /\ LET before == {r \in Refs : holder[r] = Shared}
       IN  /\ holder' = [r \in Refs |-> IF r \in before THEN t
                                        ELSE IF r = arg[t] THEN Shared
                                        ELSE holder[r]]
           /\ \E b \in IF before = {} THEN {Null} ELSE before :
                arg' = [arg EXCEPT ![t] = b]
    /\ Go(t, "aUnlock")
    /\ UNCHANGED <<object, weakCell, locks, wholder, seen>>

\* After the unlock _replace releases what it took out, outside the lock; _release
\* and _swap keep it.
ReleaseALock(t) ==
    /\ pc[t] = "aUnlock"
    /\ alock' = Null
    /\ \/ Go(t, IF arg[t] = Null THEN "idle" ELSE "dec") /\ UNCHANGED arg
       \/ Go(t, "idle") /\ arg' = [arg EXCEPT ![t] = Null]
    /\ UNCHANGED <<object, weakCell, wlock, plock, pointers, seen>>

DropBefore(t) == pc[t] = "dec" /\ DropRef(t, arg[t])

-----------------------------------------------------------------------------
(* CRef::free, _clearWeak and CWeakRef::release                            *)

ClearWeak(t) ==
    /\ pc[t] = "clear"
    /\ Go(t, IF weak THEN "relLock" ELSE "delete")
    /\ UNCHANGED <<object, weakCell, locks, pointers, locals>>

ReleaseLock(t) ==
    /\ pc[t] = "relLock" /\ wlock = Null
    /\ wlock' = t
    /\ Go(t, "relNull")
    /\ UNCHANGED <<object, weakCell, plock, alock, pointers, locals>>

ReleaseNull(t) ==
    /\ pc[t] = "relNull"
    /\ wobj' = FALSE
    /\ Go(t, "relUnlock")
    /\ UNCHANGED <<object, cell, wcount, locks, pointers, locals>>

ReleaseUnlock(t) ==
    /\ pc[t] = "relUnlock"
    /\ wlock' = Null
    /\ Go(t, "relDec")
    /\ UNCHANGED <<object, weakCell, plock, alock, pointers, locals>>

\* decreaseReference of the cell.  The cell has no cell of its own, so free() of
\* the last reference only deletes it.
DropCell ==
    /\ wcount' = wcount - 1
    /\ cell' = IF wcount = 1 THEN "deleted" ELSE cell

ReleaseDec(t) ==
    /\ pc[t] = "relDec"
    /\ DropCell
    /\ Go(t, "clearPtr")
    /\ UNCHANGED <<object, wobj, locks, pointers, locals>>

ClearPtr(t) ==
    /\ pc[t] = "clearPtr"
    /\ weak' = FALSE
    /\ Go(t, "delete")
    /\ UNCHANGED <<mem, count, weakCell, locks, pointers, locals>>

Delete(t) ==
    /\ pc[t] = "delete"
    /\ mem' = "deleted"
    /\ Go(t, "idle")
    /\ UNCHANGED <<count, weak, weakCell, locks, pointers, locals>>

-----------------------------------------------------------------------------
(* WeakRef<T>: _getWeakObject, copies                                      *)

StartWeak(t) ==
    /\ pc[t] = "idle" /\ WRoom
    /\ \E r \in Refs : holder[r] = t
    /\ Go(t, "getWeak")
    /\ UNCHANGED <<object, weakCell, locks, pointers, locals>>

\* `if (m_weak) return m_weak;` without the lock.
GetWeak(t) ==
    /\ pc[t] = "getWeak"
    /\ Go(t, IF weak THEN "weakInc" ELSE "poolLock")
    /\ UNCHANGED <<object, weakCell, locks, pointers, locals>>

PoolLock(t) ==
    /\ pc[t] = "poolLock" /\ plock = Null
    /\ plock' = t
    /\ Go(t, "getCheck")
    /\ UNCHANGED <<object, weakCell, wlock, alock, pointers, locals>>

\* `if (!m_weak) m_weak = CWeakRef::create(this);` under the pool lock.
GetCheck(t) ==
    /\ pc[t] = "getCheck"
    /\ IF weak THEN UNCHANGED <<weak, cell, wcount, wobj>>
               ELSE weak' = TRUE /\ cell' = "live" /\ wcount' = 1 /\ wobj' = TRUE
    /\ Go(t, "poolUnlock")
    /\ UNCHANGED <<mem, count, locks, pointers, locals>>

PoolUnlock(t) ==
    /\ pc[t] = "poolUnlock"
    /\ plock' = Null
    /\ Go(t, "weakInc")
    /\ UNCHANGED <<object, weakCell, wlock, alock, pointers, locals>>

\* increaseReference_NoSync of the cell: the test and the increment are one step
\* because m_weak keeps the cell's count nonzero while the thread owns a Ref.
TakeCell(t) ==
    /\ wcount' = IF wcount # 0 THEN wcount + 1 ELSE 1
    /\ \E w \in WRefs \ WHeld : wholder' = [wholder EXCEPT ![w] = t]

WeakInc(t) ==
    /\ pc[t] = "weakInc"
    /\ TakeCell(t)
    /\ Go(t, "idle")
    /\ UNCHANGED <<object, cell, wobj, locks, holder, locals>>

\* A WeakRef is copied to a variable of another thread.
WeakCopy(t, u) ==
    /\ pc[t] = "idle" /\ WRoom
    /\ \E w \in WRefs : wholder[w] = t
    /\ TakeCell(u)
    /\ UNCHANGED <<object, cell, wobj, locks, holder, locals, pc>>

WeakDrop(t) ==
    /\ pc[t] = "idle"
    /\ \E w \in WRefs : wholder[w] = t /\ wholder' = [wholder EXCEPT ![w] = Null]
    /\ DropCell
    /\ UNCHANGED <<object, wobj, locks, holder, locals, pc>>

-----------------------------------------------------------------------------
(* CWeakRef::lock                                                          *)

\* `if (!m_object) return sl_null;` without the lock.
StartLock(t) ==
    /\ pc[t] = "idle" /\ Room
    /\ \E w \in WRefs : wholder[w] = t
    /\ wobj
    /\ Go(t, "wLock")
    /\ UNCHANGED <<object, weakCell, locks, pointers, locals>>

LockCell(t) ==
    /\ pc[t] = "wLock" /\ wlock = Null
    /\ wlock' = t
    /\ Go(t, "load")
    /\ UNCHANGED <<object, weakCell, plock, alock, pointers, locals>>

LoadObject(t) ==
    /\ pc[t] = "load"
    /\ Go(t, IF wobj THEN "test" ELSE "wUnlock")
    /\ UNCHANGED <<object, weakCell, locks, pointers, locals>>

TestCount(t) ==
    /\ pc[t] = "test"
    /\ Go(t, IF count # 0 THEN "up" ELSE "wUnlock")
    /\ UNCHANGED <<object, weakCell, locks, pointers, locals>>

\* Faulty variants: the result of the increment is ignored; it is off by one.
LockSucceeds_Ignored(n) == TRUE
LockSucceeds_OffByOne(n) == n > 2

\* n = _increaseReference(): the Ref is kept only when n > 1.
LockSucceeds(n) == n > 1

UpCount(t) ==
    /\ pc[t] = "up"
    /\ count' = count + 1
    /\ IF LockSucceeds(count + 1)
       THEN /\ \E n \in Refs \ Held : holder' = [holder EXCEPT ![n] = t]
            /\ Go(t, "wUnlock")
       ELSE Go(t, "undo") /\ UNCHANGED holder
    /\ UNCHANGED <<mem, weak, weakCell, locks, wholder, locals>>

\* Faulty variant: decreaseReference in place of _decreaseReference.
UndoCount_Frees(t) ==
    /\ pc[t] = "undo"
    /\ count' = count - 1
    /\ Go(t, IF count = 1 THEN "clear" ELSE "wUnlock")
    /\ UNCHANGED <<mem, weak, weakCell, locks, pointers, locals>>

\* _decreaseReference(): a decrement that never runs free().
UndoCount(t) ==
    /\ pc[t] = "undo"
    /\ count' = count - 1
    /\ Go(t, "wUnlock")
    /\ UNCHANGED <<mem, weak, weakCell, locks, pointers, locals>>

UnlockCell(t) ==
    /\ pc[t] = "wUnlock"
    /\ wlock' = Null
    /\ Go(t, "idle")
    /\ UNCHANGED <<object, weakCell, plock, alock, pointers, locals>>

-----------------------------------------------------------------------------
\* The steps a thread takes without choosing to: the rest of an operation.
Continue(t) ==
    \/ IncTest(t) \/ Inc(t)
    \/ AcquireALock(t) \/ Retain(t) \/ SwapPtr(t) \/ ReleaseALock(t) \/ DropBefore(t)
    \/ ClearWeak(t) \/ ReleaseLock(t) \/ ReleaseNull(t) \/ ReleaseUnlock(t)
    \/ ReleaseDec(t) \/ ClearPtr(t) \/ Delete(t)
    \/ GetWeak(t) \/ PoolLock(t) \/ GetCheck(t) \/ PoolUnlock(t) \/ WeakInc(t)
    \/ LockCell(t) \/ LoadObject(t) \/ TestCount(t) \/ UpCount(t) \/ UndoCount(t)
    \/ UnlockCell(t)

\* The operations a thread may begin.
Begin(t) ==
    \/ New(t) \/ Copy(t) \/ Drop(t)
    \/ StartLoad(t) \/ StartStore(t)
    \/ StartWeak(t) \/ WeakDrop(t) \/ StartLock(t)
    \/ \E u \in Threads : Move(t, u) \/ WeakCopy(t, u)

Next == \E t \in Threads : Begin(t) \/ Continue(t)

\* Every thread that has begun an operation keeps taking steps; a spin lock that
\* is free again and again is eventually taken by a thread spinning on it.
Fairness == \A t \in Threads :
    /\ WF_vars(Continue(t))
    /\ SF_vars(AcquireALock(t)) /\ SF_vars(ReleaseLock(t))
    /\ SF_vars(PoolLock(t)) /\ SF_vars(LockCell(t))

Spec == Init /\ [][Next]_vars /\ Fairness

-----------------------------------------------------------------------------
TypeOK ==
    /\ mem \in {"none", "live", "deleted"}
    /\ count \in Nat /\ wcount \in Nat
    /\ weak \in BOOLEAN /\ wobj \in BOOLEAN
    /\ cell \in {"none", "live", "deleted"}
    /\ wlock \in Threads \cup {Null}
    /\ plock \in Threads \cup {Null}
    /\ alock \in Threads \cup {Null}
    /\ holder \in [Refs -> Threads \cup {Null, Shared}]
    /\ wholder \in [WRefs -> Threads \cup {Null}]
    /\ pc \in [Threads -> Steps]
    /\ arg \in [Threads -> Refs \cup {Null}]
    /\ seen \in [Threads -> BOOLEAN]

-----------------------------------------------------------------------------
Creating == \E t \in Threads : pc[t] \in IncSteps /\ arg[t] = Null
Freers == {t \in Threads : pc[t] \in FreeSteps}

TouchesObject(t) ==
    \/ pc[t] \in IncSteps \cup FreeSteps \cup GetSteps \cup {"dec", "test", "up", "undo"}
    \/ \E r \in Refs : holder[r] = t

TouchesCell(t) ==
    \/ pc[t] \in WLockSteps \cup {"wLock", "relLock", "relNull", "relUnlock", "relDec",
                                  "weakInc"}
    \/ \E w \in WRefs : wholder[w] = t

\* No thread reads, writes or keeps a counted pointer to memory that has been
\* deleted: neither the object, whose last Ref another thread may drop while
\* CWeakRef::lock is looking at it, nor the cell, which outlives the object.
NoUseAfterFree ==
    \A t \in Threads : /\ TouchesObject(t) => mem = "live"
                       /\ TouchesCell(t) => cell = "live"

\* Both counters are exact at every step: m_nRefCount counts the non-null Refs
\* and the increment CWeakRef::lock is about to take back; the count of the cell
\* counts the WeakRefs and m_weak until CWeakRef::release has given it up.
CountsExact ==
    /\ count = Cardinality(Held) + Cardinality(Undoing)
    /\ wcount = Cardinality(WHeld) +
                  IF weak /\ \A t \in Threads : pc[t] # "clearPtr" THEN 1 ELSE 0

\* An object without a Ref is being constructed or being freed by exactly one
\* thread, and a cell without a WeakRef still belongs to an object: free() runs
\* once and nothing is leaked.
FreedOnceNoLeak ==
    /\ Cardinality(Freers) <= 1
    /\ (Freers # {} => Held = {})
    /\ (mem = "live" /\ Held = {} => Freers # {} \/ Creating)
    /\ (mem = "deleted" /\ WHeld = {} => cell # "live")

\* CWeakRef::lock refuses a Ref only when no Ref exists any more, whichever of
\* its four exits it takes; an object in free() never gets a Ref again.
LockFailsOnlyWhenDead ==
    [][/\ (cell = "live" /\ ~wobj => Held = {})
       /\ \A t \in Threads :
            /\ (pc[t] \in {"load", "test", "undo"} /\ pc'[t] = "wUnlock" => Held = {})
            /\ (pc[t] = "up" /\ pc'[t] = "undo" => Held = {})
       /\ (Freers # {} => Held' = {})]_vars

\* What a client sees of the object: the Refs that exist and whether it has been
\* constructed and deleted.
Phase == IF mem = "deleted" THEN "reclaimed"
         ELSE IF mem = "none" \/ Creating THEN "unborn" ELSE "owned"

Ownership == INSTANCE SharedOwnership WITH owned <- Held, phase <- Phase

\* The counters, the spin locks and the weak cell implement shared ownership: a
\* Ref appears only while another exists, and an object without one is reclaimed
\* once, whatever the threads that hold WeakRefs do meanwhile.
ImplementsOwnership == Ownership!Spec

=============================================================================
