------------------------------- MODULE Timer -------------------------------
(***************************************************************************)
(* A Timer on a DispatchLoop: callers start and stop it, the loop's thread *)
(* runs its task where its interval has passed, and run() may be called by *)
(* others too.  The timer's lock guards m_flagStarted; the loop's queue of *)
(* timers has a lock of its own, and is changed after the timer's lock was *)
(* given back.                                                             *)
(*                                                                         *)
(* The task may itself start or stop the timer.  Whether the interval has  *)
(* passed is left open at every look.  The interval is not zero, and the   *)
(* timer and the loop outlive the model.                                   *)
(***************************************************************************)
EXTENDS Integers, FiniteSets

CONSTANTS
    Callers,        \* threads other than the loop's
    Loop,           \* the loop's thread
    MaxConcurrent,  \* m_maxConcurrentThread
    MaxEntries,     \* bound: entries of the timer in the loop's queue, coming ones included
    Nobody

ConstantsAssumption ==
    /\ Loop \notin Callers /\ Nobody \notin Callers \cup {Loop}
    /\ IsFiniteSet(Callers)
    /\ MaxConcurrent \in Nat /\ MaxEntries \in Nat

VARIABLES
    flagStarted,    \* m_flagStarted
    nCountRun,      \* m_nCountRun
    entries,        \* how many entries of m_queueTimers are this timer's
    holder,         \* who has the timer's lock for more than one step
    pc,             \* the step each thread is at
    inside,         \* which call of the task each thread is inside of
    quiet           \* a stopAndWait has returned, and no start has begun since (history)

vars == <<flagStarted, nCountRun, entries, holder, pc, inside, quiet>>

Actors == Callers \cup {Loop}
Outside(a) == IF inside[a] # "none" THEN "task" ELSE IF a = Loop THEN "loop" ELSE "outside"

Init ==
    /\ flagStarted = FALSE /\ nCountRun = 0 /\ entries = 0 /\ holder = Nobody
    /\ pc = [a \in Actors |-> IF a = Loop THEN "loop" ELSE "outside"]
    /\ inside = [a \in Actors |-> "none"]
    /\ quiet = FALSE

Go(a, from, to) == pc[a] = from /\ pc' = [pc EXCEPT ![a] = to]
Return(a, from) == Go(a, from, Outside(a))
LockFree == holder = Nobody
At(steps) == {a \in Actors : pc[a] \in steps}

\* Entries still to be added and to be removed.  A thread that start lets run the
\* task at once adds its entry after the task, and perhaps one more inside it.
Added    == Cardinality(At({"addTimer"})) + Cardinality({a \in Actors : inside[a] = "now"})
Removed  == Cardinality(At({"removeTimer", "removeTimerAndWait"}))

-----------------------------------------------------------------------------
(* start, stop, stopAndWait                                                *)

\* Bound: only a thread that is outside of everything starts the timer with
\* flagRunImmediately or calls run; the task and the loop use the other operations.
Call(a) ==
    /\ \E op \in {"start", "stop", "stopAndWait"} \cup
                 IF pc[a] = "outside" THEN {"startNow", "run"} ELSE {} : Go(a, Outside(a), op)
    /\ UNCHANGED <<flagStarted, nCountRun, entries, holder, inside, quiet>>

Start(a) ==
    /\ LockFree /\ ~flagStarted /\ entries + Added < MaxEntries
    /\ \/ Go(a, "start", "addTimer") /\ UNCHANGED inside
       \/ Go(a, "startNow", "task") /\ inside' = [inside EXCEPT ![a] = "now"]
    /\ flagStarted' = TRUE /\ quiet' = FALSE
    /\ UNCHANGED <<nCountRun, entries, holder>>

\* start and stop do nothing where the timer is in that state already.  The bound
\* on the entries makes a start that would exceed it do nothing too.
AlreadyDone(a) ==
    /\ LockFree
    /\ \/ /\ flagStarted \/ entries + Added >= MaxEntries
          /\ \E op \in {"start", "startNow"} : Return(a, op)
       \/ ~flagStarted /\ Return(a, "stop")
       \/ ~flagStarted /\ Go(a, "stopAndWait", "waitRuns")
    /\ UNCHANGED <<flagStarted, nCountRun, entries, holder, inside, quiet>>

AddTimer(a) ==
    /\ Return(a, "addTimer") /\ entries' = entries + 1
    /\ UNCHANGED <<flagStarted, nCountRun, holder, inside, quiet>>

Stop(a) ==
    /\ LockFree /\ flagStarted /\ flagStarted' = FALSE
    /\ \/ Go(a, "stop", "removeTimer")
       \/ Go(a, "stopAndWait", "removeTimerAndWait")
    /\ UNCHANGED <<nCountRun, entries, holder, inside, quiet>>

\* Faulty variant: every entry of the timer is removed.
Remaining_None == 0

\* The first entry of the timer is removed, if there is one.
Remaining == IF entries = 0 THEN 0 ELSE entries - 1

RemoveTimer(a) ==
    /\ \/ Return(a, "removeTimer")
       \/ Go(a, "removeTimerAndWait", "waitRuns")
    /\ entries' = Remaining
    /\ UNCHANGED <<flagStarted, nCountRun, holder, inside, quiet>>

\* Faulty variants: the last run is not waited for; one that never ran is.
NoRuns_ButOne == nCountRun <= 1
NoRuns_Negative == nCountRun < 0

NoRuns == nCountRun <= 0

EndWait(a) ==
    /\ NoRuns /\ Return(a, "waitRuns")
    /\ quiet' = (quiet \/ ~flagStarted)
    /\ UNCHANGED <<flagStarted, nCountRun, entries, holder, inside>>

-----------------------------------------------------------------------------
(* The loop's pass over its timers, and run                                *)

\* _getTimeout_Timer collects the timer where it has an entry, is started, and its
\* interval has passed since it was collected last.
Collect ==
    /\ entries > 0 /\ flagStarted /\ Go(Loop, "loop", "run")
    /\ UNCHANGED <<flagStarted, nCountRun, entries, holder, inside, quiet>>

\* A timer that was stopped since is not run.
RunStopped(a) ==
    /\ LockFree /\ ~flagStarted /\ Return(a, "run")
    /\ UNCHANGED <<flagStarted, nCountRun, entries, holder, inside, quiet>>

MayRun == nCountRun + 1 <= MaxConcurrent

Run(a) ==
    /\ LockFree /\ flagStarted
    /\ nCountRun' = nCountRun + 1
    /\ \/ MayRun /\ Go(a, "run", "task") /\ inside' = [inside EXCEPT ![a] = "run"]
          /\ UNCHANGED holder
       \/ ~MayRun /\ Go(a, "run", "skip") /\ holder' = a /\ UNCHANGED inside
    /\ UNCHANGED <<flagStarted, entries, quiet>>

Skip(a) ==
    /\ Return(a, "skip") /\ nCountRun' = nCountRun - 1 /\ holder' = Nobody
    /\ UNCHANGED <<flagStarted, entries, inside, quiet>>

\* The run is counted down without the lock; a task that start ran goes on to add
\* the timer's entry.
EndTask(a) ==
    /\ Go(a, "task", IF inside[a] = "now" THEN "addTimer"
                     ELSE IF a = Loop THEN "loop" ELSE "outside")
    /\ inside' = [inside EXCEPT ![a] = "none"]
    /\ nCountRun' = IF inside[a] = "run" THEN nCountRun - 1 ELSE nCountRun
    /\ UNCHANGED <<flagStarted, entries, holder, quiet>>

-----------------------------------------------------------------------------
Proceed(a) == AddTimer(a) \/ RemoveTimer(a) \/ Skip(a)
Acquire(a) == Start(a) \/ AlreadyDone(a) \/ Stop(a) \/ RunStopped(a) \/ Run(a)

Next == Collect \/ \E a \in Actors : Call(a) \/ Proceed(a) \/ Acquire(a) \/ EndWait(a) \/ EndTask(a)

\* A thread inside an operation runs on, the timer's lock is taken at last by who
\* wants it, a wait ends that could end again and again, and the task ends.
Fairness == \A a \in Actors :
    /\ WF_vars(Proceed(a)) /\ SF_vars(Acquire(a)) /\ SF_vars(EndWait(a)) /\ SF_vars(EndTask(a))

Spec == Init /\ [][Next]_vars /\ Fairness

-----------------------------------------------------------------------------
Steps == {"outside", "loop", "task", "start", "startNow", "stop", "stopAndWait", "addTimer",
          "removeTimer", "removeTimerAndWait", "waitRuns", "run", "skip"}

TypeOK ==
    /\ flagStarted \in BOOLEAN /\ nCountRun \in 0 .. Cardinality(Actors)
    /\ entries \in 0 .. MaxEntries /\ holder \in Actors \cup {Nobody}
    /\ pc \in [Actors -> Steps] /\ inside \in [Actors -> {"none", "run", "now"}]
    /\ quiet \in BOOLEAN

Running == {a \in Actors : inside[a] = "run"}

\* run() never has more threads inside the task than setMaxConcurrentThread allows,
\* though a run that is skipped is counted for a moment and a run that ends is
\* counted down without the lock.
RunsLimited == Cardinality(Running) <= MaxConcurrent

\* Once no start or stop is in progress, a timer that is started is in the loop's
\* queue.  A stop removes the entry after it gave the timer's lock back, and a start
\* adds its entry later still, so they may meet in the queue in any order.
StartedIsQueued == flagStarted /\ Added = 0 /\ Removed = 0 => entries > 0

\* After stopAndWait() has returned, and until the timer is started again, no thread
\* is inside a task that run() called, or ever will be.
QuietAfterStopAndWait == quiet => Running = {}

\* stopAndWait() returns, though the timer may be started again meanwhile, unless it
\* is called by the task itself: then it waits for its own end.
StopAndWaitReturns == \A a \in Actors :
    pc[a] = "waitRuns" ~> pc[a] # "waitRuns" \/ \E b \in Running : pc[b] = "waitRuns"
=============================================================================
