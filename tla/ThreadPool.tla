---------------------------- MODULE ThreadPool ----------------------------
(***************************************************************************)
(* ThreadPool: tasks are queued under the pool's lock, which also guards   *)
(* the list of the workers and the queue of the sleeping ones; the workers *)
(* take the tasks without it.  release() stops the workers and waits for   *)
(* them with the lock in its hands.                                        *)
(*                                                                         *)
(* A worker is a thread that runs _runWorker.  While it is inside a task   *)
(* it may itself call the pool, as any other caller does.  A section under *)
(* the lock that no other thread can see into is one step.                 *)
(***************************************************************************)
EXTENDS Naturals, Sequences, SequencesExt, FiniteSets, FiniteSetsExt

CONSTANTS
    Callers,        \* threads outside the pool that use it
    Workers,        \* threads the pool may start
    Tasks,          \* the tasks that are added, each at most once
    Minimums,       \* the values m_minimumThreadCount is given
    Maximums,       \* the values m_maximumThreadCount is given
    Recurring,      \* whether the pool was created with m_task
    StartMayFail,   \* whether Thread::start may fail
    Nobody

ASSUME ConstantsAssumption ==
    /\ Callers \cap Workers = {} /\ Nobody \notin Callers \cup Workers
    /\ Nobody \notin Tasks
    /\ Minimums \subseteq Nat /\ Maximums \subseteq Nat /\ IsFiniteSet(Maximums)
    /\ Recurring \in BOOLEAN /\ StartMayFail \in BOOLEAN

VARIABLES
    flagRunning,    \* m_flagRunning
    holder,         \* who has the pool's lock for more than one step
    threadWorkers,  \* m_threadWorkers
    threadSleeping, \* m_threadSleeping
    tasks,          \* m_tasks
    limits,         \* m_minimumThreadCount, m_maximumThreadCount
    threads,        \* each worker's Thread: m_flagRequestStop, m_eventWaiting, m_eventWake
    pc,             \* the step each thread is at
    running,        \* the task each worker is inside
    at,             \* the worker release() is at
    left,           \* tasks that were not added yet
    unserved        \* tasks added since a worker was last woken or started (history)

vars == <<flagRunning, holder, threadWorkers, threadSleeping, tasks, limits, threads, pc,
          running, at, left, unserved>>
pool == <<flagRunning, holder, threadWorkers, threadSleeping, tasks, limits>>
history == <<left, unserved>>

Actors == Callers \cup Workers
NewThread == [stop |-> FALSE, waiting |-> FALSE, signal |-> FALSE]

Init ==
    /\ flagRunning = TRUE /\ holder = Nobody
    /\ threadWorkers = <<>> /\ threadSleeping = <<>> /\ tasks = <<>>
    /\ limits \in [min : Minimums, max : Maximums]
    /\ threads = [w \in Workers |-> NewThread]
    /\ pc = [a \in Actors |-> IF a \in Callers THEN "outside" ELSE "off"]
    /\ running = [w \in Workers |-> Nobody]
    /\ at = 1
    /\ left = Tasks /\ unserved = {}

Go(a, from, to) == pc[a] = from /\ pc' = [pc EXCEPT ![a] = to]
Outside(a) == IF a \in Callers THEN "outside" ELSE "task"
Return(a, from) == Go(a, from, Outside(a))
LockFree == holder = Nobody

\* Thread::isRunning: from start to the end of _run.
IsRunning(w) == pc[w] # "off"

-----------------------------------------------------------------------------
(* addTask, wake                                                           *)
Call(a) ==
    /\ \E op \in {"addTask", "wake", "release"} : Go(a, Outside(a), op)
    /\ UNCHANGED <<pool, threads, running, at, history>>

\* A task is not accepted once the pool was released.
AddTask(a) ==
    /\ LockFree /\ flagRunning
    /\ \E t \in left, flagUrgent \in BOOLEAN :
          /\ tasks' = IF flagUrgent THEN <<t>> \o tasks ELSE Append(tasks, t)
          /\ left' = left \ {t} /\ unserved' = unserved \cup {t}
    /\ holder' = a /\ Go(a, "addTask", "_wake")
    /\ UNCHANGED <<flagRunning, threadWorkers, threadSleeping, limits, threads, running, at>>

Wake(a) ==
    /\ LockFree /\ flagRunning /\ holder' = a /\ Go(a, "wake", "_wake")
    /\ UNCHANGED <<flagRunning, threadWorkers, threadSleeping, tasks, limits, threads, running,
                   at, history>>

Refused(a) ==
    /\ LockFree /\ ~flagRunning
    /\ \E op \in {"addTask", "wake", "release"} : Return(a, op)
    /\ UNCHANGED <<pool, threads, running, at, history>>

\* A null task is not added; the lock is not asked for.
AddNull(a) ==
    /\ Return(a, "addTask")
    /\ UNCHANGED <<pool, threads, running, at, history>>

\* Faulty variant: the worker is woken only if it waits already.
WakeSleeping_IfWaiting(a) ==
    /\ threadSleeping # <<>>
    /\ threadSleeping' = Tail(threadSleeping)
    /\ threads' = [threads EXCEPT ![Head(threadSleeping)].signal =
                                      threads[Head(threadSleeping)].waiting]
    /\ holder' = Nobody /\ Return(a, "_wake") /\ unserved' = {}
    /\ UNCHANGED <<flagRunning, threadWorkers, tasks, limits, running, at, left>>

\* _wake: a worker that sleeps is woken,
WakeSleeping(a) ==
    /\ threadSleeping # <<>>
    /\ threadSleeping' = Tail(threadSleeping)
    /\ threads' = [threads EXCEPT ![Head(threadSleeping)].signal = TRUE]
    /\ holder' = Nobody /\ Return(a, "_wake") /\ unserved' = {}
    /\ UNCHANGED <<flagRunning, threadWorkers, tasks, limits, running, at, left>>

MayStart == threadWorkers = <<>> \/ Len(threadWorkers) < limits.max

\* or else one more is started,
StartWorker(a) ==
    /\ threadSleeping = <<>> /\ MayStart
    /\ \E w \in Workers \ Range(threadWorkers) :
          /\ pc[w] = "off" /\ pc[a] = "_wake"
          /\ threads' = [threads EXCEPT ![w] = NewThread]
          /\ pc' = [pc EXCEPT ![w] = "while", ![a] = Outside(a)]
          /\ threadWorkers' = Append(threadWorkers, w)
    /\ holder' = Nobody /\ unserved' = {}
    /\ UNCHANGED <<flagRunning, threadSleeping, tasks, limits, running, at, left>>

\* or the task is left to whoever takes the next one.
WakeNobody(a) ==
    /\ threadSleeping = <<>> /\ (~MayStart \/ StartMayFail)
    /\ holder' = Nobody /\ Return(a, "_wake")
    /\ UNCHANGED <<flagRunning, threadWorkers, threadSleeping, tasks, limits, threads, running,
                   at, history>>

\* setMinimumThreadCount, setMaximumThreadCount: without the lock.
SetLimits(a) ==
    /\ pc[a] = Outside(a)
    /\ \/ \E n \in Minimums : limits' = [limits EXCEPT !.min = n]
       \/ \E n \in Maximums : limits' = [limits EXCEPT !.max = n]
    /\ UNCHANGED <<flagRunning, holder, threadWorkers, threadSleeping, tasks, threads, pc,
                   running, at, history>>

-----------------------------------------------------------------------------
(* _runWorker, _processTask                                                *)
While(w) ==
    /\ Go(w, "while", IF flagRunning /\ ~threads[w].stop THEN "_processTask" ELSE "return")
    /\ UNCHANGED <<pool, threads, running, at, history>>

TakeTask(w) ==
    /\ tasks # <<>>
    /\ Go(w, "_processTask", "task")
    /\ running' = [running EXCEPT ![w] = Head(tasks)] /\ tasks' = Tail(tasks)
    /\ UNCHANGED <<flagRunning, holder, threadWorkers, threadSleeping, limits, threads, at,
                   history>>

EndTask(w) ==
    /\ Go(w, "task", "while") /\ running' = [running EXCEPT ![w] = Nobody]
    /\ UNCHANGED <<pool, threads, at, history>>

\* Without a task m_task is run, if there is one; it says whether there was work.
NoTask(w) ==
    /\ tasks = <<>>
    /\ \/ Go(w, "_processTask", "idle")
       \/ Recurring /\ Go(w, "_processTask", "while")
    /\ UNCHANGED <<pool, threads, running, at, history>>

\* A worker without work leaves the pool where there are more than the minimum,
LeavePool(w) ==
    /\ LockFree /\ Len(threadWorkers) > limits.min
    /\ Go(w, "idle", "return")
    /\ \E i \in 1 .. Len(threadWorkers) :
          threadWorkers[i] = w /\ threadWorkers' = RemoveAt(threadWorkers, i)
    /\ UNCHANGED <<flagRunning, holder, threadSleeping, tasks, limits, threads, running, at,
                   history>>

\* Faulty variant: the worker goes to sleep and tells nobody.
GoToSleep_Unlisted(w) ==
    /\ LockFree /\ Len(threadWorkers) <= limits.min
    /\ Go(w, "idle", "wait")
    /\ UNCHANGED <<pool, threads, running, at, history>>

\* else it sleeps,
GoToSleep(w) ==
    /\ LockFree /\ Len(threadWorkers) <= limits.min
    /\ Go(w, "idle", "wait")
    /\ threadSleeping' = Append(threadSleeping, w)
    /\ UNCHANGED <<flagRunning, holder, threadWorkers, tasks, limits, threads, running, at,
                   history>>

\* Thread::wait, Event::wait: not where the thread is asked to stop already;
Wait(w) ==
    /\ Go(w, "wait", IF threads[w].stop THEN "while" ELSE "setWaiting")
    /\ UNCHANGED <<pool, threads, running, at, history>>

\* Faulty variant: the event is reset before the wait.
SetWaiting_Resets(w) ==
    /\ Go(w, "setWaiting", "doWait")
    /\ threads' = [threads EXCEPT ![w].waiting = TRUE, ![w].signal = FALSE]
    /\ UNCHANGED <<pool, running, at, history>>

SetWaiting(w) ==
    /\ Go(w, "setWaiting", "doWait")
    /\ threads' = [threads EXCEPT ![w].waiting = TRUE]
    /\ UNCHANGED <<pool, running, at, history>>

\* doWait looks at the signal and at the request under the event's mutex; a thread
\* that blocks there sees the signal only.  The event resets itself.
DoWait(w) ==
    /\ \/ /\ threads[w].signal \/ threads[w].stop
          /\ Go(w, "doWait", "woken")
          /\ threads' = [threads EXCEPT ![w].signal = FALSE]
       \/ /\ ~threads[w].signal /\ ~threads[w].stop
          /\ Go(w, "doWait", "blocked") /\ UNCHANGED threads
    /\ UNCHANGED <<pool, running, at, history>>

Unblock(w) ==
    /\ threads[w].signal
    /\ Go(w, "blocked", "woken")
    /\ threads' = [threads EXCEPT ![w].signal = FALSE]
    /\ UNCHANGED <<pool, running, at, history>>

Woken(w) ==
    /\ Go(w, "woken", "while")
    /\ threads' = [threads EXCEPT ![w].waiting = FALSE]
    /\ UNCHANGED <<pool, running, at, history>>

EndThread(w) ==
    /\ Go(w, "return", "off")
    /\ UNCHANGED <<pool, threads, running, at, history>>

-----------------------------------------------------------------------------
(* release: Thread::finish for every worker, then Thread::finishAndWait    *)
Release(a) ==
    /\ LockFree /\ flagRunning
    /\ flagRunning' = FALSE /\ holder' = a /\ at' = 1
    /\ Go(a, "release", "finish")
    /\ UNCHANGED <<threadWorkers, threadSleeping, tasks, limits, threads, running, history>>

Current == threadWorkers[at]
AtEnd == at > Len(threadWorkers)
RequestStop == threads' = [threads EXCEPT ![Current].stop = TRUE]

\* Thread::wake sets the event the thread waits for, if it waits.
WakeThread == threads' = [threads EXCEPT ![Current].signal = @ \/ threads[Current].waiting]

Finish(a) ==
    /\ ~AtEnd
    /\ \/ /\ IsRunning(Current) /\ RequestStop
          /\ Go(a, "finish", "finishWake") /\ UNCHANGED at
       \/ /\ ~IsRunning(Current) /\ at' = at + 1
          /\ pc[a] = "finish" /\ UNCHANGED <<threads, pc>>
    /\ UNCHANGED <<pool, running, history>>

FinishWake(a) ==
    /\ Go(a, "finishWake", "finish") /\ WakeThread /\ at' = at + 1
    /\ UNCHANGED <<pool, running, history>>

FinishedAll(a) ==
    /\ AtEnd /\ Go(a, "finish", "finishAndWait") /\ at' = 1
    /\ UNCHANGED <<pool, threads, running, history>>

\* Faulty variants: the workers that sleep are not waited for; a worker that releases
\* the pool waits for itself.
WaitFor_NotSleeping(w, a) == w # a /\ IsRunning(w) /\ ~threads[w].waiting
WaitFor_Itself(w, a) == IsRunning(w)

\* A worker that releases the pool from inside a task does not wait for itself;
\* the others are woken again and again until they have ended.
WaitFor(w, a) == w # a /\ IsRunning(w)

FinishAndWait(a) ==
    /\ ~AtEnd
    /\ \/ /\ WaitFor(Current, a) /\ WakeThread
          /\ pc[a] = "finishAndWait" /\ UNCHANGED <<at, pc>>
       \/ /\ ~WaitFor(Current, a) /\ at' = at + 1
          /\ pc[a] = "finishAndWait" /\ UNCHANGED <<threads, pc>>
    /\ UNCHANGED <<pool, running, history>>

Released(a) ==
    /\ AtEnd /\ holder' = Nobody /\ Return(a, "finishAndWait")
    /\ UNCHANGED <<flagRunning, threadWorkers, threadSleeping, tasks, limits, threads, running,
                   at, history>>

-----------------------------------------------------------------------------
(* The next-state relation                                                 *)

\* Steps inside an operation that need no lock, and those that take the lock.
Proceed(a) == WakeSleeping(a) \/ StartWorker(a) \/ WakeNobody(a)
              \/ Finish(a) \/ FinishWake(a) \/ FinishedAll(a) \/ FinishAndWait(a)
              \/ Released(a)
Acquire(a) == AddTask(a) \/ AddNull(a) \/ Wake(a) \/ Refused(a) \/ Release(a)

Work(w) == While(w) \/ TakeTask(w) \/ NoTask(w) \/ Wait(w) \/ SetWaiting(w) \/ DoWait(w)
           \/ Unblock(w) \/ Woken(w) \/ EndThread(w)
Rest(w) == LeavePool(w) \/ GoToSleep(w)

Next ==
    \/ \E a \in Actors : Call(a) \/ SetLimits(a) \/ Acquire(a) \/ Proceed(a)
    \/ \E w \in Workers : Work(w) \/ Rest(w) \/ EndTask(w)

\* Threads run on, a lock that is free again and again is taken at last, and a task
\* ends, whatever it asks of the pool meanwhile.
Fairness ==
    /\ \A a \in Actors : WF_vars(Proceed(a)) /\ SF_vars(Acquire(a))
    /\ \A w \in Workers : WF_vars(Work(w)) /\ SF_vars(Rest(w)) /\ SF_vars(EndTask(w))

Spec == Init /\ [][Next]_vars /\ Fairness

-----------------------------------------------------------------------------
CallSteps == {"addTask", "wake", "_wake", "release", "finish", "finishWake", "finishAndWait"}
WaitSteps == {"wait", "setWaiting", "doWait", "blocked"}

TypeOK ==
    /\ flagRunning \in BOOLEAN /\ holder \in Actors \cup {Nobody}
    /\ threadWorkers \in Seq(Workers) /\ IsInjective(threadWorkers)
    /\ threadSleeping \in Seq(Workers) /\ IsInjective(threadSleeping)
    /\ tasks \in Seq(Tasks) /\ IsInjective(tasks)
    /\ limits \in [min : Minimums, max : Maximums]
    /\ threads \in [Workers -> [stop : BOOLEAN, waiting : BOOLEAN, signal : BOOLEAN]]
    /\ pc \in [Actors -> CallSteps \cup WaitSteps \cup
                {"outside", "off", "while", "_processTask", "task", "idle", "woken", "return"}]
    /\ running \in [Workers -> Tasks \cup {Nobody}]
    /\ at \in Nat \ {0}
    /\ left \subseteq Tasks /\ unserved \subseteq Tasks

\* Workers that look into the queue before they sleep or leave.
Looking == {w \in Workers : \/ pc[w] \in {"while", "_processTask", "woken"}
                            \/ running[w] # Nobody
                            \/ pc[w] \in WaitSteps /\ threads[w].signal}

\* No more tasks run at a time than the largest limit allows, though threads that
\* left the pool still exist and the limit changes under the pool.
LimitKept == Cardinality({w \in Workers : running[w] # Nobody}) <= Max(Maximums \cup {1})

\* m_threadSleeping lists exactly the workers that _wake must wake: a worker that
\* waits without a signal can be found, and no signal is spent on one that does not
\* wait, although a worker is listed before it waits and woken before it blocks.
SleepersExact ==
    flagRunning => Range(threadSleeping) = {w \in Workers : /\ pc[w] \in WaitSteps
                                                            /\ ~threads[w].signal}

\* The three together: no more tasks at a time than the limit allows, and a list of sleepers
\* that _wake() can rely on.
Inv == TypeOK /\ LimitKept /\ SleepersExact

\* Where tasks stay in the queue and no worker is on its way to them, they were all
\* added after a worker was last woken or started: the wake-up of addTask serves its
\* own task and every task before it.
OnlyUnservedStranded ==
    flagRunning /\ Looking = {} /\ ~(\E a \in Actors : pc[a] = "_wake")
        => Range(tasks) \subseteq unserved

\* Once release() has returned no worker takes a task or waits, and all have ended
\* but those that left the pool before and one that released it from inside its
\* task.
ReleasedIsQuiet ==
    ~flagRunning /\ LockFree =>
        /\ \A w \in Workers : pc[w] \notin WaitSteps \cup {"_processTask", "idle", "woken"}
        /\ Cardinality({w \in Workers : pc[w] \notin {"off", "return"}}) <= 1

\* A task that was added is run, if the pool is not released before, as soon as some
\* worker looks: none is forgotten and none starves.
TasksServed == \A t \in Tasks :
    (t \in Range(tasks) /\ Looking # {}) ~> (t \notin Range(tasks) \/ ~flagRunning)

\* release() returns, unless a worker it waits for wants the pool's lock: to leave
\* the pool, to go to sleep, or to use the pool from inside a task.
ReleaseReturns == \A a \in Actors :
    pc[a] = "finish" ~> \/ pc[a] = Outside(a)
                        \/ \E w \in Range(threadWorkers) \ {a} :
                              pc[w] \in {"idle", "addTask", "wake", "release"}

\* What thread_pool.h says of setMaximumThreadCount: "0 means unlimited count", so a
\* task that is added finds a worker, one that sleeps or a new one.
ZeroIsUnlimited ==
    [][\A a \in Actors : limits.max = 0 /\ pc[a] = "_wake" /\ pc'[a] # "_wake"
          => threadWorkers' # threadWorkers \/ threadSleeping' # threadSleeping]_vars
=============================================================================
