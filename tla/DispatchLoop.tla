--------------------------- MODULE DispatchLoop ---------------------------
(***************************************************************************)
(* DispatchLoop: one thread runs the tasks that others dispatch, at once   *)
(* or after a delay, and sleeps between; ThreadService starts and stops    *)
(* that thread.  The two queues have locks of their own.  The loop's lock  *)
(* guards the thread, and stop() waits for the thread with it in its hand. *)
(*                                                                         *)
(* A thread of the loop inside a task may call the loop as other callers   *)
(* do; once it has stopped the loop from there another thread may be       *)
(* started beside it.  The object outlives the model: its count, and the   *)
(* timers, are other modules' concern.                                     *)
(***************************************************************************)
EXTENDS Integers, Sequences, SequencesExt, FiniteSets, FiniteSetsExt

CONSTANTS
    Callers,    \* threads outside the loop
    Loops,      \* threads that may be started to run the loop
    Tasks,      \* tasks, each dispatched at most once
    Delays,     \* delayMillis of those that are delayed
    MaxWait,    \* the longest sleep (10000 in the code)
    MaxTime,    \* bound: the clock of the model stops there
    Nobody

ASSUME ConstantsAssumption ==
    /\ Callers \cap Loops = {} /\ Nobody \notin Callers \cup Loops \cup Tasks
    /\ Delays \subseteq Nat \ {0} /\ MaxWait \in Nat \ {0} /\ MaxTime \in Nat

VARIABLES
    now,        \* getElapsedMilliseconds
    service,    \* m_serviceThread, m_flagReleasedService
    holder,     \* who has the loop's lock for more than one step
    queueTasks, \* m_queueTasks
    timeTasks,  \* m_timeTasks: a task and the time it is due
    threads,    \* each Thread: m_flagRequestStop, m_eventWaiting, m_eventWake
    pc,         \* the step each thread is at
    local,      \* what a thread of the loop has taken and computed in this pass
    target,     \* the thread that a call of stop or release waits for
    left, ran   \* tasks not dispatched yet, tasks that were run (history)

vars == <<now, service, holder, queueTasks, timeTasks, threads, pc, local, target, left, ran>>
queues == <<queueTasks, timeTasks>>
history == <<left, ran>>

Actors == Callers \cup Loops
NewThread == [stop |-> FALSE, waiting |-> FALSE, signal |-> FALSE]

\* tasks and due: taken from the queues; phase: which of them is being run; timeout:
\* what _getTimeout returns, -1 for none; rel: when it looked at the clock; from,
\* until: the sleep.  What a pass computed is forgotten when its sleep is over.
NewPass == [tasks |-> <<>>, due |-> {}, phase |-> "runTasks", timeout |-> -1, rel |-> 0,
            from |-> 0, until |-> 0]

Init ==
    /\ now = 0
    /\ service = [thread |-> Nobody, released |-> FALSE] /\ holder = Nobody
    /\ queueTasks = <<>> /\ timeTasks = {}
    /\ threads = [l \in Loops |-> NewThread]
    /\ pc = [a \in Actors |-> IF a \in Callers THEN "outside" ELSE "off"]
    /\ local = [l \in Loops |-> NewPass]
    /\ target = [a \in Actors |-> Nobody]
    /\ left = Tasks /\ ran = {}

Go(a, from, to) == pc[a] = from /\ pc' = [pc EXCEPT ![a] = to]
IsRunning(l) == pc[l] # "off"
LockFree == holder = Nobody

\* A loop thread returns from a call into the task that made it: one of the queue
\* or one that was due.
Outside(a) == IF a \in Callers THEN "outside" ELSE "task"
Return(a, from) == Go(a, from, Outside(a))

Tick == /\ now < MaxTime /\ now' = now + 1
        /\ UNCHANGED <<service, holder, queues, threads, pc, local, target, history>>

-----------------------------------------------------------------------------
(* dispatch                                                                *)
Call(a) ==
    /\ \E op \in {"dispatch", "start", "stop", "release"} : Go(a, Outside(a), op)
    /\ UNCHANGED <<now, service, holder, queues, threads, local, target, history>>

DispatchNull(a) ==
    /\ Return(a, "dispatch")
    /\ UNCHANGED <<now, service, holder, queues, threads, local, target, history>>

Dispatch(a) ==
    /\ Go(a, "dispatch", "_wake")
    /\ \E t \in left :
          /\ left' = left \ {t}
          /\ \/ queueTasks' = Append(queueTasks, t) /\ UNCHANGED timeTasks
             \/ /\ \E delay \in Delays :
                      timeTasks' = timeTasks \cup {[task |-> t, time |-> now + delay]}
                /\ UNCHANGED queueTasks
    /\ UNCHANGED <<now, service, holder, threads, local, target, ran>>

\* Faulty variant: the thread is woken only if it waits already.
Wake_IfWaiting(a) ==
    /\ LockFree /\ Return(a, "_wake")
    /\ threads' = IF service.thread = Nobody THEN threads
                  ELSE [threads EXCEPT ![service.thread].signal = @ \/
                                           threads[service.thread].waiting]
    /\ UNCHANGED <<now, service, holder, queues, local, target, history>>

Wake(a) ==
    /\ LockFree /\ Return(a, "_wake")
    /\ threads' = IF service.thread = Nobody THEN threads
                  ELSE [threads EXCEPT ![service.thread].signal = TRUE]
    /\ UNCHANGED <<now, service, holder, queues, local, target, history>>

-----------------------------------------------------------------------------
(* ThreadService: start, stop, release                                     *)

\* Nothing is done where the service was released or is in that state already; a
\* thread may fail to start.
Refused(a) ==
    /\ LockFree
    /\ \/ Return(a, "start")
       \/ (service.released \/ service.thread = Nobody) /\ Return(a, "stop")
       \/ service.released /\ Go(a, "release", "clearTasks")
    /\ UNCHANGED <<now, service, holder, queues, threads, local, target, history>>

\* Faulty variant: a service that was stopped before is not asked for its thread.
MayStart_Always == ~service.released

MayStart == ~service.released /\ service.thread = Nobody

Start(a) ==
    /\ LockFree /\ MayStart /\ pc[a] = "start"
    /\ \E l \in Loops :
          /\ pc[l] = "off" /\ service' = [service EXCEPT !.thread = l]
          /\ threads' = [threads EXCEPT ![l] = NewThread]
          /\ local' = [local EXCEPT ![l] = NewPass]
          /\ pc' = [pc EXCEPT ![l] = "while", ![a] = Outside(a)]
    /\ UNCHANGED <<now, holder, queues, target, history>>

Stop(a) ==
    /\ LockFree /\ ~service.released /\ service.thread # Nobody
    /\ Go(a, "stop", "finishAndWait")
    /\ target' = [target EXCEPT ![a] = service.thread]
    /\ service' = [service EXCEPT !.thread = Nobody] /\ holder' = a
    /\ UNCHANGED <<now, queues, threads, local, history>>

\* release gives the lock back before it waits.
Release(a) ==
    /\ LockFree /\ ~service.released
    /\ Go(a, "release", IF service.thread = Nobody THEN "clearTasks" ELSE "finishAndWait")
    /\ target' = [target EXCEPT ![a] = service.thread]
    /\ service' = [thread |-> Nobody, released |-> TRUE]
    /\ UNCHANGED <<now, holder, queues, threads, local, history>>

\* The lock is the caller's only where it came here from stop.
AfterWait(a) ==
    /\ target' = [target EXCEPT ![a] = Nobody]
    /\ \/ holder = a /\ holder' = Nobody /\ Return(a, "finishAndWait")
       \/ holder # a /\ UNCHANGED holder /\ Go(a, "finishAndWait", "clearTasks")

\* Faulty variant: a thread that stops its own loop waits for itself.
WaitFor_Itself(a) == IsRunning(target[a])

WaitFor(a) == target[a] # a /\ IsRunning(target[a])

\* Thread::finishAndWait: a thread does not wait for itself, but asks itself to stop;
\* another thread is asked and woken again and again until it has ended.
FinishAndWait(a) ==
    /\ pc[a] = "finishAndWait"
    /\ IF WaitFor(a)
       THEN /\ Go(a, "finishAndWait", "finishWake") /\ UNCHANGED <<holder, target>>
            /\ threads' = [threads EXCEPT ![target[a]].stop = TRUE]
       ELSE /\ AfterWait(a)
            /\ threads' = [threads EXCEPT ![target[a]].stop = @ \/ target[a] = a]
    /\ UNCHANGED <<now, service, queues, local, history>>

FinishWake(a) ==
    /\ Go(a, "finishWake", "finishAndWait")
    /\ threads' = [threads EXCEPT ![target[a]].signal = @ \/ threads[target[a]].waiting]
    /\ UNCHANGED <<now, service, holder, queues, local, target, history>>

\* DispatchLoop::release: what was not run is dropped.
ClearTasks(a) ==
    /\ Go(a, "clearTasks", "clearTimed") /\ queueTasks' = <<>>
    /\ UNCHANGED <<now, service, holder, timeTasks, threads, local, target, history>>

ClearTimed(a) ==
    /\ Return(a, "clearTimed") /\ timeTasks' = {}
    /\ UNCHANGED <<now, service, holder, queueTasks, threads, local, target, history>>

-----------------------------------------------------------------------------
(* _runLoop, _getTimeout                                                   *)
While(l) ==
    /\ Go(l, "while", IF threads[l].stop THEN "return" ELSE "merge")
    /\ UNCHANGED <<now, service, holder, queues, threads, local, target, history>>

Merge(l) ==
    /\ Go(l, "merge", "runTasks")
    /\ local' = [local EXCEPT ![l].tasks = queueTasks, ![l].phase = "runTasks"]
    /\ queueTasks' = <<>>
    /\ UNCHANGED <<now, service, holder, timeTasks, threads, target, history>>

RunTask(l) ==
    /\ local[l].tasks # <<>> /\ Go(l, "runTasks", "task")
    /\ local' = [local EXCEPT ![l].tasks = Tail(@)]
    /\ ran' = ran \cup {Head(local[l].tasks)}
    /\ UNCHANGED <<now, service, holder, queues, threads, target, left>>

IsDue(r) == now >= r.time
Later == {r \in timeTasks : ~IsDue(r)}

UntilNext == IF Later = {} THEN -1 ELSE Min({r.time : r \in Later}) - now

\* _getTimeout_TimeTasks: the tasks that are due are taken; the time that is left to
\* the next one is computed before they run.
TakeDue(l) ==
    /\ local[l].tasks = <<>> /\ Go(l, "runTasks", "runDue")
    /\ local' = [local EXCEPT ![l].due = {r \in timeTasks : IsDue(r)}, ![l].phase = "runDue",
                              ![l].timeout = UntilNext, ![l].rel = now]
    /\ timeTasks' = Later
    /\ UNCHANGED <<now, service, holder, queueTasks, threads, target, history>>

RunDue(l) ==
    /\ Go(l, "runDue", "task")
    /\ \E r \in local[l].due :
          /\ \A s \in local[l].due : r.time <= s.time
          /\ local' = [local EXCEPT ![l].due = @ \ {r}]
          /\ ran' = ran \cup {r.task}
    /\ UNCHANGED <<now, service, holder, queues, threads, target, left>>

EndTask(l) ==
    /\ Go(l, "task", local[l].phase)
    /\ UNCHANGED <<now, service, holder, queues, threads, local, target, history>>

\* There is no sleep where a task was queued meanwhile.
Timeout(l) ==
    /\ local[l].due = {}
    /\ Go(l, "runDue", IF queueTasks # <<>> THEN "while" ELSE "wait")
    /\ local' = IF queueTasks # <<>> THEN [local EXCEPT ![l] = NewPass] ELSE local
    /\ UNCHANGED <<now, service, holder, queues, threads, target, history>>

\* Thread::wait, Event::wait: not where the thread is asked to stop already;
Wait(l) ==
    /\ Go(l, "wait", IF threads[l].stop THEN "while" ELSE "setWaiting")
    /\ local' = IF threads[l].stop THEN [local EXCEPT ![l] = NewPass] ELSE local
    /\ UNCHANGED <<now, service, holder, queues, threads, target, history>>

SetWaiting(l) ==
    /\ Go(l, "setWaiting", "doWait")
    /\ threads' = [threads EXCEPT ![l].waiting = TRUE]
    /\ UNCHANGED <<now, service, holder, queues, local, target, history>>

Sleep(l) == LET t == local[l].timeout IN IF t < 0 \/ t > MaxWait THEN MaxWait ELSE t

DoWait(l) ==
    /\ \/ /\ threads[l].signal \/ threads[l].stop
          /\ Go(l, "doWait", "woken") /\ local' = [local EXCEPT ![l] = NewPass]
          /\ threads' = [threads EXCEPT ![l].signal = FALSE]
       \/ /\ ~threads[l].signal /\ ~threads[l].stop
          /\ Go(l, "doWait", "blocked") /\ UNCHANGED threads
          /\ local' = [local EXCEPT ![l].from = now, ![l].until = now + Sleep(l)]
    /\ UNCHANGED <<now, service, holder, queues, target, history>>

\* The wait resets the event however it ends.
Unblock(l) ==
    /\ threads[l].signal \/ now >= local[l].until
    /\ Go(l, "blocked", "woken")
    /\ threads' = [threads EXCEPT ![l].signal = FALSE]
    /\ local' = [local EXCEPT ![l] = NewPass]
    /\ UNCHANGED <<now, service, holder, queues, target, history>>

Woken(l) ==
    /\ Go(l, "woken", "while")
    /\ threads' = [threads EXCEPT ![l].waiting = FALSE]
    /\ UNCHANGED <<now, service, holder, queues, local, target, history>>

EndThread(l) ==
    /\ Go(l, "return", "off")
    /\ UNCHANGED <<now, service, holder, queues, threads, local, target, history>>

-----------------------------------------------------------------------------
Proceed(a) == \/ Dispatch(a) \/ DispatchNull(a) \/ FinishAndWait(a) \/ FinishWake(a)
              \/ ClearTasks(a) \/ ClearTimed(a)
Acquire(a) == Wake(a) \/ Refused(a) \/ Start(a) \/ Stop(a) \/ Release(a)
Work(l) == \/ While(l) \/ Merge(l) \/ RunTask(l) \/ TakeDue(l) \/ RunDue(l) \/ Timeout(l)
           \/ Wait(l) \/ SetWaiting(l) \/ DoWait(l) \/ Unblock(l) \/ Woken(l) \/ EndThread(l)

Next ==
    \/ Tick
    \/ \E a \in Actors : Call(a) \/ Proceed(a) \/ Acquire(a)
    \/ \E l \in Loops : Work(l) \/ EndTask(l)

\* Threads run on, a lock that is free again and again is taken at last, and a task
\* ends, whatever it asks of the loop meanwhile.  Time need not pass.
Fairness ==
    /\ \A a \in Actors : WF_vars(Proceed(a)) /\ SF_vars(Acquire(a))
    /\ \A l \in Loops : WF_vars(Work(l)) /\ SF_vars(EndTask(l))

Spec == Init /\ [][Next]_vars /\ Fairness

-----------------------------------------------------------------------------
CallSteps == {"dispatch", "_wake", "start", "stop", "release", "finishAndWait", "finishWake",
              "clearTasks", "clearTimed"}
LoopSteps == {"off", "while", "merge", "runTasks", "runDue", "task", "wait", "setWaiting",
              "doWait", "blocked", "woken", "return"}
TimeTask == [task : Tasks, time : Nat]

TypeOK ==
    /\ now \in Nat
    /\ service \in [thread : Loops \cup {Nobody}, released : BOOLEAN]
    /\ holder \in Actors \cup {Nobody}
    /\ queueTasks \in Seq(Tasks) /\ IsInjective(queueTasks) /\ timeTasks \subseteq TimeTask
    /\ threads \in [Loops -> [stop : BOOLEAN, waiting : BOOLEAN, signal : BOOLEAN]]
    /\ pc \in [Actors -> {"outside"} \cup CallSteps \cup LoopSteps]
    /\ \A l \in Loops :
          /\ local[l].tasks \in Seq(Tasks) /\ local[l].due \subseteq TimeTask
          /\ local[l].phase \in {"runTasks", "runDue"}
          /\ local[l].timeout \in (Nat \ {0}) \cup {-1}
          /\ {local[l].rel, local[l].from, local[l].until} \subseteq Nat
    /\ target \in [Actors -> Loops \cup {Nobody}]
    /\ left \subseteq Tasks /\ ran \subseteq Tasks

\* A thread that runs the loop is the service's thread, or it was asked to stop, or
\* somebody who stops the service is about to ask it: two threads never go on
\* running one loop, though one that stops the service from inside a task is still
\* in its pass when the next one starts.
OneLoop == \A l \in Loops :
    IsRunning(l) => \/ service.thread = l \/ threads[l].stop \/ pc[l] = "return"
                    \/ \E a \in Actors : target[a] = l

\* The two together: start() and stop() never leave two threads in one loop.
Inv == TypeOK /\ OneLoop

\* A loop that sleeps without a signal has no task to run, and sleeps past the time
\* of a delayed one by no more than the pass took that computed the timeout.
NeverOversleeps == \A l \in Loops :
    /\ service.thread = l /\ pc[l] = "blocked" /\ ~threads[l].signal
    /\ ~\E a \in Actors : pc[a] = "_wake"
    => /\ queueTasks = <<>>
       /\ \A r \in timeTasks : local[l].until <= r.time + (local[l].from - local[l].rel)

\* A task that is queued for a loop that has a thread is run, unless the loop is
\* stopped.
TasksRun == \A t \in Tasks :
    (t \in Range(queueTasks) /\ service.thread # Nobody)
        ~> (t \in ran \/ service.thread = Nobody)

\* stop() and release() return, unless the thread that stop() waits for wants the
\* lock that stop() holds: to dispatch, start, stop or release from inside a task.
StopReturns == \A a \in Actors :
    pc[a] = "finishAndWait" ~>
        \/ target[a] = Nobody
        \/ holder = a /\ pc[target[a]] \in {"_wake", "start", "stop", "release"}

\* The two together: while it has a thread the loop runs its tasks, and the thread can be
\* ended.
LoopServes == TasksRun /\ StopReturns
=============================================================================
