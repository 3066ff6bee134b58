------------------------ MODULE DispatchLoopProofs ------------------------
(***************************************************************************)
(* That one thread goes on running the loop, and that it does not sleep    *)
(* past a task: for any callers, threads, tasks, delays and times.  After  *)
(* that, the inductive invariant of Timer and what it proves for any       *)
(* number of callers, any limit of concurrent runs and any bound on the    *)
(* entries of the loop's queue.                                            *)
(***************************************************************************)
EXTENDS MCTimer, FiniteSetTheorems, WellFoundedInduction, TLAPS

Steps == {"outside"} \cup CallSteps \cup LoopSteps
WaitSteps == {"wait", "setWaiting", "doWait", "blocked"}

Pass == [tasks : Seq(Tasks), due : SUBSET TimeTask, phase : {"runTasks", "runDue"},
         timeout : (Nat \ {0}) \cup {-1}, rel : Nat, from : Nat, until : Nat]

\* The types, with the fields of a pass as a record.
Types ==
    /\ now \in Nat
    /\ service \in [thread : Loops \cup {Nobody}, released : BOOLEAN]
    /\ holder \in Actors \cup {Nobody}
    /\ queueTasks \in Seq(Tasks) /\ timeTasks \subseteq TimeTask
    /\ threads \in [Loops -> [stop : BOOLEAN, waiting : BOOLEAN, signal : BOOLEAN]]
    /\ pc \in [Actors -> Steps] /\ local \in [Loops -> Pass]
    /\ target \in [Actors -> Loops \cup {Nobody}]
    /\ left \subseteq Tasks /\ ran \subseteq Tasks

\* What is queued was dispatched, and once.
FreshInv ==
    /\ IsInjective(queueTasks)
    /\ \A i \in 1 .. Len(queueTasks) : queueTasks[i] \notin left

\* A thread has a target exactly while it waits for one.
TargetInv == \A a \in Actors : target[a] # Nobody <=> pc[a] \in {"finishAndWait", "finishWake"}

\* Once it has looked at the delayed tasks, a pass has its timeout, and sleeps no longer.
PhaseInv == \A l \in Loops :
    /\ pc[l] \in WaitSteps \cup {"runDue"} => local[l].phase = "runDue"
    /\ pc[l] = "blocked" /\ local[l].timeout # -1 => local[l].until <= local[l].from + local[l].timeout

\* The service's thread was not woken, and nobody is about to wake it.
Unsignalled(l) == service.thread = l /\ ~threads[l].signal /\ \A a \in Actors : pc[a] # "_wake"

\* No delayed task comes before the timeout that the pass computed.
Covered(l) == \A r \in timeTasks : local[l].timeout # -1 /\ local[l].rel + local[l].timeout <= r.time

\* Whatever was dispatched since the pass looked at the queues has left a signal.
SleepInv == \A l \in Loops : Unsignalled(l) =>
    /\ pc[l] \in WaitSteps => queueTasks = <<>>
    /\ local[l].phase = "runDue" => Covered(l)

IInv == Types /\ FreshInv /\ TargetInv /\ OneLoop /\ PhaseInv /\ SleepInv

-----------------------------------------------------------------------------
\* A set of natural numbers has a least one, which Min picks.
LEMMA MinNat ==
    ASSUME NEW S \in SUBSET Nat, S # {}
    PROVE  Min(S) \in S /\ \A y \in S : Min(S) <= y
<1> DEFINE R == {ss \in Nat \X Nat : ss[1] < ss[2]}
<1>1. IsWellFoundedOn(R, Nat)
  BY NatLessThanWellFounded DEF OpToRel
<1>2. PICK x \in S : \A y \in S : ~(<<y, x>> \in R)
  <2> HIDE DEF R
  <2> QED BY <1>1, WFMin
<1>3. \A y \in S : x <= y
  <2> SUFFICES ASSUME NEW y \in S PROVE x <= y
    OBVIOUS
  <2>1. ~ (<<y, x>> \in R)
    BY <1>2
  <2> QED BY <2>1
<1>4. \E z \in S : \A y \in S : z <= y
  BY <1>3
<1> QED BY <1>4 DEF Min

LEMMA StepNames ==
    /\ "outside" \in Steps /\ "task" \in Steps
    /\ CallSteps \subseteq Steps /\ LoopSteps \subseteq Steps
    /\ \A a \in Actors : Outside(a) \in {"outside", "task"}
BY DEF Steps, CallSteps, LoopSteps, Outside

\* What Go does to the steps.
LEMMA GoFacts ==
    ASSUME Types, NEW a \in Actors, NEW from, NEW to \in Steps, Go(a, from, to)
    PROVE  /\ pc[a] = from /\ pc' \in [Actors -> Steps] /\ pc'[a] = to
           /\ \A u \in Actors \ {a} : pc'[u] = pc[u]
BY DEF Types, Go

\* The invariant gives what the run checks.
LEMMA IInvImplies == IInv => Inv /\ NeverOversleeps
<1> SUFFICES ASSUME IInv PROVE Inv /\ NeverOversleeps
  OBVIOUS
<1> USE DEF IInv
<1>1. TypeOK
  <2>1. pc \in [Actors -> {"outside"} \cup CallSteps \cup LoopSteps]
    BY DEF Types, Steps
  <2>2. ASSUME NEW l \in Loops
        PROVE  /\ local[l].tasks \in Seq(Tasks) /\ local[l].due \subseteq TimeTask
               /\ local[l].phase \in {"runTasks", "runDue"}
               /\ local[l].timeout \in (Nat \ {0}) \cup {-1}
               /\ {local[l].rel, local[l].from, local[l].until} \subseteq Nat
    <3>1. local[l] \in Pass
      BY DEF Types
    <3> QED BY <3>1 DEF Pass
  <2> QED BY <2>1, <2>2 DEF Types, FreshInv, TypeOK
<1>2. ASSUME NEW l \in Loops, service.thread = l, pc[l] = "blocked", ~threads[l].signal,
             ~\E a \in Actors : pc[a] = "_wake"
      PROVE  /\ queueTasks = <<>>
             /\ \A r \in timeTasks : local[l].until <= r.time + (local[l].from - local[l].rel)
  <2>1. Unsignalled(l)
    BY <1>2 DEF Unsignalled
  <2>2. local[l].phase = "runDue"
    BY <1>2 DEF PhaseInv, WaitSteps
  <2>3. queueTasks = <<>> /\ Covered(l)
    BY <1>2, <2>1, <2>2 DEF SleepInv, WaitSteps
  <2>4. ASSUME NEW r \in timeTasks PROVE local[l].until <= r.time + (local[l].from - local[l].rel)
    <3>1. local[l].timeout # -1 /\ local[l].rel + local[l].timeout <= r.time
      BY <2>3 DEF Covered
    <3>2. local[l].until <= local[l].from + local[l].timeout
      BY <1>2, <3>1 DEF PhaseInv
    <3>3. local[l] \in Pass /\ r \in TimeTask
      BY DEF Types
    <3>4. local[l].until \in Nat /\ local[l].from \in Nat /\ local[l].rel \in Nat /\ local[l].timeout \in Nat /\ r.time \in Nat
      BY <3>3, <3>1 DEF Pass, TimeTask
    <3> QED BY <3>1, <3>2, <3>4
  <2> QED BY <2>3, <2>4
<1> QED BY <1>1, <1>2 DEF Inv, NeverOversleeps

LEMMA InitIInv == Init => IInv
<1> SUFFICES ASSUME Init PROVE IInv
  OBVIOUS
<1> USE DEF Init
<1>1. Types
  <2>1. pc \in [Actors -> Steps]
    BY StepNames DEF Steps, LoopSteps
  <2>2. NewPass \in Pass
    BY DEF NewPass, Pass
  <2>3. local \in [Loops -> Pass]
    BY <2>2
  <2>4. NewThread \in [stop : BOOLEAN, waiting : BOOLEAN, signal : BOOLEAN]
    BY DEF NewThread
  <2>5. threads \in [Loops -> [stop : BOOLEAN, waiting : BOOLEAN, signal : BOOLEAN]]
    BY <2>4
  <2> QED BY <2>1, <2>3, <2>5 DEF Types
<1>2. FreshInv
  BY DEF FreshInv, IsInjective
<1>3. \A l \in Loops : pc[l] = "off"
  BY ConstantsAssumption DEF Actors
<1>4. TargetInv
  BY ConstantsAssumption DEF TargetInv, Actors
<1>5. OneLoop /\ PhaseInv
  BY <1>3 DEF OneLoop, IsRunning, PhaseInv, WaitSteps
<1>6. SleepInv
  BY ConstantsAssumption DEF SleepInv, Unsignalled
<1> QED BY <1>1, <1>2, <1>4, <1>5, <1>6 DEF IInv

Waits == {"finishAndWait", "finishWake"}
Threads == [Loops -> [stop : BOOLEAN, waiting : BOOLEAN, signal : BOOLEAN]]

\* Where threads are, when one goes on and leaves the passes and the targets alone.
LEMMA PlaceStep ==
    ASSUME IInv, NEW a \in Actors, NEW from, NEW to \in Steps, Go(a, from, to),
           from # "off", from = "return" => to = "off", from \in Waits <=> to \in Waits,
           UNCHANGED <<service, local, target>>,
           \A l \in Loops : threads[l].stop => threads'[l].stop,
           to # "blocked", to \in WaitSteps => from \in WaitSteps,
           a \in Loops /\ to = "runDue" => local[a].phase = "runDue"
    PROVE  TargetInv' /\ OneLoop' /\ PhaseInv'
<1>1. /\ pc[a] = from /\ pc' \in [Actors -> Steps] /\ pc'[a] = to
      /\ \A u \in Actors \ {a} : pc'[u] = pc[u]
  BY GoFacts DEF IInv
<1>5. TargetInv'
  BY <1>1 DEF IInv, TargetInv, Waits
<1>6. OneLoop'
  <2> SUFFICES ASSUME NEW l \in Loops, IsRunning(l)'
               PROVE  \/ service'.thread = l \/ threads'[l].stop \/ pc'[l] = "return"
                      \/ \E u \in Actors : target'[u] = l
    BY DEF OneLoop
  <2>1. IsRunning(l)
    BY <1>1 DEF IsRunning, Actors
  <2>2. \/ service.thread = l \/ threads[l].stop \/ pc[l] = "return"
        \/ \E u \in Actors : target[u] = l
    BY <2>1 DEF IInv, OneLoop
  <2>3. pc[l] = "return" => pc'[l] = "return"
    BY <1>1 DEF IsRunning, Actors
  <2> QED BY <2>2, <2>3
<1>7. PhaseInv'
  <2> SUFFICES ASSUME NEW l \in Loops
               PROVE  /\ pc'[l] \in WaitSteps \cup {"runDue"} => local[l].phase = "runDue"
                      /\ pc'[l] = "blocked" /\ local[l].timeout # -1 =>
                            local[l].until <= local[l].from + local[l].timeout
    BY DEF PhaseInv
  <2>1. CASE l = a
    BY <2>1, <1>1 DEF IInv, PhaseInv
  <2>2. CASE l # a
    BY <2>2, <1>1 DEF IInv, PhaseInv, Actors
  <2> QED BY <2>1, <2>2
<1> QED BY <1>5, <1>6, <1>7

\* A step of a thread that leaves the passes alone: it may drop what is queued, ask threads
\* to stop, and wake them.
LEMMA OwnStep ==
    ASSUME IInv, NEW a \in Actors, NEW from, NEW to \in Steps, Go(a, from, to),
           from \notin {"_wake", "off"}, from = "return" => to = "off", from \in Waits <=> to \in Waits,
           UNCHANGED <<now, service, holder, local, target, left, ran>>,
           queueTasks' = queueTasks \/ queueTasks' = <<>>, timeTasks' \subseteq timeTasks,
           threads' \in Threads,
           \A l \in Loops : (threads[l].signal => threads'[l].signal) /\ (threads[l].stop => threads'[l].stop),
           to # "blocked", to \in WaitSteps => from \in WaitSteps,
           a \in Loops /\ to = "runDue" => local[a].phase = "runDue"
    PROVE  IInv'
<1>1. /\ pc[a] = from /\ pc' \in [Actors -> Steps] /\ pc'[a] = to
      /\ \A u \in Actors \ {a} : pc'[u] = pc[u]
  BY GoFacts DEF IInv
<1>2. queueTasks' \in Seq(Tasks) /\ timeTasks' \subseteq TimeTask
  <2>1. queueTasks \in Seq(Tasks) /\ timeTasks \subseteq TimeTask /\ <<>> \in Seq(Tasks)
    BY DEF IInv, Types
  <2> QED BY <2>1
<1>3. Types'
  BY <1>1, <1>2 DEF IInv, Types, Threads
<1>4. FreshInv'
  <2>1. CASE queueTasks' = queueTasks
    BY <2>1 DEF IInv, FreshInv
  <2>2. CASE queueTasks' = <<>>
    BY <2>2 DEF FreshInv, IsInjective
  <2> QED BY <2>1, <2>2
<1>5. TargetInv' /\ OneLoop' /\ PhaseInv'
  BY PlaceStep
<1>8. SleepInv'
  <2> SUFFICES ASSUME NEW l \in Loops, Unsignalled(l)'
               PROVE  /\ pc'[l] \in WaitSteps => queueTasks' = <<>>
                      /\ local[l].phase = "runDue" => Covered(l)'
    BY DEF SleepInv
  <2>1. Unsignalled(l)
    BY <1>1 DEF Unsignalled
  <2>2. pc'[l] \in WaitSteps => pc[l] \in WaitSteps
    BY <1>1 DEF Actors
  <2> QED BY <2>1, <2>2 DEF IInv, SleepInv, Covered
<1> QED BY <1>3, <1>4, <1>5, <1>8 DEF IInv

\* A step of the loop's thread l that changes its pass to p.
LEMMA PassStep ==
    ASSUME IInv, NEW l \in Loops, NEW from, NEW to \in LoopSteps, NEW p \in Pass, Go(l, from, to),
           from \in LoopSteps \ {"off", "return"},
           local' = [local EXCEPT ![l] = p],
           UNCHANGED <<now, service, holder, target, left>>, ran' \subseteq Tasks,
           queueTasks' = queueTasks \/ queueTasks' = <<>>, timeTasks' \subseteq timeTasks,
           threads' \in Threads, \A k \in Loops \ {l} : threads'[k] = threads[k],
           threads'[l].stop = threads[l].stop,
           to \in WaitSteps \cup {"runDue"} => p.phase = "runDue",
           to = "blocked" /\ p.timeout # -1 => p.until <= p.from + p.timeout,
           Unsignalled(l)' => /\ to \in WaitSteps => queueTasks' = <<>>
                              /\ p.phase = "runDue" => Covered(l)'
    PROVE  IInv'
<1>1. /\ pc[l] = from /\ pc' \in [Actors -> Steps] /\ pc'[l] = to
      /\ \A u \in Actors \ {l} : pc'[u] = pc[u]
  BY GoFacts, StepNames DEF IInv, Actors
<1>2. queueTasks' \in Seq(Tasks) /\ timeTasks' \subseteq TimeTask
  <2>1. queueTasks \in Seq(Tasks) /\ timeTasks \subseteq TimeTask /\ <<>> \in Seq(Tasks)
    BY DEF IInv, Types
  <2> QED BY <2>1
<1>3. local' \in [Loops -> Pass] /\ local'[l] = p /\ \A k \in Loops \ {l} : local'[k] = local[k]
  BY DEF IInv, Types
<1>4. Types'
  BY <1>1, <1>2, <1>3 DEF IInv, Types, Threads
<1>5. FreshInv'
  <2>1. CASE queueTasks' = queueTasks
    BY <2>1 DEF IInv, FreshInv
  <2>2. CASE queueTasks' = <<>>
    BY <2>2 DEF FreshInv, IsInjective
  <2> QED BY <2>1, <2>2
<1>6. from \notin Waits \cup {"_wake"} /\ to \notin Waits \cup {"_wake"}
  BY DEF Waits, LoopSteps
<1>7. TargetInv'
  BY <1>1, <1>6 DEF IInv, TargetInv, Waits
<1>8. OneLoop'
  <2> SUFFICES ASSUME NEW k \in Loops, IsRunning(k)'
               PROVE  \/ service'.thread = k \/ threads'[k].stop \/ pc'[k] = "return"
                      \/ \E u \in Actors : target'[u] = k
    BY DEF OneLoop
  <2>1. IsRunning(k)
    BY <1>1 DEF IsRunning, Actors
  <2>2. \/ service.thread = k \/ threads[k].stop \/ pc[k] = "return"
        \/ \E u \in Actors : target[u] = k
    BY <2>1 DEF IInv, OneLoop
  <2>3. (pc[k] = "return" => pc'[k] = "return") /\ (threads[k].stop => threads'[k].stop)
    BY <1>1 DEF Actors
  <2> QED BY <2>2, <2>3
<1>9. PhaseInv'
  <2> SUFFICES ASSUME NEW k \in Loops
               PROVE  /\ pc'[k] \in WaitSteps \cup {"runDue"} => local'[k].phase = "runDue"
                      /\ pc'[k] = "blocked" /\ local'[k].timeout # -1 =>
                            local'[k].until <= local'[k].from + local'[k].timeout
    BY DEF PhaseInv
  <2>1. CASE k = l
    BY <2>1, <1>1, <1>3
  <2>2. CASE k # l
    BY <2>2, <1>1, <1>3 DEF IInv, PhaseInv, Actors
  <2> QED BY <2>1, <2>2
<1>10. SleepInv'
  <2> SUFFICES ASSUME NEW k \in Loops, Unsignalled(k)'
               PROVE  /\ pc'[k] \in WaitSteps => queueTasks' = <<>>
                      /\ local'[k].phase = "runDue" => Covered(k)'
    BY DEF SleepInv
  <2>1. CASE k = l
    BY <2>1, <1>1, <1>3
  <2>2. CASE k # l
    <3>1. Unsignalled(k)
      BY <2>2, <1>1, <1>6 DEF Unsignalled
    <3>2. pc'[k] = pc[k] /\ local'[k] = local[k]
      BY <2>2, <1>1, <1>3 DEF Actors
    <3> QED BY <3>1, <3>2 DEF IInv, SleepInv, Covered
  <2> QED BY <2>1, <2>2
<1> QED BY <1>4, <1>5, <1>7, <1>8, <1>9, <1>10 DEF IInv

-----------------------------------------------------------------------------
(* Calls, dispatch, and the steps that change nothing but where a thread is *)
LEMMA CallStep ==
    ASSUME IInv, NEW a \in Actors, Call(a) \/ DispatchNull(a) \/ Refused(a)
    PROVE  IInv'
<1>1. PICK from \in {"outside", "task", "dispatch", "start", "stop", "release"},
           to \in {"outside", "task", "dispatch", "start", "stop", "release", "clearTasks"} : Go(a, from, to)
  BY StepNames DEF Call, DispatchNull, Refused, Return
<1>2. UNCHANGED <<now, service, holder, queueTasks, timeTasks, threads, local, target, left, ran>>
  BY DEF Call, DispatchNull, Refused, queues, history
<1>3. threads' \in Threads
  BY <1>2 DEF IInv, Types, Threads
<1>4. to \in Steps
  BY <1>1 DEF Steps, CallSteps, LoopSteps
<1>5. from \notin {"_wake", "off", "return"} \cup Waits /\ to \notin Waits \cup WaitSteps \cup {"runDue"}
  BY <1>1 DEF Waits, WaitSteps
<1>6. to # "blocked"
  BY <1>5 DEF WaitSteps
<1> QED BY <1>1, <1>2, <1>3, <1>4, <1>5, <1>6, OwnStep

LEMMA ClearStep ==
    ASSUME IInv, NEW a \in Actors, ClearTasks(a) \/ ClearTimed(a)
    PROVE  IInv'
<1>1. PICK from \in {"clearTasks", "clearTimed"}, to \in {"outside", "task", "clearTimed"} : Go(a, from, to)
  BY StepNames DEF ClearTasks, ClearTimed, Return
<1>2. /\ UNCHANGED <<now, service, holder, threads, local, target, left, ran>>
      /\ queueTasks' = queueTasks \/ queueTasks' = <<>>
      /\ timeTasks' \subseteq timeTasks
  BY DEF ClearTasks, ClearTimed, history
<1>3. threads' \in Threads
  BY <1>2 DEF IInv, Types, Threads
<1>4. to \in Steps
  BY <1>1 DEF Steps, CallSteps, LoopSteps
<1>5. from \notin {"_wake", "off", "return"} \cup Waits /\ to \notin Waits \cup WaitSteps \cup {"runDue", "blocked"}
  BY <1>1 DEF Waits, WaitSteps
<1> QED BY <1>1, <1>2, <1>3, <1>4, <1>5, OwnStep

\* The loop's own steps that leave the pass alone.
LEMMA LoopStep ==
    ASSUME IInv, NEW l \in Loops, While(l) \/ EndTask(l) \/ SetWaiting(l) \/ Woken(l) \/ EndThread(l)
    PROVE  IInv'
<1>1. local[l] \in Pass /\ local[l].phase \in {"runTasks", "runDue"}
  BY DEF IInv, Types, Pass
<1>2. /\ UNCHANGED <<now, service, holder, queueTasks, timeTasks, local, target, left, ran>>
      /\ threads' \in Threads
      /\ \A k \in Loops : (threads[k].signal => threads'[k].signal) /\ (threads[k].stop => threads'[k].stop)
  <2>1. threads \in Threads
    BY DEF IInv, Types, Threads
  <2>2. CASE While(l) \/ EndTask(l) \/ EndThread(l)
    BY <2>1, <2>2 DEF While, EndTask, EndThread, queues, history
  <2>3. CASE SetWaiting(l)
    BY <2>1, <2>3 DEF SetWaiting, queues, history, Threads
  <2>4. CASE Woken(l)
    BY <2>1, <2>4 DEF Woken, queues, history, Threads
  <2> QED BY <2>2, <2>3, <2>4
<1>3. \E from, to \in LoopSteps :
         /\ Go(l, from, to) /\ from # "off" /\ (from = "return" => to = "off")
         /\ to # "blocked" /\ (to \in WaitSteps => from \in WaitSteps)
         /\ to = "runDue" => local[l].phase = "runDue"
  BY <1>1 DEF While, EndTask, SetWaiting, Woken, EndThread, LoopSteps, WaitSteps
<1>4. PICK from \in LoopSteps, to \in LoopSteps :
         /\ Go(l, from, to) /\ from # "off" /\ (from = "return" => to = "off")
         /\ to # "blocked" /\ (to \in WaitSteps => from \in WaitSteps)
         /\ to = "runDue" => local[l].phase = "runDue"
  BY <1>3
<1>5. from \notin {"_wake"} \cup Waits /\ to \notin Waits
  BY <1>4 DEF LoopSteps, Waits
<1>6. l \in Actors /\ to \in Steps
  BY StepNames DEF Actors
<1> QED BY <1>2, <1>4, <1>5, <1>6, OwnStep

-----------------------------------------------------------------------------
(* The steps of a pass                                                     *)
LEMMA MergeStep ==
    ASSUME IInv, NEW l \in Loops, Merge(l)
    PROVE  IInv'
<1> DEFINE p == [local[l] EXCEPT !.tasks = queueTasks, !.phase = "runTasks"]
<1>1. local[l] \in Pass /\ queueTasks \in Seq(Tasks)
  BY DEF IInv, Types
<1>2. p \in Pass /\ p.phase = "runTasks"
  BY <1>1 DEF Pass
<1>3. local' = [local EXCEPT ![l] = p]
  BY DEF Merge, IInv, Types
<1>4. /\ UNCHANGED <<now, service, holder, target, left>> /\ ran' \subseteq Tasks
      /\ queueTasks' = <<>> /\ timeTasks' = timeTasks /\ threads' = threads /\ threads' \in Threads
  BY DEF Merge, history, IInv, Types, Threads
<1>5. Go(l, "merge", "runTasks") /\ "runTasks" \notin WaitSteps \cup {"runDue", "blocked"}
      /\ "merge" \in LoopSteps \ {"off", "return"} /\ "runTasks" \in LoopSteps
  BY DEF Merge, WaitSteps, LoopSteps
<1> HIDE DEF p
<1> QED BY <1>2, <1>3, <1>4, <1>5, PassStep

LEMMA RunTaskStep ==
    ASSUME IInv, NEW l \in Loops, RunTask(l)
    PROVE  IInv'
<1> DEFINE p == [local[l] EXCEPT !.tasks = Tail(local[l].tasks)]
<1>1. local[l] \in Pass /\ local[l].tasks \in Seq(Tasks) /\ local[l].tasks # <<>>
  BY DEF IInv, Types, Pass, RunTask
<1>2. Tail(local[l].tasks) \in Seq(Tasks) /\ Head(local[l].tasks) \in Tasks
  BY <1>1
<1>3. p \in Pass /\ p.phase = local[l].phase /\ p.timeout = local[l].timeout /\ p.rel = local[l].rel
  BY <1>1, <1>2 DEF Pass
<1>4. local' = [local EXCEPT ![l] = p]
  BY DEF RunTask, IInv, Types
<1>5. /\ UNCHANGED <<now, service, holder, target, left>> /\ ran' \subseteq Tasks
      /\ queueTasks' = queueTasks /\ timeTasks' = timeTasks /\ threads' = threads /\ threads' \in Threads
  BY <1>2 DEF RunTask, queues, IInv, Types, Threads
<1>6. Go(l, "runTasks", "task") /\ "task" \notin WaitSteps \cup {"runDue", "blocked"}
      /\ "runTasks" \in LoopSteps \ {"off", "return"} /\ "task" \in LoopSteps
  BY DEF RunTask, WaitSteps, LoopSteps
<1>7. pc[l] = "runTasks" /\ pc'[l] = "task" /\ \A u \in Actors \ {l} : pc'[u] = pc[u]
  BY <1>6, GoFacts, StepNames DEF IInv, Actors
<1>8. local'[l] = p
  BY <1>4 DEF IInv, Types
<1>9. Unsignalled(l)' /\ p.phase = "runDue" => Covered(l)'
  <2> SUFFICES ASSUME Unsignalled(l)', p.phase = "runDue" PROVE Covered(l)'
    OBVIOUS
  <2>1. Unsignalled(l)
    BY <1>5, <1>7 DEF Unsignalled
  <2>2. Covered(l)
    BY <2>1, <1>3 DEF IInv, SleepInv
  <2> HIDE DEF p
  <2> QED BY <2>2, <1>3, <1>5, <1>8 DEF Covered
<1> HIDE DEF p
<1> QED BY <1>3, <1>4, <1>5, <1>6, <1>9, PassStep

\* The timeout is the time to the next task that is not due yet.
LEMMA TimeoutFacts ==
    ASSUME Types
    PROVE  /\ UntilNext \in (Nat \ {0}) \cup {-1}
           /\ \A r \in Later : UntilNext # -1 /\ now + UntilNext <= r.time
<1> DEFINE S == {r.time : r \in Later}
<1>1. now \in Nat /\ Later \subseteq TimeTask /\ \A r \in Later : r.time \in Nat /\ r.time > now
  BY DEF Types, Later, IsDue, TimeTask
<1>2. CASE Later = {}
  BY <1>2 DEF UntilNext
<1>3. CASE Later # {}
  <2>1. S \in SUBSET Nat /\ S # {} /\ \A n \in S : n > now
    BY <1>1, <1>3
  <2>2. Min(S) \in S /\ \A n \in S : Min(S) <= n
    <3> HIDE DEF S
    <3> QED BY <2>1, MinNat
  <2>3. UntilNext = Min(S) - now
    BY <1>3 DEF UntilNext
  <2>4. Min(S) \in Nat /\ Min(S) > now
    BY <2>1, <2>2
  <2>5. \A r \in Later : r.time \in S /\ r.time \in Nat
    BY <1>1
  <2> HIDE DEF S
  <2> QED BY <1>1, <2>2, <2>3, <2>4, <2>5
<1> QED BY <1>2, <1>3

LEMMA TakeDueStep ==
    ASSUME IInv, NEW l \in Loops, TakeDue(l)
    PROVE  IInv'
<1> DEFINE due == {r \in timeTasks : IsDue(r)}
           p == [local[l] EXCEPT !.due = due, !.phase = "runDue", !.timeout = UntilNext, !.rel = now]
<1>1. local[l] \in Pass /\ due \subseteq TimeTask /\ now \in Nat /\ Types
  BY DEF IInv, Types
<1>2. p \in Pass /\ p.phase = "runDue" /\ p.timeout = UntilNext /\ p.rel = now
  <2> HIDE DEF due
  <2> QED BY <1>1, TimeoutFacts DEF Pass
<1>3. local' = [local EXCEPT ![l] = p]
  BY DEF TakeDue, IInv, Types
<1>4. /\ UNCHANGED <<now, service, holder, target, left>> /\ ran' \subseteq Tasks
      /\ queueTasks' = queueTasks /\ timeTasks' \subseteq timeTasks /\ timeTasks' = Later
      /\ threads' = threads /\ threads' \in Threads
  BY DEF TakeDue, history, IInv, Types, Threads, Later
<1>5. Go(l, "runTasks", "runDue") /\ "runDue" \notin WaitSteps \cup {"blocked"}
      /\ "runTasks" \in LoopSteps \ {"off", "return"} /\ "runDue" \in LoopSteps
  BY DEF TakeDue, WaitSteps, LoopSteps
<1>6. local'[l] = p
  BY <1>3 DEF IInv, Types
<1> HIDE DEF p
<1>7. Covered(l)'
  BY <1>1, <1>2, <1>4, <1>6, TimeoutFacts DEF Covered
<1> QED BY <1>2, <1>3, <1>4, <1>5, <1>7, PassStep

LEMMA RunDueStep ==
    ASSUME IInv, NEW l \in Loops, RunDue(l)
    PROVE  IInv'
<1>1. PICK r \in local[l].due : /\ local' = [local EXCEPT ![l].due = @ \ {r}]
                                /\ ran' = ran \cup {r.task}
  BY DEF RunDue
<1> DEFINE p == [local[l] EXCEPT !.due = local[l].due \ {r}]
<1>2. local[l] \in Pass /\ local[l].due \subseteq TimeTask /\ r.task \in Tasks
  BY DEF IInv, Types, Pass, TimeTask
<1>3. p \in Pass /\ p.phase = local[l].phase /\ p.timeout = local[l].timeout /\ p.rel = local[l].rel
  BY <1>2 DEF Pass
<1>4. local' = [local EXCEPT ![l] = p]
  BY <1>1 DEF IInv, Types
<1>5. /\ UNCHANGED <<now, service, holder, target, left>> /\ ran' \subseteq Tasks
      /\ queueTasks' = queueTasks /\ timeTasks' = timeTasks /\ threads' = threads /\ threads' \in Threads
  BY <1>1, <1>2 DEF RunDue, queues, IInv, Types, Threads
<1>6. Go(l, "runDue", "task") /\ "task" \notin WaitSteps \cup {"runDue", "blocked"}
      /\ "runDue" \in LoopSteps \ {"off", "return"} /\ "task" \in LoopSteps
  BY DEF RunDue, WaitSteps, LoopSteps
<1>7. pc[l] = "runDue" /\ pc'[l] = "task" /\ \A u \in Actors \ {l} : pc'[u] = pc[u]
  BY <1>6, GoFacts, StepNames DEF IInv, Actors
<1>8. local'[l] = p
  BY <1>4 DEF IInv, Types
<1>9. Unsignalled(l)' /\ p.phase = "runDue" => Covered(l)'
  <2> SUFFICES ASSUME Unsignalled(l)', p.phase = "runDue" PROVE Covered(l)'
    OBVIOUS
  <2>1. Unsignalled(l)
    BY <1>5, <1>7 DEF Unsignalled
  <2>2. Covered(l)
    BY <2>1, <1>3 DEF IInv, SleepInv
  <2> HIDE DEF p
  <2> QED BY <2>2, <1>3, <1>5, <1>8 DEF Covered
<1> HIDE DEF p
<1> QED BY <1>3, <1>4, <1>5, <1>6, <1>9, PassStep

\* A pass that ends is forgotten.
LEMMA EndPassStep ==
    ASSUME IInv, NEW l \in Loops, NEW from \in {"runDue", "wait", "doWait", "blocked"},
           NEW to \in {"while", "woken"}, Go(l, from, to), local' = [local EXCEPT ![l] = NewPass],
           UNCHANGED <<now, service, holder, queueTasks, timeTasks, target, left, ran>>,
           threads' = threads \/ threads' = [threads EXCEPT ![l].signal = FALSE]
    PROVE  IInv'
<1>1. NewPass \in Pass /\ NewPass.phase = "runTasks"
  BY DEF NewPass, Pass
<1>2. threads' \in Threads /\ (\A k \in Loops \ {l} : threads'[k] = threads[k]) /\ threads'[l].stop = threads[l].stop
  <2>1. threads \in Threads
    BY DEF IInv, Types, Threads
  <2>2. CASE threads' = threads
    BY <2>1, <2>2
  <2>3. CASE threads' = [threads EXCEPT ![l].signal = FALSE]
    BY <2>1, <2>3 DEF Threads
  <2> QED BY <2>2, <2>3
<1>3. ran' \subseteq Tasks
  BY DEF IInv, Types
<1>4. /\ from \in LoopSteps \ {"off", "return"} /\ to \in LoopSteps
      /\ to \notin WaitSteps \cup {"runDue", "blocked"}
  BY DEF LoopSteps, WaitSteps
<1> QED BY <1>1, <1>2, <1>3, <1>4, PassStep

\* The pass goes to sleep only where nothing was queued.
LEMMA TimeoutStep ==
    ASSUME IInv, NEW l \in Loops, Timeout(l)
    PROVE  IInv'
<1>1. CASE queueTasks # <<>>
  <2>1. /\ Go(l, "runDue", "while") /\ local' = [local EXCEPT ![l] = NewPass]
        /\ UNCHANGED <<now, service, holder, queueTasks, timeTasks, threads, target, left, ran>>
    BY <1>1 DEF Timeout, queues, history
  <2> QED BY <2>1, EndPassStep
<1>2. CASE queueTasks = <<>>
  <2>1. /\ Go(l, "runDue", "wait") /\ local' = local
        /\ UNCHANGED <<now, service, holder, queueTasks, timeTasks, threads, target, left, ran>>
    BY <1>2 DEF Timeout, queues, history
  <2>2. pc[l] = "runDue" /\ pc'[l] = "wait" /\ \A u \in Actors \ {l} : pc'[u] = pc[u]
    BY <2>1, GoFacts, StepNames DEF IInv, Actors, LoopSteps
  <2>3. local[l] \in Pass /\ local' = [local EXCEPT ![l] = local[l]] /\ local[l].phase = "runDue"
    BY <2>1, <2>2 DEF IInv, Types, PhaseInv
  <2>4. threads' \in Threads /\ ran' \subseteq Tasks
    BY <2>1 DEF IInv, Types, Threads
  <2>5. "wait" \in LoopSteps /\ "runDue" \in LoopSteps \ {"off", "return"} /\ "wait" # "blocked"
    BY DEF LoopSteps
  <2>6. Unsignalled(l)' => Covered(l)'
    <3> SUFFICES ASSUME Unsignalled(l)' PROVE Covered(l)'
      OBVIOUS
    <3>1. Unsignalled(l)
      BY <2>1, <2>2 DEF Unsignalled
    <3>2. Covered(l)
      BY <3>1, <2>3 DEF IInv, SleepInv
    <3> QED BY <3>2, <2>1 DEF Covered
  <2> QED BY <1>2, <2>1, <2>3, <2>4, <2>5, <2>6, PassStep
<1> QED BY <1>1, <1>2

LEMMA WaitStep ==
    ASSUME IInv, NEW l \in Loops, Wait(l)
    PROVE  IInv'
<1>1. CASE threads[l].stop
  <2>1. /\ Go(l, "wait", "while") /\ local' = [local EXCEPT ![l] = NewPass]
        /\ UNCHANGED <<now, service, holder, queueTasks, timeTasks, threads, target, left, ran>>
    BY <1>1 DEF Wait, queues, history
  <2> QED BY <2>1, EndPassStep
<1>2. CASE ~threads[l].stop
  <2>1. /\ Go(l, "wait", "setWaiting")
        /\ UNCHANGED <<now, service, holder, queueTasks, timeTasks, threads, local, target, left, ran>>
    BY <1>2 DEF Wait, queues, history
  <2>2. threads' \in Threads /\ l \in Actors
    BY <2>1 DEF IInv, Types, Threads, Actors
  <2>3. "setWaiting" \in Steps /\ "wait" \in WaitSteps /\ "wait" \notin Waits /\ "setWaiting" \notin Waits
    BY DEF Steps, LoopSteps, WaitSteps, Waits
  <2> QED BY <2>1, <2>2, <2>3, OwnStep
<1> QED BY <1>1, <1>2

\* The sleep is as long as the timeout, or the longest.
LEMMA SleepFacts ==
    ASSUME Types, NEW l \in Loops
    PROVE  Sleep(l) \in Nat /\ (local[l].timeout # -1 => Sleep(l) <= local[l].timeout)
<1>1. local[l].timeout \in (Nat \ {0}) \cup {-1}
  BY DEF Types, Pass
<1> QED BY <1>1, ConstantsAssumption DEF Sleep

LEMMA DoWaitStep ==
    ASSUME IInv, NEW l \in Loops, DoWait(l)
    PROVE  IInv'
<1>1. CASE threads[l].signal \/ threads[l].stop
  <2>1. /\ Go(l, "doWait", "woken") /\ local' = [local EXCEPT ![l] = NewPass]
        /\ threads' = [threads EXCEPT ![l].signal = FALSE]
        /\ UNCHANGED <<now, service, holder, queueTasks, timeTasks, target, left, ran>>
    BY <1>1 DEF DoWait, queues, history
  <2> QED BY <2>1, EndPassStep
<1>2. CASE ~threads[l].signal /\ ~threads[l].stop
  <2> DEFINE p == [local[l] EXCEPT !.from = now, !.until = now + Sleep(l)]
  <2>1. /\ Go(l, "doWait", "blocked")
        /\ local' = [local EXCEPT ![l].from = now, ![l].until = now + Sleep(l)]
        /\ UNCHANGED <<now, service, holder, queueTasks, timeTasks, threads, target, left, ran>>
    BY <1>2 DEF DoWait, queues, history
  <2>2. pc[l] = "doWait" /\ pc'[l] = "blocked" /\ \A u \in Actors \ {l} : pc'[u] = pc[u]
    BY <2>1, GoFacts, StepNames DEF IInv, Actors, LoopSteps
  <2>3. local[l] \in Pass /\ now \in Nat /\ Types /\ local[l].phase = "runDue"
    BY <2>2 DEF IInv, Types, PhaseInv, WaitSteps
  <2>4. /\ p \in Pass /\ p.phase = "runDue" /\ p.timeout = local[l].timeout /\ p.rel = local[l].rel
        /\ p.from = now /\ p.until = now + Sleep(l)
    <3>1. now + Sleep(l) \in Nat
      BY <2>3, SleepFacts
    <3> HIDE DEF Sleep
    <3> QED BY <2>3, <3>1 DEF Pass
  <2>5. p.timeout # -1 => p.until <= p.from + p.timeout
    <3>1. p.timeout \in (Nat \ {0}) \cup {-1}
      BY <2>4 DEF Pass
    <3> HIDE DEF p
    <3> QED BY <3>1, <2>3, <2>4, SleepFacts
  <2>6. local' = [local EXCEPT ![l] = p]
    BY <2>1 DEF IInv, Types
  <2>7. local'[l] = p
    BY <2>6 DEF IInv, Types
  <2>8. threads' \in Threads /\ ran' \subseteq Tasks
    BY <2>1 DEF IInv, Types, Threads
  <2>9. "blocked" \in LoopSteps /\ "doWait" \in LoopSteps \ {"off", "return"} /\ {"doWait", "blocked"} \subseteq WaitSteps
    BY DEF LoopSteps, WaitSteps
  <2>10. Unsignalled(l)' => queueTasks = <<>> /\ Covered(l)'
    <3> SUFFICES ASSUME Unsignalled(l)' PROVE queueTasks = <<>> /\ Covered(l)'
      OBVIOUS
    <3>1. Unsignalled(l)
      BY <2>1, <2>2 DEF Unsignalled
    <3>2. queueTasks = <<>> /\ Covered(l)
      BY <3>1, <2>2, <2>3, <2>9 DEF IInv, SleepInv
    <3> HIDE DEF p
    <3> QED BY <3>2, <2>1, <2>4, <2>7 DEF Covered
  <2> HIDE DEF p
  <2> QED BY <2>1, <2>4, <2>5, <2>6, <2>8, <2>9, <2>10, PassStep
<1> QED BY <1>1, <1>2

LEMMA UnblockStep ==
    ASSUME IInv, NEW l \in Loops, Unblock(l)
    PROVE  IInv'
<1>1. /\ Go(l, "blocked", "woken") /\ local' = [local EXCEPT ![l] = NewPass]
      /\ threads' = [threads EXCEPT ![l].signal = FALSE]
      /\ UNCHANGED <<now, service, holder, queueTasks, timeTasks, target, left, ran>>
  BY DEF Unblock, queues, history
<1> QED BY <1>1, EndPassStep

-----------------------------------------------------------------------------
(* Dispatch and wake                                                       *)
LEMMA DispatchStep ==
    ASSUME IInv, NEW a \in Actors, Dispatch(a)
    PROVE  IInv'
<1>1. PICK t \in left :
         /\ left' = left \ {t}
         /\ \/ queueTasks' = Append(queueTasks, t) /\ UNCHANGED timeTasks
            \/ /\ \E delay \in Delays : timeTasks' = timeTasks \cup {[task |-> t, time |-> now + delay]}
               /\ UNCHANGED queueTasks
  BY DEF Dispatch
<1>2. Go(a, "dispatch", "_wake") /\ UNCHANGED <<now, service, holder, threads, local, target, ran>>
  BY DEF Dispatch
<1>3. "_wake" \in Steps \ (Waits \cup WaitSteps \cup {"blocked", "runDue"}) /\ "dispatch" \notin Waits
  BY DEF Steps, CallSteps, Waits, WaitSteps
<1>4. pc' \in [Actors -> Steps] /\ pc'[a] = "_wake"
  BY <1>2, <1>3, GoFacts DEF IInv
<1>5. TargetInv' /\ OneLoop' /\ PhaseInv'
  BY <1>2, <1>3, PlaceStep
<1>6. SleepInv'
  BY <1>4 DEF SleepInv, Unsignalled
<1>7. t \in Tasks /\ queueTasks \in Seq(Tasks) /\ timeTasks \subseteq TimeTask /\ now \in Nat
  BY DEF IInv, Types
<1>8. queueTasks' \in Seq(Tasks)
  BY <1>1, <1>7
<1>9. timeTasks' \subseteq TimeTask
  BY <1>1, <1>7, ConstantsAssumption DEF TimeTask
<1>10. Types'
  BY <1>1, <1>2, <1>4, <1>8, <1>9 DEF IInv, Types
<1>11. FreshInv'
  <2>1. IsInjective(queueTasks) /\ \A i \in 1 .. Len(queueTasks) : queueTasks[i] \notin left
    BY DEF IInv, FreshInv
  <2>2. CASE queueTasks' = queueTasks
    BY <2>1, <2>2, <1>1 DEF FreshInv
  <2>3. CASE queueTasks' = Append(queueTasks, t)
    <3>1. /\ Len(queueTasks') = Len(queueTasks) + 1 /\ queueTasks'[Len(queueTasks) + 1] = t
          /\ \A i \in 1 .. Len(queueTasks) : queueTasks'[i] = queueTasks[i]
          /\ Len(queueTasks) \in Nat
      BY <2>3, <1>7
    <3>2. DOMAIN queueTasks = 1 .. Len(queueTasks) /\ DOMAIN queueTasks' = 1 .. Len(queueTasks')
      BY <1>7, <1>8
    <3>3. \A i \in 1 .. Len(queueTasks') : i \in 1 .. Len(queueTasks) \/ i = Len(queueTasks) + 1
      BY <3>1
    <3>4. \A i \in 1 .. Len(queueTasks) : queueTasks'[i] \in Tasks /\ queueTasks'[i] \notin left
      BY <2>1, <3>1, <1>7
    <3>5. \A i \in 1 .. Len(queueTasks') : queueTasks'[i] \notin left'
      BY <1>1, <3>1, <3>3, <3>4
    <3>6. \A i, j \in 1 .. Len(queueTasks) : queueTasks'[i] = queueTasks'[j] => i = j
      BY <2>1, <3>1, <3>2 DEF IsInjective
    <3>7. \A i, j \in 1 .. Len(queueTasks') : queueTasks'[i] = queueTasks'[j] => i = j
      BY <3>1, <3>3, <3>4, <3>6
    <3> QED BY <3>2, <3>5, <3>7 DEF FreshInv, IsInjective
  <2> QED BY <2>2, <2>3, <1>1
<1> QED BY <1>5, <1>6, <1>10, <1>11 DEF IInv

LEMMA WakeStep ==
    ASSUME IInv, NEW a \in Actors, Wake(a)
    PROVE  IInv'
<1>1. Go(a, "_wake", Outside(a)) /\ UNCHANGED <<now, service, holder, queueTasks, timeTasks, local, target, left, ran>>
  BY DEF Wake, Return, queues, history
<1>2. Outside(a) \in Steps \ (Waits \cup WaitSteps \cup {"blocked", "runDue"}) /\ "_wake" \notin Waits
  BY StepNames DEF Waits, WaitSteps
<1>3. pc' \in [Actors -> Steps]
  BY <1>1, <1>2, GoFacts DEF IInv
<1>4. service.thread \in Loops \cup {Nobody} /\ threads \in Threads
  BY DEF IInv, Types, Threads
<1>5. CASE service.thread = Nobody
  <2>1. threads' = threads
    BY <1>5 DEF Wake
  <2>2. TargetInv' /\ OneLoop' /\ PhaseInv'
    BY <1>1, <1>2, <2>1, PlaceStep
  <2>3. SleepInv'
    BY <1>1, <1>5, ConstantsAssumption DEF SleepInv, Unsignalled
  <2>4. Types' /\ FreshInv'
    BY <1>1, <1>3, <2>1 DEF IInv, Types, FreshInv
  <2> QED BY <2>2, <2>3, <2>4 DEF IInv
<1>6. CASE service.thread # Nobody
  <2>1. threads' = [threads EXCEPT ![service.thread].signal = TRUE]
    BY <1>6 DEF Wake
  <2>2. /\ threads' \in Threads /\ threads'[service.thread].signal
        /\ \A l \in Loops : threads'[l].stop = threads[l].stop
    BY <1>4, <1>6, <2>1 DEF Threads
  <2>3. TargetInv' /\ OneLoop' /\ PhaseInv'
    BY <1>1, <1>2, <2>2, PlaceStep
  <2>4. SleepInv'
    BY <1>1, <2>2 DEF SleepInv, Unsignalled
  <2>5. Types' /\ FreshInv'
    BY <1>1, <1>3, <2>2 DEF IInv, Types, FreshInv, Threads
  <2> QED BY <2>3, <2>4, <2>5 DEF IInv
<1> QED BY <1>5, <1>6

-----------------------------------------------------------------------------
(* start, stop, release                                                    *)

\* A thread starts with a new pass; nobody was running the loop for the service.
LEMMA StartStep ==
    ASSUME IInv, NEW a \in Actors, Start(a)
    PROVE  IInv'
<1>1. PICK l \in Loops :
         /\ pc[l] = "off" /\ service' = [service EXCEPT !.thread = l]
         /\ threads' = [threads EXCEPT ![l] = NewThread]
         /\ local' = [local EXCEPT ![l] = NewPass]
         /\ pc' = [pc EXCEPT ![l] = "while", ![a] = Outside(a)]
  BY DEF Start
<1>2. /\ pc[a] = "start" /\ service.thread = Nobody
      /\ UNCHANGED <<now, holder, queueTasks, timeTasks, target, left, ran>>
  BY DEF Start, MayStart, queues, history
<1>3. l \in Actors /\ l # a
  BY <1>1, <1>2 DEF Actors
<1>4. Outside(a) \in {"outside", "task"} /\ {"while", "outside", "task"} \subseteq Steps
  BY StepNames DEF Steps, LoopSteps
<1>5. /\ pc' \in [Actors -> Steps] /\ pc'[l] = "while" /\ pc'[a] = Outside(a)
      /\ \A u \in Actors \ {a, l} : pc'[u] = pc[u]
  BY <1>1, <1>3, <1>4 DEF IInv, Types
<1>6. NewThread \in [stop : BOOLEAN, waiting : BOOLEAN, signal : BOOLEAN]
      /\ NewPass \in Pass /\ NewPass.phase = "runTasks"
  BY DEF NewThread, NewPass, Pass
<1>7. /\ threads' \in Threads /\ local' \in [Loops -> Pass] /\ local'[l] = NewPass
      /\ \A k \in Loops \ {l} : threads'[k] = threads[k] /\ local'[k] = local[k]
  BY <1>1, <1>6 DEF IInv, Types, Threads
<1>8. service' \in [thread : Loops \cup {Nobody}, released : BOOLEAN] /\ service'.thread = l
  BY <1>1 DEF IInv, Types
<1>9. Types' /\ FreshInv'
  BY <1>2, <1>5, <1>7, <1>8 DEF IInv, Types, FreshInv, Threads
<1>10. TargetInv'
  BY <1>1, <1>2, <1>3, <1>4, <1>5 DEF IInv, TargetInv
<1>11. OneLoop'
  <2> SUFFICES ASSUME NEW k \in Loops, IsRunning(k)', k # l
               PROVE  \/ threads'[k].stop \/ pc'[k] = "return"
                      \/ \E u \in Actors : target'[u] = k
    BY <1>8 DEF OneLoop
  <2>1. IsRunning(k) /\ (pc[k] = "return" => pc'[k] = "return")
    BY <1>2, <1>5 DEF IsRunning, Actors
  <2>2. threads[k].stop \/ pc[k] = "return" \/ \E u \in Actors : target[u] = k
    BY <2>1, <1>2, ConstantsAssumption DEF IInv, OneLoop
  <2> QED BY <2>1, <2>2, <1>2, <1>7
<1>12. PhaseInv'
  <2> SUFFICES ASSUME NEW k \in Loops
               PROVE  /\ pc'[k] \in WaitSteps \cup {"runDue"} => local'[k].phase = "runDue"
                      /\ pc'[k] = "blocked" /\ local'[k].timeout # -1 =>
                            local'[k].until <= local'[k].from + local'[k].timeout
    BY DEF PhaseInv
  <2>1. CASE k \in {l, a}
    BY <2>1, <1>4, <1>5 DEF WaitSteps
  <2>2. CASE k \notin {l, a}
    BY <2>2, <1>5, <1>7 DEF IInv, PhaseInv, Actors
  <2> QED BY <2>1, <2>2
<1>13. SleepInv'
  <2> SUFFICES ASSUME Unsignalled(l)'
               PROVE  /\ pc'[l] \in WaitSteps => queueTasks' = <<>>
                      /\ local'[l].phase = "runDue" => Covered(l)'
    BY <1>8 DEF SleepInv, Unsignalled
  <2> QED BY <1>5, <1>6, <1>7 DEF WaitSteps
<1> QED BY <1>9, <1>10, <1>11, <1>12, <1>13 DEF IInv

\* The service gives up its thread, which is the target of the one that waits for it.
LEMMA StopStep ==
    ASSUME IInv, NEW a \in Actors, Stop(a) \/ Release(a)
    PROVE  IInv'
<1>1. PICK from \in {"stop", "release"}, to \in {"finishAndWait", "clearTasks"} :
         Go(a, from, to) /\ (to = "finishAndWait" <=> service.thread # Nobody)
  BY DEF Stop, Release
<1>2. /\ target' = [target EXCEPT ![a] = service.thread]
      /\ holder' \in {holder, a}
      /\ UNCHANGED <<now, queueTasks, timeTasks, threads, local, left, ran>>
  BY DEF Stop, Release, queues, history
<1>3. service' \in [thread : Loops \cup {Nobody}, released : BOOLEAN] /\ service'.thread = Nobody
  <2>1. service \in [thread : Loops \cup {Nobody}, released : BOOLEAN]
    BY DEF IInv, Types
  <2>2. CASE Stop(a)
    BY <2>1, <2>2 DEF Stop
  <2>3. CASE Release(a)
    BY <2>3 DEF Release
  <2> QED BY <2>2, <2>3
<1>4. to \in Steps /\ from \notin {"off", "return", "_wake"} /\ to \notin WaitSteps \cup {"runDue"}
  BY <1>1 DEF Steps, CallSteps, WaitSteps
<1>5. /\ pc[a] = from /\ pc' \in [Actors -> Steps] /\ pc'[a] = to
      /\ \A u \in Actors \ {a} : pc'[u] = pc[u]
  BY <1>1, <1>4, GoFacts DEF IInv
<1>6. /\ target' \in [Actors -> Loops \cup {Nobody}] /\ target'[a] = service.thread
      /\ \A u \in Actors \ {a} : target'[u] = target[u]
  BY <1>2 DEF IInv, Types
<1>7. Types' /\ FreshInv'
  BY <1>2, <1>3, <1>5, <1>6 DEF IInv, Types, FreshInv
<1>8. TargetInv'
  BY <1>1, <1>5, <1>6 DEF IInv, TargetInv
<1>9. target[a] = Nobody
  BY <1>1, <1>5 DEF IInv, TargetInv
<1>10. OneLoop'
  <2> SUFFICES ASSUME NEW k \in Loops, IsRunning(k)'
               PROVE  \/ threads'[k].stop \/ pc'[k] = "return"
                      \/ \E u \in Actors : target'[u] = k
    BY DEF OneLoop
  <2>1. IsRunning(k) /\ (pc[k] = "return" => pc'[k] = "return")
    BY <1>4, <1>5 DEF IsRunning, Actors
  <2>2. service.thread = k \/ threads[k].stop \/ pc[k] = "return" \/ \E u \in Actors : target[u] = k
    BY <2>1 DEF IInv, OneLoop
  <2>3. ASSUME NEW u \in Actors, target[u] = k PROVE target'[u] = k
    BY <2>3, <1>6, <1>9, ConstantsAssumption
  <2> QED BY <2>1, <2>2, <2>3, <1>2, <1>6
<1>11. PhaseInv'
  <2> SUFFICES ASSUME NEW k \in Loops
               PROVE  /\ pc'[k] \in WaitSteps \cup {"runDue"} => local[k].phase = "runDue"
                      /\ pc'[k] = "blocked" /\ local[k].timeout # -1 =>
                            local[k].until <= local[k].from + local[k].timeout
    BY <1>2 DEF PhaseInv
  <2>1. CASE k = a
    BY <2>1, <1>4, <1>5 DEF WaitSteps
  <2>2. CASE k # a
    BY <2>2, <1>5 DEF IInv, PhaseInv, Actors
  <2> QED BY <2>1, <2>2
<1>12. SleepInv'
  BY <1>3, ConstantsAssumption DEF SleepInv, Unsignalled
<1> QED BY <1>7, <1>8, <1>10, <1>11, <1>12 DEF IInv

LEMMA FinishWakeStep ==
    ASSUME IInv, NEW a \in Actors, FinishWake(a)
    PROVE  IInv'
<1>1. /\ Go(a, "finishWake", "finishAndWait")
      /\ threads' = [threads EXCEPT ![target[a]].signal = @ \/ threads[target[a]].waiting]
      /\ UNCHANGED <<now, service, holder, queueTasks, timeTasks, local, target, left, ran>>
  BY DEF FinishWake, queues, history
<1>2. threads \in Threads
  BY DEF IInv, Types, Threads
<1>3. /\ threads' \in Threads
      /\ \A l \in Loops : (threads[l].signal => threads'[l].signal) /\ (threads[l].stop => threads'[l].stop)
  <2> DEFINE sig == threads[target[a]].signal \/ threads[target[a]].waiting
  <2>1. sig \in BOOLEAN /\ (threads[target[a]].signal => sig)
    OBVIOUS
  <2>2. threads' = [threads EXCEPT ![target[a]].signal = sig]
    BY <1>1
  <2> HIDE DEF sig
  <2>3. threads' \in Threads
    BY <1>2, <2>1, <2>2 DEF Threads
  <2>4. ASSUME NEW l \in Loops PROVE (threads[l].signal => threads'[l].signal) /\ (threads[l].stop => threads'[l].stop)
    <3>1. CASE l = target[a]
      BY <1>2, <2>1, <2>2, <3>1 DEF Threads
    <3>2. CASE l # target[a]
      BY <1>2, <2>2, <3>2 DEF Threads
    <3> QED BY <3>1, <3>2
  <2> QED BY <2>3, <2>4
<1>4. "finishAndWait" \in Steps \ (WaitSteps \cup {"runDue", "blocked"}) /\ {"finishAndWait", "finishWake"} = Waits
  BY DEF Steps, CallSteps, WaitSteps, Waits
<1> QED BY <1>1, <1>3, <1>4, OwnStep

\* A thread that is not waited for has ended, or is asked to stop by itself.
LEMMA FinishAndWaitStep ==
    ASSUME IInv, NEW a \in Actors, FinishAndWait(a)
    PROVE  IInv'
<1>1. pc[a] = "finishAndWait" /\ UNCHANGED <<now, service, queueTasks, timeTasks, local, left, ran>>
  BY DEF FinishAndWait, queues, history
<1>2. target[a] \in Loops /\ threads \in Threads
  BY <1>1 DEF IInv, TargetInv, Types, Threads
<1>3. CASE WaitFor(a)
  <2>1. /\ Go(a, "finishAndWait", "finishWake") /\ UNCHANGED <<holder, target>>
        /\ threads' = [threads EXCEPT ![target[a]].stop = TRUE]
    BY <1>3 DEF FinishAndWait
  <2>2. /\ threads' \in Threads
        /\ \A l \in Loops : (threads[l].signal => threads'[l].signal) /\ (threads[l].stop => threads'[l].stop)
    BY <1>2, <2>1 DEF Threads
  <2>3. "finishWake" \in Steps \ (WaitSteps \cup {"runDue", "blocked"}) /\ {"finishAndWait", "finishWake"} = Waits
    BY DEF Steps, CallSteps, WaitSteps, Waits
  <2> QED BY <1>1, <2>1, <2>2, <2>3, OwnStep
<1>4. CASE ~WaitFor(a)
  <2>1. /\ target' = [target EXCEPT ![a] = Nobody] /\ holder' \in {holder, Nobody}
        /\ threads' = [threads EXCEPT ![target[a]].stop = threads[target[a]].stop \/ target[a] = a]
    BY <1>4 DEF FinishAndWait, AfterWait
  <2>2. PICK to \in {"outside", "task", "clearTasks"} : Go(a, "finishAndWait", to)
    BY <1>4, StepNames DEF FinishAndWait, AfterWait, Return
  <2>3. to \in Steps
    BY <2>2 DEF Steps, CallSteps, LoopSteps
  <2>4. /\ pc' \in [Actors -> Steps] /\ pc'[a] = to
        /\ \A u \in Actors \ {a} : pc'[u] = pc[u]
    BY <2>2, <2>3, GoFacts DEF IInv
  <2>5. /\ target' \in [Actors -> Loops \cup {Nobody}] /\ target'[a] = Nobody
        /\ \A u \in Actors \ {a} : target'[u] = target[u]
    BY <2>1 DEF IInv, Types
  <2>6. /\ threads' \in Threads
        /\ \A l \in Loops : threads'[l].signal = threads[l].signal /\ (threads[l].stop => threads'[l].stop)
        /\ target[a] = a => threads'[a].stop
    BY <1>2, <2>1 DEF Threads
  <2>7. Types' /\ FreshInv'
    BY <1>1, <2>1, <2>4, <2>5, <2>6 DEF IInv, Types, FreshInv, Threads
  <2>8. TargetInv'
    BY <2>2, <2>4, <2>5 DEF IInv, TargetInv
  <2>9. OneLoop'
    <3> SUFFICES ASSUME NEW k \in Loops, IsRunning(k)'
                 PROVE  \/ service'.thread = k \/ threads'[k].stop \/ pc'[k] = "return"
                        \/ \E u \in Actors : target'[u] = k
      BY DEF OneLoop
    <3>1. IsRunning(k) /\ (pc[k] = "return" => pc'[k] = "return")
      BY <1>1, <2>4 DEF IsRunning, Actors
    <3>2. service.thread = k \/ threads[k].stop \/ pc[k] = "return" \/ \E u \in Actors : target[u] = k
      BY <3>1 DEF IInv, OneLoop
    <3>3. target[a] = k => threads'[k].stop
      BY <3>1, <1>4, <2>6 DEF WaitFor
    <3> QED BY <3>1, <3>2, <3>3, <1>1, <2>5, <2>6
  <2>10. PhaseInv'
    <3> SUFFICES ASSUME NEW k \in Loops
                 PROVE  /\ pc'[k] \in WaitSteps \cup {"runDue"} => local[k].phase = "runDue"
                        /\ pc'[k] = "blocked" /\ local[k].timeout # -1 =>
                              local[k].until <= local[k].from + local[k].timeout
      BY <1>1 DEF PhaseInv
    <3>1. CASE k = a
      BY <3>1, <2>2, <2>4 DEF WaitSteps
    <3>2. CASE k # a
      BY <3>2, <2>4 DEF IInv, PhaseInv, Actors
    <3> QED BY <3>1, <3>2
  <2>11. SleepInv'
    <3> SUFFICES ASSUME NEW l \in Loops, Unsignalled(l)'
                 PROVE  /\ pc'[l] \in WaitSteps => queueTasks' = <<>>
                        /\ local[l].phase = "runDue" => Covered(l)'
      BY <1>1 DEF SleepInv
    <3>1. Unsignalled(l)
      BY <1>1, <2>4, <2>6 DEF Unsignalled
    <3>2. pc'[l] \in WaitSteps => pc[l] \in WaitSteps
      BY <2>2, <2>4 DEF Actors, WaitSteps
    <3> QED BY <3>1, <3>2, <1>1 DEF IInv, SleepInv, Covered
  <2> QED BY <2>7, <2>8, <2>9, <2>10, <2>11 DEF IInv
<1> QED BY <1>3, <1>4

-----------------------------------------------------------------------------
LEMMA StutterStep ==
    ASSUME IInv, now' \in Nat,
           UNCHANGED <<service, holder, queueTasks, timeTasks, threads, pc, local, target, left, ran>>
    PROVE  IInv'
<1>1. Types' /\ FreshInv' /\ TargetInv'
  BY DEF IInv, Types, FreshInv, TargetInv
<1>2. OneLoop' /\ PhaseInv'
  BY DEF IInv, OneLoop, IsRunning, PhaseInv
<1>3. SleepInv'
  BY DEF IInv, SleepInv, Unsignalled, Covered
<1> QED BY <1>1, <1>2, <1>3 DEF IInv

LEMMA NextIInv == IInv /\ [Next]_vars => IInv'
<1> SUFFICES ASSUME IInv, [Next]_vars PROVE IInv'
  OBVIOUS
<1>1. now \in Nat
  BY DEF IInv, Types
<1>2. CASE UNCHANGED vars
  BY <1>1, <1>2, StutterStep DEF vars
<1>3. CASE Tick
  <2>1. now' = now + 1
    BY <1>3 DEF Tick
  <2>2. UNCHANGED <<service, holder, queueTasks, timeTasks, threads, pc, local, target, left, ran>>
    BY <1>3 DEF Tick, queues, history
  <2> QED BY <1>1, <2>1, <2>2, StutterStep
<1>4. ASSUME NEW a \in Actors, Call(a) PROVE IInv'
  BY <1>4, CallStep
<1>5. ASSUME NEW a \in Actors, Proceed(a) PROVE IInv'
  BY <1>5, DispatchStep, CallStep, FinishAndWaitStep, FinishWakeStep, ClearStep DEF Proceed
<1>6. ASSUME NEW a \in Actors, Acquire(a) PROVE IInv'
  BY <1>6, WakeStep, CallStep, StartStep, StopStep DEF Acquire
<1>7. ASSUME NEW l \in Loops, Work(l) PROVE IInv'
  BY <1>7, LoopStep, MergeStep, RunTaskStep, TakeDueStep, RunDueStep, TimeoutStep, WaitStep,
     DoWaitStep, UnblockStep DEF Work
<1>8. ASSUME NEW l \in Loops, EndTask(l) PROVE IInv'
  BY <1>8, LoopStep
<1> QED BY <1>2, <1>3, <1>4, <1>5, <1>6, <1>7, <1>8 DEF Next

\* The inductive invariant: what the thread's pass knows of the queues, unless it has a
\* signal, and who is responsible for a thread that still runs.
THEOREM Invariance == Spec => []IInv
<1>1. Init => IInv
  BY InitIInv
<1>2. IInv /\ [Next]_vars => IInv'
  BY NextIInv
<1> QED BY <1>1, <1>2, PTL DEF Spec

\* start(), stop() and release() never leave two threads that go on running the loop.
THEOREM OneLoopRuns == Spec => []Inv
<1>1. IInv => Inv
  BY IInvImplies
<1> QED BY <1>1, Invariance, PTL

\* The loop does not sleep while a task is queued, nor past the time of a delayed one.
THEOREM SleepsInTime == Spec => []NeverOversleeps
<1>1. IInv => NeverOversleeps
  BY IInvImplies
<1> QED BY <1>1, Invariance, PTL

-----------------------------------------------------------------------------
(* The timer                                                               *)

\* A step of thread a, Collect being the loop's.
TimerStep(a) == \/ T!Call(a) \/ T!Proceed(a) \/ T!Acquire(a) \/ T!EndWait(a) \/ T!EndTask(a)
                \/ a = Loop /\ T!Collect

\* A thread is outside of the task where it says so.
PlaceInv == \A a \in T!Actors :
    /\ timerPc[a] = "task" => inside[a] # "none"
    /\ timerPc[a] \in {"outside", "loop", "run", "skip", "startNow"} => inside[a] = "none"

\* What m_nCountRun counts: the threads that run() let into the task, and one that
\* it is about to send away.
Counted == {a \in T!Actors : inside[a] = "run" \/ timerPc[a] = "skip"}

CountInv == nCountRun = Cardinality(Counted)

Adding  == T!At({"addTimer"})
Coming  == {a \in T!Actors : inside[a] = "now"}
Removing == T!At({"removeTimer", "removeTimerAndWait"})

\* The entries in the queue and those still to be added are enough for the removals
\* to come, with one to spare where the timer is started.
EntryInv ==
    /\ entries + T!Added <= MaxEntries
    /\ entries + T!Added >= T!Removed + (IF flagStarted THEN 1 ELSE 0)

QuietInv == quiet => ~flagStarted /\ T!Running = {}

\* The types, the range of the count apart, which follows from CountInv.
TimerTypes ==
    /\ flagStarted \in BOOLEAN /\ quiet \in BOOLEAN
    /\ nCountRun \in Nat /\ entries \in Nat /\ timerHolder \in T!Actors \cup {Nobody}
    /\ timerPc \in [T!Actors -> T!Steps] /\ inside \in [T!Actors -> {"none", "run", "now"}]

LimitInv == Cardinality(T!Running) <= MaxConcurrent

TimerIInv == TimerTypes /\ PlaceInv /\ CountInv /\ LimitInv /\ EntryInv /\ QuietInv

-----------------------------------------------------------------------------
(* Finite sets that one thread enters or leaves                            *)

One(b) == IF b THEN 1 ELSE 0

\* The instance counts as this module does.
LEMMA SameCount ==
    /\ \A S : T!Cardinality(S) = Cardinality(S)
    /\ \A S : T!IsFiniteSet(S) <=> IsFiniteSet(S)
<1>1. ASSUME NEW S PROVE T!Cardinality(S) = Cardinality(S)
  BY DEF T!Cardinality, Cardinality
<1>2. ASSUME NEW S PROVE T!IsFiniteSet(S) <=> IsFiniteSet(S)
  BY DEF T!IsFiniteSet, IsFiniteSet
<1> QED BY <1>1, <1>2

\* Finitely many threads use the timer.
LEMMA FewActors == IsFiniteSet(T!Actors)
<1>1. IsFiniteSet(Callers)
  BY TimerAssumption, SameCount DEF T!ConstantsAssumption
<1> QED BY <1>1, FS_AddElement DEF T!Actors

\* A set that differs from another by one element at most.
LEMMA Change ==
    ASSUME NEW S, NEW R, NEW a, IsFiniteSet(S), R \ {a} = S \ {a}
    PROVE  /\ IsFiniteSet(R) /\ Cardinality(S) \in Nat /\ Cardinality(R) \in Nat
           /\ Cardinality(R) = Cardinality(S) + One(a \in R) - One(a \in S)
<1>1. Cardinality(S) \in Nat
  BY FS_CardinalityType
<1>2. CASE a \in R /\ a \notin S
  <2>1. R = S \cup {a}
    BY <1>2
  <2> QED BY <1>1, <1>2, <2>1, FS_AddElement DEF One
<1>3. CASE a \notin R /\ a \in S
  <2>1. R = S \ {a}
    BY <1>3
  <2>2. IsFiniteSet(R) /\ Cardinality(R) = Cardinality(S) - 1
    BY <1>3, <2>1, FS_RemoveElement
  <2>3. Cardinality(R) \in Nat
    BY <2>2, FS_CardinalityType
  <2> QED BY <1>1, <1>3, <2>2, <2>3 DEF One
<1>4. CASE a \in R <=> a \in S
  <2>1. R = S
    BY <1>4
  <2> QED BY <1>1, <1>4, <2>1 DEF One
<1> QED BY <1>2, <1>3, <1>4

\* A thread that is counted makes the count positive.
LEMMA Positive == ASSUME TimerIInv, NEW a \in Counted PROVE nCountRun >= 1
<1>1. IsFiniteSet(Counted)
  BY FewActors, FS_Subset DEF Counted
<1>2. Cardinality(Counted) # 0 /\ Cardinality(Counted) \in Nat
  BY <1>1, FS_EmptySet, FS_CardinalityType
<1> QED BY <1>2 DEF TimerIInv, CountInv

\* A step moves one thread, and keeps the types.
LEMMA Moves ==
    ASSUME TimerIInv, NEW a \in T!Actors, TimerStep(a)
    PROVE  /\ TimerTypes'
           /\ timerPc' = [timerPc EXCEPT ![a] = timerPc'[a]]
           /\ inside' = [inside EXCEPT ![a] = inside'[a]]
<1> USE DEF TimerIInv, TimerTypes, T!Go, T!Return, T!Outside, T!Steps
<1>1. CASE T!Call(a)
  BY <1>1 DEF T!Call
<1>2. CASE T!AddTimer(a)
  BY <1>2 DEF T!AddTimer
<1>3. CASE T!RemoveTimer(a)
  BY <1>3 DEF T!RemoveTimer, T!Remaining
<1>4. CASE T!Skip(a)
  BY <1>4, Positive DEF T!Skip, Counted
<1>5. CASE T!Start(a)
  BY <1>5 DEF T!Start
<1>6. CASE T!AlreadyDone(a)
  BY <1>6 DEF T!AlreadyDone
<1>7. CASE T!Stop(a)
  BY <1>7 DEF T!Stop
<1>8. CASE T!RunStopped(a)
  BY <1>8 DEF T!RunStopped
<1>9. CASE T!Run(a)
  BY <1>9 DEF T!Run
<1>10. CASE T!EndWait(a)
  BY <1>10 DEF T!EndWait
<1>11. CASE T!EndTask(a)
  BY <1>11, Positive DEF T!EndTask, Counted
<1>12. CASE a = Loop /\ T!Collect
  BY <1>12 DEF T!Collect
<1> QED BY <1>1, <1>2, <1>3, <1>4, <1>5, <1>6, <1>7, <1>8, <1>9, <1>10, <1>11, <1>12
  DEF TimerStep, T!Proceed, T!Acquire

\* How many threads are in each of the sets the invariant counts, after a step of a.
LEMMA Sizes ==
    ASSUME TimerIInv, NEW a \in T!Actors, TimerStep(a)
    PROVE  /\ Cardinality(Counted) \in Nat /\ Cardinality(T!Running) \in Nat
           /\ Cardinality(T!Running) <= Cardinality(Counted)
           /\ T!Added \in Nat /\ T!Removed \in Nat
           /\ Cardinality(Counted') = Cardinality(Counted)
                 + One(inside'[a] = "run" \/ timerPc'[a] = "skip")
                 - One(inside[a] = "run" \/ timerPc[a] = "skip")
           /\ Cardinality(T!Running') = Cardinality(T!Running)
                 + One(inside'[a] = "run") - One(inside[a] = "run")
           /\ T!Added' = T!Added + One(timerPc'[a] = "addTimer") - One(timerPc[a] = "addTimer")
                             + One(inside'[a] = "now") - One(inside[a] = "now")
           /\ T!Removed' = T!Removed + One(timerPc'[a] \in {"removeTimer", "removeTimerAndWait"})
                                 - One(timerPc[a] \in {"removeTimer", "removeTimerAndWait"})
<1>1. IsFiniteSet(T!Actors)
  BY FewActors
<1>2. IsFiniteSet(Counted) /\ IsFiniteSet(T!Running) /\ IsFiniteSet(Adding)
      /\ IsFiniteSet(Coming) /\ IsFiniteSet(Removing)
  BY <1>1, FS_Subset DEF Counted, T!Running, Adding, Coming, Removing, T!At
<1>3. /\ timerPc' = [timerPc EXCEPT ![a] = timerPc'[a]] /\ inside' = [inside EXCEPT ![a] = inside'[a]]
      /\ timerPc \in [T!Actors -> T!Steps] /\ inside \in [T!Actors -> {"none", "run", "now"}]
  BY Moves DEF TimerIInv, TimerTypes
<1>4. /\ Counted' \ {a} = Counted \ {a} /\ T!Running' \ {a} = T!Running \ {a}
      /\ Adding' \ {a} = Adding \ {a} /\ Coming' \ {a} = Coming \ {a}
      /\ Removing' \ {a} = Removing \ {a}
  BY <1>3 DEF Counted, T!Running, Adding, Coming, Removing, T!At
<1>5. /\ a \in Counted <=> inside[a] = "run" \/ timerPc[a] = "skip"
      /\ a \in T!Running <=> inside[a] = "run"
      /\ a \in Adding <=> timerPc[a] = "addTimer"
      /\ a \in Coming <=> inside[a] = "now"
      /\ a \in Removing <=> timerPc[a] \in {"removeTimer", "removeTimerAndWait"}
  BY DEF Counted, T!Running, Adding, Coming, Removing, T!At
<1>6. /\ a \in Counted' <=> inside'[a] = "run" \/ timerPc'[a] = "skip"
      /\ a \in T!Running' <=> inside'[a] = "run"
      /\ a \in Adding' <=> timerPc'[a] = "addTimer"
      /\ a \in Coming' <=> inside'[a] = "now"
      /\ a \in Removing' <=> timerPc'[a] \in {"removeTimer", "removeTimerAndWait"}
  BY DEF Counted, T!Running, Adding, Coming, Removing, T!At
<1>7. /\ Cardinality(Counted) \in Nat
      /\ Cardinality(Counted') = Cardinality(Counted)
            + One(inside'[a] = "run" \/ timerPc'[a] = "skip")
            - One(inside[a] = "run" \/ timerPc[a] = "skip")
  BY <1>2, <1>4, <1>5, <1>6, Change
<1>8. /\ Cardinality(T!Running) \in Nat
      /\ Cardinality(T!Running') = Cardinality(T!Running)
            + One(inside'[a] = "run") - One(inside[a] = "run")
  BY <1>2, <1>4, <1>5, <1>6, Change
<1>9. /\ Cardinality(Adding) \in Nat /\ Cardinality(Coming) \in Nat
      /\ Cardinality(Adding') = Cardinality(Adding)
            + One(timerPc'[a] = "addTimer") - One(timerPc[a] = "addTimer")
      /\ Cardinality(Coming') = Cardinality(Coming)
            + One(inside'[a] = "now") - One(inside[a] = "now")
  BY <1>2, <1>4, <1>5, <1>6, Change
<1>10. /\ T!Removed \in Nat
       /\ T!Removed' = T!Removed + One(timerPc'[a] \in {"removeTimer", "removeTimerAndWait"})
                             - One(timerPc[a] \in {"removeTimer", "removeTimerAndWait"})
  BY <1>2, <1>4, <1>5, <1>6, Change, SameCount DEF T!Removed, Removing
<1>11. T!Added = Cardinality(Adding) + Cardinality(Coming)
       /\ T!Added' = Cardinality(Adding') + Cardinality(Coming')
  BY SameCount DEF T!Added, Adding, Coming
<1>12. T!Added \in Nat
       /\ T!Added' = T!Added + One(timerPc'[a] = "addTimer") - One(timerPc[a] = "addTimer")
                         + One(inside'[a] = "now") - One(inside[a] = "now")
  BY <1>9, <1>11 DEF One
<1>13. Cardinality(T!Running) <= Cardinality(Counted)
  BY <1>2, FS_Subset DEF Counted, T!Running
<1> QED BY <1>7, <1>8, <1>10, <1>12, <1>13

-----------------------------------------------------------------------------
(* Each part of the invariant                                              *)

\* A thread says that it is inside the task exactly while it is.
LEMMA TimerPlaceStep == ASSUME TimerIInv, NEW a \in T!Actors, TimerStep(a) PROVE PlaceInv'
<1> USE DEF TimerIInv, TimerTypes, PlaceInv, T!Go, T!Return, T!Outside, T!Steps
<1>1. CASE T!Call(a)
  BY <1>1 DEF T!Call
<1>2. CASE T!AddTimer(a)
  BY <1>2 DEF T!AddTimer
<1>3. CASE T!RemoveTimer(a)
  BY <1>3 DEF T!RemoveTimer
<1>4. CASE T!Skip(a)
  BY <1>4 DEF T!Skip
<1>5. CASE T!Start(a)
  BY <1>5 DEF T!Start
<1>6. CASE T!AlreadyDone(a)
  BY <1>6 DEF T!AlreadyDone
<1>7. CASE T!Stop(a)
  BY <1>7 DEF T!Stop
<1>8. CASE T!RunStopped(a)
  BY <1>8 DEF T!RunStopped
<1>9. CASE T!Run(a)
  BY <1>9 DEF T!Run
<1>10. CASE T!EndWait(a)
  BY <1>10 DEF T!EndWait
<1>11. CASE T!EndTask(a)
  BY <1>11 DEF T!EndTask
<1>12. CASE a = Loop /\ T!Collect
  BY <1>12 DEF T!Collect
<1> QED BY <1>1, <1>2, <1>3, <1>4, <1>5, <1>6, <1>7, <1>8, <1>9, <1>10, <1>11, <1>12
  DEF TimerStep, T!Proceed, T!Acquire

\* Every run is counted up and down once, and no more are let in than the limit.
LEMMA CountStep ==
    ASSUME TimerIInv, NEW a \in T!Actors, TimerStep(a)
    PROVE  CountInv' /\ LimitInv'
<1>1. CASE T!Run(a)
  BY <1>1, Sizes, Moves, TimerAssumption
  DEF T!ConstantsAssumption, T!Run, T!MayRun, TimerIInv, TimerTypes, PlaceInv, CountInv,
      LimitInv, T!Go, One
<1>2. CASE T!Call(a)
  BY <1>2, Sizes, Moves, TimerAssumption
  DEF T!ConstantsAssumption, T!Call, TimerIInv, TimerTypes, PlaceInv, CountInv, LimitInv,
      T!Go, T!Return, T!Outside, One
<1>3. CASE T!AddTimer(a)
  BY <1>3, Sizes, Moves, TimerAssumption
  DEF T!ConstantsAssumption, T!AddTimer, TimerIInv, TimerTypes, PlaceInv, CountInv,
      LimitInv, T!Go, T!Return, T!Outside, One
<1>4. CASE T!RemoveTimer(a)
  BY <1>4, Sizes, Moves, TimerAssumption
  DEF T!ConstantsAssumption, T!RemoveTimer, TimerIInv, TimerTypes, PlaceInv, CountInv,
      LimitInv, T!Go, T!Return, T!Outside, One
<1>5. CASE T!Skip(a)
  BY <1>5, Sizes, Moves, TimerAssumption
  DEF T!ConstantsAssumption, T!Skip, TimerIInv, TimerTypes, PlaceInv, CountInv, LimitInv,
      T!Go, T!Return, T!Outside, One
<1>6. CASE T!Start(a)
  BY <1>6, Sizes, Moves, TimerAssumption
  DEF T!ConstantsAssumption, T!Start, TimerIInv, TimerTypes, PlaceInv, CountInv, LimitInv,
      T!Go, T!Return, T!Outside, One
<1>7. CASE T!AlreadyDone(a)
  BY <1>7, Sizes, Moves, TimerAssumption
  DEF T!ConstantsAssumption, T!AlreadyDone, TimerIInv, TimerTypes, PlaceInv, CountInv,
      LimitInv, T!Go, T!Return, T!Outside, One
<1>8. CASE T!Stop(a)
  BY <1>8, Sizes, Moves, TimerAssumption
  DEF T!ConstantsAssumption, T!Stop, TimerIInv, TimerTypes, PlaceInv, CountInv, LimitInv,
      T!Go, T!Return, T!Outside, One
<1>9. CASE T!RunStopped(a)
  BY <1>9, Sizes, Moves, TimerAssumption
  DEF T!ConstantsAssumption, T!RunStopped, TimerIInv, TimerTypes, PlaceInv, CountInv,
      LimitInv, T!Go, T!Return, T!Outside, One
<1>10. CASE T!EndWait(a)
  BY <1>10, Sizes, Moves, TimerAssumption
  DEF T!ConstantsAssumption, T!EndWait, TimerIInv, TimerTypes, PlaceInv, CountInv,
      LimitInv, T!Go, T!Return, T!Outside, One
<1>11. CASE T!EndTask(a)
  BY <1>11, Sizes, Moves, TimerAssumption
  DEF T!ConstantsAssumption, T!EndTask, TimerIInv, TimerTypes, PlaceInv, CountInv,
      LimitInv, T!Go, T!Return, T!Outside, One
<1>12. CASE a = Loop /\ T!Collect
  BY <1>12, Sizes, Moves, TimerAssumption
  DEF T!ConstantsAssumption, T!Collect, TimerIInv, TimerTypes, PlaceInv, CountInv,
      LimitInv, T!Go, T!Return, T!Outside, One
<1> QED BY <1>1, <1>2, <1>3, <1>4, <1>5, <1>6, <1>7, <1>8, <1>9, <1>10, <1>11, <1>12
  DEF TimerStep, T!Proceed, T!Acquire

\* A removal takes no more than one entry, and a stop is allowed one by the start
\* before it.
LEMMA EntryStep == ASSUME TimerIInv, NEW a \in T!Actors, TimerStep(a) PROVE EntryInv'
<1>1. CASE T!Call(a)
  BY <1>1, Sizes, Moves, TimerAssumption
  DEF T!ConstantsAssumption, T!Call, TimerIInv, TimerTypes, PlaceInv, EntryInv, T!Go,
      T!Return, T!Outside, One
<1>2. CASE T!AddTimer(a)
  BY <1>2, Sizes, Moves, TimerAssumption
  DEF T!ConstantsAssumption, T!AddTimer, TimerIInv, TimerTypes, PlaceInv, EntryInv, T!Go,
      T!Return, T!Outside, One
<1>3. CASE T!RemoveTimer(a)
  BY <1>3, Sizes, Moves, TimerAssumption
  DEF T!ConstantsAssumption, T!RemoveTimer, T!Remaining, TimerIInv, TimerTypes, PlaceInv,
      EntryInv, T!Go, T!Return, T!Outside, One
<1>4. CASE T!Skip(a)
  BY <1>4, Sizes, Moves, TimerAssumption
  DEF T!ConstantsAssumption, T!Skip, TimerIInv, TimerTypes, PlaceInv, EntryInv, T!Go,
      T!Return, T!Outside, One
<1>5. CASE T!Start(a)
  BY <1>5, Sizes, Moves, TimerAssumption
  DEF T!ConstantsAssumption, T!Start, TimerIInv, TimerTypes, PlaceInv, EntryInv, T!Go,
      T!Return, T!Outside, One
<1>6. CASE T!AlreadyDone(a)
  BY <1>6, Sizes, Moves, TimerAssumption
  DEF T!ConstantsAssumption, T!AlreadyDone, TimerIInv, TimerTypes, PlaceInv, EntryInv,
      T!Go, T!Return, T!Outside, One
<1>7. CASE T!Stop(a)
  BY <1>7, Sizes, Moves, TimerAssumption
  DEF T!ConstantsAssumption, T!Stop, TimerIInv, TimerTypes, PlaceInv, EntryInv, T!Go,
      T!Return, T!Outside, One
<1>8. CASE T!RunStopped(a)
  BY <1>8, Sizes, Moves, TimerAssumption
  DEF T!ConstantsAssumption, T!RunStopped, TimerIInv, TimerTypes, PlaceInv, EntryInv, T!Go,
      T!Return, T!Outside, One
<1>9. CASE T!Run(a)
  BY <1>9, Sizes, Moves, TimerAssumption
  DEF T!ConstantsAssumption, T!Run, TimerIInv, TimerTypes, PlaceInv, EntryInv, T!Go,
      T!Return, T!Outside, One
<1>10. CASE T!EndWait(a)
  BY <1>10, Sizes, Moves, TimerAssumption
  DEF T!ConstantsAssumption, T!EndWait, TimerIInv, TimerTypes, PlaceInv, EntryInv, T!Go,
      T!Return, T!Outside, One
<1>11. CASE T!EndTask(a)
  BY <1>11, Sizes, Moves, TimerAssumption
  DEF T!ConstantsAssumption, T!EndTask, TimerIInv, TimerTypes, PlaceInv, EntryInv, T!Go,
      T!Return, T!Outside, One
<1>12. CASE a = Loop /\ T!Collect
  BY <1>12, Sizes, Moves, TimerAssumption
  DEF T!ConstantsAssumption, T!Collect, TimerIInv, TimerTypes, PlaceInv, EntryInv, T!Go,
      T!Return, T!Outside, One
<1> QED BY <1>1, <1>2, <1>3, <1>4, <1>5, <1>6, <1>7, <1>8, <1>9, <1>10, <1>11, <1>12
  DEF TimerStep, T!Proceed, T!Acquire

\* A wait that ends with the timer stopped leaves nobody inside the task, and only a
\* start lets somebody in.
LEMMA QuietStep == ASSUME TimerIInv, NEW a \in T!Actors, TimerStep(a) PROVE QuietInv'
<1> USE DEF TimerIInv, TimerTypes, PlaceInv, QuietInv, T!Running, T!Go, T!Return, T!Outside
<1>1. CASE T!Call(a)
  BY <1>1 DEF T!Call
<1>2. CASE T!AddTimer(a)
  BY <1>2 DEF T!AddTimer
<1>3. CASE T!RemoveTimer(a)
  BY <1>3 DEF T!RemoveTimer
<1>4. CASE T!Skip(a)
  BY <1>4 DEF T!Skip
<1>5. CASE T!Start(a)
  BY <1>5 DEF T!Start
<1>6. CASE T!AlreadyDone(a)
  BY <1>6 DEF T!AlreadyDone
<1>7. CASE T!Stop(a)
  BY <1>7 DEF T!Stop
<1>8. CASE T!RunStopped(a)
  BY <1>8 DEF T!RunStopped
<1>9. CASE T!Run(a)
  BY <1>9 DEF T!Run
<1>10. CASE T!EndWait(a)
  <2>1. nCountRun <= 0 /\ Cardinality(T!Running) <= nCountRun /\ Cardinality(T!Running) \in Nat
    BY <1>10, Sizes DEF T!EndWait, T!NoRuns, CountInv
  <2>2. IsFiniteSet(T!Running)
    BY FewActors, FS_Subset DEF T!Running
  <2>3. T!Running = {}
    BY <2>1, <2>2, FS_EmptySet
  <2> QED BY <1>10, <2>3 DEF T!EndWait
<1>11. CASE T!EndTask(a)
  BY <1>11 DEF T!EndTask
<1>12. CASE a = Loop /\ T!Collect
  BY <1>12 DEF T!Collect
<1> QED BY <1>1, <1>2, <1>3, <1>4, <1>5, <1>6, <1>7, <1>8, <1>9, <1>10, <1>11, <1>12
  DEF TimerStep, T!Proceed, T!Acquire

-----------------------------------------------------------------------------
\* The initial state satisfies the invariant.
LEMMA TimerInitInv == T!Init => TimerIInv
<1> SUFFICES ASSUME T!Init PROVE TimerIInv
  OBVIOUS
<1>1. Counted = {} /\ T!Running = {} /\ Adding = {} /\ Coming = {} /\ Removing = {}
  BY DEF T!Init, Counted, T!Running, Adding, Coming, Removing, T!At
<1>2. Cardinality({}) = 0
  BY FS_EmptySet
<1>3. T!Added = 0 /\ T!Removed = 0
  <2>1. T!Added = Cardinality(Adding) + Cardinality(Coming) /\ T!Removed = Cardinality(Removing)
    BY SameCount DEF T!Added, T!Removed, Adding, Coming, Removing
  <2> QED BY <1>1, <1>2, <2>1
<1>4. TimerTypes /\ PlaceInv /\ QuietInv
  BY DEF T!Init, TimerTypes, PlaceInv, QuietInv, T!Steps
<1>5. CountInv /\ LimitInv /\ EntryInv
  BY <1>1, <1>2, <1>3, TimerAssumption DEF T!ConstantsAssumption, T!Init, CountInv,
                                           LimitInv, EntryInv
<1> QED BY <1>4, <1>5 DEF TimerIInv

\* Every step keeps the invariant.
LEMMA TimerNextInv == TimerIInv /\ [T!Next]_(T!vars) => TimerIInv'
<1>1. ASSUME TimerIInv, NEW a \in T!Actors, TimerStep(a) PROVE TimerIInv'
  BY <1>1, Moves, TimerPlaceStep, CountStep, EntryStep, QuietStep DEF TimerIInv
<1>2. ASSUME TimerIInv, UNCHANGED T!vars PROVE TimerIInv'
  BY <1>2 DEF T!vars, TimerIInv, TimerTypes, PlaceInv, CountInv, LimitInv, EntryInv, QuietInv,
              Counted, T!Running, T!Added, T!Removed, T!At
<1>3. ASSUME TimerIInv, T!Next PROVE TimerIInv'
  <2>1. Loop \in T!Actors
    BY DEF T!Actors
  <2> QED BY <1>1, <1>3, <2>1 DEF T!Next, TimerStep
<1> QED BY <1>2, <1>3

\* The inductive invariant holds in every state.
THEOREM TimerInvariance == T!Spec => []TimerIInv
BY TimerInitInv, TimerNextInv, PTL DEF T!Spec

\* Every variable keeps its type: the count of runs stays between zero and the number
\* of threads, and the entries of the queue under their bound.
THEOREM TimerTypeCorrect == T!Spec => []T!TypeOK
<1>1. TimerIInv => T!TypeOK
  <2> SUFFICES ASSUME TimerIInv PROVE T!TypeOK
    OBVIOUS
  <2>1. IsFiniteSet(T!Actors)
    BY FewActors
  <2>2. Cardinality(Counted) <= Cardinality(T!Actors) /\ Cardinality(T!Actors) \in Nat
    BY <2>1, FS_Subset, FS_CardinalityType DEF Counted
  <2>3. IsFiniteSet(Adding) /\ IsFiniteSet(Coming)
    BY <2>1, FS_Subset DEF Adding, Coming, T!At
  <2>4. T!Added \in Nat
    BY <2>3, SameCount, FS_CardinalityType DEF T!Added, Adding, Coming
  <2> QED BY <2>2, <2>4, TimerAssumption, SameCount DEF T!ConstantsAssumption, TimerIInv, TimerTypes,
                                             CountInv, EntryInv, T!TypeOK
<1> QED BY <1>1, TimerInvariance, PTL

\* run() never has more threads inside the task than setMaxConcurrentThread allows,
\* for any limit and any number of threads.
THEOREM LimitedRuns == T!Spec => []RunsLimited
<1>1. TimerIInv => RunsLimited
  BY SameCount DEF TimerIInv, LimitInv, RunsLimited, T!RunsLimited
<1> QED BY <1>1, TimerInvariance, PTL

\* A timer that is started and that nobody is starting or stopping is in the loop's
\* queue, in whatever order starts and stops reached the queue.
THEOREM StartedStaysQueued == T!Spec => []StartedIsQueued
<1>1. TimerIInv => StartedIsQueued
  BY DEF TimerIInv, TimerTypes, EntryInv, StartedIsQueued, T!StartedIsQueued
<1> QED BY <1>1, TimerInvariance, PTL

\* After stopAndWait has returned no thread is inside a run of the task until the
\* timer is started again.
THEOREM QuietAfterWait == T!Spec => []QuietAfterStopAndWait
<1>1. TimerIInv => QuietAfterStopAndWait
  BY DEF TimerIInv, QuietInv, QuietAfterStopAndWait, T!QuietAfterStopAndWait
<1> QED BY <1>1, TimerInvariance, PTL
=============================================================================
