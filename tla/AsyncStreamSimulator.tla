----------------------- MODULE AsyncStreamSimulator -----------------------
(***************************************************************************)
(* AsyncStreamSimulator makes an asynchronous stream of one that blocks,   *)
(* here an AsyncFile: requests wait in a queue, and a task on a dispatcher *)
(* (_runProcessor) does them one after the other.  The flag                *)
(* m_flagProcessRequest says that the task was dispatched and will look at *)
(* the queue again.                                                        *)
(*                                                                         *)
(* A request that the file does in part, and that is to be done fully,     *)
(* goes to the end of the queue with what is left of it (runCallback); one *)
(* with a timeout may be answered before that, by another thread.          *)
(*                                                                         *)
(* The dispatcher may run its tasks on several threads, tell a thread to   *)
(* stop, and be released, which drops the tasks it has and refuses others. *)
(* Any thread may close the file at any time: close() takes no lock.       *)
(***************************************************************************)
EXTENDS Integers, Sequences, SequencesExt

CONSTANTS
    Callers,    \* the program's threads
    Workers,    \* the dispatcher's
    Requests,   \* each is made once
    Full,       \* those of readFully() and write(),
    Timed,      \* and those with a timeout
    Size,       \* of a request
    Nobody

ASSUME ConstantsAssumption ==
    /\ Callers \cap Workers = {} /\ Nobody \notin Requests /\ Full \cup Timed \subseteq Requests
    /\ Size \in Nat \ {0}

VARIABLES
    requests,   \* m_requests
    flagProcessRequest,
    opened,     \* the file is open
    tasks,      \* how many _runProcessor the dispatcher has to run
    released,   \* the dispatcher is
    stopping,   \* the workers that were told to stop
    pc, req,    \* the step each thread is at, and the request it is making
    serving,    \* the request a worker has, done and answered by it,
    ioSize,     \* and what the file returned for it
    sizePassed, flagFinished,   \* of each request
    timeouts,   \* of those with a timeout, where its task is
    made,       \* the requests that were made
    queued,     \* those that were queued, in order, a part that is left included
    done,       \* those the file was asked to do, in order
    did,        \* how much it did of each
    again,      \* those whose rest was refused when it was to be queued
    calls,      \* of each request's callback,
    told        \* and what it was told

queue == <<requests, flagProcessRequest>>
dispatcher == <<tasks, released, stopping>>
threads == <<pc, req, serving, ioSize>>
request == <<sizePassed, flagFinished, timeouts>>
work == <<queued, done, did, again>>
callbacks == <<calls, told>>
history == <<made, work, callbacks>>
vars == <<queue, opened, dispatcher, threads, request, history>>

Threads == Callers \cup Workers

\* The callers' steps, and a worker's; it makes requests from a callback.
Steps == {"outside", "ask", "add", "dispatch", "while", "process", "result", "callback"}

Init ==
    /\ requests = <<>> /\ flagProcessRequest = FALSE /\ opened = TRUE
    /\ tasks = 0 /\ released = FALSE /\ stopping = {}
    /\ pc = [t \in Threads |-> "outside"] /\ req = [t \in Threads |-> Nobody]
    /\ serving = [w \in Workers |-> Nobody] /\ ioSize = [w \in Workers |-> 0]
    /\ sizePassed = [r \in Requests |-> 0] /\ flagFinished = {} /\ timeouts = [r \in Timed |-> "none"]
    /\ made = {} /\ queued = <<>> /\ done = <<>> /\ did = [r \in Requests |-> 0] /\ again = {}
    /\ calls = [r \in Requests |-> 0] /\ told = {}

Go(t, from, to, r) ==
    /\ pc[t] = from /\ pc' = [pc EXCEPT ![t] = to] /\ req' = [req EXCEPT ![t] = r]

\* Where a call was made: in the program, which runs in its own threads and in callbacks, or
\* in runCallback(), for what is left of a request.
Home(t) == IF t \in Callers THEN "outside" ELSE IF serving[t] = Nobody THEN "while" ELSE "callback"

\* The callback is called with a size and a result code.  A size of -1 is the largest there is.
Answer(r, size, code) ==
    calls' = [calls EXCEPT ![r] = @ + 1] /\ told' = told \cup {[req |-> r, size |-> size, code |-> code]}

-----------------------------------------------------------------------------
(* The program                                                             *)

\* read() or write(): with a timeout, a task for it is dispatched first; a request that is
\* refused is answered in the call.
RequestIo(t) ==
    /\ Home(t) # "while"
    /\ \E r \in Requests \ made :
       /\ made' = made \cup {r}
       /\ \/ /\ Go(t, Home(t), "ask", r) /\ UNCHANGED callbacks
             /\ timeouts' = IF r \in Timed THEN [timeouts EXCEPT ![r] = "armed"] ELSE timeouts
          \/ /\ r \in Timed /\ released /\ Go(t, Home(t), Home(t), Nobody)
             /\ Answer(r, 0, "Unknown") /\ UNCHANGED timeouts
    /\ UNCHANGED <<queue, opened, dispatcher, serving, ioSize, sizePassed, flagFinished, work>>

\* requestIo() of the simulator.
Ask(t) ==
    /\ opened /\ Go(t, "ask", "add", req[t])
    /\ UNCHANGED <<queue, opened, dispatcher, serving, ioSize, request, history>>

Refused(t) ==
    /\ ~opened /\ Home(t) # "while" /\ Go(t, "ask", Home(t), Nobody) /\ Answer(req[t], 0, "Unknown")
    /\ UNCHANGED <<queue, opened, dispatcher, serving, ioSize, request, made, work>>

\* _addRequest(), under the lock.
AddRequest(t) ==
    /\ Go(t, "add", IF flagProcessRequest THEN Home(t) ELSE "dispatch", Nobody)
    /\ requests' = Append(requests, req[t]) /\ queued' = Append(queued, req[t])
    /\ flagProcessRequest' = TRUE
    /\ UNCHANGED <<opened, dispatcher, serving, ioSize, request, made, done, did, again, callbacks>>

\* The rest of it.  Nobody looks at what dispatch() returns.
Dispatch(t) ==
    /\ Go(t, "dispatch", Home(t), Nobody)
    /\ tasks' = IF released THEN tasks ELSE tasks + 1
    /\ UNCHANGED <<queue, opened, released, stopping, serving, ioSize, request, history>>

Close ==
    /\ opened /\ opened' = FALSE
    /\ UNCHANGED <<queue, dispatcher, threads, request, history>>

-----------------------------------------------------------------------------
(* The dispatcher and _runProcessor                                        *)

StopThread(w) ==
    /\ w \notin stopping /\ stopping' = stopping \cup {w}
    /\ UNCHANGED <<queue, opened, tasks, released, threads, request, history>>

ReleaseDispatcher ==
    /\ ~released /\ released' = TRUE /\ tasks' = 0
    /\ UNCHANGED <<queue, opened, stopping, threads, request, history>>

RunProcessor(w) ==
    /\ tasks > 0 /\ tasks' = tasks - 1 /\ w \notin stopping
    /\ Go(w, "outside", IF opened THEN "while" ELSE "outside", Nobody)
    /\ UNCHANGED <<queue, opened, released, stopping, serving, ioSize, request, history>>

\* The thread is told to stop: the flag stays set.
Stopped(w) ==
    /\ w \in stopping /\ Go(w, "while", "outside", Nobody)
    /\ UNCHANGED <<queue, opened, dispatcher, serving, ioSize, request, history>>

\* Faulty variant: takes the last request that was queued.
Pop_Last(w) ==
    /\ w \notin stopping /\ requests # <<>> /\ Go(w, "while", "process", Nobody)
    /\ requests' = Front(requests) /\ serving' = [serving EXCEPT ![w] = Last(requests)]
    /\ UNCHANGED <<flagProcessRequest, opened, dispatcher, ioSize, request, history>>

Pop(w) ==
    /\ w \notin stopping /\ requests # <<>> /\ Go(w, "while", "process", Nobody)
    /\ requests' = Tail(requests) /\ serving' = [serving EXCEPT ![w] = Head(requests)]
    /\ UNCHANGED <<flagProcessRequest, opened, dispatcher, ioSize, request, history>>

\* Faulty variant: the flag is forgotten.
NoRequest_Flagged(w) ==
    /\ w \notin stopping /\ requests = <<>> /\ Go(w, "while", "outside", Nobody)
    /\ UNCHANGED <<queue, opened, dispatcher, serving, ioSize, request, history>>

NoRequest(w) ==
    /\ w \notin stopping /\ requests = <<>> /\ Go(w, "while", "outside", Nobody)
    /\ flagProcessRequest' = FALSE
    /\ UNCHANGED <<requests, opened, dispatcher, serving, ioSize, request, history>>

\* What is left of a request, and what the file may return: how much it did, 0 at its end, or -1.
Left(r) == Size - sizePassed[r]
Returns(r) == -1 .. Left(r)

\* processRequest() of an open file reads or writes.
Process(w) ==
    LET r == serving[w] IN
    /\ opened /\ Go(w, "process", "result", Nobody) /\ done' = Append(done, r)
    /\ \E n \in Returns(r) : /\ ioSize' = [ioSize EXCEPT ![w] = n]
                             /\ did' = [did EXCEPT ![r] = IF n > 0 THEN @ + n ELSE @]
    /\ UNCHANGED <<queue, opened, dispatcher, serving, request, made, queued, again, callbacks>>

\* Of a closed one it does nothing, and gives no answer either.
ProcessClosed(w) ==
    /\ ~opened /\ Go(w, "process", "while", Nobody) /\ serving' = [serving EXCEPT ![w] = Nobody]
    /\ UNCHANGED <<queue, opened, dispatcher, ioSize, request, history>>

-----------------------------------------------------------------------------
(* runCallback(), for what the file returned                               *)

\* Something is left of a request that is to be done fully.
InPart(w) == LET r == serving[w] IN r \in Full /\ ioSize[w] > 0 /\ ioSize[w] < Left(r)

\* A request that a timeout has answered is dropped.
Late(w) ==
    /\ serving[w] \in flagFinished /\ Go(w, "result", "while", Nobody)
    /\ serving' = [serving EXCEPT ![w] = Nobody]
    /\ UNCHANGED <<queue, opened, dispatcher, ioSize, request, history>>

\* Faulty variant: the size is not added up.
AskAgain_Forgets(w) ==
    /\ serving[w] \notin flagFinished /\ InPart(w) /\ Go(w, "result", "ask", serving[w])
    /\ serving' = [serving EXCEPT ![w] = Nobody]
    /\ UNCHANGED <<queue, opened, dispatcher, ioSize, request, history>>

\* The rest is requested from the simulator: it goes behind what is in the queue.
AskAgain(w) ==
    /\ serving[w] \notin flagFinished /\ InPart(w) /\ Go(w, "result", "ask", serving[w])
    /\ serving' = [serving EXCEPT ![w] = Nobody]
    /\ sizePassed' = [sizePassed EXCEPT ![serving[w]] = @ + ioSize[w]]
    /\ UNCHANGED <<queue, opened, dispatcher, ioSize, flagFinished, timeouts, history>>

Code(n) == IF n > 0 THEN "Success" ELSE IF n = 0 THEN "Ended" ELSE "Unknown"

\* The request is answered, with what passed before added.
AnswerAll(w) ==
    LET r == serving[w] IN
    /\ r \notin flagFinished /\ ~InPart(w) /\ Go(w, "result", "callback", Nobody)
    /\ Answer(r, sizePassed[r] + ioSize[w], Code(ioSize[w])) /\ sizePassed' = [sizePassed EXCEPT ![r] = 0]
    /\ UNCHANGED <<queue, opened, dispatcher, serving, ioSize, flagFinished, timeouts, made, work>>

\* The rest was refused: the last part, which was added to what passed, is added once more.
RefusedAgain(w) ==
    LET r == req[w] IN
    /\ ~opened /\ Home(w) = "while" /\ Go(w, "ask", "callback", Nobody)
    /\ serving' = [serving EXCEPT ![w] = r] /\ again' = again \cup {r}
    /\ Answer(r, sizePassed[r] + ioSize[w], "Success") /\ sizePassed' = [sizePassed EXCEPT ![r] = 0]
    /\ UNCHANGED <<queue, opened, dispatcher, ioSize, flagFinished, timeouts, made, queued, done, did>>

\* m_flagFinished is set when the callback returned.
EndCallback(w) ==
    /\ Go(w, "callback", "while", Nobody)
    /\ flagFinished' = flagFinished \cup {serving[w]} /\ serving' = [serving EXCEPT ![w] = Nobody]
    /\ UNCHANGED <<queue, opened, dispatcher, ioSize, sizePassed, timeouts, history>>

-----------------------------------------------------------------------------
(* runCallback() of a timeout, on another thread                           *)

\* Somebody has a reference to the request.
Alive(r) == Contains(requests, r) \/ (\E t \in Threads : req[t] = r) \/ \E w \in Workers : serving[w] = r

Timeout(r) ==
    /\ r \in Timed /\ timeouts[r] = "armed" /\ Alive(r) /\ r \notin flagFinished
    /\ timeouts' = [timeouts EXCEPT ![r] = "callback"]
    /\ Answer(r, sizePassed[r], "Timeout") /\ sizePassed' = [sizePassed EXCEPT ![r] = 0]
    /\ UNCHANGED <<queue, opened, dispatcher, threads, flagFinished, made, work>>

EndTimeout(r) ==
    /\ r \in Timed /\ timeouts[r] = "callback" /\ timeouts' = [timeouts EXCEPT ![r] = "over"]
    /\ flagFinished' = flagFinished \cup {r}
    /\ UNCHANGED <<queue, opened, dispatcher, threads, sizePassed, history>>

-----------------------------------------------------------------------------
Work(w) ==
    \/ RunProcessor(w) \/ Stopped(w) \/ Pop(w) \/ NoRequest(w) \/ Process(w) \/ ProcessClosed(w)
    \/ Late(w) \/ AskAgain(w) \/ AnswerAll(w) \/ RefusedAgain(w) \/ EndCallback(w)

GoOn(t) == Ask(t) \/ Refused(t) \/ AddRequest(t) \/ Dispatch(t)

Next ==
    \/ \E t \in Threads : RequestIo(t) \/ GoOn(t)
    \/ \E w \in Workers : Work(w) \/ StopThread(w)
    \/ \E r \in Timed : Timeout(r) \/ EndTimeout(r)
    \/ Close \/ ReleaseDispatcher

\* Threads go on with what they are in, and the dispatcher runs its tasks.
Fairness ==
    /\ \A t \in Threads : WF_vars(GoOn(t))
    /\ \A w \in Workers : WF_vars(Work(w))

Spec == Init /\ [][Next]_vars /\ Fairness

-----------------------------------------------------------------------------
TypeOK ==
    /\ requests \in Seq(Requests) /\ flagProcessRequest \in BOOLEAN /\ opened \in BOOLEAN
    /\ tasks \in {0, 1} /\ released \in BOOLEAN /\ stopping \subseteq Workers
    /\ pc \in [Threads -> Steps] /\ req \in [Threads -> Requests \cup {Nobody}]
    /\ serving \in [Workers -> Requests \cup {Nobody}] /\ ioSize \in [Workers -> -1 .. Size]
    /\ sizePassed \in [Requests -> 0 .. Size - 1] /\ flagFinished \subseteq Requests
    /\ timeouts \in [Timed -> {"none", "armed", "callback", "over"}]
    /\ made \subseteq Requests /\ queued \in Seq(Requests) /\ done \in Seq(Requests)
    /\ did \in [Requests -> Nat] /\ again \subseteq Requests /\ calls \in [Requests -> Nat]
    /\ told \subseteq [req : Requests, size : Int, code : {"Success", "Ended", "Unknown", "Timeout"}]

\* The threads that are about to dispatch a processor, or run it.
Processing == {c \in Callers : pc[c] = "dispatch"} \cup {w \in Workers : pc[w] # "outside"}

\* The file has one request at a time, in whatever order requests, their callbacks and the
\* dispatcher's threads come (m_flagProcessRequest, _addRequest, _runProcessor).
OneProcessor ==
    /\ \A t, u \in Processing : t = u
    /\ tasks > 0 => Processing = {}

\* The file does what was queued in the order it was queued, a part that was left in its new
\* place.  Only a file that was closed leaves one out, and then all that follow it.
DoneInOrder == Len(done) <= Len(queued) /\ \A i \in 1 .. Len(done) : done[i] = queued[i]

\* What a request is told of it.
Truthful(a) ==
    \/ a.code = "Success" /\ a.size = did[a.req] /\ (a.req \in Full => a.size = Size)
    \/ a.code = "Ended" /\ a.size = did[a.req]
    \/ a.code = "Unknown" /\ (a.size = did[a.req] - 1 \/ (a.size = 0 /\ did[a.req] = 0))
    \/ a.req \in again /\ ~opened /\ a.code = "Success" /\ a.size > did[a.req]

\* A request without a timeout is answered once, and told what the file did of it, in however
\* many parts; all of it, when it was to be done fully and nothing failed.  A part that failed
\* counts as -1; and when the file is closed between two parts, the last one counts twice.
AnsweredTruly ==
    /\ \A r \in Requests \ Timed : calls[r] <= 1
    /\ \A a \in told : a.req \notin Timed => Truthful(a)

\* A request in the queue has a processor, unless the file was closed, the dispatcher was
\* released or a thread was stopped: then the flag keeps every later request waiting too.
QueuedIsProcessed ==
    requests # <<>> => tasks > 0 \/ Processing # {} \/ ~opened \/ released \/ stopping # {}

\* With the same exceptions, in the end every request that was queued was answered.
Served ==
    <>[](\A r \in Requests : Contains(queued, r) => calls[r] > 0 \/ ~opened \/ released \/ stopping # {})
=============================================================================
