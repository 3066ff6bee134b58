---------------------------- MODULE AsyncIoLoop ----------------------------
(***************************************************************************)
(* AsyncIoLoop: one thread that waits with epoll for the files of streams  *)
(* to be ready, reads and writes for them, and closes them; here with one  *)
(* stream on one file (AsyncFileStream).  A request waits in the stream's  *)
(* slot until the loop takes it; one that would block is held until the    *)
(* file is ready.  Each request is answered by its callback, which may call*)
(* the stream and the loop; a request with a timeout may be answered by    *)
(* the thread of the default DispatchLoop too.                             *)
(*                                                                         *)
(* Every access to a slot, a queue or a flag that another thread uses is a *)
(* step; a section under one lock is one step.  The stream and the loop    *)
(* outlive the model; what is left in an instance when its loop was        *)
(* released is answered by its destructor, which is not modelled.          *)
(***************************************************************************)
EXTENDS Integers, Sequences, FiniteSets

CONSTANTS
    Callers,    \* threads outside the loop
    Loop,       \* the loop's thread
    Requests,   \* each is made at most once
    Dir,        \* the direction of each, see Dirs
    Timed,      \* those with a timeout
    Full,       \* those that are made to the end (m_flagFully), in at most two parts
    MaxTasks,   \* bound: tasks ever added
    MaxCalls,   \* bound: requests, tasks, close() and release() together
    Nobody

Dirs == {"read", "write"}

\* In a direction no request was ever made in there is nothing to do.
InUse == {Dir[r] : r \in Requests}

\* Reading comes first.
DirSeqs == {<<>>, <<"read">>, <<"write">>, <<"read", "write">>}
Elems(s) == {s[i] : i \in DOMAIN s}
Some(dirs) == CHOOSE s \in DirSeqs : Elems(s) = dirs

Actors == Callers \cup {Loop}

ASSUME ConstantsAssumption ==
    /\ IsFiniteSet(Callers) /\ Loop \notin Callers
    /\ IsFiniteSet(Requests) /\ Requests # {}
    /\ Nobody \notin Actors \cup Requests
    /\ Dir \in [Requests -> Dirs] /\ Timed \subseteq Requests /\ Full \subseteq Requests
    /\ MaxTasks \in Nat /\ MaxCalls \in Nat

VARIABLES
    loop,       \* m_flagInit, m_flagRunning, whether the thread is to end, whether m_handle is freed
    queueTasks, \* m_queueTasks: how many
    queueOrder, \* m_queueInstancesOrder: how often the instance is in it
    queueClosing,   \* m_queueInstancesClosing, likewise
    instance,   \* m_flagClosing, m_flagOrdering, m_flagFreed with the file closed
    opened,     \* m_ioInstance is not null
    closer,     \* who has the stream's lock, in close()
    slot,       \* m_requestRead, m_requestWrite
    held,       \* m_requestReading, m_requestWriting
    ready,      \* what the file would do now
    pending,    \* the events epoll has for the file
    wake,       \* the wake event: m_flagSet, and whether epoll has its event
    pc, req,    \* the step each thread is at in a call, and its request
    pass,       \* what the loop's thread is doing
    timer,      \* the request whose callback a timeout runs
    expired,    \* the requests whose timeout did so
    finished,   \* m_flagFinished
    history

vars == <<loop, queueTasks, queueOrder, queueClosing, instance, opened, closer, slot, held,
          ready, pending, wake, pc, req, pass, timer, expired, finished, history>>
queues == <<queueTasks, queueOrder, queueClosing>>
stream == <<instance, opened, closer>>
requests == <<slot, held>>
file == <<ready, pending>>
clock == <<timer, expired>>

\* What the loop's thread is at; the tasks and orders it took; the directions it still
\* has to process, of an order, an event or a closing; its request, whether the file
\* did only a part of it, and where it goes on after the callback.
NewPass == [at |-> "off", tasks |-> 0, orders |-> 0, dirs |-> <<>>, of |-> "order",
            events |-> {}, found |-> {}, req |-> Nobody, part |-> FALSE, back |-> "tasks"]

\* left: requests and tasks that were not made yet; ran: callbacks run; the rest are
\* sets of requests: refused, overwritten in the slot, made while the stream was being
\* closed, in the hands of both threads at once, made in part, done on a closed file;
\* early: the stream was closed while the loop did not run.
NewHistory == [left |-> Requests, tasks |-> MaxTasks, ran |-> [r \in Requests |-> 0], refused |-> {},
               lost |-> {}, raced |-> {}, both |-> {}, parted |-> {}, misused |-> {},
               closes |-> 0, ownRelease |-> FALSE, early |-> FALSE]

Init ==
    /\ loop = [init |-> TRUE, running |-> FALSE, stopping |-> FALSE, freed |-> FALSE]
    /\ queueTasks = 0 /\ queueOrder = 0 /\ queueClosing = 0
    /\ instance = [closing |-> FALSE, ordering |-> FALSE, freed |-> FALSE]
    /\ opened = TRUE /\ closer = Nobody
    /\ slot = [d \in Dirs |-> Nobody] /\ held = [d \in Dirs |-> Nobody]
    /\ ready = [d \in Dirs |-> "none"] /\ pending = {}
    /\ wake = [set |-> FALSE, event |-> FALSE]
    /\ pc = [a \in Actors |-> "outside"] /\ req = [a \in Actors |-> Nobody]
    /\ pass = NewPass /\ timer = Nobody /\ expired = {}
    /\ finished = [r \in Requests |-> FALSE]
    /\ history = NewHistory

Go(a, from, to) == pc[a] = from /\ pc' = [pc EXCEPT ![a] = to]

Calls == Cardinality(Requests \ history.left) + (MaxTasks - history.tasks)
         + (IF instance.closing THEN 1 ELSE 0) + (IF loop.init THEN 0 ELSE 1)

\* The loop's thread calls from a callback, or from a task.
MayCall(a) == Calls < MaxCalls /\ (a = Loop => pass.at = "callback")

-----------------------------------------------------------------------------
(* requestIo                                                               *)
Request(a) ==
    /\ MayCall(a) /\ Go(a, "outside", "getIoInstance")
    /\ \E r \in history.left :
          /\ req' = [req EXCEPT ![a] = r]
          /\ history' = [history EXCEPT !.left = @ \ {r}]
    /\ UNCHANGED <<loop, queues, stream, requests, file, wake, pass, clock, finished>>

\* The request is made while the stream is being closed.
Closing(r) == history' = IF closer # Nobody THEN [history EXCEPT !.raced = @ \cup {r}] ELSE history

GetIoInstance(a) ==
    /\ Go(a, "getIoInstance", IF opened THEN "request" ELSE "refused") /\ Closing(req[a])
    /\ UNCHANGED <<loop, queues, stream, requests, file, wake, req, pass, clock, finished>>

\* The slot is tested, and set by another step.
TestSlot(a) ==
    /\ Go(a, "request", IF slot[Dir[req[a]]] = Nobody THEN "setRequest" ELSE "refused")
    /\ UNCHANGED <<loop, queues, stream, requests, file, wake, req, pass, clock, finished, history>>

SetRequest(a) ==
    LET d == Dir[req[a]] IN
    /\ Go(a, "setRequest", "requestOrder")
    /\ slot' = [slot EXCEPT ![d] = req[a]]
    /\ history' = [history EXCEPT !.lost = @ \cup ({slot[d]} \ {Nobody})]
    /\ UNCHANGED <<loop, queues, stream, held, file, wake, req, pass, clock, finished>>

\* read() and write() answer a request that was refused themselves; a part that was
\* refused ends its request.
Refused(a) ==
    /\ Go(a, "refused", "outside")
    /\ history' = [history EXCEPT !.ran[req[a]] = @ + 1, !.refused = @ \cup {req[a]}]
    /\ req' = [req EXCEPT ![a] = Nobody]
    /\ pass' = IF a = Loop /\ pass.part THEN [pass EXCEPT !.at = "callback"] ELSE pass
    /\ UNCHANGED <<loop, queues, stream, requests, file, wake, clock, finished>>

Order == ~instance.ordering

RequestOrder(a) ==
    /\ Go(a, "requestOrder", "wake")
    /\ instance' = [instance EXCEPT !.ordering = TRUE]
    /\ queueOrder' = IF Order THEN queueOrder + 1 ELSE queueOrder
    /\ req' = [req EXCEPT ![a] = Nobody]
    /\ UNCHANGED <<loop, queueTasks, queueClosing, opened, closer, requests, file, wake, pass,
                   clock, finished, history>>

\* PipeEvent::set: a byte is written, and epoll told, only if none is there.
Signal == wake' = IF wake.set THEN wake ELSE [set |-> TRUE, event |-> TRUE]

Wake(a) ==
    /\ Go(a, "wake", IF closer = a THEN "setNull" ELSE "outside")
    /\ IF loop.running THEN Signal ELSE UNCHANGED wake
    /\ history' = [history EXCEPT !.early = @ \/ (queueClosing > 0 /\ ~loop.running)]
    /\ UNCHANGED <<loop, queues, stream, requests, file, req, pass, clock, finished>>

AddTask(a) ==
    /\ MayCall(a) /\ history.tasks > 0 /\ Go(a, "outside", "wake")
    /\ queueTasks' = queueTasks + 1
    /\ history' = [history EXCEPT !.tasks = @ - 1]
    /\ UNCHANGED <<loop, queueOrder, queueClosing, stream, requests, file, wake, req, pass, clock, finished>>

-----------------------------------------------------------------------------
(* close                                                                   *)
InFlight == {req[a] : a \in {b \in Actors : pc[b] \in {"request", "setRequest"}}}

\* close() has the stream's lock until m_ioInstance is null, so an instance is queued
\* for closing once.
Close(a) ==
    /\ MayCall(a) /\ closer = Nobody /\ opened /\ Go(a, "outside", "pushClosing")
    /\ closer' = a /\ instance' = [instance EXCEPT !.closing = TRUE]
    /\ history' = [history EXCEPT !.raced = @ \cup InFlight]
    /\ UNCHANGED <<loop, queues, opened, requests, file, wake, req, pass, clock, finished>>

PushClosing(a) ==
    /\ Go(a, "pushClosing", "wake")
    /\ queueClosing' = queueClosing + 1
    /\ UNCHANGED <<loop, queueTasks, queueOrder, stream, requests, file, wake, req, pass, clock, finished, history>>

SetNull(a) ==
    /\ Go(a, "setNull", "outside")
    /\ opened' = FALSE /\ closer' = Nobody
    /\ UNCHANGED <<loop, queues, instance, requests, file, wake, req, pass, clock, finished, history>>

-----------------------------------------------------------------------------
(* start, release                                                          *)

\* The thread may fail to start.
Start(a) ==
    /\ a # Loop /\ pc[a] = "outside" /\ loop.init /\ ~loop.running
    /\ loop' = [loop EXCEPT !.running = TRUE] /\ pass' = [pass EXCEPT !.at = "while"]
    /\ UNCHANGED <<queues, stream, requests, file, wake, pc, req, clock, finished, history>>

Release(a) ==
    /\ MayCall(a) /\ loop.init
    /\ loop' = [loop EXCEPT !.init = FALSE, !.running = FALSE, !.stopping = loop.running]
    /\ Go(a, "outside", IF loop.running THEN "finishAndWait" ELSE "closeHandle")
    /\ IF loop.running THEN Signal ELSE UNCHANGED wake
    /\ UNCHANGED <<queues, stream, requests, file, req, pass, clock, finished, history>>

\* Faulty variant: release() does not wait for the thread.
Ended_Always(a) == TRUE

\* The loop's thread does not wait for itself.
Ended(a) == a = Loop \/ pass.at = "ended"

FinishAndWait(a) ==
    /\ Ended(a) /\ Go(a, "finishAndWait", "closeHandle")
    /\ history' = [history EXCEPT !.ownRelease = a = Loop]
    /\ UNCHANGED <<loop, queues, stream, requests, file, wake, req, pass, clock, finished>>

CloseHandle(a) ==
    /\ Go(a, "closeHandle", "outside")
    /\ loop' = [loop EXCEPT !.freed = TRUE]
    /\ queueOrder' = 0 /\ queueClosing' = 0
    /\ UNCHANGED <<queueTasks, stream, requests, file, wake, req, pass, clock, finished, history>>

-----------------------------------------------------------------------------
(* The loop's thread: tasks and orders                                     *)

\* A step of the loop's thread itself, between the calls it makes.
At(step) == pass.at = step /\ pc[Loop] = "outside"
RunLoop(step) == At(step) /\ UNCHANGED <<pc, req>>
To(step) == pass' = [pass EXCEPT !.at = step]
AfterOrder(n) == IF n = 0 THEN "epoll_wait" ELSE "orders"

While ==
    /\ RunLoop("while")
    /\ IF loop.running
       THEN pass' = [NewPass EXCEPT !.at = "tasks", !.tasks = queueTasks] /\ queueTasks' = 0
       ELSE pass' = [NewPass EXCEPT !.at = "ended"] /\ UNCHANGED queueTasks
    /\ UNCHANGED <<loop, queueOrder, queueClosing, stream, requests, file, wake, clock, finished, history>>

RunTask ==
    /\ RunLoop("tasks") /\ pass.tasks > 0
    /\ pass' = [pass EXCEPT !.at = "callback", !.back = "tasks", !.tasks = @ - 1]
    /\ UNCHANGED <<loop, queues, stream, requests, file, wake, clock, finished, history>>

TakeOrders ==
    /\ RunLoop("tasks") /\ pass.tasks = 0
    /\ pass' = [pass EXCEPT !.at = AfterOrder(queueOrder), !.orders = queueOrder] /\ queueOrder' = 0
    /\ UNCHANGED <<loop, queueTasks, queueClosing, stream, requests, file, wake, clock, finished, history>>

\* Faulty variant: an order that is asked for while this one is processed is not queued.
Ordered_Late == instance

Ordered == [instance EXCEPT !.ordering = FALSE]

ProcessOrder ==
    /\ RunLoop("orders")
    /\ instance' = Ordered
    /\ pass' = [pass EXCEPT !.at = "take", !.dirs = Some(InUse), !.orders = @ - 1]
    /\ UNCHANGED <<loop, queues, opened, closer, requests, file, wake, clock, finished, history>>

-----------------------------------------------------------------------------
(* The loop's thread: runCallback                                          *)

\* p: what the loop's thread is doing, with the request and where it goes on; h: the
\* history.  A request that is finished is not answered again; one that is to be made
\* fully is made again for its rest.
RunCallback(p, part, h) ==
    \/ /\ finished[p.req] /\ pass' = [p EXCEPT !.at = p.back, !.req = Nobody]
       /\ history' = h /\ UNCHANGED <<pc, req>>
    \/ /\ ~finished[p.req] /\ part /\ pass' = [p EXCEPT !.at = p.back, !.part = TRUE]
       /\ pc' = [pc EXCEPT ![Loop] = "getIoInstance"] /\ req' = [req EXCEPT ![Loop] = p.req]
       /\ history' = h
    \/ /\ ~finished[p.req] /\ ~part /\ pass' = [p EXCEPT !.at = "callback"]
       /\ history' = [h EXCEPT !.ran[p.req] = @ + 1,
             !.both = IF timer = p.req THEN @ \cup {p.req} ELSE @]
       /\ UNCHANGED <<pc, req>>

EndCallback ==
    /\ RunLoop("callback")
    /\ pass' = [pass EXCEPT !.at = pass.back, !.back = "tasks", !.req = Nobody, !.part = FALSE]
    /\ finished' = [r \in Requests |-> finished[r] \/ r = pass.req]
    /\ UNCHANGED <<loop, queues, stream, requests, file, wake, clock, history>>

-----------------------------------------------------------------------------
(* The loop's thread: processRead and processWrite                         *)
Direction == Head(pass.dirs)

\* An event asks for an order once it was processed.
EndDirection ==
    LET p == [pass EXCEPT !.dirs = Tail(@), !.req = Nobody, !.part = FALSE] IN
    \/ p.dirs # <<>> /\ pass' = [p EXCEPT !.at = "take"] /\ UNCHANGED pc
    \/ /\ p.dirs = <<>> /\ p.of = "order"
       /\ pass' = [p EXCEPT !.at = AfterOrder(pass.orders)] /\ UNCHANGED pc
    \/ /\ p.dirs = <<>> /\ p.of = "event"
       /\ pass' = [p EXCEPT !.at = "events", !.of = "order"]
       /\ pc' = [pc EXCEPT ![Loop] = "requestOrder"]

\* The request that is held comes first; the slot is emptied as it is read.
Take ==
    /\ At("take")
    /\ LET d == Direction IN
          \/ /\ held[d] # Nobody /\ pass' = [pass EXCEPT !.at = "io", !.req = held[d]]
             /\ held' = [held EXCEPT ![d] = Nobody] /\ UNCHANGED <<slot, pc>>
          \/ /\ held[d] = Nobody /\ slot[d] # Nobody
             /\ pass' = [pass EXCEPT !.at = "io", !.req = slot[d]]
             /\ slot' = [slot EXCEPT ![d] = Nobody] /\ UNCHANGED <<held, pc>>
          \/ /\ held[d] = Nobody /\ slot[d] = Nobody /\ EndDirection /\ UNCHANGED requests
    /\ UNCHANGED <<loop, queues, stream, file, wake, req, clock, finished, history>>

\* The handle keeps its value when the file is closed, and may be another file's then.
Misuse == IF instance.freed THEN [history EXCEPT !.misused = @ \cup {pass.req}] ELSE history

\* The file does all of the request, or what it can: then it would block.
Done ==
    /\ At("io") /\ (ready[Direction] = "some" \/ instance.freed)
    /\ \E part \in BOOLEAN, left \in {"some", "none"} :
          /\ part => left = "none" /\ pass.req \in Full \ history.parted
          /\ ready' = [ready EXCEPT ![Direction] = left]
          /\ RunCallback([pass EXCEPT !.back = "next"], part,
                         [Misuse EXCEPT !.parted = IF part THEN @ \cup {pass.req} ELSE @])
    /\ UNCHANGED <<loop, queues, stream, requests, pending, wake, clock, finished>>

\* Faulty variant: a request that would block is dropped.
Hold_Dropped == held

Hold == [held EXCEPT ![Direction] = pass.req]

\* The request is held until the file is ready; on the handle of another file no event comes.
WouldBlock ==
    /\ At("io") /\ (ready[Direction] = "none" \/ instance.freed)
    /\ held' = Hold /\ history' = Misuse /\ EndDirection
    /\ UNCHANGED <<loop, queues, stream, slot, file, wake, req, clock, finished>>

\* The end of the file, or an error; one that epoll told of fails what would block too.
Failed ==
    /\ At("io") /\ (ready[Direction] = "end" \/ instance.freed)
    /\ RunCallback([pass EXCEPT !.back = "next"], FALSE, Misuse)
    /\ UNCHANGED <<loop, queues, stream, requests, file, wake, clock, finished>>

\* The loop's thread leaves what is in the slot if it is to end.
NextRequest ==
    /\ At("next")
    /\ LET d == Direction IN
          IF loop.stopping \/ slot[d] = Nobody THEN EndDirection /\ UNCHANGED slot
          ELSE /\ pass' = [pass EXCEPT !.at = "io", !.req = slot[d], !.part = FALSE]
               /\ slot' = [slot EXCEPT ![d] = Nobody] /\ UNCHANGED pc
    /\ UNCHANGED <<loop, queues, stream, held, file, wake, req, clock, finished, history>>

-----------------------------------------------------------------------------
(* The loop's thread: epoll_wait, events and closings                      *)
EpollWait ==
    /\ RunLoop("epoll_wait")
    /\ pass' = [pass EXCEPT !.at = "events", !.found = pending,
                   !.events = {e \in {"wake", "file"} : IF e = "wake" THEN wake.event ELSE pending # {}}]
    /\ wake' = [wake EXCEPT !.event = FALSE] /\ pending' = {}
    /\ UNCHANGED <<loop, queues, stream, requests, ready, clock, finished, history>>

\* There is an event to wake the loop; without one epoll_wait times out.
Woken == wake.event \/ pending # {}

WakeEvent ==
    /\ RunLoop("events") /\ loop.running /\ "wake" \in pass.events
    /\ pass' = [pass EXCEPT !.events = @ \ {"wake"}]
    /\ wake' = [wake EXCEPT !.set = FALSE]
    /\ UNCHANGED <<loop, queues, stream, requests, file, clock, finished, history>>

\* An event that is an error alone is one for both directions.
FileEvent ==
    /\ RunLoop("events") /\ loop.running /\ "file" \in pass.events
    /\ LET p == [pass EXCEPT !.events = @ \ {"file"}, !.found = {}] IN
          pass' = IF instance.closing THEN p
                  ELSE [p EXCEPT !.at = "take", !.of = "event", !.dirs = Some(pass.found)]
    /\ UNCHANGED <<loop, queues, stream, requests, file, wake, clock, finished, history>>

EndEvents ==
    /\ RunLoop("events") /\ (~loop.running \/ pass.events = {})
    /\ pass' = [NewPass EXCEPT !.at = IF loop.running THEN "stepEnd" ELSE "while"]
    /\ UNCHANGED <<loop, queues, stream, requests, file, wake, clock, finished, history>>

\* The instance is detached and freed: what is held is answered, the file is closed,
\* what is in the slots is answered.
DetachInstance ==
    /\ RunLoop("stepEnd") /\ queueClosing > 0
    /\ queueClosing' = queueClosing - 1 /\ pending' = {}
    /\ pass' = [pass EXCEPT !.at = "_free",
                            !.dirs = Some({d \in Dirs : held[d] # Nobody})]
    /\ UNCHANGED <<loop, queueTasks, queueOrder, stream, requests, ready, wake, clock, finished, history>>

EndStep ==
    /\ RunLoop("stepEnd") /\ queueClosing = 0 /\ To("while")
    /\ UNCHANGED <<loop, queues, stream, requests, file, wake, clock, finished, history>>

FreeHeld ==
    /\ At("_free") /\ pass.dirs # <<>>
    /\ RunCallback([pass EXCEPT !.req = held[Direction], !.back = "freed"], FALSE, history)
    /\ UNCHANGED <<loop, queues, stream, requests, file, wake, clock, finished>>

FreedHeld ==
    /\ RunLoop("freed")
    /\ held' = [held EXCEPT ![Direction] = Nobody]
    /\ pass' = [pass EXCEPT !.at = "_free", !.dirs = Tail(@), !.back = "tasks"]
    /\ UNCHANGED <<loop, queues, stream, slot, file, wake, clock, finished, history>>

CloseFile ==
    /\ RunLoop("_free") /\ pass.dirs = <<>>
    /\ instance' = [instance EXCEPT !.freed = TRUE]
    /\ history' = [history EXCEPT !.closes = @ + 1]
    /\ pass' = [pass EXCEPT !.at = "_freeRequests", !.dirs = Some(InUse)]
    /\ UNCHANGED <<loop, queues, opened, closer, requests, file, wake, clock, finished>>

Freed(d) == slot[d]

FreeRequest ==
    /\ At("_freeRequests")
    /\ LET d == Direction
           p == [pass EXCEPT !.dirs = Tail(@), !.req = Freed(d),
                             !.back = IF Tail(pass.dirs) = <<>> THEN "stepEnd" ELSE "_freeRequests"] IN
          /\ slot' = [slot EXCEPT ![d] = Nobody]
          /\ IF p.req = Nobody
             THEN pass' = [p EXCEPT !.at = p.back, !.back = "tasks"] /\ UNCHANGED <<pc, req, history>>
             ELSE RunCallback(p, FALSE, history)
    /\ UNCHANGED <<loop, queues, stream, held, file, wake, clock, finished>>

-----------------------------------------------------------------------------
(* Timeouts, and the file                                                  *)

\* A request is there as long as a slot, the loop's thread or a caller has it.
Alive(r) == \/ \E d \in Dirs : slot[d] = r \/ held[d] = r
            \/ pass.req = r \/ \E a \in Actors : req[a] = r

\* One that comes for a request that is finished or gone does nothing.
Timeout ==
    /\ timer = Nobody
    /\ \E r \in Timed \ expired :
          /\ r \notin history.left /\ ~finished[r] /\ Alive(r)
          /\ expired' = expired \cup {r} /\ timer' = r
          /\ history' = [history EXCEPT !.ran[r] = @ + 1,
                !.both = IF pass.at = "callback" /\ pass.req = r THEN @ \cup {r} ELSE @]
    /\ UNCHANGED <<loop, queues, stream, requests, file, wake, pc, req, pass, finished>>

\* What the callback calls is what some caller calls.
EndTimeout ==
    /\ timer # Nobody
    /\ finished' = [finished EXCEPT ![timer] = TRUE] /\ timer' = Nobody
    /\ UNCHANGED <<loop, queues, stream, requests, file, wake, pc, req, pass, expired, history>>

\* The file becomes ready for what is asked of it, or comes to its end, alone for reading
\* or by an error.
FileChanges ==
    /\ ~instance.freed
    /\ \/ \E d \in InUse :
             /\ ready[d] = "none" /\ ready' = [ready EXCEPT ![d] = "some"]
             /\ pending' = pending \cup {d}
       \/ \E e \in {{"read"}, {"read", "write"}} :
             /\ ready["read"] = "none" /\ pending' = pending \cup (e \cap InUse)
             /\ ready' = [d \in Dirs |-> IF d \in e THEN "end" ELSE ready[d]]
    /\ UNCHANGED <<loop, queues, stream, requests, wake, pc, req, pass, clock, finished, history>>

-----------------------------------------------------------------------------
InCall(a) == GetIoInstance(a) \/ TestSlot(a) \/ SetRequest(a) \/ Refused(a) \/ RequestOrder(a) \/ Wake(a)
             \/ PushClosing(a) \/ SetNull(a) \/ FinishAndWait(a) \/ CloseHandle(a)
Call(a) == Request(a) \/ AddTask(a) \/ Close(a) \/ Start(a) \/ Release(a)
Orders == While \/ RunTask \/ TakeOrders \/ ProcessOrder
Process == Take \/ Done \/ WouldBlock \/ Failed \/ NextRequest
Events == WakeEvent \/ FileEvent \/ EndEvents
Closings == DetachInstance \/ EndStep \/ FreeHeld \/ FreedHeld \/ CloseFile \/ FreeRequest
Step == Orders \/ Process \/ EndCallback \/ Events \/ Closings
Expire == Timeout \/ EndTimeout

Next == (\E a \in Actors : Call(a) \/ InCall(a)) \/ Step \/ EpollWait \/ Expire \/ FileChanges

\* A thread in a call goes on; so does the loop's, whose callbacks end, and whose wait
\* ends at the latest after 5 seconds.
Fairness ==
    /\ \A a \in Callers : WF_vars(InCall(a))
    /\ WF_vars(InCall(Loop) \/ Step \/ EpollWait)

Spec == Init /\ [][Next]_vars /\ Fairness

-----------------------------------------------------------------------------
Steps == {"outside", "getIoInstance", "request", "setRequest", "refused", "requestOrder", "wake",
          "pushClosing", "setNull", "finishAndWait", "closeHandle"}
Passes == {"off", "while", "tasks", "orders", "take", "io", "callback", "next",
           "epoll_wait", "events", "stepEnd", "_free", "freed", "_freeRequests", "ended"}
OrNobody == Requests \cup {Nobody}

TypeOK ==
    /\ loop \in [init : BOOLEAN, running : BOOLEAN, stopping : BOOLEAN, freed : BOOLEAN]
    /\ queueTasks \in 0 .. MaxTasks /\ queueOrder \in 0 .. 1 /\ queueClosing \in 0 .. 1
    /\ instance \in [closing : BOOLEAN, ordering : BOOLEAN, freed : BOOLEAN]
    /\ opened \in BOOLEAN /\ closer \in Actors \cup {Nobody}
    /\ slot \in [Dirs -> OrNobody] /\ held \in [Dirs -> OrNobody]
    /\ ready \in [Dirs -> {"none", "some", "end"}] /\ pending \subseteq Dirs
    /\ wake \in [set : BOOLEAN, event : BOOLEAN]
    /\ pc \in [Actors -> Steps] /\ req \in [Actors -> OrNobody]
    /\ pass.at \in Passes /\ pass.tasks \in 0 .. MaxTasks /\ pass.orders \in 0 .. 1
    /\ pass.req \in OrNobody /\ pass.back \in Passes /\ pass.dirs \in DirSeqs
    /\ timer \in OrNobody /\ expired \subseteq Timed
    /\ finished \in [Requests -> BOOLEAN]

\* The loop does not wait for an event while there is something for it to do: what was
\* put into a queue is there with a wake-up that comes or is still being sent; what
\* is in a slot is ordered, or waits for what is held; what is held could not be done
\* by the file now, or was tried on it after it was closed.  Only a stream that was closed
\* before the loop was started waits for the timeout: the queue of closings is looked at
\* after the wait alone.
NeverOversleeps ==
    pass.at = "epoll_wait" /\ pc[Loop] = "outside" /\ ~Woken /\ loop.running =>
        /\ queueTasks > 0 \/ queueOrder > 0 \/ (queueClosing > 0 /\ ~history.early) =>
              \E a \in Callers : pc[a] = "wake"
        /\ \A d \in Dirs :
              /\ slot[d] # Nobody =>
                    \/ queueOrder > 0 \/ held[d] # Nobody
                    \/ \E a \in Callers : pc[a] = "requestOrder"
              /\ held[d] # Nobody =>
                    \/ ready[d] = "none" \/ held[d] \in history.misused
                    \/ queueClosing > 0 \/ \E a \in Callers : pc[a] = "pushClosing"

\* How many have a request that is to be answered: its slot, what is held (unless it is
\* being answered because the stream is closed), a thread that makes it, the loop.
Freeing(d) == /\ pass.at = "freed" \/ (pass.at = "callback" /\ pass.back = "freed")
              /\ d = Direction
Places(r) == Cardinality({d \in Dirs : slot[d] = r}) + Cardinality({d \in Dirs : held[d] = r /\ ~Freeing(d)})
             + Cardinality({a \in Actors : req[a] = r /\ pc[a] # "requestOrder"})
             + (IF pass.req = r /\ pass.at = "io" THEN 1 ELSE 0)

\* A request is answered once and is never lost: until it is answered it is in one
\* place, and an answered one is nowhere.  But two requests of one direction may find
\* the slot empty at the same time, and the second takes the place of the first; and a
\* request with a timeout is answered twice if the timeout runs its callback while the
\* loop does, or before the request is refused.
AnsweredOnce == \A r \in Requests \ history.left :
    /\ history.ran[r] > 1 => history.ran[r] = 2 /\ r \in Timed /\ r \in history.both \cup history.refused
    /\ r \notin Timed /\ r \notin history.lost =>
          Places(r) = IF history.ran[r] = 0 THEN 1 ELSE 0

\* The loop's handle is not used after it was closed, unless a callback released the
\* loop it runs in; and the file is closed once, and not read or written after,
\* except for a request that was being made when close() was called.
HandlesSafe ==
    /\ loop.freed => pass.at \in {"off", "ended"} \/ history.ownRelease
    /\ history.closes <= 1 /\ history.misused \subseteq history.raced

\* The two together: neither the loop's handle nor the file is used after it was closed.
Inv == TypeOK /\ HandlesSafe

\* When a stream is closed while the loop runs, in the end every request that was made is
\* answered, those that raced with close() too.  But one may take the place of another in
\* the slot; and one that came so late that it was tried on the handle of the closed file,
\* which is another's by then, may be held for ever, with what is in the slot after it.
CloseServes ==
    <>[](instance.closing /\ loop.running =>
            \A r \in Requests \ history.left :
                history.ran[r] > 0 \/ r \in history.lost \/ held[Dir[r]] \in history.misused)
=============================================================================
