------------------------- MODULE AsyncIoLoopProofs -------------------------
(***************************************************************************)
(* That the loop's thread does not wait for an event while there is        *)
(* something for it to do, that a request is answered once and is in one   *)
(* place until then, and that neither the loop's handle nor the file is    *)
(* used after it was closed: for any callers, requests, tasks and calls.   *)
(***************************************************************************)
EXTENDS AsyncIoLoop, FiniteSetTheorems, TLAPS

Pass == [at : Passes, tasks : 0 .. MaxTasks, orders : 0 .. 1, dirs : DirSeqs, of : {"order", "event"},
         events : SUBSET {"wake", "file"}, found : SUBSET InUse, req : OrNobody, part : BOOLEAN,
         back : Passes]

History == [left : SUBSET Requests, tasks : 0 .. MaxTasks, ran : [Requests -> Nat],
            refused : SUBSET Requests, lost : SUBSET Requests, raced : SUBSET Requests,
            both : SUBSET Requests, parted : SUBSET Requests, misused : SUBSET Requests,
            closes : Nat, ownRelease : BOOLEAN, early : BOOLEAN]

\* The types, with the fields of what the loop's thread does and of the history.
Rest ==
    /\ loop \in [init : BOOLEAN, running : BOOLEAN, stopping : BOOLEAN, freed : BOOLEAN]
    /\ queueTasks \in Nat /\ queueOrder \in Nat /\ queueClosing \in Nat
    /\ instance \in [closing : BOOLEAN, ordering : BOOLEAN, freed : BOOLEAN]
    /\ opened \in BOOLEAN /\ closer \in Actors \cup {Nobody}
    /\ slot \in [Dirs -> OrNobody] /\ held \in [Dirs -> OrNobody]
    /\ ready \in [Dirs -> {"none", "some", "end"}] /\ pending \subseteq InUse
    /\ wake \in [set : BOOLEAN, event : BOOLEAN]
    /\ pc \in [Actors -> Steps] /\ req \in [Actors -> OrNobody]
    /\ timer \in OrNobody /\ expired \subseteq Timed
    /\ finished \in [Requests -> BOOLEAN]
Types == pass \in Pass /\ history \in History /\ Rest

\* Where the loop's thread is: at a step, or in a callback it comes back to the step from.
In(step) == pass.at = step \/ (pass.at = "callback" /\ pass.back = step)
Serving == pass.at \in {"take", "io"} \/ In("next")
Detached == pass.at = "_free" \/ In("freed")
Emptying == In("_freeRequests")

\* The tasks fit their bound, and the stream has one order: in the queue, or taken from
\* it; after the loop was freed its queue is empty.
QueueInv ==
    /\ queueTasks + pass.tasks + history.tasks <= MaxTasks
    /\ pass.orders = IF pass.at = "orders" THEN 1 ELSE 0
    /\ queueOrder + pass.orders <= IF instance.ordering THEN 1 ELSE 0
    /\ ~loop.freed /\ instance.ordering => queueOrder + pass.orders = 1

\* What the loop's thread has at each of its steps, and where it may be in a call.
PassInv ==
    /\ pass.at = "callback" => pass.back \in {"tasks", "next", "freed", "_freeRequests", "stepEnd"}
    /\ pass.part => pass.back = "next" /\ pass.at \in {"next", "callback"} /\ pass.req # Nobody
    /\ Serving \/ In("freed") \/ Emptying => pass.dirs # <<>>
    /\ pass.dirs # <<>> => Serving \/ Detached \/ Emptying
    /\ pass.of = "event" => Serving
    /\ pass.events # {} => pass.at = "events" \/ pass.of = "event"
    /\ "file" \in pass.events => pass.at = "events" /\ pass.found # {}
    /\ pass.at = "io" => pass.req # Nobody
    /\ pass.req # Nobody => pass.at \in {"io", "callback"} \/ pass.part
    /\ closer = Loop => pass.at = "callback"
    /\ pc[Loop] # "outside" =>
          \/ pass.at = "callback"
          \/ pass.at = "next" /\ pass.part /\ (req[Loop] # Nobody => req[Loop] = pass.req)
          \/ pass.at = "events" /\ pc[Loop] \in {"requestOrder", "wake"}

\* The loop is released once, and by one thread.
Releasing == {"finishAndWait", "closeHandle"}
ReleaseInv ==
    /\ loop.running => loop.init
    /\ loop.stopping \/ loop.freed \/ pass.at = "ended" => ~loop.init
    /\ loop.init /\ ~loop.running => pass.at = "off"
    /\ pass.at = "off" => ~loop.running
    /\ ~loop.init /\ ~loop.stopping => pass.at = "off"
    /\ \A a \in Actors : pc[a] \in Releasing => ~loop.init /\ ~loop.freed
    /\ \A a, b \in Actors : pc[a] \in Releasing /\ pc[b] \in Releasing => a = b
    /\ (loop.freed \/ \E a \in Actors : pc[a] = "closeHandle") =>
           pass.at \in {"off", "ended"} \/ history.ownRelease

\* The closing of the stream is in one place: with the thread that closes it, in the
\* queue, with the loop's thread, or done.
ClosingInv ==
    /\ instance.closing <=> closer # Nobody \/ ~opened
    /\ closer # Nobody => opened /\ pc[closer] \in {"pushClosing", "wake", "setNull"}
    /\ \A a \in Actors : pc[a] \in {"pushClosing", "setNull"} => closer = a
    /\ queueClosing <= 1
    /\ (\E a \in Actors : pc[a] = "pushClosing") => queueClosing = 0 /\ ~Detached /\ ~instance.freed
    /\ queueClosing = 1 => instance.closing /\ ~Detached /\ ~instance.freed
    /\ Detached => instance.closing /\ ~instance.freed
    /\ Emptying \/ (In("stepEnd") /\ pass.at = "callback") => instance.freed
    /\ instance.freed => instance.closing
    /\ history.closes = IF instance.freed THEN 1 ELSE 0
    /\ loop.init /\ instance.closing =>
          \/ queueClosing = 1 \/ Detached \/ instance.freed
          \/ \E a \in Actors : pc[a] = "pushClosing"

\* A slot has a request of its direction; nothing is held in a direction whose request
\* the loop's thread has.
SlotsInv == \A d \in Dirs :
    /\ slot[d] # Nobody => Dir[slot[d]] = d
    /\ held[d] # Nobody => Dir[held[d]] = d
    /\ (In("next") \/ pass.at = "io") /\ d = Direction => held[d] = Nobody
    /\ Detached => (held[d] # Nobody <=> d \in Elems(pass.dirs))
    /\ pass.at = "io" => Dir[pass.req] = Direction

RequesterInv == \A a \in Actors :
    /\ req[a] # Nobody => pc[a] \in {"getIoInstance", "request", "setRequest", "refused", "requestOrder"}
    /\ pc[a] \in {"getIoInstance", "request", "setRequest", "refused"} => req[a] # Nobody

\* Where a request that is to be answered may be.
InSlot(r) == slot[Dir[r]] = r
InHeld(r) == held[Dir[r]] = r /\ ~Freeing(Dir[r])
InIo(r) == pass.req = r /\ pass.at = "io"
InCallOf(r, a) == req[a] = r /\ pc[a] # "requestOrder"
Somewhere(r) == InSlot(r) \/ InHeld(r) \/ InIo(r) \/ \E a \in Actors : InCallOf(r, a)

\* It is in one place; one that was not made yet is nowhere.
OnePlace(r) ==
    /\ InSlot(r) => ~InHeld(r) /\ ~InIo(r)
    /\ InHeld(r) => ~InIo(r)
    /\ \A a \in Actors : InCallOf(r, a) => ~InSlot(r) /\ ~InHeld(r) /\ ~InIo(r)
    /\ \A a, b \in Actors : InCallOf(r, a) /\ InCallOf(r, b) => a = b
    /\ r \in history.left =>
          ~Somewhere(r) /\ history.ran[r] = 0 /\ ~finished[r] /\ r \notin expired

\* How often a timeout ran the callback of a request, and how often something else did.
Expiry(r) == IF r \in expired THEN 1 ELSE 0
Answer(r) == history.ran[r] - Expiry(r)

\* Each ran it once at most.  A request that was answered, but by a timeout, is nowhere
\* any more; what is lost was overwritten.
OneAnswer(r) ==
    /\ Answer(r) \in {0, 1}
    /\ Answer(r) = 1 =>
          /\ ~Somewhere(r)
          /\ finished[r] \/ r \in history.refused \/ (pass.at = "callback" /\ pass.req = r)
          /\ r \in expired => r \in history.both \cup history.refused
    /\ pass.at = "callback" /\ pass.req = r => Answer(r) = 1
    /\ r \in expired => finished[r] \/ timer = r
    /\ finished[r] => history.ran[r] > 0
    /\ r \notin history.left \cup Timed \cup history.lost /\ history.ran[r] = 0 => Somewhere(r)

PlaceInv == \A r \in Requests : OnePlace(r)
AnswerInv == (timer # Nobody => timer \in expired) /\ \A r \in Requests : OneAnswer(r)

\* A request that comes to a closed file was made while the stream was being closed; what is
\* held after the file was closed was tried on it.
RacedInv ==
    /\ history.misused \subseteq history.raced
    /\ instance.freed => \A d \in Dirs : held[d] # Nobody => held[d] \in history.misused
    /\ \A a \in Actors : instance.closing /\ pc[a] \in {"request", "setRequest"} => req[a] \in history.raced
    /\ instance.freed => \A d \in Dirs : slot[d] # Nobody =>
          slot[d] \in history.raced \/ (Emptying /\ d \in Elems(pass.dirs))
    /\ instance.freed /\ pass.at = "io" => pass.req \in history.raced

\* The loop's thread looked at the queue of tasks, of orders, of closings, and did not
\* wait since.
AfterOrders == pass.at \in {"orders", "epoll_wait"} \/ (Serving /\ pass.of = "order")
AfterTasks == In("tasks") \/ AfterOrders
AfterClosings == pass.at \in {"off", "while"} \/ AfterTasks

Signalled == wake.event \/ \E a \in Actors : pc[a] = "wake"

\* What was queued since then has its wake-up: epoll has its event, or it is being sent.
\* The flag of the wake event is set only while the event is with epoll or was taken.
WakeInv ==
    /\ wake.event => wake.set
    /\ "wake" \in pass.events => wake.set /\ ~wake.event
    /\ loop.init /\ wake.set => wake.event \/ "wake" \in pass.events
    /\ loop.running /\ AfterTasks /\ queueTasks > 0 => Signalled
    /\ loop.running /\ AfterOrders /\ queueOrder > 0 => Signalled
    /\ loop.init /\ AfterClosings /\ queueClosing > 0 /\ ~history.early => Signalled

\* A request in a slot will be looked for: the stream is ordered or is being ordered,
\* the loop's thread comes to the slot, or it waits for the request that is held.
OrderInv == loop.init => \A d \in Dirs : slot[d] # Nobody =>
    \/ queueOrder + pass.orders > 0 \/ \E a \in Actors : pc[a] = "requestOrder"
    \/ held[d] # Nobody \/ Detached
    \/ (Serving \/ Emptying) /\ d \in Elems(pass.dirs)
    \/ pass.of = "event"

\* A request that is held waits for the file, whose event will come or has come, or for
\* the stream to be closed.
HeldInv == loop.init => \A d \in Dirs : held[d] # Nobody =>
    \/ ready[d] = "none" \/ d \in pending \/ (d \in pass.found /\ "file" \in pass.events)
    \/ Serving /\ d \in Elems(pass.dirs)
    \/ instance.closing

IInv == /\ Types /\ QueueInv /\ PassInv /\ ReleaseInv /\ ClosingInv /\ SlotsInv /\ RequesterInv
        /\ PlaceInv /\ AnswerInv /\ RacedInv /\ WakeInv /\ OrderInv /\ HeldInv

USE DEF queues, stream, requests, file, clock, At, RunLoop, Go, To

-----------------------------------------------------------------------------
\* What the sequences of directions are: one without its first has the others.
LEMMA DirsFacts ==
    ASSUME NEW s \in DirSeqs
    PROVE /\ Elems(s) \subseteq Dirs
          /\ s = <<>> <=> Elems(s) = {}
          /\ s # <<>> => /\ Head(s) \in Dirs /\ Tail(s) \in DirSeqs
                         /\ Elems(s) = {Head(s)} \cup Elems(Tail(s))
                         /\ Head(s) \notin Elems(Tail(s))
<1>1. CASE s = <<>>
  <2>1. DOMAIN s = {}
    BY <1>1
  <2> QED BY <1>1, <2>1 DEF Elems
<1>2. CASE s = <<"read">>
  <2>1. Head(s) = "read" /\ Tail(s) = <<>> /\ DOMAIN s = {1} /\ s[1] = "read" /\ s # <<>>
    BY <1>2
  <2>2. Elems(s) = {"read"} /\ Elems(Tail(s)) = {}
    BY <2>1 DEF Elems
  <2> QED BY <2>1, <2>2 DEF DirSeqs, Dirs
<1>3. CASE s = <<"write">>
  <2>1. Head(s) = "write" /\ Tail(s) = <<>> /\ DOMAIN s = {1} /\ s[1] = "write" /\ s # <<>>
    BY <1>3
  <2>2. Elems(s) = {"write"} /\ Elems(Tail(s)) = {}
    BY <2>1 DEF Elems
  <2> QED BY <2>1, <2>2 DEF DirSeqs, Dirs
<1>4. CASE s = <<"read", "write">>
  <2>1. Head(s) = "read" /\ Tail(s) = <<"write">> /\ DOMAIN s = {1, 2} /\ s[1] = "read" /\ s[2] = "write"
        /\ s # <<>>
    BY <1>4
  <2>2. DOMAIN Tail(s) = {1} /\ Tail(s)[1] = "write"
    BY <2>1
  <2>3. Elems(s) = {"read", "write"} /\ Elems(Tail(s)) = {"write"}
    BY <2>1, <2>2 DEF Elems
  <2> QED BY <2>1, <2>3 DEF DirSeqs, Dirs
<1> QED BY <1>1, <1>2, <1>3, <1>4 DEF DirSeqs

\* There is one for each set of directions.
LEMMA SomeFacts ==
    ASSUME NEW D, D \subseteq Dirs
    PROVE  Some(D) \in DirSeqs /\ Elems(Some(D)) = D
<1>1. /\ Elems(<<>>) = {} /\ Elems(<<"read">>) = {"read"} /\ Elems(<<"write">>) = {"write"}
      /\ Elems(<<"read", "write">>) = {"read", "write"}
  BY DEF Elems
<1>2. D = {} \/ D = {"read"} \/ D = {"write"} \/ D = {"read", "write"}
  BY DEF Dirs
<1>3. \E s \in DirSeqs : Elems(s) = D
  BY <1>1, <1>2 DEF DirSeqs
<1> QED BY <1>3 DEF Some

\* The directions in use, in the order they are processed.
LEMMA UseFacts ==
    /\ InUse \subseteq Dirs /\ Some(InUse) \in DirSeqs
    /\ Elems(Some(InUse)) = InUse /\ Some(InUse) # <<>>
<1>1. InUse \subseteq Dirs /\ InUse # {}
  BY ConstantsAssumption DEF InUse
<1> QED BY <1>1, SomeFacts, DirsFacts

\* The counters are numbers.
LEMMA Counts ==
    ASSUME Types
    PROVE  /\ pass.tasks \in 0 .. MaxTasks /\ pass.orders \in 0 .. 1
           /\ history.tasks \in 0 .. MaxTasks
           /\ queueTasks \in Nat /\ queueOrder \in Nat /\ queueClosing \in Nat /\ MaxTasks \in Nat
<1>1. pass.tasks \in 0 .. MaxTasks /\ pass.orders \in 0 .. 1
  BY DEF Types, Rest, Pass
<1>2. history.tasks \in 0 .. MaxTasks
  BY DEF Types, Rest, History
<1> QED BY <1>1, <1>2, ConstantsAssumption DEF Types, Rest

\* The direction that is processed, and those after it.
LEMMA DirectionFacts ==
    ASSUME Types
    PROVE /\ pass \in Pass /\ pass.dirs \in DirSeqs /\ Elems(pass.dirs) \subseteq Dirs
          /\ pass.dirs = <<>> <=> Elems(pass.dirs) = {}
          /\ pass.dirs # <<>> =>
                /\ Direction \in Dirs /\ Tail(pass.dirs) \in DirSeqs
                /\ Elems(pass.dirs) = {Direction} \cup Elems(Tail(pass.dirs))
                /\ Direction \notin Elems(Tail(pass.dirs))
                /\ Tail(pass.dirs) = <<>> <=> Elems(Tail(pass.dirs)) = {}
<1>1. pass \in Pass /\ pass.dirs \in DirSeqs
  BY DEF Types, Rest, Pass
<1> QED BY <1>1, DirsFacts DEF Direction

\* The history h with a callback of r that the loop ran.
Answered(h, r) ==
    [h EXCEPT !.ran[r] = @ + 1, !.both = IF timer = r THEN @ \cup {r} ELSE @]

\* The history with the misuse of a closed file, and with a request that was made in part.
Misuses == {Misuse, [Misuse EXCEPT !.parted = @ \cup {pass.req}]}

\* What a callback and a misuse change in the history.
LEMMA AnsweredFacts ==
    ASSUME NEW h \in History, NEW r \in Requests, history' = Answered(h, r)
    PROVE
      /\ history' \in History /\ history'.left = h.left /\ history'.tasks = h.tasks
      /\ history'.refused = h.refused /\ history'.lost = h.lost /\ history'.raced = h.raced
      /\ history'.misused = h.misused /\ history'.closes = h.closes
      /\ history'.ownRelease = h.ownRelease /\ history'.early = h.early
      /\ history'.ran[r] = h.ran[r] + 1 /\ \A q \in Requests \ {r} : history'.ran[q] = h.ran[q]
      /\ history'.both = IF timer = r THEN h.both \cup {r} ELSE h.both
<1> DEFINE ran == [h.ran EXCEPT ![r] = @ + 1]
           both == IF timer = r THEN h.both \cup {r} ELSE h.both
<1>1. /\ ran \in [Requests -> Nat] /\ both \subseteq Requests
      /\ ran[r] = h.ran[r] + 1 /\ \A q \in Requests \ {r} : ran[q] = h.ran[q]
  BY DEF History
<1>2. history' = [h EXCEPT !.ran = ran, !.both = both]
  BY DEF Answered
<1> HIDE DEF ran, both
<1> QED BY <1>1, <1>2, ZenonT(60) DEF History, both

\* What the misuse of a closed file does.
LEMMA MisuseFacts ==
    ASSUME Types, pass.req \in Requests, NEW h \in Misuses
    PROVE
      /\ h \in History /\ h.left = history.left /\ h.tasks = history.tasks
      /\ h.refused = history.refused /\ h.lost = history.lost /\ h.raced = history.raced
      /\ h.closes = history.closes /\ h.ownRelease = history.ownRelease /\ h.early = history.early
      /\ h.ran = history.ran /\ h.both = history.both
      /\ h.misused = IF instance.freed THEN history.misused \cup {pass.req} ELSE history.misused
<1> DEFINE m == Misuse
<1>1. /\ m \in History /\ m.left = history.left /\ m.tasks = history.tasks
      /\ m.refused = history.refused /\ m.lost = history.lost /\ m.raced = history.raced
      /\ m.closes = history.closes /\ m.ownRelease = history.ownRelease /\ m.early = history.early
      /\ m.ran = history.ran /\ m.both = history.both
      /\ m.misused = IF instance.freed THEN history.misused \cup {pass.req} ELSE history.misused
  BY DEF Misuse, Types, Rest, History
<1> HIDE DEF m
<1>2. CASE h = m
  BY <1>1, <1>2
<1>3. CASE h = [m EXCEPT !.parted = @ \cup {pass.req}]
  BY <1>1, <1>3 DEF History
<1> QED BY <1>2, <1>3 DEF Misuses, m

\* What of the history a callback, or the misuse of a closed file, leaves as it was.
Kept ==
    /\ history' \in History /\ history'.left = history.left /\ history'.tasks = history.tasks
    /\ history'.refused = history.refused /\ history'.lost = history.lost
    /\ history'.raced = history.raced /\ history'.closes = history.closes
    /\ history'.ownRelease = history.ownRelease /\ history'.early = history.early

\* The loop ran no callback, or that of r.
NoneRan == history'.ran = history.ran /\ history'.both = history.both
Ran(r) ==
    /\ history'.ran[r] = history.ran[r] + 1
    /\ \A q \in Requests \ {r} : history'.ran[q] = history.ran[q]
    /\ history'.both = IF timer = r THEN history.both \cup {r} ELSE history.both

\* Where the loop's thread is after it asked for a callback.
LEMMA Called ==
    ASSUME NEW p \in Pass, NEW part \in BOOLEAN, NEW h, RunCallback(p, part, h)
    PROVE
      /\ pass' \in Pass
      /\ pass'.tasks = p.tasks /\ pass'.orders = p.orders /\ pass'.dirs = p.dirs
      /\ pass'.of = p.of
      /\ pass'.events = p.events /\ pass'.found = p.found /\ pass'.back = p.back
      /\ \/ /\ finished[p.req] /\ pass'.at = p.back /\ pass'.req = Nobody /\ pass'.part = p.part
            /\ history' = h /\ pc' = pc /\ req' = req
         \/ /\ ~finished[p.req] /\ part /\ pass'.at = p.back /\ pass'.req = p.req
            /\ pass'.part = TRUE
            /\ history' = h
            /\ pc' = [pc EXCEPT ![Loop] = "getIoInstance"] /\ req' = [req EXCEPT ![Loop] = p.req]
         \/ /\ ~finished[p.req] /\ ~part
            /\ pass'.at = "callback" /\ pass'.req = p.req /\ pass'.part = p.part
            /\ history' = Answered(h, p.req) /\ pc' = pc /\ req' = req
<1>1. CASE /\ finished[p.req] /\ pass' = [p EXCEPT !.at = p.back, !.req = Nobody]
           /\ history' = h /\ UNCHANGED <<pc, req>>
  BY <1>1 DEF Pass, OrNobody, Passes
<1>2. CASE /\ ~finished[p.req] /\ part /\ pass' = [p EXCEPT !.at = p.back, !.part = TRUE]
           /\ pc' = [pc EXCEPT ![Loop] = "getIoInstance"] /\ req' = [req EXCEPT ![Loop] = p.req]
           /\ history' = h
  BY <1>2 DEF Pass, OrNobody, Passes
<1>3. CASE /\ ~finished[p.req] /\ ~part /\ pass' = [p EXCEPT !.at = "callback"]
           /\ history' = Answered(h, p.req) /\ UNCHANGED <<pc, req>>
  BY <1>3 DEF Pass, OrNobody, Passes
<1> QED BY <1>1, <1>2, <1>3 DEF RunCallback, Answered

\* Of the threads only the loop's moves: it makes its request again, or asks for an order.
LoopOnly == \A a \in Actors :
    \/ pc'[a] = pc[a] /\ req'[a] = req[a]
    \/ /\ a = Loop /\ pc[a] = "outside"
       /\ \/ pc'[a] = "getIoInstance" /\ req'[a] = pass.req /\ pass.req # Nobody
          \/ pc'[a] = "requestOrder" /\ req'[a] = req[a]

\* A new turn of the loop.
LEMMA NewPassMoves ==
    ASSUME While \/ EndEvents
    PROVE
      /\ pc[Loop] = "outside" /\ pc' = pc /\ req' = req
      /\ pass'.orders = 0 /\ pass'.dirs = <<>> /\ pass'.of = "order" /\ pass'.events = {}
      /\ pass'.found = {} /\ pass'.req = Nobody /\ pass'.part = FALSE /\ pass'.back = "tasks"
      /\ UNCHANGED <<loop, queueOrder, queueClosing, stream, requests, file, wake, clock, finished, history>>
      /\ \/ /\ pass.at = "while" /\ loop.running /\ pass'.at = "tasks"
            /\ pass'.tasks = queueTasks /\ queueTasks' = 0
         \/ /\ pass.at = "while" /\ ~loop.running /\ pass'.at = "ended"
            /\ pass'.tasks = 0 /\ queueTasks' = queueTasks
         \/ /\ pass.at = "events" /\ (~loop.running \/ pass.events = {})
            /\ pass'.at = IF loop.running THEN "stepEnd" ELSE "while"
            /\ pass'.tasks = 0 /\ queueTasks' = queueTasks
<1>1. CASE While /\ loop.running
  BY <1>1 DEF While, NewPass
<1>2. CASE While /\ ~loop.running
  BY <1>2 DEF While, NewPass
<1>3. CASE EndEvents
  BY <1>3 DEF EndEvents, NewPass
<1> QED BY <1>1, <1>2, <1>3

\* The loop's thread goes on with what comes after a direction.
AfterDirection ==
    /\ pass' \in Pass
    /\ pass'.tasks = pass.tasks /\ pass'.orders = pass.orders /\ pass'.dirs = Tail(pass.dirs)
    /\ pass'.events = pass.events /\ pass'.found = pass.found /\ pass'.back = pass.back
    /\ pass'.req = Nobody /\ pass'.part = FALSE
    /\ \/ pass'.dirs # <<>> /\ pass'.at = "take" /\ pass'.of = pass.of /\ pc' = pc
       \/ /\ pass'.dirs = <<>> /\ pass.of = "order" /\ pass'.of = "order"
          /\ pass'.at = IF pass.orders = 0 THEN "epoll_wait" ELSE "orders"
          /\ pc' = pc
       \/ /\ pass'.dirs = <<>> /\ pass.of = "event" /\ pass'.of = "order" /\ pass'.at = "events"
          /\ pc' = [pc EXCEPT ![Loop] = "requestOrder"]

\* The end of a direction leads there.
LEMMA DirectionEnded ==
    ASSUME Types, pass.dirs # <<>>, EndDirection
    PROVE  AfterDirection
<1> DEFINE p == [pass EXCEPT !.dirs = Tail(@), !.req = Nobody, !.part = FALSE]
<1>1. /\ p \in Pass /\ p.tasks = pass.tasks /\ p.orders = pass.orders /\ p.dirs = Tail(pass.dirs)
      /\ p.events = pass.events /\ p.found = pass.found /\ p.back = pass.back
      /\ p.req = Nobody /\ p.part = FALSE /\ p.of = pass.of
  BY DirectionFacts DEF Pass, OrNobody
<1>2. \/ p.dirs # <<>> /\ pass' = [p EXCEPT !.at = "take"] /\ pc' = pc
      \/ p.dirs = <<>> /\ p.of = "order" /\ pass' = [p EXCEPT !.at = AfterOrder(pass.orders)] /\ pc' = pc
      \/ /\ p.dirs = <<>> /\ p.of = "event"
         /\ pass' = [p EXCEPT !.at = "events", !.of = "order"]
         /\ pc' = [pc EXCEPT ![Loop] = "requestOrder"]
  BY DEF EndDirection
<1> HIDE DEF p
<1>3. CASE p.dirs # <<>> /\ pass' = [p EXCEPT !.at = "take"] /\ pc' = pc
  BY <1>1, <1>3 DEF Pass, Passes, AfterDirection
<1>4. CASE p.dirs = <<>> /\ p.of = "order" /\ pass' = [p EXCEPT !.at = AfterOrder(pass.orders)] /\ pc' = pc
  BY <1>1, <1>4 DEF Pass, Passes, AfterOrder, AfterDirection
<1>5. CASE /\ p.dirs = <<>> /\ p.of = "event"
           /\ pass' = [p EXCEPT !.at = "events", !.of = "order"]
           /\ pc' = [pc EXCEPT ![Loop] = "requestOrder"]
  BY <1>1, <1>5 DEF Pass, Passes, AfterDirection
<1> QED BY <1>2, <1>3, <1>4, <1>5

\* What it took from a direction: what is held, what is in the slot, or nothing.
LEMMA TakeMoves ==
    ASSUME Types, PassInv, Take \/ NextRequest
    PROVE
      /\ pass.dirs # <<>> /\ pass.at \in {"take", "next"} /\ pc[Loop] = "outside"
      /\ pass' \in Pass
      /\ LoopOnly
      /\ UNCHANGED <<loop, queues, stream, file, wake, req, clock, finished, history>>
      /\ \/ /\ pass'.at = "io" /\ pass'.part \in {pass.part, FALSE} /\ pc' = pc
            /\ Direction' = Direction
            /\ pass.at = "next" => pass'.part = FALSE
            /\ pass'.tasks = pass.tasks /\ pass'.orders = pass.orders /\ pass'.dirs = pass.dirs
            /\ pass'.of = pass.of /\ pass'.events = pass.events /\ pass'.found = pass.found
            /\ pass'.back = pass.back
            /\ \/ /\ pass.at = "take" /\ held[Direction] # Nobody /\ pass'.req = held[Direction]
                  /\ held' = [held EXCEPT ![Direction] = Nobody] /\ slot' = slot
               \/ /\ pass.at = "take" => held[Direction] = Nobody
                  /\ slot[Direction] # Nobody /\ pass'.req = slot[Direction]
                  /\ slot' = [slot EXCEPT ![Direction] = Nobody] /\ held' = held
         \/ /\ AfterDirection /\ slot' = slot /\ held' = held
            /\ pass.at = "take" => held[Direction] = Nobody
            /\ slot[Direction] = Nobody \/ (pass.at = "next" /\ loop.stopping)
<1>0. pass.dirs # <<>>
  BY DEF PassInv, Serving, In, Take, NextRequest
<1> USE <1>0, DirectionFacts DEF Types, Rest
<1>1. CASE Take
  <2> DEFINE d == Direction
  <2>1. CASE /\ held[d] # Nobody /\ pass' = [pass EXCEPT !.at = "io", !.req = held[d]]
             /\ held' = [held EXCEPT ![d] = Nobody] /\ UNCHANGED <<slot, pc>>
    BY <1>1, <2>1 DEF Take, Pass, Passes, LoopOnly, Direction
  <2>2. CASE /\ held[d] = Nobody /\ slot[d] # Nobody
             /\ pass' = [pass EXCEPT !.at = "io", !.req = slot[d]]
             /\ slot' = [slot EXCEPT ![d] = Nobody] /\ UNCHANGED <<held, pc>>
    BY <1>1, <2>2 DEF Take, Pass, Passes, LoopOnly, Direction
  <2>3. CASE held[d] = Nobody /\ slot[d] = Nobody /\ EndDirection /\ UNCHANGED requests
    <3>1. AfterDirection /\ pass' \in Pass /\ LoopOnly
      BY <1>1, <2>3, DirectionEnded DEF AfterDirection, LoopOnly, Take, Actors
    <3> QED BY <1>1, <2>3, <3>1 DEF Take
  <2> QED BY <1>1, <2>1, <2>2, <2>3 DEF Take
<1>2. CASE NextRequest
  <2>1. CASE loop.stopping \/ slot[Direction] = Nobody
    <3>1. EndDirection
      BY <1>2, <2>1 DEF NextRequest
    <3>2. AfterDirection /\ pass' \in Pass /\ LoopOnly
      BY <1>2, <3>1, DirectionEnded DEF AfterDirection, LoopOnly, NextRequest, Actors
    <3> QED BY <1>2, <2>1, <3>2 DEF NextRequest
  <2>2. CASE ~(loop.stopping \/ slot[Direction] = Nobody)
    <3>1. /\ At("next")
          /\ pass' = [pass EXCEPT !.at = "io", !.req = slot[Direction], !.part = FALSE]
          /\ slot' = [slot EXCEPT ![Direction] = Nobody] /\ UNCHANGED <<pc, held>>
          /\ UNCHANGED <<loop, queues, stream, file, wake, req, clock, finished, history>>
      BY <1>2, <2>2 DEF NextRequest
    <3>2. /\ pass' \in Pass /\ pass'.at = "io" /\ pass'.req = slot[Direction]
          /\ pass'.part = FALSE
          /\ pass'.tasks = pass.tasks /\ pass'.orders = pass.orders /\ pass'.dirs = pass.dirs
          /\ pass'.of = pass.of /\ pass'.events = pass.events /\ pass'.found = pass.found
          /\ pass'.back = pass.back
      BY <3>1 DEF Pass, Passes
    <3> QED BY <2>2, <3>1, <3>2 DEF LoopOnly, Direction
  <2> QED BY <2>1, <2>2
<1> QED BY <1>1, <1>2

\* It held the request whose read or write would block.
LEMMA HoldMoves ==
    ASSUME Types, PassInv, WouldBlock
    PROVE
      /\ pass.dirs # <<>> /\ pass.req \in Requests /\ LoopOnly
      /\ At("io") /\ (ready[Direction] = "none" \/ instance.freed) /\ AfterDirection
      /\ held' = [held EXCEPT ![Direction] = pass.req]
      /\ UNCHANGED <<loop, queues, stream, slot, file, wake, req, clock, finished>>
      /\ Kept /\ NoneRan
      /\ history'.misused = IF instance.freed THEN history.misused \cup {pass.req} ELSE history.misused
<1>1. pass.dirs # <<>> /\ pass.req \in Requests
  BY DirectionFacts DEF PassInv, Serving, WouldBlock, Pass, OrNobody
<1>2. AfterDirection
  BY <1>1, DirectionEnded DEF WouldBlock
<1>3. LoopOnly
  BY <1>2 DEF AfterDirection, LoopOnly, WouldBlock, Actors, Types, Rest
<1>4. /\ Kept /\ NoneRan
      /\ history'.misused = IF instance.freed THEN history.misused \cup {pass.req} ELSE history.misused
  <2>1. history' = Misuse /\ Misuse \in Misuses
    BY DEF WouldBlock, Misuses
  <2> QED BY <1>1, <2>1, MisuseFacts DEF Kept, NoneRan
<1> QED BY <1>1, <1>2, <1>3, <1>4 DEF WouldBlock, Hold

\* What the loop's thread did with a request whose read or write it finished.
LEMMA ServedMoves ==
    ASSUME Types, PassInv, Done \/ Failed
    PROVE
      /\ pass.dirs # <<>> /\ pass.req \in Requests /\ At("io") /\ pass' \in Pass
      /\ LoopOnly /\ Direction' = Direction
      /\ UNCHANGED <<loop, queues, stream, requests, pending, wake, clock, finished>>
      /\ pass'.tasks = pass.tasks /\ pass'.orders = pass.orders /\ pass'.dirs = pass.dirs
      /\ pass'.of = pass.of /\ pass'.events = pass.events /\ pass'.found = pass.found
      /\ pass'.back = "next"
      /\ \A d \in Dirs : d # Direction => ready'[d] = ready[d]
      /\ ready' \in [Dirs -> {"none", "some", "end"}]
      /\ Kept
      /\ history'.misused = IF instance.freed THEN history.misused \cup {pass.req} ELSE history.misused
      /\ \/ /\ finished[pass.req] /\ pass'.at = "next" /\ pass'.req = Nobody
            /\ pass'.part = pass.part
            /\ NoneRan /\ pc' = pc /\ req' = req
         \/ /\ ~finished[pass.req] /\ pass'.at = "next" /\ pass'.req = pass.req
            /\ pass'.part = TRUE
            /\ NoneRan
            /\ pc' = [pc EXCEPT ![Loop] = "getIoInstance"]
            /\ req' = [req EXCEPT ![Loop] = pass.req]
         \/ /\ ~finished[pass.req]
            /\ pass'.at = "callback" /\ pass'.req = pass.req /\ pass'.part = pass.part
            /\ Ran(pass.req) /\ pc' = pc /\ req' = req
<1> DEFINE p == [pass EXCEPT !.back = "next"]
<1>1. /\ p \in Pass /\ p.tasks = pass.tasks /\ p.orders = pass.orders /\ p.dirs = pass.dirs
      /\ p.of = pass.of /\ p.events = pass.events /\ p.found = pass.found /\ p.back = "next"
      /\ p.req = pass.req /\ p.part = pass.part
  BY DirectionFacts DEF Pass, Passes
<1>2. \E part \in BOOLEAN, h \in Misuses : RunCallback(p, part, h)
  <2>1. CASE Done
    <3>1. PICK part \in BOOLEAN :
             RunCallback(p, part, [Misuse EXCEPT !.parted = IF part THEN @ \cup {pass.req} ELSE @])
      BY <2>1 DEF Done
    <3>2. Misuse = [Misuse EXCEPT !.parted = @]
      BY DEF Misuse, Types, Rest, History
    <3>3. [Misuse EXCEPT !.parted = IF part THEN @ \cup {pass.req} ELSE @] \in Misuses
      BY <3>2 DEF Misuses
    <3> HIDE DEF p
    <3> QED BY <3>1, <3>3
  <2>2. CASE Failed
    <3>1. RunCallback(p, FALSE, Misuse) /\ Misuse \in Misuses
      BY <2>2 DEF Failed, Misuses
    <3> HIDE DEF p
    <3> QED BY <3>1
  <2> QED BY <2>1, <2>2
<1>3. PICK part \in BOOLEAN, h \in Misuses : RunCallback(p, part, h)
  BY <1>2
<1>4. At("io") /\ UNCHANGED <<loop, queues, stream, requests, pending, wake, clock, finished>>
  BY DEF Done, Failed
<1>5. (\A d \in Dirs : d # Direction => ready'[d] = ready[d]) /\ ready' \in [Dirs -> {"none", "some", "end"}]
  BY ZenonT(60) DEF Done, Failed, Types, Rest
<1> HIDE DEF p
<1>6. /\ pass' \in Pass
      /\ pass'.tasks = p.tasks /\ pass'.orders = p.orders /\ pass'.dirs = p.dirs
      /\ pass'.of = p.of
      /\ pass'.events = p.events /\ pass'.found = p.found /\ pass'.back = p.back
  BY <1>1, <1>3, Called
<1>7. \/ /\ finished[p.req] /\ pass'.at = p.back /\ pass'.req = Nobody /\ pass'.part = p.part
         /\ history' = h /\ pc' = pc /\ req' = req
      \/ /\ ~finished[p.req] /\ pass'.at = p.back /\ pass'.req = p.req /\ pass'.part = TRUE
         /\ history' = h
         /\ pc' = [pc EXCEPT ![Loop] = "getIoInstance"] /\ req' = [req EXCEPT ![Loop] = p.req]
      \/ /\ ~finished[p.req] /\ pass'.at = "callback" /\ pass'.req = p.req /\ pass'.part = p.part
         /\ history' = Answered(h, p.req) /\ pc' = pc /\ req' = req
  BY <1>1, <1>3, Called, ZenonT(60)
<1>8. pass.dirs # <<>> /\ pass.req \in Requests
  BY <1>4, DirectionFacts DEF PassInv, Serving, Pass, OrNobody
<1>9. history' = h =>
         /\ Kept /\ NoneRan
         /\ history'.misused = IF instance.freed THEN history.misused \cup {pass.req} ELSE history.misused
  BY <1>8, MisuseFacts DEF Kept, NoneRan
<1>10. history' = Answered(h, pass.req) =>
         /\ Kept /\ Ran(pass.req)
         /\ history'.misused = IF instance.freed THEN history.misused \cup {pass.req} ELSE history.misused
  <2> SUFFICES ASSUME history' = Answered(h, pass.req)
               PROVE  /\ Kept /\ Ran(pass.req)
                      /\ history'.misused = IF instance.freed THEN history.misused \cup {pass.req}
                                            ELSE history.misused
    OBVIOUS
  <2>1. Kept
    BY <1>8, MisuseFacts, AnsweredFacts, ZenonT(60) DEF Kept
  <2>2. h \in History /\ h.ran = history.ran /\ h.both = history.both
    BY <1>8, MisuseFacts
  <2>3. /\ history'.ran[pass.req] = h.ran[pass.req] + 1
        /\ \A q \in Requests \ {pass.req} : history'.ran[q] = h.ran[q]
        /\ history'.both = IF timer = pass.req THEN h.both \cup {pass.req} ELSE h.both
    BY <1>8, <2>2, AnsweredFacts
  <2>4. Ran(pass.req)
    BY <2>2, <2>3 DEF Ran
  <2> QED BY <1>8, <2>1, <2>4, MisuseFacts, AnsweredFacts, ZenonT(60)
<1>11. LoopOnly
  BY <1>1, <1>4, <1>7, <1>8, ConstantsAssumption DEF LoopOnly, Actors, Types, Rest
<1>12. Direction' = Direction
  BY <1>1, <1>6 DEF Direction
<1> QED BY <1>1, <1>4, <1>5, <1>6, <1>7, <1>8, <1>9, <1>10, <1>11, <1>12

\* What it did with a request that was held when the stream is closed.
LEMMA FreeHeldMoves ==
    ASSUME Types, SlotsInv, FreeHeld
    PROVE
      /\ At("_free") /\ pass.dirs # <<>> /\ pass' \in Pass /\ pc' = pc /\ req' = req
      /\ Direction' = Direction
      /\ UNCHANGED <<loop, queues, stream, requests, file, wake, clock, finished>>
      /\ pass'.tasks = pass.tasks /\ pass'.orders = pass.orders /\ pass'.dirs = pass.dirs
      /\ pass'.of = pass.of /\ pass'.events = pass.events /\ pass'.found = pass.found
      /\ pass'.part = pass.part /\ pass'.back = "freed"
      /\ held[Direction] \in Requests /\ Kept /\ history'.misused = history.misused
      /\ \/ finished[held[Direction]] /\ pass'.at = "freed" /\ pass'.req = Nobody /\ NoneRan
         \/ /\ ~finished[held[Direction]]
            /\ pass'.at = "callback" /\ pass'.req = held[Direction] /\ Ran(held[Direction])
<1> DEFINE p == [pass EXCEPT !.req = held[Direction], !.back = "freed"]
<1>1. RunCallback(p, FALSE, history) /\ At("_free") /\ pass.dirs # <<>>
  BY DEF FreeHeld
<1>2. /\ p \in Pass /\ p.tasks = pass.tasks /\ p.orders = pass.orders /\ p.dirs = pass.dirs
      /\ p.of = pass.of /\ p.events = pass.events /\ p.found = pass.found /\ p.back = "freed"
      /\ p.req = held[Direction] /\ p.part = pass.part
  <2>1. Direction \in Dirs /\ held[Direction] \in OrNobody
    BY <1>1, DirectionFacts DEF Types, Rest
  <2> QED BY <2>1, DirectionFacts DEF Pass, Passes
<1>3. UNCHANGED <<loop, queues, stream, requests, file, wake, clock, finished>>
  BY DEF FreeHeld
<1> HIDE DEF p
<1>4. held[Direction] \in Requests /\ history \in History
  BY <1>1, DirectionFacts DEF Types, Rest, SlotsInv, Detached, OrNobody
<1>5. history' = history => Kept /\ history'.misused = history.misused /\ NoneRan
  BY <1>4 DEF Kept, NoneRan
<1>6. history' = Answered(history, held[Direction]) =>
         Kept /\ history'.misused = history.misused /\ Ran(held[Direction])
  BY <1>4, AnsweredFacts DEF Kept, Ran
<1>7. pass'.dirs = pass.dirs
  BY <1>1, <1>2, Called
<1>8. Direction' = Direction
  BY <1>7 DEF Direction
<1> QED BY <1>1, <1>2, <1>3, <1>4, <1>5, <1>6, <1>8, Called, ZenonT(60)

\* What it did with the slot of a stream that was closed.
LEMMA FreeRequestMoves ==
    ASSUME Types, PassInv, FreeRequest
    PROVE
      /\ pass.dirs # <<>> /\ At("_freeRequests") /\ pass' \in Pass /\ pc' = pc /\ req' = req
      /\ UNCHANGED <<loop, queues, stream, held, file, wake, clock, finished>>
      /\ slot' = [slot EXCEPT ![Direction] = Nobody]
      /\ pass'.tasks = pass.tasks /\ pass'.orders = pass.orders /\ pass'.dirs = Tail(pass.dirs)
      /\ pass'.of = pass.of /\ pass'.events = pass.events /\ pass'.found = pass.found
      /\ pass'.part = pass.part
      /\ Kept /\ history'.misused = history.misused
      /\ \/ /\ slot[Direction] = Nobody \/ finished[slot[Direction]]
            /\ pass'.at = IF Tail(pass.dirs) = <<>> THEN "stepEnd" ELSE "_freeRequests"
            /\ pass'.req = Nobody /\ NoneRan
         \/ /\ slot[Direction] \in Requests /\ ~finished[slot[Direction]]
            /\ pass'.at = "callback" /\ pass'.req = slot[Direction]
            /\ pass'.back = IF Tail(pass.dirs) = <<>> THEN "stepEnd" ELSE "_freeRequests"
            /\ Ran(slot[Direction])
<1> DEFINE b == IF Tail(pass.dirs) = <<>> THEN "stepEnd" ELSE "_freeRequests"
           p == [pass EXCEPT !.dirs = Tail(@), !.req = Freed(Direction), !.back = b]
<1>0. pass.dirs # <<>>
  BY DEF PassInv, Emptying, In, FreeRequest
<1>5. UNCHANGED <<loop, queues, stream, held, file, wake, clock, finished>>
  BY DEF FreeRequest
<1>1. /\ At("_freeRequests") /\ slot' = [slot EXCEPT ![Direction] = Nobody]
      /\ IF p.req = Nobody
         THEN pass' = [p EXCEPT !.at = p.back, !.back = "tasks"] /\ UNCHANGED <<pc, req, history>>
         ELSE RunCallback(p, FALSE, history)
  BY DEF FreeRequest
<1>2. /\ p \in Pass /\ p.tasks = pass.tasks /\ p.orders = pass.orders /\ p.dirs = Tail(pass.dirs)
      /\ p.of = pass.of /\ p.events = pass.events /\ p.found = pass.found /\ p.back = b
      /\ p.req = slot[Direction] /\ p.part = pass.part
  <2>1. Direction \in Dirs /\ slot[Direction] \in OrNobody /\ Tail(pass.dirs) \in DirSeqs
    BY <1>0, DirectionFacts DEF Types, Rest
  <2>2. b \in Passes
    BY DEF Passes
  <2> HIDE DEF b
  <2> QED BY <2>1, <2>2, DirectionFacts DEF Pass, Freed
<1> HIDE DEF p
<1>3. CASE slot[Direction] = Nobody
  <2>1. pass' = [p EXCEPT !.at = b, !.back = "tasks"] /\ pc' = pc /\ req' = req /\ history' = history
    BY <1>1, <1>2, <1>3
  <2>2. b \in Passes
    BY DEF Passes
  <2> HIDE DEF b
  <2>3. /\ pass' \in Pass /\ pass'.at = b /\ pass'.tasks = p.tasks /\ pass'.orders = p.orders
        /\ pass'.dirs = p.dirs /\ pass'.of = p.of /\ pass'.events = p.events
        /\ pass'.found = p.found /\ pass'.req = p.req /\ pass'.part = p.part
    BY <1>2, <2>1, <2>2 DEF Pass, Passes
  <2>4. Kept /\ history'.misused = history.misused /\ NoneRan
    BY <2>1 DEF Types, Rest, Kept, NoneRan
  <2> QED BY <1>0, <1>1, <1>2, <1>3, <1>5, <2>1, <2>3, <2>4 DEF b
<1>4. CASE slot[Direction] # Nobody
  <2>1. RunCallback(p, FALSE, history)
    BY <1>1, <1>2, <1>4
  <2>2. slot[Direction] \in Requests /\ history \in History
    BY <1>0, <1>4, DirectionFacts DEF Types, Rest, OrNobody
  <2>3. history' = history => Kept /\ history'.misused = history.misused /\ NoneRan
    BY <2>2 DEF Kept, NoneRan
  <2>4. history' = Answered(history, slot[Direction]) =>
           Kept /\ history'.misused = history.misused /\ Ran(slot[Direction])
    BY <2>2, AnsweredFacts DEF Kept, Ran
  <2> HIDE DEF b
  <2>5. /\ pass' \in Pass
        /\ pass'.tasks = p.tasks /\ pass'.orders = p.orders /\ pass'.dirs = p.dirs
        /\ pass'.of = p.of
        /\ pass'.events = p.events /\ pass'.found = p.found /\ pass'.back = p.back
        /\ pass'.part = p.part
        /\ pc' = pc /\ req' = req
        /\ \/ finished[p.req] /\ pass'.at = p.back /\ pass'.req = Nobody /\ history' = history
           \/ /\ ~finished[p.req] /\ pass'.at = "callback" /\ pass'.req = p.req
              /\ history' = Answered(history, p.req)
    BY <1>2, <2>1, Called
  <2> QED BY <1>0, <1>1, <1>2, <1>4, <1>5, <2>2, <2>3, <2>4, <2>5 DEF b
<1> QED BY <1>3, <1>4

\* The directions whose event was found, and those in which a request is held.
LEMMA FoundFacts ==
    ASSUME Types
    PROVE Some(pass.found) \in DirSeqs /\ Elems(Some(pass.found)) = pass.found
          /\ (Some(pass.found) = <<>> <=> pass.found = {})
<1>1. pass.found \subseteq Dirs
  BY UseFacts DEF Types, Rest, Pass
<1> QED BY <1>1, SomeFacts, DirsFacts

\* Those in which a request is held.
LEMMA HeldFacts ==
    LET D == {d \in Dirs : held[d] # Nobody} IN
    /\ Some(D) \in DirSeqs /\ Elems(Some(D)) = D /\ (Some(D) = <<>> <=> D = {})
<1>1. {d \in Dirs : held[d] # Nobody} \subseteq Dirs
  OBVIOUS
<1> QED BY <1>1, SomeFacts, DirsFacts

\* A timeout ran the callback of a request.
LEMMA TimeoutMoves ==
    ASSUME Types, Timeout
    PROVE
      /\ timer = Nobody /\ Kept /\ history'.misused = history.misused
      /\ UNCHANGED <<loop, queues, stream, requests, file, wake, pc, req, pass, finished>>
      /\ \E r \in Timed \ expired :
            /\ r \in Requests \ history.left /\ ~finished[r]
            /\ expired' = expired \cup {r} /\ timer' = r
            /\ history'.ran[r] = history.ran[r] + 1
            /\ \A q \in Requests \ {r} : history'.ran[q] = history.ran[q]
            /\ history'.both = IF pass.at = "callback" /\ pass.req = r
                              THEN history.both \cup {r} ELSE history.both
<1>1. PICK r \in Timed \ expired :
         /\ r \notin history.left /\ ~finished[r]
         /\ expired' = expired \cup {r} /\ timer' = r
         /\ history' = [history EXCEPT !.ran[r] = @ + 1,
               !.both = IF pass.at = "callback" /\ pass.req = r THEN @ \cup {r} ELSE @]
  BY DEF Timeout
<1>2. r \in Requests /\ history \in History
  BY ConstantsAssumption DEF Types, Rest
<1> DEFINE ran == [history.ran EXCEPT ![r] = @ + 1]
           both == IF pass.at = "callback" /\ pass.req = r THEN history.both \cup {r} ELSE history.both
<1>3. /\ ran \in [Requests -> Nat] /\ both \subseteq Requests
      /\ ran[r] = history.ran[r] + 1 /\ \A q \in Requests \ {r} : ran[q] = history.ran[q]
  BY <1>2 DEF History
<1>4. history' = [history EXCEPT !.ran = ran, !.both = both]
  BY <1>1
<1> HIDE DEF ran, both
<1>5. /\ history' \in History /\ history'.left = history.left /\ history'.tasks = history.tasks
      /\ history'.refused = history.refused /\ history'.lost = history.lost
      /\ history'.raced = history.raced /\ history'.closes = history.closes
      /\ history'.ownRelease = history.ownRelease /\ history'.early = history.early
      /\ history'.misused = history.misused /\ history'.ran = ran /\ history'.both = both
  BY <1>2, <1>3, <1>4 DEF History
<1>6. timer = Nobody /\ UNCHANGED <<loop, queues, stream, requests, file, wake, pc, req, pass, finished>>
  BY DEF Timeout
<1> QED BY <1>1, <1>2, <1>3, <1>5, <1>6 DEF Kept, both

\* A thread refused its request.
LEMMA RefusedMoves ==
    ASSUME Types, RequesterInv, NEW a \in Actors, Refused(a)
    PROVE
      /\ req[a] \in Requests /\ history' \in History /\ history'.left = history.left
      /\ history'.tasks = history.tasks /\ history'.lost = history.lost
      /\ history'.raced = history.raced /\ history'.closes = history.closes
      /\ history'.ownRelease = history.ownRelease /\ history'.early = history.early
      /\ history'.misused = history.misused /\ history'.both = history.both
      /\ history'.refused = history.refused \cup {req[a]}
      /\ history'.ran[req[a]] = history.ran[req[a]] + 1
      /\ \A q \in Requests \ {req[a]} : history'.ran[q] = history.ran[q]
<1>1. req[a] \in Requests /\ history \in History
  BY DEF Types, Rest, RequesterInv, Refused, OrNobody
<1> DEFINE ran == [history.ran EXCEPT ![req[a]] = @ + 1]
           refused == history.refused \cup {req[a]}
<1>2. /\ ran \in [Requests -> Nat] /\ refused \subseteq Requests
      /\ ran[req[a]] = history.ran[req[a]] + 1
      /\ \A q \in Requests \ {req[a]} : ran[q] = history.ran[q]
  BY <1>1 DEF History
<1>3. history' = [history EXCEPT !.ran = ran, !.refused = refused]
  BY DEF Refused
<1> HIDE DEF ran, refused
<1> QED BY <1>1, <1>2, <1>3 DEF History, refused

-----------------------------------------------------------------------------
\* What all of processRead's and processWrite's steps leave alone.
LEMMA ServeMoves ==
    ASSUME Types, PassInv, Process
    PROVE
      /\ pass.at \in {"take", "io", "next"} /\ pass.dirs # <<>> /\ pc[Loop] = "outside"
      /\ LoopOnly /\ Kept
      /\ UNCHANGED <<loop, queues, stream, wake, clock, finished, pending>>
      /\ pass'.at \in {"take", "io", "next", "callback", "epoll_wait", "orders", "events"}
      /\ pass'.at = "callback" => pass'.back = "next"
      /\ pass'.tasks = pass.tasks /\ pass'.orders = pass.orders /\ pass'.events = pass.events
      /\ pass'.of = pass.of \/ (pass.of = "event" /\ pass'.at = "events")
      /\ pass'.at \in {"epoll_wait", "orders"} => pass.of = "order"
<1>1. history' = history => Kept
  BY DEF Kept, Types, Rest
<1>2. CASE Take \/ NextRequest
  BY <1>1, <1>2, TakeMoves DEF AfterDirection
<1>3. CASE WouldBlock
  BY <1>3, HoldMoves DEF AfterDirection
<1>4. CASE Done \/ Failed
  BY <1>4, ServedMoves
<1> QED BY <1>2, <1>3, <1>4 DEF Process

\* They keep the types of what they change.
LEMMA ServeTyped ==
    ASSUME Types, PassInv, SlotsInv, Process
    PROVE
      /\ pc' \in [Actors -> Steps] /\ req' \in [Actors -> OrNobody]
      /\ slot' \in [Dirs -> OrNobody] /\ held' \in [Dirs -> OrNobody]
      /\ ready' \in [Dirs -> {"none", "some", "end"}]
<1> USE DEF Types, Rest, Steps, OrNobody
<1>1. CASE Take \/ NextRequest
  <2>1. pc' = pc \/ pc' = [pc EXCEPT ![Loop] = "requestOrder"]
    BY <1>1, TakeMoves DEF AfterDirection
  <2>2. \/ slot' = slot /\ held' = held
        \/ slot' = slot /\ held' = [held EXCEPT ![Direction] = Nobody]
        \/ slot' = [slot EXCEPT ![Direction] = Nobody] /\ held' = held
    BY <1>1, TakeMoves
  <2>3. req' = req /\ ready' = ready
    BY <1>1, TakeMoves
  <2> QED BY <2>1, <2>2, <2>3
<1>2. CASE WouldBlock
  <2>1. pc' = pc \/ pc' = [pc EXCEPT ![Loop] = "requestOrder"]
    BY <1>2, HoldMoves DEF AfterDirection
  <2>2. /\ slot' = slot /\ held' = [held EXCEPT ![Direction] = pass.req] /\ pass.req \in Requests
        /\ req' = req /\ ready' = ready
    BY <1>2, HoldMoves
  <2> QED BY <2>1, <2>2
<1>3. CASE Done \/ Failed
  <2>1. /\ pass.req \in Requests /\ slot' = slot /\ held' = held
        /\ ready' \in [Dirs -> {"none", "some", "end"}]
        /\ \/ pc' = pc /\ req' = req
           \/ pc' = [pc EXCEPT ![Loop] = "getIoInstance"] /\ req' = [req EXCEPT ![Loop] = pass.req]
    BY <1>3, ServedMoves
  <2> QED BY <2>1
<1> QED BY <1>1, <1>2, <1>3 DEF Process

-----------------------------------------------------------------------------
\* The loop's thread has at each step what that step works on.
LEMMA PassStep ==
    ASSUME IInv, Next
    PROVE  PassInv'
<1> USE DEF IInv, Types, Rest, PassInv, In, Serving, Emptying, Detached, Actors
<1>1. ASSUME NEW a \in Actors, Request(a) PROVE PassInv'
  BY <1>1 DEF Request, MayCall
<1>2. ASSUME NEW a \in Actors, AddTask(a) PROVE PassInv'
  BY <1>2 DEF AddTask, MayCall
<1>3. ASSUME NEW a \in Actors, Close(a) PROVE PassInv'
  BY <1>3 DEF Close, MayCall, InFlight
<1>4. ASSUME NEW a \in Actors, Start(a) PROVE PassInv'
  BY <1>4 DEF Start, ReleaseInv, Pass
<1>5. ASSUME NEW a \in Actors, Release(a) PROVE PassInv'
  BY <1>5 DEF Release, MayCall, Signal
<1>6. ASSUME NEW a \in Actors, GetIoInstance(a) PROVE PassInv'
  BY <1>6 DEF GetIoInstance, Closing
<1>7. ASSUME NEW a \in Actors, TestSlot(a) PROVE PassInv'
  BY <1>7 DEF TestSlot
<1>8. ASSUME NEW a \in Actors, SetRequest(a) PROVE PassInv'
  BY <1>8 DEF SetRequest
<1>9. ASSUME NEW a \in Actors, Refused(a) PROVE PassInv'
  BY <1>9 DEF Refused, Pass
<1>10. ASSUME NEW a \in Actors, RequestOrder(a) PROVE PassInv'
  BY <1>10 DEF RequestOrder, Order
<1>11. ASSUME NEW a \in Actors, Wake(a) PROVE PassInv'
  BY <1>11 DEF Wake, Signal
<1>12. ASSUME NEW a \in Actors, PushClosing(a) PROVE PassInv'
  BY <1>12 DEF PushClosing
<1>13. ASSUME NEW a \in Actors, SetNull(a) PROVE PassInv'
  BY <1>13, ConstantsAssumption DEF SetNull
<1>14. ASSUME NEW a \in Actors, FinishAndWait(a) PROVE PassInv'
  BY <1>14 DEF FinishAndWait, Ended
<1>15. ASSUME NEW a \in Actors, CloseHandle(a) PROVE PassInv'
  BY <1>15 DEF CloseHandle
<1>16. ASSUME While PROVE PassInv'
  BY <1>16, NewPassMoves
<1>17. ASSUME RunTask PROVE PassInv'
  BY <1>17 DEF RunTask, Pass
<1>18. ASSUME TakeOrders PROVE PassInv'
  BY <1>18 DEF TakeOrders, AfterOrder, Pass
<1>19. ASSUME ProcessOrder PROVE PassInv'
  BY <1>19, UseFacts DEF ProcessOrder, Ordered, Pass
<1>20. ASSUME Take PROVE PassInv'
  BY <1>20, TakeMoves DEF AfterDirection
<1>21. ASSUME Done PROVE PassInv'
  BY <1>21, ServedMoves, ZenonT(60)
<1>22. ASSUME WouldBlock PROVE PassInv'
  BY <1>22, HoldMoves DEF Hold, AfterDirection
<1>23. ASSUME Failed PROVE PassInv'
  BY <1>23, ServedMoves
<1>24. ASSUME NextRequest PROVE PassInv'
  BY <1>24, TakeMoves DEF AfterDirection
<1>25. ASSUME EndCallback PROVE PassInv'
  <2>1. closer # Loop
    BY <1>25, ConstantsAssumption DEF EndCallback, ClosingInv
  <2> QED BY <1>25, <2>1 DEF EndCallback, Pass
<1>26. ASSUME WakeEvent PROVE PassInv'
  BY <1>26 DEF WakeEvent, Pass
<1>27. ASSUME FileEvent PROVE PassInv'
  BY <1>27, FoundFacts DEF FileEvent, Pass
<1>28. ASSUME EndEvents PROVE PassInv'
  BY <1>28, NewPassMoves
<1>29. ASSUME DetachInstance PROVE PassInv'
  BY <1>29, HeldFacts DEF DetachInstance, Pass
<1>30. ASSUME EndStep PROVE PassInv'
  BY <1>30 DEF EndStep, Pass
<1>31. ASSUME FreeHeld PROVE PassInv'
  BY <1>31, FreeHeldMoves
<1>32. ASSUME FreedHeld PROVE PassInv'
  BY <1>32 DEF FreedHeld, Pass
<1>33. ASSUME CloseFile PROVE PassInv'
  BY <1>33, UseFacts DEF CloseFile, Pass
<1>34. ASSUME FreeRequest PROVE PassInv'
  BY <1>34, FreeRequestMoves
<1>35. ASSUME EpollWait PROVE PassInv'
  BY <1>35 DEF EpollWait, Pass
<1>36. ASSUME Timeout PROVE PassInv'
  BY <1>36, TimeoutMoves
<1>37. ASSUME EndTimeout PROVE PassInv'
  BY <1>37 DEF EndTimeout, Pass
<1>38. ASSUME FileChanges PROVE PassInv'
  BY <1>38 DEF FileChanges, Pass
<1> QED BY <1>1, <1>2, <1>3, <1>4, <1>5, <1>6, <1>7, <1>8, <1>9, <1>10, <1>11, <1>12, <1>13,
     <1>14, <1>15, <1>16, <1>17, <1>18, <1>19, <1>20, <1>21, <1>22, <1>23, <1>24, <1>25, <1>26,
     <1>27, <1>28, <1>29, <1>30, <1>31, <1>32, <1>33, <1>34, <1>35, <1>36, <1>37, <1>38
  DEF Next, Call, InCall, Step, Orders, Process, Events, Closings, Expire

\* Every step keeps the type of what the loop's thread does.
LEMMA PassTyped ==
    ASSUME IInv, Next
    PROVE  pass' \in Pass
<1> USE DEF IInv, Types
<1>1. ASSUME NEW a \in Actors, Request(a) PROVE pass' \in Pass
  BY <1>1 DEF Request, MayCall
<1>2. ASSUME NEW a \in Actors, AddTask(a) PROVE pass' \in Pass
  BY <1>2 DEF AddTask, MayCall
<1>3. ASSUME NEW a \in Actors, Close(a) PROVE pass' \in Pass
  BY <1>3 DEF Close, MayCall, InFlight
<1>4. ASSUME NEW a \in Actors, Start(a) PROVE pass' \in Pass
  BY <1>4 DEF Start, Pass, Passes
<1>5. ASSUME NEW a \in Actors, Release(a) PROVE pass' \in Pass
  BY <1>5 DEF Release, MayCall, Signal
<1>6. ASSUME NEW a \in Actors, GetIoInstance(a) PROVE pass' \in Pass
  BY <1>6 DEF GetIoInstance, Closing
<1>7. ASSUME NEW a \in Actors, TestSlot(a) PROVE pass' \in Pass
  BY <1>7 DEF TestSlot
<1>8. ASSUME NEW a \in Actors, SetRequest(a) PROVE pass' \in Pass
  BY <1>8 DEF SetRequest
<1>9. ASSUME NEW a \in Actors, Refused(a) PROVE pass' \in Pass
  BY <1>9 DEF Refused, Pass, Passes
<1>10. ASSUME NEW a \in Actors, RequestOrder(a) PROVE pass' \in Pass
  BY <1>10 DEF RequestOrder, Order
<1>11. ASSUME NEW a \in Actors, Wake(a) PROVE pass' \in Pass
  BY <1>11 DEF Wake, Signal
<1>12. ASSUME NEW a \in Actors, PushClosing(a) PROVE pass' \in Pass
  BY <1>12 DEF PushClosing
<1>13. ASSUME NEW a \in Actors, SetNull(a) PROVE pass' \in Pass
  BY <1>13 DEF SetNull
<1>14. ASSUME NEW a \in Actors, FinishAndWait(a) PROVE pass' \in Pass
  BY <1>14 DEF FinishAndWait, Ended
<1>15. ASSUME NEW a \in Actors, CloseHandle(a) PROVE pass' \in Pass
  BY <1>15 DEF CloseHandle
<1>16. ASSUME While PROVE pass' \in Pass
  <2>1. NewPass \in Pass /\ queueTasks \in 0 .. MaxTasks
    <3>1. queueTasks \in 0 .. MaxTasks
      BY Counts DEF QueueInv
    <3>2. NewPass \in Pass
      BY ConstantsAssumption DEF NewPass, Pass, Passes, OrNobody, DirSeqs
    <3> QED BY <3>1, <3>2
  <2>2. CASE pass' = [NewPass EXCEPT !.at = "tasks", !.tasks = queueTasks]
    BY <2>1, <2>2 DEF Pass, Passes
  <2>3. CASE pass' = [NewPass EXCEPT !.at = "ended"]
    BY <2>1, <2>3 DEF Pass, Passes
  <2> QED BY <1>16, <2>2, <2>3 DEF While
<1>17. ASSUME RunTask PROVE pass' \in Pass
  <2> DEFINE n == pass.tasks - 1
  <2>1. n \in 0 .. MaxTasks /\ pass' = [pass EXCEPT !.at = "callback", !.back = "tasks", !.tasks = n]
    BY <1>17, ConstantsAssumption DEF RunTask, Pass
  <2> HIDE DEF n
  <2> QED BY <2>1 DEF Pass, Passes
<1>18. ASSUME TakeOrders PROVE pass' \in Pass
  <2> DEFINE at == AfterOrder(queueOrder)
  <2>1. queueOrder \in 0 .. 1 /\ at \in Passes
    BY Counts DEF QueueInv, AfterOrder, Passes
  <2>2. pass' = [pass EXCEPT !.at = at, !.orders = queueOrder]
    BY <1>18 DEF TakeOrders
  <2> HIDE DEF at
  <2> QED BY <2>1, <2>2 DEF Pass
<1>19. ASSUME ProcessOrder PROVE pass' \in Pass
  <2> DEFINE n == pass.orders - 1
  <2>1. n \in 0 .. 1 /\ pass' = [pass EXCEPT !.at = "take", !.dirs = Some(InUse), !.orders = n]
    BY <1>19 DEF ProcessOrder, QueueInv
  <2> HIDE DEF n
  <2> QED BY <2>1, UseFacts DEF Pass, Passes
<1>20. ASSUME Take PROVE pass' \in Pass
  BY <1>20, TakeMoves
<1>21. ASSUME Done PROVE pass' \in Pass
  BY <1>21, ServedMoves
<1>22. ASSUME WouldBlock PROVE pass' \in Pass
  BY <1>22, HoldMoves DEF Hold, AfterDirection
<1>23. ASSUME Failed PROVE pass' \in Pass
  BY <1>23, ServedMoves
<1>24. ASSUME NextRequest PROVE pass' \in Pass
  BY <1>24, TakeMoves
<1>25. ASSUME EndCallback PROVE pass' \in Pass
  BY <1>25 DEF EndCallback, Pass, Passes, OrNobody
<1>26. ASSUME WakeEvent PROVE pass' \in Pass
  BY <1>26 DEF WakeEvent, Pass, Passes
<1>27. ASSUME FileEvent PROVE pass' \in Pass
  BY <1>27, FoundFacts DEF FileEvent, Pass, Passes
<1>28. ASSUME EndEvents PROVE pass' \in Pass
  <2>1. NewPass \in Pass /\ pass' = [NewPass EXCEPT !.at = IF loop.running THEN "stepEnd" ELSE "while"]
    BY <1>28, ConstantsAssumption DEF EndEvents, NewPass, Pass, Passes, OrNobody, DirSeqs
  <2> QED BY <2>1 DEF Pass, Passes
<1>29. ASSUME DetachInstance PROVE pass' \in Pass
  BY <1>29, HeldFacts DEF DetachInstance, Pass, Passes
<1>30. ASSUME EndStep PROVE pass' \in Pass
  BY <1>30 DEF EndStep, Pass, Passes
<1>31. ASSUME FreeHeld PROVE pass' \in Pass
  BY <1>31, FreeHeldMoves
<1>32. ASSUME FreedHeld PROVE pass' \in Pass
  <2>1. Tail(pass.dirs) \in DirSeqs
    BY <1>32, DirectionFacts DEF FreedHeld, PassInv, In
  <2> QED BY <1>32, <2>1 DEF FreedHeld, Pass, Passes
<1>33. ASSUME CloseFile PROVE pass' \in Pass
  BY <1>33, UseFacts DEF CloseFile, Pass, Passes
<1>34. ASSUME FreeRequest PROVE pass' \in Pass
  BY <1>34, FreeRequestMoves
<1>35. ASSUME EpollWait PROVE pass' \in Pass
  <2> DEFINE events == {e \in {"wake", "file"} : IF e = "wake" THEN wake.event ELSE pending # {}}
  <2>1. pass' = [pass EXCEPT !.at = "events", !.found = pending, !.events = events]
    BY <1>35 DEF EpollWait
  <2>2. events \in SUBSET {"wake", "file"} /\ pending \in SUBSET InUse
    BY DEF Rest
  <2> HIDE DEF events
  <2> QED BY <2>1, <2>2 DEF Pass, Passes
<1>36. ASSUME Timeout PROVE pass' \in Pass
  BY <1>36, TimeoutMoves
<1>37. ASSUME EndTimeout PROVE pass' \in Pass
  BY <1>37 DEF EndTimeout
<1>38. ASSUME FileChanges PROVE pass' \in Pass
  BY <1>38 DEF FileChanges
<1> QED BY <1>1, <1>2, <1>3, <1>4, <1>5, <1>6, <1>7, <1>8, <1>9, <1>10, <1>11, <1>12, <1>13,
     <1>14, <1>15, <1>16, <1>17, <1>18, <1>19, <1>20, <1>21, <1>22, <1>23, <1>24, <1>25, <1>26,
     <1>27, <1>28, <1>29, <1>30, <1>31, <1>32, <1>33, <1>34, <1>35, <1>36, <1>37, <1>38
  DEF Next, Call, InCall, Step, Orders, Process, Events, Closings, Expire

\* Every step keeps the type of the history.
LEMMA HistoryTyped ==
    ASSUME IInv, Next
    PROVE  history' \in History
<1> USE DEF IInv, Types
<1>1. ASSUME NEW a \in Actors, Request(a) PROVE history' \in History
  BY <1>1, ConstantsAssumption DEF Request, MayCall, History
<1>2. ASSUME NEW a \in Actors, AddTask(a) PROVE history' \in History
  <2>1. history.tasks - 1 \in 0 .. MaxTasks
    BY <1>2, ConstantsAssumption DEF AddTask, History
  <2> QED BY <1>2, <2>1 DEF AddTask, History
<1>3. ASSUME NEW a \in Actors, Close(a) PROVE history' \in History
  <2> DEFINE raced == history.raced \cup InFlight
  <2>1. history' = [history EXCEPT !.raced = raced]
    BY <1>3 DEF Close
  <2>2. raced \subseteq Requests
    BY DEF InFlight, History, RequesterInv, Rest, OrNobody
  <2> HIDE DEF raced
  <2> QED BY <2>1, <2>2 DEF History
<1>4. ASSUME NEW a \in Actors, Start(a) PROVE history' \in History
  BY <1>4 DEF Start
<1>5. ASSUME NEW a \in Actors, Release(a) PROVE history' \in History
  BY <1>5 DEF Release, MayCall, Signal
<1>6. ASSUME NEW a \in Actors, GetIoInstance(a) PROVE history' \in History
  <2> DEFINE raced == history.raced \cup {req[a]}
  <2>1. history' = history \/ history' = [history EXCEPT !.raced = raced]
    BY <1>6 DEF GetIoInstance, Closing
  <2>2. raced \subseteq Requests
    BY <1>6 DEF GetIoInstance, History, RequesterInv, Rest, OrNobody
  <2> HIDE DEF raced
  <2> QED BY <2>1, <2>2 DEF History
<1>7. ASSUME NEW a \in Actors, TestSlot(a) PROVE history' \in History
  BY <1>7 DEF TestSlot
<1>8. ASSUME NEW a \in Actors, SetRequest(a) PROVE history' \in History
  <2> DEFINE lost == history.lost \cup ({slot[Dir[req[a]]]} \ {Nobody})
  <2>1. history' = [history EXCEPT !.lost = lost]
    BY <1>8 DEF SetRequest
  <2>2. lost \subseteq Requests
    BY <1>8, ConstantsAssumption DEF SetRequest, History, RequesterInv, Rest, OrNobody
  <2> HIDE DEF lost
  <2> QED BY <2>1, <2>2 DEF History
<1>9. ASSUME NEW a \in Actors, Refused(a) PROVE history' \in History
  BY <1>9, RefusedMoves DEF Refused
<1>10. ASSUME NEW a \in Actors, RequestOrder(a) PROVE history' \in History
  BY <1>10 DEF RequestOrder, Order
<1>11. ASSUME NEW a \in Actors, Wake(a) PROVE history' \in History
  BY <1>11 DEF Wake, Signal, History
<1>12. ASSUME NEW a \in Actors, PushClosing(a) PROVE history' \in History
  BY <1>12 DEF PushClosing
<1>13. ASSUME NEW a \in Actors, SetNull(a) PROVE history' \in History
  BY <1>13 DEF SetNull
<1>14. ASSUME NEW a \in Actors, FinishAndWait(a) PROVE history' \in History
  BY <1>14 DEF FinishAndWait, Ended, History
<1>15. ASSUME NEW a \in Actors, CloseHandle(a) PROVE history' \in History
  BY <1>15 DEF CloseHandle
<1>16. ASSUME While PROVE history' \in History
  BY <1>16, NewPassMoves
<1>17. ASSUME RunTask PROVE history' \in History
  BY <1>17 DEF RunTask
<1>18. ASSUME TakeOrders PROVE history' \in History
  BY <1>18 DEF TakeOrders, AfterOrder
<1>19. ASSUME ProcessOrder PROVE history' \in History
  BY <1>19, UseFacts DEF ProcessOrder, Ordered
<1>20. ASSUME Take PROVE history' \in History
  BY <1>20, TakeMoves
<1>21. ASSUME Done PROVE history' \in History
  BY <1>21, ServedMoves DEF Kept
<1>22. ASSUME WouldBlock PROVE history' \in History
  BY <1>22, HoldMoves DEF Kept
<1>23. ASSUME Failed PROVE history' \in History
  BY <1>23, ServedMoves DEF Kept
<1>24. ASSUME NextRequest PROVE history' \in History
  BY <1>24, TakeMoves
<1>25. ASSUME EndCallback PROVE history' \in History
  BY <1>25 DEF EndCallback
<1>26. ASSUME WakeEvent PROVE history' \in History
  BY <1>26 DEF WakeEvent
<1>27. ASSUME FileEvent PROVE history' \in History
  BY <1>27, FoundFacts DEF FileEvent
<1>28. ASSUME EndEvents PROVE history' \in History
  BY <1>28, NewPassMoves
<1>29. ASSUME DetachInstance PROVE history' \in History
  BY <1>29, HeldFacts DEF DetachInstance
<1>30. ASSUME EndStep PROVE history' \in History
  BY <1>30 DEF EndStep
<1>31. ASSUME FreeHeld PROVE history' \in History
  BY <1>31, FreeHeldMoves DEF Kept
<1>32. ASSUME FreedHeld PROVE history' \in History
  BY <1>32 DEF FreedHeld
<1>33. ASSUME CloseFile PROVE history' \in History
  <2>1. history' = [history EXCEPT !.closes = @ + 1]
    BY <1>33 DEF CloseFile
  <2> QED BY <2>1 DEF History
<1>34. ASSUME FreeRequest PROVE history' \in History
  BY <1>34, FreeRequestMoves DEF Kept
<1>35. ASSUME EpollWait PROVE history' \in History
  BY <1>35 DEF EpollWait
<1>36. ASSUME Timeout PROVE history' \in History
  BY <1>36, TimeoutMoves DEF Kept
<1>37. ASSUME EndTimeout PROVE history' \in History
  BY <1>37 DEF EndTimeout
<1>38. ASSUME FileChanges PROVE history' \in History
  BY <1>38 DEF FileChanges
<1> QED BY <1>1, <1>2, <1>3, <1>4, <1>5, <1>6, <1>7, <1>8, <1>9, <1>10, <1>11, <1>12, <1>13,
     <1>14, <1>15, <1>16, <1>17, <1>18, <1>19, <1>20, <1>21, <1>22, <1>23, <1>24, <1>25, <1>26,
     <1>27, <1>28, <1>29, <1>30, <1>31, <1>32, <1>33, <1>34, <1>35, <1>36, <1>37, <1>38
  DEF Next, Call, InCall, Step, Orders, Process, Events, Closings, Expire

\* The stream is in the queue of orders, or taken from it, once while it is ordered.
LEMMA QueueStep ==
    ASSUME IInv, Next
    PROVE  QueueInv'
<1> USE DEF IInv, Types, Rest, QueueInv, Actors
<1>1. ASSUME NEW a \in Actors, Request(a) PROVE QueueInv'
  BY <1>1 DEF Request, MayCall, History
<1>2. ASSUME NEW a \in Actors, AddTask(a) PROVE QueueInv'
  <2>1. history'.tasks = history.tasks - 1 /\ history.tasks \in Nat
    BY <1>2 DEF AddTask, History
  <2> QED BY <1>2, <2>1 DEF AddTask, Pass
<1>3. ASSUME NEW a \in Actors, Close(a) PROVE QueueInv'
  BY <1>3 DEF Close, MayCall, InFlight, History
<1>4. ASSUME NEW a \in Actors, Start(a) PROVE QueueInv'
  BY <1>4 DEF Start, Pass, ReleaseInv
<1>5. ASSUME NEW a \in Actors, Release(a) PROVE QueueInv'
  BY <1>5 DEF Release, MayCall, Signal
<1>6. ASSUME NEW a \in Actors, GetIoInstance(a) PROVE QueueInv'
  BY <1>6 DEF GetIoInstance, Closing, History
<1>7. ASSUME NEW a \in Actors, TestSlot(a) PROVE QueueInv'
  BY <1>7 DEF TestSlot
<1>8. ASSUME NEW a \in Actors, SetRequest(a) PROVE QueueInv'
  BY <1>8 DEF SetRequest, History
<1>9. ASSUME NEW a \in Actors, Refused(a) PROVE QueueInv'
  BY <1>9, RefusedMoves DEF Refused, Pass, PassInv
<1>10. ASSUME NEW a \in Actors, RequestOrder(a) PROVE QueueInv'
  BY <1>10 DEF RequestOrder, Order, Pass
<1>11. ASSUME NEW a \in Actors, Wake(a) PROVE QueueInv'
  BY <1>11 DEF Wake, Signal, History
<1>12. ASSUME NEW a \in Actors, PushClosing(a) PROVE QueueInv'
  BY <1>12 DEF PushClosing
<1>13. ASSUME NEW a \in Actors, SetNull(a) PROVE QueueInv'
  BY <1>13 DEF SetNull
<1>14. ASSUME NEW a \in Actors, FinishAndWait(a) PROVE QueueInv'
  BY <1>14 DEF FinishAndWait, Ended, History
<1>15. ASSUME NEW a \in Actors, CloseHandle(a) PROVE QueueInv'
  BY <1>15 DEF CloseHandle, Pass
<1>16. ASSUME While PROVE QueueInv'
  BY <1>16, NewPassMoves, Counts, SMTT(60)
<1>17. ASSUME RunTask PROVE QueueInv'
  <2>1. /\ pass'.at = "callback" /\ pass'.orders = pass.orders /\ pass'.tasks = pass.tasks - 1
        /\ UNCHANGED <<queueTasks, queueOrder, instance, loop, history>> /\ pass.orders = 0
    BY <1>17 DEF RunTask, Pass
  <2> QED BY <2>1, Counts
<1>18. ASSUME TakeOrders PROVE QueueInv'
  BY <1>18 DEF TakeOrders, AfterOrder, Pass
<1>19. ASSUME ProcessOrder PROVE QueueInv'
  BY <1>19, UseFacts DEF ProcessOrder, Ordered, Pass
<1>20. ASSUME Take PROVE QueueInv'
  BY <1>20, TakeMoves DEF AfterDirection
<1>21. ASSUME Done PROVE QueueInv'
  BY <1>21, ServedMoves, ZenonT(60) DEF Kept
<1>22. ASSUME WouldBlock PROVE QueueInv'
  BY <1>22, HoldMoves, ZenonT(60) DEF Kept, AfterDirection
<1>23. ASSUME Failed PROVE QueueInv'
  BY <1>23, ServedMoves, ZenonT(60) DEF Kept
<1>24. ASSUME NextRequest PROVE QueueInv'
  BY <1>24, TakeMoves DEF AfterDirection
<1>25. ASSUME EndCallback PROVE QueueInv'
  <2>1. /\ pass'.at = pass.back /\ pass'.orders = pass.orders /\ pass'.tasks = pass.tasks
        /\ pass.at = "callback"
        /\ UNCHANGED <<queueTasks, queueOrder, instance, loop, history>>
    BY <1>25 DEF EndCallback, Pass
  <2>2. pass.back # "orders"
    BY <2>1 DEF PassInv
  <2> QED BY <2>1, <2>2
<1>26. ASSUME WakeEvent PROVE QueueInv'
  BY <1>26 DEF WakeEvent, Pass
<1>27. ASSUME FileEvent PROVE QueueInv'
  BY <1>27, FoundFacts DEF FileEvent, Pass
<1>28. ASSUME EndEvents PROVE QueueInv'
  <2>1. /\ pass'.at \in {"stepEnd", "while"} /\ pass'.tasks = 0 /\ pass'.orders = 0
        /\ pass.orders = 0
        /\ UNCHANGED <<queueTasks, queueOrder, instance, loop, history>>
    BY <1>28, NewPassMoves DEF EndEvents
  <2> QED BY <2>1, Counts
<1>29. ASSUME DetachInstance PROVE QueueInv'
  BY <1>29, HeldFacts DEF DetachInstance, Pass
<1>30. ASSUME EndStep PROVE QueueInv'
  BY <1>30 DEF EndStep, Pass
<1>31. ASSUME FreeHeld PROVE QueueInv'
  BY <1>31, FreeHeldMoves DEF Kept
<1>32. ASSUME FreedHeld PROVE QueueInv'
  BY <1>32 DEF FreedHeld, Pass
<1>33. ASSUME CloseFile PROVE QueueInv'
  BY <1>33, UseFacts DEF CloseFile, Pass, History
<1>34. ASSUME FreeRequest PROVE QueueInv'
  BY <1>34, FreeRequestMoves DEF Kept
<1>35. ASSUME EpollWait PROVE QueueInv'
  BY <1>35 DEF EpollWait, Pass
<1>36. ASSUME Timeout PROVE QueueInv'
  BY <1>36, TimeoutMoves DEF Kept
<1>37. ASSUME EndTimeout PROVE QueueInv'
  BY <1>37 DEF EndTimeout
<1>38. ASSUME FileChanges PROVE QueueInv'
  BY <1>38 DEF FileChanges
<1> QED BY <1>1, <1>2, <1>3, <1>4, <1>5, <1>6, <1>7, <1>8, <1>9, <1>10, <1>11, <1>12, <1>13,
     <1>14, <1>15, <1>16, <1>17, <1>18, <1>19, <1>20, <1>21, <1>22, <1>23, <1>24, <1>25, <1>26,
     <1>27, <1>28, <1>29, <1>30, <1>31, <1>32, <1>33, <1>34, <1>35, <1>36, <1>37, <1>38
  DEF Next, Call, InCall, Step, Orders, Process, Events, Closings, Expire

\* Every step keeps the other types.
LEMMA RestTyped ==
    ASSUME IInv, Next
    PROVE  Rest'
<1> USE DEF IInv, Types, Rest, Actors
<1>1. ASSUME NEW a \in Actors, Request(a) PROVE Rest'
  BY <1>1, ConstantsAssumption DEF Request, MayCall, Steps, OrNobody, History
<1>2. ASSUME NEW a \in Actors, AddTask(a) PROVE Rest'
  BY <1>2 DEF AddTask, MayCall, Steps
<1>3. ASSUME NEW a \in Actors, Close(a) PROVE Rest'
  BY <1>3 DEF Close, MayCall, InFlight, Steps
<1>4. ASSUME NEW a \in Actors, Start(a) PROVE Rest'
  BY <1>4 DEF Start
<1>5. ASSUME NEW a \in Actors, Release(a) PROVE Rest'
  <2>1. pc' \in [Actors -> Steps]
    BY <1>5 DEF Release, Steps
  <2>2. wake' \in [set : BOOLEAN, event : BOOLEAN]
    <3>1. wake' = wake \/ wake' = [set |-> TRUE, event |-> TRUE]
      BY <1>5 DEF Release, Signal
    <3>2. CASE wake' = wake
      BY <3>2
    <3>3. CASE wake' = [set |-> TRUE, event |-> TRUE]
      BY <3>3
    <3> QED BY <3>1, <3>2, <3>3
  <2>3. loop' \in [init : BOOLEAN, running : BOOLEAN, stopping : BOOLEAN, freed : BOOLEAN]
    BY <1>5 DEF Release
  <2> QED BY <1>5, <2>1, <2>2, <2>3 DEF Release
<1>6. ASSUME NEW a \in Actors, GetIoInstance(a) PROVE Rest'
  BY <1>6 DEF GetIoInstance, Closing, Steps
<1>7. ASSUME NEW a \in Actors, TestSlot(a) PROVE Rest'
  BY <1>7 DEF TestSlot, Steps
<1>8. ASSUME NEW a \in Actors, SetRequest(a) PROVE Rest'
  <2>1. pc' \in [Actors -> Steps]
    BY <1>8 DEF SetRequest, Steps
  <2>2. slot' \in [Dirs -> OrNobody]
    BY <1>8 DEF SetRequest, OrNobody
  <2> QED BY <1>8, <2>1, <2>2 DEF SetRequest
<1>9. ASSUME NEW a \in Actors, Refused(a) PROVE Rest'
  BY <1>9, ConstantsAssumption DEF Refused, Steps, OrNobody
<1>10. ASSUME NEW a \in Actors, RequestOrder(a) PROVE Rest'
  <2>1. pc' \in [Actors -> Steps] /\ req' \in [Actors -> OrNobody]
    BY <1>10 DEF RequestOrder, Steps, OrNobody
  <2>2. queueOrder' \in Nat
    BY <1>10 DEF RequestOrder
  <2>3. instance' \in [closing : BOOLEAN, ordering : BOOLEAN, freed : BOOLEAN]
    BY <1>10 DEF RequestOrder
  <2> QED BY <1>10, <2>1, <2>2, <2>3 DEF RequestOrder
<1>11. ASSUME NEW a \in Actors, Wake(a) PROVE Rest'
  <2>1. pc' \in [Actors -> Steps]
    BY <1>11 DEF Wake, Steps
  <2>2. wake' \in [set : BOOLEAN, event : BOOLEAN]
    <3>1. wake' = wake \/ wake' = [set |-> TRUE, event |-> TRUE]
      BY <1>11 DEF Wake, Signal
    <3>2. CASE wake' = wake
      BY <3>2
    <3>3. CASE wake' = [set |-> TRUE, event |-> TRUE]
      BY <3>3
    <3> QED BY <3>1, <3>2, <3>3
  <2> QED BY <1>11, <2>1, <2>2 DEF Wake
<1>12. ASSUME NEW a \in Actors, PushClosing(a) PROVE Rest'
  BY <1>12 DEF PushClosing, Steps
<1>13. ASSUME NEW a \in Actors, SetNull(a) PROVE Rest'
  BY <1>13, ConstantsAssumption DEF SetNull, Steps
<1>14. ASSUME NEW a \in Actors, FinishAndWait(a) PROVE Rest'
  BY <1>14 DEF FinishAndWait, Ended, Steps
<1>15. ASSUME NEW a \in Actors, CloseHandle(a) PROVE Rest'
  BY <1>15 DEF CloseHandle, Steps
<1>16. ASSUME While PROVE Rest'
  BY <1>16, NewPassMoves
<1>17. ASSUME RunTask PROVE Rest'
  BY <1>17 DEF RunTask
<1>18. ASSUME TakeOrders PROVE Rest'
  BY <1>18 DEF TakeOrders, AfterOrder
<1>19. ASSUME ProcessOrder PROVE Rest'
  BY <1>19, UseFacts DEF ProcessOrder, Ordered
<1>20. ASSUME Process PROVE Rest'
  <2>1. UNCHANGED <<loop, queues, stream, wake, clock, finished, pending>>
    BY <1>20, ServeMoves
  <2> QED BY <1>20, <2>1, ServeTyped
<1>21. ASSUME EndCallback PROVE Rest'
  BY <1>21 DEF EndCallback
<1>22. ASSUME WakeEvent PROVE Rest'
  BY <1>22 DEF WakeEvent
<1>23. ASSUME FileEvent PROVE Rest'
  BY <1>23, FoundFacts DEF FileEvent
<1>24. ASSUME EndEvents PROVE Rest'
  BY <1>24, NewPassMoves
<1>25. ASSUME DetachInstance PROVE Rest'
  BY <1>25, HeldFacts DEF DetachInstance
<1>26. ASSUME EndStep PROVE Rest'
  BY <1>26 DEF EndStep
<1>27. ASSUME FreeHeld PROVE Rest'
  BY <1>27, FreeHeldMoves
<1>28. ASSUME FreedHeld PROVE Rest'
  BY <1>28, DirectionFacts DEF FreedHeld, PassInv, In, OrNobody
<1>29. ASSUME CloseFile PROVE Rest'
  BY <1>29, UseFacts DEF CloseFile
<1>30. ASSUME FreeRequest PROVE Rest'
  BY <1>30, FreeRequestMoves, DirectionFacts, ZenonT(60) DEF OrNobody
<1>31. ASSUME EpollWait PROVE Rest'
  BY <1>31, ZenonT(60) DEF EpollWait, Pass
<1>32. ASSUME Timeout PROVE Rest'
  <2>1. PICK r \in Timed \ expired : r \in Requests /\ expired' = expired \cup {r} /\ timer' = r
    BY <1>32, TimeoutMoves
  <2>2. timer' \in OrNobody /\ expired' \subseteq Timed
    BY <2>1 DEF OrNobody
  <2>3. UNCHANGED <<loop, queues, stream, requests, file, wake, pc, req, finished>>
    BY <1>32 DEF Timeout
  <2> QED BY <2>2, <2>3
<1>33. ASSUME EndTimeout PROVE Rest'
  BY <1>33 DEF EndTimeout, OrNobody
<1>34. ASSUME FileChanges PROVE Rest'
  BY <1>34 DEF FileChanges
<1> QED BY <1>1, <1>2, <1>3, <1>4, <1>5, <1>6, <1>7, <1>8, <1>9, <1>10, <1>11, <1>12, <1>13,
     <1>14, <1>15, <1>16, <1>17, <1>18, <1>19, <1>20, <1>21, <1>22, <1>23, <1>24, <1>25, <1>26,
     <1>27, <1>28, <1>29, <1>30, <1>31, <1>32, <1>33, <1>34
  DEF Next, Call, InCall, Step, Orders, Events, Closings, Expire

\* The loop is released once: another thread that releases it finds m_flagInit false.
LEMMA ReleaseStep ==
    ASSUME IInv, Next
    PROVE  ReleaseInv'
<1> USE DEF IInv, Types, Rest, ReleaseInv, Releasing, Actors
<1>1. ASSUME NEW a \in Actors, Request(a) PROVE ReleaseInv'
  BY <1>1 DEF Request, MayCall, History, Steps
<1>2. ASSUME NEW a \in Actors, AddTask(a) PROVE ReleaseInv'
  BY <1>2 DEF AddTask, MayCall, History
<1>3. ASSUME NEW a \in Actors, Close(a) PROVE ReleaseInv'
  BY <1>3 DEF Close, MayCall, InFlight, History
<1>4. ASSUME NEW a \in Actors, Start(a) PROVE ReleaseInv'
  BY <1>4 DEF Start, Pass
<1>5. ASSUME NEW a \in Actors, Release(a) PROVE ReleaseInv'
  BY <1>5 DEF Release, MayCall, Signal
<1>6. ASSUME NEW a \in Actors, GetIoInstance(a) PROVE ReleaseInv'
  BY <1>6 DEF GetIoInstance, Closing, History
<1>7. ASSUME NEW a \in Actors, TestSlot(a) PROVE ReleaseInv'
  BY <1>7 DEF TestSlot
<1>8. ASSUME NEW a \in Actors, SetRequest(a) PROVE ReleaseInv'
  BY <1>8 DEF SetRequest, History
<1>9. ASSUME NEW a \in Actors, Refused(a) PROVE ReleaseInv'
  <2>1. /\ pass'.at \in {pass.at, "callback"} /\ (pass'.at # pass.at => pass.part)
        /\ UNCHANGED loop /\ history'.ownRelease = history.ownRelease
    BY <1>9, RefusedMoves DEF Refused, Pass
  <2>2. \A b \in Actors : pc'[b] \in {pc[b], "outside"}
    BY <1>9 DEF Refused
  <2>3. pass.part => pass.at \in {"next", "callback"}
    BY DEF PassInv
  <2> QED BY <2>1, <2>2, <2>3
<1>10. ASSUME NEW a \in Actors, RequestOrder(a) PROVE ReleaseInv'
  BY <1>10 DEF RequestOrder, Order
<1>11. ASSUME NEW a \in Actors, Wake(a) PROVE ReleaseInv'
  BY <1>11 DEF Wake, Signal, History
<1>12. ASSUME NEW a \in Actors, PushClosing(a) PROVE ReleaseInv'
  BY <1>12 DEF PushClosing
<1>13. ASSUME NEW a \in Actors, SetNull(a) PROVE ReleaseInv'
  BY <1>13 DEF SetNull
<1>14. ASSUME NEW a \in Actors, FinishAndWait(a) PROVE ReleaseInv'
  BY <1>14 DEF FinishAndWait, Ended, History
<1>15. ASSUME NEW a \in Actors, CloseHandle(a) PROVE ReleaseInv'
  BY <1>15 DEF CloseHandle
<1>16. ASSUME While PROVE ReleaseInv'
  BY <1>16, NewPassMoves
<1>17. ASSUME RunTask PROVE ReleaseInv'
  BY <1>17 DEF RunTask, Pass
<1>18. ASSUME TakeOrders PROVE ReleaseInv'
  BY <1>18 DEF TakeOrders, AfterOrder, Pass
<1>19. ASSUME ProcessOrder PROVE ReleaseInv'
  BY <1>19, UseFacts DEF ProcessOrder, Ordered, Pass
<1>20. ASSUME Process PROVE ReleaseInv'
  <2>1. /\ pass.at \in {"take", "io", "next"} /\ UNCHANGED loop
        /\ history'.ownRelease = history.ownRelease
        /\ pass'.at \in {"take", "io", "next", "callback", "epoll_wait", "orders", "events"}
    BY <1>20, ServeMoves DEF Kept
  <2>2. \A b \in Actors :
           /\ pc'[b] = "finishAndWait" <=> pc[b] = "finishAndWait"
           /\ pc'[b] = "closeHandle" <=> pc[b] = "closeHandle"
    <3>1. LoopOnly
      BY <1>20, ServeMoves
    <3> QED BY <3>1 DEF LoopOnly
  <2> QED BY <2>1, <2>2
<1>21. ASSUME EndCallback PROVE ReleaseInv'
  BY <1>21 DEF EndCallback, Pass, PassInv
<1>22. ASSUME WakeEvent PROVE ReleaseInv'
  BY <1>22 DEF WakeEvent, Pass
<1>23. ASSUME FileEvent PROVE ReleaseInv'
  BY <1>23, FoundFacts DEF FileEvent, Pass
<1>24. ASSUME EndEvents PROVE ReleaseInv'
  BY <1>24, NewPassMoves
<1>25. ASSUME DetachInstance PROVE ReleaseInv'
  BY <1>25, HeldFacts DEF DetachInstance, Pass
<1>26. ASSUME EndStep PROVE ReleaseInv'
  BY <1>26 DEF EndStep, Pass
<1>27. ASSUME FreeHeld PROVE ReleaseInv'
  BY <1>27, FreeHeldMoves DEF Kept
<1>28. ASSUME FreedHeld PROVE ReleaseInv'
  BY <1>28 DEF FreedHeld, Pass
<1>29. ASSUME CloseFile PROVE ReleaseInv'
  BY <1>29, UseFacts DEF CloseFile, Pass, History
<1>30. ASSUME FreeRequest PROVE ReleaseInv'
  BY <1>30, FreeRequestMoves, SMTT(60) DEF Kept
<1>31. ASSUME EpollWait PROVE ReleaseInv'
  BY <1>31 DEF EpollWait, Pass
<1>32. ASSUME Timeout PROVE ReleaseInv'
  BY <1>32, TimeoutMoves DEF Kept
<1>33. ASSUME EndTimeout PROVE ReleaseInv'
  BY <1>33 DEF EndTimeout
<1>34. ASSUME FileChanges PROVE ReleaseInv'
  BY <1>34 DEF FileChanges
<1> QED BY <1>1, <1>2, <1>3, <1>4, <1>5, <1>6, <1>7, <1>8, <1>9, <1>10, <1>11, <1>12, <1>13,
     <1>14, <1>15, <1>16, <1>17, <1>18, <1>19, <1>20, <1>21, <1>22, <1>23, <1>24, <1>25, <1>26,
     <1>27, <1>28, <1>29, <1>30, <1>31, <1>32, <1>33, <1>34
  DEF Next, Call, InCall, Step, Orders, Events, Closings, Expire

\* The closing of the stream is in one place: close() has the stream's lock until
\* m_ioInstance is null.
LEMMA ClosingStep ==
    ASSUME IInv, Next
    PROVE  ClosingInv'
<1> USE DEF IInv, Types, Rest, ClosingInv, Detached, Emptying, In, Actors
<1>1. ASSUME NEW a \in Actors, Request(a) PROVE ClosingInv'
  BY <1>1 DEF Request, MayCall, History
<1>2. ASSUME NEW a \in Actors, AddTask(a) PROVE ClosingInv'
  BY <1>2 DEF AddTask, MayCall, History
<1>3. ASSUME NEW a \in Actors, Close(a) PROVE ClosingInv'
  BY <1>3, ConstantsAssumption DEF Close, MayCall, InFlight, History
<1>4. ASSUME NEW a \in Actors, Start(a) PROVE ClosingInv'
  BY <1>4 DEF Start, Pass, ReleaseInv
<1>5. ASSUME NEW a \in Actors, Release(a) PROVE ClosingInv'
  BY <1>5 DEF Release, MayCall, Signal, ReleaseInv
<1>6. ASSUME NEW a \in Actors, GetIoInstance(a) PROVE ClosingInv'
  BY <1>6 DEF GetIoInstance, Closing, History
<1>7. ASSUME NEW a \in Actors, TestSlot(a) PROVE ClosingInv'
  BY <1>7 DEF TestSlot
<1>8. ASSUME NEW a \in Actors, SetRequest(a) PROVE ClosingInv'
  BY <1>8 DEF SetRequest, History
<1>9. ASSUME NEW a \in Actors, Refused(a) PROVE ClosingInv'
  <2>1. history'.closes = history.closes /\ UNCHANGED <<loop, queues, stream>>
    BY <1>9, RefusedMoves DEF Refused
  <2>2. /\ pc[a] = "refused" /\ pc'[a] = "outside" /\ \A b \in Actors : b # a => pc'[b] = pc[b]
    BY <1>9 DEF Refused
  <2>3. \/ pass' = pass
        \/ /\ pass'.at = "callback" /\ pass'.back = "next" /\ pass.at \in {"next", "callback"}
           /\ pass.back = "next"
    BY <1>9 DEF Refused, PassInv, Pass
  <2> QED BY <2>1, <2>2, <2>3
<1>10. ASSUME NEW a \in Actors, RequestOrder(a) PROVE ClosingInv'
  BY <1>10 DEF RequestOrder, Order
<1>11. ASSUME NEW a \in Actors, Wake(a) PROVE ClosingInv'
  BY <1>11, ConstantsAssumption DEF Wake, Signal, History
<1>12. ASSUME NEW a \in Actors, PushClosing(a) PROVE ClosingInv'
  BY <1>12, ConstantsAssumption DEF PushClosing
<1>13. ASSUME NEW a \in Actors, SetNull(a) PROVE ClosingInv'
  BY <1>13, ConstantsAssumption DEF SetNull
<1>14. ASSUME NEW a \in Actors, FinishAndWait(a) PROVE ClosingInv'
  BY <1>14 DEF FinishAndWait, Ended, History
<1>15. ASSUME NEW a \in Actors, CloseHandle(a) PROVE ClosingInv'
  BY <1>15, ConstantsAssumption DEF CloseHandle, ReleaseInv, Releasing
<1>16. ASSUME While PROVE ClosingInv'
  BY <1>16, NewPassMoves
<1>17. ASSUME RunTask PROVE ClosingInv'
  BY <1>17 DEF RunTask, Pass
<1>18. ASSUME TakeOrders PROVE ClosingInv'
  BY <1>18 DEF TakeOrders, AfterOrder, Pass
<1>19. ASSUME ProcessOrder PROVE ClosingInv'
  BY <1>19, UseFacts, UseFacts DEF ProcessOrder, Ordered, Pass
<1>20. ASSUME Process PROVE ClosingInv'
  <2>1. /\ pass.at \in {"take", "io", "next"} /\ history'.closes = history.closes
        /\ UNCHANGED <<loop, queueClosing, stream>> /\ (pass'.at = "callback" => pass'.back = "next")
        /\ pass'.at \in {"take", "io", "next", "callback", "epoll_wait", "orders", "events"}
    BY <1>20, ServeMoves DEF Kept
  <2>2. \A a \in Actors :
           /\ pc'[a] = "pushClosing" <=> pc[a] = "pushClosing"
           /\ pc'[a] = "setNull" <=> pc[a] = "setNull"
           /\ pc'[a] = "wake" <=> pc[a] = "wake"
    <3>1. LoopOnly
      BY <1>20, ServeMoves
    <3> QED BY <3>1 DEF LoopOnly
  <2> QED BY <2>1, <2>2
<1>21. ASSUME EndCallback PROVE ClosingInv'
  BY <1>21 DEF EndCallback, Pass, PassInv
<1>22. ASSUME WakeEvent PROVE ClosingInv'
  BY <1>22 DEF WakeEvent, Pass
<1>23. ASSUME FileEvent PROVE ClosingInv'
  BY <1>23, FoundFacts DEF FileEvent, Pass
<1>24. ASSUME EndEvents PROVE ClosingInv'
  BY <1>24, NewPassMoves
<1>25. ASSUME DetachInstance PROVE ClosingInv'
  BY <1>25, HeldFacts DEF DetachInstance, Pass
<1>26. ASSUME EndStep PROVE ClosingInv'
  BY <1>26 DEF EndStep, Pass
<1>27. ASSUME FreeHeld PROVE ClosingInv'
  BY <1>27, FreeHeldMoves DEF Kept
<1>28. ASSUME FreedHeld PROVE ClosingInv'
  BY <1>28 DEF FreedHeld, Pass
<1>29. ASSUME CloseFile PROVE ClosingInv'
  BY <1>29, UseFacts DEF CloseFile, Pass, History
<1>30. ASSUME FreeRequest PROVE ClosingInv'
  <2>1. /\ pass.at = "_freeRequests" /\ history'.closes = history.closes
        /\ UNCHANGED <<loop, queueClosing, stream, pc>>
        /\ pass'.at \in {"stepEnd", "_freeRequests", "callback"}
        /\ pass'.at = "callback" => pass'.back \in {"stepEnd", "_freeRequests"}
    BY <1>30, FreeRequestMoves DEF Kept
  <2> QED BY <2>1
<1>31. ASSUME EpollWait PROVE ClosingInv'
  BY <1>31 DEF EpollWait, Pass
<1>32. ASSUME Timeout PROVE ClosingInv'
  BY <1>32, TimeoutMoves DEF Kept
<1>33. ASSUME EndTimeout PROVE ClosingInv'
  BY <1>33 DEF EndTimeout
<1>34. ASSUME FileChanges PROVE ClosingInv'
  BY <1>34 DEF FileChanges
<1> QED BY <1>1, <1>2, <1>3, <1>4, <1>5, <1>6, <1>7, <1>8, <1>9, <1>10, <1>11, <1>12, <1>13,
     <1>14, <1>15, <1>16, <1>17, <1>18, <1>19, <1>20, <1>21, <1>22, <1>23, <1>24, <1>25, <1>26,
     <1>27, <1>28, <1>29, <1>30, <1>31, <1>32, <1>33, <1>34
  DEF Next, Call, InCall, Step, Orders, Events, Closings, Expire

\* A thread has a request exactly while it makes it.
LEMMA RequesterStep ==
    ASSUME IInv, Next
    PROVE  RequesterInv'
<1> USE DEF IInv, Types, Rest, RequesterInv, Actors
<1>1. ASSUME NEW a \in Actors, Request(a) PROVE RequesterInv'
  BY <1>1, ConstantsAssumption DEF Request, MayCall, History
<1>2. ASSUME NEW a \in Actors, AddTask(a) PROVE RequesterInv'
  BY <1>2 DEF AddTask, MayCall
<1>3. ASSUME NEW a \in Actors, Close(a) PROVE RequesterInv'
  BY <1>3 DEF Close, MayCall, InFlight
<1>4. ASSUME NEW a \in Actors, Start(a) PROVE RequesterInv'
  BY <1>4 DEF Start
<1>5. ASSUME NEW a \in Actors, Release(a) PROVE RequesterInv'
  BY <1>5 DEF Release, MayCall, Signal
<1>6. ASSUME NEW a \in Actors, GetIoInstance(a) PROVE RequesterInv'
  BY <1>6 DEF GetIoInstance, Closing
<1>7. ASSUME NEW a \in Actors, TestSlot(a) PROVE RequesterInv'
  BY <1>7 DEF TestSlot
<1>8. ASSUME NEW a \in Actors, SetRequest(a) PROVE RequesterInv'
  BY <1>8 DEF SetRequest
<1>9. ASSUME NEW a \in Actors, Refused(a) PROVE RequesterInv'
  BY <1>9 DEF Refused
<1>10. ASSUME NEW a \in Actors, RequestOrder(a) PROVE RequesterInv'
  BY <1>10 DEF RequestOrder, Order
<1>11. ASSUME NEW a \in Actors, Wake(a) PROVE RequesterInv'
  BY <1>11 DEF Wake, Signal
<1>12. ASSUME NEW a \in Actors, PushClosing(a) PROVE RequesterInv'
  BY <1>12 DEF PushClosing
<1>13. ASSUME NEW a \in Actors, SetNull(a) PROVE RequesterInv'
  BY <1>13 DEF SetNull
<1>14. ASSUME NEW a \in Actors, FinishAndWait(a) PROVE RequesterInv'
  BY <1>14 DEF FinishAndWait, Ended
<1>15. ASSUME NEW a \in Actors, CloseHandle(a) PROVE RequesterInv'
  BY <1>15 DEF CloseHandle
<1>16. ASSUME While PROVE RequesterInv'
  BY <1>16, NewPassMoves
<1>17. ASSUME RunTask PROVE RequesterInv'
  BY <1>17 DEF RunTask
<1>18. ASSUME TakeOrders PROVE RequesterInv'
  BY <1>18 DEF TakeOrders, AfterOrder
<1>19. ASSUME ProcessOrder PROVE RequesterInv'
  BY <1>19, UseFacts DEF ProcessOrder, Ordered
<1>20. ASSUME Take PROVE RequesterInv'
  BY <1>20, TakeMoves, ZenonT(60) DEF LoopOnly
<1>21. ASSUME Done \/ Failed PROVE RequesterInv'
  <2>1. LoopOnly
    BY <1>21, ServedMoves
  <2> QED BY <2>1, ConstantsAssumption DEF LoopOnly
<1>22. ASSUME WouldBlock PROVE RequesterInv'
  BY <1>22, HoldMoves DEF Hold, LoopOnly
<1>23. ASSUME NextRequest PROVE RequesterInv'
  BY <1>23, TakeMoves, ZenonT(60) DEF LoopOnly
<1>24. ASSUME EndCallback PROVE RequesterInv'
  BY <1>24 DEF EndCallback
<1>25. ASSUME WakeEvent PROVE RequesterInv'
  BY <1>25 DEF WakeEvent
<1>26. ASSUME FileEvent PROVE RequesterInv'
  BY <1>26, FoundFacts DEF FileEvent
<1>27. ASSUME EndEvents PROVE RequesterInv'
  BY <1>27, NewPassMoves
<1>28. ASSUME DetachInstance PROVE RequesterInv'
  BY <1>28, HeldFacts DEF DetachInstance
<1>29. ASSUME EndStep PROVE RequesterInv'
  BY <1>29 DEF EndStep
<1>30. ASSUME FreeHeld PROVE RequesterInv'
  BY <1>30, FreeHeldMoves
<1>31. ASSUME FreedHeld PROVE RequesterInv'
  BY <1>31 DEF FreedHeld
<1>32. ASSUME CloseFile PROVE RequesterInv'
  BY <1>32, UseFacts DEF CloseFile
<1>33. ASSUME FreeRequest PROVE RequesterInv'
  BY <1>33, FreeRequestMoves
<1>34. ASSUME EpollWait PROVE RequesterInv'
  BY <1>34 DEF EpollWait
<1>35. ASSUME Timeout PROVE RequesterInv'
  BY <1>35, TimeoutMoves
<1>36. ASSUME EndTimeout PROVE RequesterInv'
  BY <1>36 DEF EndTimeout
<1>37. ASSUME FileChanges PROVE RequesterInv'
  BY <1>37 DEF FileChanges
<1> QED BY <1>1, <1>2, <1>3, <1>4, <1>5, <1>6, <1>7, <1>8, <1>9, <1>10, <1>11, <1>12, <1>13,
     <1>14, <1>15, <1>16, <1>17, <1>18, <1>19, <1>20, <1>21, <1>22, <1>23, <1>24, <1>25, <1>26,
     <1>27, <1>28, <1>29, <1>30, <1>31, <1>32, <1>33, <1>34, <1>35, <1>36, <1>37
  DEF Next, Call, InCall, Step, Orders, Process, Events, Closings, Expire

\* Nothing is held in a direction whose request the loop's thread has.
LEMMA SlotsStep ==
    ASSUME IInv, Next
    PROVE  SlotsInv'
<1> USE DEF IInv, Types, Rest, SlotsInv, Detached, In
<1>1. ASSUME NEW a \in Actors, Request(a) PROVE SlotsInv'
  BY <1>1 DEF Request, MayCall, Direction
<1>2. ASSUME NEW a \in Actors, AddTask(a) PROVE SlotsInv'
  BY <1>2 DEF AddTask, MayCall, Direction
<1>3. ASSUME NEW a \in Actors, Close(a) PROVE SlotsInv'
  BY <1>3 DEF Close, MayCall, InFlight, Direction
<1>4. ASSUME NEW a \in Actors, Start(a) PROVE SlotsInv'
  BY <1>4 DEF Start, Pass, ReleaseInv, Direction
<1>5. ASSUME NEW a \in Actors, Release(a) PROVE SlotsInv'
  BY <1>5 DEF Release, MayCall, Signal, Direction
<1>6. ASSUME NEW a \in Actors, GetIoInstance(a) PROVE SlotsInv'
  BY <1>6 DEF GetIoInstance, Closing, Direction
<1>7. ASSUME NEW a \in Actors, TestSlot(a) PROVE SlotsInv'
  BY <1>7 DEF TestSlot, Direction
<1>8. ASSUME NEW a \in Actors, SetRequest(a) PROVE SlotsInv'
  BY <1>8, ConstantsAssumption, DirectionFacts DEF SetRequest, OrNobody, RequesterInv, Direction
<1>9. ASSUME NEW a \in Actors, Refused(a) PROVE SlotsInv'
  BY <1>9 DEF Refused, Pass, PassInv, Direction
<1>10. ASSUME NEW a \in Actors, RequestOrder(a) PROVE SlotsInv'
  BY <1>10 DEF RequestOrder, Order, Direction
<1>11. ASSUME NEW a \in Actors, Wake(a) PROVE SlotsInv'
  BY <1>11 DEF Wake, Signal, Direction
<1>12. ASSUME NEW a \in Actors, PushClosing(a) PROVE SlotsInv'
  BY <1>12 DEF PushClosing, Direction
<1>13. ASSUME NEW a \in Actors, SetNull(a) PROVE SlotsInv'
  BY <1>13 DEF SetNull, Direction
<1>14. ASSUME NEW a \in Actors, FinishAndWait(a) PROVE SlotsInv'
  BY <1>14 DEF FinishAndWait, Ended, Direction
<1>15. ASSUME NEW a \in Actors, CloseHandle(a) PROVE SlotsInv'
  BY <1>15 DEF CloseHandle, Direction
<1>16. ASSUME While PROVE SlotsInv'
  BY <1>16, NewPassMoves
<1>17. ASSUME RunTask PROVE SlotsInv'
  BY <1>17 DEF RunTask, Pass
<1>18. ASSUME TakeOrders PROVE SlotsInv'
  BY <1>18 DEF TakeOrders, AfterOrder, Pass
<1>19. ASSUME ProcessOrder PROVE SlotsInv'
  BY <1>19, UseFacts DEF ProcessOrder, Ordered, Pass
<1>20. ASSUME Take \/ NextRequest PROVE SlotsInv'
  <2>1. /\ pass.dirs # <<>> /\ pass.at \in {"take", "next"} /\ instance' = instance
        /\ \/ /\ pass'.at = "io" /\ Direction' = Direction
              /\ \/ /\ pass.at = "take" /\ held[Direction] # Nobody /\ pass'.req = held[Direction]
                    /\ held' = [held EXCEPT ![Direction] = Nobody] /\ slot' = slot
                 \/ /\ pass.at = "take" => held[Direction] = Nobody
                    /\ slot[Direction] # Nobody /\ pass'.req = slot[Direction]
                    /\ slot' = [slot EXCEPT ![Direction] = Nobody] /\ held' = held
           \/ /\ pass'.at \in {"take", "epoll_wait", "orders", "events"}
              /\ slot' = slot /\ held' = held
    BY <1>20, TakeMoves DEF AfterDirection
  <2>2. Direction \in Dirs /\ (pass.at = "next" => held[Direction] = Nobody)
    BY <2>1, DirectionFacts DEF SlotsInv, In
  <2> SUFFICES ASSUME NEW d \in Dirs
               PROVE  /\ slot'[d] # Nobody => Dir[slot'[d]] = d
                      /\ held'[d] # Nobody => Dir[held'[d]] = d
                      /\ pass'.at = "io" /\ d = Direction' => held'[d] = Nobody
                      /\ pass'.at = "io" => Dir[pass'.req] = Direction'
    BY <2>1 DEF Detached, In
  <2> QED BY <2>1, <2>2
<1>21. ASSUME Done \/ Failed PROVE SlotsInv'
  <2>1. /\ pass.dirs # <<>> /\ pass.at = "io" /\ instance' = instance /\ slot' = slot
        /\ held' = held
        /\ Direction' = Direction /\ pass'.at \in {"next", "callback"} /\ pass'.back = "next"
    BY <1>21, ServedMoves
  <2> SUFFICES ASSUME NEW d \in Dirs
               PROVE  /\ slot'[d] # Nobody => Dir[slot'[d]] = d
                      /\ held'[d] # Nobody => Dir[held'[d]] = d
                      /\ d = Direction' => held'[d] = Nobody
    BY <2>1 DEF Detached, In
  <2> QED BY <2>1
<1>22. ASSUME WouldBlock PROVE SlotsInv'
  <2>1. /\ pass.dirs # <<>> /\ pass.at = "io" /\ pass.req \in Requests
        /\ held' = [held EXCEPT ![Direction] = pass.req] /\ slot' = slot /\ instance' = instance
        /\ pass'.at \in {"take", "epoll_wait", "orders", "events"}
    BY <1>22, HoldMoves DEF AfterDirection
  <2>2. Direction \in Dirs /\ Dir[pass.req] = Direction
    BY <2>1, DirectionFacts DEF SlotsInv
  <2> SUFFICES ASSUME NEW d \in Dirs
               PROVE  /\ slot'[d] # Nobody => Dir[slot'[d]] = d
                      /\ held'[d] # Nobody => Dir[held'[d]] = d
    BY <2>1 DEF Detached, In
  <2> QED BY <2>1, <2>2
<1>23. ASSUME EndCallback PROVE SlotsInv'
  BY <1>23, ConstantsAssumption, DirectionFacts DEF EndCallback, Pass, PassInv, Direction
<1>24. ASSUME WakeEvent PROVE SlotsInv'
  BY <1>24 DEF WakeEvent, Pass
<1>25. ASSUME FileEvent PROVE SlotsInv'
  BY <1>25, FoundFacts DEF FileEvent, Pass
<1>26. ASSUME EndEvents PROVE SlotsInv'
  BY <1>26, NewPassMoves
<1>27. ASSUME DetachInstance PROVE SlotsInv'
  BY <1>27, HeldFacts DEF DetachInstance, Pass
<1>28. ASSUME EndStep PROVE SlotsInv'
  BY <1>28 DEF EndStep, Pass
<1>29. ASSUME FreeHeld PROVE SlotsInv'
  BY <1>29, FreeHeldMoves, ConstantsAssumption, DirectionFacts
<1>30. ASSUME FreedHeld PROVE SlotsInv'
  BY <1>30, ConstantsAssumption, DirectionFacts DEF FreedHeld, Pass, PassInv, Direction
<1>31. ASSUME CloseFile PROVE SlotsInv'
  BY <1>31, UseFacts, ConstantsAssumption, DirectionFacts DEF CloseFile, Pass, PassInv
<1>32. ASSUME FreeRequest PROVE SlotsInv'
  <2>1. /\ pass.dirs # <<>> /\ slot' = [slot EXCEPT ![Direction] = Nobody] /\ held' = held
        /\ instance' = instance /\ pass.at = "_freeRequests"
        /\ pass'.at \in {"_freeRequests", "stepEnd", "callback"}
        /\ pass'.at = "callback" => pass'.back \in {"stepEnd", "_freeRequests"}
    BY <1>32, FreeRequestMoves
  <2> SUFFICES ASSUME NEW d \in Dirs
               PROVE  /\ slot'[d] # Nobody => Dir[slot'[d]] = d
                      /\ held'[d] # Nobody => Dir[held'[d]] = d
    BY <2>1 DEF Detached, In
  <2> QED BY <2>1, DirectionFacts
<1>33. ASSUME EpollWait PROVE SlotsInv'
  BY <1>33 DEF EpollWait, Pass
<1>34. ASSUME Timeout PROVE SlotsInv'
  BY <1>34, TimeoutMoves DEF Direction
<1>35. ASSUME EndTimeout PROVE SlotsInv'
  BY <1>35 DEF EndTimeout, Direction
<1>36. ASSUME FileChanges PROVE SlotsInv'
  BY <1>36 DEF FileChanges, Direction
<1> QED BY <1>1, <1>2, <1>3, <1>4, <1>5, <1>6, <1>7, <1>8, <1>9, <1>10, <1>11, <1>12, <1>13,
     <1>14, <1>15, <1>16, <1>17, <1>18, <1>19, <1>20, <1>21, <1>22, <1>23, <1>24, <1>25, <1>26,
     <1>27, <1>28, <1>29, <1>30, <1>31, <1>32, <1>33, <1>34, <1>35, <1>36
  DEF Next, Call, InCall, Step, Orders, Process, Events, Closings, Expire

-----------------------------------------------------------------------------
\* All the types together.
LEMMA TypesStep ==
    ASSUME IInv, Next
    PROVE  Types'
BY PassTyped, HistoryTyped, RestTyped DEF Types

\* The types of what is known of a request.
LEMMA RequestTypes ==
    ASSUME Types, NEW r \in Requests
    PROVE  history.ran[r] \in Nat /\ finished[r] \in BOOLEAN
BY DEF Types, Rest, History

\* No request is anywhere else, and none was answered.
Unmoved ==
    /\ slot' = slot /\ held' = held /\ \A d \in Dirs : Freeing(d)' <=> Freeing(d)
    /\ \A r \in Requests :
          /\ InIo(r)' <=> InIo(r)
          /\ \A a \in Actors : InCallOf(r, a)' <=> InCallOf(r, a)
          /\ pass'.at = "callback" /\ pass'.req = r <=> pass.at = "callback" /\ pass.req = r
    /\ history'.left = history.left /\ history'.lost = history.lost
    /\ history'.refused = history.refused /\ NoneRan
    /\ UNCHANGED <<clock, finished>>

\* Such a step keeps the places and the answers.
LEMMA UnmovedStep ==
    ASSUME IInv, Unmoved
    PROVE  PlaceInv' /\ AnswerInv'
<1>1. \A r \in Requests : OnePlace(r)' /\ OneAnswer(r)'
  <2> SUFFICES ASSUME NEW r \in Requests
               PROVE  OnePlace(r)' /\ OneAnswer(r)'
    OBVIOUS
  <2>0. Dir[r] \in Dirs /\ OnePlace(r) /\ OneAnswer(r)
    BY ConstantsAssumption DEF IInv, PlaceInv, AnswerInv
  <2>1. InSlot(r)' = InSlot(r) /\ InHeld(r)' = InHeld(r)
    BY <2>0 DEF Unmoved, InSlot, InHeld
  <2>2. Somewhere(r)' = Somewhere(r)
    BY <2>1 DEF Unmoved, Somewhere
  <2>3. Answer(r)' = Answer(r)
    BY DEF Unmoved, NoneRan, Answer, Expiry
  <2>4. OnePlace(r)'
    BY <2>0, <2>1, <2>2 DEF OnePlace, Unmoved, NoneRan
  <2>5. OneAnswer(r)'
    BY <2>0, <2>2, <2>3 DEF OneAnswer, Unmoved, NoneRan
  <2> QED BY <2>4, <2>5
<1> QED BY <1>1 DEF PlaceInv, AnswerInv, IInv, Unmoved

\* The actions that leave every request where it is.
QuietCall(a) == AddTask(a) \/ Close(a) \/ Start(a) \/ Release(a) \/ GetIoInstance(a) \/
    TestSlot(a) \/ RequestOrder(a) \/ Wake(a) \/ PushClosing(a) \/ SetNull(a) \/
    FinishAndWait(a) \/ CloseHandle(a)
Quiet == (\E a \in Actors : QuietCall(a)) \/ While \/ RunTask \/ TakeOrders \/ ProcessOrder \/
    WakeEvent \/ FileEvent \/ EndEvents \/ DetachInstance \/ EndStep \/ CloseFile \/
    EpollWait \/ FileChanges

\* These are such steps.
LEMMA QuietMoves ==
    ASSUME IInv, Quiet
    PROVE  Unmoved
<1> USE DEF IInv, Types, Rest, Unmoved, NoneRan, InIo, InCallOf, Freeing, Direction
<1>1. ASSUME NEW a \in Actors, AddTask(a) PROVE Unmoved
  BY <1>1 DEF AddTask, MayCall, History
<1>2. ASSUME NEW a \in Actors, Close(a) PROVE Unmoved
  BY <1>2 DEF Close, MayCall, InFlight, History
<1>3. ASSUME NEW a \in Actors, Start(a) PROVE Unmoved
  BY <1>3 DEF Start, Pass, ReleaseInv
<1>4. ASSUME NEW a \in Actors, Release(a) PROVE Unmoved
  BY <1>4 DEF Release, MayCall, Signal
<1>5. ASSUME NEW a \in Actors, GetIoInstance(a) PROVE Unmoved
  BY <1>5 DEF GetIoInstance, Closing, History
<1>6. ASSUME NEW a \in Actors, TestSlot(a) PROVE Unmoved
  BY <1>6 DEF TestSlot
<1>7. ASSUME NEW a \in Actors, RequestOrder(a) PROVE Unmoved
  BY <1>7, ConstantsAssumption DEF RequestOrder, Order, RequesterInv
<1>8. ASSUME NEW a \in Actors, Wake(a) PROVE Unmoved
  BY <1>8 DEF Wake, Signal, History
<1>9. ASSUME NEW a \in Actors, PushClosing(a) PROVE Unmoved
  BY <1>9 DEF PushClosing
<1>10. ASSUME NEW a \in Actors, SetNull(a) PROVE Unmoved
  BY <1>10 DEF SetNull
<1>11. ASSUME NEW a \in Actors, FinishAndWait(a) PROVE Unmoved
  BY <1>11 DEF FinishAndWait, Ended, History
<1>12. ASSUME NEW a \in Actors, CloseHandle(a) PROVE Unmoved
  BY <1>12 DEF CloseHandle
<1>13. ASSUME While PROVE Unmoved
  BY <1>13, NewPassMoves DEF PassInv
<1>14. ASSUME RunTask PROVE Unmoved
  BY <1>14, ConstantsAssumption DEF RunTask, Pass, PassInv
<1>15. ASSUME TakeOrders PROVE Unmoved
  BY <1>15 DEF TakeOrders, AfterOrder, Pass
<1>16. ASSUME ProcessOrder PROVE Unmoved
  BY <1>16, UseFacts DEF ProcessOrder, Ordered, Pass, PassInv
<1>17. ASSUME WakeEvent PROVE Unmoved
  BY <1>17 DEF WakeEvent, Pass
<1>18. ASSUME FileEvent PROVE Unmoved
  BY <1>18, FoundFacts DEF FileEvent, Pass, PassInv
<1>19. ASSUME EndEvents PROVE Unmoved
  BY <1>19, NewPassMoves DEF PassInv
<1>20. ASSUME DetachInstance PROVE Unmoved
  BY <1>20, HeldFacts DEF DetachInstance, Pass
<1>21. ASSUME EndStep PROVE Unmoved
  BY <1>21 DEF EndStep, Pass
<1>22. ASSUME CloseFile PROVE Unmoved
  BY <1>22, UseFacts DEF CloseFile, Pass, History
<1>23. ASSUME EpollWait PROVE Unmoved
  BY <1>23 DEF EpollWait, Pass
<1>24. ASSUME FileChanges PROVE Unmoved
  BY <1>24 DEF FileChanges
<1> QED BY <1>1, <1>2, <1>3, <1>4, <1>5, <1>6, <1>7, <1>8, <1>9, <1>10, <1>11, <1>12, <1>13,
     <1>14, <1>15, <1>16, <1>17, <1>18, <1>19, <1>20, <1>21, <1>22, <1>23, <1>24
  DEF Quiet, QuietCall

-----------------------------------------------------------------------------
\* Every step moves a request from one place to another, or answers it.
LEMMA PlaceStep ==
    ASSUME IInv, Next
    PROVE  \A r \in Requests : OnePlace(r)' /\ OneAnswer(r)'
<1> USE DEF IInv, Types, Rest
<1>1. ASSUME Quiet PROVE \A r \in Requests : OnePlace(r)' /\ OneAnswer(r)'
  BY <1>1, QuietMoves, UnmovedStep DEF PlaceInv, AnswerInv
<1>2. ASSUME NEW a \in Actors, Request(a) PROVE \A r \in Requests : OnePlace(r)' /\ OneAnswer(r)'
  <2> SUFFICES ASSUME NEW r \in Requests
               PROVE  OnePlace(r)' /\ OneAnswer(r)'
    OBVIOUS
  <2>r. /\ Dir[r] \in Dirs /\ OnePlace(r) /\ OneAnswer(r)
        /\ history.ran[r] \in Nat /\ finished[r] \in BOOLEAN
    BY ConstantsAssumption, RequestTypes DEF PlaceInv, AnswerInv

  <2>1. PICK q \in history.left : req' = [req EXCEPT ![a] = q] /\ history' = [history EXCEPT !.left = @ \ {q}]
    BY <1>2 DEF Request
  <2>2. /\ history'.left = history.left \ {q} /\ history'.lost = history.lost
        /\ history'.refused = history.refused /\ history'.both = history.both
        /\ history'.ran = history.ran
    BY <2>1 DEF History
  <2>3. /\ pc[a] = "outside" /\ pc' = [pc EXCEPT ![a] = "getIoInstance"] /\ req[a] \notin Requests
        /\ UNCHANGED <<slot, held, pass, clock, finished>>
    BY <1>2, ConstantsAssumption DEF Request, RequesterInv
  <2>4. \A b \in Actors : InCallOf(r, b)' <=> InCallOf(r, b) \/ (b = a /\ r = q)
    BY <2>1, <2>3 DEF InCallOf
  <2>5. InSlot(r)' = InSlot(r) /\ InHeld(r)' = InHeld(r) /\ InIo(r)' = InIo(r)
    BY <2>3 DEF InSlot, InHeld, InIo, Freeing, Direction
  <2>6. q \in Requests
    BY <2>1 DEF History
  <2> QED BY <2>r, <2>2, <2>3, <2>4, <2>5, <2>6 DEF OnePlace, OneAnswer, Somewhere, Answer, Expiry
<1>3. ASSUME NEW a \in Actors, SetRequest(a) PROVE \A r \in Requests : OnePlace(r)' /\ OneAnswer(r)'
  <2> SUFFICES ASSUME NEW r \in Requests
               PROVE  OnePlace(r)' /\ OneAnswer(r)'
    OBVIOUS
  <2>r. /\ Dir[r] \in Dirs /\ OnePlace(r) /\ OneAnswer(r)
        /\ history.ran[r] \in Nat /\ finished[r] \in BOOLEAN
    BY ConstantsAssumption, RequestTypes DEF PlaceInv, AnswerInv

  <2> DEFINE q == req[a]
  <2>1. /\ q \in Requests /\ pc[a] = "setRequest" /\ pc' = [pc EXCEPT ![a] = "requestOrder"]
        /\ req' = req
        /\ slot' = [slot EXCEPT ![Dir[q]] = q] /\ UNCHANGED <<held, pass, clock, finished>>
    BY <1>3 DEF SetRequest, RequesterInv, OrNobody
  <2>2. /\ history'.left = history.left
        /\ history'.lost = history.lost \cup ({slot[Dir[q]]} \ {Nobody})
        /\ history'.refused = history.refused /\ history'.both = history.both
        /\ history'.ran = history.ran
    BY <1>3 DEF SetRequest, History
  <2>3. InSlot(r)' <=> r = q \/ (InSlot(r) /\ Dir[r] # Dir[q])
    BY <2>r, <2>1 DEF InSlot
  <2>4. InHeld(r)' = InHeld(r) /\ InIo(r)' = InIo(r)
    BY <2>1 DEF InHeld, InIo, Freeing, Direction
  <2>5. \A b \in Actors : InCallOf(r, b)' <=> InCallOf(r, b) /\ b # a
    BY <2>1 DEF InCallOf
  <2>6. InSlot(r) /\ Dir[r] = Dir[q] => r \in history'.lost
    BY <2>2, ConstantsAssumption DEF InSlot
  <2>7. r = q <=> InCallOf(r, a)
    BY <2>1 DEF InCallOf
  <2> HIDE DEF q
  <2>8. OnePlace(r)'
    BY <2>r, <2>1, <2>2, <2>3, <2>4, <2>5, <2>7 DEF OnePlace, Somewhere
  <2> QED BY <2>r, <2>1, <2>2, <2>3, <2>4, <2>5, <2>6, <2>7, <2>8 DEF OnePlace, OneAnswer,
       Somewhere, Answer, Expiry
<1>4. ASSUME NEW a \in Actors, Refused(a) PROVE \A r \in Requests : OnePlace(r)' /\ OneAnswer(r)'
  <2> SUFFICES ASSUME NEW r \in Requests
               PROVE  OnePlace(r)' /\ OneAnswer(r)'
    OBVIOUS
  <2>r. /\ Dir[r] \in Dirs /\ OnePlace(r) /\ OneAnswer(r)
        /\ history.ran[r] \in Nat /\ finished[r] \in BOOLEAN
    BY ConstantsAssumption, RequestTypes DEF PlaceInv, AnswerInv

  <2> DEFINE q == req[a]
  <2>1. /\ q \in Requests /\ pc[a] = "refused" /\ pc' = [pc EXCEPT ![a] = "outside"]
        /\ req' = [req EXCEPT ![a] = Nobody] /\ UNCHANGED <<slot, held, clock, finished>>
    BY <1>4, RefusedMoves DEF Refused
  <2>2. /\ history'.left = history.left /\ history'.lost = history.lost
        /\ history'.both = history.both
        /\ history'.refused = history.refused \cup {q} /\ history'.ran[q] = history.ran[q] + 1
        /\ r # q => history'.ran[r] = history.ran[r]
    BY <1>4, RefusedMoves
  <2>3. \/ pass' = pass
        \/ /\ pass'.at = "callback" /\ pass'.dirs = pass.dirs /\ pass'.back = "next"
           /\ pass.at = "next" /\ pass'.req = q
    BY <1>4, <2>1, ConstantsAssumption DEF Refused, PassInv, Pass
  <2>4. InSlot(r)' = InSlot(r) /\ InHeld(r)' = InHeld(r) /\ InIo(r)' = InIo(r)
    BY <2>1, <2>3 DEF InSlot, InHeld, InIo, Freeing, Direction
  <2>5. \A b \in Actors : InCallOf(r, b)' <=> InCallOf(r, b) /\ b # a
    BY <2>1, ConstantsAssumption DEF InCallOf
  <2>6. r = q <=> InCallOf(r, a)
    BY <2>1 DEF InCallOf
  <2> HIDE DEF q
  <2>7. OnePlace(r)'
    BY <2>r, <2>1, <2>2, <2>4, <2>5, <2>6 DEF OnePlace, Somewhere
  <2>8. Somewhere(r)' <=> Somewhere(r) /\ r # q
    BY <2>r, <2>4, <2>5, <2>6 DEF OnePlace, Somewhere
  <2>9. Answer(r)' = Answer(r) + (IF r = q THEN 1 ELSE 0) /\ (r = q => Somewhere(r))
    BY <2>r, <2>1, <2>2, <2>6 DEF Answer, Expiry, Somewhere
  <2>10. Answer(r) \in Int
    BY <2>r DEF Answer, Expiry
  <2> QED BY <2>r, <2>1, <2>2, <2>3, <2>7, <2>8, <2>9, <2>10 DEF OneAnswer
<1>5. ASSUME Take \/ NextRequest PROVE \A r \in Requests : OnePlace(r)' /\ OneAnswer(r)'
  <2> SUFFICES ASSUME NEW r \in Requests
               PROVE  OnePlace(r)' /\ OneAnswer(r)'
    OBVIOUS
  <2>r. /\ Dir[r] \in Dirs /\ OnePlace(r) /\ OneAnswer(r)
        /\ history.ran[r] \in Nat /\ finished[r] \in BOOLEAN
    BY ConstantsAssumption, RequestTypes DEF PlaceInv, AnswerInv

  <2>1. /\ pass.dirs # <<>> /\ pass.at \in {"take", "next"}
        /\ UNCHANGED <<clock, finished, history>>
        /\ pass'.at \in {"io", "take", "epoll_wait", "orders", "events"}
        /\ pass'.dirs = pass.dirs \/ pass'.at # "io"
        /\ \/ /\ held[Direction] # Nobody /\ pass'.at = "io" /\ pass'.req = held[Direction]
              /\ held' = [held EXCEPT ![Direction] = Nobody] /\ slot' = slot
           \/ /\ slot[Direction] # Nobody /\ pass'.at = "io" /\ pass'.req = slot[Direction]
              /\ slot' = [slot EXCEPT ![Direction] = Nobody] /\ held' = held
           \/ /\ pass'.at # "io" /\ slot' = slot /\ held' = held
    BY <1>5, TakeMoves DEF AfterDirection
  <2>2. /\ \A b \in Actors : InCallOf(r, b)' = InCallOf(r, b)
    <3>1. pc[Loop] = "outside" /\ req' = req /\ (pc' = pc \/ pc' = [pc EXCEPT ![Loop] = "requestOrder"])
      BY <1>5, TakeMoves DEF AfterDirection
    <3>2. req[Loop] # r
      BY <3>1, ConstantsAssumption DEF RequesterInv, Actors
    <3> QED BY <3>1, <3>2 DEF InCallOf
  <2>3. /\ Direction \in Dirs /\ (held[Direction] = r => Dir[r] = Direction)
        /\ (slot[Direction] = r => Dir[r] = Direction)
    BY <2>1, DirectionFacts, ConstantsAssumption DEF SlotsInv
  <2>4. \A d \in Dirs : ~Freeing(d) /\ ~Freeing(d)'
    BY <2>1 DEF Freeing
  <2>5. /\ Answer(r)' = Answer(r) /\ ~InIo(r)
    BY <2>1 DEF Answer, Expiry, InIo
  <2>6. CASE /\ held[Direction] # Nobody /\ pass'.at = "io" /\ pass'.req = held[Direction]
             /\ held' = [held EXCEPT ![Direction] = Nobody] /\ slot' = slot
    <3>1. /\ InSlot(r)' = InSlot(r) /\ (InHeld(r)' <=> InHeld(r) /\ r # held[Direction])
          /\ (InIo(r)' <=> r = held[Direction]) /\ (r = held[Direction] => InHeld(r))
      BY <2>r, <2>3, <2>4, <2>6, ConstantsAssumption DEF InSlot, InHeld, InIo
    <3>2. Somewhere(r)' = Somewhere(r)
      BY <2>2, <2>5, <3>1 DEF Somewhere
    <3> HIDE <2>6
    <3> QED BY <2>r, <2>1, <2>2, <2>5, <3>1, <3>2 DEF OnePlace, OneAnswer
  <2>7. CASE /\ slot[Direction] # Nobody /\ pass'.at = "io" /\ pass'.req = slot[Direction]
             /\ slot' = [slot EXCEPT ![Direction] = Nobody] /\ held' = held
    <3>1. /\ InHeld(r)' = InHeld(r) /\ (InSlot(r)' <=> InSlot(r) /\ r # slot[Direction])
          /\ (InIo(r)' <=> r = slot[Direction]) /\ (r = slot[Direction] => InSlot(r))
      BY <2>r, <2>3, <2>4, <2>7, ConstantsAssumption DEF InSlot, InHeld, InIo
    <3>2. Somewhere(r)' = Somewhere(r)
      BY <2>2, <2>5, <3>1 DEF Somewhere
    <3> QED BY <2>r, <2>1, <2>2, <2>5, <3>1, <3>2 DEF OnePlace, OneAnswer
  <2>8. CASE pass'.at # "io" /\ slot' = slot /\ held' = held
    <3>1. InHeld(r)' = InHeld(r) /\ InSlot(r)' = InSlot(r) /\ InIo(r)' = InIo(r)
      BY <2>r, <2>4, <2>5, <2>8 DEF InSlot, InHeld, InIo
    <3>2. Somewhere(r)' = Somewhere(r)
      BY <2>2, <2>5, <3>1 DEF Somewhere
    <3> QED BY <2>r, <2>1, <2>2, <2>5, <3>1, <3>2 DEF OnePlace, OneAnswer
  <2> QED BY <2>1, <2>6, <2>7, <2>8
<1>6. ASSUME Done \/ Failed PROVE \A r \in Requests : OnePlace(r)' /\ OneAnswer(r)'
  <2> SUFFICES ASSUME NEW r \in Requests
               PROVE  OnePlace(r)' /\ OneAnswer(r)'
    OBVIOUS
  <2>r. /\ Dir[r] \in Dirs /\ OnePlace(r) /\ OneAnswer(r)
        /\ history.ran[r] \in Nat /\ finished[r] \in BOOLEAN
    BY ConstantsAssumption, RequestTypes DEF PlaceInv, AnswerInv

  <2> DEFINE q == pass.req
  <2>1. /\ q \in Requests /\ pass.at = "io" /\ pc[Loop] = "outside"
        /\ UNCHANGED <<slot, held, clock, finished>>
        /\ pass'.at \in {"next", "callback"} /\ pass'.back = "next"
        /\ \/ finished[q] /\ pass'.at = "next" /\ NoneRan /\ pc' = pc /\ req' = req
           \/ /\ pass'.at = "next" /\ NoneRan
              /\ pc' = [pc EXCEPT ![Loop] = "getIoInstance"] /\ req' = [req EXCEPT ![Loop] = q]
           \/ ~finished[q] /\ pass'.at = "callback" /\ pass'.req = q /\ Ran(q) /\ pc' = pc /\ req' = req
    BY <1>6, ServedMoves
  <2>2. /\ history'.left = history.left /\ history'.lost = history.lost
        /\ history'.refused = history.refused
    BY <1>6, ServedMoves DEF Kept
  <2>3. /\ InSlot(r)' = InSlot(r) /\ InHeld(r)' = InHeld(r) /\ ~InIo(r)' /\ (InIo(r) <=> r = q)
    BY <2>1 DEF InSlot, InHeld, InIo, Freeing
  <2>4. req[Loop] # r
    BY <2>1, ConstantsAssumption DEF RequesterInv, Actors
  <2> HIDE DEF q
  <2>5. CASE finished[q] /\ pass'.at = "next" /\ NoneRan /\ pc' = pc /\ req' = req
    <3>1. \A b \in Actors : InCallOf(r, b)' = InCallOf(r, b)
      BY <2>5 DEF InCallOf
    <3>2. /\ Answer(r)' = Answer(r) /\ (Somewhere(r)' <=> Somewhere(r) /\ r # q)
          /\ history'.ran[r] = history.ran[r] /\ history'.both = history.both
      BY <2>r, <2>1, <2>3, <2>5, <3>1 DEF Answer, Expiry, NoneRan, Somewhere, OnePlace
    <3> QED BY <2>r, <2>1, <2>2, <2>3, <2>5, <3>1, <3>2 DEF OnePlace, OneAnswer
  <2>6. CASE /\ pass'.at = "next" /\ NoneRan
             /\ pc' = [pc EXCEPT ![Loop] = "getIoInstance"] /\ req' = [req EXCEPT ![Loop] = q]
    <3>1. \A b \in Actors : InCallOf(r, b)' <=> InCallOf(r, b) \/ (b = Loop /\ r = q)
      BY <2>4, <2>6 DEF InCallOf
    <3>2. /\ Answer(r)' = Answer(r) /\ (Somewhere(r)' <=> Somewhere(r))
          /\ history'.ran[r] = history.ran[r] /\ history'.both = history.both
      BY <2>r, <2>1, <2>3, <2>6, <3>1 DEF Answer, Expiry, NoneRan, Somewhere, Actors
    <3> QED BY <2>r, <2>1, <2>2, <2>3, <2>6, <3>1, <3>2 DEF OnePlace, OneAnswer
  <2>7. CASE ~finished[q] /\ pass'.at = "callback" /\ pass'.req = q /\ Ran(q) /\ pc' = pc /\ req' = req
    <3>1. \A b \in Actors : InCallOf(r, b)' = InCallOf(r, b)
      BY <2>7 DEF InCallOf
    <3>2. /\ history'.ran[r] = history.ran[r] + (IF r = q THEN 1 ELSE 0)
          /\ history'.both = IF timer = q THEN history.both \cup {q} ELSE history.both
      BY <2>r, <2>1, <2>7 DEF Ran
    <3>3. /\ Answer(r)' = Answer(r) + (IF r = q THEN 1 ELSE 0) /\ (Somewhere(r)' <=> Somewhere(r) /\ r # q)
          /\ (r = q => Somewhere(r))
      BY <2>r, <2>1, <2>3, <3>1, <3>2 DEF Answer, Expiry, Somewhere, OnePlace
    <3>4. OnePlace(r)'
      BY <2>r, <2>1, <2>2, <2>3, <3>1, <3>2, <3>3 DEF OnePlace
    <3>5. OneAnswer(r)'
      <4>1. CASE r = q
        BY <2>r, <2>1, <2>2, <2>7, <3>2, <3>3, <4>1 DEF OneAnswer
      <4>2. CASE r # q
        BY <2>r, <2>1, <2>2, <2>7, <3>2, <3>3, <4>2 DEF OneAnswer
      <4> QED BY <4>1, <4>2
    <3> QED BY <3>4, <3>5
  <2> QED BY <2>1, <2>5, <2>6, <2>7 DEF q
<1>7. ASSUME WouldBlock PROVE \A r \in Requests : OnePlace(r)' /\ OneAnswer(r)'
  <2> SUFFICES ASSUME NEW r \in Requests
               PROVE  OnePlace(r)' /\ OneAnswer(r)'
    OBVIOUS
  <2>r. /\ Dir[r] \in Dirs /\ OnePlace(r) /\ OneAnswer(r)
        /\ history.ran[r] \in Nat /\ finished[r] \in BOOLEAN
    BY ConstantsAssumption, RequestTypes DEF PlaceInv, AnswerInv

  <2> DEFINE q == pass.req
  <2>1. /\ q \in Requests /\ pass.at = "io" /\ pass.dirs # <<>>
        /\ UNCHANGED <<slot, clock, finished>> /\ Kept /\ NoneRan
        /\ held' = [held EXCEPT ![Direction] = q]
        /\ pass'.at \in {"take", "epoll_wait", "orders", "events"}
    BY <1>7, HoldMoves DEF AfterDirection
  <2>2. \A b \in Actors : InCallOf(r, b)' = InCallOf(r, b)
    <3>1. pc[Loop] = "outside" /\ req' = req /\ (pc' = pc \/ pc' = [pc EXCEPT ![Loop] = "requestOrder"])
      BY <1>7, HoldMoves DEF AfterDirection
    <3>2. req[Loop] # r
      BY <3>1, ConstantsAssumption DEF RequesterInv, Actors
    <3> QED BY <3>1, <3>2 DEF InCallOf
  <2>3. Direction \in Dirs /\ Dir[q] = Direction /\ held[Direction] = Nobody
    BY <2>1, DirectionFacts DEF SlotsInv
  <2>4. \A d \in Dirs : ~Freeing(d) /\ ~Freeing(d)'
    BY <2>1 DEF Freeing
  <2>5. /\ InSlot(r)' = InSlot(r) /\ (InHeld(r)' <=> InHeld(r) \/ r = q)
        /\ ~InIo(r)' /\ (InIo(r) <=> r = q)
    BY <2>r, <2>1, <2>3, <2>4, ConstantsAssumption DEF InSlot, InHeld, InIo
  <2>6. Somewhere(r)' = Somewhere(r) /\ Answer(r)' = Answer(r)
    BY <2>1, <2>2, <2>5 DEF Somewhere, Answer, Expiry, NoneRan
  <2> HIDE DEF q
  <2> QED BY <2>r, <2>1, <2>2, <2>5, <2>6 DEF OnePlace, OneAnswer, Kept, NoneRan
<1>8. ASSUME EndCallback PROVE \A r \in Requests : OnePlace(r)' /\ OneAnswer(r)'
  <2> SUFFICES ASSUME NEW r \in Requests
               PROVE  OnePlace(r)' /\ OneAnswer(r)'
    OBVIOUS
  <2>r. /\ Dir[r] \in Dirs /\ OnePlace(r) /\ OneAnswer(r)
        /\ history.ran[r] \in Nat /\ finished[r] \in BOOLEAN
    BY ConstantsAssumption, RequestTypes DEF PlaceInv, AnswerInv

  <2>1. /\ pass.at = "callback" /\ pass'.at = pass.back /\ pass'.dirs = pass.dirs
        /\ pass'.back = "tasks"
        /\ pass'.req = Nobody /\ UNCHANGED <<slot, held, pc, req, clock, history>>
        /\ finished'[r] = (finished[r] \/ r = pass.req)
    BY <1>8 DEF EndCallback, Pass
  <2>2. pass.back \notin {"io", "callback"}
    BY <2>1 DEF PassInv
  <2>3. /\ InSlot(r)' = InSlot(r) /\ InHeld(r)' = InHeld(r) /\ InIo(r)' = InIo(r)
        /\ \A b \in Actors : InCallOf(r, b)' = InCallOf(r, b)
    BY <2>1, <2>2 DEF InSlot, InHeld, InIo, InCallOf, Freeing, Direction
  <2>4. Somewhere(r)' = Somewhere(r) /\ Answer(r)' = Answer(r)
    BY <2>1, <2>3 DEF Somewhere, Answer, Expiry
  <2>5. r = pass.req => Answer(r) = 1 /\ history.ran[r] > 0
    BY <2>1, <2>r DEF OneAnswer, Answer, Expiry
  <2>6. OnePlace(r)'
    BY <2>r, <2>1, <2>3, <2>4, <2>5 DEF OnePlace
  <2>7. OneAnswer(r)'
    <3>1. CASE r = pass.req
      BY <2>r, <2>1, <2>4, <2>5, <3>1, ConstantsAssumption DEF OneAnswer
    <3>2. CASE r # pass.req
      BY <2>r, <2>1, <2>4, <3>2, ConstantsAssumption DEF OneAnswer
    <3> QED BY <3>1, <3>2
  <2> QED BY <2>6, <2>7
<1>9. ASSUME FreeHeld PROVE \A r \in Requests : OnePlace(r)' /\ OneAnswer(r)'
  <2> SUFFICES ASSUME NEW r \in Requests
               PROVE  OnePlace(r)' /\ OneAnswer(r)'
    OBVIOUS
  <2>r. /\ Dir[r] \in Dirs /\ OnePlace(r) /\ OneAnswer(r)
        /\ history.ran[r] \in Nat /\ finished[r] \in BOOLEAN
    BY ConstantsAssumption, RequestTypes DEF PlaceInv, AnswerInv

  <2> DEFINE q == held[Direction]
  <2>1. /\ q \in Requests /\ pass.at = "_free"
        /\ UNCHANGED <<slot, held, pc, req, clock, finished>>
        /\ pass.dirs # <<>> /\ Direction' = Direction /\ pass'.back = "freed"
        /\ \/ (q = Nobody \/ finished[q]) /\ pass'.at = "freed" /\ NoneRan
           \/ q \in Requests /\ ~finished[q] /\ pass'.at = "callback" /\ pass'.req = q /\ Ran(q)
    BY <1>9, FreeHeldMoves
  <2>2. Direction \in Dirs /\ Dir[q] = Direction
    BY <2>1, DirectionFacts, ConstantsAssumption DEF SlotsInv
  <2>3. /\ InSlot(r)' = InSlot(r) /\ (InHeld(r)' <=> InHeld(r) /\ r # q) /\ (r = q => InHeld(r))
        /\ InIo(r)' = InIo(r) /\ \A b \in Actors : InCallOf(r, b)' = InCallOf(r, b)
    BY <2>r, <2>1, <2>2 DEF InSlot, InHeld, InIo, InCallOf, Freeing

  <2>4. history'.left = history.left /\ history'.lost = history.lost /\ history'.refused = history.refused
    BY <1>9, FreeHeldMoves DEF Kept
  <2> HIDE DEF q
  <2>5. CASE (q = Nobody \/ finished[q]) /\ pass'.at # "callback" /\ NoneRan
    <3>1. /\ Answer(r)' = Answer(r) /\ (Somewhere(r)' <=> Somewhere(r) /\ r # q)
          /\ history'.ran[r] = history.ran[r] /\ history'.both = history.both
      BY <2>r, <2>1, <2>3, <2>5 DEF Answer, Expiry, NoneRan, Somewhere, OnePlace
    <3>2. OnePlace(r)'
      BY <2>r, <2>1, <2>3, <2>4, <2>5, <3>1 DEF OnePlace
    <3> QED BY <2>r, <2>1, <2>4, <2>5, <3>1, <3>2, ConstantsAssumption DEF OneAnswer
  <2>6. CASE q \in Requests /\ ~finished[q] /\ pass'.at = "callback" /\ pass'.req = q /\ Ran(q)
    <3>2. /\ history'.ran[r] = history.ran[r] + (IF r = q THEN 1 ELSE 0)
          /\ history'.both = IF timer = q THEN history.both \cup {q} ELSE history.both
      BY <2>r, <2>1, <2>6 DEF Ran
    <3>3. /\ Answer(r)' = Answer(r) + (IF r = q THEN 1 ELSE 0) /\ (Somewhere(r)' <=> Somewhere(r) /\ r # q)
          /\ (r = q => Somewhere(r))
      BY <2>r, <2>1, <2>3, <3>2 DEF Answer, Expiry, Somewhere, OnePlace
    <3>4. OnePlace(r)'
      BY <2>r, <2>1, <2>3, <2>4, <3>2, <3>3 DEF OnePlace
    <3>5. OneAnswer(r)'
      <4>1. CASE r = q
        BY <2>r, <2>1, <2>4, <2>6, <3>2, <3>3, <4>1 DEF OneAnswer
      <4>2. CASE r # q
        BY <2>r, <2>1, <2>4, <2>6, <3>2, <3>3, <4>2 DEF OneAnswer
      <4> QED BY <4>1, <4>2
    <3> QED BY <3>4, <3>5
  <2> QED BY <2>1, <2>5, <2>6
<1>10. ASSUME FreedHeld PROVE \A r \in Requests : OnePlace(r)' /\ OneAnswer(r)'
  <2> SUFFICES ASSUME NEW r \in Requests
               PROVE  OnePlace(r)' /\ OneAnswer(r)'
    OBVIOUS
  <2>r. /\ Dir[r] \in Dirs /\ OnePlace(r) /\ OneAnswer(r)
        /\ history.ran[r] \in Nat /\ finished[r] \in BOOLEAN
    BY ConstantsAssumption, RequestTypes DEF PlaceInv, AnswerInv

  <2>1. /\ pass.at = "freed" /\ pass'.at = "_free" /\ pass.dirs # <<>> /\ pass'.req = pass.req
        /\ held' = [held EXCEPT ![Direction] = Nobody]
        /\ UNCHANGED <<slot, pc, req, clock, finished, history>>
    BY <1>10 DEF FreedHeld, Pass, PassInv, In
  <2>2. Direction \in Dirs
    BY <2>1, DirectionFacts
  <2>3. /\ InSlot(r)' = InSlot(r) /\ InHeld(r)' = InHeld(r) /\ InIo(r)' = InIo(r)
        /\ \A b \in Actors : InCallOf(r, b)' = InCallOf(r, b)
    BY <2>r, <2>1, <2>2, ConstantsAssumption DEF InSlot, InHeld, InIo, InCallOf, Freeing
  <2>4. Somewhere(r)' = Somewhere(r) /\ Answer(r)' = Answer(r)
    BY <2>1, <2>3 DEF Somewhere, Answer, Expiry
  <2> QED BY <2>r, <2>1, <2>3, <2>4 DEF OnePlace, OneAnswer
<1>11. ASSUME FreeRequest PROVE \A r \in Requests : OnePlace(r)' /\ OneAnswer(r)'
  <2> SUFFICES ASSUME NEW r \in Requests
               PROVE  OnePlace(r)' /\ OneAnswer(r)'
    OBVIOUS
  <2>r. /\ Dir[r] \in Dirs /\ OnePlace(r) /\ OneAnswer(r)
        /\ history.ran[r] \in Nat /\ finished[r] \in BOOLEAN
    BY ConstantsAssumption, RequestTypes DEF PlaceInv, AnswerInv

  <2> DEFINE q == slot[Direction]
  <2>1. /\ pass.at = "_freeRequests" /\ UNCHANGED <<held, pc, req, clock, finished>>
        /\ slot' = [slot EXCEPT ![Direction] = Nobody]
        /\ pass.dirs # <<>>
        /\ \/ (q = Nobody \/ finished[q]) /\ pass'.at \in {"stepEnd", "_freeRequests"} /\ NoneRan
           \/ /\ q \in Requests /\ ~finished[q] /\ pass'.at = "callback" /\ pass'.req = q
              /\ Ran(q)
              /\ pass'.back \in {"stepEnd", "_freeRequests"}
    BY <1>11, FreeRequestMoves
  <2>2. Direction \in Dirs /\ (q # Nobody => Dir[q] = Direction)
    BY <2>1, DirectionFacts, ConstantsAssumption DEF SlotsInv
  <2>3. /\ InHeld(r)' = InHeld(r) /\ (InSlot(r)' <=> InSlot(r) /\ r # q) /\ (r = q => InSlot(r))
        /\ InIo(r)' = InIo(r) /\ \A b \in Actors : InCallOf(r, b)' = InCallOf(r, b)
    BY <2>r, <2>1, <2>2, ConstantsAssumption DEF InSlot, InHeld, InIo, InCallOf, Freeing

  <2>4. history'.left = history.left /\ history'.lost = history.lost /\ history'.refused = history.refused
    BY <1>11, FreeRequestMoves DEF Kept
  <2> HIDE DEF q
  <2>5. CASE (q = Nobody \/ finished[q]) /\ pass'.at # "callback" /\ NoneRan
    <3>1. /\ Answer(r)' = Answer(r) /\ (Somewhere(r)' <=> Somewhere(r) /\ r # q)
          /\ history'.ran[r] = history.ran[r] /\ history'.both = history.both
      BY <2>r, <2>1, <2>3, <2>5 DEF Answer, Expiry, NoneRan, Somewhere, OnePlace
    <3>2. OnePlace(r)'
      BY <2>r, <2>1, <2>3, <2>4, <2>5, <3>1 DEF OnePlace
    <3> QED BY <2>r, <2>1, <2>4, <2>5, <3>1, <3>2, ConstantsAssumption DEF OneAnswer
  <2>6. CASE q \in Requests /\ ~finished[q] /\ pass'.at = "callback" /\ pass'.req = q /\ Ran(q)
    <3>2. /\ history'.ran[r] = history.ran[r] + (IF r = q THEN 1 ELSE 0)
          /\ history'.both = IF timer = q THEN history.both \cup {q} ELSE history.both
      BY <2>r, <2>1, <2>6 DEF Ran
    <3>3. /\ Answer(r)' = Answer(r) + (IF r = q THEN 1 ELSE 0) /\ (Somewhere(r)' <=> Somewhere(r) /\ r # q)
          /\ (r = q => Somewhere(r))
      BY <2>r, <2>1, <2>3, <3>2 DEF Answer, Expiry, Somewhere, OnePlace
    <3>4. OnePlace(r)'
      BY <2>r, <2>1, <2>3, <2>4, <3>2, <3>3 DEF OnePlace
    <3>5. OneAnswer(r)'
      <4>1. CASE r = q
        BY <2>r, <2>1, <2>4, <2>6, <3>2, <3>3, <4>1 DEF OneAnswer
      <4>2. CASE r # q
        BY <2>r, <2>1, <2>4, <2>6, <3>2, <3>3, <4>2 DEF OneAnswer
      <4> QED BY <4>1, <4>2
    <3> QED BY <3>4, <3>5
  <2> QED BY <2>1, <2>5, <2>6
<1>12. ASSUME Timeout PROVE \A r \in Requests : OnePlace(r)' /\ OneAnswer(r)'
  <2> SUFFICES ASSUME NEW r \in Requests
               PROVE  OnePlace(r)' /\ OneAnswer(r)'
    OBVIOUS
  <2>r. /\ Dir[r] \in Dirs /\ OnePlace(r) /\ OneAnswer(r)
        /\ history.ran[r] \in Nat /\ finished[r] \in BOOLEAN
    BY ConstantsAssumption, RequestTypes DEF PlaceInv, AnswerInv

  <2>1. PICK q \in Timed \ expired :
           /\ q \in Requests \ history.left /\ ~finished[q]
           /\ expired' = expired \cup {q} /\ timer' = q
           /\ history'.ran[q] = history.ran[q] + 1
           /\ \A p \in Requests \ {q} : history'.ran[p] = history.ran[p]
           /\ history'.both = IF pass.at = "callback" /\ pass.req = q
                              THEN history.both \cup {q} ELSE history.both
    BY <1>12, TimeoutMoves
  <2>2. /\ UNCHANGED <<slot, held, pass, pc, req, finished>> /\ history'.left = history.left
        /\ history'.lost = history.lost /\ history'.refused = history.refused /\ timer = Nobody
    BY <1>12, TimeoutMoves DEF Kept
  <2>3. /\ InSlot(r)' = InSlot(r) /\ InHeld(r)' = InHeld(r) /\ InIo(r)' = InIo(r)
        /\ \A b \in Actors : InCallOf(r, b)' = InCallOf(r, b)
    BY <2>2 DEF InSlot, InHeld, InIo, InCallOf, Freeing, Direction
  <2>4. Somewhere(r)' = Somewhere(r) /\ Answer(r)' = Answer(r)
    BY <2>r, <2>1, <2>2, <2>3 DEF Somewhere, Answer, Expiry
  <2>5. history'.ran[r] = history.ran[r] + (IF r = q THEN 1 ELSE 0)
    BY <2>r, <2>1
  <2> QED BY <2>r, <2>1, <2>2, <2>3, <2>4, <2>5, ConstantsAssumption DEF OnePlace, OneAnswer
<1>13. ASSUME EndTimeout PROVE \A r \in Requests : OnePlace(r)' /\ OneAnswer(r)'
  <2> SUFFICES ASSUME NEW r \in Requests
               PROVE  OnePlace(r)' /\ OneAnswer(r)'
    OBVIOUS
  <2>r. /\ Dir[r] \in Dirs /\ OnePlace(r) /\ OneAnswer(r)
        /\ history.ran[r] \in Nat /\ finished[r] \in BOOLEAN
    BY ConstantsAssumption, RequestTypes DEF PlaceInv, AnswerInv

  <2>1. /\ timer # Nobody /\ timer \in Requests /\ timer' = Nobody
        /\ finished' = [finished EXCEPT ![timer] = TRUE]
        /\ timer \in expired /\ UNCHANGED <<slot, held, pass, pc, req, expired, history>>
    BY <1>13 DEF EndTimeout, OrNobody, AnswerInv
  <2>2. /\ InSlot(r)' = InSlot(r) /\ InHeld(r)' = InHeld(r) /\ InIo(r)' = InIo(r)
        /\ \A b \in Actors : InCallOf(r, b)' = InCallOf(r, b)
    BY <2>1 DEF InSlot, InHeld, InIo, InCallOf, Freeing, Direction
  <2>3. Somewhere(r)' = Somewhere(r) /\ Answer(r)' = Answer(r)
    BY <2>1, <2>2 DEF Somewhere, Answer, Expiry
  <2>4. finished'[r] = (finished[r] \/ r = timer)
    BY <2>1
  <2>5. r = timer => history.ran[r] > 0
    BY <2>r, <2>1 DEF OneAnswer, Answer, Expiry
  <2> QED BY <2>r, <2>1, <2>2, <2>3, <2>4, <2>5 DEF OnePlace, OneAnswer
<1> QED BY <1>1, <1>2, <1>3, <1>4, <1>5, <1>6, <1>7, <1>8, <1>9, <1>10, <1>11, <1>12, <1>13
  DEF Next, Call, InCall, Step, Orders, Process, Events, Closings, Expire, Quiet, QuietCall

\* The timer is at a request that has expired.
LEMMA TimerStep ==
    ASSUME IInv, Next
    PROVE  (timer # Nobody => timer \in expired)'
<1> USE DEF IInv, Types, Rest, AnswerInv
<1>1. ASSUME Quiet PROVE (timer # Nobody => timer \in expired)'
  BY <1>1, QuietMoves DEF Unmoved
<1>2. ASSUME Process PROVE (timer # Nobody => timer \in expired)'
  BY <1>2, ServeMoves
<1>3. ASSUME Timeout PROVE (timer # Nobody => timer \in expired)'
  <2>1. PICK q \in Timed \ expired : expired' = expired \cup {q} /\ timer' = q
    BY <1>3, TimeoutMoves
  <2> QED BY <2>1
<1>4. ASSUME NEW a \in Actors, Request(a) PROVE (timer # Nobody => timer \in expired)'
  BY <1>4 DEF Request, MayCall
<1>5. ASSUME NEW a \in Actors, SetRequest(a) PROVE (timer # Nobody => timer \in expired)'
  BY <1>5 DEF SetRequest
<1>6. ASSUME NEW a \in Actors, Refused(a) PROVE (timer # Nobody => timer \in expired)'
  BY <1>6 DEF Refused
<1>7. ASSUME EndCallback PROVE (timer # Nobody => timer \in expired)'
  BY <1>7 DEF EndCallback
<1>8. ASSUME FreeHeld PROVE (timer # Nobody => timer \in expired)'
  BY <1>8, FreeHeldMoves
<1>9. ASSUME FreedHeld PROVE (timer # Nobody => timer \in expired)'
  BY <1>9 DEF FreedHeld
<1>10. ASSUME FreeRequest PROVE (timer # Nobody => timer \in expired)'
  BY <1>10, FreeRequestMoves
<1>11. ASSUME EndTimeout PROVE (timer # Nobody => timer \in expired)'
  BY <1>11 DEF EndTimeout
<1> QED BY <1>1, <1>2, <1>3, <1>4, <1>5, <1>6, <1>7, <1>8, <1>9, <1>10, <1>11
  DEF Next, Call, InCall, Step, Orders, Events, Closings, Expire, Quiet, QuietCall

-----------------------------------------------------------------------------
\* What comes to a closed file was made while the stream was being closed.
LEMMA RacedStep ==
    ASSUME IInv, Next
    PROVE  RacedInv'
<1> USE DEF IInv, Types, Rest, RacedInv, Actors, Emptying, In
<1>1. ASSUME NEW a \in Actors, Request(a) PROVE RacedInv'
  <2>1. history'.raced = history.raced /\ history'.misused = history.misused
    BY <1>1 DEF Request, History
  <2> QED BY <1>1, <2>1 DEF Request
<1>2. ASSUME NEW a \in Actors, AddTask(a) PROVE RacedInv'
  BY <1>2 DEF AddTask, MayCall, History
<1>3. ASSUME NEW a \in Actors, Close(a) PROVE RacedInv'
  <2>1. history'.raced = history.raced \cup InFlight /\ history'.misused = history.misused
    BY <1>3 DEF Close, History
  <2>2. /\ pc[a] = "outside" /\ pc' = [pc EXCEPT ![a] = "pushClosing"]
        /\ instance'.freed = instance.freed
        /\ UNCHANGED <<slot, held, req, pass>>
    BY <1>3 DEF Close
  <2> QED BY <2>1, <2>2 DEF InFlight
<1>4. ASSUME NEW a \in Actors, Start(a) PROVE RacedInv'
  BY <1>4 DEF Start, Pass, ReleaseInv
<1>5. ASSUME NEW a \in Actors, Release(a) PROVE RacedInv'
  BY <1>5 DEF Release, MayCall, Signal
<1>6. ASSUME NEW a \in Actors, GetIoInstance(a) PROVE RacedInv'
  <2>1. /\ history'.raced = IF closer # Nobody THEN history.raced \cup {req[a]} ELSE history.raced
        /\ history'.misused = history.misused
    BY <1>6 DEF GetIoInstance, Closing, History
  <2>2. pc[a] = "getIoInstance" /\ pc' = [pc EXCEPT ![a] = IF opened THEN "request" ELSE "refused"]
    BY <1>6 DEF GetIoInstance
  <2>3. UNCHANGED <<instance, slot, held, req, pass>>
    BY <1>6 DEF GetIoInstance
  <2>4. instance.closing /\ opened => closer # Nobody
    BY DEF ClosingInv
  <2> QED BY <2>1, <2>2, <2>3, <2>4
<1>7. ASSUME NEW a \in Actors, TestSlot(a) PROVE RacedInv'
  BY <1>7 DEF TestSlot
<1>8. ASSUME NEW a \in Actors, SetRequest(a) PROVE RacedInv'
  <2>1. history'.raced = history.raced /\ history'.misused = history.misused
    BY <1>8 DEF SetRequest, History
  <2>2. /\ pc[a] = "setRequest" /\ pc' = [pc EXCEPT ![a] = "requestOrder"]
        /\ slot' = [slot EXCEPT ![Dir[req[a]]] = req[a]] /\ UNCHANGED <<instance, held, req, pass>>
    BY <1>8 DEF SetRequest
  <2>3. instance.freed => instance.closing
    BY DEF ClosingInv
  <2> QED BY <2>1, <2>2, <2>3
<1>9. ASSUME NEW a \in Actors, Refused(a) PROVE RacedInv'
  <2>1. history'.raced = history.raced /\ history'.misused = history.misused
    BY <1>9, RefusedMoves
  <2>2. /\ UNCHANGED <<instance, slot, held>> /\ \A b \in Actors : b # a => pc'[b] = pc[b] /\ req'[b] = req[b]
        /\ pc'[a] = "outside"
    BY <1>9 DEF Refused
  <2>3. \/ pass' = pass
        \/ pass'.at = "callback" /\ pass'.back = "next" /\ pass.at \in {"next", "callback"} /\ pass.back = "next"
    BY <1>9 DEF Refused, PassInv, Pass
  <2> QED BY <2>1, <2>2, <2>3
<1>10. ASSUME NEW a \in Actors, RequestOrder(a) PROVE RacedInv'
  BY <1>10 DEF RequestOrder, Order
<1>11. ASSUME NEW a \in Actors, Wake(a) PROVE RacedInv'
  BY <1>11 DEF Wake, Signal, History
<1>12. ASSUME NEW a \in Actors, PushClosing(a) PROVE RacedInv'
  BY <1>12 DEF PushClosing
<1>13. ASSUME NEW a \in Actors, SetNull(a) PROVE RacedInv'
  BY <1>13 DEF SetNull
<1>14. ASSUME NEW a \in Actors, FinishAndWait(a) PROVE RacedInv'
  BY <1>14 DEF FinishAndWait, Ended, History
<1>15. ASSUME NEW a \in Actors, CloseHandle(a) PROVE RacedInv'
  BY <1>15 DEF CloseHandle
<1>16. ASSUME While PROVE RacedInv'
  BY <1>16, NewPassMoves
<1>17. ASSUME RunTask PROVE RacedInv'
  BY <1>17 DEF RunTask, Pass
<1>18. ASSUME TakeOrders PROVE RacedInv'
  BY <1>18 DEF TakeOrders, AfterOrder, Pass
<1>19. ASSUME ProcessOrder PROVE RacedInv'
  BY <1>19, UseFacts DEF ProcessOrder, Ordered, Pass
<1>20. ASSUME Take \/ NextRequest PROVE RacedInv'
  <2>1. /\ UNCHANGED <<instance, req, history>> /\ pass.at \in {"take", "next"}
        /\ pass.dirs # <<>>
        /\ \/ /\ pass'.at \in {"take", "epoll_wait", "orders", "events"} /\ slot' = slot /\ held' = held
           \/ /\ pass'.at = "io" /\ held[Direction] # Nobody /\ pass'.req = held[Direction]
              /\ slot' = slot /\ held' = [held EXCEPT ![Direction] = Nobody]
           \/ /\ pass'.at = "io" /\ slot[Direction] # Nobody /\ pass'.req = slot[Direction]
              /\ slot' = [slot EXCEPT ![Direction] = Nobody] /\ held' = held
    BY <1>20, TakeMoves DEF AfterDirection
  <2>2. Direction \in Dirs /\ (instance.freed /\ held[Direction] # Nobody => held[Direction] \in history.raced)
    BY <2>1, DirectionFacts
  <2>3. \A a \in Actors : pc'[a] \in {"request", "setRequest"} => pc'[a] = pc[a]
    BY <1>20, TakeMoves DEF LoopOnly
  <2> QED BY <2>1, <2>2, <2>3
<1>21. ASSUME Done \/ Failed PROVE RacedInv'
  <2>1. /\ UNCHANGED <<instance, slot, held>> /\ pass.at = "io" /\ pass'.at \in {"next", "callback"}
        /\ pass'.back = "next" /\ history'.raced = history.raced
        /\ history'.misused = IF instance.freed THEN history.misused \cup {pass.req} ELSE history.misused
    BY <1>21, ServedMoves DEF Kept
  <2>3. \A a \in Actors : pc'[a] \in {"request", "setRequest"} => pc'[a] = pc[a] /\ req'[a] = req[a]
    BY <1>21, ServedMoves DEF LoopOnly
  <2> QED BY <2>1, <2>3
<1>22. ASSUME WouldBlock PROVE RacedInv'
  <2>1. /\ UNCHANGED <<instance, req, slot>> /\ pass.at = "io" /\ pass'.at # "io"
        /\ history'.raced = history.raced /\ held' = [held EXCEPT ![Direction] = pass.req]
        /\ history'.misused = IF instance.freed THEN history.misused \cup {pass.req} ELSE history.misused
    BY <1>22, HoldMoves DEF Kept, AfterDirection
  <2>3. \A a \in Actors : pc'[a] \in {"request", "setRequest"} => pc'[a] = pc[a]
    BY <1>22, HoldMoves DEF LoopOnly
  <2> QED BY <2>1, <2>3
<1>23. ASSUME EndCallback PROVE RacedInv'
  BY <1>23 DEF EndCallback, Pass, PassInv
<1>24. ASSUME WakeEvent PROVE RacedInv'
  BY <1>24 DEF WakeEvent, Pass
<1>25. ASSUME FileEvent PROVE RacedInv'
  BY <1>25, FoundFacts DEF FileEvent, Pass
<1>26. ASSUME EndEvents PROVE RacedInv'
  BY <1>26, NewPassMoves
<1>27. ASSUME DetachInstance PROVE RacedInv'
  BY <1>27, HeldFacts DEF DetachInstance, Pass
<1>28. ASSUME EndStep PROVE RacedInv'
  BY <1>28 DEF EndStep, Pass
<1>29. ASSUME FreeHeld PROVE RacedInv'
  BY <1>29, FreeHeldMoves DEF Kept
<1>30. ASSUME FreedHeld PROVE RacedInv'
  BY <1>30 DEF FreedHeld, Pass, PassInv
<1>31. ASSUME CloseFile PROVE RacedInv'
  <2>1. /\ history'.raced = history.raced /\ history'.misused = history.misused
        /\ UNCHANGED <<slot, held, pc, req>> /\ pass'.at = "_freeRequests" /\ pass'.dirs = Some(InUse)
        /\ instance'.closing = instance.closing /\ Detached /\ pass.dirs = <<>>
    BY <1>31 DEF CloseFile, History, Pass, Detached
  <2>2. \A d \in Dirs : slot[d] # Nobody => d \in InUse
    BY DEF SlotsInv, InUse, OrNobody
  <2>3. \A d \in Dirs : held[d] = Nobody
    <3>1. Elems(<<>>) = {}
      BY DirsFacts DEF DirSeqs
    <3> QED BY <2>1, <3>1 DEF SlotsInv
  <2> QED BY <2>1, <2>2, <2>3, UseFacts
<1>32. ASSUME FreeRequest PROVE RacedInv'
  <2>1. /\ history'.raced = history.raced /\ history'.misused = history.misused
        /\ UNCHANGED <<instance, held, pc, req>> /\ slot' = [slot EXCEPT ![Direction] = Nobody]
        /\ pass.dirs # <<>> /\ pass'.dirs = Tail(pass.dirs) /\ pass'.at # "io"
        /\ Tail(pass.dirs) # <<>> =>
              pass'.at = "_freeRequests" \/ (pass'.at = "callback" /\ pass'.back = "_freeRequests")
    BY <1>32, FreeRequestMoves DEF Kept
  <2> SUFFICES ASSUME instance.freed, NEW d \in Dirs, slot'[d] # Nobody
               PROVE  slot'[d] \in history.raced \/ (Emptying' /\ d \in Elems(pass'.dirs))
    BY <2>1
  <2>2. d # Direction /\ slot'[d] = slot[d]
    BY <2>1, DirectionFacts
  <2>3. CASE d \in Elems(pass.dirs)
    <3>1. d \in Elems(Tail(pass.dirs)) /\ Tail(pass.dirs) # <<>>
      BY <2>1, <2>2, <2>3, DirectionFacts
    <3> QED BY <2>1, <3>1
  <2>4. CASE d \notin Elems(pass.dirs)
    BY <2>2, <2>4
  <2> QED BY <2>3, <2>4
<1>33. ASSUME EpollWait PROVE RacedInv'
  BY <1>33 DEF EpollWait, Pass
<1>34. ASSUME Timeout PROVE RacedInv'
  <2>1. /\ history'.raced = history.raced /\ history'.misused = history.misused
        /\ UNCHANGED <<loop, queues, stream, requests, pc, req, pass>>
    BY <1>34, TimeoutMoves DEF Kept
  <2> QED BY <2>1
<1>35. ASSUME EndTimeout PROVE RacedInv'
  BY <1>35 DEF EndTimeout
<1>36. ASSUME FileChanges PROVE RacedInv'
  BY <1>36 DEF FileChanges
<1> QED BY <1>1, <1>2, <1>3, <1>4, <1>5, <1>6, <1>7, <1>8, <1>9, <1>10, <1>11, <1>12, <1>13,
     <1>14, <1>15, <1>16, <1>17, <1>18, <1>19, <1>20, <1>21, <1>22, <1>23, <1>24, <1>25, <1>26,
     <1>27, <1>28, <1>29, <1>30, <1>31, <1>32, <1>33, <1>34, <1>35, <1>36
  DEF Next, Call, InCall, Step, Orders, Process, Events, Closings, Expire

\* What is queued has its wake-up: a thread queues first and wakes the loop after it, and
\* the flag of the wake event is reset before the queues are looked at.
LEMMA WakeStep ==
    ASSUME IInv, Next
    PROVE  WakeInv'
<1> USE DEF IInv, Types, Rest, WakeInv, AfterOrders, AfterTasks, AfterClosings, Serving, In,
     Signalled, Actors
<1>1. ASSUME Process PROVE WakeInv'
  <2>1. /\ pass.at \in {"take", "io", "next"} /\ UNCHANGED <<loop, queues, wake>>
        /\ history'.early = history.early
        /\ pass'.at \in {"take", "io", "next", "callback", "epoll_wait", "orders", "events"}
        /\ (pass'.at = "callback" => pass'.back = "next") /\ pass'.events = pass.events
    BY <1>1, ServeMoves DEF Kept
  <2>2. pass'.of = pass.of \/ (pass.of = "event" /\ pass'.at = "events")
    BY <1>1, ServeMoves
  <2>3. pass'.at \in {"epoll_wait", "orders"} => pass.of = "order"
    BY <1>1, ServeMoves
  <2>4. \A a \in Actors : pc[a] = "wake" => pc'[a] = "wake"
    <3>1. LoopOnly
      BY <1>1, ServeMoves
    <3> QED BY <3>1 DEF LoopOnly
  <2> QED BY <2>1, <2>2, <2>3, <2>4
<1>2. ASSUME NEW a \in Actors, Request(a) PROVE WakeInv'
  BY <1>2 DEF Request, MayCall, History
<1>3. ASSUME NEW a \in Actors, AddTask(a) PROVE WakeInv'
  BY <1>3 DEF AddTask, MayCall, History
<1>4. ASSUME NEW a \in Actors, Close(a) PROVE WakeInv'
  BY <1>4 DEF Close, MayCall, InFlight, History
<1>5. ASSUME NEW a \in Actors, Start(a) PROVE WakeInv'
  BY <1>5 DEF Start, Pass, ReleaseInv
<1>6. ASSUME NEW a \in Actors, Release(a) PROVE WakeInv'
  BY <1>6 DEF Release, MayCall, Signal
<1>7. ASSUME NEW a \in Actors, GetIoInstance(a) PROVE WakeInv'
  BY <1>7 DEF GetIoInstance, Closing, History
<1>8. ASSUME NEW a \in Actors, TestSlot(a) PROVE WakeInv'
  BY <1>8 DEF TestSlot
<1>9. ASSUME NEW a \in Actors, SetRequest(a) PROVE WakeInv'
  BY <1>9 DEF SetRequest, History
<1>10. ASSUME NEW a \in Actors, Refused(a) PROVE WakeInv'
  <2>1. history'.early = history.early /\ UNCHANGED <<loop, queues, wake>>
    BY <1>10, RefusedMoves DEF Refused
  <2>2. \A b \in Actors : pc[b] = "wake" => pc'[b] = "wake"
    BY <1>10 DEF Refused
  <2>3. \/ pass' = pass
        \/ /\ pass'.at = "callback" /\ pass'.back = "next" /\ pass.at \in {"next", "callback"}
           /\ pass.back = "next" /\ pass'.of = pass.of /\ pass'.events = pass.events
    BY <1>10 DEF Refused, PassInv, Pass
  <2> QED BY <2>1, <2>2, <2>3
<1>11. ASSUME NEW a \in Actors, RequestOrder(a) PROVE WakeInv'
  BY <1>11 DEF RequestOrder, Order
<1>12. ASSUME NEW a \in Actors, Wake(a) PROVE WakeInv'
  <2>1. /\ history'.early = (history.early \/ (queueClosing > 0 /\ ~loop.running))
        /\ UNCHANGED <<loop, queues, pass>>
    BY <1>12 DEF Wake, History
  <2>2. IF loop.running THEN wake' = IF wake.set THEN wake ELSE [set |-> TRUE, event |-> TRUE] ELSE wake' = wake
    BY <1>12 DEF Wake, Signal
  <2>3. "wake" \in pass.events => ~AfterClosings
    BY DEF PassInv
  <2>4. AfterTasks => AfterClosings
    OBVIOUS
  <2>5. AfterOrders => AfterTasks
    OBVIOUS
  <2>6. loop.running => loop.init
    BY DEF ReleaseInv
  <2>7. loop.running /\ AfterClosings => wake'.event
    BY <2>2, <2>3, <2>6
  <2>8. CASE loop.running
    BY <2>1, <2>2, <2>4, <2>5, <2>6, <2>7, <2>8
  <2>9. CASE ~loop.running
    BY <2>1, <2>2, <2>9
  <2> QED BY <2>8, <2>9
<1>13. ASSUME NEW a \in Actors, PushClosing(a) PROVE WakeInv'
  BY <1>13 DEF PushClosing
<1>14. ASSUME NEW a \in Actors, SetNull(a) PROVE WakeInv'
  BY <1>14 DEF SetNull
<1>15. ASSUME NEW a \in Actors, FinishAndWait(a) PROVE WakeInv'
  BY <1>15 DEF FinishAndWait, Ended, History
<1>16. ASSUME NEW a \in Actors, CloseHandle(a) PROVE WakeInv'
  BY <1>16 DEF CloseHandle
<1>17. ASSUME While PROVE WakeInv'
  <2>1. /\ pass.at = "while" /\ pass'.of = "order" /\ pass'.events = {}
        /\ UNCHANGED <<loop, queueOrder, queueClosing, wake, pc, history>>
        /\ \/ loop.running /\ pass'.at = "tasks" /\ queueTasks' = 0
           \/ ~loop.running /\ pass'.at = "ended"
    BY <1>17, NewPassMoves DEF While
  <2>2. "wake" \notin pass.events
    BY <2>1 DEF PassInv
  <2> QED BY <2>1, <2>2
<1>18. ASSUME RunTask PROVE WakeInv'
  BY <1>18 DEF RunTask, Pass
<1>19. ASSUME TakeOrders PROVE WakeInv'
  BY <1>19 DEF TakeOrders, AfterOrder, Pass
<1>20. ASSUME ProcessOrder PROVE WakeInv'
  BY <1>20, UseFacts DEF ProcessOrder, Ordered, Pass
<1>21. ASSUME EndCallback PROVE WakeInv'
  BY <1>21 DEF EndCallback, Pass, PassInv
<1>22. ASSUME WakeEvent PROVE WakeInv'
  BY <1>22 DEF WakeEvent, Pass, PassInv
<1>23. ASSUME FileEvent PROVE WakeInv'
  BY <1>23, FoundFacts DEF FileEvent, Pass, PassInv
<1>24. ASSUME EndEvents PROVE WakeInv'
  <2>1. /\ pass.at = "events" /\ pass'.of = "order" /\ pass'.events = {}
        /\ UNCHANGED <<loop, queues, wake, pc, history>>
        /\ \/ loop.running /\ pass.events = {} /\ pass'.at = "stepEnd"
           \/ ~loop.running /\ pass'.at = "while"
    BY <1>24, NewPassMoves DEF EndEvents
  <2>2. ~loop.running => ~loop.init
    BY <2>1 DEF ReleaseInv
  <2> QED BY <2>1, <2>2
<1>25. ASSUME DetachInstance PROVE WakeInv'
  BY <1>25, HeldFacts DEF DetachInstance, Pass
<1>26. ASSUME EndStep PROVE WakeInv'
  BY <1>26 DEF EndStep, Pass
<1>27. ASSUME FreeHeld PROVE WakeInv'
  BY <1>27, FreeHeldMoves DEF Kept
<1>28. ASSUME FreedHeld PROVE WakeInv'
  BY <1>28 DEF FreedHeld, Pass
<1>29. ASSUME CloseFile PROVE WakeInv'
  BY <1>29, UseFacts DEF CloseFile, Pass, History
<1>30. ASSUME FreeRequest PROVE WakeInv'
  BY <1>30, FreeRequestMoves DEF Kept
<1>31. ASSUME EpollWait PROVE WakeInv'
  BY <1>31 DEF EpollWait, Pass, PassInv
<1>32. ASSUME Timeout PROVE WakeInv'
  BY <1>32, TimeoutMoves DEF Kept
<1>33. ASSUME EndTimeout PROVE WakeInv'
  BY <1>33 DEF EndTimeout
<1>34. ASSUME FileChanges PROVE WakeInv'
  BY <1>34 DEF FileChanges
<1> QED BY <1>1, <1>2, <1>3, <1>4, <1>5, <1>6, <1>7, <1>8, <1>9, <1>10, <1>11, <1>12, <1>13,
     <1>14, <1>15, <1>16, <1>17, <1>18, <1>19, <1>20, <1>21, <1>22, <1>23, <1>24, <1>25, <1>26,
     <1>27, <1>28, <1>29, <1>30, <1>31, <1>32, <1>33, <1>34
  DEF Next, Call, InCall, Step, Orders, Events, Closings, Expire

\* A request in a slot will be looked for: m_flagOrdering is reset before the slots are.
LEMMA OrderStep ==
    ASSUME IInv, Next
    PROVE  OrderInv'
<1> USE DEF IInv, Types, Rest, OrderInv, Serving, Detached, Emptying, In, Actors
<1>1. ASSUME NEW a \in Actors, Request(a) PROVE OrderInv'
  BY <1>1 DEF Request, MayCall
<1>2. ASSUME NEW a \in Actors, AddTask(a) PROVE OrderInv'
  BY <1>2 DEF AddTask, MayCall
<1>3. ASSUME NEW a \in Actors, Close(a) PROVE OrderInv'
  BY <1>3 DEF Close, MayCall, InFlight
<1>4. ASSUME NEW a \in Actors, Start(a) PROVE OrderInv'
  BY <1>4 DEF Start, Pass, ReleaseInv
<1>5. ASSUME NEW a \in Actors, Release(a) PROVE OrderInv'
  BY <1>5 DEF Release, MayCall, Signal
<1>6. ASSUME NEW a \in Actors, GetIoInstance(a) PROVE OrderInv'
  BY <1>6 DEF GetIoInstance, Closing
<1>7. ASSUME NEW a \in Actors, TestSlot(a) PROVE OrderInv'
  BY <1>7 DEF TestSlot
<1>8. ASSUME NEW a \in Actors, SetRequest(a) PROVE OrderInv'
  <2>1. pc'[a] = "requestOrder" /\ loop' = loop
    BY <1>8 DEF SetRequest
  <2> QED BY <2>1
<1>9. ASSUME NEW a \in Actors, Refused(a) PROVE OrderInv'
  <2>1. /\ UNCHANGED <<loop, queues, slot, held>>
    BY <1>9 DEF Refused
  <2>2. \A b \in Actors : pc[b] = "requestOrder" => pc'[b] = "requestOrder"
    BY <1>9 DEF Refused
  <2>3. \/ pass' = pass
        \/ /\ pass'.at = "callback" /\ pass'.back = "next" /\ pass.at \in {"next", "callback"}
           /\ pass.back = "next" /\ pass'.of = pass.of /\ pass'.dirs = pass.dirs
           /\ pass'.orders = pass.orders
    BY <1>9 DEF Refused, PassInv, Pass
  <2> QED BY <2>1, <2>2, <2>3
<1>10. ASSUME NEW a \in Actors, RequestOrder(a) PROVE OrderInv'
  <2>1. loop.init /\ ~instance.ordering => queueOrder' + pass'.orders > 0
    BY <1>10, Counts DEF RequestOrder, Order
  <2>2. loop.init /\ instance.ordering => queueOrder' + pass'.orders > 0
    BY <1>10, Counts DEF RequestOrder, Order, QueueInv, ReleaseInv
  <2> QED BY <1>10, <2>1, <2>2 DEF RequestOrder
<1>11. ASSUME NEW a \in Actors, Wake(a) PROVE OrderInv'
  BY <1>11 DEF Wake, Signal
<1>12. ASSUME NEW a \in Actors, PushClosing(a) PROVE OrderInv'
  BY <1>12 DEF PushClosing
<1>13. ASSUME NEW a \in Actors, SetNull(a) PROVE OrderInv'
  BY <1>13 DEF SetNull
<1>14. ASSUME NEW a \in Actors, FinishAndWait(a) PROVE OrderInv'
  BY <1>14 DEF FinishAndWait, Ended
<1>15. ASSUME NEW a \in Actors, CloseHandle(a) PROVE OrderInv'
  BY <1>15 DEF CloseHandle, ReleaseInv, Releasing
<1>16. ASSUME While PROVE OrderInv'
  BY <1>16, NewPassMoves DEF PassInv, QueueInv
<1>17. ASSUME RunTask PROVE OrderInv'
  BY <1>17 DEF RunTask, Pass
<1>18. ASSUME TakeOrders PROVE OrderInv'
  <2>1. /\ pass'.orders = queueOrder /\ queueOrder' = 0 /\ pass.at = "tasks"
        /\ UNCHANGED <<loop, slot, held, pc>> /\ pass'.of = pass.of
    BY <1>18 DEF TakeOrders, Pass
  <2>2. pass.orders = 0
    BY <2>1 DEF QueueInv
  <2> QED BY <2>1, <2>2, Counts
<1>19. ASSUME ProcessOrder PROVE OrderInv'
  <2>1. pass'.at = "take" /\ pass'.dirs = Some(InUse) /\ UNCHANGED <<loop, slot>>
    BY <1>19 DEF ProcessOrder, Pass
  <2>2. \A d \in Dirs : slot[d] # Nobody => d \in InUse
    BY DEF SlotsInv, InUse, OrNobody
  <2> QED BY <2>1, <2>2, UseFacts
<1>20. ASSUME Take \/ NextRequest PROVE OrderInv'
  <2>1. /\ pass.at \in {"take", "next"} /\ pass.dirs # <<>> /\ UNCHANGED <<loop, queues>>
    BY <1>20, TakeMoves
  <2>2. \A a \in Actors : pc[a] = "requestOrder" => pc'[a] = "requestOrder"
    BY <1>20, TakeMoves DEF LoopOnly
  <2>3. Direction \in Dirs /\ Direction \in Elems(pass.dirs) /\ pass'.orders = pass.orders
    BY <1>20, <2>1, TakeMoves, DirectionFacts DEF AfterDirection
  <2>4. loop.stopping => ~loop.init
    BY DEF ReleaseInv
  <2>5. CASE pass'.at = "io"
    <3>1. /\ pass'.dirs = pass.dirs /\ pass'.of = pass.of
          /\ \/ held' = [held EXCEPT ![Direction] = Nobody] /\ slot' = slot
             \/ slot' = [slot EXCEPT ![Direction] = Nobody] /\ held' = held
      BY <1>20, <2>5, TakeMoves DEF AfterDirection
    <3> QED BY <2>1, <2>2, <2>3, <2>5, <3>1
  <2>6. CASE pass'.at # "io"
    <3>1. /\ AfterDirection /\ slot' = slot /\ held' = held
          /\ slot[Direction] = Nobody \/ loop.stopping
      BY <1>20, <2>6, TakeMoves
    <3>2. pass.of = "event" => pass'.of = "event" \/ pc'[Loop] = "requestOrder"
      BY <2>1, <3>1, ConstantsAssumption DEF AfterDirection
    <3>3. \A d \in Dirs : d \in Elems(pass.dirs) /\ d # Direction =>
             pass'.at = "take" /\ d \in Elems(pass'.dirs)
      BY <2>1, <3>1, DirectionFacts DEF AfterDirection
    <3> HIDE <2>6
    <3> QED BY <2>1, <2>2, <2>3, <2>4, <3>1, <3>2, <3>3
  <2> QED BY <2>5, <2>6
<1>21. ASSUME Done \/ Failed PROVE OrderInv'
  <2>1. /\ pass.at = "io" /\ UNCHANGED <<loop, queues, slot, held>>
        /\ pass'.at \in {"next", "callback"}
        /\ pass'.back = "next" /\ pass'.dirs = pass.dirs /\ pass'.of = pass.of
        /\ pass'.orders = pass.orders
    BY <1>21, ServedMoves
  <2>2. \A a \in Actors : pc[a] = "requestOrder" => pc'[a] = "requestOrder"
    BY <1>21, ServedMoves DEF LoopOnly
  <2> QED BY <2>1, <2>2
<1>22. ASSUME WouldBlock PROVE OrderInv'
  <2>1. /\ pass.at = "io" /\ pass.dirs # <<>> /\ UNCHANGED <<loop, queues, slot>>
        /\ pass.req \in Requests
        /\ AfterDirection /\ held' = [held EXCEPT ![Direction] = pass.req]
    BY <1>22, HoldMoves
  <2>2. \A a \in Actors : pc[a] = "requestOrder" => pc'[a] = "requestOrder"
    BY <1>22, HoldMoves DEF LoopOnly
  <2>3. Direction \in Dirs /\ held'[Direction] # Nobody /\ pass'.orders = pass.orders
    BY <2>1, DirectionFacts, ConstantsAssumption DEF AfterDirection
  <2>4. pass.of = "event" => pass'.of = "event" \/ pc'[Loop] = "requestOrder"
    BY <2>1 DEF AfterDirection
  <2>5. \A d \in Dirs : d \in Elems(pass.dirs) /\ d # Direction =>
           pass'.at = "take" /\ d \in Elems(pass'.dirs)
    BY <2>1, DirectionFacts DEF AfterDirection
  <2>6. \A d \in Dirs : held[d] # Nobody => held'[d] # Nobody
    BY <2>1, <2>3
  <2> QED BY <2>1, <2>2, <2>3, <2>4, <2>5, <2>6
<1>23. ASSUME EndCallback PROVE OrderInv'
  BY <1>23 DEF EndCallback, Pass, PassInv
<1>24. ASSUME WakeEvent PROVE OrderInv'
  BY <1>24 DEF WakeEvent, Pass
<1>25. ASSUME FileEvent PROVE OrderInv'
  BY <1>25, FoundFacts DEF FileEvent, Pass, PassInv
<1>26. ASSUME EndEvents PROVE OrderInv'
  BY <1>26, NewPassMoves DEF PassInv, QueueInv
<1>27. ASSUME DetachInstance PROVE OrderInv'
  BY <1>27, HeldFacts DEF DetachInstance, Pass
<1>28. ASSUME EndStep PROVE OrderInv'
  BY <1>28 DEF EndStep, Pass
<1>29. ASSUME FreeHeld PROVE OrderInv'
  BY <1>29, FreeHeldMoves
<1>30. ASSUME FreedHeld PROVE OrderInv'
  BY <1>30 DEF FreedHeld, Pass, PassInv
<1>31. ASSUME CloseFile PROVE OrderInv'
  <2>1. pass'.at = "_freeRequests" /\ pass'.dirs = Some(InUse) /\ UNCHANGED <<loop, slot>>
    BY <1>31 DEF CloseFile, Pass
  <2>2. \A d \in Dirs : slot[d] # Nobody => d \in InUse
    BY DEF SlotsInv, InUse, OrNobody
  <2> QED BY <2>1, <2>2, UseFacts
<1>32. ASSUME FreeRequest PROVE OrderInv'
  <2>1. /\ pass.at = "_freeRequests" /\ pass.dirs # <<>> /\ pass'.dirs = Tail(pass.dirs)
        /\ UNCHANGED <<loop, queues, held, pc>> /\ slot' = [slot EXCEPT ![Direction] = Nobody]
        /\ pass'.orders = pass.orders /\ pass'.of = pass.of
        /\ Tail(pass.dirs) # <<>> =>
              pass'.at = "_freeRequests" \/ (pass'.at = "callback" /\ pass'.back = "_freeRequests")
    BY <1>32, FreeRequestMoves
  <2>2. \A d \in Dirs : slot'[d] # Nobody => slot[d] # Nobody /\ d # Direction
    BY <2>1, DirectionFacts
  <2>3. \A d \in Dirs : d # Direction /\ d \in Elems(pass.dirs) => d \in Elems(pass'.dirs) /\ Tail(pass.dirs) # <<>>
    BY <2>1, DirectionFacts
  <2> QED BY <2>1, <2>2, <2>3
<1>33. ASSUME EpollWait PROVE OrderInv'
  BY <1>33 DEF EpollWait, Pass
<1>34. ASSUME Timeout PROVE OrderInv'
  BY <1>34, TimeoutMoves
<1>35. ASSUME EndTimeout PROVE OrderInv'
  BY <1>35 DEF EndTimeout
<1>36. ASSUME FileChanges PROVE OrderInv'
  BY <1>36 DEF FileChanges
<1> QED BY <1>1, <1>2, <1>3, <1>4, <1>5, <1>6, <1>7, <1>8, <1>9, <1>10, <1>11, <1>12, <1>13,
     <1>14, <1>15, <1>16, <1>17, <1>18, <1>19, <1>20, <1>21, <1>22, <1>23, <1>24, <1>25, <1>26,
     <1>27, <1>28, <1>29, <1>30, <1>31, <1>32, <1>33, <1>34, <1>35, <1>36
  DEF Next, Call, InCall, Step, Orders, Process, Events, Closings, Expire

\* A request that is held has an event to come, or the stream is closed.
LEMMA HeldStep ==
    ASSUME IInv, Next
    PROVE  HeldInv'
<1> USE DEF IInv, Types, Rest, HeldInv, Serving, Detached, In, Actors
<1>1. ASSUME NEW a \in Actors, Request(a) PROVE HeldInv'
  BY <1>1 DEF Request, MayCall
<1>2. ASSUME NEW a \in Actors, AddTask(a) PROVE HeldInv'
  BY <1>2 DEF AddTask, MayCall
<1>3. ASSUME NEW a \in Actors, Close(a) PROVE HeldInv'
  BY <1>3 DEF Close, MayCall, InFlight
<1>4. ASSUME NEW a \in Actors, Start(a) PROVE HeldInv'
  BY <1>4 DEF Start, Pass, ReleaseInv
<1>5. ASSUME NEW a \in Actors, Release(a) PROVE HeldInv'
  BY <1>5 DEF Release, MayCall, Signal
<1>6. ASSUME NEW a \in Actors, GetIoInstance(a) PROVE HeldInv'
  BY <1>6 DEF GetIoInstance, Closing
<1>7. ASSUME NEW a \in Actors, TestSlot(a) PROVE HeldInv'
  BY <1>7 DEF TestSlot
<1>8. ASSUME NEW a \in Actors, SetRequest(a) PROVE HeldInv'
  BY <1>8 DEF SetRequest
<1>9. ASSUME NEW a \in Actors, Refused(a) PROVE HeldInv'
  <2>1. /\ UNCHANGED <<loop, held, ready, pending, instance>>
    BY <1>9 DEF Refused
  <2>3. \/ pass' = pass
        \/ /\ pass'.at = "callback" /\ pass'.back = "next" /\ pass.at \in {"next", "callback"}
           /\ pass.back = "next" /\ pass'.found = pass.found /\ pass'.dirs = pass.dirs
           /\ pass'.events = pass.events
    BY <1>9 DEF Refused, PassInv, Pass
  <2> QED BY <2>1, <2>3
<1>10. ASSUME NEW a \in Actors, RequestOrder(a) PROVE HeldInv'
  BY <1>10 DEF RequestOrder, Order
<1>11. ASSUME NEW a \in Actors, Wake(a) PROVE HeldInv'
  BY <1>11 DEF Wake, Signal
<1>12. ASSUME NEW a \in Actors, PushClosing(a) PROVE HeldInv'
  BY <1>12 DEF PushClosing
<1>13. ASSUME NEW a \in Actors, SetNull(a) PROVE HeldInv'
  BY <1>13 DEF SetNull
<1>14. ASSUME NEW a \in Actors, FinishAndWait(a) PROVE HeldInv'
  BY <1>14 DEF FinishAndWait, Ended
<1>15. ASSUME NEW a \in Actors, CloseHandle(a) PROVE HeldInv'
  BY <1>15 DEF CloseHandle
<1>16. ASSUME While PROVE HeldInv'
  <2>1. pass.at = "while" /\ UNCHANGED <<loop, held, ready, pending, instance>>
    BY <1>16 DEF While
  <2>2. "file" \notin pass.events /\ ~Serving
    BY <2>1 DEF PassInv
  <2> QED BY <2>1, <2>2
<1>17. ASSUME RunTask PROVE HeldInv'
  BY <1>17 DEF RunTask, Pass
<1>18. ASSUME TakeOrders PROVE HeldInv'
  BY <1>18 DEF TakeOrders, AfterOrder, Pass
<1>19. ASSUME ProcessOrder PROVE HeldInv'
  BY <1>19, UseFacts DEF ProcessOrder, Ordered, Pass, PassInv
<1>20. ASSUME Take \/ NextRequest PROVE HeldInv'
  <2>1. /\ pass.at \in {"take", "next"} /\ pass.dirs # <<>>
        /\ UNCHANGED <<loop, ready, pending, instance>>
    BY <1>20, TakeMoves
  <2>2. /\ Direction \in Dirs /\ (pass.at = "next" => held[Direction] = Nobody)
        /\ pass'.found = pass.found /\ pass'.events = pass.events
    BY <1>20, <2>1, TakeMoves, DirectionFacts DEF SlotsInv, In, AfterDirection
  <2>3. CASE pass'.at = "io"
    <3>1. /\ pass'.dirs = pass.dirs
          /\ held' = [held EXCEPT ![Direction] = Nobody] \/ held' = held
      BY <1>20, <2>3, TakeMoves DEF AfterDirection
    <3> QED BY <2>1, <2>2, <2>3, <3>1
  <2>4. CASE pass'.at # "io"
    <3>1. AfterDirection /\ held' = held /\ held[Direction] = Nobody
      BY <1>20, <2>1, <2>2, <2>4, TakeMoves
    <3>3. \A d \in Dirs : d \in Elems(pass.dirs) /\ d # Direction =>
             pass'.at = "take" /\ d \in Elems(pass'.dirs)
      BY <2>1, <3>1, DirectionFacts DEF AfterDirection
    <3> QED BY <2>1, <2>2, <3>1, <3>3
  <2> QED BY <2>3, <2>4
<1>21. ASSUME Done \/ Failed PROVE HeldInv'
  <2>1. /\ pass.at = "io" /\ UNCHANGED <<loop, pending, instance, held>>
        /\ pass'.at \in {"next", "callback"}
        /\ pass'.back = "next" /\ pass'.dirs = pass.dirs /\ pass'.found = pass.found
        /\ pass'.events = pass.events /\ \A d \in Dirs : d # Direction => ready'[d] = ready[d]
    BY <1>21, ServedMoves
  <2>2. held[Direction] = Nobody \/ Direction \notin Dirs
    BY <2>1 DEF SlotsInv
  <2> QED BY <2>1, <2>2
<1>22. ASSUME WouldBlock PROVE HeldInv'
  <2>1. /\ pass.at = "io" /\ pass.dirs # <<>> /\ UNCHANGED <<loop, ready, pending, instance>>
        /\ AfterDirection /\ held' = [held EXCEPT ![Direction] = pass.req]
        /\ ready[Direction] = "none" \/ instance.freed
    BY <1>22, HoldMoves
  <2>2. pass'.found = pass.found /\ pass'.events = pass.events
    BY <2>1 DEF AfterDirection
  <2>3. \A d \in Dirs : d \in Elems(pass.dirs) /\ d # Direction =>
           pass'.at = "take" /\ d \in Elems(pass'.dirs)
    BY <2>1, DirectionFacts DEF AfterDirection
  <2>4. instance.freed => instance.closing
    BY DEF ClosingInv
  <2> QED BY <2>1, <2>2, <2>3, <2>4
<1>23. ASSUME EndCallback PROVE HeldInv'
  BY <1>23 DEF EndCallback, Pass, PassInv
<1>24. ASSUME WakeEvent PROVE HeldInv'
  BY <1>24 DEF WakeEvent, Pass
<1>25. ASSUME FileEvent PROVE HeldInv'
  <2>1. /\ pass.at = "events" /\ "file" \in pass.events
        /\ UNCHANGED <<loop, instance, held, ready, pending>>
        /\ instance.closing \/ (pass'.at = "take" /\ pass'.dirs = Some(pass.found))
    BY <1>25 DEF FileEvent, Pass
  <2> QED BY <2>1, FoundFacts
<1>26. ASSUME EndEvents PROVE HeldInv'
  BY <1>26, NewPassMoves DEF PassInv, ReleaseInv
<1>27. ASSUME DetachInstance PROVE HeldInv'
  BY <1>27, HeldFacts DEF DetachInstance, Pass, ClosingInv
<1>28. ASSUME EndStep PROVE HeldInv'
  BY <1>28 DEF EndStep, Pass
<1>29. ASSUME FreeHeld PROVE HeldInv'
  BY <1>29, FreeHeldMoves
<1>30. ASSUME FreedHeld PROVE HeldInv'
  BY <1>30 DEF FreedHeld, Pass, PassInv, ClosingInv
<1>31. ASSUME CloseFile PROVE HeldInv'
  BY <1>31, UseFacts DEF CloseFile, Pass, ClosingInv
<1>32. ASSUME FreeRequest PROVE HeldInv'
  BY <1>32, FreeRequestMoves
<1>33. ASSUME EpollWait PROVE HeldInv'
  BY <1>33 DEF EpollWait, Pass, PassInv
<1>34. ASSUME Timeout PROVE HeldInv'
  BY <1>34, TimeoutMoves
<1>35. ASSUME EndTimeout PROVE HeldInv'
  BY <1>35 DEF EndTimeout
<1>36. ASSUME FileChanges PROVE HeldInv'
  <2>1. \A d \in Dirs : held[d] # Nobody => d \in InUse
    BY DEF SlotsInv, InUse, OrNobody
  <2>2. UNCHANGED <<loop, instance, held, pass>> /\ pending \subseteq pending'
    BY <1>36 DEF FileChanges
  <2>3. \A d \in InUse : ready'[d] = ready[d] \/ d \in pending'
    <3>1. CASE \E d \in InUse :
                  /\ ready[d] = "none" /\ ready' = [ready EXCEPT ![d] = "some"]
                  /\ pending' = pending \cup {d}
      BY <3>1
    <3>2. CASE \E e \in {{"read"}, {"read", "write"}} :
                  /\ ready["read"] = "none" /\ pending' = pending \cup (e \cap InUse)
                  /\ ready' = [d \in Dirs |-> IF d \in e THEN "end" ELSE ready[d]]
      BY <3>2, UseFacts
    <3> QED BY <1>36, <3>1, <3>2 DEF FileChanges
  <2> QED BY <2>1, <2>2, <2>3
<1> QED BY <1>1, <1>2, <1>3, <1>4, <1>5, <1>6, <1>7, <1>8, <1>9, <1>10, <1>11, <1>12, <1>13,
     <1>14, <1>15, <1>16, <1>17, <1>18, <1>19, <1>20, <1>21, <1>22, <1>23, <1>24, <1>25, <1>26,
     <1>27, <1>28, <1>29, <1>30, <1>31, <1>32, <1>33, <1>34, <1>35, <1>36
  DEF Next, Call, InCall, Step, Orders, Process, Events, Closings, Expire

-----------------------------------------------------------------------------
\* The invariant holds at first.
LEMMA InitInv == Init => IInv
<1> SUFFICES ASSUME Init PROVE IInv
  OBVIOUS
<1> USE DEF Init
<1>1. pass \in Pass
  BY ConstantsAssumption DEF NewPass, Pass, Passes, OrNobody, DirSeqs
<1>2. history \in History
  BY ConstantsAssumption DEF NewHistory, History
<1>3. Rest
  BY ConstantsAssumption DEF Rest, Steps, OrNobody
<1>4. /\ pass.at = "off" /\ pass.tasks = 0 /\ pass.orders = 0 /\ pass.dirs = <<>>
      /\ pass.of = "order"
      /\ pass.events = {} /\ pass.found = {} /\ pass.req = Nobody /\ pass.part = FALSE
  BY DEF NewPass
<1>5. /\ history.tasks = MaxTasks /\ history.left = Requests /\ history.lost = {}
      /\ history.misused = {}
      /\ history.closes = 0 /\ history.early = FALSE /\ \A r \in Requests : history.ran[r] = 0
  BY DEF NewHistory
<1>6. Nobody \notin Actors /\ Nobody \notin Requests /\ MaxTasks \in Nat /\ Loop # Nobody
  BY ConstantsAssumption DEF Actors
<1>7. QueueInv
  BY <1>4, <1>5, <1>6 DEF QueueInv
<1>8. PassInv
  BY <1>4, <1>6 DEF PassInv, Serving, Detached, Emptying, In, Actors
<1>9. ReleaseInv /\ ClosingInv
  BY <1>4, <1>5 DEF ReleaseInv, ClosingInv, Releasing, Detached, Emptying, In
<1>10. SlotsInv /\ RequesterInv
  BY <1>4 DEF SlotsInv, RequesterInv, Detached, In
<1>11. PlaceInv /\ AnswerInv
  <2> SUFFICES ASSUME NEW r \in Requests
               PROVE  OnePlace(r) /\ OneAnswer(r)
    BY DEF PlaceInv, AnswerInv
  <2>1. Dir[r] \in Dirs /\ r # Nobody
    BY <1>6, ConstantsAssumption
  <2>2. ~InSlot(r) /\ ~InHeld(r) /\ ~InIo(r) /\ \A a \in Actors : ~InCallOf(r, a)
    BY <1>4, <2>1 DEF InSlot, InHeld, InIo, InCallOf
  <2>3. ~Somewhere(r) /\ Answer(r) = 0
    BY <1>5, <2>2 DEF Somewhere, Answer, Expiry
  <2> QED BY <1>4, <1>5, <2>2, <2>3 DEF OnePlace, OneAnswer
<1>12. RacedInv /\ WakeInv
  BY <1>4, <1>5 DEF RacedInv, WakeInv, Emptying, In
<1>13. OrderInv /\ HeldInv
  BY DEF OrderInv, HeldInv
<1> QED BY <1>1, <1>2, <1>3, <1>7, <1>8, <1>9, <1>10, <1>11, <1>12, <1>13 DEF IInv, Types

\* A step that changes nothing keeps it.
LEMMA StutterStep == IInv /\ UNCHANGED vars => IInv'
<1> SUFFICES ASSUME IInv, UNCHANGED vars PROVE IInv'
  OBVIOUS
<1> USE DEF vars, IInv
<1>1. Types' /\ QueueInv' /\ PassInv'
  BY DEF Types, Rest, QueueInv, PassInv, Serving, Detached, Emptying, In
<1>2. ReleaseInv' /\ ClosingInv'
  BY DEF ReleaseInv, ClosingInv, Releasing, Detached, Emptying, In
<1>3. SlotsInv' /\ RequesterInv'
  BY DEF SlotsInv, RequesterInv, Detached, In, Direction
<1>4. Unmoved
  BY DEF Unmoved, NoneRan, InIo, InCallOf, Freeing, Direction
<1>5. PlaceInv' /\ AnswerInv'
  BY <1>4, UnmovedStep
<1>6. RacedInv' /\ WakeInv'
  BY DEF RacedInv, WakeInv, Signalled, AfterClosings, AfterTasks, AfterOrders, Serving,
       Emptying, In
<1>7. OrderInv' /\ HeldInv'
  BY DEF OrderInv, HeldInv, Serving, Detached, Emptying, In
<1> QED BY <1>1, <1>2, <1>3, <1>5, <1>6, <1>7

-----------------------------------------------------------------------------
\* The inductive invariant holds in every state.
THEOREM Invariance == Spec => []IInv
<1>1. Init => IInv
  BY InitInv
<1>2. IInv /\ [Next]_vars => IInv'
  <2>1. IInv /\ Next => IInv'
    <3> SUFFICES ASSUME IInv, Next PROVE IInv'
      OBVIOUS
    <3>1. Types' /\ QueueInv' /\ PassInv'
      BY TypesStep, QueueStep, PassStep
    <3>2. ReleaseInv' /\ ClosingInv' /\ SlotsInv' /\ RequesterInv'
      BY ReleaseStep, ClosingStep, SlotsStep, RequesterStep
    <3>3. PlaceInv' /\ AnswerInv'
      BY PlaceStep, TimerStep DEF PlaceInv, AnswerInv
    <3>4. RacedInv' /\ WakeInv' /\ OrderInv' /\ HeldInv'
      BY RacedStep, WakeStep, OrderStep, HeldStep
    <3> QED BY <3>1, <3>2, <3>3, <3>4 DEF IInv
  <2> QED BY <2>1, StutterStep
<1> QED BY <1>1, <1>2, PTL DEF Spec

\* The types; the loop's handle is not used after release() closed it, but by a callback's
\* own release; the file is closed once, and read or written after that only for a request
\* that raced with close().
THEOREM TypesAndHandles == Spec => []Inv
<1>1. IInv => Inv
  <2> SUFFICES ASSUME IInv PROVE Inv
    OBVIOUS
  <2> USE DEF IInv
  <2>1. pass \in Pass /\ pass.at \in Passes /\ pass.tasks \in 0 .. MaxTasks /\ pass.orders \in 0 .. 1
    BY DEF Types, Pass
  <2>2. pass.req \in OrNobody /\ pass.back \in Passes /\ pass.dirs \in DirSeqs
    BY DEF Types, Pass
  <2>3. /\ queueTasks \in 0 .. MaxTasks /\ queueOrder \in 0 .. 1 /\ queueClosing \in 0 .. 1
    BY Counts DEF QueueInv, ClosingInv
  <2>4. TypeOK
    BY <2>1, <2>2, <2>3, UseFacts DEF TypeOK, Types, Rest
  <2>5. HandlesSafe
    BY DEF HandlesSafe, ReleaseInv, ClosingInv, RacedInv
  <2> QED BY <2>4, <2>5 DEF Inv
<1> QED BY <1>1, Invariance, PTL

\* The loop's thread is not left waiting in epoll_wait by an order, a task or a closing that
\* was queued, by a request in a slot, or by one that is held and could go on.
THEOREM NoOversleep == Spec => []NeverOversleeps
<1>1. IInv => NeverOversleeps
  <2> SUFFICES ASSUME IInv, pass.at = "epoll_wait", pc[Loop] = "outside", ~Woken, loop.running
               PROVE  /\ queueTasks > 0 \/ queueOrder > 0 \/ (queueClosing > 0 /\ ~history.early) =>
                            \E a \in Callers : pc[a] = "wake"
                      /\ \A d \in Dirs :
                            /\ slot[d] # Nobody =>
                                  \/ queueOrder > 0 \/ held[d] # Nobody
                                  \/ \E a \in Callers : pc[a] = "requestOrder"
                            /\ held[d] # Nobody =>
                                  \/ ready[d] = "none" \/ held[d] \in history.misused
                                  \/ queueClosing > 0 \/ \E a \in Callers : pc[a] = "pushClosing"
    BY DEF NeverOversleeps
  <2> USE DEF IInv
  <2>1. \A a \in Actors : pc[a] # "outside" => a \in Callers
    BY DEF Actors
  <2>2. ~wake.event /\ pending = {} /\ loop.init
    BY DEF Woken, ReleaseInv
  <2>3. AfterOrders /\ AfterTasks /\ AfterClosings
    BY DEF AfterOrders, AfterTasks, AfterClosings
  <2>4. Signalled => \E a \in Callers : pc[a] = "wake"
    BY <2>1, <2>2 DEF Signalled
  <2>5. ~Serving /\ ~Detached /\ ~Emptying /\ pass.of # "event" /\ "file" \notin pass.events
    BY DEF PassInv, Serving, Detached, Emptying, In
  <2>6. pass.orders = 0 /\ queueOrder \in Nat
    BY Counts DEF QueueInv
  <2>7. instance.closing => queueClosing > 0 \/ instance.freed \/ \E a \in Callers : pc[a] = "pushClosing"
    BY <2>1, <2>2, <2>5 DEF ClosingInv
  <2>8. queueTasks > 0 \/ queueOrder > 0 \/ (queueClosing > 0 /\ ~history.early) =>
           \E a \in Callers : pc[a] = "wake"
    BY <2>2, <2>3, <2>4 DEF WakeInv
  <2>9. ASSUME NEW d \in Dirs, slot[d] # Nobody
        PROVE  queueOrder > 0 \/ held[d] # Nobody \/ \E a \in Callers : pc[a] = "requestOrder"
    BY <2>1, <2>2, <2>5, <2>6, <2>9 DEF OrderInv
  <2>10. ASSUME NEW d \in Dirs, held[d] # Nobody
         PROVE  \/ ready[d] = "none" \/ held[d] \in history.misused
                \/ queueClosing > 0 \/ \E a \in Callers : pc[a] = "pushClosing"
    BY <2>2, <2>5, <2>7, <2>10 DEF HeldInv, RacedInv
  <2> QED BY <2>8, <2>9, <2>10
<1> QED BY <1>1, Invariance, PTL

\* How many elements of a set have a property that one of them, or none, has.
LEMMA OneOrNone ==
    ASSUME NEW S, NEW x
    PROVE  /\ S = {} => Cardinality(S) = 0
           /\ S = {x} => Cardinality(S) = 1
BY FS_EmptySet, FS_Singleton

\* Of each request there is one answer, and one place until then: but for a request that
\* another took the place of in the slot, and for a timeout's own answer.
THEOREM AnswersOnce == Spec => []AnsweredOnce
<1>1. IInv => AnsweredOnce
  <2> SUFFICES ASSUME IInv, NEW r \in Requests \ history.left
               PROVE  /\ history.ran[r] > 1 =>
                            history.ran[r] = 2 /\ r \in Timed /\ r \in history.both \cup history.refused
                      /\ r \notin Timed /\ r \notin history.lost =>
                            Places(r) = IF history.ran[r] = 0 THEN 1 ELSE 0
    BY DEF AnsweredOnce
  <2> USE DEF IInv
  <2>1. OnePlace(r) /\ OneAnswer(r) /\ Dir[r] \in Dirs /\ r # Nobody /\ history.ran[r] \in Nat
    BY ConstantsAssumption, RequestTypes DEF PlaceInv, AnswerInv
  <2>2. expired \subseteq Timed
    BY DEF Types, Rest
  <2>3. history.ran[r] > 1 =>
           history.ran[r] = 2 /\ r \in Timed /\ r \in history.both \cup history.refused
    BY <2>1, <2>2 DEF OneAnswer, Answer, Expiry
  <2>4. {d \in Dirs : slot[d] = r} = IF InSlot(r) THEN {Dir[r]} ELSE {}
    BY <2>1 DEF InSlot, SlotsInv
  <2>5. {d \in Dirs : held[d] = r /\ ~Freeing(d)} = IF InHeld(r) THEN {Dir[r]} ELSE {}
    BY <2>1 DEF InHeld, SlotsInv
  <2>6. Cardinality({d \in Dirs : slot[d] = r}) = IF InSlot(r) THEN 1 ELSE 0
    BY <2>4, OneOrNone
  <2>7. Cardinality({d \in Dirs : held[d] = r /\ ~Freeing(d)}) = IF InHeld(r) THEN 1 ELSE 0
    BY <2>5, OneOrNone
  <2>8. Cardinality({a \in Actors : req[a] = r /\ pc[a] # "requestOrder"}) =
           IF \E a \in Actors : InCallOf(r, a) THEN 1 ELSE 0
    <3>1. CASE \E a \in Actors : InCallOf(r, a)
      <4>1. PICK a \in Actors : InCallOf(r, a)
        BY <3>1
      <4>2. {b \in Actors : req[b] = r /\ pc[b] # "requestOrder"} = {a}
        BY <2>1, <4>1 DEF OnePlace, InCallOf
      <4> QED BY <3>1, <4>2, OneOrNone
    <3>2. CASE ~\E a \in Actors : InCallOf(r, a)
      <4>1. {b \in Actors : req[b] = r /\ pc[b] # "requestOrder"} = {}
        BY <3>2 DEF InCallOf
      <4> QED BY <3>2, <4>1, OneOrNone
    <3> QED BY <3>1, <3>2
  <2>9. Places(r) = (IF InSlot(r) THEN 1 ELSE 0) + (IF InHeld(r) THEN 1 ELSE 0)
                    + (IF \E a \in Actors : InCallOf(r, a) THEN 1 ELSE 0)
                    + (IF InIo(r) THEN 1 ELSE 0)
    BY <2>6, <2>7, <2>8 DEF Places, InIo
  <2>10. Places(r) = IF Somewhere(r) THEN 1 ELSE 0
    <3>1. CASE \E a \in Actors : InCallOf(r, a)
      BY <2>1, <2>9, <3>1 DEF OnePlace, Somewhere
    <3>2. CASE ~\E a \in Actors : InCallOf(r, a)
      BY <2>1, <2>9, <3>2 DEF OnePlace, Somewhere
    <3> QED BY <3>1, <3>2
  <2>11. r \notin Timed /\ r \notin history.lost => (Somewhere(r) <=> history.ran[r] = 0)
    BY <2>1, <2>2 DEF OneAnswer, Answer, Expiry
  <2> QED BY <2>3, <2>10, <2>11
<1> QED BY <1>1, Invariance, PTL
=============================================================================
