------------------------- MODULE AsyncStreamsProofs -------------------------
(***************************************************************************)
(* Of the parts of MCAsyncStreams: that the simulator runs one processor,  *)
(* and does the requests in order, because the flag is set exactly while a *)
(* processor will look at the queue again or never will any more, and that *)
(* it tells of them what it did, because a request in its hands, in several*)
(* parts, is in one place; that the filter answers every read once and in  *)
(* order, because a request that waits has a read of the stream below or a *)
(* call that will make one; and that the output has one writer and sends   *)
(* what was queued in order, because what was sent, what is on its way and *)
(* what waits are one row.                                                 *)
(***************************************************************************)
EXTENDS MCAsyncStreams, SequenceTheorems, FiniteSetTheorems, TLAPS

-----------------------------------------------------------------------------
(* AsyncStreamSimulator                                                    *)

\* Only workers are in the processor's steps, and none of them dispatches: a callback finds
\* the flag set.  A thread has a request while it makes one, or serves one.
StepsInv ==
    /\ \A c \in Callers : pc[c] \in {"outside", "ask", "add", "dispatch"}
    /\ \A w \in Workers : pc[w] # "dispatch"
    /\ \A t \in Threads : req[t] # Nobody <=> pc[t] \in {"ask", "add"}
    /\ \A w \in Workers : /\ pc[w] \in {"process", "result", "callback"} => serving[w] # Nobody
                          /\ pc[w] \in {"outside", "while"} => serving[w] = Nobody

\* What the flag says.
FlagInv ==
    /\ ~flagProcessRequest => tasks = 0 /\ Processing = {} /\ requests = <<>>
    /\ flagProcessRequest => tasks > 0 \/ Processing # {} \/ ~opened \/ released \/ stopping # {}

\* While the file is open, what was queued is what was done, what a worker has in hand, and
\* what waits.
OrderInv ==
    /\ Len(done) <= Len(queued) /\ \A i \in 1 .. Len(done) : done[i] = queued[i]
    /\ opened /\ (\A w \in Workers : pc[w] # "process") =>
          /\ Len(queued) = Len(done) + Len(requests)
          /\ \A i \in 1 .. Len(requests) : requests[i] = queued[Len(done) + i]
    /\ \A w \in Workers : opened /\ pc[w] = "process" =>
          /\ Len(queued) = Len(done) + 1 + Len(requests)
          /\ serving[w] = queued[Len(done) + 1]
          /\ \A i \in 1 .. Len(requests) : requests[i] = queued[Len(done) + 1 + i]

\* A request is in one place: in the queue, on its way there, or served.
PlaceInv ==
    /\ \A i, j \in 1 .. Len(requests) : requests[i] = requests[j] => i = j
    /\ \A i \in 1 .. Len(requests) :
          /\ requests[i] \in made /\ \A t \in Threads : req[t] # requests[i]
          /\ \A w \in Workers : serving[w] # requests[i]
    /\ \A t, u \in Threads : req[t] = req[u] /\ req[t] # Nobody => t = u
    /\ \A t \in Threads : req[t] # Nobody => req[t] \in made /\ \A w \in Workers : serving[w] # req[t]
    /\ \A w \in Workers : serving[w] # Nobody => serving[w] \in made

\* What was done of a request that is made, is not answered, or is to be done fully.
SizesInv ==
    /\ \A r \in Requests \ Full : sizePassed[r] = 0
    /\ \A r \in Requests \ made : calls[r] = 0 /\ did[r] = 0 /\ sizePassed[r] = 0
    /\ \A t \in Threads : pc[t] = "ask" /\ Home(t) # "while" => did[req[t]] = 0
    /\ \A w \in Workers : /\ pc[w] = "result" => ioSize[w] <= Left(serving[w])
                          /\ serving[w] = Nobody /\ req[w] # Nobody => ioSize[w] > 0

\* Where a request is before it is answered.
Unanswered(r) ==
    \/ \E i \in 1 .. Len(requests) : requests[i] = r
    \/ \E t \in Threads : req[t] = r
    \/ \E w \in Workers : serving[w] = r /\ pc[w] \in {"process", "result"}

AnswerInv ==
    \A r \in Requests \ Timed :
       /\ calls[r] <= 1 /\ (Unanswered(r) => calls[r] = 0) /\ (r \in flagFinished => calls[r] = 1)
       /\ \A w \in Workers : serving[w] = r /\ pc[w] \notin {"process", "result"} => calls[r] = 1

\* What is told, and what will be.
Result(w, r) == pc[w] = "result" /\ serving[w] = r

TellInv ==
    /\ \A a \in told : a.req \notin Timed => calls[a.req] = 1 /\ Truthful(a)
    /\ \A r \in Requests \ Timed : calls[r] = 0 =>
          /\ \A w \in Workers : Result(w, r) => did[r] = sizePassed[r] + IF ioSize[w] > 0 THEN ioSize[w] ELSE 0
          /\ (\A w \in Workers : ~Result(w, r)) => did[r] = sizePassed[r]

IInv ==
    /\ TypeOK /\ StepsInv /\ OneProcessor /\ FlagInv /\ OrderInv
    /\ PlaceInv /\ SizesInv /\ AnswerInv /\ TellInv

-----------------------------------------------------------------------------
\* What Go does to the steps and the requests of threads.
LEMMA GoFacts ==
    ASSUME TypeOK, NEW t \in Threads, NEW from, NEW to \in Steps, NEW r \in Requests \cup {Nobody}, Go(t, from, to, r)
    PROVE  /\ pc[t] = from /\ pc' \in [Threads -> Steps] /\ req' \in [Threads -> Requests \cup {Nobody}]
           /\ pc'[t] = to /\ req'[t] = r
           /\ \A u \in Threads \ {t} : pc'[u] = pc[u] /\ req'[u] = req[u]
BY DEF TypeOK, Go

LEMMA InitIInv == Init => IInv
<1> SUFFICES ASSUME Init PROVE IInv
  OBVIOUS
<1> USE DEF Init
<1>1. TypeOK
  <2>1. pc \in [Threads -> Steps] /\ req \in [Threads -> Requests \cup {Nobody}]
    BY DEF Steps
  <2>2. calls \in [Requests -> Nat] /\ did \in [Requests -> Nat]
    OBVIOUS
  <2>3. <<>> \in Seq(Requests) /\ ioSize \in [Workers -> -1 .. Size] /\ sizePassed \in [Requests -> 0 .. Size - 1]
    BY ConstantsAssumption
  <2> QED BY <2>1, <2>2, <2>3 DEF TypeOK
<1>2. Processing = {} /\ \A t \in Threads : pc[t] = "outside" /\ req[t] = Nobody
  BY DEF Processing, Threads
<1>3. StepsInv /\ OneProcessor /\ FlagInv
  BY <1>2 DEF StepsInv, OneProcessor, FlagInv, Threads
<1>4. OrderInv /\ PlaceInv
  BY <1>2 DEF OrderInv, PlaceInv, Threads
<1>5. SizesInv
  BY <1>2, ConstantsAssumption DEF SizesInv, Threads
<1>6. AnswerInv
  <2>1. \A r \in Requests : ~Unanswered(r)
    BY <1>2, ConstantsAssumption DEF Unanswered, Threads
  <2>2. \A w \in Workers : serving[w] = Nobody
    OBVIOUS
  <2> QED BY <2>1, <2>2, ConstantsAssumption DEF AnswerInv
<1>7. TellInv
  BY <1>2 DEF TellInv, Result, Threads
<1> QED BY <1>1, <1>3, <1>4, <1>5, <1>6, <1>7 DEF IInv

-----------------------------------------------------------------------------
(* What a step that leaves a part alone keeps                              *)

\* The order, when nothing is queued or done.
LEMMA SameOrder ==
    ASSUME OrderInv, UNCHANGED <<requests, queued, done>>, opened' => opened,
           \A w \in Workers : pc'[w] = "process" => pc[w] = "process" /\ serving'[w] = serving[w],
           \A w \in Workers : pc[w] = "process" /\ opened' => pc'[w] = "process"
    PROVE  OrderInv'
<1>1. opened' /\ (\A w \in Workers : pc'[w] # "process") => opened /\ \A w \in Workers : pc[w] # "process"
  OBVIOUS
<1> QED BY <1>1 DEF OrderInv

\* The places, when requests only leave them.
LEMMA FewerPlaces ==
    ASSUME PlaceInv, requests' = requests, made \subseteq made',
           \A t \in Threads : req'[t] \in {req[t], Nobody},
           \A w \in Workers : serving'[w] \in {serving[w], Nobody},
           TypeOK
    PROVE  PlaceInv'
<1>1. \A i \in 1 .. Len(requests) : requests[i] # Nobody
  BY ConstantsAssumption DEF TypeOK
<1>2. \A i \in 1 .. Len(requests) : requests[i] \in made' /\ (\A t \in Threads : req'[t] # requests[i])
          /\ \A w \in Workers : serving'[w] # requests[i]
  BY <1>1 DEF PlaceInv
<1>3. \A t, u \in Threads : req'[t] = req'[u] /\ req'[t] # Nobody => t = u
  BY DEF PlaceInv
<1>4. \A t \in Threads : req'[t] # Nobody => req'[t] \in made' /\ \A w \in Workers : serving'[w] # req'[t]
  BY DEF PlaceInv
<1>5. \A w \in Workers : serving'[w] # Nobody => serving'[w] \in made'
  BY DEF PlaceInv
<1> QED BY <1>2, <1>3, <1>4, <1>5 DEF PlaceInv

\* The sizes, when none changes and no request comes to be asked for.
LEMMA SameSizes ==
    ASSUME SizesInv, UNCHANGED <<sizePassed, made, calls, did, ioSize>>,
           \A t \in Threads : pc'[t] = "ask" => pc[t] = "ask" /\ req'[t] = req[t] /\ Home(t)' = Home(t),
           \A w \in Workers : /\ pc'[w] = "result" => pc[w] = "result" /\ serving'[w] = serving[w]
                              /\ serving'[w] = Nobody /\ req'[w] # Nobody => serving[w] = Nobody /\ req[w] # Nobody
    PROVE  SizesInv'
<1>1. \A t \in Threads : pc'[t] = "ask" /\ Home(t)' # "while" => did[req'[t]] = 0
  BY DEF SizesInv
<1>2. \A w \in Workers : pc'[w] = "result" => ioSize[w] <= Size - sizePassed[serving'[w]]
  BY DEF SizesInv, Left
<1>3. \A w \in Workers : serving'[w] = Nobody /\ req'[w] # Nobody => ioSize[w] > 0
  BY DEF SizesInv
<1> QED BY <1>1, <1>2, <1>3 DEF SizesInv, Left

\* The answers, when none is given.
LEMMA SameAnswers ==
    ASSUME AnswerInv, TellInv, UNCHANGED <<sizePassed, did, again, calls, told>>, opened' => opened,
           \A r \in Requests \ Timed : Unanswered(r)' => calls[r] = 0,
           \A r \in Requests \ Timed : r \in flagFinished' => calls[r] = 1,
           \A w \in Workers : pc'[w] \notin {"process", "result"} /\ serving'[w] \in Requests \ Timed => calls[serving'[w]] = 1,
           \A r \in Requests \ Timed, w \in Workers : calls[r] = 0 => Result(w, r)' = Result(w, r) /\ (Result(w, r) => ioSize'[w] = ioSize[w])
    PROVE  AnswerInv' /\ TellInv'
<1>1. AnswerInv'
  BY DEF AnswerInv
<1>2. \A a \in told : Truthful(a) => Truthful(a)'
  BY DEF Truthful
<1>3. \A a \in told' : a.req \notin Timed => calls'[a.req] = 1 /\ Truthful(a)'
  BY <1>2 DEF TellInv
<1>4. ASSUME NEW r \in Requests \ Timed, calls[r] = 0
      PROVE  /\ \A w \in Workers : Result(w, r)' => did[r] = sizePassed[r] + IF ioSize'[w] > 0 THEN ioSize'[w] ELSE 0
             /\ (\A w \in Workers : ~Result(w, r)') => did[r] = sizePassed[r]
  BY <1>4 DEF TellInv
<1>5. TellInv'
  BY <1>3, <1>4 DEF TellInv
<1> QED BY <1>1, <1>5

-----------------------------------------------------------------------------
(* Requests                                                                *)

\* The steps and the flag, when a thread goes on from outside the processor.
LEMMA SameProcessing ==
    ASSUME StepsInv, OneProcessor, FlagInv, NEW t \in Threads, NEW to \in Steps \ {"dispatch", "process", "result", "outside", "while"},
           pc' \in [Threads -> Steps], pc'[t] = to, t \in Callers => to \in {"ask", "add"},
           pc[t] \notin {"dispatch", "outside"} \/ (t \in Callers /\ pc[t] = "outside"),
           \A u \in Threads \ {t} : pc'[u] = pc[u] /\ req'[u] = req[u],
           req'[t] # Nobody <=> to \in {"ask", "add"}, to = "callback" => serving[t] # Nobody,
           UNCHANGED <<requests, flagProcessRequest, opened, tasks, released, stopping, serving>>
    PROVE  StepsInv' /\ OneProcessor' /\ FlagInv'
<1>1. Processing' = Processing
  BY ConstantsAssumption DEF Processing, Threads
<1>2. OneProcessor' /\ FlagInv'
  BY <1>1 DEF OneProcessor, FlagInv
<1>3. \A c \in Callers : pc'[c] \in {"outside", "ask", "add", "dispatch"}
  BY DEF StepsInv, Threads
<1>4. \A w \in Workers : pc'[w] # "dispatch"
  BY DEF StepsInv, Threads
<1>5. \A u \in Threads : req'[u] # Nobody <=> pc'[u] \in {"ask", "add"}
  BY DEF StepsInv
<1>6. \A w \in Workers : /\ pc'[w] \in {"process", "result", "callback"} => serving'[w] # Nobody
                         /\ pc'[w] \in {"outside", "while"} => serving'[w] = Nobody
  BY DEF StepsInv, Threads
<1> QED BY <1>2, <1>3, <1>4, <1>5, <1>6 DEF StepsInv

\* Where calls come from.
LEMMA HomeFacts ==
    ASSUME NEW t \in Threads
    PROVE  /\ Home(t) \in {"outside", "while", "callback"} /\ Home(t) \in Steps
           /\ Home(t) = "outside" <=> t \in Callers
           /\ Home(t) = "callback" <=> t \in Workers /\ serving[t] # Nobody
BY ConstantsAssumption DEF Home, Steps, Threads

\* A request is made; one with a timeout may be refused at once.
LEMMA RequestIoStep ==
    ASSUME IInv, NEW t \in Threads, RequestIo(t)
    PROVE  IInv'
<1>0. TypeOK /\ StepsInv /\ OneProcessor /\ FlagInv /\ OrderInv /\ PlaceInv /\ SizesInv /\ AnswerInv /\ TellInv
  BY DEF IInv
<1>1. PICK r \in Requests \ made :
          /\ Home(t) # "while" /\ made' = made \cup {r}
          /\ \/ /\ Go(t, Home(t), "ask", r) /\ UNCHANGED callbacks
                /\ timeouts' = IF r \in Timed THEN [timeouts EXCEPT ![r] = "armed"] ELSE timeouts
             \/ /\ r \in Timed /\ Go(t, Home(t), Home(t), Nobody)
                /\ Answer(r, 0, "Unknown") /\ UNCHANGED timeouts
          /\ UNCHANGED <<queue, opened, dispatcher, serving, ioSize, sizePassed, flagFinished, work>>
  BY DEF RequestIo
<1>2. /\ Home(t) \in {"outside", "callback"} /\ Home(t) \in Steps
      /\ Home(t) = "outside" <=> t \in Callers
      /\ Home(t) = "callback" <=> t \in Workers /\ serving[t] # Nobody
  BY <1>1, HomeFacts
<1>3. UNCHANGED <<requests, flagProcessRequest, opened, tasks, released, stopping, serving, ioSize, sizePassed, flagFinished,
                  queued, done, did, again>>
  BY <1>1 DEF queue, dispatcher, work
<1>4. /\ \A i \in 1 .. Len(requests) : requests[i] # r
      /\ \A u \in Threads : req[u] # r
      /\ \A w \in Workers : serving[w] # r
      /\ calls[r] = 0 /\ did[r] = 0 /\ sizePassed[r] = 0 /\ r # Nobody
  BY <1>0, <1>1, ConstantsAssumption DEF PlaceInv, SizesInv
<1>5. CASE Go(t, Home(t), "ask", r) /\ UNCHANGED callbacks /\ timeouts' = IF r \in Timed THEN [timeouts EXCEPT ![r] = "armed"] ELSE timeouts
  <2>2. /\ pc[t] = Home(t) /\ pc' \in [Threads -> Steps] /\ req' \in [Threads -> Requests \cup {Nobody}]
        /\ pc'[t] = "ask" /\ req'[t] = r
        /\ \A u \in Threads \ {t} : pc'[u] = pc[u] /\ req'[u] = req[u]
    BY <1>5, <1>0, GoFacts DEF Steps
  <2>3. UNCHANGED <<calls, told>>
    BY <1>5 DEF callbacks
  <2>4. timeouts' \in [Timed -> {"none", "armed", "callback", "over"}]
    BY <1>5, <1>0 DEF TypeOK
  <2>5. TypeOK'
    BY <2>2, <2>3, <2>4, <1>0, <1>1, <1>3 DEF TypeOK
  <2>6. StepsInv' /\ OneProcessor' /\ FlagInv'
    <3>1. "ask" \in Steps \ {"dispatch", "process", "result", "outside", "while"}
      BY DEF Steps
    <3>2. pc[t] \notin {"dispatch", "outside"} \/ (t \in Callers /\ pc[t] = "outside")
      <4>1. pc[t] = Home(t)
        BY <2>2
      <4> HIDE DEF IInv
      <4>2. CASE Home(t) = "outside"
        BY <4>1, <4>2, <1>2
      <4>3. CASE Home(t) = "callback"
        BY <4>1, <4>3
      <4> QED BY <4>2, <4>3, <1>2
    <3>3. req'[t] # Nobody /\ pc'[t] \in {"ask", "add"}
      BY <2>2, <1>4
    <3> HIDE DEF IInv
    <3> QED BY <2>2, <1>0, <1>3, <3>1, <3>2, <3>3, SameProcessing
  <2>7. OrderInv'
    BY <2>2, <1>0, <1>2, <1>3, SameOrder DEF Threads
  <2>8. PlaceInv'
    <3>1. \A u, v \in Threads : req'[u] = req'[v] /\ req'[u] # Nobody => u = v
      BY <2>2, <1>0, <1>4 DEF PlaceInv
    <3>2. \A u \in Threads : req'[u] # Nobody => req'[u] \in made' /\ \A w \in Workers : serving[w] # req'[u]
      BY <2>2, <1>0, <1>1, <1>4 DEF PlaceInv
    <3>3. \A i \in 1 .. Len(requests) : /\ requests[i] \in made' /\ \A u \in Threads : req'[u] # requests[i]
                                        /\ \A w \in Workers : serving[w] # requests[i]
      BY <2>2, <1>0, <1>1, <1>4 DEF PlaceInv
    <3> QED BY <3>1, <3>2, <3>3, <1>0, <1>1, <1>3 DEF PlaceInv
  <2>9. SizesInv'
    <3>1. \A u \in Threads : pc'[u] = "ask" /\ Home(u)' # "while" => did[req'[u]] = 0
      BY <2>2, <1>0, <1>3, <1>4 DEF SizesInv, Home
    <3>2. \A w \in Workers : pc'[w] = "result" => pc[w] = "result"
      BY <2>2 DEF Threads
    <3>3. \A w \in Workers : serving[w] = Nobody /\ req'[w] # Nobody => req[w] # Nobody
      BY <2>2, <1>2, ConstantsAssumption DEF Threads
    <3> QED BY <3>1, <3>2, <3>3, <2>3, <1>0, <1>1, <1>3 DEF SizesInv, Left
  <2>10. AnswerInv' /\ TellInv'
    <3>1. \A q \in Requests \ Timed : Unanswered(q)' => calls[q] = 0
      <4>1. \A q \in Requests : Unanswered(q)' => Unanswered(q) \/ q = r
        <5>1. \A q \in Requests, u \in Threads : req'[u] = q => req[u] = q \/ q = r
          BY <2>2
        <5>2. \A w \in Workers : pc'[w] \in {"process", "result"} => pc[w] = pc'[w]
          BY <2>2 DEF Threads
        <5> QED BY <5>1, <5>2, <1>3 DEF Unanswered
      <4> QED BY <4>1, <1>0, <1>4 DEF AnswerInv
    <3>2. \A w \in Workers : pc'[w] \notin {"process", "result"} => pc[w] \notin {"process", "result"}
      BY <2>2, <1>2 DEF Threads
    <3>3. \A w \in Workers : pc'[w] = "result" <=> pc[w] = "result"
      BY <2>2, <1>2 DEF Threads
    <3>4. \A w \in Workers : pc'[w] \notin {"process", "result"} /\ serving'[w] \in Requests \ Timed => calls[serving'[w]] = 1
      BY <3>2, <1>0, <1>3 DEF AnswerInv
    <3>5. \A q \in Requests \ Timed, w \in Workers : Result(w, q)' = Result(w, q)
      BY <3>3, <1>3 DEF Result
    <3>6. \A q \in Requests \ Timed : q \in flagFinished' => calls[q] = 1
      BY <1>0, <1>3 DEF AnswerInv
    <3> QED BY <3>1, <3>4, <3>5, <3>6, <2>3, <1>0, <1>3, SameAnswers
  <2> QED BY <2>5, <2>6, <2>7, <2>8, <2>9, <2>10 DEF IInv
<1>6. CASE r \in Timed /\ Go(t, Home(t), Home(t), Nobody) /\ Answer(r, 0, "Unknown") /\ UNCHANGED timeouts
  <2>1. /\ calls' \in [Requests -> Nat] /\ \A q \in Requests \ {r} : calls'[q] = calls[q]
        /\ told' = told \cup {[req |-> r, size |-> 0, code |-> "Unknown"]}
    BY <1>0, <1>6 DEF Answer, TypeOK
  <2>2. /\ pc[t] = Home(t) /\ pc' \in [Threads -> Steps] /\ req' \in [Threads -> Requests \cup {Nobody}]
        /\ pc'[t] = Home(t) /\ req'[t] = Nobody
        /\ \A u \in Threads \ {t} : pc'[u] = pc[u] /\ req'[u] = req[u]
    BY <1>6, <1>0, <1>2, GoFacts
  <2>3. pc' = pc
    BY <2>2, <1>0 DEF TypeOK
  <2>4. req' = req
    <3>1. req[t] = Nobody
      BY <2>2, <1>0, <1>2 DEF StepsInv
    <3> QED BY <3>1, <2>2, <1>0 DEF TypeOK
  <2>5. told' \subseteq [req : Requests, size : Int, code : {"Success", "Ended", "Unknown", "Timeout"}]
    BY <2>1, <1>0 DEF TypeOK
  <2>6. TypeOK'
    BY <2>1, <2>3, <2>4, <2>5, <1>0, <1>1, <1>3, <1>6 DEF TypeOK
  <2>7. StepsInv' /\ OneProcessor' /\ FlagInv' /\ OrderInv'
    BY <2>3, <2>4, <1>0, <1>3 DEF StepsInv, OneProcessor, FlagInv, OrderInv, Processing
  <2>8. PlaceInv'
    BY <2>4, <1>0, <1>1, <1>3 DEF PlaceInv
  <2>9. SizesInv'
    BY <2>1, <2>3, <2>4, <1>0, <1>1, <1>3, <1>4 DEF SizesInv, Left, Home
  <2>10. AnswerInv'
    BY <2>1, <2>3, <2>4, <1>0, <1>3, <1>6 DEF AnswerInv, Unanswered
  <2>11. TellInv'
    <3>1. \A a \in told' : a.req \notin Timed => a \in told /\ calls'[a.req] = calls[a.req]
      BY <2>1, <1>0, <1>6 DEF TypeOK
    <3>2. \A a \in told : Truthful(a)' <=> Truthful(a)
      BY <1>3 DEF Truthful
    <3>3. \A a \in told' : a.req \notin Timed => calls'[a.req] = 1 /\ Truthful(a)'
      BY <3>1, <3>2, <1>0 DEF TellInv
    <3>4. \A q \in Requests \ Timed : calls'[q] = calls[q]
      BY <2>1, <1>6
    <3> QED BY <3>3, <3>4, <2>3, <1>0, <1>3 DEF TellInv, Result
  <2> QED BY <2>6, <2>7, <2>8, <2>9, <2>10, <2>11 DEF IInv
<1> QED BY <1>1, <1>5, <1>6

\* The simulator lets a request in, when the file is open.
LEMMA AskStep ==
    ASSUME IInv, NEW t \in Threads, Ask(t)
    PROVE  IInv'
<1>0. TypeOK /\ StepsInv /\ OneProcessor /\ FlagInv /\ OrderInv /\ PlaceInv /\ SizesInv /\ AnswerInv /\ TellInv
  BY DEF IInv
<1>1. /\ Go(t, "ask", "add", req[t]) /\ req[t] \in Requests
      /\ UNCHANGED <<requests, flagProcessRequest, opened, tasks, released, stopping, serving, ioSize, sizePassed, flagFinished,
                     timeouts, made, queued, done, did, again, calls, told>>
  BY <1>0 DEF Ask, Go, StepsInv, TypeOK, queue, dispatcher, request, history, work, callbacks
<1>2. /\ pc[t] = "ask" /\ pc' \in [Threads -> Steps] /\ req' = req /\ pc'[t] = "add"
      /\ \A u \in Threads \ {t} : pc'[u] = pc[u]
  <2>1. pc[t] = "ask" /\ pc' = [pc EXCEPT ![t] = "add"] /\ req' = [req EXCEPT ![t] = req[t]]
    BY <1>1 DEF Go
  <2>2. pc \in [Threads -> Steps] /\ req \in [Threads -> Requests \cup {Nobody}] /\ "add" \in Steps
    BY <1>0 DEF TypeOK, Steps
  <2> HIDE DEF IInv
  <2> QED BY <2>1, <2>2
<1>3. TypeOK'
  BY <1>0, <1>1, <1>2 DEF TypeOK
<1>4. StepsInv' /\ OneProcessor' /\ FlagInv'
  <2>1. "add" \in Steps \ {"dispatch", "process", "result", "outside", "while"}
    BY DEF Steps
  <2>2. req'[t] # Nobody
    BY <1>1, <1>2, ConstantsAssumption
  <2> QED BY <2>1, <2>2, <1>0, <1>1, <1>2, SameProcessing
<1>5. OrderInv'
  BY <1>0, <1>1, <1>2, SameOrder DEF Threads
<1>6. PlaceInv'
  BY <1>0, <1>1, <1>2 DEF PlaceInv
<1>7. SizesInv'
  <2>1. \A u \in Threads : pc'[u] = "ask" => pc[u] = "ask" /\ Home(u)' = Home(u)
    BY <1>1, <1>2 DEF Home
  <2>2. \A w \in Workers : pc'[w] = "result" => pc[w] = "result"
    BY <1>2 DEF Threads
  <2> QED BY <2>1, <2>2, <1>0, <1>1, <1>2, SameSizes
<1>8. AnswerInv' /\ TellInv'
  <2>1. \A w \in Workers : /\ pc'[w] \in {"process", "result"} <=> pc[w] \in {"process", "result"}
                           /\ pc'[w] = "result" <=> pc[w] = "result"
    BY <1>2 DEF Threads
  <2>2. \A r \in Requests : Unanswered(r)' = Unanswered(r)
    BY <2>1, <1>1, <1>2 DEF Unanswered
  <2>3. \A r \in Requests \ Timed, w \in Workers : Result(w, r)' = Result(w, r)
    BY <2>1, <1>1 DEF Result
  <2>4. \A w \in Workers : pc'[w] \notin {"process", "result"} /\ serving'[w] \in Requests \ Timed => calls[serving'[w]] = 1
    BY <2>1, <1>0, <1>1 DEF AnswerInv
  <2>5. \A r \in Requests \ Timed : (Unanswered(r)' => calls[r] = 0) /\ (r \in flagFinished' => calls[r] = 1)
    BY <2>2, <1>0, <1>1 DEF AnswerInv
  <2> QED BY <2>3, <2>4, <2>5, <1>0, <1>1, SameAnswers
<1> QED BY <1>3, <1>4, <1>5, <1>6, <1>7, <1>8 DEF IInv

\* Such an answer is truthful.
AnswersTruly(r, n, code) == \A a : a.req = r /\ a.size = n /\ a.code = code => Truthful(a)

\* What an answer does to the requests that have no timeout.
LEMMA AnswerFacts ==
    ASSUME TypeOK, AnswerInv, TellInv, NEW r \in Requests, NEW n \in Int,
           NEW code \in {"Success", "Ended", "Unknown", "Timeout"}, Answer(r, n, code), did' = did,
           again \subseteq again', opened' => opened,
           r \notin Timed => calls[r] = 0 /\ AnswersTruly(r, n, code)'
    PROVE  /\ calls' \in [Requests -> Nat] /\ calls'[r] = calls[r] + 1
           /\ \A q \in Requests \ {r} : calls'[q] = calls[q]
           /\ told' \subseteq [req : Requests, size : Int, code : {"Success", "Ended", "Unknown", "Timeout"}]
           /\ \A a \in told' : a.req \notin Timed => calls'[a.req] = 1 /\ Truthful(a)'
<1> DEFINE new == [req |-> r, size |-> n, code |-> code]
<1>1. /\ calls' \in [Requests -> Nat] /\ calls'[r] = calls[r] + 1
      /\ \A q \in Requests \ {r} : calls'[q] = calls[q]
  BY DEF Answer, TypeOK
<1>2. new.req = r /\ new.size = n /\ new.code = code /\ new \in [req : Requests, size : Int, code : {"Success", "Ended", "Unknown", "Timeout"}]
  OBVIOUS
<1>3. told' = told \cup {new}
  BY DEF Answer
<1>4. r \notin Timed => Truthful(new)'
  BY <1>2 DEF AnswersTruly
<1> HIDE DEF new
<1>5. \A a \in told : Truthful(a) => Truthful(a)'
  BY DEF Truthful
<1>6. ASSUME NEW a \in told', a.req \notin Timed PROVE calls'[a.req] = 1 /\ Truthful(a)'
  <2>1. CASE a = new
    BY <2>1, <1>1, <1>2, <1>4, <1>6
  <2>2. CASE a \in told
    <3>1. a.req \in Requests
      BY <2>2 DEF TypeOK
    <3>2. calls[a.req] = 1 /\ Truthful(a)
      BY <2>2, <1>6 DEF TellInv
    <3>3. a.req # r
      BY <3>2, <1>6
    <3> QED BY <2>2, <3>1, <3>2, <3>3, <1>1, <1>5
  <2> QED BY <2>1, <2>2, <1>3
<1>7. told' \subseteq [req : Requests, size : Int, code : {"Success", "Ended", "Unknown", "Timeout"}]
  BY <1>2, <1>3 DEF TypeOK
<1> QED BY <1>1, <1>6, <1>7

\* A request that is refused is answered in the call: nothing was done of it.
LEMMA RefusedStep ==
    ASSUME IInv, NEW t \in Threads, Refused(t)
    PROVE  IInv'
<1>0. TypeOK /\ StepsInv /\ OneProcessor /\ FlagInv /\ OrderInv /\ PlaceInv /\ SizesInv /\ AnswerInv /\ TellInv
  BY DEF IInv
<1>1. PICK r \in Requests :
      /\ r = req[t] /\ Go(t, "ask", Home(t), Nobody) /\ Home(t) # "while" /\ Answer(r, 0, "Unknown")
      /\ UNCHANGED <<requests, flagProcessRequest, opened, tasks, released, stopping, serving, ioSize, sizePassed, flagFinished,
                     timeouts, made, queued, done, did, again>>
  BY <1>0 DEF Refused, Go, StepsInv, TypeOK, queue, dispatcher, request, work
<1>2. /\ Home(t) \in {"outside", "callback"} /\ Home(t) \in Steps
      /\ Home(t) = "outside" <=> t \in Callers
      /\ Home(t) = "callback" <=> t \in Workers /\ serving[t] # Nobody
  BY <1>1, HomeFacts
<1>3. /\ pc[t] = "ask" /\ pc' \in [Threads -> Steps] /\ req' \in [Threads -> Requests \cup {Nobody}]
      /\ pc'[t] = Home(t) /\ req'[t] = Nobody
      /\ \A u \in Threads \ {t} : pc'[u] = pc[u] /\ req'[u] = req[u]
  BY <1>0, <1>1, <1>2, GoFacts
<1>4. did[r] = 0
  BY <1>0, <1>1, <1>3 DEF SizesInv
<1>5. /\ calls' \in [Requests -> Nat] /\ calls'[r] = calls[r] + 1
      /\ \A q \in Requests \ {r} : calls'[q] = calls[q]
      /\ told' \subseteq [req : Requests, size : Int, code : {"Success", "Ended", "Unknown", "Timeout"}]
      /\ \A a \in told' : a.req \notin Timed => calls'[a.req] = 1 /\ Truthful(a)'
  <2>1. r \notin Timed => calls[r] = 0
    BY <1>0, <1>1 DEF AnswerInv, Unanswered
  <2>2. AnswersTruly(r, 0, "Unknown")'
    BY <1>1, <1>4 DEF AnswersTruly, Truthful
  <2>3. 0 \in Int /\ "Unknown" \in {"Success", "Ended", "Unknown", "Timeout"} /\ again \subseteq again' /\ (opened' => opened)
    BY <1>1
  <2> QED BY <2>1, <2>2, <2>3, <1>0, <1>1, AnswerFacts
<1>6. TypeOK'
  BY <1>0, <1>1, <1>3, <1>5 DEF TypeOK
<1>7. StepsInv' /\ OneProcessor' /\ FlagInv'
  <2>1. Processing' = Processing
    BY <1>2, <1>3, ConstantsAssumption DEF Processing, Threads
  <2>2. \A u \in Threads : req'[u] # Nobody <=> pc'[u] \in {"ask", "add"}
    BY <1>0, <1>2, <1>3 DEF StepsInv
  <2>3. \A w \in Workers : /\ pc'[w] \in {"process", "result", "callback"} => serving'[w] # Nobody
                           /\ pc'[w] \in {"outside", "while"} => serving'[w] = Nobody
    BY <1>0, <1>1, <1>2, <1>3 DEF StepsInv, Threads
  <2>4. (\A c \in Callers : pc'[c] \in {"outside", "ask", "add", "dispatch"}) /\ \A w \in Workers : pc'[w] # "dispatch"
    BY <1>0, <1>2, <1>3, ConstantsAssumption DEF StepsInv, Threads
  <2> QED BY <2>1, <2>2, <2>3, <2>4, <1>0, <1>1 DEF StepsInv, OneProcessor, FlagInv
<1>8. OrderInv'
  BY <1>0, <1>1, <1>2, <1>3, SameOrder DEF Threads
<1>9. PlaceInv'
  <2>1. \A u \in Threads : req'[u] \in {req[u], Nobody}
    BY <1>3
  <2> QED BY <2>1, <1>0, <1>1, FewerPlaces
<1>10. SizesInv'
  <2>1. \A u \in Threads : pc'[u] = "ask" => u # t /\ Home(u)' = Home(u)
    BY <1>1, <1>2, <1>3 DEF Home
  <2>2. \A u \in Threads : pc'[u] = "ask" /\ Home(u)' # "while" => did[req'[u]] = 0
    BY <2>1, <1>0, <1>3 DEF SizesInv
  <2>3. \A w \in Workers : (pc'[w] = "result" => pc[w] = "result") /\ (req'[w] # Nobody => req[w] # Nobody)
    BY <1>2, <1>3 DEF Threads
  <2>4. r \in made
    BY <1>0, <1>1, ConstantsAssumption DEF PlaceInv
  <2>5. \A q \in Requests \ made' : calls'[q] = 0 /\ did'[q] = 0 /\ sizePassed'[q] = 0
    BY <2>4, <1>0, <1>1, <1>5 DEF SizesInv
  <2> QED BY <2>2, <2>3, <2>5, <1>0, <1>1 DEF SizesInv, Left
<1>11. AnswerInv'
  <2>1. \A w \in Workers : pc'[w] \in {"process", "result"} => pc[w] = pc'[w]
    BY <1>2, <1>3 DEF Threads
  <2>2. \A q \in Requests : Unanswered(q)' => Unanswered(q) /\ q # r
    <3>1. \A i \in 1 .. Len(requests) : requests[i] # r
      BY <1>0, <1>1, ConstantsAssumption DEF PlaceInv
    <3>2. \A w \in Workers : serving[w] # r
      BY <1>0, <1>1, ConstantsAssumption DEF PlaceInv
    <3>3. \A u \in Threads : req'[u] \in Requests => req'[u] = req[u] /\ req'[u] # r
      BY <1>0, <1>1, <1>3, ConstantsAssumption DEF PlaceInv
    <3> QED BY <2>1, <3>1, <3>2, <3>3, <1>1 DEF Unanswered
  <2>3. r \notin Timed => calls[r] = 0 /\ r \notin flagFinished
    BY <1>0, <1>1 DEF AnswerInv, Unanswered
  <2>4. \A w \in Workers : pc'[w] \notin {"process", "result"} => pc[w] \notin {"process", "result"}
    BY <1>2, <1>3 DEF Threads
  <2>5. \A w \in Workers : serving[w] # r
    BY <1>0, <1>1, ConstantsAssumption DEF PlaceInv
  <2> QED BY <2>2, <2>3, <2>4, <2>5, <1>0, <1>1, <1>5 DEF AnswerInv
<1>12. TellInv'
  <2>1. \A w \in Workers : pc'[w] = "result" <=> pc[w] = "result"
    BY <1>2, <1>3 DEF Threads
  <2>2. \A q \in Requests, w \in Workers : Result(w, q)' = Result(w, q)
    BY <2>1, <1>1 DEF Result
  <2>3. \A q \in Requests : calls'[q] = 0 => calls[q] = 0
    BY <1>0, <1>5 DEF TypeOK
  <2> QED BY <2>2, <2>3, <1>0, <1>1, <1>5 DEF TellInv
<1> QED BY <1>6, <1>7, <1>8, <1>9, <1>10, <1>11, <1>12 DEF IInv

\* A request is queued, and asks for a processor when the flag was not set.
LEMMA AddRequestStep ==
    ASSUME IInv, NEW t \in Threads, AddRequest(t)
    PROVE  IInv'
<1>0. TypeOK /\ StepsInv /\ OneProcessor /\ FlagInv /\ OrderInv /\ PlaceInv /\ SizesInv /\ AnswerInv /\ TellInv
  BY DEF IInv
<1> DEFINE to == IF flagProcessRequest THEN Home(t) ELSE "dispatch"
<1>h. /\ Home(t) \in {"outside", "while", "callback"}
      /\ Home(t) = "outside" <=> t \in Callers
      /\ Home(t) = "callback" <=> t \in Workers /\ serving[t] # Nobody
  BY HomeFacts
<1>1. PICK r \in Requests : r = req[t] /\ pc[t] = "add"
  BY <1>0 DEF AddRequest, Go, StepsInv, TypeOK
<1>2. /\ to \in Steps /\ to \in {"outside", "while", "callback", "dispatch"}
      /\ pc' \in [Threads -> Steps] /\ req' \in [Threads -> Requests \cup {Nobody}]
      /\ pc'[t] = to /\ req'[t] = Nobody
      /\ \A u \in Threads \ {t} : pc'[u] = pc[u] /\ req'[u] = req[u]
  <2>1. to \in Steps /\ to \in {"outside", "while", "callback", "dispatch"}
    BY <1>h DEF Steps
  <2>2. Go(t, "add", to, Nobody)
    BY DEF AddRequest
  <2> HIDE DEF to
  <2> QED BY <2>1, <2>2, <1>0, GoFacts
<1>3. /\ requests' = Append(requests, r) /\ queued' = Append(queued, r) /\ flagProcessRequest' = TRUE
      /\ UNCHANGED <<opened, tasks, released, stopping, serving, ioSize, sizePassed, flagFinished,
                     timeouts, made, done, did, again, calls, told>>
  BY <1>1 DEF AddRequest, dispatcher, request, callbacks
<1>4. /\ requests \in Seq(Requests) /\ queued \in Seq(Requests) /\ done \in Seq(Requests)
      /\ queued' \in Seq(Requests) /\ requests' \in Seq(Requests)
      /\ Len(requests) \in Nat /\ Len(queued) \in Nat /\ Len(done) \in Nat
      /\ Len(queued') = Len(queued) + 1 /\ queued'[Len(queued) + 1] = r
      /\ \A i \in 1 .. Len(queued) : queued'[i] = queued[i]
      /\ Len(requests') = Len(requests) + 1 /\ requests'[Len(requests) + 1] = r
      /\ \A i \in 1 .. Len(requests) : requests'[i] = requests[i]
  BY <1>0, <1>3 DEF TypeOK
<1>5. TypeOK'
  BY <1>0, <1>2, <1>3, <1>4 DEF TypeOK
<1>6. ASSUME flagProcessRequest PROVE OneProcessor' /\ FlagInv' /\ StepsInv'
  <2>1. to = Home(t)
    BY <1>6
  <2> HIDE DEF to
  <2>2. Processing' = Processing
    BY <2>1, <1>h, <1>1, <1>2, ConstantsAssumption DEF Processing, Threads
  <2>3. OneProcessor' /\ FlagInv'
    BY <2>2, <1>0, <1>3, <1>6 DEF OneProcessor, FlagInv
  <2>4. StepsInv'
    <3>1. \A u \in Threads : req'[u] # Nobody <=> pc'[u] \in {"ask", "add"}
      BY <2>1, <1>0, <1>h, <1>2 DEF StepsInv
    <3>2. \A w \in Workers : /\ pc'[w] \in {"process", "result", "callback"} => serving'[w] # Nobody
                             /\ pc'[w] \in {"outside", "while"} => serving'[w] = Nobody
      BY <2>1, <1>0, <1>h, <1>2, <1>3, ConstantsAssumption DEF StepsInv, Threads
    <3>3. (\A c \in Callers : pc'[c] \in {"outside", "ask", "add", "dispatch"}) /\ \A w \in Workers : pc'[w] # "dispatch"
      BY <2>1, <1>0, <1>h, <1>2, ConstantsAssumption DEF StepsInv, Threads
    <3> QED BY <3>1, <3>2, <3>3 DEF StepsInv
  <2> QED BY <2>3, <2>4
<1>7. ASSUME ~flagProcessRequest PROVE OneProcessor' /\ FlagInv' /\ StepsInv'
  <2>0. to = "dispatch"
    BY <1>7
  <2> HIDE DEF to
  <2>1. Processing = {} /\ tasks = 0
    BY <1>0, <1>7 DEF FlagInv
  <2>2. t \in Callers
    BY <2>1, <1>1 DEF Processing, Threads
  <2>3. Processing' = {t}
    BY <2>0, <2>1, <2>2, <1>2, ConstantsAssumption DEF Processing, Threads
  <2>4. OneProcessor' /\ FlagInv'
    BY <2>1, <2>3, <1>3 DEF OneProcessor, FlagInv
  <2>5. StepsInv'
    <3>1. \A u \in Threads : req'[u] # Nobody <=> pc'[u] \in {"ask", "add"}
      BY <2>0, <1>0, <1>2 DEF StepsInv
    <3>2. \A w \in Workers : /\ pc'[w] \in {"process", "result", "callback"} => serving'[w] # Nobody
                             /\ pc'[w] \in {"outside", "while"} => serving'[w] = Nobody
      BY <2>2, <1>0, <1>2, <1>3, ConstantsAssumption DEF StepsInv, Threads
    <3>3. (\A c \in Callers : pc'[c] \in {"outside", "ask", "add", "dispatch"}) /\ \A w \in Workers : pc'[w] # "dispatch"
      BY <2>0, <2>2, <1>0, <1>2, ConstantsAssumption DEF StepsInv, Threads
    <3> QED BY <3>1, <3>2, <3>3 DEF StepsInv
  <2> QED BY <2>4, <2>5
<1>8. OrderInv'
  <2>0. OrderInv
    BY <1>0
  <2> HIDE DEF IInv, to
  <2>1. \A w \in Workers : pc'[w] = "process" <=> pc[w] = "process"
    BY <1>1, <1>2 DEF Threads
  <2>2. \A w \in Workers : pc[w] = "process" => serving'[w] = serving[w]
    BY <1>3
  <2>3. \A i \in 1 .. Len(done) : i \in 1 .. Len(queued) /\ done[i] = queued'[i]
    <3>1. \A i \in 1 .. Len(done) : i \in 1 .. Len(queued) /\ done[i] = queued[i]
      BY <2>0, <1>4 DEF OrderInv
    <3> QED BY <3>1, <1>4
  <2>4. ASSUME opened, \A w \in Workers : pc[w] # "process"
        PROVE  /\ Len(queued') = Len(done) + Len(requests')
               /\ \A i \in 1 .. Len(requests') : requests'[i] = queued'[Len(done) + i]
    <3>1. Len(queued) = Len(done) + Len(requests) /\ \A i \in 1 .. Len(requests) : requests[i] = queued[Len(done) + i]
      BY <2>0, <2>4 DEF OrderInv
    <3>2. Len(queued') = Len(done) + Len(requests')
      BY <3>1, <1>4
    <3>3. ASSUME NEW i \in 1 .. Len(requests') PROVE requests'[i] = queued'[Len(done) + i]
      <4>1. CASE i \in 1 .. Len(requests)
        <5>1. Len(done) + i \in 1 .. Len(queued)
          BY <4>1, <3>1, <1>4
        <5>2. requests'[i] = requests[i] /\ requests[i] = queued[Len(done) + i]
          BY <4>1, <3>1, <1>4
        <5>3. queued'[Len(done) + i] = queued[Len(done) + i]
          BY <5>1, <1>4
        <5> QED BY <5>2, <5>3
      <4>2. CASE i = Len(requests) + 1
        <5>1. Len(done) + i = Len(queued) + 1
          BY <4>2, <3>1, <1>4
        <5> QED BY <4>2, <5>1, <1>4
      <4> QED BY <4>1, <4>2, <1>4
    <3> QED BY <3>2, <3>3
  <2>5. ASSUME opened, NEW w \in Workers, pc[w] = "process"
        PROVE  /\ Len(queued') = Len(done) + 1 + Len(requests')
               /\ serving[w] = queued'[Len(done) + 1]
               /\ \A i \in 1 .. Len(requests') : requests'[i] = queued'[Len(done) + 1 + i]
    <3>1. /\ Len(queued) = Len(done) + 1 + Len(requests) /\ serving[w] = queued[Len(done) + 1]
          /\ \A i \in 1 .. Len(requests) : requests[i] = queued[Len(done) + 1 + i]
      BY <2>0, <2>5 DEF OrderInv
    <3>2. Len(queued') = Len(done) + 1 + Len(requests') /\ Len(done) + 1 \in 1 .. Len(queued)
      BY <3>1, <1>4
    <3>3. ASSUME NEW i \in 1 .. Len(requests') PROVE requests'[i] = queued'[Len(done) + 1 + i]
      <4>1. CASE i \in 1 .. Len(requests)
        <5>1. Len(done) + 1 + i \in 1 .. Len(queued)
          BY <4>1, <3>1, <1>4
        <5>2. requests'[i] = requests[i] /\ requests[i] = queued[Len(done) + 1 + i]
          BY <4>1, <3>1, <1>4
        <5>3. queued'[Len(done) + 1 + i] = queued[Len(done) + 1 + i]
          BY <5>1, <1>4
        <5> QED BY <5>2, <5>3
      <4>2. CASE i = Len(requests) + 1
        <5>1. Len(done) + 1 + i = Len(queued) + 1
          BY <4>2, <3>1, <1>4
        <5> QED BY <4>2, <5>1, <1>4
      <4> QED BY <4>1, <4>2, <1>4
    <3> QED BY <3>1, <3>2, <3>3, <1>4
  <2>6. Len(done) <= Len(queued')
    BY <2>0, <1>4 DEF OrderInv
  <2>7. opened' /\ (\A w \in Workers : pc'[w] # "process") =>
          /\ Len(queued') = Len(done') + Len(requests')
          /\ \A i \in 1 .. Len(requests') : requests'[i] = queued'[Len(done') + i]
    BY <2>1, <2>4, <1>3
  <2>8. ASSUME NEW w \in Workers, opened', pc'[w] = "process"
        PROVE  /\ Len(queued') = Len(done') + 1 + Len(requests')
               /\ serving'[w] = queued'[Len(done') + 1]
               /\ \A i \in 1 .. Len(requests') : requests'[i] = queued'[Len(done') + 1 + i]
    BY <2>8, <2>1, <2>2, <2>5, <1>3
  <2> QED BY <2>3, <2>6, <2>7, <2>8, <1>3 DEF OrderInv
<1>9. PlaceInv'
  <2>1. /\ \A i \in 1 .. Len(requests) : requests[i] # r
        /\ r \in made /\ r # Nobody /\ \A w \in Workers : serving[w] # r
    BY <1>0, <1>1, ConstantsAssumption DEF PlaceInv
  <2>2. \A i \in 1 .. Len(requests') : i \in 1 .. Len(requests) \/ i = Len(requests) + 1
    BY <1>4
  <2>3. \A u \in Threads : req'[u] # Nobody => u # t /\ req'[u] = req[u] /\ req[u] # r
    BY <1>0, <1>1, <1>2, <2>1 DEF PlaceInv
  <2>4. ASSUME NEW i \in 1 .. Len(requests'), NEW j \in 1 .. Len(requests'), requests'[i] = requests'[j]
        PROVE  i = j
    <3>1. \A k \in 1 .. Len(requests) : requests'[k] = requests[k] /\ requests[k] # r
      BY <2>1, <1>4
    <3>2. \A k, l \in 1 .. Len(requests) : requests[k] = requests[l] => k = l
      BY <1>0 DEF PlaceInv
    <3>3. requests'[Len(requests) + 1] = r
      BY <1>4
    <3> HIDE DEF to
    <3> QED BY <2>2, <2>4, <3>1, <3>2, <3>3
  <2>5. ASSUME NEW i \in 1 .. Len(requests')
        PROVE  /\ requests'[i] \in made /\ \A u \in Threads : req'[u] # requests'[i]
               /\ \A w \in Workers : serving[w] # requests'[i]
    <3>1. CASE i = Len(requests) + 1
      BY <3>1, <2>1, <2>3, <1>4
    <3>2. CASE i \in 1 .. Len(requests)
      <4>1. requests'[i] = requests[i] /\ requests[i] # Nobody
        BY <3>2, <1>4, ConstantsAssumption
      <4> QED BY <4>1, <3>2, <2>3, <1>0 DEF PlaceInv
    <3> QED BY <3>1, <3>2, <2>2
  <2>6. /\ \A u, v \in Threads : req'[u] = req'[v] /\ req'[u] # Nobody => u = v
        /\ \A u \in Threads : req'[u] # Nobody => req'[u] \in made /\ \A w \in Workers : serving[w] # req'[u]
    BY <2>3, <1>0 DEF PlaceInv
  <2> QED BY <2>4, <2>5, <2>6, <1>0, <1>3 DEF PlaceInv
<1>10. SizesInv'
  <2>1. \A u \in Threads : pc'[u] = "ask" => pc[u] = "ask" /\ req'[u] = req[u] /\ Home(u)' = Home(u)
    BY <1>2, <1>3 DEF Home
  <2>2. \A w \in Workers : (pc'[w] = "result" => pc[w] = "result") /\ (req'[w] # Nobody => req[w] # Nobody)
    BY <1>2 DEF Threads
  <2> HIDE DEF to
  <2> QED BY <2>1, <2>2, <1>0, <1>3, SameSizes
<1>11. AnswerInv' /\ TellInv'
  <2> HIDE DEF to
  <2>1. \A w \in Workers : /\ pc'[w] \in {"process", "result"} <=> pc[w] \in {"process", "result"}
                           /\ pc'[w] = "result" <=> pc[w] = "result"
    BY <1>1, <1>2 DEF Threads
  <2>2. \A q \in Requests : Unanswered(q)' => Unanswered(q)
    <3>1. \A i \in 1 .. Len(requests') : requests'[i] = r \/ (i \in 1 .. Len(requests) /\ requests'[i] = requests[i])
      BY <1>4
    <3>2. \A q \in Requests, u \in Threads : req'[u] = q => req[u] = q
      BY <1>2, ConstantsAssumption
    <3> QED BY <3>1, <3>2, <2>1, <1>1, <1>3 DEF Unanswered
  <2>3. \A q \in Requests \ Timed, w \in Workers : Result(w, q)' = Result(w, q)
    BY <2>1, <1>3 DEF Result
  <2>4. \A w \in Workers : pc'[w] \notin {"process", "result"} /\ serving'[w] \in Requests \ Timed => calls[serving'[w]] = 1
    BY <2>1, <1>0, <1>3 DEF AnswerInv
  <2>5. \A q \in Requests \ Timed : (Unanswered(q)' => calls[q] = 0) /\ (q \in flagFinished' => calls[q] = 1)
    BY <2>2, <1>0, <1>3 DEF AnswerInv
  <2> QED BY <2>3, <2>4, <2>5, <1>0, <1>3, SameAnswers
<1> QED BY <1>5, <1>6, <1>7, <1>8, <1>9, <1>10, <1>11 DEF IInv

\* The dispatcher gets a processor.
LEMMA DispatchStep ==
    ASSUME IInv, NEW t \in Threads, Dispatch(t)
    PROVE  IInv'
<1>0. TypeOK /\ StepsInv /\ OneProcessor /\ FlagInv /\ OrderInv /\ PlaceInv /\ SizesInv /\ AnswerInv /\ TellInv
  BY DEF IInv
<1>1. /\ pc[t] = "dispatch" /\ Go(t, "dispatch", Home(t), Nobody)
      /\ UNCHANGED <<requests, flagProcessRequest, opened, released, stopping, serving, ioSize, sizePassed, flagFinished,
                     timeouts, made, queued, done, did, again, calls, told>>
      /\ tasks' = IF released THEN tasks ELSE tasks + 1
  BY DEF Dispatch, Go, queue, request, history, work, callbacks
<1>2. t \in Callers /\ t \notin Workers /\ Home(t) = "outside"
  BY <1>0, <1>1, ConstantsAssumption DEF StepsInv, Threads, Home
<1>3. /\ pc' \in [Threads -> Steps] /\ req' \in [Threads -> Requests \cup {Nobody}]
      /\ pc'[t] = "outside" /\ req'[t] = Nobody
      /\ \A u \in Threads \ {t} : pc'[u] = pc[u] /\ req'[u] = req[u]
  <2>1. "outside" \in Steps
    BY DEF Steps
  <2> QED BY <2>1, <1>0, <1>1, <1>2, GoFacts
<1>4. Processing = {t} /\ tasks = 0
  <2>1. t \in Processing
    BY <1>1, <1>2 DEF Processing
  <2> QED BY <2>1, <1>0 DEF OneProcessor, TypeOK
<1>5. Processing' = {}
  <2>1. \A u \in Callers : u # t => pc[u] # "dispatch"
    BY <1>4 DEF Processing
  <2>2. \A u \in Workers : pc[u] = "outside"
    BY <1>2, <1>4 DEF Processing
  <2> QED BY <2>1, <2>2, <1>2, <1>3 DEF Processing, Threads
<1>6. TypeOK'
  BY <1>0, <1>1, <1>3, <1>4 DEF TypeOK
<1>7. StepsInv'
  BY <1>0, <1>1, <1>2, <1>3 DEF StepsInv, Threads
<1>8. OneProcessor' /\ FlagInv'
  BY <1>0, <1>1, <1>4, <1>5 DEF OneProcessor, FlagInv
<1>9. OrderInv' /\ PlaceInv' /\ SizesInv' /\ AnswerInv' /\ TellInv'
  <2>1. \A w \in Workers : pc'[w] = pc[w] /\ req'[w] = req[w]
    BY <1>2, <1>3 DEF Threads
  <2>2. req[t] = Nobody
    BY <1>0, <1>1 DEF StepsInv
  <2>3. req' = req
    BY <2>2, <1>0, <1>3 DEF TypeOK
  <2>4. \A u \in Threads : pc'[u] = "ask" => pc[u] = "ask" /\ Home(u)' = Home(u)
    BY <1>1, <1>3 DEF Home
  <2>5. OrderInv'
    BY <2>1, <1>0, <1>1 DEF OrderInv
  <2>8. PlaceInv'
    BY <2>3, <1>0, <1>1 DEF PlaceInv
  <2>9. SizesInv'
    BY <2>1, <2>3, <2>4, <1>0, <1>1 DEF SizesInv, Left
  <2>6. \A r \in Requests : Unanswered(r)' = Unanswered(r)
    BY <2>1, <2>3, <1>1 DEF Unanswered
  <2>7. AnswerInv' /\ TellInv'
    BY <2>1, <2>6, <1>0, <1>1 DEF AnswerInv, TellInv, Result, Truthful
  <2> QED BY <2>5, <2>7, <2>8, <2>9
<1> QED BY <1>6, <1>7, <1>8, <1>9 DEF IInv

-----------------------------------------------------------------------------
(* The program closes the file, and the dispatcher goes on                 *)

\* The file is closed, a thread stopped, the dispatcher released.
LEMMA OutsideStep ==
    ASSUME IInv, Close \/ ReleaseDispatcher \/ \E w \in Workers : StopThread(w)
    PROVE  IInv'
<1>0. TypeOK /\ StepsInv /\ OneProcessor /\ FlagInv /\ OrderInv /\ PlaceInv /\ SizesInv /\ AnswerInv /\ TellInv
  BY DEF IInv
<1>1. /\ UNCHANGED <<requests, flagProcessRequest, pc, req, serving, ioSize, sizePassed, flagFinished,
                     timeouts, made, queued, done, did, again, calls, told>>
      /\ opened' \in BOOLEAN /\ (opened' => opened) /\ tasks' \in {0, tasks}
      /\ released' \in BOOLEAN /\ (released => released')
      /\ tasks' = tasks \/ released'
      /\ stopping \subseteq stopping' /\ stopping' \subseteq Workers
  <2>1. CASE Close
    BY <2>1, <1>0 DEF Close, queue, threads, request, history, work, callbacks, dispatcher, TypeOK
  <2>2. CASE ReleaseDispatcher
    BY <2>2, <1>0 DEF ReleaseDispatcher, queue, threads, request, history, work, callbacks, TypeOK
  <2>3. CASE \E w \in Workers : StopThread(w)
    BY <2>3, <1>0 DEF StopThread, queue, threads, request, history, work, callbacks, TypeOK
  <2> QED BY <2>1, <2>2, <2>3
<1>2. TypeOK' /\ StepsInv'
  BY <1>0, <1>1 DEF TypeOK, StepsInv
<1>3. Processing' = Processing
  BY <1>1 DEF Processing
<1>4. OneProcessor' /\ FlagInv'
  BY <1>0, <1>1, <1>3 DEF OneProcessor, FlagInv, TypeOK
<1>5. OrderInv'
  BY <1>0, <1>1, SameOrder
<1>6. PlaceInv' /\ SizesInv'
  BY <1>0, <1>1 DEF PlaceInv, SizesInv, Left, Home
<1>7. \A r \in Requests : Unanswered(r)' = Unanswered(r)
  BY <1>1 DEF Unanswered
<1>8. AnswerInv'
  BY <1>0, <1>1, <1>7 DEF AnswerInv
<1>9. TellInv'
  <2>1. \A a \in told : Truthful(a) => Truthful(a)'
    BY <1>1 DEF Truthful
  <2> QED BY <2>1, <1>0, <1>1 DEF TellInv, Result
<1> QED BY <1>2, <1>4, <1>5, <1>6, <1>8, <1>9 DEF IInv

\* A worker's step from inside the processor: it is the only one, and the flag is set.
LEMMA InProcessor ==
    ASSUME TypeOK, StepsInv, OneProcessor, FlagInv,
           NEW w \in Workers, pc[w] # "outside", NEW to \in Steps \ {"dispatch"}, NEW r \in Requests \cup {Nobody},
           Go(w, pc[w], to, r), r # Nobody <=> to \in {"ask", "add"},
           NEW s \in Requests \cup {Nobody}, serving' = [serving EXCEPT ![w] = s],
           to \in {"process", "result", "callback"} => s # Nobody, to \in {"outside", "while"} => s = Nobody
    PROVE  /\ Processing = {w} /\ tasks = 0 /\ flagProcessRequest
           /\ \A v \in Workers \ {w} : pc[v] = "outside" /\ serving[v] = Nobody /\ req[v] = Nobody
           /\ pc'[w] = to /\ req'[w] = r /\ serving'[w] = s
           /\ pc' \in [Threads -> Steps] /\ req' \in [Threads -> Requests \cup {Nobody}]
           /\ serving' \in [Workers -> Requests \cup {Nobody}]
           /\ \A u \in Threads \ {w} : pc'[u] = pc[u] /\ req'[u] = req[u]
           /\ \A v \in Workers \ {w} : serving'[v] = serving[v] /\ pc'[v] = pc[v] /\ req'[v] = req[v]
           /\ Processing' = IF to = "outside" THEN {} ELSE {w}
           /\ StepsInv' /\ w \in Threads
<1>1. w \in Threads /\ w \notin Callers
  BY ConstantsAssumption DEF Threads
<1>2. /\ pc' \in [Threads -> Steps] /\ req' \in [Threads -> Requests \cup {Nobody}]
      /\ pc'[w] = to /\ req'[w] = r
      /\ \A u \in Threads \ {w} : pc'[u] = pc[u] /\ req'[u] = req[u]
  <2>1. to \in Steps
    OBVIOUS
  <2> QED BY <1>1, <2>1, GoFacts, Zenon
<1>3. Processing = {w} /\ tasks = 0 /\ flagProcessRequest
  <2>1. w \in Processing
    BY DEF Processing
  <2> QED BY <2>1 DEF OneProcessor, TypeOK, FlagInv
<1>4. /\ \A c \in Callers : pc[c] # "dispatch"
      /\ \A v \in Workers \ {w} : pc[v] = "outside" /\ serving[v] = Nobody /\ req[v] = Nobody
  BY <1>1, <1>3 DEF Processing, StepsInv, Threads
<1>5. Processing' = IF to = "outside" THEN {} ELSE {w}
  BY <1>1, <1>2, <1>4 DEF Processing, Threads
<1>6. /\ serving' \in [Workers -> Requests \cup {Nobody}] /\ serving'[w] = s
      /\ \A v \in Workers \ {w} : serving'[v] = serving[v]
  BY DEF TypeOK
<1>7. StepsInv'
  <2>1. \A u \in Threads : req'[u] # Nobody <=> pc'[u] \in {"ask", "add"}
    BY <1>1, <1>2 DEF StepsInv
  <2>2. \A v \in Workers : /\ pc'[v] \in {"process", "result", "callback"} => serving'[v] # Nobody
                           /\ pc'[v] \in {"outside", "while"} => serving'[v] = Nobody
    BY <1>1, <1>2, <1>6 DEF StepsInv, Threads
  <2>3. (\A c \in Callers : pc'[c] \in {"outside", "ask", "add", "dispatch"}) /\ \A v \in Workers : pc'[v] # "dispatch"
    BY <1>1, <1>2 DEF StepsInv, Threads
  <2> QED BY <2>1, <2>2, <2>3 DEF StepsInv
<1>8. \A v \in Workers \ {w} : pc'[v] = pc[v] /\ req'[v] = req[v]
  BY <1>2 DEF Threads
<1> QED BY <1>1, <1>2, <1>3, <1>4, <1>5, <1>6, <1>7, <1>8

\* The dispatcher runs a processor, which looks at the queue when the file is open.
LEMMA RunProcessorStep ==
    ASSUME IInv, NEW w \in Workers, RunProcessor(w)
    PROVE  IInv'
<1>0. TypeOK /\ StepsInv /\ OneProcessor /\ FlagInv /\ OrderInv /\ PlaceInv /\ SizesInv /\ AnswerInv /\ TellInv
  BY DEF IInv
<1> DEFINE to == IF opened THEN "while" ELSE "outside"
<1>1. /\ tasks = 1 /\ tasks' = 0 /\ w \notin stopping
      /\ Go(w, "outside", to, Nobody) /\ to \in Steps /\ to \in {"while", "outside"} /\ w \in Threads /\ w \notin Callers
      /\ UNCHANGED <<requests, flagProcessRequest, opened, released, stopping, serving, ioSize, sizePassed, flagFinished,
                     timeouts, made, queued, done, did, again, calls, told>>
  BY <1>0, ConstantsAssumption DEF RunProcessor, TypeOK, Steps, Threads, queue, request, history, work, callbacks
<1>2. /\ pc[w] = "outside" /\ pc' \in [Threads -> Steps] /\ req' \in [Threads -> Requests \cup {Nobody}]
      /\ pc'[w] = to /\ req'[w] = Nobody
      /\ \A u \in Threads \ {w} : pc'[u] = pc[u] /\ req'[u] = req[u]
  <2> HIDE DEF to
  <2> QED BY <1>0, <1>1, GoFacts, Zenon
<1>3. Processing = {} /\ flagProcessRequest /\ serving[w] = Nobody /\ req[w] = Nobody
  <2> HIDE DEF to
  <2>1. Processing = {} /\ flagProcessRequest
    BY <1>0, <1>1 DEF OneProcessor, FlagInv, TypeOK
  <2>2. serving[w] = Nobody /\ req[w] = Nobody
    BY <1>0, <1>1, <1>2 DEF StepsInv
  <2> QED BY <2>1, <2>2
<1>4. Processing' = IF opened THEN {w} ELSE {}
  BY <1>1, <1>2, <1>3 DEF Processing, Threads
<1>5. TypeOK'
  BY <1>0, <1>1, <1>2 DEF TypeOK
<1>6. StepsInv'
  BY <1>0, <1>1, <1>2, <1>3 DEF StepsInv, Threads
<1>7. OneProcessor' /\ FlagInv'
  BY <1>1, <1>3, <1>4 DEF OneProcessor, FlagInv
<1> HIDE DEF to
<1>8. req' = req
  BY <1>0, <1>2, <1>3 DEF TypeOK
<1>9. /\ \A v \in Workers : /\ pc'[v] \in {"process", "result"} <=> pc[v] \in {"process", "result"}
                            /\ pc'[v] \in {"process", "result"} => pc'[v] = pc[v]
      /\ \A u \in Threads : pc'[u] = "ask" => pc[u] = "ask"
  BY <1>1, <1>2 DEF Threads
<1>10. OrderInv' /\ PlaceInv' /\ SizesInv'
  <2>1. OrderInv'
    BY <1>0, <1>1, <1>9, SameOrder
  <2>2. PlaceInv' /\ SizesInv'
    BY <1>0, <1>1, <1>8, <1>9 DEF PlaceInv, SizesInv, Left, Home
  <2> QED BY <2>1, <2>2
<1>11. AnswerInv' /\ TellInv'
  <2>1. \A r \in Requests : Unanswered(r)' = Unanswered(r)
    BY <1>1, <1>8, <1>9 DEF Unanswered
  <2>2. \A v \in Workers, r \in Requests : Result(v, r)' = Result(v, r)
    BY <1>1, <1>9 DEF Result
  <2>3. AnswerInv'
    BY <2>1, <1>0, <1>1, <1>9 DEF AnswerInv
  <2>4. \A a \in told : Truthful(a) => Truthful(a)'
    BY <1>1 DEF Truthful
  <2>5. TellInv'
    BY <2>2, <2>4, <1>0, <1>1 DEF TellInv
  <2> QED BY <2>3, <2>5
<1> QED BY <1>5, <1>6, <1>7, <1>10, <1>11 DEF IInv

\* The processor ends, or goes on after a request.
LEMMA TurnStep ==
    ASSUME IInv, NEW w \in Workers, Stopped(w) \/ NoRequest(w) \/ ProcessClosed(w) \/ EndCallback(w) \/ Late(w)
    PROVE  IInv'
<1>0. TypeOK /\ StepsInv /\ OneProcessor /\ FlagInv /\ OrderInv /\ PlaceInv /\ SizesInv /\ AnswerInv /\ TellInv
  BY DEF IInv
<1>1. PICK to \in {"outside", "while"} :
          /\ Go(w, pc[w], to, Nobody)
          /\ pc[w] \in {"while", "process", "callback", "result"} /\ (pc[w] = "process" => ~opened)
          /\ pc[w] = "result" => serving[w] \in flagFinished
          /\ serving' = [serving EXCEPT ![w] = Nobody]
          /\ UNCHANGED <<requests, opened, tasks, released, stopping, ioSize, sizePassed, timeouts, made, queued, done, did,
                         again, calls, told>>
          /\ flagFinished' = IF pc[w] = "callback" THEN flagFinished \cup {serving[w]} ELSE flagFinished
          /\ \/ flagProcessRequest' = flagProcessRequest /\ (to = "outside" => stopping # {})
             \/ ~flagProcessRequest' /\ flagProcessRequest' \in BOOLEAN /\ requests = <<>> /\ to = "outside"
  <2>1. CASE Stopped(w)
    <3>1. serving' = serving /\ serving[w] = Nobody
      BY <2>1, <1>0 DEF Stopped, Go, StepsInv
    <3>2. serving' = [serving EXCEPT ![w] = Nobody]
      BY <3>1, <1>0 DEF TypeOK
    <3> QED BY <3>2, <2>1 DEF Stopped, Go, queue, dispatcher, request, history, work, callbacks
  <2>2. CASE NoRequest(w)
    <3>1. serving' = serving /\ serving[w] = Nobody
      BY <2>2, <1>0 DEF NoRequest, Go, StepsInv
    <3>2. serving' = [serving EXCEPT ![w] = Nobody]
      BY <3>1, <1>0 DEF TypeOK
    <3> QED BY <3>2, <2>2 DEF NoRequest, Go, dispatcher, request, history, work, callbacks
  <2>3. CASE ProcessClosed(w)
    BY <2>3 DEF ProcessClosed, Go, queue, dispatcher, request, history, work, callbacks
  <2>4. CASE EndCallback(w)
    BY <2>4 DEF EndCallback, Go, queue, dispatcher, request, history, work, callbacks
  <2>5. CASE Late(w)
    BY <2>5 DEF Late, Go, queue, dispatcher, request, history, work, callbacks
  <2> QED BY <2>1, <2>2, <2>3, <2>4, <2>5
<1>2. /\ Processing = {w} /\ tasks = 0 /\ flagProcessRequest
      /\ \A v \in Workers \ {w} : pc[v] = "outside" /\ serving[v] = Nobody /\ req[v] = Nobody
      /\ pc'[w] = to /\ req'[w] = Nobody /\ serving'[w] = Nobody
      /\ pc' \in [Threads -> Steps] /\ req' \in [Threads -> Requests \cup {Nobody}]
      /\ serving' \in [Workers -> Requests \cup {Nobody}]
      /\ \A u \in Threads \ {w} : pc'[u] = pc[u] /\ req'[u] = req[u]
      /\ \A v \in Workers \ {w} : serving'[v] = serving[v] /\ pc'[v] = pc[v] /\ req'[v] = req[v]
      /\ Processing' = IF to = "outside" THEN {} ELSE {w}
      /\ StepsInv' /\ w \in Threads
  <2>1. /\ pc[w] # "outside" /\ to \in Steps \ {"dispatch"} /\ to \notin {"ask", "add", "process", "result", "callback"}
        /\ serving' = [serving EXCEPT ![w] = Nobody] /\ Go(w, pc[w], to, Nobody)
    BY <1>1 DEF Steps
  <2> QED BY <2>1, <1>0, InProcessor
<1>3. flagFinished' \subseteq Requests /\ flagProcessRequest' \in BOOLEAN
  <2>1. pc[w] = "callback" => serving[w] \in Requests
    BY <1>0 DEF StepsInv, TypeOK
  <2> QED BY <2>1, <1>0, <1>1 DEF TypeOK
<1>4. TypeOK'
  BY <1>0, <1>1, <1>2, <1>3 DEF TypeOK
<1>5. OneProcessor' /\ FlagInv'
  <2>1. OneProcessor'
    BY <1>1, <1>2 DEF OneProcessor
  <2>2. CASE flagProcessRequest' = flagProcessRequest /\ (to = "outside" => stopping # {})
    BY <2>1, <2>2, <1>1, <1>2 DEF FlagInv
  <2>3. CASE ~flagProcessRequest' /\ requests = <<>> /\ to = "outside"
    BY <2>1, <2>3, <1>1, <1>2 DEF FlagInv
  <2> QED BY <2>1, <2>2, <2>3, <1>1
<1>6. OrderInv'
  <2>1. \A v \in Workers : pc'[v] = "process" => pc[v] = "process" /\ serving'[v] = serving[v]
    BY <1>1, <1>2
  <2>2. \A v \in Workers : pc[v] = "process" /\ opened' => pc'[v] = "process"
    BY <1>1, <1>2
  <2> QED BY <2>1, <2>2, <1>0, <1>1, SameOrder
<1>7. PlaceInv'
  BY <1>0, <1>1, <1>2, FewerPlaces
<1>8. SizesInv'
  <2>1. \A t \in Threads : pc'[t] = "ask" => pc[t] = "ask" /\ req'[t] = req[t] /\ Home(t)' = Home(t)
    <3>1. \A t \in Threads : pc'[t] = "ask" => t # w
      BY <1>1, <1>2
    <3>2. \A t \in Threads \ {w} : Home(t)' = Home(t)
      BY <1>2 DEF Home, Threads
    <3> QED BY <3>1, <3>2, <1>2
  <2>2. \A v \in Workers : /\ pc'[v] = "result" => pc[v] = "result" /\ serving'[v] = serving[v]
                           /\ serving'[v] = Nobody /\ req'[v] # Nobody => serving[v] = Nobody /\ req[v] # Nobody
    BY <1>1, <1>2
  <2> QED BY <2>1, <2>2, <1>0, <1>1, SameSizes
<1>9. AnswerInv' /\ TellInv'
  <2>1. \A r \in Requests : Unanswered(r)' => Unanswered(r)
    <3>1. \A r \in Requests, t \in Threads : req'[t] = r => req[t] = r
      BY <1>2, ConstantsAssumption
    <3>2. \A v \in Workers : pc'[v] \in {"process", "result"} => pc'[v] = pc[v] /\ serving'[v] = serving[v]
      BY <1>1, <1>2
    <3> QED BY <3>1, <3>2, <1>1 DEF Unanswered
  <2>2. \A r \in Requests \ Timed : r \in flagFinished' => calls[r] = 1
    BY <1>0, <1>1 DEF AnswerInv
  <2>3. \A v \in Workers : pc'[v] \notin {"process", "result"} /\ serving'[v] \in Requests \ Timed => calls[serving'[v]] = 1
    BY <1>2, ConstantsAssumption
  <2>4. \A r \in Requests \ Timed, v \in Workers : calls[r] = 0 => Result(v, r)' = Result(v, r)
    <3> SUFFICES ASSUME NEW r \in Requests \ Timed, NEW v \in Workers, calls[r] = 0
                 PROVE  Result(v, r)' = Result(v, r)
      OBVIOUS
    <3>1. CASE v # w
      BY <3>1, <1>2 DEF Result
    <3>2. CASE v = w
      <4>1. ~Result(w, r)
        BY <1>0, <1>1 DEF Result, AnswerInv
      <4>2. ~Result(w, r)'
        BY <1>1, <1>2 DEF Result
      <4> QED BY <3>2, <4>1, <4>2 DEF Result
    <3> QED BY <3>1, <3>2
  <2>5. \A r \in Requests \ Timed : Unanswered(r)' => calls[r] = 0
    BY <2>1, <1>0 DEF AnswerInv
  <2> QED BY <2>2, <2>3, <2>4, <2>5, <1>0, <1>1, SameAnswers
<1> QED BY <1>2, <1>4, <1>5, <1>6, <1>7, <1>8, <1>9 DEF IInv

\* The processor takes the first request.
LEMMA PopStep ==
    ASSUME IInv, NEW w \in Workers, Pop(w)
    PROVE  IInv'
<1>0. TypeOK /\ StepsInv /\ OneProcessor /\ FlagInv /\ OrderInv /\ PlaceInv /\ SizesInv /\ AnswerInv /\ TellInv
  BY DEF IInv
<1>1. PICK r \in Requests :
      /\ r = Head(requests) /\ requests # <<>> /\ requests' = Tail(requests) /\ pc[w] = "while"
      /\ Go(w, pc[w], "process", Nobody) /\ serving' = [serving EXCEPT ![w] = r]
      /\ UNCHANGED <<flagProcessRequest, opened, tasks, released, stopping, ioSize, sizePassed, flagFinished, timeouts, made,
                     queued, done, did, again, calls, told>>
  <2>1. requests # <<>> /\ Head(requests) \in Requests
    BY <1>0 DEF Pop, TypeOK
  <2> QED BY <2>1 DEF Pop, Go, dispatcher, request, history, work, callbacks
<1>2. /\ requests \in Seq(Requests) /\ requests' \in Seq(Requests)
      /\ r = requests[1] /\ Len(requests) \in Nat /\ Len(requests') = Len(requests) - 1
      /\ \A i \in 1 .. Len(requests') : requests'[i] = requests[i + 1] /\ i + 1 \in 1 .. Len(requests)
      /\ Len(requests) >= 1 /\ Len(done) \in Nat /\ Len(queued) \in Nat
  BY <1>0, <1>1 DEF TypeOK
<1>3. /\ Processing = {w} /\ tasks = 0 /\ flagProcessRequest
      /\ \A v \in Workers \ {w} : pc[v] = "outside" /\ serving[v] = Nobody /\ req[v] = Nobody
      /\ pc'[w] = "process" /\ req'[w] = Nobody /\ serving'[w] = r
      /\ pc' \in [Threads -> Steps] /\ req' \in [Threads -> Requests \cup {Nobody}]
      /\ serving' \in [Workers -> Requests \cup {Nobody}]
      /\ \A u \in Threads \ {w} : pc'[u] = pc[u] /\ req'[u] = req[u]
      /\ \A v \in Workers \ {w} : serving'[v] = serving[v] /\ pc'[v] = pc[v] /\ req'[v] = req[v]
      /\ Processing' = {w} /\ StepsInv' /\ w \in Threads
  <2>1. /\ pc[w] # "outside" /\ "process" \in Steps \ {"dispatch"} /\ "process" \notin {"ask", "add", "outside", "while"}
        /\ r # Nobody /\ "process" # "outside"
    BY <1>1, ConstantsAssumption DEF Steps
  <2>2. TypeOK /\ StepsInv /\ OneProcessor /\ FlagInv
    BY <1>0
  <2>3. Go(w, pc[w], "process", Nobody) /\ serving' = [serving EXCEPT ![w] = r]
    BY <1>1
  <2> QED BY <2>1, <2>2, <2>3, InProcessor
<1>4. serving[w] = Nobody /\ req' = req
  <2>1. serving[w] = Nobody /\ req[w] = Nobody
    BY <1>0, <1>1, <1>3 DEF StepsInv
  <2> QED BY <2>1, <1>0, <1>3 DEF TypeOK
<1>5. TypeOK'
  BY <1>0, <1>1, <1>2, <1>3 DEF TypeOK
<1>6. OneProcessor' /\ FlagInv'
  BY <1>1, <1>3 DEF OneProcessor, FlagInv
<1>7. OrderInv'
  <2>1. opened => /\ Len(queued) = Len(done) + Len(requests)
                  /\ \A i \in 1 .. Len(requests) : requests[i] = queued[Len(done) + i]
    <3>1. \A v \in Workers : pc[v] # "process"
      BY <1>1, <1>3
    <3> QED BY <3>1, <1>0 DEF OrderInv
  <2>2. ASSUME opened PROVE Len(queued) = Len(done) + 1 + Len(requests') /\ r = queued[Len(done) + 1]
    <3>1. 1 \in 1 .. Len(requests)
      BY <1>2
    <3>2. requests[1] = queued[Len(done) + 1] /\ Len(queued) = Len(done) + Len(requests)
      BY <3>1, <2>1, <2>2
    <3> QED BY <3>2, <1>2
  <2>3. ASSUME opened, NEW i \in 1 .. Len(requests') PROVE requests'[i] = queued[Len(done) + 1 + i]
    <3>1. i + 1 \in 1 .. Len(requests) /\ Len(done) + (i + 1) = Len(done) + 1 + i
      BY <1>2
    <3> QED BY <3>1, <2>1, <2>3, <1>2
  <2>4. \A v \in Workers : pc'[v] = "process" => v = w
    BY <1>3
  <2>5. ~(\A v \in Workers : pc'[v] # "process")
    BY <1>3
  <2> QED BY <2>2, <2>3, <2>4, <2>5, <1>0, <1>1, <1>3 DEF OrderInv
<1>8. PlaceInv'
  <2>1. 1 \in 1 .. Len(requests) /\ \A i \in 1 .. Len(requests') : i + 1 # 1
    BY <1>2
  <2>2. \A i \in 1 .. Len(requests') : requests'[i] # r
    BY <2>1, <1>0, <1>2 DEF PlaceInv
  <2>3. r \in made /\ \A t \in Threads : req[t] # r
    BY <2>1, <1>0, <1>2 DEF PlaceInv
  <2>4. \A i, j \in 1 .. Len(requests') : requests'[i] = requests'[j] => i = j
    <3> TAKE i, j \in 1 .. Len(requests')
    <3>1. i + 1 \in 1 .. Len(requests) /\ j + 1 \in 1 .. Len(requests) /\ (i + 1 = j + 1 => i = j)
      BY <1>2
    <3> QED BY <3>1, <1>0, <1>2 DEF PlaceInv
  <2>5. ASSUME NEW i \in 1 .. Len(requests')
        PROVE  /\ requests'[i] \in made /\ \A t \in Threads : req[t] # requests'[i]
               /\ \A v \in Workers : serving'[v] # requests'[i]
    <3>1. i + 1 \in 1 .. Len(requests) /\ requests'[i] = requests[i + 1]
      BY <1>2
    <3>2. requests'[i] \in made /\ (\A t \in Threads : req[t] # requests'[i]) /\ \A v \in Workers : serving[v] # requests'[i]
      BY <3>1, <1>0 DEF PlaceInv
    <3> QED BY <3>2, <2>2, <1>3
  <2>6. \A t \in Threads : req[t] # Nobody => req[t] \in made /\ \A v \in Workers : serving'[v] # req[t]
    BY <2>3, <1>0, <1>3 DEF PlaceInv
  <2>7. \A v \in Workers : serving'[v] # Nobody => serving'[v] \in made
    BY <2>3, <1>0, <1>3 DEF PlaceInv
  <2> QED BY <2>4, <2>5, <2>6, <2>7, <1>0, <1>1, <1>4 DEF PlaceInv
<1>9. SizesInv'
  <2>1. \A t \in Threads : pc'[t] = "ask" => pc[t] = "ask" /\ req'[t] = req[t] /\ Home(t)' = Home(t)
    <3>1. \A t \in Threads : pc'[t] = "ask" => t # w
      BY <1>3
    <3>2. \A t \in Threads \ {w} : Home(t)' = Home(t)
      BY <1>3 DEF Home, Threads
    <3> QED BY <3>1, <3>2, <1>3
  <2>2. \A v \in Workers : /\ pc'[v] = "result" => pc[v] = "result" /\ serving'[v] = serving[v]
                           /\ serving'[v] = Nobody /\ req'[v] # Nobody => serving[v] = Nobody /\ req[v] # Nobody
    BY <1>3
  <2> QED BY <2>1, <2>2, <1>0, <1>1, SameSizes
<1>10. AnswerInv' /\ TellInv'
  <2>1. \A q \in Requests : Unanswered(q)' => Unanswered(q)
    <3>1. \A i \in 1 .. Len(requests') : \E j \in 1 .. Len(requests) : requests'[i] = requests[j]
      BY <1>2
    <3>2. \E j \in 1 .. Len(requests) : requests[j] = r
      <4>1. 1 \in 1 .. Len(requests)
        BY <1>2
      <4> QED BY <4>1, <1>2
    <3>3. \A v \in Workers : pc'[v] \in {"process", "result"} => v = w /\ serving'[v] = r
      BY <1>3
    <3> QED BY <3>1, <3>2, <3>3, <1>4 DEF Unanswered
  <2>2. \A q \in Requests \ Timed : (Unanswered(q)' => calls[q] = 0) /\ (q \in flagFinished' => calls[q] = 1)
    BY <2>1, <1>0, <1>1 DEF AnswerInv
  <2>3. \A v \in Workers : pc'[v] \notin {"process", "result"} /\ serving'[v] \in Requests \ Timed => calls[serving'[v]] = 1
    BY <1>3, ConstantsAssumption
  <2>4. \A q \in Requests \ Timed, v \in Workers : Result(v, q)' = Result(v, q)
    <3>1. \A v \in Workers : pc'[v] # "result" /\ pc[v] # "result"
      BY <1>1, <1>3
    <3> QED BY <3>1 DEF Result
  <2> QED BY <2>2, <2>3, <2>4, <1>0, <1>1, SameAnswers
<1> QED BY <1>3, <1>5, <1>6, <1>7, <1>8, <1>9, <1>10 DEF IInv

\* The file does some of it, or nothing, or fails.
LEMMA ProcessStep ==
    ASSUME IInv, NEW w \in Workers, Process(w)
    PROVE  IInv'
<1>0. TypeOK /\ StepsInv /\ OneProcessor /\ FlagInv /\ OrderInv /\ PlaceInv /\ SizesInv /\ AnswerInv /\ TellInv
  BY DEF IInv
<1>1. PICK r \in Requests, n \in -1 .. Size :
      /\ r = serving[w] /\ opened /\ pc[w] = "process" /\ n <= Left(r)
      /\ Go(w, pc[w], "result", Nobody) /\ serving' = [serving EXCEPT ![w] = r]
      /\ ioSize' = [ioSize EXCEPT ![w] = n] /\ did' = [did EXCEPT ![r] = IF n > 0 THEN @ + n ELSE @]
      /\ done' = Append(done, r)
      /\ UNCHANGED <<requests, flagProcessRequest, opened, tasks, released, stopping, sizePassed, flagFinished, timeouts, made,
                     queued, again, calls, told>>
  <2>1. pc[w] = "process" /\ serving[w] \in Requests
    BY <1>0, ConstantsAssumption DEF Process, Go, StepsInv, TypeOK
  <2>2. PICK n \in Returns(serving[w]) :
            ioSize' = [ioSize EXCEPT ![w] = n] /\ did' = [did EXCEPT ![serving[w]] = IF n > 0 THEN @ + n ELSE @]
    BY DEF Process
  <2>3. n \in -1 .. Size /\ n <= Left(serving[w])
    BY <2>1, <2>2, <1>0, ConstantsAssumption DEF Returns, Left, TypeOK
  <2>4. serving' = [serving EXCEPT ![w] = serving[w]]
    BY <1>0 DEF Process, TypeOK
  <2> QED BY <2>1, <2>2, <2>3, <2>4 DEF Process, Go, queue, dispatcher, request, callbacks
<1>2. /\ Processing = {w} /\ tasks = 0 /\ flagProcessRequest
      /\ \A v \in Workers \ {w} : pc[v] = "outside" /\ serving[v] = Nobody /\ req[v] = Nobody
      /\ pc'[w] = "result" /\ req'[w] = Nobody /\ serving'[w] = r
      /\ pc' \in [Threads -> Steps] /\ req' \in [Threads -> Requests \cup {Nobody}]
      /\ serving' \in [Workers -> Requests \cup {Nobody}]
      /\ \A u \in Threads \ {w} : pc'[u] = pc[u] /\ req'[u] = req[u]
      /\ \A v \in Workers \ {w} : serving'[v] = serving[v] /\ pc'[v] = pc[v] /\ req'[v] = req[v]
      /\ Processing' = {w} /\ StepsInv' /\ w \in Threads
  <2>1. /\ pc[w] # "outside" /\ "result" \in Steps \ {"dispatch"} /\ "result" \notin {"ask", "add", "outside", "while"}
        /\ r # Nobody /\ "result" # "outside"
    BY <1>1, ConstantsAssumption DEF Steps
  <2> QED BY <2>1, <1>0, <1>1, InProcessor
<1>3. serving' = serving /\ req' = req
  <2>1. req[w] = Nobody
    BY <1>0, <1>1, <1>2 DEF StepsInv
  <2> QED BY <2>1, <1>0, <1>1, <1>2 DEF TypeOK
<1>4. /\ did' \in [Requests -> Nat] /\ did'[r] = did[r] + (IF n > 0 THEN n ELSE 0)
      /\ \A q \in Requests \ {r} : did'[q] = did[q]
      /\ ioSize' \in [Workers -> -1 .. Size] /\ ioSize'[w] = n
      /\ \A v \in Workers \ {w} : ioSize'[v] = ioSize[v]
  BY <1>0, <1>1 DEF TypeOK
<1>5. /\ Len(queued) = Len(done) + 1 + Len(requests) /\ r = queued[Len(done) + 1]
      /\ \A i \in 1 .. Len(requests) : requests[i] = queued[Len(done) + 1 + i]
  BY <1>0, <1>1 DEF OrderInv
<1>6. /\ Len(requests) \in Nat /\ Len(queued) \in Nat /\ Len(done) \in Nat
      /\ done' \in Seq(Requests) /\ Len(done') = Len(done) + 1 /\ done'[Len(done) + 1] = r
      /\ \A i \in 1 .. Len(done) : done'[i] = done[i]
      /\ Len(done) + 1 \in 1 .. Len(queued)
  <2>1. requests \in Seq(Requests) /\ queued \in Seq(Requests) /\ done \in Seq(Requests) /\ done' = Append(done, r)
    BY <1>0, <1>1 DEF TypeOK
  <2>2. /\ Len(requests) \in Nat /\ Len(queued) \in Nat /\ Len(done) \in Nat
        /\ done' \in Seq(Requests) /\ Len(done') = Len(done) + 1 /\ done'[Len(done) + 1] = r
        /\ \A i \in 1 .. Len(done) : done'[i] = done[i]
    BY <2>1
  <2> QED BY <2>2, <1>5
<1>7. TypeOK'
  BY <1>0, <1>1, <1>2, <1>4, <1>6 DEF TypeOK
<1>8. OneProcessor' /\ FlagInv'
  BY <1>1, <1>2 DEF OneProcessor, FlagInv
<1>9. OrderInv'
  <2>1. \A i \in 1 .. Len(done') : done'[i] = queued[i]
    <3> TAKE i \in 1 .. Len(done')
    <3>1. i \in 1 .. Len(done) \/ i = Len(done) + 1
      BY <1>6
    <3> QED BY <3>1, <1>0, <1>5, <1>6 DEF OrderInv
  <2>2. \A v \in Workers : pc'[v] # "process"
    BY <1>2
  <2>3. Len(done') <= Len(queued) /\ Len(queued) = Len(done') + Len(requests)
    BY <1>5, <1>6
  <2>4. \A i \in 1 .. Len(requests) : requests[i] = queued[Len(done') + i]
    BY <1>5, <1>6
  <2> QED BY <2>1, <2>2, <2>3, <2>4, <1>1 DEF OrderInv
<1>10. PlaceInv'
  BY <1>0, <1>1, <1>3 DEF PlaceInv
<1>11. SizesInv'
  <2>1. \A t \in Threads : pc'[t] = "ask" /\ Home(t)' # "while" => did'[req'[t]] = 0
    <3> SUFFICES ASSUME NEW t \in Threads, pc'[t] = "ask", Home(t)' # "while" PROVE did'[req'[t]] = 0
      OBVIOUS
    <3>1. t # w /\ pc[t] = "ask" /\ Home(t) # "while"
      BY <1>2, <1>3 DEF Home
    <3>2. req[t] \in Requests /\ req[t] # r
      BY <3>1, <1>0, <1>1 DEF StepsInv, TypeOK, PlaceInv
    <3>3. did[req[t]] = 0
      BY <3>1, <1>0 DEF SizesInv
    <3> QED BY <3>2, <3>3, <1>3, <1>4
  <2>2. \A v \in Workers : pc'[v] = "result" => ioSize'[v] <= Size - sizePassed'[serving'[v]]
    <3>1. n <= Size - sizePassed'[r]
      BY <1>1 DEF Left
    <3> QED BY <3>1, <1>2, <1>4
  <2>3. \A v \in Workers : serving'[v] = Nobody /\ req'[v] # Nobody => ioSize'[v] > 0
    BY <1>2, ConstantsAssumption
  <2>4. r \in made
    BY <1>0, <1>1, ConstantsAssumption DEF PlaceInv
  <2>5. /\ \A q \in Requests \ Full : sizePassed'[q] = 0
        /\ \A q \in Requests \ made' : calls'[q] = 0 /\ did'[q] = 0 /\ sizePassed'[q] = 0
    BY <2>4, <1>0, <1>1, <1>4 DEF SizesInv
  <2> QED BY <2>1, <2>2, <2>3, <2>5 DEF SizesInv, Left
<1>12. AnswerInv'
  <2>1. \A q \in Requests : Unanswered(q)' => Unanswered(q)
    <3>1. \A v \in Workers : pc'[v] \in {"process", "result"} => pc[v] \in {"process", "result"}
      BY <1>1, <1>2
    <3> QED BY <3>1, <1>1, <1>3 DEF Unanswered
  <2>2. \A v \in Workers : pc'[v] \notin {"process", "result"} => pc[v] \notin {"process", "result"}
    BY <1>2
  <2> QED BY <2>1, <2>2, <1>0, <1>1, <1>3 DEF AnswerInv
<1>13. TellInv'
  <2>1. r \notin Timed => calls[r] = 0
    BY <1>0, <1>1 DEF AnswerInv, Unanswered
  <2>2. ASSUME NEW a \in told, a.req \notin Timed PROVE calls[a.req] = 1 /\ Truthful(a)'
    <3>1. a.req \in Requests /\ calls[a.req] = 1 /\ Truthful(a)
      BY <2>2, <1>0 DEF TellInv, TypeOK
    <3>2. a.req # r
      BY <3>1, <2>1, <2>2
    <3> QED BY <3>1, <3>2, <1>1, <1>4 DEF Truthful
  <2>3. \A v \in Workers, q \in Requests : ~Result(v, q)
    BY <1>1, <1>2 DEF Result
  <2>4. \A q \in Requests \ Timed : calls[q] = 0 => did[q] = sizePassed[q]
    BY <2>3, <1>0 DEF TellInv
  <2>5. \A v \in Workers, q \in Requests : Result(v, q)' <=> v = w /\ q = r
    BY <1>2 DEF Result
  <2>6. ASSUME NEW q \in Requests \ Timed, calls[q] = 0
        PROVE  /\ \A v \in Workers : Result(v, q)' => did'[q] = sizePassed[q] + IF ioSize'[v] > 0 THEN ioSize'[v] ELSE 0
               /\ (\A v \in Workers : ~Result(v, q)') => did'[q] = sizePassed[q]
    <3>1. CASE q = r
      BY <3>1, <2>4, <2>5, <2>6, <1>4
    <3>2. CASE q # r
      BY <3>2, <2>4, <2>5, <2>6, <1>4
    <3> QED BY <3>1, <3>2
  <2> QED BY <2>2, <2>6, <1>1 DEF TellInv
<1> QED BY <1>2, <1>7, <1>8, <1>9, <1>10, <1>11, <1>12, <1>13 DEF IInv

-----------------------------------------------------------------------------
(* What the file returned                                                  *)

\* The worker that serves a request, and where a request is that is served.
LEMMA ServedFacts ==
    ASSUME IInv, NEW w \in Workers, NEW r \in Requests, r = serving[w]
    PROVE  /\ \A t \in Threads : req[t] # r
           /\ \A i \in 1 .. Len(requests) : requests[i] # r
           /\ \A v \in Workers \ {w} : serving[v] # r
           /\ r \in made
<1>0. TypeOK /\ StepsInv /\ OneProcessor /\ PlaceInv
  BY DEF IInv
<1>1. pc[w] # "outside"
  BY <1>0, ConstantsAssumption DEF StepsInv
<1>2. \A v \in Workers \ {w} : pc[v] = "outside"
  BY <1>0, <1>1 DEF OneProcessor, Processing
<1>3. \A v \in Workers \ {w} : serving[v] # r
  BY <1>0, <1>2, ConstantsAssumption DEF StepsInv
<1> QED BY <1>0, <1>3, ConstantsAssumption DEF PlaceInv

\* What is left of a request is asked for again.
LEMMA AskAgainStep ==
    ASSUME IInv, NEW w \in Workers, AskAgain(w)
    PROVE  IInv'
<1>0. TypeOK /\ StepsInv /\ OneProcessor /\ FlagInv /\ OrderInv /\ PlaceInv /\ SizesInv /\ AnswerInv /\ TellInv
  BY DEF IInv
<1>1. PICK r \in Requests :
      /\ r = serving[w] /\ pc[w] = "result" /\ r \in Full /\ ioSize[w] > 0 /\ ioSize[w] < Left(r)
      /\ Go(w, pc[w], "ask", r) /\ serving' = [serving EXCEPT ![w] = Nobody]
      /\ sizePassed' = [sizePassed EXCEPT ![r] = @ + ioSize[w]]
      /\ UNCHANGED <<requests, flagProcessRequest, opened, tasks, released, stopping, ioSize, flagFinished, timeouts, made,
                     queued, done, did, again, calls, told>>
  <2>1. pc[w] = "result" /\ serving[w] \in Requests
    BY <1>0, ConstantsAssumption DEF AskAgain, Go, StepsInv, TypeOK
  <2> QED BY <2>1 DEF AskAgain, InPart, Go, queue, dispatcher, history, work, callbacks
<1>2. /\ Processing = {w} /\ tasks = 0 /\ flagProcessRequest
      /\ \A v \in Workers \ {w} : pc[v] = "outside" /\ serving[v] = Nobody /\ req[v] = Nobody
      /\ pc'[w] = "ask" /\ req'[w] = r /\ serving'[w] = Nobody
      /\ pc' \in [Threads -> Steps] /\ req' \in [Threads -> Requests \cup {Nobody}]
      /\ serving' \in [Workers -> Requests \cup {Nobody}]
      /\ \A u \in Threads \ {w} : pc'[u] = pc[u] /\ req'[u] = req[u]
      /\ \A v \in Workers \ {w} : serving'[v] = serving[v] /\ pc'[v] = pc[v] /\ req'[v] = req[v]
      /\ Processing' = {w} /\ StepsInv' /\ w \in Threads
  <2>1. /\ pc[w] # "outside" /\ "ask" \in Steps \ {"dispatch"} /\ "ask" \notin {"process", "result", "callback", "outside", "while"}
        /\ r # Nobody /\ "ask" # "outside"
    BY <1>1, ConstantsAssumption DEF Steps
  <2>2. TypeOK /\ StepsInv /\ OneProcessor /\ FlagInv
    BY <1>0
  <2>3. Go(w, pc[w], "ask", r) /\ serving' = [serving EXCEPT ![w] = Nobody]
    BY <1>1
  <2> QED BY <2>1, <2>2, <2>3, InProcessor
<1>3. /\ \A t \in Threads : req[t] # r
      /\ \A i \in 1 .. Len(requests) : requests[i] # r
      /\ \A v \in Workers \ {w} : serving[v] # r
      /\ r \in made
  BY <1>1, ServedFacts
<1>4. /\ sizePassed' \in [Requests -> 0 .. Size - 1] /\ sizePassed'[r] = sizePassed[r] + ioSize[w]
      /\ \A q \in Requests \ {r} : sizePassed'[q] = sizePassed[q]
      /\ ioSize[w] \in Int /\ sizePassed[r] \in Int
  <2>1. sizePassed[r] + ioSize[w] \in 0 .. Size - 1
    BY <1>0, <1>1, ConstantsAssumption DEF TypeOK, Left
  <2> QED BY <2>1, <1>0, <1>1 DEF TypeOK
<1>5. TypeOK'
  BY <1>0, <1>1, <1>2, <1>4 DEF TypeOK
<1>6. OneProcessor' /\ FlagInv'
  BY <1>1, <1>2 DEF OneProcessor, FlagInv
<1>7. OrderInv'
  <2>1. \A v \in Workers : pc'[v] # "process" /\ pc[v] # "process"
    BY <1>1, <1>2
  <2> QED BY <2>1, <1>0, <1>1, SameOrder
<1>8. PlaceInv'
  <2>1. \A t, u \in Threads : req'[t] = req'[u] /\ req'[t] # Nobody => t = u
    BY <1>0, <1>2, <1>3 DEF PlaceInv
  <2>2. \A v \in Workers : serving'[v] = Nobody
    BY <1>2
  <2>3. \A t \in Threads : req'[t] # Nobody => req'[t] \in made
    BY <1>0, <1>2, <1>3 DEF PlaceInv
  <2>4. \A i \in 1 .. Len(requests) : requests[i] \in made /\ requests[i] # Nobody /\ \A t \in Threads : req'[t] # requests[i]
    <3>1. \A i \in 1 .. Len(requests) : requests[i] \in Requests
      BY <1>0 DEF TypeOK
    <3> QED BY <3>1, <1>0, <1>2, <1>3, ConstantsAssumption DEF PlaceInv
  <2> QED BY <2>1, <2>2, <2>3, <2>4, <1>0, <1>1 DEF PlaceInv
<1>9. SizesInv'
  <2>1. \A t \in Threads : pc'[t] = "ask" /\ Home(t)' # "while" => did[req'[t]] = 0
    <3>1. Home(w)' = "while"
      BY <1>2, ConstantsAssumption DEF Home
    <3>2. \A t \in Threads \ {w} : Home(t)' = Home(t)
      BY <1>2 DEF Home, Threads
    <3> QED BY <3>1, <3>2, <1>0, <1>2 DEF SizesInv
  <2>2. \A v \in Workers : pc'[v] # "result" /\ (serving'[v] = Nobody /\ req'[v] # Nobody => ioSize[v] > 0)
    BY <1>1, <1>2
  <2>3. \A q \in Requests \ Full : sizePassed'[q] = 0
    BY <1>0, <1>1, <1>4 DEF SizesInv
  <2>4. \A q \in Requests \ made : calls[q] = 0 /\ did[q] = 0 /\ sizePassed'[q] = 0
    BY <1>0, <1>3, <1>4 DEF SizesInv
  <2> QED BY <2>1, <2>2, <2>3, <2>4, <1>1 DEF SizesInv
<1>10. AnswerInv'
  <2>1. Unanswered(r)
    BY <1>1 DEF Unanswered
  <2>2. \A q \in Requests : Unanswered(q)' => Unanswered(q)
    <3>1. \A v \in Workers : pc'[v] \notin {"process", "result"}
      BY <1>2
    <3>2. \A q \in Requests, t \in Threads : req'[t] = q => req[t] = q \/ q = r
      BY <1>2
    <3>3. ASSUME NEW q \in Requests, Unanswered(q)' PROVE (\E i \in 1 .. Len(requests) : requests[i] = q) \/ \E t \in Threads : req'[t] = q
      BY <3>1, <3>3, <1>1 DEF Unanswered
    <3>4. ASSUME NEW q \in Requests, \E t \in Threads : req'[t] = q PROVE Unanswered(q)
      BY <3>2, <3>4, <2>1 DEF Unanswered
    <3>5. ASSUME NEW q \in Requests, \E i \in 1 .. Len(requests) : requests[i] = q PROVE Unanswered(q)
      BY <3>5 DEF Unanswered
    <3> QED BY <3>3, <3>4, <3>5
  <2>3. \A v \in Workers : serving'[v] \notin Requests
    BY <1>2, ConstantsAssumption
  <2> QED BY <2>2, <2>3, <1>0, <1>1 DEF AnswerInv
<1>11. TellInv'
  <2>1. \A v \in Workers, q \in Requests : ~Result(v, q)'
    BY <1>2 DEF Result
  <2>2. \A a \in told : Truthful(a) => Truthful(a)'
    BY <1>1 DEF Truthful
  <2>3. ASSUME NEW q \in Requests \ Timed, calls[q] = 0 PROVE did[q] = sizePassed'[q]
    <3>1. CASE q = r
      <4>1. Result(w, r)
        BY <1>1 DEF Result
      <4>2. did[r] = sizePassed[r] + ioSize[w]
        BY <4>1, <3>1, <2>3, <1>0, <1>1 DEF TellInv
      <4> QED BY <4>2, <3>1, <1>4
    <3>2. CASE q # r
      <4>1. \A v \in Workers : ~Result(v, q)
        BY <3>2, <1>1, <1>2 DEF Result
      <4> QED BY <4>1, <3>2, <2>3, <1>0, <1>4 DEF TellInv
    <3> QED BY <3>1, <3>2
  <2> QED BY <2>1, <2>2, <2>3, <1>0, <1>1 DEF TellInv
<1> QED BY <1>2, <1>5, <1>6, <1>7, <1>8, <1>9, <1>10, <1>11 DEF IInv

\* A worker answers the request it serves, and runs its callback.
LEMMA AnswerStep ==
    ASSUME IInv, NEW w \in Workers, NEW r \in Requests, NEW n \in Int,
           NEW code \in {"Success", "Ended", "Unknown", "Timeout"},
           pc[w] \in {"result", "ask"}, Go(w, pc[w], "callback", Nobody), serving' = [serving EXCEPT ![w] = r],
           pc[w] = "result" => r = serving[w] /\ again' = again,
           pc[w] = "ask" => r = req[w] /\ again' = again \cup {r},
           Answer(r, n, code), sizePassed' = [sizePassed EXCEPT ![r] = 0],
           UNCHANGED <<requests, flagProcessRequest, opened, tasks, released, stopping, ioSize, flagFinished, timeouts, made,
                       queued, done, did>>,
           r \notin Timed => AnswersTruly(r, n, code)'
    PROVE  IInv'
<1>0. TypeOK /\ StepsInv /\ OneProcessor /\ FlagInv /\ OrderInv /\ PlaceInv /\ SizesInv /\ AnswerInv /\ TellInv
  BY DEF IInv
<1>1. /\ Processing = {w} /\ tasks = 0 /\ flagProcessRequest
      /\ \A v \in Workers \ {w} : pc[v] = "outside" /\ serving[v] = Nobody /\ req[v] = Nobody
      /\ pc'[w] = "callback" /\ req'[w] = Nobody /\ serving'[w] = r
      /\ pc' \in [Threads -> Steps] /\ req' \in [Threads -> Requests \cup {Nobody}]
      /\ serving' \in [Workers -> Requests \cup {Nobody}]
      /\ \A u \in Threads \ {w} : pc'[u] = pc[u] /\ req'[u] = req[u]
      /\ \A v \in Workers \ {w} : serving'[v] = serving[v] /\ pc'[v] = pc[v] /\ req'[v] = req[v]
      /\ Processing' = {w} /\ StepsInv' /\ w \in Threads
  <2>1. /\ pc[w] # "outside" /\ "callback" \in Steps \ {"dispatch"} /\ "callback" \notin {"ask", "add", "outside", "while"}
        /\ r # Nobody /\ "callback" # "outside"
    BY ConstantsAssumption DEF Steps
  <2> QED BY <2>1, <1>0, InProcessor
<1>2. /\ \A t \in Threads \ {w} : req[t] # r
      /\ \A i \in 1 .. Len(requests) : requests[i] # r
      /\ \A v \in Workers \ {w} : serving[v] # r
      /\ r \in made /\ Unanswered(r)
  <2>1. CASE pc[w] = "result"
    <3>1. Unanswered(r)
      BY <2>1 DEF Unanswered
    <3> QED BY <3>1, <2>1, ServedFacts
  <2>2. CASE pc[w] = "ask"
    <3>1. Unanswered(r)
      BY <2>2, <1>1 DEF Unanswered
    <3>2. (\A t \in Threads \ {w} : req[t] # r) /\ r \in made /\ \A v \in Workers : serving[v] # r
      BY <2>2, <1>0, <1>1, ConstantsAssumption DEF PlaceInv
    <3>3. \A i \in 1 .. Len(requests) : requests[i] # r
      BY <2>2, <1>0, <1>1 DEF PlaceInv
    <3> QED BY <3>1, <3>2, <3>3
  <2> QED BY <2>1, <2>2
<1>3. r \notin Timed => calls[r] = 0
  BY <1>0, <1>2 DEF AnswerInv
<1>4. again \subseteq again' /\ again' \subseteq Requests
  BY <1>0 DEF TypeOK
<1>5. /\ calls' \in [Requests -> Nat] /\ calls'[r] = calls[r] + 1
      /\ \A q \in Requests \ {r} : calls'[q] = calls[q]
      /\ told' \subseteq [req : Requests, size : Int, code : {"Success", "Ended", "Unknown", "Timeout"}]
      /\ \A a \in told' : a.req \notin Timed => calls'[a.req] = 1 /\ Truthful(a)'
  BY <1>0, <1>3, <1>4, AnswerFacts
<1>6. /\ sizePassed' \in [Requests -> 0 .. Size - 1] /\ sizePassed'[r] = 0
      /\ \A q \in Requests \ {r} : sizePassed'[q] = sizePassed[q]
  BY <1>0, ConstantsAssumption DEF TypeOK
<1>7. TypeOK'
  BY <1>0, <1>1, <1>4, <1>5, <1>6 DEF TypeOK
<1>8. OneProcessor' /\ FlagInv'
  BY <1>1 DEF OneProcessor, FlagInv
<1>9. OrderInv'
  <2>1. \A v \in Workers : pc'[v] # "process" /\ pc[v] # "process"
    BY <1>1
  <2> QED BY <2>1, <1>0, SameOrder
<1>10. PlaceInv'
  <2>1. \A t \in Threads : req'[t] # Nobody => t # w /\ req'[t] = req[t] /\ req[t] # r
    BY <1>1, <1>2
  <2>2. \A v \in Workers : serving'[v] = r \/ serving'[v] = serving[v]
    BY <1>1
  <2>3. \A i \in 1 .. Len(requests) : /\ requests[i] \in made /\ \A t \in Threads : req'[t] # requests[i]
                                      /\ \A v \in Workers : serving'[v] # requests[i]
    <3>1. \A i \in 1 .. Len(requests) : requests[i] # Nobody
      <4>1. requests \in Seq(Requests) /\ Nobody \notin Requests
        BY <1>0, ConstantsAssumption DEF TypeOK
      <4> QED BY <4>1
    <3> QED BY <3>1, <2>1, <2>2, <1>0, <1>2 DEF PlaceInv
  <2>4. /\ \A t, u \in Threads : req'[t] = req'[u] /\ req'[t] # Nobody => t = u
        /\ \A t \in Threads : req'[t] # Nobody => req'[t] \in made /\ \A v \in Workers : serving'[v] # req'[t]
    BY <2>1, <2>2, <1>0 DEF PlaceInv
  <2>5. \A v \in Workers : serving'[v] # Nobody => serving'[v] \in made
    BY <2>2, <1>0, <1>2 DEF PlaceInv
  <2> QED BY <2>3, <2>4, <2>5, <1>0 DEF PlaceInv
<1>11. SizesInv'
  <2>1. \A t \in Threads : pc'[t] = "ask" /\ Home(t)' # "while" => did[req'[t]] = 0
    <3>1. \A t \in Threads \ {w} : Home(t)' = Home(t)
      BY <1>1 DEF Home, Threads
    <3>2. \A t \in Threads : pc'[t] = "ask" => t # w
      BY <1>1
    <3> QED BY <3>1, <3>2, <1>0, <1>1 DEF SizesInv
  <2>2. \A v \in Workers : pc'[v] # "result" /\ ~(serving'[v] = Nobody /\ req'[v] # Nobody)
    BY <1>1, ConstantsAssumption
  <2>3. \A q \in Requests \ Full : sizePassed'[q] = 0
    BY <1>0, <1>6 DEF SizesInv
  <2>4. \A q \in Requests \ made : calls'[q] = 0 /\ did[q] = 0 /\ sizePassed'[q] = 0
    BY <1>0, <1>2, <1>5, <1>6 DEF SizesInv
  <2> QED BY <2>1, <2>2, <2>3, <2>4 DEF SizesInv
<1>12. AnswerInv'
  <2>1. \A q \in Requests : Unanswered(q)' => Unanswered(q) /\ q # r
    <3>1. \A v \in Workers : pc'[v] \notin {"process", "result"}
      BY <1>1
    <3>2. \A q \in Requests, t \in Threads : req'[t] = q => req[t] = q /\ q # r
      BY <1>1, <1>2, ConstantsAssumption
    <3> QED BY <3>1, <3>2, <1>2 DEF Unanswered
  <2>2. r \notin Timed => r \notin flagFinished
    BY <1>0, <1>3 DEF AnswerInv
  <2>3. \A v \in Workers : serving'[v] \in Requests => serving'[v] = r
    BY <1>1, ConstantsAssumption
  <2> QED BY <2>1, <2>2, <2>3, <1>0, <1>3, <1>5 DEF AnswerInv
<1>13. TellInv'
  <2>1. \A v \in Workers, q \in Requests : ~Result(v, q)'
    BY <1>1 DEF Result
  <2>2. ASSUME NEW q \in Requests \ Timed, calls'[q] = 0 PROVE did[q] = sizePassed'[q]
    <3>1. q # r /\ calls[q] = 0
      BY <2>2, <1>3, <1>5
    <3>2. \A v \in Workers : ~Result(v, q)
      BY <3>1, <1>1 DEF Result
    <3> QED BY <3>1, <3>2, <1>0, <1>6 DEF TellInv
  <2> QED BY <2>1, <2>2, <1>5 DEF TellInv
<1> QED BY <1>1, <1>7, <1>8, <1>9, <1>10, <1>11, <1>12, <1>13 DEF IInv

\* The request is answered with all that was done of it.
LEMMA AnswerAllStep ==
    ASSUME IInv, NEW w \in Workers, AnswerAll(w)
    PROVE  IInv'
<1>0. TypeOK /\ StepsInv /\ SizesInv /\ AnswerInv /\ TellInv
  BY DEF IInv
<1>1. PICK r \in Requests, n \in -1 .. Size :
      /\ r = serving[w] /\ n = ioSize[w] /\ pc[w] = "result" /\ ~InPart(w)
      /\ Go(w, pc[w], "callback", Nobody) /\ serving' = [serving EXCEPT ![w] = r]
      /\ Answer(r, sizePassed[r] + n, Code(n)) /\ sizePassed' = [sizePassed EXCEPT ![r] = 0]
      /\ UNCHANGED <<requests, flagProcessRequest, opened, tasks, released, stopping, ioSize, flagFinished, timeouts, made,
                     queued, done, did, again>>
  <2>1. pc[w] = "result" /\ serving[w] \in Requests /\ ioSize[w] \in -1 .. Size
    BY <1>0, ConstantsAssumption DEF AnswerAll, Go, StepsInv, TypeOK
  <2>2. serving' = [serving EXCEPT ![w] = serving[w]]
    BY <1>0 DEF AnswerAll, TypeOK
  <2> QED BY <2>1, <2>2 DEF AnswerAll, Go, queue, dispatcher, work
<1>2. PICK m \in Int : m = sizePassed[r] + n
  BY <1>0 DEF TypeOK
<1>3. PICK code \in {"Success", "Ended", "Unknown", "Timeout"} : code = Code(n)
  BY DEF Code
<1>4. ASSUME r \notin Timed PROVE AnswersTruly(r, m, code)'
  <2>1. calls[r] = 0 /\ Result(w, r)
    BY <1>0, <1>1, <1>4 DEF AnswerInv, Unanswered, Result
  <2>2. did[r] = sizePassed[r] + IF n > 0 THEN n ELSE 0
    BY <2>1, <1>0, <1>1, <1>4 DEF TellInv
  <2>3. did'[r] = did[r] /\ sizePassed[r] \in Nat
    BY <1>0, <1>1 DEF TypeOK
  <2>4. ASSUME n > 0, r \in Full PROVE m = Size
    BY <2>4, <2>3, <1>0, <1>1, <1>2, ConstantsAssumption DEF SizesInv, InPart, Left
  <2>5. \/ code = "Success" /\ m = did'[r] /\ (r \in Full => m = Size)
        \/ code = "Ended" /\ m = did'[r]
        \/ code = "Unknown" /\ m = did'[r] - 1
    <3>1. CASE n > 0
      BY <3>1, <2>2, <2>3, <2>4, <1>2, <1>3 DEF Code
    <3>2. CASE n = 0
      BY <3>2, <2>2, <2>3, <1>2, <1>3 DEF Code
    <3>3. CASE n = -1
      BY <3>3, <2>2, <2>3, <1>2, <1>3 DEF Code
    <3> QED BY <3>1, <3>2, <3>3
  <2> QED BY <2>5 DEF AnswersTruly, Truthful
<1> QED BY <1>1, <1>2, <1>3, <1>4, AnswerStep

\* The rest of a request was refused: it is answered with what was done of it, and more.
LEMMA RefusedAgainStep ==
    ASSUME IInv, NEW w \in Workers, RefusedAgain(w)
    PROVE  IInv'
<1>0. TypeOK /\ StepsInv /\ SizesInv /\ AnswerInv /\ TellInv
  BY DEF IInv
<1>1. PICK r \in Requests, n \in -1 .. Size :
      /\ r = req[w] /\ n = ioSize[w] /\ pc[w] = "ask" /\ ~opened /\ Home(w) = "while"
      /\ Go(w, pc[w], "callback", Nobody) /\ serving' = [serving EXCEPT ![w] = r] /\ again' = again \cup {r}
      /\ Answer(r, sizePassed[r] + n, "Success") /\ sizePassed' = [sizePassed EXCEPT ![r] = 0]
      /\ UNCHANGED <<requests, flagProcessRequest, opened, tasks, released, stopping, ioSize, flagFinished, timeouts, made,
                     queued, done, did>>
  <2>1. pc[w] = "ask" /\ req[w] \in Requests /\ ioSize[w] \in -1 .. Size
    BY <1>0, ConstantsAssumption DEF RefusedAgain, Go, StepsInv, TypeOK, Threads
  <2> QED BY <2>1 DEF RefusedAgain, Go, queue, dispatcher
<1>2. PICK m \in Int : m = sizePassed[r] + n
  BY <1>0 DEF TypeOK
<1>3. ASSUME r \notin Timed PROVE AnswersTruly(r, m, "Success")'
  <2>1. calls[r] = 0
    BY <1>0, <1>1, <1>3 DEF AnswerInv, Unanswered, Threads
  <2>2. \A v \in Workers : ~Result(v, r)
    <3>1. \A v \in Workers : serving[v] # r
      BY <1>1, ConstantsAssumption DEF IInv, PlaceInv, Threads
    <3> QED BY <3>1 DEF Result
  <2>3. did[r] = sizePassed[r] /\ sizePassed[r] \in Nat
    BY <2>1, <2>2, <1>0, <1>3 DEF TellInv, TypeOK
  <2>4. n > 0
    <3>1. serving[w] = Nobody
      BY <1>1, ConstantsAssumption DEF Home, Threads
    <3> QED BY <3>1, <1>0, <1>1, ConstantsAssumption DEF SizesInv
  <2>5. r \in again' /\ ~opened' /\ m > did'[r]
    BY <2>3, <2>4, <1>1, <1>2
  <2> QED BY <2>5 DEF AnswersTruly, Truthful
<1> QED BY <1>1, <1>2, <1>3, AnswerStep

\* A timeout answers its request, whoever has it.
LEMMA TimeoutStep ==
    ASSUME IInv, NEW r \in Timed, Timeout(r)
    PROVE  IInv'
<1>0. TypeOK /\ StepsInv /\ OneProcessor /\ FlagInv /\ OrderInv /\ PlaceInv /\ SizesInv /\ AnswerInv /\ TellInv
  BY DEF IInv
<1>1. /\ timeouts' = [timeouts EXCEPT ![r] = "callback"]
      /\ Answer(r, sizePassed[r], "Timeout") /\ sizePassed' = [sizePassed EXCEPT ![r] = 0]
      /\ UNCHANGED <<requests, flagProcessRequest, opened, tasks, released, stopping, pc, req, serving, ioSize, flagFinished, made,
                     queued, done, did, again>>
  BY DEF Timeout, queue, dispatcher, threads, work
<1>2. r \in Requests /\ r \in made
  <2>1. r \in Requests
    BY ConstantsAssumption
  <2>2. Alive(r)
    BY DEF Timeout
  <2>3. CASE Contains(requests, r)
    BY <2>1, <2>3, <1>0 DEF Contains, PlaceInv
  <2>4. CASE \E t \in Threads : req[t] = r
    BY <2>1, <2>4, <1>0, ConstantsAssumption DEF PlaceInv
  <2>5. CASE \E w \in Workers : serving[w] = r
    BY <2>1, <2>5, <1>0, ConstantsAssumption DEF PlaceInv
  <2> QED BY <2>1, <2>2, <2>3, <2>4, <2>5 DEF Alive
<1>3. PICK m \in Int : m = sizePassed[r]
  BY <1>0, <1>2 DEF TypeOK
<1>4. /\ calls' \in [Requests -> Nat] /\ calls'[r] = calls[r] + 1
      /\ \A q \in Requests \ {r} : calls'[q] = calls[q]
      /\ told' \subseteq [req : Requests, size : Int, code : {"Success", "Ended", "Unknown", "Timeout"}]
      /\ \A a \in told' : a.req \notin Timed => calls'[a.req] = 1 /\ Truthful(a)'
  <2>1. again \subseteq again' /\ (opened' => opened) /\ did' = did /\ Answer(r, m, "Timeout")
    BY <1>1, <1>3
  <2> QED BY <2>1, <1>0, <1>2, AnswerFacts
<1>5. /\ sizePassed' \in [Requests -> 0 .. Size - 1] /\ sizePassed'[r] = 0
      /\ \A q \in Requests \ {r} : sizePassed'[q] = sizePassed[q]
  BY <1>0, <1>1, <1>2, ConstantsAssumption DEF TypeOK
<1>6. timeouts' \in [Timed -> {"none", "armed", "callback", "over"}]
  BY <1>0, <1>1 DEF TypeOK
<1>7. TypeOK'
  BY <1>0, <1>1, <1>4, <1>5, <1>6 DEF TypeOK
<1>8. StepsInv' /\ OneProcessor' /\ FlagInv' /\ OrderInv' /\ PlaceInv'
  BY <1>0, <1>1 DEF StepsInv, OneProcessor, FlagInv, OrderInv, PlaceInv, Processing
<1>9. SizesInv'
  <2>1. \A w \in Workers : pc[w] = "result" => ioSize[w] <= Size - sizePassed'[serving[w]]
    <3> SUFFICES ASSUME NEW w \in Workers, pc[w] = "result" PROVE ioSize[w] <= Size - sizePassed'[serving[w]]
      OBVIOUS
    <3>1. serving[w] \in Requests /\ ioSize[w] \in -1 .. Size /\ ioSize[w] <= Size - sizePassed[serving[w]]
      BY <1>0, ConstantsAssumption DEF StepsInv, SizesInv, TypeOK, Left
    <3>2. sizePassed[serving[w]] \in 0 .. Size - 1
      BY <3>1, <1>0 DEF TypeOK
    <3> QED BY <3>1, <3>2, <1>5, ConstantsAssumption
  <2>2. \A q \in Requests \ made : calls'[q] = 0 /\ did[q] = 0 /\ sizePassed'[q] = 0
    BY <1>0, <1>2, <1>4, <1>5 DEF SizesInv
  <2>3. \A q \in Requests \ Full : sizePassed'[q] = 0
    BY <1>0, <1>5 DEF SizesInv
  <2>4. /\ \A t \in Threads : pc[t] = "ask" /\ Home(t)' # "while" => did[req[t]] = 0
        /\ \A w \in Workers : serving[w] = Nobody /\ req[w] # Nobody => ioSize[w] > 0
    BY <1>0, <1>1 DEF SizesInv, Home
  <2> QED BY <2>1, <2>2, <2>3, <2>4, <1>1 DEF SizesInv, Left
<1>10. \A q \in Requests \ Timed : calls'[q] = calls[q] /\ sizePassed'[q] = sizePassed[q]
  BY <1>4, <1>5
<1>11. AnswerInv' /\ TellInv'
  <2>1. \A q \in Requests : Unanswered(q)' = Unanswered(q)
    BY <1>1 DEF Unanswered
  <2>2. AnswerInv'
    BY <2>1, <1>0, <1>1, <1>10 DEF AnswerInv
  <2>3. TellInv'
    BY <1>0, <1>1, <1>4, <1>10 DEF TellInv, Result
  <2> QED BY <2>2, <2>3
<1> QED BY <1>7, <1>8, <1>9, <1>11 DEF IInv

LEMMA EndTimeoutStep ==
    ASSUME IInv, NEW r \in Timed, EndTimeout(r)
    PROVE  IInv'
<1>0. TypeOK /\ StepsInv /\ OneProcessor /\ FlagInv /\ OrderInv /\ PlaceInv /\ SizesInv /\ AnswerInv /\ TellInv
  BY DEF IInv
<1>1. /\ timeouts' = [timeouts EXCEPT ![r] = "over"] /\ flagFinished' = flagFinished \cup {r}
      /\ UNCHANGED <<requests, flagProcessRequest, opened, tasks, released, stopping, pc, req, serving, ioSize, sizePassed, made,
                     queued, done, did, again, calls, told>>
  BY DEF EndTimeout, queue, dispatcher, threads, history, work, callbacks
<1>2. TypeOK'
  BY <1>0, <1>1, ConstantsAssumption DEF TypeOK
<1>3. StepsInv' /\ OneProcessor' /\ FlagInv' /\ OrderInv' /\ PlaceInv' /\ SizesInv'
  BY <1>0, <1>1 DEF StepsInv, OneProcessor, FlagInv, OrderInv, PlaceInv, SizesInv, Processing, Left, Home
<1>4. AnswerInv' /\ TellInv'
  <2>1. \A q \in Requests : Unanswered(q)' = Unanswered(q)
    BY <1>1 DEF Unanswered
  <2>2. AnswerInv'
    BY <2>1, <1>0, <1>1 DEF AnswerInv
  <2>3. TellInv'
    BY <1>0, <1>1 DEF TellInv, Result, Truthful
  <2> QED BY <2>2, <2>3
<1> QED BY <1>2, <1>3, <1>4 DEF IInv

-----------------------------------------------------------------------------
LEMMA NextIInv == IInv /\ [Next]_vars => IInv'
<1> SUFFICES ASSUME IInv, [Next]_vars PROVE IInv'
  OBVIOUS
<1>1. CASE \E t \in Threads : RequestIo(t) \/ GoOn(t)
  BY <1>1, RequestIoStep, AskStep, RefusedStep, AddRequestStep, DispatchStep DEF GoOn
<1>2. CASE \E w \in Workers : Work(w)
  BY <1>2, RunProcessorStep, TurnStep, PopStep, ProcessStep, AskAgainStep, AnswerAllStep, RefusedAgainStep DEF Work
<1>3. CASE Close \/ ReleaseDispatcher \/ \E w \in Workers : StopThread(w)
  BY <1>3, OutsideStep
<1>4. CASE \E r \in Timed : Timeout(r) \/ EndTimeout(r)
  BY <1>4, TimeoutStep, EndTimeoutStep
<1>5. CASE UNCHANGED vars
  <2>0. UNCHANGED <<requests, flagProcessRequest, opened, tasks, released, stopping, pc, req, serving, ioSize, sizePassed,
                    flagFinished, timeouts, made, queued, done, did, again, calls, told>>
    BY <1>5 DEF vars, queue, dispatcher, threads, request, history, work, callbacks
  <2>1. TypeOK' /\ StepsInv' /\ OneProcessor' /\ FlagInv'
    BY <2>0 DEF IInv, TypeOK, StepsInv, OneProcessor, FlagInv, Processing
  <2>2. OrderInv' /\ PlaceInv' /\ SizesInv'
    BY <2>0 DEF IInv, OrderInv, PlaceInv, SizesInv, Left, Home
  <2>3. AnswerInv' /\ TellInv'
    BY <2>0 DEF IInv, AnswerInv, TellInv, Unanswered, Result, Truthful
  <2> QED BY <2>1, <2>2, <2>3 DEF IInv
<1> QED BY <1>1, <1>2, <1>3, <1>4, <1>5 DEF Next

\* The inductive invariant, for any callers, workers, requests and sizes (_addRequest,
\* _runProcessor, runCallback).
THEOREM Invariance == Spec => []IInv
BY InitIInv, NextIInv, PTL DEF Spec

\* The variables keep their types; the dispatcher never has two processors to run.
THEOREM TypeCorrect == Spec => []TypeOK
<1>1. IInv => TypeOK
  BY DEF IInv
<1> QED BY <1>1, Invariance, PTL

\* The file does one request at a time, however many threads the dispatcher has.
THEOREM SingleProcessor == Spec => []OneProcessor
<1>1. IInv => OneProcessor
  BY DEF IInv
<1> QED BY <1>1, Invariance, PTL

\* What is queued is done in that order, what is left of a request in the place it got anew.
THEOREM InOrder == Spec => []DoneInOrder
<1>1. IInv => DoneInOrder
  BY DEF IInv, OrderInv, DoneInOrder
<1> QED BY <1>1, Invariance, PTL

\* A request without a timeout is answered once, and told what was done of it in all its
\* parts, unless the file is closed between two of them (runCallback).
THEOREM ToldTruly == Spec => []AnsweredTruly
<1>1. IInv => AnsweredTruly
  BY DEF IInv, AnswerInv, TellInv, AnsweredTruly
<1> QED BY <1>1, Invariance, PTL

\* While the file is open and the dispatcher works, what is queued has a processor.
THEOREM NotStranded == Spec => []QueuedIsProcessed
<1>1. IInv => QueuedIsProcessed
  BY DEF IInv, FlagInv, QueuedIsProcessed
<1> QED BY <1>1, Invariance, PTL

-----------------------------------------------------------------------------
(* AsyncStreamFilter                                                       *)

\* The units the stream below gave are in order, those the requests were given first, and what
\* a failed read brought comes after them.
UnitsInv ==
    /\ passed = Len(got) + Len(buf) \/ (broken /\ passed < Len(got) + Len(buf))
    /\ \A i \in 1 .. Len(got) : got[i] = IF i <= passed THEN i ELSE Filter!Garbage
    /\ \A i \in 1 .. Len(buf) : buf[i] = IF Len(got) + i <= passed THEN Len(got) + i ELSE Filter!Garbage
    /\ contentLength # None => /\ Len(got) + Len(buf) <= contentLength
                               /\ broken => Len(got) + Len(buf) = contentLength
    /\ ~Filter!Endless => count = Len(buf)
    /\ passed <= given
    /\ flags.opened /\ ~broken => passed = IF contentLength = None \/ given < contentLength THEN given ELSE contentLength

\* A request is in the queue once, and was answered there if its read() failed.
QueueInv ==
    /\ Len(size) <= MaxRequests
    /\ \A i \in 1 .. Len(requestsRead) :
          /\ requestsRead[i] <= Len(size)
          /\ answers[requestsRead[i]] = IF requestsRead[i] \in refused THEN 1 ELSE 0
    /\ \A i, j \in 1 .. Len(requestsRead) : requestsRead[i] = requestsRead[j] => i = j
    /\ \A r \in Filter!Reads : r > Len(size) => answers[r] = 0 /\ r \notin refused
    /\ Filter!AnsweredOnce

\* Some call in s is about to read from the stream below, or will look whether to.
HasRead(s) == \E i \in 1 .. Len(s) : s[i] = "_read"
GoesOn(s) == \E i \in 1 .. Len(s) : s[i] \in {"_read", "onReadStream"}

\* A request that waits has a read of the stream below, or a call that will make it.
WaitInv ==
    /\ flags.reading => below > 0
    /\ flags.opened /\ ~flags.ended /\ ~flags.error /\ ~flags.reading /\ requestsRead # <<>> => GoesOn(frames)

\* Within _read() there are the requests it answers, and what the program does from them.
Within(s) == \A i \in 1 .. Len(s) : s[i] = "_read" => \A j \in i + 1 .. Len(s) : s[j] \in {"_process", "program"}

\* While no read is requested from there: m_flagReading is set exactly while the stream below
\* has a read, and a call that is to make one finds it clear.
ReadInv ==
    ~nested => /\ below = IF flags.reading THEN 1 ELSE 0
               /\ Within(frames) /\ (HasRead(frames) => ~flags.reading)

\* Some call in s is about to tell an error.
HasError(s) == \E i \in 1 .. Len(s) : s[i] = "setError"
OneError(s) == \A i, j \in 1 .. Len(s) : s[i] = "setError" /\ s[j] = "setError" => i = j

\* A content that was completed without error has its length.  When one is completed, or is
\* about to be, it has no read of the stream below and will make none.
CompleteInv ==
    /\ flags.opened \/ flags.ended
    /\ completions # <<>> /\ ~completions[1] => contentLength # None /\ Len(got) + Len(buf) = contentLength
    /\ ~nested => /\ completions # <<>> \/ HasError(frames) => flags.ended /\ ~flags.reading /\ ~HasRead(frames)
                  /\ OneError(frames)
                  /\ Len(completions) <= IF HasError(frames) THEN (IF broken THEN 1 ELSE 0) ELSE IF broken THEN 2 ELSE 1

FilterIInv == Filter!TypeOK /\ UnitsInv /\ QueueInv /\ WaitInv /\ ReadInv /\ CompleteInv

-----------------------------------------------------------------------------
(* The answers a thread is in                                                *)

LEMMA ReturnFacts ==
    ASSUME frames \in Seq(Filter!Frames), frames # <<>>
    PROVE /\ Filter!Return \in Seq(Filter!Frames) /\ Len(Filter!Return) = Len(frames) - 1
          /\ \A i \in 1 .. Len(Filter!Return) : Filter!Return[i] = frames[i]
          /\ HasRead(Filter!Return) => HasRead(frames)
          /\ GoesOn(frames) /\ Last(frames) \notin {"_read", "onReadStream"} => GoesOn(Filter!Return)
          /\ Within(frames) => Within(Filter!Return)
          /\ Within(frames) /\ Last(frames) \notin {"_process", "program"} => ~HasRead(Filter!Return)
          /\ Last(frames) # "setError" => (HasError(Filter!Return) <=> HasError(frames))
          /\ OneError(frames) => OneError(Filter!Return) /\ (Last(frames) = "setError" => ~HasError(Filter!Return))
          /\ Last(frames) = "_read" => HasRead(frames)
          /\ Last(frames) = "setError" => HasError(frames)
<1>1. Len(frames) \in Nat \ {0} /\ \A i \in 1 .. Len(frames) : frames[i] \in Filter!Frames
  OBVIOUS
<1>2. /\ Filter!Return \in Seq(Filter!Frames) /\ Len(Filter!Return) = Len(frames) - 1
      /\ \A i \in 1 .. Len(Filter!Return) : Filter!Return[i] = frames[i]
  <2> DEFINE n == Len(frames) - 1
             rest == SubSeq(frames, 1, n)
  <2>1. n \in Nat /\ 1 \in Int /\ \A i \in 1 .. n : frames[i] \in Filter!Frames
    BY <1>1
  <2>2. Filter!Return = rest
    BY DEF Filter!Return
  <2> HIDE DEF n
  <2>3. /\ rest \in Seq(Filter!Frames)
        /\ Len(rest) = IF 1 <= n THEN n - 1 + 1 ELSE 0
        /\ \A i \in 1 .. n - 1 + 1 : rest[i] = frames[1 + i - 1]
    BY <2>1, SubSeqProperties
  <2> HIDE DEF rest
  <2>4. Len(rest) = n /\ \A i \in 1 .. n : rest[i] = frames[i]
    BY <2>1, <2>3
  <2> QED BY <2>2, <2>3, <2>4 DEF n
<1> HIDE DEF Filter!Return
<1>3. HasRead(Filter!Return) => HasRead(frames)
  BY <1>1, <1>2 DEF HasRead
<1>4. GoesOn(frames) /\ Last(frames) \notin {"_read", "onReadStream"} => GoesOn(Filter!Return)
  BY <1>1, <1>2 DEF GoesOn, Last
<1>5. Within(frames) => Within(Filter!Return)
  BY <1>1, <1>2 DEF Within
<1>6. Within(frames) /\ Last(frames) \notin {"_process", "program"} => ~HasRead(Filter!Return)
  BY <1>1, <1>2 DEF Within, HasRead, Last
<1>7. Last(frames) # "setError" => (HasError(Filter!Return) <=> HasError(frames))
  BY <1>1, <1>2 DEF HasError, Last
<1>8. OneError(frames) => OneError(Filter!Return) /\ (Last(frames) = "setError" => ~HasError(Filter!Return))
  BY <1>1, <1>2 DEF HasError, OneError, Last
<1>9. (Last(frames) = "_read" => HasRead(frames)) /\ (Last(frames) = "setError" => HasError(frames))
  BY <1>1 DEF HasRead, HasError, Last
<1> QED BY <1>2, <1>3, <1>4, <1>5, <1>6, <1>7, <1>8, <1>9

LEMMA CallFacts ==
    ASSUME NEW s \in Seq(Filter!Frames), NEW f \in Filter!Frames
    PROVE /\ Append(s, f) \in Seq(Filter!Frames) /\ Append(s, f) # <<>> /\ Last(Append(s, f)) = f
          /\ HasRead(s) => HasRead(Append(s, f))
          /\ f # "_read" /\ HasRead(Append(s, f)) => HasRead(s)
          /\ GoesOn(s) => GoesOn(Append(s, f))
          /\ f \in {"_read", "onReadStream"} => GoesOn(Append(s, f))
          /\ f \in {"_process", "program"} /\ Within(s) => Within(Append(s, f))
          /\ ~HasRead(s) => Within(Append(s, f))
          /\ HasError(Append(s, f)) <=> HasError(s) \/ f = "setError"
          /\ OneError(s) /\ (f # "setError" \/ ~HasError(s)) => OneError(Append(s, f))
<1> DEFINE t == Append(s, f)
<1>1. /\ t \in Seq(Filter!Frames) /\ t # <<>> /\ Len(s) \in Nat /\ Len(t) = Len(s) + 1 /\ t[Len(t)] = f
      /\ \A i \in 1 .. Len(s) : t[i] = s[i]
  OBVIOUS
<1> HIDE DEF t
<1>2. Last(t) = f
  BY <1>1 DEF Last
<1>3. HasRead(s) => HasRead(t)
  BY <1>1 DEF HasRead
<1>4. f # "_read" /\ HasRead(t) => HasRead(s)
  BY <1>1 DEF HasRead
<1>5. GoesOn(s) => GoesOn(t)
  BY <1>1 DEF GoesOn
<1>6. f \in {"_read", "onReadStream"} => GoesOn(t)
  BY <1>1 DEF GoesOn
<1>7. f \in {"_process", "program"} /\ Within(s) => Within(t)
  BY <1>1 DEF Within
<1>8. ~HasRead(s) => Within(t)
  BY <1>1 DEF Within, HasRead
<1>9. HasError(t) <=> HasError(s) \/ f = "setError"
  BY <1>1 DEF HasError
<1>10. OneError(s) /\ (f # "setError" \/ ~HasError(s)) => OneError(t)
  BY <1>1 DEF HasError, OneError
<1> QED BY <1>1, <1>2, <1>3, <1>4, <1>5, <1>6, <1>7, <1>8, <1>9, <1>10 DEF t

\* Two calls, the second within the first.
LEMMA TwoCalls ==
    ASSUME NEW s \in Seq(Filter!Frames), NEW f \in Filter!Frames, NEW g \in Filter!Frames
    PROVE s \o <<f, g>> = Append(Append(s, f), g)
OBVIOUS

LEMMA FramesAre == {"_read", "_process", "onReadStream", "closeAll", "setError", "program"} \subseteq Filter!Frames
BY DEF Filter!Frames

LEMMA EmptyFrames ==
    /\ <<>> \in Seq(Filter!Frames) /\ ~HasRead(<<>>) /\ ~GoesOn(<<>>) /\ Within(<<>>)
    /\ ~HasError(<<>>) /\ OneError(<<>>)
BY DEF HasRead, GoesOn, Within, HasError, OneError

\* What a step that only ends a call, or begins the program's, keeps of the two invariants
\* about reads.
LEMMA CallsKept ==
    ASSUME FilterIInv, GoesOn(frames) => GoesOn(frames'), Within(frames) => Within(frames'), HasRead(frames') => HasRead(frames),
           UNCHANGED <<flags, below>>, nested' \/ nested' = nested,
           requestsRead' # <<>> /\ flags.opened /\ ~flags.ended /\ ~flags.error /\ ~flags.reading
              => requestsRead # <<>>
    PROVE WaitInv' /\ ReadInv'
BY DEF FilterIInv, WaitInv, ReadInv

\* What a step keeps of the completions that begins no read of a content that is completed.
LEMMA CompleteKept ==
    ASSUME FilterIInv, UNCHANGED <<contentLength, completions, broken>>, nested' \/ nested' = nested,
           contentLength # None => Len(got') + Len(buf') = Len(got) + Len(buf),
           flags.ended => flags'.ended, (flags'.opened = flags.opened) \/ flags'.ended,
           HasError(frames') <=> HasError(frames), OneError(frames) => OneError(frames'),
           HasRead(frames') => HasRead(frames) \/ ~flags.ended,
           flags'.reading => flags.reading \/ HasRead(frames)
    PROVE CompleteInv'
BY DEF FilterIInv, CompleteInv

LEMMA UnitsKept ==
    ASSUME FilterIInv, UNCHANGED <<got, buf, count, passed, given, broken, contentLength>>, flags'.opened => flags.opened
    PROVE UnitsInv'
BY DEF FilterIInv, UnitsInv, Filter!Endless

LEMMA QueueKept ==
    ASSUME FilterIInv, UNCHANGED <<size, requestsRead, answers, refused>>
    PROVE QueueInv'
BY DEF FilterIInv, QueueInv, Filter!AnsweredOnce
\* The first request of the queue is answered and leaves it.
LEMMA QueueAnswered ==
    ASSUME FilterIInv, requestsRead # <<>>, requestsRead' = Tail(requestsRead),
           answers' = [answers EXCEPT ![Head(requestsRead)] = @ + 1], UNCHANGED <<size, refused>>
    PROVE QueueInv' /\ requestsRead' \in Seq(Filter!Reads) /\ answers' \in [Filter!Reads -> Nat]
<1> DEFINE r == Head(requestsRead)
<1>1. requestsRead \in Seq(Filter!Reads) /\ answers \in [Filter!Reads -> Nat]
  BY DEF FilterIInv, Filter!TypeOK
<1>2. /\ requestsRead' \in Seq(Filter!Reads) /\ Len(requestsRead') = Len(requestsRead) - 1
      /\ \A i \in 1 .. Len(requestsRead') : requestsRead'[i] = requestsRead[i + 1]
      /\ Len(requestsRead) \in Nat \ {0}
      /\ r = requestsRead[1] /\ r \in Filter!Reads
  BY <1>1, HeadTailProperties
<1> HIDE DEF r
<1>3. /\ answers' \in [Filter!Reads -> Nat] /\ answers'[r] = answers[r] + 1
      /\ \A q \in Filter!Reads : q # r => answers'[q] = answers[q]
  BY <1>1, <1>2 DEF r
<1>4. /\ answers[r] = (IF r \in refused THEN 1 ELSE 0) /\ r <= Len(size)
      /\ \A i \in 1 .. Len(requestsRead') : requestsRead'[i] # r /\ requestsRead'[i] \in Filter!Reads
      /\ \A i \in 1 .. Len(requestsRead') : requestsRead'[i] <= Len(size)
                  /\ answers[requestsRead'[i]] = IF requestsRead'[i] \in refused THEN 1 ELSE 0
  BY <1>1, <1>2 DEF FilterIInv, QueueInv
<1>5. \A i \in 1 .. Len(requestsRead') :
         /\ requestsRead'[i] <= Len(size')
         /\ answers'[requestsRead'[i]] = IF requestsRead'[i] \in refused' THEN 1 ELSE 0
  BY <1>3, <1>4
<1>6. \A i, j \in 1 .. Len(requestsRead') : requestsRead'[i] = requestsRead'[j] => i = j
  BY <1>2 DEF FilterIInv, QueueInv
<1>7. \A q \in Filter!Reads : q > Len(size') => answers'[q] = 0 /\ q \notin refused'
  <2> SUFFICES ASSUME NEW q \in Filter!Reads, q > Len(size) PROVE answers'[q] = 0 /\ q \notin refused
    OBVIOUS
  <2>1. answers[q] = 0 /\ q \notin refused
    BY DEF FilterIInv, QueueInv
  <2>2. q # r
    <3>1. Len(size) \in Nat /\ q \in Int
      BY DEF FilterIInv, Filter!TypeOK, Filter!Reads
    <3> QED BY <1>4, <3>1
  <2> QED BY <1>3, <2>1, <2>2
<1>8. Filter!AnsweredOnce'
  <2> SUFFICES ASSUME NEW q \in Filter!Reads PROVE answers'[q] <= IF q \in refused THEN 2 ELSE 1
    BY DEF Filter!AnsweredOnce
  <2>1. answers[q] \in Nat /\ answers[q] <= IF q \in refused THEN 2 ELSE 1
    BY <1>1 DEF FilterIInv, QueueInv, Filter!AnsweredOnce
  <2> QED BY <1>3, <1>4, <2>1
<1>9. Len(size') <= MaxRequests
  BY DEF FilterIInv, QueueInv
<1> QED BY <1>2, <1>3, <1>5, <1>6, <1>7, <1>8, <1>9 DEF QueueInv

\* What a callback changes when it ends.
LEMMA ProgramReturnsStep ==
    ASSUME FilterIInv, Filter!ProgramReturns
    PROVE FilterIInv'
<1>1. /\ frames # <<>> /\ Last(frames) = "program" /\ frames' = Filter!Return
      /\ UNCHANGED <<contentLength, requestsRead, buf, count, flags, below, size, given, passed, broken, completions>>
      /\ UNCHANGED <<got, answers, refused, nested>>
  BY DEF Filter!ProgramReturns, Filter!In, Last, Filter!queues, Filter!source, Filter!history
<1>2. frames \in Seq(Filter!Frames)
  BY DEF FilterIInv, Filter!TypeOK
<1>3. Filter!TypeOK'
  BY <1>1, <1>2, ReturnFacts DEF FilterIInv, Filter!TypeOK
<1>4. WaitInv' /\ ReadInv'
  BY <1>1, <1>2, ReturnFacts, CallsKept
<1>5. UnitsInv' /\ QueueInv'
  BY <1>1, UnitsKept, QueueKept
<1>6. CompleteInv'
  <2>1. /\ HasError(frames') <=> HasError(frames)
        /\ OneError(frames) => OneError(frames')
        /\ HasRead(frames') => HasRead(frames)
    BY <1>1, <1>2, ReturnFacts
  <2> QED BY <1>1, <2>1, CompleteKept
<1> QED BY <1>3, <1>4, <1>5, <1>6 DEF FilterIInv

\* So do the calls that find nothing left to do.
LEMMA CallEndsStep ==
    ASSUME FilterIInv, Filter!ProcessEnds \/ Filter!ReadEnds \/ Filter!CloseAllEnds
    PROVE FilterIInv'
<1>1. /\ frames # <<>> /\ frames' = Filter!Return
      /\ Last(frames) \notin {"_read", "onReadStream"} \/ requestsRead = <<>>
      /\ Last(frames) # "setError"
      /\ UNCHANGED <<contentLength, requestsRead, buf, count, flags, below, size, given, passed, broken, completions>>
      /\ UNCHANGED <<got, answers, refused, nested>>
  BY DEF Filter!ProcessEnds, Filter!ReadEnds, Filter!CloseAllEnds, Filter!In, Last, Filter!queues, Filter!source, Filter!history
<1>2. frames \in Seq(Filter!Frames)
  BY DEF FilterIInv, Filter!TypeOK
<1>3. Filter!TypeOK'
  BY <1>1, <1>2, ReturnFacts DEF FilterIInv, Filter!TypeOK
<1>4. WaitInv' /\ ReadInv'
  <2>1. /\ GoesOn(frames) /\ Last(frames) \notin {"_read", "onReadStream"} => GoesOn(frames')
        /\ Within(frames) => Within(frames')
        /\ HasRead(frames') => HasRead(frames)
    BY <1>1, <1>2, ReturnFacts
  <2> QED BY <1>1, <2>1 DEF FilterIInv, WaitInv, ReadInv
<1>5. UnitsInv' /\ QueueInv'
  BY <1>1, UnitsKept, QueueKept
<1>6. CompleteInv'
  <2>1. /\ HasError(frames') <=> HasError(frames)
        /\ OneError(frames) => OneError(frames')
        /\ HasRead(frames') => HasRead(frames)
    BY <1>1, <1>2, ReturnFacts
  <2> QED BY <1>1, <2>1, CompleteKept
<1> QED BY <1>3, <1>4, <1>5, <1>6 DEF FilterIInv

\* _closeAllReadRequests() answers the next request.
LEMMA CloseRequestStep ==
    ASSUME FilterIInv, Filter!CloseRequest
    PROVE FilterIInv'
<1>1. /\ frames # <<>> /\ frames' = Append(frames, "program") /\ requestsRead # <<>>
      /\ requestsRead' = Tail(requestsRead) /\ answers' = [answers EXCEPT ![Head(requestsRead)] = @ + 1]
      /\ UNCHANGED <<contentLength, buf, count, flags, below, size, given, passed, broken, completions>>
      /\ UNCHANGED <<got, refused, nested>>
  BY DEF Filter!CloseRequest, Filter!In, Last, Filter!source
<1>2. frames \in Seq(Filter!Frames) /\ "program" \in Filter!Frames
  BY FramesAre DEF FilterIInv, Filter!TypeOK
<1>3. QueueInv' /\ requestsRead' \in Seq(Filter!Reads) /\ answers' \in [Filter!Reads -> Nat]
  BY <1>1, QueueAnswered
<1>4. Filter!TypeOK'
  BY <1>1, <1>2, <1>3, CallFacts DEF FilterIInv, Filter!TypeOK
<1>5. WaitInv' /\ ReadInv'
  <2>1. /\ GoesOn(frames) => GoesOn(frames')
        /\ Within(frames) => Within(frames')
        /\ HasRead(frames') => HasRead(frames)
    BY <1>1, <1>2, CallFacts
  <2> QED BY <1>1, <2>1, CallsKept
<1>6. UnitsInv'
  BY <1>1, UnitsKept
<1>7. CompleteInv'
  <2>1. /\ HasError(frames') <=> HasError(frames)
        /\ OneError(frames) => OneError(frames')
        /\ HasRead(frames') => HasRead(frames)
    BY <1>1, <1>2, CallFacts
  <2> QED BY <1>1, <2>1, CompleteKept
<1> QED BY <1>3, <1>4, <1>5, <1>6, <1>7 DEF FilterIInv

LEMMA FilterCloseStep ==
    ASSUME FilterIInv, Filter!Close
    PROVE FilterIInv'
<1>1. /\ flags' = [flags EXCEPT !.opened = FALSE, !.ended = TRUE]
      /\ UNCHANGED <<contentLength, requestsRead, buf, count, below, frames, size, given, passed, broken, completions>>
      /\ UNCHANGED <<got, answers, refused, nested>>
  BY DEF Filter!Close, Filter!queues, Filter!source, Filter!history
<1>2. /\ flags' \in [opened : BOOLEAN, reading : BOOLEAN, ended : BOOLEAN, error : BOOLEAN]
      /\ ~flags'.opened /\ flags'.ended /\ flags'.reading = flags.reading /\ flags'.error = flags.error
  BY <1>1 DEF FilterIInv, Filter!TypeOK
<1>3. Filter!TypeOK'
  BY <1>1, <1>2 DEF FilterIInv, Filter!TypeOK
<1>4. WaitInv' /\ ReadInv'
  BY <1>1, <1>2 DEF FilterIInv, WaitInv, ReadInv
<1>5. UnitsInv' /\ QueueInv'
  BY <1>1, <1>2, UnitsKept, QueueKept
<1>6. CompleteInv'
  BY <1>1, <1>2, CompleteKept
<1> QED BY <1>3, <1>4, <1>5, <1>6 DEF FilterIInv
\* A read that is accepted goes on to _read(), another is answered in the call.
LEMMA FilterReadStep ==
    ASSUME FilterIInv, Filter!Read
    PROVE FilterIInv'
<1> DEFINE r == Len(size) + 1
<1>1. PICK n \in Sizes : size' = Append(size, n)
  BY DEF Filter!Read
<1>2. /\ r \in Filter!Reads
      /\ requestsRead' = IF flags.opened THEN Append(requestsRead, r) ELSE requestsRead
      /\ nested' = (nested \/ HasRead(frames))
      /\ UNCHANGED <<contentLength, buf, count, flags, below, given, passed, broken, completions, got>>
      /\ \/ Filter!CanRead /\ frames' = frames \o <<"_read", "_process">> /\ UNCHANGED <<answers, refused>>
         \/ /\ ~Filter!CanRead /\ frames' = Append(frames, "program")
            /\ answers' = [answers EXCEPT ![r] = @ + 1] /\ refused' = refused \cup {r}
  <2>1. nested' = (nested \/ HasRead(frames))
    <3>1. DOMAIN frames = 1 .. Len(frames)
      BY DEF FilterIInv, Filter!TypeOK
    <3> QED BY <3>1 DEF Filter!Read, Filter!InRead, HasRead
  <2> QED BY <2>1 DEF Filter!Read, Filter!source
<1>3. /\ frames \in Seq(Filter!Frames) /\ "_read" \in Filter!Frames /\ "_process" \in Filter!Frames /\ "program" \in Filter!Frames
      /\ requestsRead \in Seq(Filter!Reads) /\ answers \in [Filter!Reads -> Nat] /\ refused \subseteq Filter!Reads
      /\ size \in Seq(Nat \ {0}) /\ Len(size) \in Nat
  BY FramesAre DEF FilterIInv, Filter!TypeOK
<1>4. size' \in Seq(Nat \ {0}) /\ Len(size') = r
  <2>1. n \in Nat \ {0}
    BY FilterAssumption DEF Filter!ConstantsAssumption
  <2> QED BY <1>1, <1>3, <2>1
<1>5. answers[r] = 0 /\ r \notin refused /\ \A i \in 1 .. Len(requestsRead) : requestsRead[i] # r
  <2>1. r > Len(size) /\ ~(r <= Len(size))
    BY <1>3
  <2> HIDE DEF r
  <2> QED BY <1>2, <2>1 DEF FilterIInv, QueueInv
<1> HIDE DEF r
<1>6. PICK c \in {0, 1} : /\ answers' \in [Filter!Reads -> Nat] /\ answers'[r] = c
                          /\ \A q \in Filter!Reads : q # r => answers'[q] = answers[q]
                          /\ refused' = (IF c = 1 THEN refused \cup {r} ELSE refused)
  <2>1. CASE UNCHANGED <<answers, refused>>
    BY <1>3, <1>5, <2>1
  <2>2. CASE answers' = [answers EXCEPT ![r] = @ + 1] /\ refused' = refused \cup {r}
    <3>1. /\ answers' \in [Filter!Reads -> Nat] /\ answers'[r] = 1
          /\ \A q \in Filter!Reads : q # r => answers'[q] = answers[q]
      BY <1>2, <1>3, <1>5, <2>2
    <3> QED BY <2>2, <3>1
  <2> QED BY <1>2, <2>1, <2>2
<1>7. requestsRead' \in Seq(Filter!Reads)
  BY <1>2, <1>3
<1>8. QueueInv'
  <2>1. \A i \in 1 .. Len(requestsRead') :
           \/ requestsRead'[i] = r
           \/ i \in 1 .. Len(requestsRead) /\ requestsRead'[i] = requestsRead[i] /\ requestsRead[i] # r
    BY <1>2, <1>3, <1>5
  <2>2. \A i, j \in 1 .. Len(requestsRead') : requestsRead'[i] = requestsRead'[j] => i = j
    <3>1. CASE requestsRead' = requestsRead
      BY <3>1 DEF FilterIInv, QueueInv
    <3>2. CASE requestsRead' = Append(requestsRead, r)
      <4>1. /\ Len(requestsRead) \in Nat /\ Len(requestsRead') = Len(requestsRead) + 1
            /\ requestsRead'[Len(requestsRead) + 1] = r
            /\ \A i \in 1 .. Len(requestsRead) : requestsRead'[i] = requestsRead[i]
        BY <1>2, <1>3, <3>2
      <4> QED BY <4>1, <1>5 DEF FilterIInv, QueueInv
    <3> QED BY <1>2, <3>1, <3>2
  <2>3. \A i \in 1 .. Len(requestsRead') :
           /\ requestsRead'[i] <= Len(size')
           /\ answers'[requestsRead'[i]] = IF requestsRead'[i] \in refused' THEN 1 ELSE 0
    <3> SUFFICES ASSUME NEW i \in 1 .. Len(requestsRead')
                 PROVE /\ requestsRead'[i] <= Len(size')
                       /\ answers'[requestsRead'[i]] = IF requestsRead'[i] \in refused' THEN 1 ELSE 0
      OBVIOUS
    <3>1. CASE requestsRead'[i] = r
      <4>1. r \in Int
        BY <1>2 DEF Filter!Reads
      <4> QED BY <1>4, <1>5, <1>6, <3>1, <4>1
    <3>2. CASE i \in 1 .. Len(requestsRead) /\ requestsRead'[i] = requestsRead[i] /\ requestsRead[i] # r
      <4>1. requestsRead[i] \in Filter!Reads /\ requestsRead[i] <= Len(size)
            /\ answers[requestsRead[i]] = IF requestsRead[i] \in refused THEN 1 ELSE 0
        BY <1>3, <3>2 DEF FilterIInv, QueueInv
      <4>2. requestsRead[i] <= Len(size')
        BY <1>3, <1>4, <4>1 DEF r, Filter!Reads
      <4> QED BY <1>6, <3>2, <4>1, <4>2
    <3> QED BY <2>1, <3>1, <3>2
  <2>4. \A q \in Filter!Reads : q > Len(size') => answers'[q] = 0 /\ q \notin refused'
    <3> SUFFICES ASSUME NEW q \in Filter!Reads, q > Len(size') PROVE answers'[q] = 0 /\ q \notin refused'
      OBVIOUS
    <3>1. q # r /\ q > Len(size)
      BY <1>3, <1>4 DEF r, Filter!Reads
    <3>2. answers[q] = 0 /\ q \notin refused
      BY <3>1 DEF FilterIInv, QueueInv
    <3> QED BY <1>6, <3>1, <3>2
  <2>5. Filter!AnsweredOnce'
    <3> SUFFICES ASSUME NEW q \in Filter!Reads PROVE answers'[q] <= IF q \in refused' THEN 2 ELSE 1
      BY DEF Filter!AnsweredOnce
    <3>1. answers[q] <= IF q \in refused THEN 2 ELSE 1
      BY DEF FilterIInv, QueueInv, Filter!AnsweredOnce
    <3> QED BY <1>5, <1>6, <3>1
  <2>6. Len(size') <= MaxRequests
    BY <1>2, <1>4 DEF Filter!Reads
  <2> QED BY <2>2, <2>3, <2>4, <2>5, <2>6 DEF QueueInv
<1>9. /\ frames' \in Seq(Filter!Frames)
      /\ Filter!CanRead => GoesOn(frames')
      /\ ~HasRead(frames) => Within(frames')
      /\ ~Filter!CanRead /\ HasRead(frames') => HasRead(frames)
      /\ HasError(frames') <=> HasError(frames)
      /\ OneError(frames) => OneError(frames')
  <2>1. CASE Filter!CanRead
    <3>1. frames' = Append(Append(frames, "_read"), "_process")
      BY <1>2, <1>3, <2>1, TwoCalls
    <3>2. /\ Append(frames, "_read") \in Seq(Filter!Frames) /\ GoesOn(Append(frames, "_read"))
          /\ ~HasRead(frames) => Within(Append(frames, "_read"))
          /\ HasError(Append(frames, "_read")) <=> HasError(frames)
          /\ OneError(frames) => OneError(Append(frames, "_read"))
      BY <1>3, CallFacts
    <3> QED BY <1>3, <2>1, <3>1, <3>2, CallFacts
  <2>2. CASE ~Filter!CanRead
    <3>1. frames' = Append(frames, "program")
      BY <1>2, <2>2
    <3> QED BY <1>3, <2>2, <3>1, CallFacts
  <2> QED BY <2>1, <2>2
<1>10. Filter!TypeOK'
  <2>1. nested' \in BOOLEAN /\ refused' \subseteq Filter!Reads
    BY <1>2, <1>6 DEF FilterIInv, Filter!TypeOK, HasRead
  <2> QED BY <1>2, <1>4, <1>6, <1>7, <1>9, <2>1 DEF FilterIInv, Filter!TypeOK
<1>11. UnitsInv'
  BY <1>2, UnitsKept
<1>12. WaitInv'
  <2>1. flags.opened /\ ~flags.ended /\ ~flags.error /\ ~flags.reading => Filter!CanRead
    BY DEF Filter!CanRead
  <2> QED BY <1>2, <1>9, <2>1 DEF FilterIInv, WaitInv
<1>13. ReadInv'
  <2>1. Filter!CanRead => ~flags.reading /\ ~flags.error
    BY DEF Filter!CanRead
  <2> QED BY <1>2, <1>9, <2>1 DEF FilterIInv, ReadInv
<1>14. CompleteInv'
  <2>1. Filter!CanRead => ~flags.ended
    BY DEF Filter!CanRead
  <2>2. HasRead(frames') => HasRead(frames) \/ ~flags.ended
    BY <1>9, <2>1
  <2>3. nested' \/ nested' = nested
    BY <1>2 DEF FilterIInv, Filter!TypeOK
  <2> QED BY <1>2, <1>9, <2>2, <2>3, CompleteKept
<1> QED BY <1>8, <1>10, <1>11, <1>12, <1>13, <1>14 DEF FilterIInv

\* The rest of onReadStream() fails what waits, reads again, or returns.
LEMMA AfterProcessStep ==
    ASSUME FilterIInv, Filter!AfterProcess
    PROVE FilterIInv'
<1>1. /\ frames # <<>> /\ Last(frames) = "onReadStream"
      /\ frames' = IF flags.error THEN Append(Filter!Return, "closeAll")
                   ELSE IF requestsRead # <<>> /\ Filter!CanRead THEN Filter!Return \o <<"_read", "_process">> ELSE Filter!Return
      /\ UNCHANGED <<contentLength, requestsRead, buf, count, flags, below, size, given, passed, broken, completions>>
      /\ UNCHANGED <<got, answers, refused, nested>>
  BY DEF Filter!AfterProcess, Filter!In, Last, Filter!queues, Filter!source, Filter!history
<1>2. /\ frames \in Seq(Filter!Frames) /\ "_read" \in Filter!Frames /\ "_process" \in Filter!Frames /\ "closeAll" \in Filter!Frames
  BY FramesAre DEF FilterIInv, Filter!TypeOK
<1>3. /\ Filter!Return \in Seq(Filter!Frames) /\ (Within(frames) => ~HasRead(Filter!Return) /\ Within(Filter!Return))
      /\ HasError(Filter!Return) <=> HasError(frames)
      /\ OneError(frames) => OneError(Filter!Return)
      /\ HasRead(Filter!Return) => HasRead(frames)
  BY <1>1, <1>2, ReturnFacts
<1>4. /\ frames' \in Seq(Filter!Frames)
      /\ ~flags.error /\ requestsRead # <<>> /\ Filter!CanRead => GoesOn(frames')
      /\ Within(frames) => Within(frames')
      /\ Within(frames) /\ HasRead(frames') => ~flags.error /\ Filter!CanRead
      /\ HasError(frames') <=> HasError(frames)
      /\ OneError(frames) => OneError(frames')
      /\ HasRead(frames') => HasRead(frames) \/ Filter!CanRead
  <2>1. CASE flags.error
    <3>1. frames' = Append(Filter!Return, "closeAll")
      BY <1>1, <2>1
    <3> QED BY <1>2, <1>3, <2>1, <3>1, CallFacts
  <2>2. CASE ~flags.error /\ requestsRead # <<>> /\ Filter!CanRead
    <3>1. frames' = Append(Append(Filter!Return, "_read"), "_process")
      BY <1>1, <1>2, <1>3, <2>2, TwoCalls
    <3>2. /\ Append(Filter!Return, "_read") \in Seq(Filter!Frames) /\ GoesOn(Append(Filter!Return, "_read"))
          /\ ~HasRead(Filter!Return) => Within(Append(Filter!Return, "_read"))
          /\ HasError(Append(Filter!Return, "_read")) <=> HasError(frames)
          /\ OneError(frames) => OneError(Append(Filter!Return, "_read"))
      BY <1>2, <1>3, CallFacts
    <3> QED BY <1>2, <1>3, <2>2, <3>1, <3>2, CallFacts
  <2>3. CASE ~flags.error /\ ~(requestsRead # <<>> /\ Filter!CanRead)
    <3>1. frames' = Filter!Return
      BY <1>1, <2>3
    <3> QED BY <1>3, <2>3, <3>1
  <2> QED BY <2>1, <2>2, <2>3
<1>5. Filter!TypeOK'
  BY <1>1, <1>4 DEF FilterIInv, Filter!TypeOK
<1>6. WaitInv'
  <2>1. flags.opened /\ ~flags.ended /\ ~flags.error /\ ~flags.reading => Filter!CanRead
    BY DEF Filter!CanRead
  <2> QED BY <1>1, <1>4, <2>1 DEF FilterIInv, WaitInv
<1>7. ReadInv'
  <2>1. Filter!CanRead => ~flags.reading
    BY DEF Filter!CanRead
  <2> QED BY <1>1, <1>4, <2>1 DEF FilterIInv, ReadInv
<1>8. UnitsInv' /\ QueueInv'
  BY <1>1, UnitsKept, QueueKept
<1>9. CompleteInv'
  <2>1. Filter!CanRead => ~flags.ended
    BY DEF Filter!CanRead
  <2>2. HasRead(frames') => HasRead(frames) \/ ~flags.ended
    BY <1>4, <2>1
  <2> QED BY <1>1, <1>4, <2>2, CompleteKept
<1> QED BY <1>5, <1>6, <1>7, <1>8, <1>9 DEF FilterIInv

\* setError() tells the error of the last answer.
LEMMA SetErrorStep ==
    ASSUME FilterIInv, Filter!SetError
    PROVE FilterIInv'
<1>1. /\ frames # <<>> /\ Last(frames) = "setError" /\ frames' = Filter!Return
      /\ completions' = Append(completions, TRUE)
      /\ flags' = [flags EXCEPT !.ended = TRUE, !.error = TRUE]
      /\ UNCHANGED <<contentLength, requestsRead, buf, count, below, size, given, passed, broken>>
      /\ UNCHANGED <<got, answers, refused, nested>>
  BY DEF Filter!SetError, Filter!In, Last, Filter!queues, Filter!history
<1>2. /\ frames \in Seq(Filter!Frames) /\ completions \in Seq(BOOLEAN)
      /\ flags \in [opened : BOOLEAN, reading : BOOLEAN, ended : BOOLEAN, error : BOOLEAN]
  BY DEF FilterIInv, Filter!TypeOK
<1>3. /\ flags' \in [opened : BOOLEAN, reading : BOOLEAN, ended : BOOLEAN, error : BOOLEAN]
      /\ flags'.ended /\ flags'.error /\ flags'.reading = flags.reading /\ flags'.opened = flags.opened
  BY <1>1, <1>2
<1>4. /\ completions' \in Seq(BOOLEAN) /\ Len(completions') = Len(completions) + 1
      /\ completions # <<>> => completions'[1] = completions[1]
      /\ completions = <<>> => completions'[1]
  <2> DEFINE c == Append(completions, TRUE)
  <2>1. TRUE \in BOOLEAN
    OBVIOUS
  <2>2. /\ c \in Seq(BOOLEAN) /\ Len(c) = Len(completions) + 1 /\ c[Len(completions) + 1] = TRUE
        /\ \A i \in 1 .. Len(completions) : c[i] = completions[i]
    BY <1>2, <2>1, AppendProperties
  <2>3. Len(completions) \in Nat /\ (completions = <<>> <=> Len(completions) = 0)
    BY <1>2
  <2> HIDE DEF c
  <2>4. completions' = c
    BY <1>1 DEF c
  <2> QED BY <2>2, <2>3, <2>4
<1>5. /\ frames' \in Seq(Filter!Frames) /\ (Within(frames) => Within(frames'))
      /\ HasRead(frames') => HasRead(frames)
      /\ HasError(frames)
      /\ OneError(frames) => OneError(frames') /\ ~HasError(frames')
  BY <1>1, <1>2, ReturnFacts
<1>6. Filter!TypeOK'
  BY <1>1, <1>3, <1>4, <1>5 DEF FilterIInv, Filter!TypeOK
<1>7. UnitsInv' /\ QueueInv'
  BY <1>1, <1>3, UnitsKept, QueueKept
<1>8. WaitInv' /\ ReadInv'
  BY <1>1, <1>3, <1>5 DEF FilterIInv, WaitInv, ReadInv
<1>9. CompleteInv'
  <2>1. completions' # <<>> /\ ~completions'[1] => completions # <<>> /\ ~completions[1]
    BY <1>4
  <2>2. ASSUME ~nested
        PROVE /\ flags'.ended /\ ~flags'.reading /\ ~HasRead(frames') /\ OneError(frames') /\ ~HasError(frames')
              /\ Len(completions') <= IF broken THEN 2 ELSE 1
    <3>1. /\ flags.ended /\ ~flags.reading /\ ~HasRead(frames) /\ OneError(frames)
          /\ Len(completions) <= IF broken THEN 1 ELSE 0
      BY <1>5, <2>2 DEF FilterIInv, CompleteInv
    <3>2. Len(completions) \in Nat
      BY <1>2
    <3> QED BY <1>3, <1>4, <1>5, <3>1, <3>2
  <2> QED BY <1>1, <1>3, <2>1, <2>2 DEF FilterIInv, CompleteInv
<1> QED BY <1>6, <1>7, <1>8, <1>9 DEF FilterIInv

\* What n units taken from the buffer are, and what is left of it.
LEMMA UnitsGiven ==
    ASSUME FilterIInv, NEW n \in Nat, n <= Len(buf) \/ Filter!Endless, Filter!Take(n),
           UNCHANGED <<contentLength, flags, given, passed, broken>>
    PROVE /\ UnitsInv' /\ {got', buf'} \subseteq Seq(Filter!Units \cup {Filter!Garbage}) /\ count' = count - n
          /\ contentLength # None => Len(got') + Len(buf') = Len(got) + Len(buf)
          /\ n = Len(buf) /\ ~Filter!Endless => count' = 0
<1> DEFINE U == Filter!Units \cup {Filter!Garbage}
           first == [i \in 1 .. n |-> IF i <= Len(buf) THEN buf[i] ELSE Filter!Garbage]
           rest == SubSeq(buf, n + 1, Len(buf))
<1>1. /\ got \in Seq(U) /\ buf \in Seq(U) /\ Len(got) \in Nat /\ Len(buf) \in Nat
      /\ \A i \in 1 .. Len(buf) : buf[i] \in U
      /\ passed \in Nat /\ count \in Int
  BY FilterAssumption DEF FilterIInv, Filter!TypeOK, Filter!ConstantsAssumption
<1>2. first \in Seq(U) /\ Len(first) = n /\ \A i \in 1 .. n : first[i] = IF i <= Len(buf) THEN buf[i] ELSE Filter!Garbage
  <2>1. \A i \in 1 .. n : (IF i <= Len(buf) THEN buf[i] ELSE Filter!Garbage) \in U
    BY <1>1
  <2> HIDE DEF U
  <2> QED BY <2>1
<1>3. /\ rest \in Seq(U) /\ Len(rest) = (IF n <= Len(buf) THEN Len(buf) - n ELSE 0)
      /\ \A i \in 1 .. Len(rest) : rest[i] = buf[n + i]
  <2>1. /\ rest \in Seq(U)
        /\ Len(rest) = (IF n + 1 <= Len(buf) THEN Len(buf) - (n + 1) + 1 ELSE 0)
        /\ \A i \in 1 .. Len(buf) - (n + 1) + 1 : rest[i] = buf[n + 1 + i - 1]
    <3>1. n + 1 \in Int /\ Len(buf) \in Int /\ \A i \in n + 1 .. Len(buf) : buf[i] \in U
      BY <1>1
    <3> HIDE DEF U
    <3> QED BY <3>1, SubSeqProperties
  <2> HIDE DEF rest, U
  <2> QED BY <1>1, <2>1
<1>4. got' = got \o first /\ buf' = rest /\ count' = count - n
  BY DEF Filter!Take
<1> HIDE DEF first, rest, U
<1>5. /\ got' \in Seq(U) /\ Len(got') = Len(got) + n
      /\ \A i \in 1 .. Len(got') : got'[i] = IF i <= Len(got) THEN got[i] ELSE first[i - Len(got)]
  <2>1. /\ got \o first \in Seq(U) /\ Len(got \o first) = Len(got) + Len(first)
        /\ \A i \in 1 .. Len(got) + Len(first) :
              (got \o first)[i] = IF i <= Len(got) THEN got[i] ELSE first[i - Len(got)]
    BY <1>1, <1>2, ConcatProperties
  <2> QED BY <1>2, <1>4, <2>1
<1>6. /\ passed = Len(got) + Len(buf) \/ (broken /\ passed < Len(got) + Len(buf))
      /\ \A i \in 1 .. Len(got) : got[i] = IF i <= passed THEN i ELSE Filter!Garbage
      /\ \A i \in 1 .. Len(buf) : buf[i] = IF Len(got) + i <= passed THEN Len(got) + i ELSE Filter!Garbage
  BY DEF FilterIInv, UnitsInv
<1>7. \A i \in 1 .. Len(got') : got'[i] = IF i <= passed THEN i ELSE Filter!Garbage
  <2> SUFFICES ASSUME NEW i \in 1 .. Len(got') PROVE got'[i] = IF i <= passed THEN i ELSE Filter!Garbage
    OBVIOUS
  <2>1. CASE i <= Len(got)
    BY <1>1, <1>5, <1>6, <2>1
  <2>2. CASE ~(i <= Len(got)) /\ i - Len(got) <= Len(buf)
    <3>1. i - Len(got) \in 1 .. n /\ i - Len(got) \in 1 .. Len(buf)
      BY <1>1, <1>5, <2>2
    <3>2. got'[i] = buf[i - Len(got)]
      BY <1>2, <1>5, <2>2, <3>1
    <3>3. Len(got) + (i - Len(got)) = i
      BY <1>1
    <3> QED BY <1>6, <3>1, <3>2, <3>3
  <2>3. CASE ~(i - Len(got) <= Len(buf))
    <3>1. i - Len(got) \in 1 .. n /\ ~(i <= Len(got)) /\ ~(i <= passed)
      BY <1>1, <1>5, <1>6, <2>3
    <3> QED BY <1>2, <1>5, <2>3, <3>1
  <2> QED BY <2>1, <2>2, <2>3
<1>8. \A i \in 1 .. Len(buf') : buf'[i] = IF Len(got') + i <= passed THEN Len(got') + i ELSE Filter!Garbage
  <2> SUFFICES ASSUME NEW i \in 1 .. Len(rest)
               PROVE rest[i] = IF Len(got) + n + i <= passed THEN Len(got) + n + i ELSE Filter!Garbage
    BY <1>4, <1>5
  <2>1. n + i \in 1 .. Len(buf) /\ Len(got) + (n + i) = Len(got) + n + i
    BY <1>1, <1>3
  <2> QED BY <1>3, <1>6, <2>1
<1>9. \/ Len(got') + Len(buf') = Len(got) + Len(buf)
      \/ Filter!Endless /\ Len(got') + Len(buf') > Len(got) + Len(buf)
  <2>1. Len(got') = Len(got) + n /\ Len(buf') = IF n <= Len(buf) THEN Len(buf) - n ELSE 0
    BY <1>3, <1>4, <1>5
  <2>2. CASE n <= Len(buf)
    BY <1>1, <2>1, <2>2
  <2>3. CASE ~(n <= Len(buf))
    BY <1>1, <2>1, <2>3
  <2> QED BY <2>2, <2>3
<1>10. Filter!Endless' = Filter!Endless /\ (Filter!Endless => broken /\ contentLength = None)
  BY DEF Filter!Endless
<1>11. ~Filter!Endless => count' = Len(buf') /\ (n = Len(buf) => count' = 0)
  <2>1. ~Filter!Endless => count = Len(buf) /\ n <= Len(buf)
    BY DEF FilterIInv, UnitsInv
  <2>2. Len(buf') = IF n <= Len(buf) THEN Len(buf) - n ELSE 0
    BY <1>3, <1>4
  <2> QED BY <1>1, <1>4, <2>1, <2>2
<1>12. passed = Len(got') + Len(buf') \/ (broken /\ passed < Len(got') + Len(buf'))
  BY <1>1, <1>5, <1>6, <1>9, <1>10
<1>13. contentLength # None => /\ Len(got') + Len(buf') = Len(got) + Len(buf)
                               /\ Len(got') + Len(buf') <= contentLength
                               /\ broken => Len(got') + Len(buf') = contentLength
  BY <1>9, <1>10 DEF FilterIInv, UnitsInv
<1>14. /\ passed <= given
       /\ flags.opened /\ ~broken => passed = IF contentLength = None \/ given < contentLength THEN given ELSE contentLength
  BY DEF FilterIInv, UnitsInv
<1>15. UnitsInv'
  BY <1>7, <1>8, <1>10, <1>11, <1>12, <1>13, <1>14 DEF UnitsInv
<1>16. {got', buf'} \subseteq Seq(U)
  BY <1>3, <1>4, <1>5
<1> QED BY <1>4, <1>10, <1>11, <1>13, <1>15, <1>16 DEF U

\* What there is for the request that is first in the queue.
LEMMA HasFacts ==
    ASSUME FilterIInv, count # 0, requestsRead # <<>>
    PROVE LET r == Head(requestsRead) IN
          /\ r \in Filter!Reads /\ r \in 1 .. Len(size) /\ size[r] \in Nat \ {0}
          /\ Filter!Has(r) \in Nat \ {0} /\ Filter!Has(r) <= size[r]
          /\ Filter!Has(r) <= Len(buf) \/ Filter!Endless
          /\ Filter!Has(r) < size[r] => Filter!Has(r) = Len(buf) /\ ~Filter!Endless
<1> DEFINE r == Head(requestsRead)
<1>1. /\ buf \in Seq(Filter!Units \cup {Filter!Garbage}) /\ requestsRead \in Seq(Filter!Reads) /\ size \in Seq(Nat \ {0})
      /\ Len(buf) \in Nat
  BY DEF FilterIInv, Filter!TypeOK
<1>2. Len(requestsRead) \in Nat \ {0} /\ r = requestsRead[1] /\ r \in Filter!Reads
  BY <1>1, HeadTailProperties
<1>3. r \in 1 .. Len(size)
  <2>1. 1 \in 1 .. Len(requestsRead) /\ r \in Nat /\ r >= 1
    BY <1>2 DEF Filter!Reads
  <2> HIDE DEF r
  <2>2. r <= Len(size)
    BY <1>2, <2>1 DEF FilterIInv, QueueInv
  <2> QED BY <1>1, <2>1, <2>2
<1> HIDE DEF r
<1>4. size[r] \in Nat \ {0}
  BY <1>1, <1>3
<1>5. ~Filter!Endless => Len(buf) # 0
  BY <1>1 DEF FilterIInv, UnitsInv
<1>6. /\ Filter!Has(r) \in Nat \ {0} /\ Filter!Has(r) <= size[r]
      /\ Filter!Has(r) <= Len(buf) \/ Filter!Endless
      /\ Filter!Has(r) < size[r] => Filter!Has(r) = Len(buf) /\ ~Filter!Endless
  BY <1>1, <1>4, <1>5 DEF Filter!Has
<1> QED BY <1>2, <1>3, <1>4, <1>6 DEF r

\* One turn of _processReadRequests() answers a request with what the buffer has for it.
LEMMA FilterProcessStep ==
    ASSUME FilterIInv, Filter!Process
    PROVE FilterIInv'
<1> DEFINE r == Head(requestsRead)
           n == Filter!Has(r)
           s == IF count' = 0 THEN Filter!Return ELSE frames
<1>1. /\ frames # <<>> /\ Last(frames) = "_process" /\ count # 0 /\ requestsRead # <<>>
      /\ requestsRead' = Tail(requestsRead)
      /\ Filter!Take(n)
      /\ answers' = [answers EXCEPT ![r] = @ + 1]
      /\ frames' = Append(s, "program")
      /\ UNCHANGED <<contentLength, flags, below, size, given, passed, broken, completions, refused, nested>>
  BY DEF Filter!Process, Filter!In, Last, Filter!source
<1>2. n \in Nat /\ (n <= Len(buf) \/ Filter!Endless)
  BY <1>1, HasFacts
<1>3. QueueInv' /\ requestsRead' \in Seq(Filter!Reads) /\ answers' \in [Filter!Reads -> Nat]
  BY <1>1, QueueAnswered
<1> HIDE DEF n, r
<1>4. /\ UnitsInv' /\ {got', buf'} \subseteq Seq(Filter!Units \cup {Filter!Garbage}) /\ count' = count - n
      /\ contentLength # None => Len(got') + Len(buf') = Len(got) + Len(buf)
  BY <1>1, <1>2, UnitsGiven
<1>5. frames \in Seq(Filter!Frames) /\ "program" \in Filter!Frames /\ count \in Int
  BY FramesAre DEF FilterIInv, Filter!TypeOK
<1>6. /\ s \in Seq(Filter!Frames)
      /\ GoesOn(frames) => GoesOn(s)
      /\ Within(frames) => Within(s)
      /\ HasRead(s) => HasRead(frames)
      /\ HasError(s) <=> HasError(frames)
      /\ OneError(frames) => OneError(s)
  BY <1>1, <1>5, ReturnFacts
<1> HIDE DEF s
<1>7. /\ frames' \in Seq(Filter!Frames)
      /\ GoesOn(frames) => GoesOn(frames')
      /\ Within(frames) => Within(frames')
      /\ HasRead(frames') => HasRead(frames)
      /\ HasError(frames') <=> HasError(frames)
      /\ OneError(frames) => OneError(frames')
  BY <1>1, <1>5, <1>6, CallFacts
<1>8. Filter!TypeOK'
  <2>1. count' \in Int
    BY <1>2, <1>4, <1>5
  <2> QED BY <1>1, <1>3, <1>4, <1>7, <2>1 DEF FilterIInv, Filter!TypeOK
<1>9. WaitInv' /\ ReadInv'
  BY <1>1, <1>7, CallsKept
<1>10. CompleteInv'
  BY <1>1, <1>4, <1>7, CompleteKept
<1> QED BY <1>3, <1>4, <1>8, <1>9, <1>10 DEF FilterIInv

\* A request goes to the end of the queue.
LEMMA QueueAgain ==
    ASSUME FilterIInv, requestsRead # <<>>, NEW r, r = Head(requestsRead), requestsRead' = Append(Tail(requestsRead), r),
           Len(size') = Len(size), UNCHANGED <<answers, refused>>
    PROVE QueueInv' /\ requestsRead' \in Seq(Filter!Reads)
<1> DEFINE k == Len(requestsRead)
           rest == Tail(requestsRead)
<1>1. requestsRead \in Seq(Filter!Reads)
  BY DEF FilterIInv, Filter!TypeOK
<1>2. /\ k \in Nat \ {0} /\ rest \in Seq(Filter!Reads) /\ Len(rest) = k - 1
      /\ \A i \in 1 .. k - 1 : rest[i] = requestsRead[i + 1]
      /\ r = requestsRead[1] /\ r \in Filter!Reads
  BY <1>1, HeadTailProperties
<1>3. requestsRead' = Append(rest, r)
  OBVIOUS
<1> HIDE DEF rest
<1>4. /\ requestsRead' \in Seq(Filter!Reads) /\ Len(requestsRead') = k
      /\ \A i \in 1 .. k : requestsRead'[i] = IF i = k THEN requestsRead[1] ELSE requestsRead[i + 1]
  <2>1. /\ Append(rest, r) \in Seq(Filter!Reads) /\ Len(Append(rest, r)) = Len(rest) + 1
        /\ \A i \in 1 .. Len(rest) : Append(rest, r)[i] = rest[i]
        /\ Append(rest, r)[Len(rest) + 1] = r
    BY <1>2, AppendProperties
  <2>2. requestsRead' \in Seq(Filter!Reads) /\ Len(requestsRead') = Len(rest) + 1
    BY <1>3, <2>1
  <2>3. ASSUME NEW i \in 1 .. k PROVE requestsRead'[i] = IF i = k THEN requestsRead[1] ELSE requestsRead[i + 1]
    BY <1>2, <1>3, <2>1
  <2> HIDE DEF k
  <2> QED BY <1>2, <2>2, <2>3
<1> HIDE DEF k
<1>5. \A i \in 1 .. k : \E j \in 1 .. k : requestsRead'[i] = requestsRead[j] /\ j = IF i = k THEN 1 ELSE i + 1
  BY <1>2, <1>4
<1>6. /\ \A i \in 1 .. k : /\ requestsRead[i] <= Len(size)
                           /\ answers[requestsRead[i]] = IF requestsRead[i] \in refused THEN 1 ELSE 0
      /\ \A i, j \in 1 .. k : requestsRead[i] = requestsRead[j] => i = j
  BY DEF FilterIInv, QueueInv, k
<1>7. \A i \in 1 .. Len(requestsRead') :
         /\ requestsRead'[i] <= Len(size')
         /\ answers'[requestsRead'[i]] = IF requestsRead'[i] \in refused' THEN 1 ELSE 0
  <2> SUFFICES ASSUME NEW i \in 1 .. k
               PROVE /\ requestsRead'[i] <= Len(size)
                     /\ answers[requestsRead'[i]] = IF requestsRead'[i] \in refused THEN 1 ELSE 0
    BY <1>4
  <2>1. PICK j \in 1 .. k : requestsRead'[i] = requestsRead[j]
    BY <1>5
  <2> QED BY <1>6, <2>1
<1>8. \A i, j \in 1 .. Len(requestsRead') : requestsRead'[i] = requestsRead'[j] => i = j
  BY <1>2, <1>4, <1>5, <1>6
<1>9. /\ Len(size') <= MaxRequests
      /\ \A q \in Filter!Reads : q > Len(size') => answers'[q] = 0 /\ q \notin refused'
      /\ Filter!AnsweredOnce'
  BY DEF FilterIInv, QueueInv, Filter!AnsweredOnce
<1> QED BY <1>4, <1>7, <1>8, <1>9 DEF QueueInv

\* What is left of a readFully() waits behind the others, and _read() is called for it.
LEMMA FilterAskAgainStep ==
    ASSUME FilterIInv, Filter!AskAgain
    PROVE FilterIInv'
<1> DEFINE r == Head(requestsRead)
           n == Filter!Has(r)
           s == Filter!Return
<1>1. /\ frames # <<>> /\ Last(frames) = "_process" /\ count # 0 /\ requestsRead # <<>>
      /\ Filter!CanRead /\ n < size[r]
      /\ requestsRead' = Append(Tail(requestsRead), r) /\ size' = [size EXCEPT ![r] = @ - n]
      /\ Filter!Take(n)
      /\ frames' = s \o <<"_read", "_process">>
      /\ UNCHANGED <<contentLength, flags, below, given, passed, broken, completions, answers, refused>>
  BY DEF Filter!AskAgain, Filter!In, Filter!InPart, Last, Filter!source
<1>2. /\ n \in Nat \ {0} /\ n <= Len(buf) /\ r \in 1 .. Len(size) /\ size[r] \in Nat \ {0}
  BY <1>1, HasFacts DEF FilterIInv, Filter!TypeOK
<1> HIDE DEF n
<1>3. size' \in Seq(Nat \ {0}) /\ Len(size') = Len(size)
  <2>1. size \in Seq(Nat \ {0})
    BY DEF FilterIInv, Filter!TypeOK
  <2>2. size[r] - n \in Nat \ {0}
    BY <1>1, <1>2
  <2> HIDE DEF r
  <2> QED BY <1>1, <1>2, <2>1, <2>2
<1>4. QueueInv' /\ requestsRead' \in Seq(Filter!Reads)
  BY <1>1, <1>3, QueueAgain
<1> HIDE DEF r
<1>5. /\ UnitsInv' /\ {got', buf'} \subseteq Seq(Filter!Units \cup {Filter!Garbage}) /\ count' = count - n
      /\ contentLength # None => Len(got') + Len(buf') = Len(got) + Len(buf)
  BY <1>1, <1>2, UnitsGiven
<1>6. frames \in Seq(Filter!Frames) /\ "_read" \in Filter!Frames /\ "_process" \in Filter!Frames /\ count \in Int
  BY FramesAre DEF FilterIInv, Filter!TypeOK
<1>7. s \in Seq(Filter!Frames) /\ (HasError(s) <=> HasError(frames)) /\ (OneError(frames) => OneError(s))
  BY <1>1, <1>6, ReturnFacts
<1> HIDE DEF s
<1>8. /\ frames' \in Seq(Filter!Frames) /\ GoesOn(frames')
      /\ ~HasRead(s) => Within(frames')
      /\ HasError(frames') <=> HasError(frames)
      /\ OneError(frames) => OneError(frames')
  <2>1. frames' = Append(Append(s, "_read"), "_process")
    BY <1>1, <1>6, <1>7, TwoCalls
  <2>2. /\ Append(s, "_read") \in Seq(Filter!Frames) /\ GoesOn(Append(s, "_read"))
        /\ ~HasRead(s) => Within(Append(s, "_read"))
        /\ HasError(Append(s, "_read")) <=> HasError(frames)
        /\ OneError(frames) => OneError(Append(s, "_read"))
    BY <1>6, <1>7, CallFacts
  <2> QED BY <1>6, <2>1, <2>2, CallFacts
<1>9. nested' = (nested \/ HasRead(s)) /\ nested' \in BOOLEAN
  <2>1. DOMAIN s = 1 .. Len(s)
    BY <1>7
  <2>2. nested' = (nested \/ HasRead(s))
    BY <2>1 DEF Filter!AskAgain, Filter!InRead, HasRead, s
  <2> QED BY <2>2 DEF FilterIInv, Filter!TypeOK, HasRead
<1>10. Filter!TypeOK'
  <2>1. count' \in Int
    BY <1>2, <1>5, <1>6
  <2> QED BY <1>1, <1>3, <1>4, <1>5, <1>8, <1>9, <2>1 DEF FilterIInv, Filter!TypeOK
<1>11. ~flags.reading /\ ~flags.ended
  BY <1>1 DEF Filter!CanRead
<1>12. WaitInv' /\ ReadInv'
  BY <1>1, <1>8, <1>9, <1>11 DEF FilterIInv, WaitInv, ReadInv
<1>13. CompleteInv'
  BY <1>1, <1>5, <1>8, <1>9, <1>11 DEF FilterIInv, CompleteInv
<1> QED BY <1>4, <1>5, <1>10, <1>12, <1>13 DEF FilterIInv

\* What filterRead() lets pass of n more units, or of a size of -1, ends with the content.
LEMMA PassingFacts ==
    ASSUME FilterIInv, flags.opened, NEW n \in Int, n >= -1
    PROVE /\ Filter!Passing(n) \in Nat
          /\ contentLength # None =>
                /\ Len(got) + Len(buf) + Filter!Passing(n) <= contentLength
                /\ broken \/ n = -1 \/ Filter!Completes(n) => Len(got) + Len(buf) + Filter!Passing(n) = contentLength
          /\ n # -1 /\ Filter!Passing(n) > 0 => ~broken /\ given = Len(got) + Len(buf)
          /\ n # -1 => passed + Filter!Passing(n) <= given + n
          /\ n # -1 /\ ~broken => passed + Filter!Passing(n) = IF contentLength = None \/ given + n < contentLength
                                                               THEN given + n ELSE contentLength
          /\ contentLength = None => Filter!Passing(n) = IF n = -1 \/ broken THEN 0 ELSE n
          /\ contentLength = None => ~Filter!Completes(n)
<1> DEFINE total == Len(got) + Len(buf)
<1>1. /\ passed \in Nat /\ given \in Nat /\ (contentLength # None => contentLength \in Nat)
      /\ Len(got) \in Nat /\ Len(buf) \in Nat /\ total \in Nat
  BY FilterAssumption DEF Filter!ConstantsAssumption, FilterIInv, Filter!TypeOK
<1>2. /\ passed = total \/ (broken /\ passed < total)
      /\ contentLength # None => total <= contentLength /\ (broken => total = contentLength)
      /\ passed <= given
      /\ ~broken => passed = IF contentLength = None \/ given < contentLength THEN given ELSE contentLength
  BY DEF FilterIInv, UnitsInv
<1>3. contentLength # None => Filter!Remain = contentLength - total
  BY <1>1 DEF Filter!Remain
<1> HIDE DEF total
<1>4. CASE contentLength = None
  BY <1>1, <1>2, <1>4 DEF Filter!Passing, Filter!Completes, total
<1>5. CASE contentLength # None
  <2>1. Filter!Passing(n) = IF n = -1 \/ n > contentLength - total THEN contentLength - total ELSE n
    BY <1>3, <1>5 DEF Filter!Passing
  <2>2. Filter!Completes(n) <=> n # 0 /\ (n = -1 \/ n >= contentLength - total)
    BY <1>3, <1>5 DEF Filter!Completes
  <2> DEFINE p == Filter!Passing(n)
  <2>3. /\ p \in Nat /\ total + p <= contentLength
        /\ broken \/ n = -1 \/ Filter!Completes(n) => total + p = contentLength
    BY <1>1, <1>2, <1>5, <2>1, <2>2
  <2>4. n # -1 /\ p > 0 => ~broken /\ given = total
    BY <1>1, <1>2, <1>5, <2>1
  <2>5. n # -1 => passed + p <= given + n
    BY <1>1, <1>2, <1>5, <2>1
  <2>6. n # -1 /\ ~broken => passed + p = IF given + n < contentLength THEN given + n ELSE contentLength
    BY <1>1, <1>2, <1>5, <2>1
  <2> HIDE DEF p
  <2> QED BY <1>5, <2>3, <2>4, <2>5, <2>6 DEF p, total
<1> QED BY <1>4, <1>5

LEMMA Between ==
    ASSUME NEW m \in Nat, NEW i \in 1 .. m
    PROVE i \in Int /\ i >= 1 /\ i <= m
OBVIOUS

\* What the answer says of its data, for an open filter.
Brings(n, code) ==
    /\ given' = (IF n = -1 THEN given ELSE given + n)
    /\ buf' = buf \o [i \in 1 .. Filter!Passing(n) |-> IF n = -1 THEN Filter!Garbage ELSE given + i]
    /\ count' = count + (IF contentLength = None THEN n ELSE Filter!Passing(n))
    /\ passed' = (IF n = -1 THEN passed ELSE passed + Filter!Passing(n))
    /\ broken' = (broken \/ n = -1 \/ (code = "error" /\ Filter!Completes(n)))

\* Those are appended to the buffer.
LEMMA UnitsPassed ==
    ASSUME FilterIInv, flags.opened, NEW n \in Int, n >= -1, NEW code, given + n <= FilterLength,
           Brings(n, code), UNCHANGED <<contentLength, got>>
    PROVE /\ UnitsInv' /\ buf' \in Seq(Filter!Units \cup {Filter!Garbage})
          /\ passed' \in 0 .. FilterLength /\ given' \in 0 .. FilterLength /\ count' \in Int /\ broken' \in BOOLEAN
          /\ Filter!Completes(n) => contentLength # None /\ Len(got') + Len(buf') = contentLength
          /\ contentLength # None => Len(got') + Len(buf') >= Len(got) + Len(buf)
<1> DEFINE U == Filter!Units \cup {Filter!Garbage}
           p == Filter!Passing(n)
           unit(i) == IF n = -1 THEN Filter!Garbage ELSE given + i
           more == [i \in 1 .. p |-> unit(i)]
           total == Len(got) + Len(buf)
<1>1. /\ got \in Seq(U) /\ buf \in Seq(U) /\ Len(got) \in Nat /\ Len(buf) \in Nat /\ total \in Nat
      /\ passed \in Nat /\ given \in Nat /\ given <= FilterLength /\ FilterLength \in Nat /\ count \in Int /\ broken \in BOOLEAN
      /\ contentLength # None => contentLength \in Nat
  BY FilterAssumption DEF Filter!ConstantsAssumption, FilterIInv, Filter!TypeOK
<1>2. /\ p \in Nat
      /\ contentLength # None => /\ total + p <= contentLength
                                 /\ broken \/ n = -1 \/ Filter!Completes(n) => total + p = contentLength
      /\ n # -1 /\ p > 0 => ~broken /\ given = total
      /\ n # -1 => passed + p <= given + n
      /\ n # -1 /\ ~broken => passed + p = IF contentLength = None \/ given + n < contentLength THEN given + n ELSE contentLength
      /\ contentLength = None => p = IF n = -1 \/ broken THEN 0 ELSE n
      /\ contentLength = None => ~Filter!Completes(n)
  BY PassingFacts
<1>3. /\ passed = total \/ (broken /\ passed < total)
      /\ \A i \in 1 .. Len(buf) : buf[i] = IF Len(got) + i <= passed THEN Len(got) + i ELSE Filter!Garbage
      /\ \A i \in 1 .. Len(got) : got[i] = IF i <= passed THEN i ELSE Filter!Garbage
      /\ ~Filter!Endless => count = Len(buf)
      /\ passed <= given
  BY DEF FilterIInv, UnitsInv
<1>4. /\ given' = (IF n = -1 THEN given ELSE given + n) /\ buf' = buf \o more
      /\ count' = count + (IF contentLength = None THEN n ELSE p)
      /\ passed' = (IF n = -1 THEN passed ELSE passed + p)
      /\ broken' = (broken \/ n = -1 \/ (code = "error" /\ Filter!Completes(n)))
  BY DEF Brings
<1> HIDE DEF p, total
<1>5. given' \in 0 .. FilterLength /\ passed' \in 0 .. FilterLength /\ passed' <= given' /\ count' \in Int /\ broken' \in BOOLEAN
  <2>1. broken' \in BOOLEAN
    BY <1>4
  <2>2. count' \in Int
    BY <1>1, <1>2, <1>4
  <2>3. CASE n = -1
    BY <1>1, <1>3, <1>4, <2>1, <2>2, <2>3
  <2>4. CASE n # -1
    BY <1>1, <1>2, <1>4, <2>1, <2>2, <2>4
  <2> QED BY <2>3, <2>4
<1>6. more \in Seq(U) /\ Len(more) = p /\ \A i \in 1 .. p : more[i] = unit(i)
  <2>1. ASSUME NEW i \in 1 .. p PROVE unit(i) \in U
    <3>1. CASE n = -1
      BY <3>1
    <3>2. CASE n # -1
      <4>1. i \in Nat /\ i >= 1 /\ i <= p
        BY <1>2
      <4>2. given + i \in 1 .. FilterLength
        BY <1>1, <1>2, <1>3, <3>2, <4>1
      <4> QED BY <3>2, <4>2 DEF Filter!Units
    <3> QED BY <3>1, <3>2
  <2> HIDE DEF U, unit
  <2> QED BY <1>2, <2>1
<1> HIDE DEF more, U
<1>7. /\ buf' \in Seq(U) /\ Len(buf') = Len(buf) + p
      /\ \A i \in 1 .. Len(buf') : buf'[i] = IF i <= Len(buf) THEN buf[i] ELSE more[i - Len(buf)]
  <2>1. /\ buf \o more \in Seq(U) /\ Len(buf \o more) = Len(buf) + Len(more)
        /\ \A i \in 1 .. Len(buf) + Len(more) :
              (buf \o more)[i] = IF i <= Len(buf) THEN buf[i] ELSE more[i - Len(buf)]
    BY <1>1, <1>6, ConcatProperties
  <2> QED BY <1>4, <1>6, <2>1
<1>8. Len(got') + Len(buf') = total + p
  BY <1>1, <1>2, <1>7 DEF total
<1>9. passed' = total + p \/ (broken' /\ passed' < total + p)
  <2>1. CASE n = -1
    <3>1. passed' = passed
      BY <1>4, <2>1
    <3>2. broken'
      BY <1>4, <2>1
    <3>3. passed = total + p \/ passed < total + p
      BY <1>1, <1>2, <1>3
    <3> QED BY <3>1, <3>2, <3>3
  <2>2. CASE n # -1
    BY <1>1, <1>2, <1>3, <1>4, <2>2
  <2> QED BY <2>1, <2>2
<1>10. passed' >= passed /\ (passed' > passed => n # -1 /\ p > 0)
  BY <1>1, <1>2, <1>4
<1>11. \A i \in 1 .. Len(buf') : buf'[i] = IF Len(got') + i <= passed' THEN Len(got') + i ELSE Filter!Garbage
  <2> SUFFICES ASSUME NEW i \in 1 .. Len(buf')
               PROVE buf'[i] = IF Len(got) + i <= passed' THEN Len(got) + i ELSE Filter!Garbage
    OBVIOUS
  <2>0. i \in Int /\ i >= 1 /\ i <= Len(buf) + p
    <3>1. Len(buf') \in Nat
      BY <1>1, <1>2, <1>7
    <3> QED BY <1>7, <3>1, Between, Zenon
  <2>1. CASE i <= Len(buf)
    <3>1. i \in 1 .. Len(buf) /\ buf'[i] = buf[i]
      BY <1>1, <1>7, <2>0, <2>1
    <3>2. Len(got) + i <= total
      BY <1>1, <2>0, <2>1 DEF total
    <3>3. Len(got) + i <= passed' <=> Len(got) + i <= passed
      <4>1. passed' > passed => passed = total
        BY <1>2, <1>3, <1>10
      <4> QED BY <1>1, <1>5, <1>10, <2>0, <3>2, <4>1
    <3> QED BY <1>3, <3>1, <3>3
  <2>2. CASE ~(i <= Len(buf))
    <3>1. i - Len(buf) \in 1 .. p /\ buf'[i] = more[i - Len(buf)]
      BY <1>1, <1>2, <1>7, <2>0, <2>2
    <3>2. buf'[i] = IF n = -1 THEN Filter!Garbage ELSE given + (i - Len(buf))
      BY <1>6, <3>1
    <3>3. Len(got) + i > total /\ Len(got) + i = total + (i - Len(buf)) /\ Len(got) + i <= total + p
      BY <1>1, <1>2, <2>0, <2>2 DEF total
    <3>4. CASE n = -1
      <4>1. ~(Len(got) + i <= passed')
        BY <1>1, <1>3, <1>4, <2>0, <3>3, <3>4
      <4> QED BY <3>2, <3>4, <4>1
    <3>5. CASE n # -1
      <4>1. p > 0
        BY <1>1, <1>2, <2>0, <2>2
      <4>2. ~broken /\ given = total /\ passed = total /\ passed' = total + p
        BY <1>2, <1>3, <1>4, <3>5, <4>1
      <4>3. Len(got) + i <= passed' /\ given + (i - Len(buf)) = Len(got) + i
        BY <3>3, <4>2
      <4> QED BY <3>2, <3>5, <4>3
    <3> QED BY <3>4, <3>5
  <2> QED BY <2>1, <2>2
<1>12. \A i \in 1 .. Len(got') : got'[i] = IF i <= passed' THEN i ELSE Filter!Garbage
  <2> SUFFICES ASSUME NEW i \in 1 .. Len(got) PROVE got[i] = IF i <= passed' THEN i ELSE Filter!Garbage
    OBVIOUS
  <2>1. i \in Int /\ i <= total
    BY <1>1 DEF total
  <2>2. i <= passed' <=> i <= passed
    <3>1. passed' > passed => passed = total
      BY <1>2, <1>3, <1>10
    <3> QED BY <1>1, <1>5, <1>10, <2>1, <3>1
  <2> QED BY <1>3, <2>2
<1>13. contentLength # None => /\ total + p <= contentLength
                               /\ broken' => total + p = contentLength
                               /\ Filter!Completes(n) => total + p = contentLength
  BY <1>2, <1>4
<1>14. ~Filter!Endless' => count' = Len(buf')
  <2> SUFFICES ASSUME ~(broken' /\ contentLength = None) PROVE count' = Len(buf')
    BY DEF Filter!Endless
  <2>1. count = Len(buf)
    BY <1>3, <1>4 DEF Filter!Endless
  <2>2. CASE contentLength = None
    BY <1>1, <1>2, <1>4, <1>7, <2>1, <2>2
  <2>3. CASE contentLength # None
    BY <1>1, <1>2, <1>4, <1>7, <2>1, <2>3
  <2> QED BY <2>2, <2>3
<1>15. ~broken' => passed' = IF contentLength = None \/ given' < contentLength THEN given' ELSE contentLength
  BY <1>2, <1>4
<1>16. UnitsInv'
  BY <1>5, <1>8, <1>9, <1>11, <1>12, <1>13, <1>14, <1>15 DEF UnitsInv
<1>17. contentLength # None => Len(got') + Len(buf') >= total
  BY <1>1, <1>2, <1>8
<1> QED BY <1>2, <1>5, <1>7, <1>8, <1>13, <1>16, <1>17 DEF total, U

\* What an answer adds to the completions.
LEMMA CompletionFacts ==
    ASSUME completions \in Seq(BOOLEAN), NEW b \in BOOLEAN, NEW c,
           completions' = IF c THEN Append(completions, b) ELSE completions
    PROVE /\ completions' \in Seq(BOOLEAN)
          /\ completions = <<>> => Len(completions') = (IF c THEN 1 ELSE 0) /\ (completions' # <<>> => c)
          /\ completions' # <<>> /\ ~completions'[1] => c \/ (completions # <<>> /\ ~completions[1])
<1> DEFINE t == Append(completions, b)
<1>1. /\ t \in Seq(BOOLEAN) /\ Len(t) = Len(completions) + 1 /\ t[Len(completions) + 1] = b
      /\ \A i \in 1 .. Len(completions) : t[i] = completions[i]
  BY AppendProperties
<1>2. Len(completions) \in Nat /\ (completions = <<>> <=> Len(completions) = 0)
  OBVIOUS
<1>3. completions' = IF c THEN t ELSE completions
  OBVIOUS
<1> HIDE DEF t
<1>4. CASE c
  <2>1. completions' = t
    BY <1>3, <1>4
  <2>2. completions = <<>> => Len(t) = 1
    BY <1>1, <1>2
  <2> QED BY <1>1, <1>4, <2>1, <2>2
<1>5. CASE ~c
  <2>1. completions' = completions
    BY <1>3, <1>5
  <2> QED BY <1>2, <1>5, <2>1
<1> QED BY <1>4, <1>5

\* onReadStream() takes what the stream below gives, in the calls s that it is made from.
LEMMA TakeAnswerStep ==
    ASSUME FilterIInv, NEW n \in Int, n >= -1, NEW code \in {"success", "ended", "error"}, given + n <= FilterLength,
           NEW s \in Seq(Filter!Frames), Filter!TakeAnswer(n, code, s), below' \in Nat,
           ~nested => below' = 0 /\ ~HasRead(s) /\ completions = <<>> /\ ~HasError(s)
    PROVE FilterIInv'
<1> DEFINE fails == code = "error" /\ contentLength # None
           after == IF fails THEN Append(s, "setError") ELSE s
<1>1. UNCHANGED <<contentLength, requestsRead, size>> /\ UNCHANGED <<got, answers, refused, nested>>
  BY DEF Filter!TakeAnswer, Filter!history
<1>2. /\ completions \in Seq(BOOLEAN) /\ passed \in 0 .. FilterLength /\ given \in 0 .. FilterLength
      /\ flags \in [opened : BOOLEAN, reading : BOOLEAN, ended : BOOLEAN, error : BOOLEAN] /\ FilterLength \in Nat
  BY FilterAssumption DEF Filter!ConstantsAssumption, FilterIInv, Filter!TypeOK
<1>3. QueueInv'
  BY <1>1, QueueKept
<1>4. /\ after \in Seq(Filter!Frames)
      /\ ~HasRead(s) => ~HasRead(after)
      /\ ~HasError(s) => OneError(after) /\ (HasError(after) <=> fails)
  <2>1. "setError" \in Filter!Frames
    BY FramesAre
  <2>2. OneError(s) \/ HasError(s)
    BY DEF OneError, HasError
  <2> QED BY <2>1, <2>2, CallFacts
<1> HIDE DEF after
<1>5. CASE flags.opened
  <2>1. /\ flags' = Filter!Answered(n, code) /\ Brings(n, code)
        /\ completions' = IF Filter!Completes(n) THEN Append(completions, flags.error) ELSE completions
        /\ frames' = after \o <<"onReadStream", "_process">>
    BY <1>5 DEF Filter!TakeAnswer, Brings, after
  <2>2. /\ UnitsInv' /\ buf' \in Seq(Filter!Units \cup {Filter!Garbage})
        /\ passed' \in 0 .. FilterLength /\ given' \in 0 .. FilterLength /\ count' \in Int /\ broken' \in BOOLEAN
        /\ Filter!Completes(n) => contentLength # None /\ Len(got') + Len(buf') = contentLength
        /\ contentLength # None => Len(got') + Len(buf') >= Len(got) + Len(buf)
    BY <1>1, <1>5, <2>1, UnitsPassed
  <2>3. /\ flags' \in [opened : BOOLEAN, reading : BOOLEAN, ended : BOOLEAN, error : BOOLEAN]
        /\ ~flags'.reading /\ flags'.opened
        /\ flags.ended \/ Filter!Completes(n) \/ fails => flags'.ended
    <3>1. Filter!Completes(n) \in BOOLEAN
      BY DEF Filter!Completes
    <3> QED BY <1>1, <1>2, <1>5, <2>1, <3>1 DEF Filter!Answered
  <2>4. /\ completions' \in Seq(BOOLEAN)
        /\ completions = <<>> => Len(completions') = (IF Filter!Completes(n) THEN 1 ELSE 0) /\ (completions' # <<>> => Filter!Completes(n))
        /\ completions' # <<>> /\ ~completions'[1] => Filter!Completes(n) \/ (completions # <<>> /\ ~completions[1])
    <3>1. flags.error \in BOOLEAN
      BY <1>2
    <3> QED BY <1>2, <2>1, <3>1, CompletionFacts
  <2>5. /\ frames' \in Seq(Filter!Frames) /\ GoesOn(frames')
        /\ ~HasRead(s) => Within(frames') /\ ~HasRead(frames')
        /\ ~HasError(s) => OneError(frames') /\ (HasError(frames') <=> fails)
    <3>1. "onReadStream" \in Filter!Frames /\ "_process" \in Filter!Frames
      BY FramesAre
    <3>2. frames' = Append(Append(after, "onReadStream"), "_process")
      BY <1>4, <2>1, <3>1, TwoCalls
    <3>3. /\ Append(after, "onReadStream") \in Seq(Filter!Frames) /\ GoesOn(Append(after, "onReadStream"))
          /\ ~HasRead(after) => Within(Append(after, "onReadStream")) /\ ~HasRead(Append(after, "onReadStream"))
          /\ OneError(after) => OneError(Append(after, "onReadStream"))
          /\ HasError(Append(after, "onReadStream")) <=> HasError(after)
      BY <1>4, <3>1, CallFacts
    <3> QED BY <1>4, <3>1, <3>2, <3>3, CallFacts
  <2>6. Filter!TypeOK'
    BY <1>1, <2>2, <2>3, <2>4, <2>5 DEF FilterIInv, Filter!TypeOK
  <2>7. WaitInv' /\ ReadInv'
    BY <1>1, <2>3, <2>5 DEF WaitInv, ReadInv
  <2>8. CompleteInv'
    <3>1. completions' # <<>> /\ ~completions'[1] => contentLength # None /\ Len(got') + Len(buf') = contentLength
      <4>1. CASE Filter!Completes(n)
        BY <2>2, <4>1
      <4>2. CASE completions # <<>> /\ ~completions[1]
        <5>1. contentLength # None /\ Len(got) + Len(buf) = contentLength
          BY <4>2 DEF FilterIInv, CompleteInv
        <5>2. Len(got') + Len(buf') <= contentLength
          BY <1>1, <2>2, <5>1 DEF UnitsInv
        <5>3. contentLength \in Nat /\ Len(got') + Len(buf') \in Nat
          <6>1. got' \in Seq(Filter!Units \cup {Filter!Garbage})
            BY <1>1 DEF FilterIInv, Filter!TypeOK
          <6>2. Len(got') \in Nat /\ Len(buf') \in Nat
            BY <2>2, <6>1
          <6> QED BY <5>1, <6>2, FilterAssumption DEF Filter!ConstantsAssumption, FilterIInv, Filter!TypeOK
        <5> QED BY <2>2, <5>1, <5>2, <5>3
      <4> QED BY <2>4, <4>1, <4>2
    <3>2. ASSUME ~nested
          PROVE /\ completions' # <<>> \/ HasError(frames') => flags'.ended /\ ~flags'.reading /\ ~HasRead(frames')
                /\ OneError(frames')
                /\ Len(completions') <= IF HasError(frames') THEN (IF broken' THEN 1 ELSE 0) ELSE IF broken' THEN 2 ELSE 1
      <4>1. /\ completions = <<>> /\ ~HasRead(frames') /\ OneError(frames') /\ (HasError(frames') <=> fails)
            /\ Len(completions') = (IF Filter!Completes(n) THEN 1 ELSE 0) /\ (completions' # <<>> => Filter!Completes(n))
        BY <2>4, <2>5, <3>2
      <4>2. fails /\ Filter!Completes(n) => broken'
        BY <2>1 DEF Brings
      <4> QED BY <2>3, <4>1, <4>2
    <3> QED BY <1>1, <2>3, <3>1, <3>2 DEF CompleteInv
  <2> QED BY <1>3, <2>2, <2>6, <2>7, <2>8 DEF FilterIInv
<1>6. CASE ~flags.opened
  <2>1. /\ flags' = [flags EXCEPT !.reading = FALSE] /\ frames' = after
        /\ UNCHANGED <<buf, completions, count, passed, broken>>
        /\ given' = (IF n = -1 THEN given ELSE given + n)
    BY <1>6 DEF Filter!TakeAnswer, after
  <2>2. /\ flags' \in [opened : BOOLEAN, reading : BOOLEAN, ended : BOOLEAN, error : BOOLEAN]
        /\ ~flags'.reading /\ ~flags'.opened /\ flags'.ended
    BY <1>2, <1>6, <2>1 DEF FilterIInv, CompleteInv
  <2>3. given' \in 0 .. FilterLength /\ given' >= given
    BY <1>2, <2>1
  <2>4. UnitsInv'
    <3>1. passed' <= given'
      BY <1>2, <2>1, <2>3 DEF FilterIInv, UnitsInv
    <3> QED BY <1>1, <2>1, <2>2, <3>1 DEF FilterIInv, UnitsInv, Filter!Endless
  <2>5. Filter!TypeOK'
    BY <1>1, <1>4, <2>1, <2>2, <2>3 DEF FilterIInv, Filter!TypeOK
  <2>6. WaitInv' /\ ReadInv'
    <3>1. ~HasRead(after) => Within(after)
      BY DEF Within, HasRead
    <3> QED BY <1>1, <1>4, <2>1, <2>2, <3>1 DEF WaitInv, ReadInv
  <2>7. CompleteInv'
    <3>1. completions = <<>> => Len(completions) = 0
      OBVIOUS
    <3> QED BY <1>1, <1>4, <2>1, <2>2, <3>1 DEF FilterIInv, CompleteInv
  <2> QED BY <1>3, <2>4, <2>5, <2>6, <2>7 DEF FilterIInv
<1> QED BY <1>5, <1>6

\* What an answer may be.
LEMMA AnswersAre ==
    ASSUME NEW a \in Filter!Answers
    PROVE /\ a.size \in Int /\ a.size >= -1 /\ a.code \in {"success", "ended", "error"}
          /\ given + a.size <= FilterLength
BY FilterAssumption DEF Filter!ConstantsAssumption, Filter!Answers

LEMMA OnReadStreamStep ==
    ASSUME FilterIInv, Filter!OnReadStream
    PROVE FilterIInv'
<1>1. PICK a \in Filter!Answers : Filter!TakeAnswer(a.size, a.code, <<>>)
  BY DEF Filter!OnReadStream
<1>2. frames = <<>> /\ below > 0 /\ below' = below - 1 /\ below \in Nat
  BY DEF Filter!OnReadStream, Filter!Idle, FilterIInv, Filter!TypeOK
<1>3. below' \in Nat
  BY <1>2
<1>4. ~nested => below' = 0 /\ completions = <<>>
  <2>1. ASSUME ~nested PROVE below = 1 /\ completions = <<>>
    BY <1>2, <2>1 DEF FilterIInv, ReadInv, CompleteInv
  <2> QED BY <1>2, <2>1
<1> QED BY <1>1, <1>3, <1>4, AnswersAre, EmptyFrames, TakeAnswerStep

\* The rest of _read() reads from the stream below, which may answer at once.
LEMMA ReadBelowStep ==
    ASSUME FilterIInv, Filter!ReadBelow
    PROVE FilterIInv'
<1>1. frames # <<>> /\ Last(frames) = "_read" /\ requestsRead # <<>>
  BY DEF Filter!ReadBelow, Filter!In, Last
<1>2. /\ frames \in Seq(Filter!Frames) /\ below \in Nat
      /\ flags \in [opened : BOOLEAN, reading : BOOLEAN, ended : BOOLEAN, error : BOOLEAN]
  BY DEF FilterIInv, Filter!TypeOK
<1>3. /\ Filter!Return \in Seq(Filter!Frames) /\ (Within(frames) => Within(Filter!Return) /\ ~HasRead(Filter!Return))
      /\ HasRead(frames) /\ (HasRead(Filter!Return) => HasRead(frames))
      /\ HasError(Filter!Return) <=> HasError(frames)
      /\ OneError(frames) => OneError(Filter!Return)
  BY <1>1, <1>2, ReturnFacts
<1>4. ~nested => Within(frames) /\ ~flags.reading /\ below = 0 /\ completions = <<>> /\ ~HasError(frames)
  BY <1>3 DEF FilterIInv, ReadInv, CompleteInv
<1> HIDE DEF Filter!Return
<1>5. CASE /\ flags' = [flags EXCEPT !.reading = TRUE] /\ below' = below + 1 /\ frames' = Filter!Return
           /\ UNCHANGED <<contentLength, Filter!queues, size, Filter!source, Filter!history>>
  <2>0. /\ UNCHANGED <<contentLength, requestsRead, buf, count, size, given, passed, broken, completions>>
        /\ UNCHANGED <<got, answers, refused, nested>>
    BY <1>5 DEF Filter!queues, Filter!source, Filter!history
  <2>1. /\ flags' \in [opened : BOOLEAN, reading : BOOLEAN, ended : BOOLEAN, error : BOOLEAN]
        /\ flags'.reading /\ flags'.opened = flags.opened /\ flags'.ended = flags.ended
    BY <1>2, <1>5
  <2>2. UnitsInv' /\ QueueInv'
    BY <2>0, <2>1, UnitsKept, QueueKept
  <2>3. Filter!TypeOK'
    BY <1>2, <1>3, <1>5, <2>0, <2>1 DEF FilterIInv, Filter!TypeOK
  <2>4. WaitInv' /\ ReadInv'
    BY <1>2, <1>3, <1>4, <1>5, <2>0, <2>1 DEF WaitInv, ReadInv
  <2>5. CompleteInv'
    BY <1>3, <1>5, <2>0, <2>1, CompleteKept
  <2> QED BY <2>2, <2>3, <2>4, <2>5 DEF FilterIInv
<1>6. CASE UNCHANGED below /\ \E a \in Filter!Answers : Filter!TakeAnswer(a.size, a.code, Filter!Return)
  <2>1. PICK a \in Filter!Answers : Filter!TakeAnswer(a.size, a.code, Filter!Return)
    BY <1>6
  <2>2. ~nested => below' = 0 /\ ~HasRead(Filter!Return) /\ completions = <<>> /\ ~HasError(Filter!Return)
    BY <1>3, <1>4, <1>6
  <2> QED BY <1>2, <1>3, <1>6, <2>1, <2>2, AnswersAre, TakeAnswerStep
<1> QED BY <1>5, <1>6 DEF Filter!ReadBelow

-----------------------------------------------------------------------------
LEMMA FilterInit ==
    ASSUME Filter!Init
    PROVE FilterIInv
<1>1. Filter!TypeOK
  <2>1. [opened |-> TRUE, reading |-> FALSE, ended |-> FALSE, error |-> FALSE]
           \in [opened : BOOLEAN, reading : BOOLEAN, ended : BOOLEAN, error : BOOLEAN]
    OBVIOUS
  <2>2. given \in 0 .. FilterLength /\ passed \in 0 .. FilterLength
    BY FilterAssumption DEF Filter!ConstantsAssumption, Filter!Init
  <2>5. requestsRead = <<>> /\ buf = <<>> /\ got = <<>> /\ frames = <<>> /\ count = 0
    BY DEF Filter!Init
  <2>3. requestsRead \in Seq(Filter!Reads)
    BY <2>5
  <2>7. frames \in Seq(Filter!Frames)
    BY <2>5
  <2>8. count \in Int
    BY <2>5
  <2>9. broken \in BOOLEAN
    BY DEF Filter!Init
  <2>6. buf \in Seq(Filter!Units \cup {Filter!Garbage}) /\ got \in Seq(Filter!Units \cup {Filter!Garbage})
    BY <2>5
  <2>4. size \in Seq(Nat \ {0}) /\ completions \in Seq(BOOLEAN) /\ answers \in [Filter!Reads -> Nat] /\ below \in Nat
    BY DEF Filter!Init
  <2> QED BY <2>1, <2>2, <2>3, <2>4, <2>6, <2>7, <2>8, <2>9 DEF Filter!Init, Filter!TypeOK
<1>2. UnitsInv
  <2>1. contentLength # None => contentLength \in Nat \ {0}
    BY FilterAssumption DEF Filter!ConstantsAssumption, Filter!Init
  <2> QED BY <2>1 DEF Filter!Init, UnitsInv
<1>3. QueueInv
  <2>1. MaxRequests \in Nat
    BY FilterAssumption DEF Filter!ConstantsAssumption
  <2>2. Filter!AnsweredOnce
    BY DEF Filter!Init, Filter!AnsweredOnce
  <2> QED BY <2>1, <2>2 DEF Filter!Init, QueueInv
<1>4. WaitInv /\ ReadInv
  BY EmptyFrames DEF Filter!Init, WaitInv, ReadInv
<1>5. CompleteInv
  BY EmptyFrames DEF Filter!Init, CompleteInv
<1> QED BY <1>1, <1>2, <1>3, <1>4, <1>5 DEF FilterIInv

LEMMA FilterNext ==
    ASSUME FilterIInv, [Filter!Next]_Filter!vars
    PROVE FilterIInv'
<1>1. CASE Filter!Next
  BY <1>1, FilterReadStep, FilterCloseStep, OnReadStreamStep, ProgramReturnsStep, FilterProcessStep, FilterAskAgainStep, CallEndsStep,
     ReadBelowStep, AfterProcessStep, CloseRequestStep, SetErrorStep DEF Filter!Next, Filter!GoOn
<1>2. CASE UNCHANGED Filter!vars
  <2>1. /\ UNCHANGED <<contentLength, requestsRead, buf, count, flags, below, frames, size, given, passed, broken, completions>>
        /\ UNCHANGED <<got, answers, refused, nested>>
    BY <1>2 DEF Filter!vars, Filter!queues, Filter!source, Filter!history
  <2>2. UnitsInv' /\ QueueInv'
    BY <2>1, UnitsKept, QueueKept
  <2>3. Filter!TypeOK' /\ CompleteInv'
    BY <2>1 DEF FilterIInv, Filter!TypeOK, CompleteInv
  <2>4. WaitInv' /\ ReadInv'
    BY <2>1 DEF FilterIInv, WaitInv, ReadInv
  <2> QED BY <2>2, <2>3, <2>4 DEF FilterIInv
<1> QED BY <1>1, <1>2

\* The six that a run checks.
LEMMA FilterShown ==
    ASSUME FilterIInv
    PROVE Filter!Inv
<1>0. /\ got \in Seq(Filter!Units \cup {Filter!Garbage}) /\ buf \in Seq(Filter!Units \cup {Filter!Garbage})
      /\ Len(got) \in Nat /\ Len(buf) \in Nat
      /\ Len(got \o buf) = Len(got) + Len(buf)
      /\ \A i \in 1 .. Len(got) + Len(buf) : (got \o buf)[i] = IF i <= Len(got) THEN got[i] ELSE buf[i - Len(got)]
      /\ got \o buf \in Seq(Filter!Units \cup {Filter!Garbage})
  <2>1. got \in Seq(Filter!Units \cup {Filter!Garbage}) /\ buf \in Seq(Filter!Units \cup {Filter!Garbage})
    BY DEF FilterIInv, Filter!TypeOK
  <2> QED BY <2>1, ConcatProperties
<1>1. Filter!ReadInOrder
  <2>2. /\ passed = Len(got) + Len(buf) \/ (broken /\ passed < Len(got) + Len(buf))
        /\ \A i \in 1 .. Len(got) : got[i] = IF i <= passed THEN i ELSE Filter!Garbage
        /\ \A i \in 1 .. Len(buf) : buf[i] = IF Len(got) + i <= passed THEN Len(got) + i ELSE Filter!Garbage
        /\ contentLength # None => Len(got) + Len(buf) <= contentLength
        /\ flags.opened /\ ~broken => passed = IF contentLength = None \/ given < contentLength THEN given ELSE contentLength
    BY DEF FilterIInv, UnitsInv
  <2> DEFINE row == got \o buf
  <2>4. DOMAIN row = 1 .. Len(row) /\ row = [i \in DOMAIN row |-> row[i]] /\ Len(row) = Len(got) + Len(buf)
    <3>1. row \in Seq(Filter!Units \cup {Filter!Garbage}) /\ Len(row) = Len(got) + Len(buf)
      BY <1>0
    <3> HIDE DEF row
    <3> QED BY <3>1
  <2> HIDE DEF row
  <2>5. ASSUME NEW i \in 1 .. Len(row) PROVE row[i] = IF i <= passed THEN i ELSE Filter!Garbage
    <3>1. CASE i <= Len(got)
      BY <1>0, <2>2, <2>4, <3>1 DEF row
    <3>2. CASE ~(i <= Len(got))
      <4>1. i - Len(got) \in 1 .. Len(buf) /\ i \in Int /\ Len(got) + (i - Len(got)) = i
        BY <1>0, <2>4, <3>2
      <4>2. row[i] = buf[i - Len(got)]
        BY <1>0, <2>4, <3>2 DEF row
      <4>3. buf[i - Len(got)] = IF Len(got) + (i - Len(got)) <= passed THEN Len(got) + (i - Len(got)) ELSE Filter!Garbage
        BY <2>2, <4>1
      <4> QED BY <4>1, <4>2, <4>3
    <3> QED BY <3>1, <3>2
  <2>6. row = [i \in 1 .. Len(row) |-> IF i <= passed THEN i ELSE Filter!Garbage]
    BY <2>4, <2>5
  <2> QED BY <2>2, <2>4, <2>6 DEF Filter!ReadInOrder, row
<1>2. Filter!WaitingHasRead
  <2>1. ~GoesOn(<<>>)
    BY EmptyFrames
  <2> QED BY <2>1 DEF FilterIInv, WaitInv, Filter!WaitingHasRead, Filter!Idle
<1>3. Filter!OneRead
  BY DEF FilterIInv, ReadInv, Filter!OneRead
<1>4. Filter!CompletedOnce
  <2>1. nested \/ Len(completions) <= IF broken THEN 2 ELSE 1
    <3>1. Len(completions) \in Nat
      BY DEF FilterIInv, Filter!TypeOK
    <3> QED BY <3>1 DEF FilterIInv, CompleteInv
  <2>2. completions # <<>> /\ ~completions[1] => Len(got \o buf) = contentLength
    BY <1>0 DEF FilterIInv, CompleteInv
  <2> QED BY <2>1, <2>2 DEF Filter!CompletedOnce
<1> QED BY <1>1, <1>2, <1>3, <1>4 DEF FilterIInv, QueueInv, Filter!Inv

\* The variables of the filter change in its own steps only.
LEMMA FilterActs ==
    /\ StreamsInit => Filter!Init
    /\ [StreamsNext]_streams => [Filter!Next]_Filter!vars
<1>1. StreamsInit => Filter!Init
  BY DEF StreamsInit
<1>2. UNCHANGED filterVars => UNCHANGED Filter!vars
  BY DEF filterVars, Filter!vars, Filter!queues, Filter!source, Filter!history
<1>3. StreamsNext => Filter!Next \/ UNCHANGED filterVars
  BY DEF StreamsNext
<1>4. UNCHANGED streams => UNCHANGED filterVars
  BY DEF streams
<1> QED BY <1>1, <1>2, <1>3, <1>4

\* The inductive invariant of the filter, for any requests, sizes, chunks and content lengths.
THEOREM FilterInvariance == StreamsSpec => []FilterIInv
BY FilterActs, FilterInit, FilterNext, PTL DEF StreamsSpec

\* Every read of a filter is answered once, in order and from what the stream below gave; none
\* is left without a read of it, and a content completes once, as a success only with all of it.
THEOREM FilterAnswers == StreamsSpec => []FilterInv
<1>1. FilterIInv => FilterInv
  BY FilterShown DEF FilterInv
<1> QED BY <1>1, FilterInvariance, PTL

-----------------------------------------------------------------------------
(* AsyncOutput                                                             *)
Elements == Output!Elements
NoElement == Output!NoElement
NoBody == Output!NoBody
Pieces == Output!Pieces

FirstPiece(e) == IF e.header = <<>> THEN e.body ELSE e.header[1]
AfterPiece(e) == FirstPiece(e) + Len(e.header) + (IF e.body = NoBody THEN 0 ELSE 1)

\* The pieces of an element follow each other.
Row(e) ==
    /\ e # NoElement
    /\ \A j \in 1 .. Len(e.header) : e.header[j] = FirstPiece(e) + (j - 1)
    /\ e.body # NoBody => e.body = FirstPiece(e) + Len(e.header)

\* The first piece of a queue in which n is the last, and that its elements are one row.
FrontOf(q, n) == IF q = <<>> THEN n + 1 ELSE FirstPiece(q[1])
Chain(q, n) ==
    \A i \in 1 .. Len(q) :
        Row(q[i]) /\ AfterPiece(q[i]) = IF i = Len(q) THEN n + 1 ELSE FirstPiece(q[i + 1])

\* The first piece that is still to be written.
RestFront == IF elementWriting = NoElement THEN FrontOf(queueOutput, pieces) ELSE FirstPiece(elementWriting)

\* The elements are one row up to the last piece that was queued; what is in it was not
\* begun, and what is at the stream comes before it.
RowInv ==
    /\ Chain(queueOutput, pieces)
    /\ elementWriting # NoElement =>
          Row(elementWriting) /\ AfterPiece(elementWriting) = FrontOf(queueOutput, pieces)
    /\ \A b \in Pieces : b >= RestFront => stage[b] = "none"
    /\ \A p \in Pieces : atStream = <<p>> => p < RestFront

\* The types.
OutTypes ==
    /\ queueOutput \in Seq(Elements) /\ elementWriting \in Elements
    /\ bodyCopy \in Pieces \cup {NoBody} /\ creating \in Pieces \cup {NoBody}
    /\ atStream \in Seq(Pieces) /\ sent \in Seq(Pieces) /\ pieces \in 0 .. MaxPieces
    /\ stage \in [Pieces -> {"none", "reading", "writing", "ended"}]
    /\ copyLock \in [Pieces -> Output!Threads \cup {Nobody}] /\ lock \in Output!Threads \cup {Nobody}
    /\ threadPc \in [Output!Threads -> Output!Steps] /\ arg \in [Output!Threads -> BOOLEAN]
    /\ flagWriting \in BOOLEAN /\ flagClosed \in BOOLEAN /\ failed \in BOOLEAN

InFlight(p) == atStream = <<p>> \/ Output!Running(p)
Callback(t) == threadPc[t] \in {"onWriteStream", "onAsyncCopyEnd"}

\* One piece is on its way, or its callback; m_flagWriting is set as long as it is.
WriterInv ==
    /\ atStream # <<>> => \E p \in Pieces : atStream = <<p>>
    /\ \A b, c \in Pieces : Output!Running(b) /\ Output!Running(c) => b = c
    /\ \A b \in Pieces :
          /\ stage[b] = "writing" => atStream = <<b>>
          /\ stage[b] = "reading" => atStream = <<>>
          /\ atStream = <<b>> /\ stage[b] = "ended" => failed /\ flagClosed
          /\ InFlight(b) => flagWriting \/ flagClosed
    /\ \A t \in Output!Threads : Callback(t) =>
          /\ flagWriting \/ flagClosed
          /\ \A b \in Pieces : ~InFlight(b)
          /\ \A u \in Output!Threads : Callback(u) => u = t

\* Until something fails, what was sent, what is on its way and what is still to be
\* written are one row.
SentInv ==
    ~failed =>
        /\ \A i \in 1 .. Len(sent) : sent[i] = i
        /\ \A p \in Pieces : InFlight(p) => p = Len(sent) + 1 /\ RestFront = Len(sent) + 2
        /\ (\A p \in Pieces : ~InFlight(p)) => RestFront = Len(sent) + 1

\* Who tells the end has the lock, and finds nothing left.
EndInv ==
    \A t \in Output!Threads : threadPc[t] = "onEnd" /\ ~arg[t] =>
        /\ lock = t /\ ~flagWriting /\ ~flagClosed
        /\ elementWriting = NoElement /\ queueOutput = <<>>

\* Who closes a copy has the lock; what the copies are; and who can have a copy's lock
\* only when something failed.
CopiesInv ==
    /\ \A t \in Output!Threads : threadPc[t] = "copy->close" => lock = t /\ flagClosed /\ bodyCopy # NoBody
    /\ bodyCopy # NoBody => stage[bodyCopy] # "none"
    /\ creating # NoBody => stage[creating] = "ended"
    /\ threadPc[Body] # "outside" => failed
    /\ \A b \in Pieces : copyLock[b] \in Callers \cup {Body} => failed

OutputIInv == OutTypes /\ RowInv /\ WriterInv /\ SentInv /\ EndInv /\ CopiesInv

-----------------------------------------------------------------------------
\* The pieces are numbers.
LEMMA PiecesFacts ==
    /\ Pieces = 1 .. MaxPieces /\ MaxPieces \in Nat /\ NoBody = 0 /\ NoBody \notin Pieces
    /\ NoElement = [header |-> <<>>, body |-> NoBody]
    /\ Elements = [header : Seq(Pieces), body : Pieces \cup {NoBody}]
<1>1. MaxPieces \in Nat
  BY OutputAssumption DEF Output!ConstantsAssumption
<1> QED BY <1>1 DEF Pieces, NoBody, NoElement, Elements, Output!Pieces, Output!NoBody, Output!NoElement,
                    Output!Elements

\* A sequence is empty when its length is 0.
LEMMA EmptyLen ==
    ASSUME NEW S, NEW s \in Seq(S)
    PROVE  Len(s) \in Nat /\ (s = <<>> <=> Len(s) = 0)
BY EmptySeq

\* The first piece of a row, and the number that comes after it.
LEMMA RowFacts ==
    ASSUME NEW e \in Elements, Row(e)
    PROVE /\ FirstPiece(e) \in Pieces /\ AfterPiece(e) \in Nat /\ AfterPiece(e) > FirstPiece(e)
          /\ e.header = <<>> =>
                e.body \in Pieces /\ FirstPiece(e) = e.body /\ AfterPiece(e) = e.body + 1
          /\ e.header # <<>> => Head(e.header) = FirstPiece(e)
<1>1. e.header \in Seq(Pieces) /\ e.body \in Pieces \cup {NoBody} /\ Len(e.header) \in Nat
  BY PiecesFacts
<1>2. CASE e.header = <<>>
  <2>1. e.body # NoBody
    BY <1>1, <1>2, PiecesFacts DEF Row
  <2>2. Len(e.header) = 0
    BY <1>2
  <2> QED BY <1>1, <1>2, <2>1, <2>2, PiecesFacts DEF FirstPiece, AfterPiece
<1>3. CASE e.header # <<>>
  <2>1. Len(e.header) > 0 /\ e.header[1] \in Pieces /\ Head(e.header) = e.header[1]
    BY <1>1, <1>3
  <2> QED BY <1>1, <1>3, <2>1, PiecesFacts DEF FirstPiece, AfterPiece
<1> QED BY <1>2, <1>3

\* A row without its first piece of memory.
LEMMA RestOfRow ==
    ASSUME NEW e \in Elements, Row(e), e.header # <<>>,
           NEW f, f = [header |-> Tail(e.header), body |-> e.body]
    PROVE /\ f \in Elements
          /\ f = NoElement => AfterPiece(e) = FirstPiece(e) + 1
          /\ f # NoElement => Row(f) /\ FirstPiece(f) = FirstPiece(e) + 1 /\ AfterPiece(f) = AfterPiece(e)
<1> DEFINE s == e.header
           n == Len(s)
           r == Tail(s)
<1>1. s \in Seq(Pieces) /\ e.body \in Pieces \cup {NoBody} /\ n \in Nat /\ n > 0
  BY PiecesFacts
<1>2. /\ r \in Seq(Pieces) /\ Len(r) = n - 1
      /\ \A j \in 1 .. n - 1 : r[j] = s[j + 1]
  BY <1>1
<1>3. f = [header |-> r, body |-> e.body]
  BY PiecesFacts
<1>4. FirstPiece(e) = s[1] /\ s[1] \in Pieces
  BY <1>1 DEF FirstPiece
<1>5. /\ \A j \in 1 .. n : s[j] = s[1] + (j - 1)
      /\ e.body # NoBody => e.body = s[1] + n
  BY <1>4 DEF Row
<1>6. AfterPiece(e) = s[1] + n + (IF e.body = NoBody THEN 0 ELSE 1)
  BY <1>4 DEF AfterPiece
<1>7. f \in Elements
  BY <1>1, <1>2, <1>3, PiecesFacts
<1> HIDE DEF s, n, r
<1>8. CASE n = 1
  <2>1. r = <<>>
    BY <1>2, <1>8, EmptyLen
  <2>2. CASE e.body = NoBody
    BY <1>3, <1>4, <1>6, <1>7, <1>8, <2>1, <2>2, PiecesFacts
  <2>3. CASE e.body # NoBody
    <3>4. f.header = <<>> /\ f.body = e.body
      BY <1>3, <2>1
    <3>1. f # NoElement /\ FirstPiece(f) = e.body /\ Len(f.header) = 0 /\ f.body = e.body
      BY <2>3, <3>4, PiecesFacts DEF FirstPiece
    <3>5. e.body = s[1] + 1 /\ s[1] \in Nat
      BY <1>4, <1>5, <1>8, <2>3, PiecesFacts
    <3>2. FirstPiece(f) = s[1] + 1 /\ AfterPiece(f) = s[1] + 2
      <4>1. AfterPiece(f) = e.body + 0 + 1
        BY <2>3, <3>1 DEF AfterPiece
      <4> QED BY <3>1, <3>5, <4>1
    <3>3. Row(f)
      <4>1. f.body = FirstPiece(f) + Len(f.header)
        <5>1. e.body + 0 = e.body
          BY <3>5
        <5>2. FirstPiece(f) + Len(f.header) = e.body + 0
          BY <3>1, Zenon
        <5> QED BY <3>1, <5>1, <5>2, Zenon
      <4> QED BY <3>1, <4>1 DEF Row
    <3> QED BY <1>4, <1>6, <1>7, <1>8, <2>3, <3>1, <3>2, <3>3, PiecesFacts
  <2> QED BY <2>2, <2>3
<1>9. CASE n > 1
  <2>1. r # <<>> /\ r[1] = s[2] /\ s[2] = s[1] + 1
    <3>1. Len(r) # 0 /\ 1 \in 1 .. n - 1 /\ 2 \in 1 .. n
      BY <1>1, <1>2, <1>9
    <3>2. s[2] = s[1] + (2 - 1) /\ r[1] = s[1 + 1]
      BY <1>2, <1>5, <3>1
    <3> QED BY <1>2, <1>4, <3>1, <3>2, EmptyLen, PiecesFacts
  <2>2. f # NoElement /\ f.header = r /\ f.body = e.body
    BY <1>3, <2>1, PiecesFacts
  <2>3. FirstPiece(f) = s[1] + 1
    BY <2>1, <2>2 DEF FirstPiece
  <2>4. AfterPiece(f) = AfterPiece(e)
    <3>1. Len(f.header) = n - 1
      BY <1>2, <2>2
    <3>2. AfterPiece(f) = (s[1] + 1) + (n - 1) + (IF e.body = NoBody THEN 0 ELSE 1)
      BY <2>2, <2>3, <3>1, Zenon DEF AfterPiece
    <3>3. s[1] \in Nat
      BY <1>4, PiecesFacts
    <3> QED BY <1>1, <1>6, <3>2, <3>3
  <2>5. \A j \in 1 .. Len(f.header) : f.header[j] = FirstPiece(f) + (j - 1)
    <3> SUFFICES ASSUME NEW j \in 1 .. n - 1 PROVE s[j + 1] = s[1] + 1 + (j - 1)
      BY <1>2, <2>2, <2>3
    <3>1. j + 1 \in 1 .. n /\ j \in Int
      BY <1>1
    <3>2. s[j + 1] = s[1] + ((j + 1) - 1)
      BY <1>5, <3>1
    <3> QED BY <1>4, <3>1, <3>2, PiecesFacts
  <2>6. f.body # NoBody => f.body = FirstPiece(f) + Len(f.header)
    <3>1. Len(f.header) = n - 1
      BY <1>2, <2>2
    <3> QED BY <1>1, <1>4, <1>5, <2>2, <2>3, <3>1, PiecesFacts
  <2> QED BY <1>4, <1>7, <2>2, <2>3, <2>4, <2>5, <2>6 DEF Row
<1> QED BY <1>1, <1>8, <1>9

\* A queue without its first element.
LEMMA ChainTail ==
    ASSUME NEW q \in Seq(Elements), q # <<>>, NEW n \in Nat, Chain(q, n)
    PROVE /\ Tail(q) \in Seq(Elements) /\ Chain(Tail(q), n) /\ Head(q) = q[1] /\ q[1] \in Elements
          /\ Row(q[1]) /\ AfterPiece(q[1]) = FrontOf(Tail(q), n)
<1>1. Len(q) \in Nat /\ Len(q) > 0 /\ Head(q) = q[1] /\ q[1] \in Elements
  BY DEF Chain
<1>2. /\ Tail(q) \in Seq(Elements) /\ Len(Tail(q)) = Len(q) - 1
      /\ \A i \in 1 .. Len(q) - 1 : Tail(q)[i] = q[i + 1]
  BY <1>1
<1> DEFINE r == Tail(q)
<1>5. r \in Seq(Elements) /\ Len(r) = Len(q) - 1 /\ \A i \in 1 .. Len(q) - 1 : r[i] = q[i + 1]
  BY <1>2
<1> HIDE DEF r
<1>3. Chain(r, n)
  <2> SUFFICES ASSUME NEW i \in 1 .. Len(q) - 1
               PROVE  /\ Row(r[i])
                      /\ AfterPiece(r[i])
                             = IF i = Len(q) - 1 THEN n + 1 ELSE FirstPiece(r[i + 1])
    BY <1>5 DEF Chain
  <2>1. i + 1 \in 1 .. Len(q) /\ r[i] = q[i + 1] /\ (i = Len(q) - 1 <=> i + 1 = Len(q))
    BY <1>1, <1>5
  <2>2. i # Len(q) - 1 => r[i + 1] = q[i + 1 + 1]
    <3>1. i # Len(q) - 1 => i + 1 \in 1 .. Len(q) - 1
      BY <1>1
    <3> QED BY <1>5, <3>1
  <2> QED BY <2>1, <2>2 DEF Chain
<1>4. Row(q[1]) /\ AfterPiece(q[1]) = FrontOf(r, n)
  <2>1. 1 \in 1 .. Len(q)
    BY <1>1
  <2>2. CASE Len(q) = 1
    <3>1. r = <<>>
      BY <1>5, <2>2, EmptyLen
    <3> QED BY <2>1, <2>2, <3>1 DEF Chain, FrontOf
  <2>3. CASE Len(q) # 1
    <3>1. Len(r) # 0 /\ 1 \in 1 .. Len(q) - 1
      BY <1>1, <1>5, <2>3
    <3>2. r # <<>> /\ r[1] = q[1 + 1]
      BY <1>5, <3>1, EmptyLen
    <3> QED BY <2>1, <2>3, <3>2 DEF Chain, FrontOf
  <2> QED BY <2>2, <2>3
<1> QED BY <1>1, <1>2, <1>3, <1>4 DEF r

\* A queue with one more element.
LEMMA ChainAppend ==
    ASSUME NEW q \in Seq(Elements), NEW n \in Nat, NEW m \in Nat, Chain(q, n),
           NEW e \in Elements, Row(e), FirstPiece(e) = n + 1, AfterPiece(e) = m + 1
    PROVE /\ Append(q, e) \in Seq(Elements) /\ Chain(Append(q, e), m)
          /\ FrontOf(Append(q, e), m) = FrontOf(q, n)
<1> DEFINE k == Len(q)
           s == Append(q, e)
<1>1. k \in Nat /\ s \in Seq(Elements) /\ Len(s) = k + 1 /\ s[k + 1] = e /\ s # <<>>
      /\ \A i \in 1 .. k : s[i] = q[i]
  OBVIOUS
<1>2. FrontOf(s, m) = FrontOf(q, n)
  <2>1. CASE q = <<>>
    <3>1. s[1] = e
      BY <1>1, <2>1
    <3> QED BY <1>1, <2>1, <3>1 DEF FrontOf
  <2>2. CASE q # <<>>
    <3>1. s[1] = q[1]
      BY <1>1, <2>2
    <3> QED BY <1>1, <2>2, <3>1 DEF FrontOf
  <2> QED BY <2>1, <2>2
<1> HIDE DEF s
<1>3. Chain(s, m)
  <2> SUFFICES ASSUME NEW i \in 1 .. k + 1
               PROVE  Row(s[i]) /\ AfterPiece(s[i]) = IF i = k + 1 THEN m + 1 ELSE FirstPiece(s[i + 1])
    BY <1>1 DEF Chain
  <2>1. CASE i = k + 1
    BY <1>1, <2>1
  <2>2. CASE i = k
    BY <1>1, <2>2 DEF Chain
  <2>3. CASE i # k /\ i # k + 1
    <3>1. i \in 1 .. k /\ i + 1 \in 1 .. k
      BY <1>1, <2>3
    <3> QED BY <1>1, <2>3, <3>1 DEF Chain
  <2> QED BY <2>1, <2>2, <2>3
<1> QED BY <1>1, <1>2, <1>3 DEF s

\* A queue whose last element has more.
LEMMA ChainLast ==
    ASSUME NEW q \in Seq(Elements), q # <<>>, NEW n \in Nat, NEW m \in Nat, Chain(q, n),
           NEW e \in Elements, Row(e), FirstPiece(e) = FirstPiece(q[Len(q)]), AfterPiece(e) = m + 1,
           NEW s \in Seq(Elements), Len(s) = Len(q), s[Len(q)] = e,
           \A i \in 1 .. Len(q) : i # Len(q) => s[i] = q[i]
    PROVE Chain(s, m) /\ FrontOf(s, m) = FrontOf(q, n)
<1> DEFINE k == Len(q)
<1>1. /\ k \in Nat /\ k > 0 /\ Len(s) = k /\ s[k] = e /\ s # <<>>
      /\ \A i \in 1 .. k : i # k => s[i] = q[i]
  BY EmptyLen
<1> HIDE DEF k
<1>2. FrontOf(s, m) = FrontOf(q, n)
  <2>1. FirstPiece(s[1]) = FirstPiece(q[1])
    <3>1. CASE k = 1
      BY <1>1, <3>1
    <3>2. CASE k # 1
      <4>1. 1 \in 1 .. k
        BY <1>1
      <4> QED BY <1>1, <3>2, <4>1
    <3> QED BY <3>1, <3>2
  <2> QED BY <1>1, <2>1 DEF FrontOf
<1>3. Chain(s, m)
  <2> SUFFICES ASSUME NEW i \in 1 .. k
               PROVE  Row(s[i]) /\ AfterPiece(s[i]) = IF i = k THEN m + 1 ELSE FirstPiece(s[i + 1])
    BY <1>1 DEF Chain
  <2>1. CASE i = k
    BY <1>1, <2>1
  <2>2. CASE i # k
    <3>1. i + 1 \in 1 .. k /\ s[i] = q[i]
      BY <1>1, <2>2
    <3>2. FirstPiece(s[i + 1]) = FirstPiece(q[i + 1])
      <4>1. CASE i + 1 = k
        BY <1>1, <4>1
      <4>2. CASE i + 1 # k
        BY <1>1, <3>1, <4>2
      <4> QED BY <4>1, <4>2
    <3> QED BY <2>2, <3>1, <3>2 DEF Chain, k
  <2> QED BY <2>1, <2>2
<1> QED BY <1>2, <1>3

-----------------------------------------------------------------------------
\* The threads of the output.
LEMMA OutputThreads ==
    /\ Io \in Output!Threads /\ Body \in Output!Threads /\ Callers \subseteq Output!Threads
    /\ Nobody \notin Output!Threads /\ Body \notin Callers /\ Io \notin Callers /\ Io # Body
    /\ Output!Threads = Callers \cup {Io, Body}
BY OutputAssumption DEF Output!ConstantsAssumption, Output!Threads

\* What a step of t leaves of the other threads.
Moves(t) ==
    /\ threadPc' \in [Output!Threads -> Output!Steps] /\ arg' \in [Output!Threads -> BOOLEAN]
    /\ \A u \in Output!Threads : u # t => threadPc'[u] = threadPc[u] /\ arg'[u] = arg[u]

\* A thread goes on to another step.
LEMMA OutputGo ==
    ASSUME OutTypes, NEW t \in Output!Threads, NEW from, NEW to \in Output!Steps,
           NEW flag \in BOOLEAN, Output!Go(t, from, to, flag)
    PROVE  Moves(t) /\ threadPc[t] = from /\ threadPc'[t] = to /\ arg'[t] = flag
BY DEF OutTypes, Output!Go, Moves

\* A thread returns from all it has called, and gives its locks back.
LEMMA OutputLeave ==
    ASSUME OutTypes, NEW t \in Output!Threads, NEW c \in Pieces \cup {NoBody}, Output!Leave(t, c)
    PROVE  /\ Moves(t) /\ threadPc'[t] = "outside" /\ arg'[t] = FALSE
           /\ lock' \in Output!Threads \cup {Nobody} /\ (lock # t => lock' = lock)
           /\ copyLock' \in [Pieces -> Output!Threads \cup {Nobody}]
           /\ \A b \in Pieces : copyLock'[b] \in {copyLock[b], Nobody}
           /\ bodyCopy' \in Pieces \cup {NoBody} /\ creating' \in Pieces \cup {NoBody}
           /\ \/ bodyCopy' = c /\ creating' = creating
              \/ bodyCopy' = creating /\ creating' = NoBody /\ creating # NoBody /\ lock = t
<1>2. "outside" \in Output!Steps
  BY DEF Output!Steps
<1>3. /\ threadPc' = [threadPc EXCEPT ![t] = "outside"] /\ arg' = [arg EXCEPT ![t] = FALSE]
      /\ lock' = IF lock = t THEN Nobody ELSE lock
      /\ copyLock' = [b \in Pieces |-> IF copyLock[b] = t THEN Nobody ELSE copyLock[b]]
      /\ IF lock = t /\ creating # NoBody THEN bodyCopy' = creating /\ creating' = NoBody
                                          ELSE bodyCopy' = c /\ creating' = creating
  BY DEF Output!Leave, Pieces, NoBody
<1>4. Moves(t) /\ threadPc'[t] = "outside" /\ arg'[t] = FALSE
  BY <1>2, <1>3 DEF OutTypes, Moves
<1>5. /\ copyLock' \in [Pieces -> Output!Threads \cup {Nobody}]
      /\ \A b \in Pieces : copyLock'[b] \in {copyLock[b], Nobody}
  BY <1>3 DEF OutTypes
<1>6. lock' \in Output!Threads \cup {Nobody} /\ (lock # t => lock' = lock)
  BY <1>3 DEF OutTypes
<1>7. /\ bodyCopy' \in Pieces \cup {NoBody} /\ creating' \in Pieces \cup {NoBody}
      /\ \/ bodyCopy' = c /\ creating' = creating
         \/ bodyCopy' = creating /\ creating' = NoBody /\ creating # NoBody /\ lock = t
  BY <1>3 DEF OutTypes
<1> QED BY <1>4, <1>5, <1>6, <1>7

-----------------------------------------------------------------------------
\* The first piece that is to be written is a number.
LEMMA RestFrontFacts ==
    ASSUME OutTypes, RowInv
    PROVE  /\ pieces \in Nat /\ Len(queueOutput) \in Nat /\ Len(sent) \in Nat
           /\ RestFront \in Nat /\ FrontOf(queueOutput, pieces) \in Nat
           /\ queueOutput # <<>> => queueOutput[1] \in Elements /\ Row(queueOutput[1])
                                    /\ FrontOf(queueOutput, pieces) = FirstPiece(queueOutput[1])
           /\ \A b \in Pieces : stage[b] # "none" => b < RestFront
<1>1. pieces \in Nat /\ queueOutput \in Seq(Elements) /\ elementWriting \in Elements
      /\ Len(queueOutput) \in Nat /\ Len(sent) \in Nat
  BY PiecesFacts DEF OutTypes
<1>2. /\ FrontOf(queueOutput, pieces) \in Nat
      /\ queueOutput # <<>> => queueOutput[1] \in Elements /\ Row(queueOutput[1])
                               /\ FrontOf(queueOutput, pieces) = FirstPiece(queueOutput[1])
  <2>1. CASE queueOutput = <<>>
    BY <1>1, <2>1 DEF FrontOf
  <2>2. CASE queueOutput # <<>>
    <3>1. queueOutput[1] \in Elements /\ Row(queueOutput[1])
      BY <1>1, <2>2, ChainTail DEF RowInv
    <3>2. FirstPiece(queueOutput[1]) \in Nat
      BY <3>1, RowFacts, PiecesFacts
    <3> QED BY <2>2, <3>1, <3>2 DEF FrontOf
  <2> QED BY <2>1, <2>2
<1>3. RestFront \in Nat
  <2>1. CASE elementWriting = NoElement
    BY <1>2, <2>1 DEF RestFront
  <2>2. CASE elementWriting # NoElement
    <3>1. FirstPiece(elementWriting) \in Nat
      BY <1>1, <2>2, RowFacts, PiecesFacts DEF RowInv
    <3> QED BY <2>2, <3>1 DEF RestFront
  <2> QED BY <2>1, <2>2
<1>4. \A b \in Pieces : stage[b] # "none" => b < RestFront
  BY <1>3, PiecesFacts DEF RowInv
<1> QED BY <1>1, <1>2, <1>3, <1>4

\* What is still to be written does not depend on the stages of what was begun.
LEMMA RowKept ==
    ASSUME OutTypes, RowInv, UNCHANGED <<queueOutput, elementWriting, pieces>>,
           \A b \in Pieces : stage[b] = "none" => stage'[b] = "none",
           \A p \in Pieces : atStream' = <<p>> => atStream = <<p>> \/ stage[p] # "none"
    PROVE  RowInv' /\ RestFront' = RestFront
<1>1. RestFront' = RestFront
  BY DEF RestFront
<1> QED BY <1>1, RestFrontFacts DEF RowInv

\* Nothing is on its way while m_flagWriting is clear and the output is open.
LEMMA Quiet ==
    ASSUME OutTypes, WriterInv, ~flagWriting, ~flagClosed
    PROVE  /\ atStream = <<>> /\ \A b \in Pieces : ~InFlight(b) /\ ~Output!Running(b)
           /\ \A t \in Output!Threads : ~Callback(t)
BY DEF WriterInv, InFlight

\* What is on its way stays so when neither the stream nor the copies change.
LEMMA WriterKept ==
    ASSUME WriterInv, UNCHANGED <<atStream, stage>>, failed => failed', flagClosed => flagClosed',
           flagWriting => flagWriting' \/ flagClosed',
           \A t \in Output!Threads : Callback(t)' => Callback(t)
    PROVE  WriterInv'
BY DEF WriterInv, InFlight, Output!Running

\* What was sent is one row as long as neither it nor what is on its way changes.
LEMMA SentKept ==
    ASSUME SentInv, UNCHANGED <<sent, atStream, stage>>, RestFront' = RestFront, failed => failed'
    PROVE  SentInv'
BY DEF SentInv, InFlight, Output!Running

\* The thread that tells the end has the lock, which a step of another that changes what
\* it found would need.
LEMMA EndKept ==
    ASSUME OutTypes, EndInv, NEW t \in Output!Threads, Moves(t), threadPc'[t] = "onEnd" => arg'[t],
           \/ lock \in {Nobody, t}
           \/ /\ lock' = lock /\ flagClosed' = flagClosed /\ (flagWriting' => flagWriting)
              /\ UNCHANGED <<elementWriting, queueOutput>>
    PROVE  EndInv'
<1> SUFFICES ASSUME NEW u \in Output!Threads, threadPc'[u] = "onEnd", ~arg'[u]
             PROVE  /\ lock' = u /\ ~flagWriting' /\ ~flagClosed'
                    /\ elementWriting' = NoElement /\ queueOutput' = <<>>
  BY DEF EndInv
<1>1. u # t /\ threadPc[u] = "onEnd" /\ ~arg[u]
  BY DEF Moves
<1>2. /\ lock = u /\ ~flagWriting /\ ~flagClosed
      /\ elementWriting = NoElement /\ queueOutput = <<>>
  BY <1>1 DEF EndInv
<1> QED BY <1>1, <1>2, OutputThreads

-----------------------------------------------------------------------------
\* An element that gets one more piece of memory, or its body.
LEMMA Grown ==
    ASSUME NEW e \in Elements, Row(e), e.body = NoBody, NEW p \in Pieces, AfterPiece(e) = p,
           NEW f, f = [e EXCEPT !.header = Append(@, p)] \/ f = [e EXCEPT !.body = p]
    PROVE  f \in Elements /\ Row(f) /\ FirstPiece(f) = FirstPiece(e) /\ AfterPiece(f) = p + 1
<1> DEFINE s == e.header
           n == Len(s)
<1>1. s \in Seq(Pieces) /\ e = [header |-> s, body |-> NoBody] /\ n \in Nat /\ p \in Nat
  BY PiecesFacts
<1>2. s # <<>> /\ n > 0
  BY <1>1, PiecesFacts, EmptyLen DEF Row
<1>3. FirstPiece(e) = s[1] /\ s[1] \in Pieces /\ s[1] \in Nat /\ p = s[1] + n
  BY <1>1, <1>2, PiecesFacts DEF FirstPiece, AfterPiece
<1>4. \A j \in 1 .. n : s[j] = s[1] + (j - 1)
  BY <1>3 DEF Row
<1>5. CASE f = [e EXCEPT !.header = Append(@, p)]
  <2> DEFINE r == Append(s, p)
  <2>1. f = [header |-> r, body |-> NoBody]
    BY <1>1, <1>5
  <2>2. r \in Seq(Pieces) /\ Len(r) = n + 1 /\ r[n + 1] = p /\ r # <<>> /\ \A j \in 1 .. n : r[j] = s[j]
    BY <1>1
  <2>3. r[1] = s[1]
    BY <1>1, <1>2, <2>2
  <2> HIDE DEF r
  <2>4. FirstPiece(f) = s[1] /\ AfterPiece(f) = s[1] + (n + 1)
    BY <1>1, <1>3, <2>1, <2>2, <2>3, PiecesFacts DEF FirstPiece, AfterPiece
  <2>5. \A j \in 1 .. n + 1 : r[j] = s[1] + (j - 1)
    <3> SUFFICES ASSUME NEW j \in 1 .. n + 1 PROVE r[j] = s[1] + (j - 1)
      OBVIOUS
    <3>1. CASE j = n + 1
      BY <1>1, <1>3, <2>2, <3>1
    <3>2. CASE j # n + 1
      <4>1. j \in 1 .. n
        BY <1>1, <3>2
      <4> QED BY <1>4, <2>2, <4>1
    <3> QED BY <3>1, <3>2
  <2>6. f \in Elements /\ f # NoElement
    BY <2>1, <2>2, PiecesFacts
  <2>7. Row(f)
    <3>1. f.header = r /\ f.body = NoBody /\ FirstPiece(f) = s[1] /\ Len(r) = n + 1
      BY <2>1, <2>2, <2>4
    <3> QED BY <2>5, <2>6, <3>1 DEF Row
  <2>8. AfterPiece(f) = p + 1
    <3>1. s[1] \in Nat /\ n \in Nat /\ p = s[1] + n
      BY <1>1, <1>3
    <3> HIDE DEF s, n
    <3> QED BY <2>4, <3>1
  <2> QED BY <1>3, <2>4, <2>6, <2>7, <2>8
<1>6. CASE f = [e EXCEPT !.body = p]
  <2>1. f = [header |-> s, body |-> p]
    BY <1>1, <1>6
  <2>2. FirstPiece(f) = s[1] /\ AfterPiece(f) = s[1] + n + 1
    BY <1>2, <2>1, PiecesFacts DEF FirstPiece, AfterPiece
  <2>3. f \in Elements /\ f # NoElement
    BY <1>1, <2>1, PiecesFacts
  <2> QED BY <1>1, <1>3, <1>4, <2>1, <2>2, <2>3 DEF Row
<1> QED BY <1>5, <1>6

\* A new element, with one piece or with both.
LEMMA Made ==
    ASSUME NEW p \in Pieces
    PROVE  /\ LET e == [header |-> <<p>>, body |-> NoBody] IN
              e \in Elements /\ Row(e) /\ FirstPiece(e) = p /\ AfterPiece(e) = p + 1
           /\ LET e == [header |-> <<>>, body |-> p] IN
              e \in Elements /\ Row(e) /\ FirstPiece(e) = p /\ AfterPiece(e) = p + 1
           /\ LET e == [header |-> <<p>>, body |-> p + 1] IN
              p + 1 \in Pieces =>
                  e \in Elements /\ Row(e) /\ FirstPiece(e) = p /\ AfterPiece(e) = p + 2
<1>1. p \in Nat /\ p # NoBody /\ <<p>> \in Seq(Pieces) /\ <<>> \in Seq(Pieces) /\ Len(<<p>>) = 1
      /\ Len(<<>>) = 0 /\ <<p>>[1] = p /\ <<p>> # <<>>
  BY PiecesFacts
<1>2. LET e == [header |-> <<p>>, body |-> NoBody] IN
      e \in Elements /\ Row(e) /\ FirstPiece(e) = p /\ AfterPiece(e) = p + 1
  BY <1>1, PiecesFacts DEF Row, FirstPiece, AfterPiece
<1>3. LET e == [header |-> <<>>, body |-> p] IN
      e \in Elements /\ Row(e) /\ FirstPiece(e) = p /\ AfterPiece(e) = p + 1
  BY <1>1, PiecesFacts DEF Row, FirstPiece, AfterPiece
<1>4. ASSUME p + 1 \in Pieces
      PROVE LET e == [header |-> <<p>>, body |-> p + 1] IN
            e \in Elements /\ Row(e) /\ FirstPiece(e) = p /\ AfterPiece(e) = p + 2
  BY <1>1, <1>4, PiecesFacts DEF Row, FirstPiece, AfterPiece
<1> QED BY <1>2, <1>3, <1>4

\* What queueing does: the row becomes longer, and begins where it did.
LEMMA QueueMoves ==
    ASSUME OutTypes, RowInv, Output!Queueing
    PROVE  /\ queueOutput' \in Seq(Elements) /\ pieces' \in 0 .. MaxPieces /\ lock = Nobody
           /\ Chain(queueOutput', pieces')
           /\ FrontOf(queueOutput', pieces') = FrontOf(queueOutput, pieces)
           /\ UNCHANGED <<elementWriting, flagClosed, flagWriting, bodyCopy, creating, stage, lock, copyLock,
                          atStream, threadPc, arg, sent, failed>>
<1> DEFINE q == queueOutput
           k == Len(q)
           p == pieces + 1
<1>1. q \in Seq(Elements) /\ k \in Nat /\ pieces \in 0 .. MaxPieces /\ MaxPieces \in Nat /\ Chain(q, pieces)
  BY PiecesFacts DEF OutTypes, RowInv
<1>2. CASE Output!Write \/ Output!CopyFrom
  <2>1. pieces' = p /\ p \in Pieces /\ lock = Nobody
    BY <1>1, <1>2, PiecesFacts DEF NoBody, Output!Write, Output!CopyFrom
  <2>2. UNCHANGED <<elementWriting, flagClosed, flagWriting, bodyCopy, creating, stage, lock, copyLock,
                    atStream, threadPc, arg, sent, failed>>
    BY <1>2 DEF Output!Write, Output!CopyFrom, Output!copies, Output!locks, Output!threads, Output!history
  <2>3. p \in Nat /\ pieces \in Nat /\ p \in 0 .. MaxPieces
    BY <1>1, <2>1, PiecesFacts
  <2>4. CASE k > 0 /\ q[k].body = NoBody
    <3> DEFINE e == q[k]
    <3>1. e \in Elements /\ Row(e) /\ AfterPiece(e) = p /\ q # <<>>
      BY <1>1, <2>4 DEF Chain
    <3>2. PICK f \in {[e EXCEPT !.header = Append(@, p)], [e EXCEPT !.body = p]} : q' = [q EXCEPT ![k] = f]
      BY <1>2, <2>4, PiecesFacts DEF NoBody, Output!Write, Output!CopyFrom
    <3>3. f \in Elements /\ Row(f) /\ FirstPiece(f) = FirstPiece(e) /\ AfterPiece(f) = p + 1
      BY <2>1, <2>4, <3>1, Grown
    <3> DEFINE r == q'
    <3>4. /\ r \in Seq(Elements) /\ Len(r) = k /\ r[k] = f /\ k \in 1 .. k
          /\ \A i \in 1 .. k : i # k => r[i] = q[i]
      BY <1>1, <2>4, <3>2, <3>3
    <3>5. e = q[k] /\ FirstPiece(f) = FirstPiece(q[k])
      BY <3>3
    <3> HIDE DEF q, k, r, e
    <3>6. Chain(r, p) /\ FrontOf(r, p) = FrontOf(q, pieces)
      BY <1>1, <2>3, <3>1, <3>3, <3>4, <3>5, ChainLast DEF k
    <3> QED BY <2>1, <2>2, <2>3, <3>4, <3>6 DEF q, r
  <2>5. CASE ~(k > 0 /\ q[k].body = NoBody)
    <3>1. PICK f \in {[header |-> <<p>>, body |-> NoBody], [header |-> <<>>, body |-> p]} : q' = Append(q, f)
      BY <1>2, <2>5, PiecesFacts DEF NoBody, Output!Write, Output!CopyFrom
    <3>2. f \in Elements /\ Row(f) /\ FirstPiece(f) = pieces + 1 /\ AfterPiece(f) = p + 1
      BY <2>1, Made
    <3> HIDE DEF q, p, k
    <3> QED BY <1>1, <2>1, <2>2, <2>3, <3>1, <3>2, ChainAppend DEF q
  <2> QED BY <2>4, <2>5
<1>3. CASE Output!MergeBuffer
  <2> DEFINE f == [header |-> <<p>>, body |-> p + 1]
  <2>1. pieces' = p + 1 /\ p \in Pieces /\ p + 1 \in Pieces /\ lock = Nobody /\ p \in Nat /\ pieces \in Nat
        /\ p + 1 \in 0 .. MaxPieces
    BY <1>1, <1>3, PiecesFacts DEF Output!MergeBuffer
  <2>2. UNCHANGED <<elementWriting, flagClosed, flagWriting, bodyCopy, creating, stage, lock, copyLock,
                    atStream, threadPc, arg, sent, failed>>
    BY <1>3 DEF Output!MergeBuffer, Output!copies, Output!locks, Output!threads, Output!history
  <2>3. q' = Append(q, f)
    BY <1>1, <1>3 DEF Output!MergeBuffer
  <2>4. f \in Elements /\ Row(f) /\ FirstPiece(f) = pieces + 1 /\ AfterPiece(f) = (p + 1) + 1
    <3> HIDE DEF p
    <3>1. f \in Elements /\ Row(f) /\ FirstPiece(f) = p /\ AfterPiece(f) = p + 2
      BY <2>1, Made
    <3> QED BY <2>1, <3>1 DEF p
  <2> HIDE DEF q, p, k, f
  <2> QED BY <1>1, <2>1, <2>2, <2>3, <2>4, ChainAppend DEF q
<1> QED BY <1>2, <1>3 DEF Output!Queueing

\* What the program queues goes to the end of the row.
LEMMA QueueingStep ==
    ASSUME OutputIInv, Output!Queueing
    PROVE  OutputIInv'
<1> USE DEF OutputIInv
<1>1. /\ queueOutput' \in Seq(Elements) /\ pieces' \in 0 .. MaxPieces /\ lock = Nobody
      /\ Chain(queueOutput', pieces')
      /\ FrontOf(queueOutput', pieces') = FrontOf(queueOutput, pieces)
      /\ UNCHANGED <<elementWriting, flagClosed, flagWriting, bodyCopy, creating, stage, lock, copyLock,
                     atStream, threadPc, arg, sent, failed>>
  BY QueueMoves
<1>2. OutTypes'
  BY <1>1 DEF OutTypes
<1>3. RestFront' = RestFront
  BY <1>1 DEF RestFront
<1>4. RowInv'
  BY <1>1, <1>3 DEF RowInv
<1>5. WriterInv'
  BY <1>1, WriterKept DEF Callback
<1>6. SentInv'
  BY <1>1, <1>3, SentKept
<1>7. EndInv'
  BY <1>1, OutputThreads DEF EndInv
<1>8. CopiesInv'
  BY <1>1 DEF CopiesInv
<1> QED BY <1>2, <1>4, <1>5, <1>6, <1>7, <1>8

-----------------------------------------------------------------------------
\* The copies and their locks, when no thread begins to close one but with the lock, and
\* nothing that ended begins again.
LEMMA CopiesKept ==
    ASSUME OutTypes, CopiesInv, NEW t \in Output!Threads, Moves(t),
           threadPc[t] # "outside" \/ t \in Callers, failed => failed', flagClosed => flagClosed',
           threadPc'[t] = "copy->close" => lock' = t /\ flagClosed' /\ bodyCopy' # NoBody,
           lock \in {Nobody, t} \/ (lock' = lock /\ bodyCopy' = bodyCopy),
           bodyCopy' # NoBody => stage'[bodyCopy'] # "none",
           creating' # NoBody => stage'[creating'] = "ended",
           \A b \in Pieces : copyLock'[b] \in {copyLock[b], Nobody} \/ failed'
    PROVE  CopiesInv'
<1>1. \A u \in Output!Threads : threadPc'[u] = "copy->close" =>
          lock' = u /\ flagClosed' /\ bodyCopy' # NoBody
  <2> SUFFICES ASSUME NEW u \in Output!Threads, threadPc'[u] = "copy->close", u # t
               PROVE  lock' = u /\ flagClosed' /\ bodyCopy' # NoBody
    OBVIOUS
  <2>1. threadPc[u] = "copy->close"
    BY DEF Moves
  <2>2. lock = u /\ flagClosed /\ bodyCopy # NoBody
    BY <2>1 DEF CopiesInv
  <2> QED BY <2>2, OutputThreads
<1>2. threadPc'[Body] # "outside" => failed'
  <2>1. threadPc'[Body] # "outside" => threadPc[Body] # "outside"
    BY OutputThreads DEF Moves
  <2> QED BY <2>1 DEF CopiesInv
<1>3. \A b \in Pieces : copyLock'[b] \in Callers \cup {Body} => failed'
  BY OutputThreads DEF CopiesInv
<1> QED BY <1>1, <1>2, <1>3 DEF CopiesInv

-----------------------------------------------------------------------------
\* The steps that change only where threads are and what they have: _write() that has
\* nothing to do, a call, a return, and close() up to the copy's.
Calls(t) ==
    \/ Output!StartWriting(t) \/ Output!WriteNothing(t) \/ Output!WriteComplete(t) \/ Output!OnEnd(t)
    \/ Output!CallClose(t) \/ Output!Close(t)

\* What those steps change.
LEMMA CallMoves ==
    ASSUME OutTypes, NEW t \in Output!Threads, Calls(t)
    PROVE  /\ UNCHANGED <<queueOutput, elementWriting, flagWriting, stage, atStream, pieces, sent, failed>>
           /\ Moves(t) /\ (threadPc[t] # "outside" \/ t \in Callers)
           /\ threadPc'[t] \in {"outside", "_write", "onEnd", "close", "copy->close"}
           /\ flagClosed' \in BOOLEAN /\ lock' \in Output!Threads \cup {Nobody}
           /\ copyLock' \in [Pieces -> Output!Threads \cup {Nobody}]
           /\ \A b \in Pieces : copyLock'[b] \in {copyLock[b], Nobody}
           /\ bodyCopy' \in Pieces \cup {NoBody} /\ creating' \in Pieces \cup {NoBody}
           /\ \/ bodyCopy' = bodyCopy /\ creating' = creating
              \/ bodyCopy' = creating /\ creating' = NoBody /\ creating # NoBody /\ lock = t
           /\ threadPc'[t] = "onEnd" =>
                 /\ ~arg'[t] /\ lock \in {Nobody, t} /\ lock' = t /\ ~flagClosed /\ ~flagWriting
                 /\ flagClosed' = flagClosed /\ Output!Current = NoElement
           /\ threadPc'[t] = "copy->close" => lock' = t /\ flagClosed' /\ bodyCopy' # NoBody
           /\ flagClosed => flagClosed'
           /\ lock \in {Nobody, t} \/ (lock' = lock /\ flagClosed' = flagClosed)
<1> USE DEF Output!output, Output!copies, Output!locks, Output!threads, Output!history, Output!Free
<1>1. {"outside", "_write", "onEnd", "close", "copy->close"} \subseteq Output!Steps
  BY DEF Output!Steps
<1>2. CASE Output!StartWriting(t)
  <2>1. Moves(t) /\ threadPc'[t] = "_write"
    BY <1>1, <1>2, OutputGo DEF Output!StartWriting
  <2> QED BY <1>2, <2>1 DEF Output!StartWriting, OutTypes
<1>3. CASE Output!CallClose(t)
  <2>1. Moves(t) /\ threadPc'[t] = "close"
    BY <1>1, <1>3, OutputGo DEF Output!CallClose
  <2> QED BY <1>3, <2>1 DEF Output!CallClose, OutTypes
<1>4. CASE Output!WriteNothing(t)
  <2>1. /\ Output!Leave(t, bodyCopy) /\ threadPc[t] = "_write"
        /\ UNCHANGED <<queueOutput, elementWriting, flagWriting, flagClosed, stage, atStream, pieces, sent, failed>>
    BY <1>4 DEF Output!WriteNothing
  <2> QED BY <2>1, OutputLeave DEF OutTypes
<1>5. CASE Output!WriteComplete(t)
  <2>1. Moves(t) /\ threadPc[t] = "_write" /\ threadPc'[t] = "onEnd" /\ ~arg'[t]
    BY <1>1, <1>5, OutputGo DEF Output!WriteComplete
  <2>2. Output!Current = NoElement
    BY <1>5 DEF Output!WriteComplete, NoElement
  <2> QED BY <1>5, <2>1, <2>2 DEF Output!WriteComplete, OutTypes
<1>6. CASE Output!OnEnd(t)
  <2>1. /\ threadPc[t] = "onEnd"
        /\ UNCHANGED <<queueOutput, elementWriting, flagWriting, flagClosed, stage, atStream, pieces, sent, failed>>
    BY <1>6 DEF Output!OnEnd
  <2>2. CASE Output!Leave(t, bodyCopy)
    BY <2>1, <2>2, OutputLeave DEF OutTypes
  <2>3. CASE Output!Go(t, "onEnd", "close", FALSE) /\ UNCHANGED <<bodyCopy, creating, lock, copyLock>>
    <3>1. Moves(t) /\ threadPc'[t] = "close"
      BY <1>1, <2>3, OutputGo
    <3> QED BY <2>1, <2>3, <3>1 DEF OutTypes
  <2> QED BY <1>6, <2>2, <2>3 DEF Output!OnEnd
<1>7. CASE Output!Close(t)
  <2>1. /\ threadPc[t] = "close" /\ lock \in {Nobody, t} /\ flagClosed' = TRUE
        /\ UNCHANGED <<queueOutput, elementWriting, flagWriting, stage, atStream, pieces, sent, failed>>
    BY <1>7 DEF Output!Close
  <2>2. CASE Output!Leave(t, bodyCopy)
    BY <2>1, <2>2, OutputLeave DEF OutTypes
  <2>3. CASE /\ ~(flagClosed \/ bodyCopy = NoBody)
             /\ Output!Go(t, "close", "copy->close", FALSE) /\ lock' = t
             /\ UNCHANGED <<bodyCopy, creating, copyLock>>
    <3>1. Moves(t) /\ threadPc'[t] = "copy->close"
      BY <1>1, <2>3, OutputGo
    <3> QED BY <2>1, <2>3, <3>1 DEF OutTypes
  <2> QED BY <1>7, <2>2, <2>3 DEF Output!Close, NoBody
<1> QED BY <1>2, <1>3, <1>4, <1>5, <1>6, <1>7 DEF Calls

\* There is no element to go on with only when none is left.
LEMMA NoneLeft ==
    ASSUME OutTypes, RowInv, Output!Current = NoElement
    PROVE  elementWriting = NoElement /\ queueOutput = <<>>
<1>1. queueOutput # <<>> => Head(queueOutput) # NoElement
  BY ChainTail, RestFrontFacts DEF OutTypes, RowInv, Row
<1> QED BY <1>1 DEF Output!Current, NoElement

\* Those steps keep the invariant: one tells the end only when it finds nothing left.
LEMMA CallsStep ==
    ASSUME OutputIInv, NEW t \in Output!Threads, Calls(t)
    PROVE  OutputIInv'
<1> USE DEF OutputIInv
<1>1. /\ UNCHANGED <<queueOutput, elementWriting, flagWriting, stage, atStream, pieces, sent, failed>>
      /\ Moves(t) /\ (threadPc[t] # "outside" \/ t \in Callers)
      /\ threadPc'[t] \in {"outside", "_write", "onEnd", "close", "copy->close"}
      /\ flagClosed => flagClosed'
      /\ lock \in {Nobody, t} \/ (lock' = lock /\ flagClosed' = flagClosed)
  BY CallMoves
<1>2. OutTypes'
  BY CallMoves DEF OutTypes, Moves
<1>3. RowInv' /\ RestFront' = RestFront
  BY <1>1, RowKept
<1>4. WriterInv'
  <2>1. \A u \in Output!Threads : Callback(u)' => Callback(u)
    BY <1>1 DEF Callback, Moves
  <2> QED BY <1>1, <2>1, WriterKept
<1>5. SentInv'
  BY <1>1, <1>3, SentKept
<1>6. EndInv'
  <2>1. CASE threadPc'[t] # "onEnd"
    BY <1>1, <2>1, EndKept
  <2>2. CASE threadPc'[t] = "onEnd"
    <3>1. /\ lock \in {Nobody, t} /\ lock' = t /\ ~flagClosed /\ ~flagWriting
          /\ flagClosed' = flagClosed /\ Output!Current = NoElement
      BY <2>2, CallMoves
    <3>2. elementWriting = NoElement /\ queueOutput = <<>>
      BY <3>1, NoneLeft
    <3>3. \A u \in Output!Threads : threadPc'[u] = "onEnd" /\ ~arg'[u] => u = t
      BY <1>1, <3>1, OutputThreads DEF EndInv, Moves
    <3> QED BY <1>1, <3>1, <3>2, <3>3 DEF EndInv
  <2> QED BY <2>1, <2>2
<1>7. CopiesInv'
  <2>1. /\ threadPc'[t] = "copy->close" => lock' = t /\ flagClosed' /\ bodyCopy' # NoBody
        /\ \A b \in Pieces : copyLock'[b] \in {copyLock[b], Nobody}
        /\ \/ bodyCopy' = bodyCopy /\ creating' = creating
           \/ bodyCopy' = creating /\ creating' = NoBody /\ creating # NoBody /\ lock = t
    BY CallMoves
  <2>2. /\ bodyCopy' # NoBody => stage'[bodyCopy'] # "none"
        /\ creating' # NoBody => stage'[creating'] = "ended"
    BY <1>1, <2>1 DEF CopiesInv
  <2> QED BY <1>1, <2>1, <2>2, CopiesKept
<1> QED BY <1>2, <1>3, <1>4, <1>5, <1>6, <1>7

-----------------------------------------------------------------------------
\* The element to go on with, and those behind it.
LEMMA CurrentFacts ==
    ASSUME OutTypes, RowInv, Output!Current # NoElement
    PROVE  /\ Output!Current \in Elements /\ Row(Output!Current)
           /\ FirstPiece(Output!Current) = RestFront
           /\ Output!Behind \in Seq(Elements) /\ Chain(Output!Behind, pieces)
           /\ AfterPiece(Output!Current) = FrontOf(Output!Behind, pieces)
<1>1. queueOutput \in Seq(Elements) /\ elementWriting \in Elements /\ pieces \in Nat /\ Chain(queueOutput, pieces)
  BY RestFrontFacts DEF OutTypes, RowInv
<1>2. CASE elementWriting # NoElement
  <2>1. Output!Current = elementWriting /\ Output!Behind = queueOutput
    BY <1>2 DEF Output!Current, Output!Behind, NoElement
  <2> QED BY <1>1, <1>2, <2>1 DEF RowInv, RestFront
<1>3. CASE elementWriting = NoElement
  <2>1. queueOutput # <<>>
    BY <1>3 DEF Output!Current
  <2>2. Output!Current = Head(queueOutput) /\ Output!Behind = Tail(queueOutput)
    BY <1>3, <2>1 DEF Output!Current, Output!Behind, NoElement
  <2>3. RestFront = FirstPiece(queueOutput[1])
    BY <1>3, <2>1 DEF RestFront, FrontOf
  <2> QED BY <1>1, <2>1, <2>2, <2>3, ChainTail
<1> QED BY <1>2, <1>3

\* What _write() finds before it writes.
LEMMA WriteFinds ==
    ASSUME OutputIInv, NEW t \in Output!Threads, Output!WriteHeader(t) \/ Output!WriteBody(t)
    PROVE  /\ lock \in {Nobody, t} /\ ~flagClosed /\ ~flagWriting /\ threadPc[t] = "_write"
           /\ flagClosed' = flagClosed /\ queueOutput' = Output!Behind /\ pieces' = pieces
           /\ Output!Current # NoElement /\ Output!Current \in Elements /\ Row(Output!Current)
           /\ FirstPiece(Output!Current) = RestFront /\ RestFront \in Pieces
           /\ Output!Behind \in Seq(Elements) /\ Chain(Output!Behind, pieces)
           /\ AfterPiece(Output!Current) = FrontOf(Output!Behind, pieces)
           /\ atStream = <<>> /\ stage[RestFront] = "none"
           /\ \A b \in Pieces : ~InFlight(b) /\ ~Output!Running(b)
           /\ \A u \in Output!Threads : ~Callback(u)
           /\ ~failed => RestFront = Len(sent) + 1
<1> USE DEF OutputIInv
<1>1. /\ lock \in {Nobody, t} /\ ~flagClosed /\ ~flagWriting /\ threadPc[t] = "_write"
      /\ flagClosed' = flagClosed /\ queueOutput' = Output!Behind /\ pieces' = pieces
  BY DEF Output!WriteHeader, Output!WriteBody, Output!Free
<1>2. Output!Current # NoElement
  <2>1. Output!Current.header # <<>> \/ Output!Current.body # NoBody
    BY DEF Output!WriteHeader, Output!WriteBody, NoBody
  <2> QED BY <2>1, PiecesFacts
<1>3. /\ Output!Current \in Elements /\ Row(Output!Current)
      /\ FirstPiece(Output!Current) = RestFront
      /\ Output!Behind \in Seq(Elements) /\ Chain(Output!Behind, pieces)
      /\ AfterPiece(Output!Current) = FrontOf(Output!Behind, pieces)
  BY <1>2, CurrentFacts
<1>4. RestFront \in Pieces
  BY <1>3, RowFacts
<1>5. /\ atStream = <<>> /\ \A b \in Pieces : ~InFlight(b) /\ ~Output!Running(b)
      /\ \A u \in Output!Threads : ~Callback(u)
  BY <1>1, Quiet
<1>6. stage[RestFront] = "none"
  BY <1>4, PiecesFacts DEF RowInv
<1>7. ~failed => RestFront = Len(sent) + 1
  BY <1>5 DEF SentInv
<1> QED BY <1>1, <1>2, <1>3, <1>4, <1>5, <1>6, <1>7

\* A step that takes the first piece that is to be written, and hands it to the stream or
\* to a copy, or fails.
LEMMA TakeStep ==
    ASSUME OutputIInv, NEW t \in Output!Threads,
           Moves(t), threadPc[t] = "_write", lock \in {Nobody, t}, ~flagClosed, ~flagWriting,
           flagClosed' = flagClosed, pieces' = pieces,
           \A b \in Pieces : ~InFlight(b) /\ ~Output!Running(b),
           \A u \in Output!Threads : ~Callback(u),
           atStream = <<>>, ~failed => RestFront = Len(sent) + 1, stage[RestFront] = "none",
           NEW p \in Pieces, p = RestFront, RestFront' = p + 1,
           queueOutput' \in Seq(Elements), elementWriting' \in Elements, Chain(queueOutput', pieces),
           elementWriting' # NoElement =>
               Row(elementWriting') /\ AfterPiece(elementWriting') = FrontOf(queueOutput', pieces),
           bodyCopy' \in Pieces \cup {NoBody}, creating' \in Pieces \cup {NoBody},
           lock' \in Output!Threads \cup {Nobody}, copyLock' \in [Pieces -> Output!Threads \cup {Nobody}],
           \A b \in Pieces : copyLock'[b] \in {copyLock[b], Nobody},
           bodyCopy' # NoBody => stage'[bodyCopy'] # "none",
           creating' # NoBody => stage'[creating'] = "ended",
           threadPc'[t] \in {"outside", "onEnd"}, threadPc'[t] = "onEnd" => arg'[t],
           sent' = sent,
           \/ /\ flagWriting' = TRUE /\ atStream' = <<p>> /\ stage' = stage /\ failed' = failed
           \/ /\ flagWriting' = TRUE /\ atStream' = <<>> /\ stage' = [stage EXCEPT ![p] = "reading"]
              /\ failed' = failed
           \/ /\ flagWriting' = flagWriting /\ atStream' = <<>> /\ failed' = TRUE
              /\ stage' \in {stage, [stage EXCEPT ![p] = "ended"]}
    PROVE  OutputIInv'
<1> USE DEF OutputIInv
<1>0. stage \in [Pieces -> {"none", "reading", "writing", "ended"}] /\ p \in Nat /\ Len(sent) \in Nat
      /\ atStream' \in Seq(Pieces) /\ p # NoBody /\ (atStream' = <<>> \/ atStream' = <<p>>)
  <2>1. stage \in [Pieces -> {"none", "reading", "writing", "ended"}] /\ p \in Nat /\ p # NoBody
    BY PiecesFacts DEF OutTypes
  <2>2. <<>> \in Seq(Pieces) /\ <<p>> \in Seq(Pieces)
    OBVIOUS
  <2>3. atStream' = <<>> \/ atStream' = <<p>>
    OBVIOUS
  <2> QED BY <2>1, <2>2, <2>3, RestFrontFacts
<1>1. /\ stage' \in [Pieces -> {"none", "reading", "writing", "ended"}]
      /\ \A b \in Pieces : b # p => stage'[b] = stage[b]
      /\ stage'[p] \in {"none", "reading", "ended"}
  BY <1>0
<1>2. OutTypes'
  BY <1>0, <1>1 DEF OutTypes, Moves
<1>3. RowInv'
  <2>1. \A b \in Pieces : b >= p + 1 => stage'[b] = "none"
    <3> SUFFICES ASSUME NEW b \in Pieces, b >= p + 1 PROVE stage[b] = "none" /\ b # p
      BY <1>1
    <3>1. b >= RestFront /\ b # p
      BY <1>0, PiecesFacts
    <3> QED BY <3>1 DEF RowInv
  <2>2. \A b \in Pieces : atStream' = <<b>> => b < p + 1
    BY <1>0
  <2> QED BY <2>1, <2>2 DEF RowInv
<1>4. \A b \in Pieces : /\ InFlight(b)' <=> b = p /\ flagWriting'
                        /\ Output!Running(b)' => b = p /\ flagWriting'
  <2> SUFFICES ASSUME NEW b \in Pieces
               PROVE /\ InFlight(b)' <=> b = p /\ flagWriting'
                     /\ Output!Running(b)' => b = p /\ flagWriting'
    OBVIOUS
  <2>1. stage[b] \notin {"reading", "writing"} /\ stage[p] = "none" /\ ~flagWriting
    BY DEF Output!Running
  <2>2. <<b>> # <<>> /\ (<<p>> = <<b>> <=> b = p)
    OBVIOUS
  <2>3. CASE flagWriting' = TRUE /\ atStream' = <<p>> /\ stage' = stage
    BY <2>1, <2>2, <2>3 DEF InFlight, Output!Running
  <2>4. CASE flagWriting' = TRUE /\ atStream' = <<>> /\ stage' = [stage EXCEPT ![p] = "reading"]
    <3>1. stage'[b] = IF b = p THEN "reading" ELSE stage[b]
      BY <1>0, <2>4
    <3> QED BY <2>1, <2>2, <2>4, <3>1 DEF InFlight, Output!Running
  <2>5. CASE flagWriting' = flagWriting /\ atStream' = <<>> /\ stage' \in {stage, [stage EXCEPT ![p] = "ended"]}
    <3>1. stage'[b] \in {stage[b], "ended"}
      BY <1>0, <2>5
    <3> QED BY <2>1, <2>2, <2>5, <3>1 DEF InFlight, Output!Running
  <2> QED BY <2>3, <2>4, <2>5
<1>5. WriterInv'
  <2>1. \A u \in Output!Threads : ~Callback(u)'
    BY DEF Callback, Moves
  <2>2. atStream' # <<>> => \E q \in Pieces : atStream' = <<q>>
    OBVIOUS
  <2>3. \A b \in Pieces :
           /\ stage'[b] # "writing"
           /\ stage'[b] = "reading" => atStream' = <<>>
           /\ atStream' = <<b>> => stage'[b] # "ended"
           /\ InFlight(b)' => flagWriting'
    <3> SUFFICES ASSUME NEW b \in Pieces
                 PROVE  /\ stage'[b] # "writing"
                        /\ stage'[b] = "reading" => atStream' = <<>>
                        /\ atStream' = <<b>> => stage'[b] # "ended"
                        /\ InFlight(b)' => flagWriting'
      OBVIOUS
    <3>1. stage[b] \notin {"reading", "writing"} /\ stage[p] = "none"
      BY DEF Output!Running
    <3>2. atStream' = <<b>> => b = p /\ stage' = stage
      BY <1>0
    <3> QED BY <1>0, <1>1, <1>4, <3>1, <3>2
  <2> QED BY <1>4, <2>1, <2>2, <2>3 DEF WriterInv
<1>6. SentInv'
  <2> SUFFICES ASSUME ~failed'
               PROVE /\ \A i \in 1 .. Len(sent) : sent[i] = i
                     /\ \A b \in Pieces : InFlight(b)' => b = Len(sent) + 1 /\ p + 1 = Len(sent) + 2
                     /\ (\A b \in Pieces : ~InFlight(b)') => p + 1 = Len(sent) + 1
    BY DEF SentInv
  <2>1. ~failed /\ flagWriting' /\ p = Len(sent) + 1
    OBVIOUS
  <2>2. InFlight(p)'
    BY <1>4, <2>1
  <2> QED BY <1>0, <1>4, <2>1, <2>2 DEF SentInv
<1>7. EndInv'
  BY EndKept
<1>8. CopiesInv'
  BY CopiesKept
<1> QED BY <1>2, <1>3, <1>5, <1>6, <1>7, <1>8

\* The first piece of a header goes to the stream, or the stream refuses it.
LEMMA WriteHeaderStep ==
    ASSUME OutputIInv, NEW t \in Output!Threads, Output!WriteHeader(t)
    PROVE  OutputIInv'
<1> DEFINE e == Output!Current
           p == RestFront
           f == elementWriting'
<1> USE DEF OutputIInv
<1>1. /\ lock \in {Nobody, t} /\ ~flagClosed /\ ~flagWriting /\ threadPc[t] = "_write"
      /\ flagClosed' = flagClosed /\ queueOutput' = Output!Behind /\ pieces' = pieces
      /\ e \in Elements /\ Row(e) /\ FirstPiece(e) = p /\ p \in Pieces
      /\ Output!Behind \in Seq(Elements) /\ Chain(Output!Behind, pieces)
      /\ AfterPiece(e) = FrontOf(Output!Behind, pieces)
      /\ atStream = <<>> /\ stage[p] = "none"
      /\ \A b \in Pieces : ~InFlight(b) /\ ~Output!Running(b)
      /\ \A u \in Output!Threads : ~Callback(u)
      /\ ~failed => p = Len(sent) + 1
  BY WriteFinds
<1>2. /\ e.header # <<>> /\ f = [e EXCEPT !.header = Tail(@)] /\ stage' = stage
      /\ \/ /\ flagWriting' = TRUE /\ atStream' = Append(atStream, Head(e.header))
            /\ Output!Leave(t, bodyCopy) /\ sent' = sent /\ failed' = failed
         \/ /\ Output!Go(t, "_write", "onEnd", TRUE) /\ lock' = t /\ failed' = TRUE
            /\ UNCHANGED <<flagWriting, atStream, bodyCopy, creating, copyLock, sent>>
  BY DEF Output!WriteHeader, Output!history
<1>3. f = [header |-> Tail(e.header), body |-> e.body] /\ Head(e.header) = p
  BY <1>1, <1>2, RowFacts, PiecesFacts
<1>4. /\ f \in Elements
      /\ f = NoElement => AfterPiece(e) = p + 1
      /\ f # NoElement => Row(f) /\ FirstPiece(f) = p + 1 /\ AfterPiece(f) = AfterPiece(e)
  <2>1. /\ e \in Elements /\ Row(e) /\ e.header # <<>> /\ FirstPiece(e) = p
        /\ f = [header |-> Tail(e.header), body |-> e.body]
    BY <1>1, <1>2, <1>3
  <2> HIDE DEF e, p, f
  <2> QED BY <2>1, RestOfRow
<1>5. RestFront' = p + 1
  <2>1. RestFront' = IF f = NoElement THEN FrontOf(queueOutput', pieces') ELSE FirstPiece(f)
    BY DEF RestFront
  <2> QED BY <1>1, <1>4, <2>1
<1>6. "onEnd" \in Output!Steps /\ "outside" \in Output!Steps /\ atStream \in Seq(Pieces)
  BY DEF Output!Steps, OutTypes
<1>7. CASE /\ flagWriting' = TRUE /\ atStream' = Append(atStream, Head(e.header))
           /\ Output!Leave(t, bodyCopy) /\ sent' = sent /\ failed' = failed
  <2>1. atStream' = <<p>>
    BY <1>1, <1>3, <1>7
  <2>2. bodyCopy \in Pieces \cup {NoBody}
    BY DEF OutTypes
  <2>3. /\ Moves(t) /\ threadPc'[t] = "outside" /\ lock' \in Output!Threads \cup {Nobody}
        /\ copyLock' \in [Pieces -> Output!Threads \cup {Nobody}]
        /\ \A b \in Pieces : copyLock'[b] \in {copyLock[b], Nobody}
        /\ bodyCopy' \in Pieces \cup {NoBody} /\ creating' \in Pieces \cup {NoBody}
        /\ \/ bodyCopy' = bodyCopy /\ creating' = creating
           \/ bodyCopy' = creating /\ creating' = NoBody /\ creating # NoBody
    BY <1>7, <2>2, OutputLeave
  <2>4. /\ bodyCopy' # NoBody => stage'[bodyCopy'] # "none"
        /\ creating' # NoBody => stage'[creating'] = "ended"
    BY <1>2, <2>3 DEF CopiesInv
  <2> HIDE DEF e, p, f
  <2> QED BY <1>1, <1>2, <1>4, <1>5, <1>7, <2>1, <2>3, <2>4, TakeStep DEF f, p
<1>8. CASE /\ Output!Go(t, "_write", "onEnd", TRUE) /\ lock' = t /\ failed' = TRUE
           /\ UNCHANGED <<flagWriting, atStream, bodyCopy, creating, copyLock, sent>>
  <2>1. Moves(t) /\ threadPc'[t] = "onEnd" /\ arg'[t]
    BY <1>6, <1>8, OutputGo
  <2>2. /\ bodyCopy' \in Pieces \cup {NoBody} /\ creating' \in Pieces \cup {NoBody}
        /\ copyLock' \in [Pieces -> Output!Threads \cup {Nobody}] /\ lock' \in Output!Threads \cup {Nobody}
        /\ \A b \in Pieces : copyLock'[b] \in {copyLock[b], Nobody}
    BY <1>8 DEF OutTypes
  <2>3. /\ bodyCopy' # NoBody => stage'[bodyCopy'] # "none"
        /\ creating' # NoBody => stage'[creating'] = "ended"
    BY <1>2, <1>8 DEF CopiesInv
  <2>4. atStream' = <<>>
    BY <1>1, <1>8
  <2> HIDE DEF e, p, f
  <2> QED BY <1>1, <1>2, <1>4, <1>5, <1>8, <2>1, <2>2, <2>3, <2>4, TakeStep DEF f, p
<1> QED BY <1>2, <1>7, <1>8

\* A copy is made of the body, or its first read is refused.
LEMMA WriteBodyStep ==
    ASSUME OutputIInv, NEW t \in Output!Threads, Output!WriteBody(t)
    PROVE  OutputIInv'
<1> DEFINE e == Output!Current
           p == RestFront
<1> USE DEF OutputIInv
<1>1. /\ lock \in {Nobody, t} /\ ~flagClosed /\ ~flagWriting /\ threadPc[t] = "_write"
      /\ flagClosed' = flagClosed /\ queueOutput' = Output!Behind /\ pieces' = pieces
      /\ e \in Elements /\ Row(e) /\ FirstPiece(e) = p /\ p \in Pieces
      /\ Output!Behind \in Seq(Elements) /\ Chain(Output!Behind, pieces)
      /\ AfterPiece(e) = FrontOf(Output!Behind, pieces)
      /\ atStream = <<>> /\ stage[p] = "none"
      /\ \A b \in Pieces : ~InFlight(b) /\ ~Output!Running(b)
      /\ \A u \in Output!Threads : ~Callback(u)
      /\ ~failed => p = Len(sent) + 1
  BY WriteFinds
<1>2. /\ e.header = <<>> /\ elementWriting' = NoElement /\ atStream' = atStream /\ sent' = sent
      /\ \/ /\ flagWriting' = TRUE /\ stage' = [stage EXCEPT ![e.body] = "reading"]
            /\ Output!Leave(t, e.body) /\ failed' = failed
         \/ /\ Output!Go(t, "_write", "onEnd", TRUE) /\ lock' = t
            /\ stage' = [stage EXCEPT ![e.body] = "ended"] /\ creating' = e.body /\ failed' = TRUE
            /\ UNCHANGED <<flagWriting, bodyCopy, copyLock>>
  BY DEF Output!WriteBody, NoElement
<1>3. e.body = p /\ AfterPiece(e) = p + 1
  BY <1>1, <1>2, RowFacts
<1>4. RestFront' = p + 1
  BY <1>1, <1>2, <1>3 DEF RestFront
<1>5. NoElement \in Elements /\ "onEnd" \in Output!Steps
  BY PiecesFacts DEF Output!Steps
<1>6. stage \in [Pieces -> {"none", "reading", "writing", "ended"}]
  BY DEF OutTypes
<1>7. CASE /\ flagWriting' = TRUE /\ stage' = [stage EXCEPT ![p] = "reading"]
           /\ Output!Leave(t, p) /\ failed' = failed
  <2>1. /\ Moves(t) /\ threadPc'[t] = "outside" /\ lock' \in Output!Threads \cup {Nobody}
        /\ copyLock' \in [Pieces -> Output!Threads \cup {Nobody}]
        /\ \A b \in Pieces : copyLock'[b] \in {copyLock[b], Nobody}
        /\ bodyCopy' \in Pieces \cup {NoBody} /\ creating' \in Pieces \cup {NoBody}
        /\ \/ bodyCopy' = p /\ creating' = creating
           \/ bodyCopy' = creating /\ creating' = NoBody /\ creating # NoBody
    BY <1>1, <1>7, OutputLeave
  <2>2. /\ bodyCopy' # NoBody => stage'[bodyCopy'] # "none"
        /\ creating' # NoBody => stage'[creating'] = "ended"
    <3>1. \A b \in Pieces : stage'[b] = IF b = p THEN "reading" ELSE stage[b]
      BY <1>1, <1>6, <1>7
    <3>2. creating # NoBody => creating \in Pieces /\ creating # p /\ stage[creating] = "ended"
      BY <1>1 DEF CopiesInv, OutTypes
    <3> QED BY <1>1, <2>1, <3>1, <3>2
  <2> HIDE DEF e, p
  <2> QED BY <1>1, <1>2, <1>4, <1>5, <1>7, <2>1, <2>2, TakeStep DEF p
<1>8. CASE /\ Output!Go(t, "_write", "onEnd", TRUE) /\ lock' = t
           /\ stage' = [stage EXCEPT ![p] = "ended"] /\ creating' = p /\ failed' = TRUE
           /\ UNCHANGED <<flagWriting, bodyCopy, copyLock>>
  <2>1. Moves(t) /\ threadPc'[t] = "onEnd" /\ arg'[t]
    BY <1>5, <1>8, OutputGo
  <2>2. /\ bodyCopy' \in Pieces \cup {NoBody} /\ creating' \in Pieces \cup {NoBody}
        /\ copyLock' \in [Pieces -> Output!Threads \cup {Nobody}] /\ lock' \in Output!Threads \cup {Nobody}
        /\ \A b \in Pieces : copyLock'[b] \in {copyLock[b], Nobody}
    BY <1>1, <1>8 DEF OutTypes
  <2>3. /\ bodyCopy' # NoBody => stage'[bodyCopy'] # "none"
        /\ creating' # NoBody => stage'[creating'] = "ended"
    <3>1. \A b \in Pieces : stage'[b] = IF b = p THEN "ended" ELSE stage[b]
      BY <1>1, <1>6, <1>8
    <3> QED BY <1>1, <1>8, <2>2, <3>1 DEF CopiesInv
  <2> HIDE DEF e, p
  <2> QED BY <1>1, <1>2, <1>4, <1>5, <1>8, <2>1, <2>2, <2>3, TakeStep DEF p
<1> QED BY <1>2, <1>3, <1>7, <1>8

-----------------------------------------------------------------------------
\* m_flagWriting is cleared by the one thread that has the callback of what ended.
LEMMA CallbackStep ==
    ASSUME OutputIInv, NEW t \in Output!Threads, Output!OnWriteStream(t) \/ Output!OnAsyncCopyEnd(t)
    PROVE  OutputIInv'
<1> USE DEF OutputIInv
<1>1. /\ Callback(t) /\ flagWriting' = FALSE
      /\ UNCHANGED <<queueOutput, elementWriting, flagClosed, bodyCopy, creating, stage, lock, copyLock,
                     atStream, pieces, sent, failed>>
  <2>1. Callback(t) /\ flagWriting' = FALSE
    BY DEF Output!OnWriteStream, Output!OnAsyncCopyEnd, Output!Go, Callback
  <2>2. UNCHANGED <<Output!output, Output!copies, Output!locks, atStream, pieces, Output!history>>
    BY DEF Output!OnWriteStream, Output!OnAsyncCopyEnd
  <2> QED BY <2>1, <2>2 DEF Output!output, Output!copies, Output!locks, Output!history
<1>2. PICK from \in {"onWriteStream", "onAsyncCopyEnd"}, to \in {"_write", "onEnd"} : Output!Go(t, from, to, TRUE)
  BY DEF Output!OnWriteStream, Output!OnAsyncCopyEnd
<1>3. Moves(t) /\ threadPc'[t] \in {"_write", "onEnd"} /\ arg'[t] /\ threadPc[t] # "outside"
  <2>1. {"_write", "onEnd"} \subseteq Output!Steps
    BY DEF Output!Steps
  <2>2. Moves(t) /\ threadPc'[t] = to /\ arg'[t] = TRUE
    BY <1>2, <2>1, OutputGo
  <2> QED BY <1>1, <2>2 DEF Callback
<1>4. OutTypes'
  BY <1>1, <1>3 DEF OutTypes, Moves
<1>5. RowInv' /\ RestFront' = RestFront
  BY <1>1, RowKept
<1>6. WriterInv'
  <2>1. /\ \A b \in Pieces : ~InFlight(b)
        /\ \A u \in Output!Threads : Callback(u) => u = t
    BY <1>1 DEF WriterInv
  <2>2. \A u \in Output!Threads : ~Callback(u)'
    BY <1>3, <2>1 DEF Callback, Moves
  <2>3. \A b \in Pieces : ~InFlight(b)'
    BY <1>1, <2>1 DEF InFlight, Output!Running
  <2> QED BY <1>1, <2>2, <2>3 DEF WriterInv, Output!Running
<1>7. SentInv'
  BY <1>1, <1>5, SentKept
<1>8. EndInv'
  BY <1>1, <1>3, EndKept
<1>9. CopiesInv'
  <2>1. /\ bodyCopy' # NoBody => stage'[bodyCopy'] # "none"
        /\ creating' # NoBody => stage'[creating'] = "ended"
    BY <1>1 DEF CopiesInv
  <2> QED BY <1>1, <1>3, <2>1, CopiesKept
<1> QED BY <1>4, <1>5, <1>6, <1>7, <1>8, <1>9

-----------------------------------------------------------------------------
\* A copy that ran is closed.
LEMMA CloseCopyStep ==
    ASSUME OutputIInv, NEW t \in Output!Threads, Output!CloseCopy(t)
    PROVE  OutputIInv'
<1> DEFINE b == bodyCopy
<1> USE DEF OutputIInv
<1>1. threadPc[t] = "copy->close" /\ lock = t /\ flagClosed /\ b \in Pieces /\ stage[b] # "none"
  BY DEF Output!CloseCopy, CopiesInv, OutTypes
<1>2. /\ UNCHANGED <<queueOutput, elementWriting, flagClosed, atStream, pieces, sent>>
      /\ \/ /\ stage[b] = "ended" /\ Output!Leave(t, NoBody) /\ UNCHANGED <<flagWriting, stage, failed>>
         \/ /\ stage[b] # "ended" /\ stage' = [stage EXCEPT ![b] = "ended"] /\ flagWriting' = FALSE
            /\ failed' = TRUE /\ Output!Go(t, "copy->close", "onEnd", TRUE)
            /\ copyLock' = [copyLock EXCEPT ![b] = t] /\ bodyCopy' = NoBody
            /\ UNCHANGED <<creating, lock>>
  BY DEF Output!CloseCopy, NoBody, Output!output
<1>3. /\ stage \in [Pieces -> {"none", "reading", "writing", "ended"}]
      /\ copyLock \in [Pieces -> Output!Threads \cup {Nobody}]
  BY DEF OutTypes
<1>4. CASE stage[b] = "ended" /\ Output!Leave(t, NoBody) /\ UNCHANGED <<flagWriting, stage, failed>>
  <2>1. /\ Moves(t) /\ threadPc'[t] = "outside" /\ lock' \in Output!Threads \cup {Nobody}
        /\ copyLock' \in [Pieces -> Output!Threads \cup {Nobody}]
        /\ \A c \in Pieces : copyLock'[c] \in {copyLock[c], Nobody}
        /\ bodyCopy' \in Pieces \cup {NoBody} /\ creating' \in Pieces \cup {NoBody}
        /\ \/ bodyCopy' = NoBody /\ creating' = creating
           \/ bodyCopy' = creating /\ creating' = NoBody /\ creating # NoBody
    BY <1>4, OutputLeave
  <2>2. OutTypes'
    BY <1>2, <1>4, <2>1 DEF OutTypes, Moves
  <2>3. RowInv' /\ RestFront' = RestFront
    BY <1>2, <1>4, RowKept
  <2>4. \A u \in Output!Threads : Callback(u)' => Callback(u)
    BY <2>1 DEF Callback, Moves
  <2>5. WriterInv' /\ SentInv'
    BY <1>2, <1>4, <2>3, <2>4, WriterKept, SentKept
  <2>6. EndInv'
    BY <1>1, <2>1, EndKept
  <2>7. /\ bodyCopy' # NoBody => stage'[bodyCopy'] # "none"
        /\ creating' # NoBody => stage'[creating'] = "ended"
    BY <1>4, <2>1 DEF CopiesInv
  <2>8. CopiesInv'
    BY <1>1, <1>2, <1>4, <2>1, <2>7, CopiesKept
  <2> QED BY <2>2, <2>3, <2>5, <2>6, <2>8
<1>5. CASE /\ stage[b] # "ended" /\ stage' = [stage EXCEPT ![b] = "ended"] /\ flagWriting' = FALSE
           /\ failed' = TRUE /\ Output!Go(t, "copy->close", "onEnd", TRUE)
           /\ copyLock' = [copyLock EXCEPT ![b] = t] /\ bodyCopy' = NoBody
           /\ UNCHANGED <<creating, lock>>
  <2>1. Moves(t) /\ threadPc'[t] = "onEnd" /\ arg'[t]
    <3>1. "onEnd" \in Output!Steps
      BY DEF Output!Steps
    <3> QED BY <1>5, <3>1, OutputGo
  <2>2. /\ stage' \in [Pieces -> {"none", "reading", "writing", "ended"}] /\ stage'[b] = "ended"
        /\ \A c \in Pieces : c # b => stage'[c] = stage[c]
        /\ copyLock' \in [Pieces -> Output!Threads \cup {Nobody}]
    BY <1>1, <1>3, <1>5
  <2>3. OutTypes'
    BY <1>2, <1>5, <2>1, <2>2 DEF OutTypes, Moves
  <2>4. RowInv'
    BY <1>1, <1>2, <2>2, RowKept
  <2>5. WriterInv'
    <3>1. \A u \in Output!Threads : Callback(u)' => Callback(u)
      BY <2>1 DEF Callback, Moves
    <3>2. \A c \in Pieces : /\ InFlight(c)' => InFlight(c)
                            /\ Output!Running(c)' => Output!Running(c) /\ stage'[c] = stage[c]
      BY <1>2, <2>2 DEF InFlight, Output!Running
    <3>3. \A c \in Pieces :
             /\ stage'[c] = "writing" => atStream' = <<c>>
             /\ stage'[c] = "reading" => atStream' = <<>>
             /\ atStream' = <<c>> /\ stage'[c] = "ended" => failed' /\ flagClosed'
             /\ InFlight(c)' => flagWriting' \/ flagClosed'
      BY <1>1, <1>2, <1>5, <2>2 DEF WriterInv
    <3> QED BY <1>1, <1>2, <3>1, <3>2, <3>3 DEF WriterInv
  <2>6. SentInv'
    BY <1>5 DEF SentInv
  <2>7. EndInv'
    BY <1>1, <2>1, EndKept
  <2>8. creating' # NoBody => stage'[creating'] = "ended"
    <3>1. creating # NoBody => creating \in Pieces /\ stage[creating] = "ended"
      BY DEF CopiesInv, OutTypes
    <3> QED BY <1>5, <2>2, <3>1
  <2>9. CopiesInv'
    BY <1>1, <1>2, <1>5, <2>1, <2>8, CopiesKept
  <2> QED BY <2>3, <2>4, <2>5, <2>6, <2>7, <2>9
<1> QED BY <1>2, <1>4, <1>5

-----------------------------------------------------------------------------
\* The stream of a body answers its copy.
LEMMA BodyReadStep ==
    ASSUME OutputIInv, NEW b \in Pieces, Output!BodyRead(b)
    PROVE  OutputIInv'
<1> USE DEF OutputIInv
<1>1. /\ threadPc[Body] = "outside" /\ stage[b] = "reading"
      /\ UNCHANGED <<queueOutput, elementWriting, flagClosed, flagWriting, bodyCopy, creating, lock, pieces, sent>>
      /\ \/ /\ stage' = [stage EXCEPT ![b] = "writing"] /\ atStream' = Append(atStream, b)
            /\ UNCHANGED <<threadPc, arg, copyLock, failed>>
         \/ /\ stage' = [stage EXCEPT ![b] = "ended"] /\ copyLock' = [copyLock EXCEPT ![b] = Body]
            /\ Output!Go(Body, "outside", "onAsyncCopyEnd", TRUE) /\ failed' = TRUE /\ atStream' = atStream
  BY DEF Output!BodyRead, Output!output, Output!threads
<1>2. /\ atStream = <<>> /\ Output!Running(b) /\ InFlight(b) /\ (flagWriting \/ flagClosed)
      /\ \A c \in Pieces : Output!Running(c) => c = b
      /\ \A t \in Output!Threads : ~Callback(t)
  BY <1>1 DEF WriterInv, InFlight, Output!Running
<1>3. /\ stage \in [Pieces -> {"none", "reading", "writing", "ended"}] /\ Body \in Output!Threads
      /\ copyLock \in [Pieces -> Output!Threads \cup {Nobody}]
  BY OutputThreads DEF OutTypes
<1>4. CASE /\ stage' = [stage EXCEPT ![b] = "writing"] /\ atStream' = Append(atStream, b)
           /\ UNCHANGED <<threadPc, arg, copyLock, failed>>
  <2>1. /\ atStream' = <<b>> /\ atStream' \in Seq(Pieces) /\ stage'[b] = "writing"
        /\ stage' \in [Pieces -> {"none", "reading", "writing", "ended"}]
        /\ \A c \in Pieces : (c # b => stage'[c] = stage[c]) /\ (atStream' = <<c>> <=> c = b)
    BY <1>2, <1>3, <1>4
  <2>2. OutTypes'
    BY <1>1, <1>4, <2>1 DEF OutTypes
  <2>3. RowInv' /\ RestFront' = RestFront
    BY <1>1, <2>1, RowKept
  <2>4. WriterInv'
    BY <1>1, <1>2, <1>4, <2>1 DEF WriterInv, InFlight, Output!Running, Callback
  <2>5. SentInv'
    <3>1. InFlight(b)' /\ \A c \in Pieces : InFlight(c)' => InFlight(c)
      BY <1>2, <2>1 DEF InFlight, Output!Running
    <3> QED BY <1>1, <1>4, <2>3, <3>1 DEF SentInv
  <2>6. EndInv'
    BY <1>1, <1>4 DEF EndInv
  <2>7. CopiesInv'
    BY <1>1, <1>4, <2>1 DEF CopiesInv, OutTypes
  <2> QED BY <2>2, <2>3, <2>4, <2>5, <2>6, <2>7
<1>5. CASE /\ stage' = [stage EXCEPT ![b] = "ended"] /\ copyLock' = [copyLock EXCEPT ![b] = Body]
           /\ Output!Go(Body, "outside", "onAsyncCopyEnd", TRUE) /\ failed' = TRUE /\ atStream' = atStream
  <2>1. /\ stage' \in [Pieces -> {"none", "reading", "writing", "ended"}] /\ stage'[b] = "ended"
        /\ copyLock' \in [Pieces -> Output!Threads \cup {Nobody}]
        /\ \A c \in Pieces : c # b => stage'[c] = stage[c]
    BY <1>3, <1>5
  <2>2. Moves(Body) /\ threadPc'[Body] = "onAsyncCopyEnd"
    <3>1. "onAsyncCopyEnd" \in Output!Steps
      BY DEF Output!Steps
    <3> QED BY <1>3, <1>5, <3>1, OutputGo
  <2>3. OutTypes'
    BY <1>1, <1>5, <2>1, <2>2 DEF OutTypes, Moves
  <2>4. RowInv'
    BY <1>1, <1>5, <2>1, RowKept
  <2>5. WriterInv'
    <3>1. \A c \in Pieces : ~InFlight(c)' /\ ~Output!Running(c)'
      BY <1>2, <1>5, <2>1, Zenon DEF InFlight, Output!Running
    <3>2. \A t \in Output!Threads : Callback(t)' => t = Body
      BY <1>2, <2>2 DEF Callback, Moves
    <3> QED BY <1>1, <1>2, <1>5, <3>1, <3>2 DEF WriterInv, Output!Running
  <2>6. SentInv'
    BY <1>5 DEF SentInv
  <2>7. EndInv'
    BY <1>1, <1>3, <2>2, EndKept
  <2>8. CopiesInv'
    BY <1>1, <1>5, <2>1, <2>2 DEF CopiesInv, OutTypes, Moves
  <2> QED BY <2>3, <2>4, <2>5, <2>6, <2>7, <2>8
<1> QED BY <1>1, <1>4, <1>5

\* What the stream answers for is what was on its way, and its callback is the only one.
LEMMA PieceWritten ==
    ASSUME OutputIInv, NEW p \in Pieces, atStream = <<p>>, atStream' = <<>>, NEW ok \in BOOLEAN,
           sent' = IF ok THEN Append(sent, p) ELSE sent, failed' = (failed \/ ~ok),
           UNCHANGED <<queueOutput, elementWriting, flagClosed, flagWriting, bodyCopy, creating, lock, pieces>>,
           threadPc[Io] = "outside", Moves(Io), threadPc'[Io] \in {"onWriteStream", "onAsyncCopyEnd"},
           stage[p] # "ended", stage' \in [Pieces -> {"none", "reading", "writing", "ended"}],
           stage'[p] = IF stage[p] = "none" THEN "none" ELSE "ended",
           \A c \in Pieces : c # p => stage'[c] = stage[c],
           copyLock' \in [Pieces -> Output!Threads \cup {Nobody}],
           \A c \in Pieces : copyLock'[c] \in {copyLock[c], Io}
    PROVE  OutputIInv'
<1> USE DEF OutputIInv
<1>1. /\ InFlight(p) /\ (flagWriting \/ flagClosed)
      /\ \A c \in Pieces : Output!Running(c) => c = p
      /\ \A t \in Output!Threads : ~Callback(t)
  <2>1. InFlight(p)
    BY DEF InFlight
  <2>2. \A c \in Pieces : atStream = <<c>> => c = p
    OBVIOUS
  <2>3. atStream # <<>>
    OBVIOUS
  <2> QED BY <2>1, <2>2, <2>3 DEF WriterInv, Output!Running
<1>2. sent' \in Seq(Pieces)
  BY DEF OutTypes
<1>3. OutTypes'
  <2>1. <<>> \in Seq(Pieces)
    OBVIOUS
  <2> QED BY <1>2, <2>1 DEF OutTypes, Moves
<1>4. RowInv' /\ RestFront' = RestFront
  <2>1. \A c \in Pieces : atStream' # <<c>>
    OBVIOUS
  <2> QED BY <2>1, RowKept
<1>5. \A c \in Pieces : ~InFlight(c)' /\ ~Output!Running(c)'
  <2>1. \A c \in Pieces : ~Output!Running(c)'
    BY <1>1 DEF Output!Running
  <2>2. \A c \in Pieces : atStream' # <<c>>
    OBVIOUS
  <2> QED BY <2>1, <2>2 DEF InFlight
<1>6. WriterInv'
  <2>1. \A t \in Output!Threads : Callback(t)' => t = Io
    BY <1>1 DEF Callback, Moves
  <2> QED BY <1>1, <1>5, <2>1 DEF WriterInv, Output!Running
<1>7. SentInv'
  <2> SUFFICES ASSUME ~failed'
               PROVE  (\A i \in 1 .. Len(sent') : sent'[i] = i) /\ RestFront' = Len(sent') + 1
    BY <1>5 DEF SentInv
  <2>1. /\ sent' = Append(sent, p) /\ p = Len(sent) + 1 /\ RestFront = Len(sent) + 2
        /\ \A i \in 1 .. Len(sent) : sent[i] = i
    BY <1>1 DEF SentInv
  <2>2. sent \in Seq(Pieces) /\ Len(sent) \in Nat
    BY DEF OutTypes
  <2>3. /\ Len(sent') = Len(sent) + 1 /\ sent'[Len(sent) + 1] = p
        /\ \A i \in 1 .. Len(sent) : sent'[i] = sent[i]
    BY <2>1, <2>2
  <2> QED BY <1>4, <2>1, <2>2, <2>3
<1>8. EndInv'
  BY OutputThreads, EndKept
<1>9. CopiesInv'
  <2>1. \A b \in Pieces : (stage[b] # "none" => stage'[b] # "none") /\ (stage[b] = "ended" => stage'[b] = "ended")
    OBVIOUS
  <2>2. bodyCopy \in Pieces \cup {NoBody} /\ creating \in Pieces \cup {NoBody}
    BY DEF OutTypes
  <2>3. \A t \in Output!Threads : threadPc'[t] = "copy->close" => threadPc[t] = "copy->close"
    BY DEF Moves
  <2>4. threadPc'[Body] = threadPc[Body] /\ Io \notin Callers \cup {Body}
    BY OutputThreads DEF Moves
  <2> QED BY <2>1, <2>2, <2>3, <2>4 DEF CopiesInv
<1> QED BY <1>3, <1>4, <1>6, <1>7, <1>8, <1>9

\* The stream answers to a copy: one that runs, or one that was closed.
LEMMA BodyWrittenStep ==
    ASSUME OutputIInv, NEW ok \in BOOLEAN, Output!BodyWritten(ok)
    PROVE  OutputIInv'
<1> USE DEF OutputIInv
<1>1. PICK p \in Pieces : atStream = <<p>>
  BY DEF Output!BodyWritten, WriterInv
<1>2. Head(atStream) = p /\ Tail(atStream) = <<>>
  BY <1>1
<1>3. /\ threadPc[Io] = "outside" /\ stage[p] # "none" /\ atStream' = <<>>
      /\ sent' = IF ok THEN Append(sent, p) ELSE sent
      /\ failed' = (failed \/ ~ok)
      /\ UNCHANGED <<queueOutput, elementWriting, flagClosed, flagWriting, bodyCopy, creating, lock, pieces>>
      /\ IF stage[p] = "writing"
         THEN /\ stage' = [stage EXCEPT ![p] = "ended"] /\ copyLock' = [copyLock EXCEPT ![p] = Io]
              /\ Output!Go(Io, "outside", "onAsyncCopyEnd", ~ok)
         ELSE UNCHANGED <<stage, copyLock, threadPc, arg>>
  BY <1>2 DEF Output!BodyWritten, Output!output, Output!threads
<1>4. /\ stage \in [Pieces -> {"none", "reading", "writing", "ended"}] /\ Io \in Output!Threads
      /\ copyLock \in [Pieces -> Output!Threads \cup {Nobody}]
  BY OutputThreads DEF OutTypes
<1>5. CASE stage[p] = "writing"
  <2>1. Moves(Io) /\ threadPc'[Io] = "onAsyncCopyEnd"
    <3>1. "onAsyncCopyEnd" \in Output!Steps /\ (~ok) \in BOOLEAN
      BY DEF Output!Steps
    <3> QED BY <1>3, <1>4, <1>5, <3>1, OutputGo
  <2>2. /\ stage' \in [Pieces -> {"none", "reading", "writing", "ended"}]
        /\ stage'[p] = IF stage[p] = "none" THEN "none" ELSE "ended"
        /\ \A c \in Pieces : c # p => stage'[c] = stage[c]
        /\ copyLock' \in [Pieces -> Output!Threads \cup {Nobody}]
        /\ \A c \in Pieces : copyLock'[c] \in {copyLock[c], Io}
    BY <1>3, <1>4, <1>5
  <2> QED BY <1>1, <1>3, <1>5, <2>1, <2>2, PieceWritten
<1>6. CASE stage[p] # "writing"
  <2>1. atStream # <<>> /\ stage[p] = "ended" /\ failed
    BY <1>1, <1>3, <1>4, <1>6 DEF WriterInv
  <2>2. /\ UNCHANGED <<stage, copyLock, threadPc, arg>> /\ failed'
    BY <1>3, <1>6, <2>1
  <2>3. \A c \in Pieces : atStream' # <<c>>
    BY <1>3
  <2>4. sent' \in Seq(Pieces) /\ atStream' \in Seq(Pieces)
    BY <1>3 DEF OutTypes
  <2>5. OutTypes'
    BY <1>3, <2>2, <2>4 DEF OutTypes
  <2>6. RowInv'
    BY <1>3, <2>2, <2>3, RowKept
  <2>7. WriterInv'
    <3>1. \A c \in Pieces : ~Output!Running(c)
      BY <1>1, <1>6, <2>1 DEF WriterInv, Output!Running
    <3>2. \A c \in Pieces : ~InFlight(c)' /\ ~Output!Running(c)'
      BY <2>2, <2>3, <3>1 DEF InFlight, Output!Running
    <3>3. \A t \in Output!Threads : Callback(t)' => Callback(t)
      BY <2>2 DEF Callback
    <3> QED BY <1>3, <2>2, <3>2, <3>3 DEF WriterInv, Output!Running
  <2>8. SentInv'
    BY <2>2 DEF SentInv
  <2>9. EndInv'
    BY <1>3, <2>2 DEF EndInv
  <2>10. CopiesInv'
    BY <1>3, <2>2 DEF CopiesInv
  <2> QED BY <2>5, <2>6, <2>7, <2>8, <2>9, <2>10
<1> QED BY <1>5, <1>6

\* The stream answers to the output.
LEMMA HeaderWrittenStep ==
    ASSUME OutputIInv, NEW ok \in BOOLEAN, Output!HeaderWritten(ok)
    PROVE  OutputIInv'
<1> USE DEF OutputIInv
<1>1. PICK p \in Pieces : atStream = <<p>>
  BY DEF Output!HeaderWritten, WriterInv
<1>2. Head(atStream) = p /\ Tail(atStream) = <<>>
  BY <1>1
<1>3. /\ stage[p] = "none" /\ atStream' = <<>> /\ Output!Go(Io, "outside", "onWriteStream", ~ok)
      /\ sent' = IF ok THEN Append(sent, p) ELSE sent
      /\ failed' = (failed \/ ~ok)
      /\ UNCHANGED <<queueOutput, elementWriting, flagClosed, flagWriting, bodyCopy, creating, stage, lock,
                     copyLock, pieces>>
  BY <1>2 DEF Output!HeaderWritten, Output!output, Output!copies, Output!locks
<1>4. Moves(Io) /\ threadPc[Io] = "outside" /\ threadPc'[Io] = "onWriteStream"
  <2>1. "onWriteStream" \in Output!Steps /\ (~ok) \in BOOLEAN
    BY DEF Output!Steps
  <2> QED BY <1>3, <2>1, OutputThreads, OutputGo
<1>5. /\ stage' \in [Pieces -> {"none", "reading", "writing", "ended"}] /\ stage' = stage
      /\ copyLock' \in [Pieces -> Output!Threads \cup {Nobody}] /\ copyLock' = copyLock
  BY <1>3 DEF OutTypes
<1> QED BY <1>1, <1>3, <1>4, <1>5, PieceWritten

-----------------------------------------------------------------------------
\* In the initial state nothing is queued and nothing is on its way.
LEMMA OutputInit == Output!Init => OutputIInv
<1> SUFFICES ASSUME Output!Init PROVE OutputIInv
  OBVIOUS
<1>1. /\ queueOutput = <<>> /\ elementWriting = NoElement
      /\ flagWriting = FALSE /\ flagClosed = FALSE /\ bodyCopy = NoBody /\ creating = NoBody
      /\ stage = [b \in Pieces |-> "none"]
      /\ lock = Nobody /\ copyLock = [b \in Pieces |-> Nobody]
      /\ atStream = <<>>
      /\ threadPc = [t \in Output!Threads |-> "outside"] /\ arg = [t \in Output!Threads |-> FALSE]
      /\ pieces = 0 /\ sent = <<>> /\ failed = FALSE
  BY DEF Output!Init, NoElement, NoBody, Pieces
<1>2. Len(queueOutput) = 0 /\ Len(sent) = 0 /\ RestFront = 1
  BY <1>1 DEF RestFront, FrontOf
<1>3. OutTypes
  <2>1. "outside" \in Output!Steps /\ 0 \in 0 .. MaxPieces /\ NoElement \in Elements
    BY PiecesFacts DEF Output!Steps
  <2>2. /\ queueOutput \in Seq(Elements) /\ atStream \in Seq(Pieces) /\ sent \in Seq(Pieces)
        /\ elementWriting \in Elements /\ pieces \in 0 .. MaxPieces
        /\ bodyCopy \in Pieces \cup {NoBody} /\ creating \in Pieces \cup {NoBody}
    BY <1>1, <2>1
  <2>3. /\ stage \in [Pieces -> {"none", "reading", "writing", "ended"}]
        /\ copyLock \in [Pieces -> Output!Threads \cup {Nobody}] /\ lock \in Output!Threads \cup {Nobody}
    BY <1>1
  <2>4. /\ threadPc \in [Output!Threads -> Output!Steps] /\ arg \in [Output!Threads -> BOOLEAN]
        /\ flagWriting \in BOOLEAN /\ flagClosed \in BOOLEAN /\ failed \in BOOLEAN
    BY <1>1, <2>1
  <2> QED BY <2>2, <2>3, <2>4 DEF OutTypes
<1>4. \A b \in Pieces : ~InFlight(b) /\ ~Output!Running(b) /\ stage[b] = "none"
  BY <1>1 DEF InFlight, Output!Running
<1>5. \A t \in Output!Threads : ~Callback(t) /\ threadPc[t] = "outside"
  BY <1>1 DEF Callback
<1>6. RowInv
  BY <1>1, <1>2, <1>4 DEF RowInv, Chain
<1>7. WriterInv
  BY <1>1, <1>4, <1>5 DEF WriterInv
<1>8. SentInv
  BY <1>2, <1>4 DEF SentInv
<1>9. EndInv
  BY <1>5 DEF EndInv
<1>10. CopiesInv
  BY <1>1, <1>5, OutputThreads DEF CopiesInv
<1> QED BY <1>3, <1>6, <1>7, <1>8, <1>9, <1>10 DEF OutputIInv

\* Every step of the output keeps the invariant.
LEMMA OutputNext == OutputIInv /\ [Output!Next]_(Output!vars) => OutputIInv'
<1> SUFFICES ASSUME OutputIInv, [Output!Next]_(Output!vars) PROVE OutputIInv'
  OBVIOUS
<1>1. CASE Output!Queueing
  BY <1>1, QueueingStep
<1>2. ASSUME NEW b \in Pieces, Output!BodyRead(b) PROVE OutputIInv'
  BY <1>2, BodyReadStep
<1>3. ASSUME NEW ok \in BOOLEAN, Output!BodyWritten(ok) \/ Output!HeaderWritten(ok) PROVE OutputIInv'
  BY <1>3, BodyWrittenStep, HeaderWrittenStep
<1>4. ASSUME NEW t \in Output!Threads, Output!StartWriting(t) \/ Output!CallClose(t) \/ Output!GoOn(t)
      PROVE OutputIInv'
  BY <1>4, CallsStep, WriteHeaderStep, WriteBodyStep, CallbackStep, CloseCopyStep DEF Output!GoOn, Calls
<1>5. CASE UNCHANGED Output!vars
  <2>1. UNCHANGED <<queueOutput, elementWriting, flagWriting, flagClosed, bodyCopy, creating, stage, lock,
                    copyLock, atStream, threadPc, arg, pieces, sent, failed>>
    BY <1>5 DEF Output!vars, Output!output, Output!copies, Output!locks, Output!threads, Output!history
  <2>2. OutTypes'
    BY <2>1 DEF OutputIInv, OutTypes
  <2>3. RowInv' /\ RestFront' = RestFront
    BY <2>1 DEF OutputIInv, RowInv, RestFront
  <2>4. WriterInv' /\ SentInv'
    BY <2>1, <2>3, WriterKept, SentKept DEF OutputIInv, Callback
  <2>5. EndInv' /\ CopiesInv'
    BY <2>1 DEF OutputIInv, EndInv, CopiesInv
  <2> QED BY <2>2, <2>3, <2>4, <2>5 DEF OutputIInv
<1> QED BY <1>1, <1>2, <1>3, <1>4, <1>5 DEF Output!Next, Output!Answer, Pieces

-----------------------------------------------------------------------------
\* The output's Cardinality is that of FiniteSets.
LEMMA OutputCardinality == ASSUME NEW S PROVE Output!Cardinality(S) = Cardinality(S)
BY DEF Output!Cardinality, Cardinality

\* A set without two elements has at most one.
LEMMA AtMostOne ==
    ASSUME NEW S, \A x, y \in S : x = y
    PROVE  Output!Cardinality(S) <= 1
<1> SUFFICES Cardinality(S) <= 1
  BY OutputCardinality
<1>1. CASE S = {}
  BY <1>1, FS_EmptySet
<1>2. CASE S # {}
  <2>1. PICK x \in S : S = {x}
    BY <1>2
  <2> QED BY <2>1, FS_Singleton
<1> QED BY <1>1, <1>2

\* The one writer, from what is on its way.
LEMMA OneWriterShown == OutputIInv => Output!OneWriter
<1> SUFFICES ASSUME OutputIInv PROVE Output!OneWriter
  OBVIOUS
<1> USE DEF OutputIInv
<1>1. Len(atStream) <= 1
  <2>1. CASE atStream = <<>>
    BY <2>1
  <2>2. ASSUME NEW p \in Pieces, atStream = <<p>> PROVE Len(atStream) <= 1
    BY <2>2
  <2> QED BY <2>1, <2>2 DEF WriterInv
<1>2. Output!Cardinality({b \in Pieces : Output!Running(b)}) <= 1
  BY AtMostOne DEF WriterInv
<1>3. atStream # <<>> /\ stage[Head(atStream)] = "none" => \A b \in Pieces : ~Output!Running(b)
  <2> SUFFICES ASSUME NEW p \in Pieces, atStream = <<p>>, stage[Head(atStream)] = "none",
                      NEW b \in Pieces, Output!Running(b)
               PROVE  FALSE
    BY DEF WriterInv
  <2>1. Head(atStream) = p /\ atStream # <<>> /\ \A c \in Pieces : atStream = <<c>> => c = p
    OBVIOUS
  <2> QED BY <2>1 DEF WriterInv, Output!Running
<1> HIDE DEF OutputIInv
<1> QED BY <1>1, <1>2, <1>3, Zenon DEF Output!OneWriter, Pieces

\* What the invariant says of the stream and of what was sent.
LEMMA OutputShown == OutputIInv => Output!Inv
<1> SUFFICES ASSUME OutputIInv PROVE Output!Inv
  OBVIOUS
<1>1. Output!TypeOK
  <2>1. {bodyCopy, creating} \subseteq Pieces \cup {NoBody}
    BY DEF OutputIInv, OutTypes
  <2> QED BY <2>1 DEF OutputIInv, OutTypes, Output!TypeOK, Pieces, NoBody, Elements
<1>2. Output!SentInOrder
  <2> SUFFICES ASSUME ~failed PROVE sent = [i \in 1 .. Len(sent) |-> i]
    BY DEF Output!SentInOrder
  <2>1. sent \in Seq(Pieces) /\ \A i \in 1 .. Len(sent) : sent[i] = i
    BY DEF OutputIInv, OutTypes, SentInv
  <2> QED BY <2>1
<1> QED BY <1>1, <1>2, OneWriterShown DEF Output!Inv

\* Who tells the end found nothing left, nothing is on its way, and what was sent is what
\* comes before what is left.
LEMMA CompleteShown == OutputIInv => Output!CompleteIsAll
<1> SUFFICES ASSUME OutputIInv, NEW t \in Output!Threads, threadPc[t] = "onEnd", ~arg[t], ~failed
             PROVE  Len(sent) = pieces
  BY DEF Output!CompleteIsAll
<1>1. /\ ~flagWriting /\ ~flagClosed /\ elementWriting = NoElement /\ queueOutput = <<>>
  BY DEF OutputIInv, EndInv
<1>2. \A b \in Pieces : ~InFlight(b)
  BY <1>1, Quiet DEF OutputIInv
<1>3. RestFront = Len(sent) + 1 /\ RestFront = pieces + 1
  BY <1>1, <1>2 DEF OutputIInv, SentInv, RestFront, FrontOf
<1> QED BY <1>3, RestFrontFacts DEF OutputIInv

\* One of two that wait for each other waits for the lock of a copy, which it closes; the
\* other has that lock, and it is not the stream's thread, or it is the program's that closes.
LEMMA EmbraceShown == OutputIInv => Output!EmbraceIsClose
<1> SUFFICES ASSUME OutputIInv, NEW t \in Output!Threads, NEW u \in Output!Threads, t # u,
                    Output!WaitsFor(t, u), Output!WaitsFor(u, t)
             PROVE  \E c \in {t, u} : threadPc[c] = "copy->close" /\ flagClosed /\ (c \in Callers \/ failed)
  BY DEF Output!EmbraceIsClose
<1> USE DEF OutputIInv
<1>1. \A c, d \in Output!Threads :
         threadPc[c] = "copy->close" /\ Output!WaitsFor(c, d) /\ c # d => flagClosed /\ (c \in Callers \/ failed)
  <2> SUFFICES ASSUME NEW c \in Output!Threads, NEW d \in Output!Threads, threadPc[c] = "copy->close",
                      Output!WaitsFor(c, d), c # d, c \notin Callers
               PROVE  flagClosed /\ failed
    BY DEF CopiesInv
  <2>1. flagClosed /\ bodyCopy \in Pieces /\ copyLock[bodyCopy] = d
    BY DEF CopiesInv, OutTypes, Output!WaitsFor
  <2>2. CASE d \in Callers \cup {Body}
    BY <2>1, <2>2 DEF CopiesInv
  <2>3. CASE d = Io
    BY <2>1, <2>3, OutputThreads DEF CopiesInv
  <2> QED BY <2>2, <2>3, OutputThreads
<1>2. threadPc[t] = "copy->close" \/ threadPc[u] = "copy->close"
  BY DEF Output!WaitsFor
<1> QED BY <1>1, <1>2

\* The variables of the output change in its own steps only.
LEMMA OutputActs ==
    /\ StreamsInit => Output!Init
    /\ [StreamsNext]_streams => [Output!Next]_(Output!vars)
<1>1. StreamsInit => Output!Init
  BY DEF StreamsInit
<1>2. UNCHANGED outputVars => UNCHANGED Output!vars
  BY DEF outputVars, Output!vars, Output!output, Output!copies, Output!locks, Output!threads, Output!history
<1>3. StreamsNext => Output!Next \/ UNCHANGED outputVars
  BY DEF StreamsNext
<1>4. UNCHANGED streams => UNCHANGED outputVars
  BY DEF streams
<1> QED BY <1>1, <1>2, <1>3, <1>4

\* The inductive invariant of the output, for any threads of the program and any number of
\* pieces (AsyncOutput, AsyncOutputBuffer).
THEOREM OutputInvariance == StreamsSpec => []OutputIInv
BY OutputActs, OutputInit, OutputNext, PTL DEF StreamsSpec

\* The stream never has two writes of an output that is not closed, and until something fails
\* it wrote what was queued, in that order with nothing left out.
THEOREM OutputInOrder == StreamsSpec => []OutputInv
<1>1. OutputIInv => OutputInv
  BY OutputShown DEF OutputInv
<1> QED BY <1>1, OutputInvariance, PTL

\* An end that the program is told without an error comes when all it queued was sent.
THEOREM OutputComplete == StreamsSpec => []CompleteIsAll
<1>1. OutputIInv => CompleteIsAll
  BY CompleteShown DEF CompleteIsAll
<1> QED BY <1>1, OutputInvariance, PTL

\* Two threads that wait for each other's lock, the output's and a copy's: one of them closes
\* the output, and it is the program's outside a callback or something failed.
THEOREM OutputEmbrace == StreamsSpec => []EmbraceIsClose
<1>1. OutputIInv => EmbraceIsClose
  BY EmbraceShown DEF EmbraceIsClose
<1> QED BY <1>1, OutputInvariance, PTL
=============================================================================
