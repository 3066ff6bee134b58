---------------------------- MODULE PromiseProofs ----------------------------
(***************************************************************************)
(* The inductive invariant of Promise and the theorems it proves, for any   *)
(* threads and any promises made of one another.                           *)
(***************************************************************************)
EXTENDS Promise, FiniteSetTheorems, TLAPS

\* The callback that took the result of its promise, or is about to.
Took(c) == calls[c] # 0 \/ \E t \in Threads : hand[t] = c

\* A promise keeps a callback only while it is pending.
KeptInv == \A p \in Promises : callback[p] # Nothing =>
    state[p] = "Pending" /\ On[callback[p]] = p /\ callback[p] \in passed

\* What a thread runs was passed to a promise that is completed; its call is counted
\* after its first step; until then it finds what the promise was resolved with.
HandInv == \A t \in Threads :
    /\ hand[t] = Nothing => ~half[t]
    /\ hand[t] # Nothing =>
          /\ hand[t] \in passed /\ state[On[hand[t]]] = "Completed"
          /\ half[t] => calls[hand[t]] = 1 /\ Kind[hand[t]] \in {"all", "wait"}
          /\ ~half[t] => calls[hand[t]] = 0 /\ result[On[hand[t]]] = first[On[hand[t]]]

RanInv == \A c \in Callbacks : calls[c] # 0 =>
    /\ calls[c] = 1 /\ c \in passed /\ state[On[c]] = "Completed"
    /\ seen[c] = first[On[c]]

TakerInv ==
    /\ \A c, d \in Callbacks : Took(c) /\ Took(d) /\ On[c] = On[d] => c = d
    /\ \A t, u \in Threads : hand[t] = hand[u] /\ hand[t] # Nothing => t = u

ResultInv == \A p \in Promises :
    /\ state[p] = "Pending" <=> first[p] = Nothing
    /\ state[p] = "Resolved" => result[p] = first[p]

\* What thenPromise passes on is passed by the callback that got the promise.
InnerInv == \A c \in Callbacks : Inner[c] # Nothing /\ Inner[c] \in passed => calls[c] # 0

CoreInv == TypeOK /\ KeptInv /\ HandInv /\ RanInv /\ TakerInv /\ ResultInv /\ InnerInv

-----------------------------------------------------------------------------
(* The parts of an all()                                                   *)

\* A callback that has run to its end.
Done(c) == calls[c] = 1 /\ \A t \in Threads : hand[t] # c

\* The callbacks of p whose result was counted.
Counted(p) == {c \in Parts(p) : Done(c)}

AllInv ==
    /\ \A p \in Promises : (\E c \in Parts(p) : Kind[c] = "all") => nCompleted[p] = Cardinality(Counted(p))
    /\ \A c \in Callbacks : Kind[c] = "all" =>
          /\ calls[c] = 1 => results[c] = first[On[c]]
          /\ state[Target[c]] # "Pending" => Counted(Target[c]) = Parts(Target[c])

-----------------------------------------------------------------------------
(* wait()                                                                  *)
WaitInv ==
    /\ \A t, u \in Threads : waits[t] = waits[u] /\ waits[t] # Nothing => t = u
    /\ \A t \in Threads : waits[t] # Nothing => waits[t] \in passed /\ ended[waits[t]] = Nothing
    /\ \A c \in Waiters :
          /\ c \in passed => InFrame(c) \/ ended[c] # Nothing
          /\ ended[c] # Nothing => c \in passed
          /\ c \in events => Done(c)
          /\ ended[c] = "set" => c \in events
          /\ c \in strayed => ended[c] \in {"timeout", "stop"}

IInv == CoreInv /\ AllInv /\ WaitInv

-----------------------------------------------------------------------------
(* Steps on one promise                                                    *)

\* A step of thread t, and what its callback may do.
Step(t) == CallSome(t) \/ GoOn(t) \/ EndWait(t) \/ Finish(t)

LEMMA CoreInit == Init => CoreInv
<1> SUFFICES ASSUME Init PROVE CoreInv
  OBVIOUS
<1> USE ConstantsAssumption, TargetsAssumption DEF Init
<1>1. TypeOK
  BY DEF TypeOK, Contents, Derived
<1>2. KeptInv /\ HandInv /\ RanInv /\ ResultInv /\ InnerInv
  BY DEF KeptInv, HandInv, RanInv, ResultInv, InnerInv, Contents
<1>3. TakerInv
  BY DEF TakerInv, Took
<1> QED BY <1>1, <1>2, <1>3 DEF CoreInv

PromiseTypes ==
    /\ state \in [Promises -> {"Pending", "Resolved", "Completed"}]
    /\ result \in [Promises -> Contents] /\ first \in [Promises -> Contents \ {Moved}]
    /\ callback \in [Promises -> Callbacks \cup {Nothing}]
    /\ hand \in [Threads -> Callbacks \cup {Nothing}]

LEMMA HasTarget == ASSUME NEW c \in Callbacks, Kind[c] \notin {"user", "wait"} PROVE Target[c] \in Promises
BY ConstantsAssumption, TargetsAssumption

LEMMA ResolveTypes ==
    ASSUME PromiseTypes, NEW t \in Threads, NEW p \in Promises, NEW v \in Contents \ {Moved}, NEW from,
           Resolve(t, p, v, from)
    PROVE  PromiseTypes'
<1>1. CASE ~MayResolve(p)
  BY <1>1 DEF Resolve, PromiseTypes, promise
<1>2. CASE MayResolve(p)
  <2>1. state' \in [Promises -> {"Pending", "Resolved", "Completed"}]
    BY <1>2 DEF Resolve, PromiseTypes
  <2>2. result' \in [Promises -> Contents]
    BY <1>2 DEF Resolve, PromiseTypes, Contents
  <2>3. first' \in [Promises -> Contents \ {Moved}]
    BY <1>2 DEF Resolve, PromiseTypes
  <2>4. hand' \in [Threads -> Callbacks \cup {Nothing}] /\ callback' \in [Promises -> Callbacks \cup {Nothing}]
    BY <1>2 DEF Resolve, PromiseTypes
  <2> QED BY <2>1, <2>2, <2>3, <2>4 DEF PromiseTypes
<1> QED BY <1>1, <1>2

LEMMA ThenTypes ==
    ASSUME PromiseTypes, NEW t \in Threads, NEW c \in Callbacks, passed \subseteq Callbacks, Then(t, c)
    PROVE  PromiseTypes' /\ passed' \subseteq Callbacks
<1> USE ConstantsAssumption DEF PromiseTypes
<1>1. passed' \subseteq Callbacks /\ result' = result /\ first' = first
  BY DEF Then
<1>2. state' \in [Promises -> {"Pending", "Resolved", "Completed"}]
  BY DEF Then
<1>3. callback' \in [Promises -> Callbacks \cup {Nothing}] /\ hand' \in [Threads -> Callbacks \cup {Nothing}]
  BY DEF Then
<1> QED BY <1>1, <1>2, <1>3

\* Every step keeps the types; what a promise is resolved with is never what was moved.
LEMMA TypeStep == ASSUME CoreInv, NEW t \in Threads, Step(t) PROVE TypeOK'
<1> USE ConstantsAssumption DEF promise, context, waiting, program, called
<1>0. TypeOK /\ PromiseTypes
  BY DEF CoreInv, TypeOK, PromiseTypes
<1>1. CASE CallResolve(t)
  <2>1. PICK p \in shared \ Derived, v \in Values : Resolve(t, p, v, Nothing)
    BY <1>1 DEF CallResolve
  <2>2. PromiseTypes'
    BY <1>0, <2>1, ResolveTypes DEF TypeOK, Contents
  <2> QED BY <1>0, <1>1, <2>2 DEF CallResolve, PromiseTypes, TypeOK
<1>2. CASE CallThen(t)
  <2>1. PromiseTypes' /\ passed' \subseteq Callbacks
    BY <1>0, <1>2, ThenTypes DEF CallThen, Passable, TypeOK
  <2> QED BY <1>0, <1>2, <2>1 DEF CallThen, PromiseTypes, TypeOK
<1>3. CASE Combine(t)
  BY <1>0, <1>3 DEF Combine, TypeOK
<1>4. CASE CombineThen(t)
  <2>1. PromiseTypes' /\ passed' \subseteq Callbacks
    BY <1>0, <1>4, ThenTypes DEF CombineThen, Passable, TypeOK
  <2> QED BY <1>0, <1>4, <2>1 DEF CombineThen, PromiseTypes, TypeOK
<1>5. CASE Combined(t)
  BY <1>0, <1>5 DEF Combined, TypeOK, Derived
<1>6. CASE Wait(t)
  <2>1. PICK c \in Waiters \ passed : On[c] \in shared /\ Then(t, c) /\ waits' = [waits EXCEPT ![t] = c]
    BY <1>6 DEF Wait
  <2>2. PromiseTypes' /\ passed' \subseteq Callbacks
    BY <1>0, <2>1, ThenTypes DEF Waiters, TypeOK
  <2>3. waits' \in [Threads -> Waiters \cup {Nothing}]
    BY <1>0, <2>1 DEF TypeOK
  <2> QED BY <1>0, <1>6, <2>2, <2>3 DEF Wait, PromiseTypes, TypeOK
<1>7. CASE EndWait(t)
  <2>1. waits[t] \in Callbacks
    BY <1>0, <1>7 DEF EndWait, TypeOK, Waiters
  <2>2. ended' \in [Callbacks -> {"set", "timeout", "stop", Nothing}]
    BY <1>0, <1>7, <2>1 DEF EndWait, TypeOK
  <2> QED BY <1>0, <1>7, <2>2 DEF EndWait, TypeOK
<1>8. CASE Finish(t)
  BY <1>0, <1>8 DEF Finish, TypeOK
<1>9. CASE RunUser(t)
  BY <1>0, <1>9 DEF RunUser, Ran, TypeOK, Running
<1>10. CASE Forward(t)
  <2> DEFINE c == hand[t]
             from == IF Kind[c] = "move" THEN On[c] ELSE Nothing
  <2>1. c \in Callbacks /\ Target[c] \in Promises /\ ~half[t]
    <3>1. c \in Callbacks /\ Kind[c] \in {"copy", "move"}
      BY <1>0, <1>10 DEF Forward, Running, TypeOK
    <3> QED BY <1>10, <3>1, HasTarget DEF Forward, Running, CoreInv, HandInv
  <2>2. result[On[c]] \in Contents \ {Moved}
    BY <1>0, <1>10, <2>1 DEF Forward, Running, CoreInv, HandInv, TypeOK
  <2>3. Resolve(t, Target[c], result[On[c]], from) /\ Ran(c)
    BY <1>10 DEF Forward
  <2>4. PromiseTypes'
    BY <1>0, <2>1, <2>2, <2>3, ResolveTypes
  <2>5. calls' \in [Callbacks -> Nat] /\ seen' \in [Callbacks -> Contents]
    BY <1>0, <2>1, <2>2, <2>3 DEF Ran, TypeOK
  <2> QED BY <1>0, <1>10, <2>4, <2>5 DEF Forward, PromiseTypes, TypeOK
<1>11. CASE Chain(t)
  <2>1. hand[t] \in Callbacks /\ Inner[hand[t]] \in Callbacks
    BY <1>0, <1>11, TargetsAssumption DEF Chain, Running, TypeOK
  <2>2. PromiseTypes' /\ passed' \subseteq Callbacks
    <3>1. CASE Then(t, Inner[hand[t]])
      BY <1>0, <2>1, <3>1, ThenTypes DEF TypeOK
    <3>2. ASSUME NEW default \in Values, Resolve(t, Target[hand[t]], default, Nothing), UNCHANGED passed
          PROVE  PromiseTypes' /\ passed' \subseteq Callbacks
      <4>1. Target[hand[t]] \in Promises /\ default \in Contents \ {Moved}
        BY <1>11, <2>1, HasTarget DEF Chain, Running, Contents
      <4> QED BY <1>0, <3>2, <4>1, ResolveTypes DEF TypeOK
    <3> QED BY <1>11, <3>1, <3>2 DEF Chain
  <2>3. calls' \in [Callbacks -> Nat] /\ seen' \in [Callbacks -> Contents]
    BY <1>0, <1>11, <2>1 DEF Chain, Ran, TypeOK
  <2> QED BY <1>0, <1>11, <2>2, <2>3 DEF Chain, PromiseTypes, TypeOK
<1>12. CASE KeepResult(t)
  <2>1. hand[t] \in Callbacks /\ result[On[hand[t]]] \in Contents \ {Moved}
    BY <1>0, <1>12 DEF KeepResult, Running, TypeOK, CoreInv, HandInv
  <2> QED BY <1>0, <1>12, <2>1 DEF KeepResult, Ran, Kept, TypeOK, Contents
<1>13. CASE CountResult(t)
  <2>1. hand[t] \in Callbacks /\ Target[hand[t]] \in Promises
    <3>1. hand[t] \in Callbacks /\ Kind[hand[t]] = "all"
      BY <1>0, <1>13 DEF CountResult, Running, TypeOK
    <3> QED BY <3>1, HasTarget
  <2>2. PromiseTypes'
    <3>1. CASE IsLast(Target[hand[t]])
      BY <1>0, <1>13, <2>1, <3>1, ResolveTypes DEF CountResult, Contents
    <3>2. CASE ~IsLast(Target[hand[t]])
      BY <1>0, <1>13, <2>1, <3>2 DEF CountResult, PromiseTypes
    <3> QED BY <3>1, <3>2
  <2>3. nCompleted' \in [Promises -> Nat] /\ half' \in [Threads -> BOOLEAN]
    BY <1>0, <1>13, <2>1 DEF CountResult, TypeOK
  <2> QED BY <1>0, <1>13, <2>2, <2>3 DEF CountResult, PromiseTypes, TypeOK
<1>14. CASE GiveResult(t)
  BY <1>0, <1>14 DEF GiveResult, Ran, Touch, Running, Waiters, TypeOK, Contents
<1>15. CASE SetEvent(t)
  BY <1>0, <1>15 DEF SetEvent, Touch, Running, Waiters, TypeOK
<1> QED BY <1>1, <1>2, <1>3, <1>4, <1>5, <1>6, <1>7, <1>8, <1>9, <1>10, <1>11, <1>12, <1>13, <1>14, <1>15
  DEF Step, CallSome, GoOn, RunCallback

-----------------------------------------------------------------------------
(* The invariant of the promises                                           *)

\* What the thread had in hand has run; what it has in hand next has not.
Finished(t) ==
    /\ half' = [half EXCEPT ![t] = FALSE]
    /\ calls' = [c \in Callbacks |-> IF c = hand[t] THEN 1 ELSE calls[c]]
    /\ seen' = [c \in Callbacks |-> IF c = hand[t] THEN first[On[c]] ELSE seen[c]]

\* The same, at each callback and thread; and what was taken belongs to a promise that is
\* completed.
FinishedFacts(t) ==
    /\ \A c \in Callbacks : On[c] \in Promises /\ c # Nothing
    /\ \A c \in Callbacks : calls[c] \in Nat /\ calls'[c] = IF c = hand[t] THEN 1 ELSE calls[c]
    /\ \A c \in Callbacks : seen'[c] = IF c = hand[t] THEN first[On[c]] ELSE seen[c]
    /\ \A c \in Callbacks : Took(c) => state[On[c]] = "Completed" /\ c \in passed
    /\ \A u \in Threads : /\ (half'[u] <=> half[u] /\ u # t)
                          /\ hand[u] \in Callbacks \cup {Nothing}

LEMMA FinishedPointwise == ASSUME CoreInv, NEW t \in Threads, Finished(t) PROVE FinishedFacts(t)
<1>1. \A c \in Callbacks : Took(c) => state[On[c]] = "Completed" /\ c \in passed
  <2>1. \A c \in Callbacks : calls[c] # 0 => state[On[c]] = "Completed" /\ c \in passed
    BY DEF CoreInv, RanInv
  <2>2. \A u \in Threads : hand[u] \in Callbacks => state[On[hand[u]]] = "Completed" /\ hand[u] \in passed
    BY ConstantsAssumption DEF CoreInv, HandInv
  <2> QED BY <2>1, <2>2 DEF Took
<1>2. \A c \in Callbacks : calls[c] \in Nat /\ On[c] \in Promises /\ c # Nothing
  BY ConstantsAssumption DEF CoreInv, TypeOK
<1>3. \A c \in Callbacks : /\ calls'[c] = IF c = hand[t] THEN 1 ELSE calls[c]
                           /\ seen'[c] = IF c = hand[t] THEN first[On[c]] ELSE seen[c]
  BY DEF Finished
<1>4. \A u \in Threads : (half'[u] <=> half[u] /\ u # t) /\ hand[u] \in Callbacks \cup {Nothing}
  BY DEF Finished, CoreInv, TypeOK
<1> QED BY <1>1, <1>2, <1>3, <1>4 DEF FinishedFacts

\* A callback ends, and nothing else happens.
LEMMA DoneStep ==
    ASSUME CoreInv, TypeOK', NEW t \in Threads, hand' = [hand EXCEPT ![t] = Nothing],
           Finished(t), UNCHANGED promise, UNCHANGED passed
    PROVE  CoreInv'
<1>1. FinishedFacts(t)
  BY FinishedPointwise
<1>3. /\ UNCHANGED <<state, result, callback, first>>
      /\ \A u \in Threads : hand'[u] = IF u = t THEN Nothing ELSE hand[u]
  BY DEF promise, CoreInv, TypeOK
<1>4. KeptInv' /\ ResultInv'
  BY <1>3 DEF CoreInv, KeptInv, ResultInv
<1>5. HandInv'
  <2>1. \A u \in Threads : u # t /\ hand[u] # Nothing => calls'[hand[u]] = calls[hand[u]]
        BY <1>1 DEF FinishedFacts, CoreInv, TakerInv
  <2> QED BY <1>1, <1>3, <2>1 DEF FinishedFacts, CoreInv, HandInv
<1>6. RanInv'
  BY <1>1, <1>3 DEF FinishedFacts, CoreInv, RanInv, Took
<1>7. TakerInv'
  BY <1>1, <1>3 DEF FinishedFacts, CoreInv, TakerInv, Took
<1>8. InnerInv'
  BY <1>1 DEF FinishedFacts, CoreInv, InnerInv
<1> QED BY <1>4, <1>5, <1>6, <1>7, <1>8 DEF CoreInv

\* The section of resolve: what is moved is the result of the callback that runs.
LEMMA ResolveStep ==
    ASSUME CoreInv, TypeOK', NEW t \in Threads, NEW p \in Promises, NEW v \in Contents \ {Moved, Nothing},
           NEW from, from # Nothing => hand[t] # Nothing /\ from = On[hand[t]],
           Resolve(t, p, v, from), Finished(t), UNCHANGED passed
    PROVE  CoreInv'
<1> USE ConstantsAssumption
<1>1. FinishedFacts(t)
  BY FinishedPointwise
<1>3. CASE ~MayResolve(p)
  BY <1>3, DoneStep DEF Resolve
<1>4. CASE MayResolve(p)
  <2>1. /\ \A q \in Promises :
              /\ state'[q] = IF q = p THEN (IF callback[p] = Nothing THEN "Resolved" ELSE "Completed") ELSE state[q]
              /\ result'[q] = IF q = p THEN v ELSE IF q = from THEN Moved ELSE result[q]
              /\ callback'[q] = IF q = p THEN Nothing ELSE callback[q]
              /\ first'[q] = IF q = p THEN v ELSE first[q]
        /\ \A u \in Threads : hand'[u] = IF u = t THEN callback[p] ELSE hand[u]
        /\ state[p] = "Pending" /\ callback[p] \in Callbacks \cup {Nothing}
    BY <1>4 DEF Resolve, MayResolve, CoreInv, TypeOK, ResultInv
  <2>2. \A c \in Callbacks : Took(c) => On[c] # p /\ c # callback[p]
    BY <1>1, <2>1 DEF FinishedFacts, CoreInv, KeptInv
  <2>3. from # Nothing => /\ Took(hand[t]) /\ hand[t] \in Callbacks /\ from = On[hand[t]]
                          /\ state[from] = "Completed"
    <3>1. \A u \in Threads : hand[u] # Nothing => Took(hand[u]) /\ hand[u] \in Callbacks
      BY <1>1 DEF FinishedFacts, Took
    <3> QED BY <1>1, <3>1 DEF FinishedFacts
  <2>4. KeptInv'
    BY <1>1, <2>1 DEF FinishedFacts, CoreInv, KeptInv
  <2>5. ResultInv'
    BY <2>1, <2>3 DEF CoreInv, ResultInv, TypeOK
  <2>6. \A u \in Threads : u # t /\ hand[u] # Nothing =>
             /\ Took(hand[u]) /\ hand[u] # hand[t] /\ hand[u] # callback[p]
             /\ On[hand[u]] # p /\ On[hand[u]] # from
    <3>1. \A u \in Threads : hand[u] # Nothing => Took(hand[u]) /\ hand[u] \in Callbacks
      BY <1>1 DEF FinishedFacts, Took
    <3> QED BY <2>2, <2>3, <3>1 DEF CoreInv, TakerInv
  <2>7. HandInv'
    <3>1. callback[p] # Nothing => callback[p] \in passed /\ On[callback[p]] = p
                                   /\ calls'[callback[p]] = 0
      BY <1>1, <2>1, <2>2 DEF FinishedFacts, CoreInv, KeptInv, Took
    <3>2. hand'[t] = callback[p] /\ ~half'[t] /\ state'[p] = (IF callback[p] = Nothing THEN "Resolved" ELSE "Completed")
          /\ result'[p] = v /\ first'[p] = v
      BY <1>1, <2>1 DEF FinishedFacts
    <3>3. \A u \in Threads : u # t /\ hand[u] # Nothing =>
             LET c == hand[u] IN
             /\ hand'[u] = c /\ state'[On[c]] = state[On[c]] /\ calls'[c] = calls[c]
             /\ result'[On[c]] = result[On[c]] /\ first'[On[c]] = first[On[c]]
      BY <1>1, <2>1, <2>6 DEF FinishedFacts
    <3>4. \A u \in Threads : u # t => hand'[u] = hand[u] /\ (half'[u] <=> half[u])
      BY <1>1, <2>1 DEF FinishedFacts
    <3> QED BY <3>1, <3>2, <3>3, <3>4 DEF CoreInv, HandInv
  <2>8. RanInv'
    BY <1>1, <2>1, <2>2 DEF FinishedFacts, CoreInv, RanInv, Took
  <2>9. TakerInv'
    <3>1. \A c \in Callbacks : Took(c)' => Took(c) \/ (c = callback[p] /\ On[c] = p)
      BY <1>1, <2>1 DEF FinishedFacts, Took, CoreInv, KeptInv
    <3>2. \A c, d \in Callbacks : Took(c)' /\ Took(d)' /\ On[c] = On[d] => c = d
      BY <2>2, <3>1 DEF CoreInv, TakerInv
    <3> QED BY <1>1, <2>1, <2>6, <3>2 DEF FinishedFacts, CoreInv, TakerInv
  <2>10. InnerInv'
    BY <1>1 DEF FinishedFacts, CoreInv, InnerInv
  <2> QED BY <2>4, <2>5, <2>7, <2>8, <2>9, <2>10 DEF CoreInv
<1> QED BY <1>3, <1>4

\* The section of then, for a callback that was not passed before: what thenPromise
\* passes on is passed by the callback that ends.
LEMMA ThenStep ==
    ASSUME CoreInv, TypeOK', NEW t \in Threads, NEW c \in Callbacks, c \notin passed,
           \A d \in Callbacks : Inner[d] = c => hand[t] = d,
           Then(t, c), Finished(t)
    PROVE  CoreInv'
<1> DEFINE p == On[c]
<1>1. FinishedFacts(t)
  BY FinishedPointwise
<1>2. /\ p \in Promises /\ ~Took(c) /\ passed' = passed \cup {c} /\ UNCHANGED <<result, first>>
      /\ c # Nothing
  BY <1>1 DEF FinishedFacts, Then
<1>3. InnerInv'
  BY <1>1, <1>2 DEF FinishedFacts, CoreInv, InnerInv
<1>4. \A u \in Threads : u # t /\ hand[u] # Nothing => calls'[hand[u]] = calls[hand[u]]
  BY <1>1 DEF FinishedFacts, CoreInv, TakerInv
<1>5. CASE ThenNow(p)
  <2>1. /\ state[p] = "Resolved" /\ UNCHANGED callback
        /\ \A q \in Promises : state'[q] = IF q = p THEN "Completed" ELSE state[q]
        /\ \A u \in Threads : hand'[u] = IF u = t THEN c ELSE hand[u]
    BY <1>2, <1>5 DEF Then, ThenNow, CoreInv, TypeOK
  <2>2. \A d \in Callbacks : Took(d) => On[d] # p /\ d # c
    BY <1>1, <1>2, <2>1 DEF FinishedFacts
  <2>3. KeptInv' /\ ResultInv'
    BY <1>1, <1>2, <2>1 DEF FinishedFacts, CoreInv, KeptInv, ResultInv
  <2>4. HandInv'
    <3>1. result[p] = first[p] /\ calls'[c] = 0 /\ ~half'[t]
      BY <1>1, <1>2, <2>1, <2>2 DEF FinishedFacts, CoreInv, ResultInv, Took
    <3>2. \A u \in Threads : u # t /\ hand[u] # Nothing => On[hand[u]] # p
      BY <1>1, <2>2 DEF FinishedFacts, Took
    <3> QED BY <1>1, <1>2, <1>4, <2>1, <3>1, <3>2 DEF FinishedFacts, CoreInv, HandInv
  <2>5. RanInv'
    BY <1>1, <1>2, <2>1, <2>2 DEF FinishedFacts, CoreInv, RanInv, Took
  <2>6. TakerInv'
    <3>1. \A d \in Callbacks : Took(d)' => Took(d) \/ d = c
      BY <1>1, <2>1 DEF FinishedFacts, Took
    <3>2. \A d, e \in Callbacks : Took(d)' /\ Took(e)' /\ On[d] = On[e] => d = e
      BY <2>2, <3>1 DEF CoreInv, TakerInv
    <3>3. \A u \in Threads : hand[u] # c
      BY <1>2 DEF Took
    <3> QED BY <2>1, <3>2, <3>3 DEF CoreInv, TakerInv
  <2> QED BY <1>3, <2>3, <2>4, <2>5, <2>6 DEF CoreInv
<1>6. CASE ~ThenNow(p)
  <2>1. /\ UNCHANGED state
        /\ \A q \in Promises : callback'[q] = IF q = p /\ state[p] = "Pending" THEN c ELSE callback[q]
        /\ \A u \in Threads : hand'[u] = IF u = t THEN Nothing ELSE hand[u]
    BY <1>2, <1>6 DEF Then, ThenNow, CoreInv, TypeOK
  <2>2. KeptInv' /\ ResultInv'
    BY <1>1, <1>2, <2>1 DEF FinishedFacts, CoreInv, KeptInv, ResultInv
  <2>3. HandInv'
    BY <1>1, <1>2, <1>4, <2>1 DEF FinishedFacts, CoreInv, HandInv
  <2>4. RanInv'
    BY <1>1, <1>2, <2>1 DEF FinishedFacts, CoreInv, RanInv, Took
  <2>5. TakerInv'
    BY <1>1, <2>1 DEF FinishedFacts, CoreInv, TakerInv, Took
  <2> QED BY <1>3, <2>2, <2>3, <2>4, <2>5 DEF CoreInv
<1> QED BY <1>5, <1>6

\* The first of the two steps of a callback that moves the result away.
LEMMA HalfStep ==
    ASSUME CoreInv, TypeOK', NEW t \in Threads, NEW c \in Callbacks, hand[t] = c, ~half[t],
           Kind[c] \in {"all", "wait"}, Ran(c), UNCHANGED <<state, callback, first, hand, passed>>,
           result' = [result EXCEPT ![On[c]] = Moved], half' = [half EXCEPT ![t] = TRUE]
    PROVE  CoreInv'
<1>1. /\ On[c] \in Promises /\ c # Nothing /\ state[On[c]] = "Completed" /\ c \in passed
      /\ calls[c] = 0 /\ result[On[c]] = first[On[c]] /\ Took(c)
  BY ConstantsAssumption DEF CoreInv, HandInv, Took
<1>2. /\ \A d \in Callbacks : calls'[d] = (IF d = c THEN 1 ELSE calls[d])
                              /\ seen'[d] = (IF d = c THEN first[On[c]] ELSE seen[d])
      /\ \A q \in Promises : q # On[c] => result'[q] = result[q]
      /\ \A u \in Threads : /\ (half'[u] <=> half[u] \/ u = t)
                            /\ hand[u] \in Callbacks \cup {Nothing}
  BY <1>1 DEF Ran, CoreInv, TypeOK
<1>3. KeptInv' /\ ResultInv' /\ RanInv' /\ InnerInv'
  BY <1>1, <1>2 DEF CoreInv, KeptInv, ResultInv, RanInv, InnerInv
<1>4. HandInv'
  <2>1. \A u \in Threads : u # t /\ hand[u] # Nothing => hand[u] # c /\ On[hand[u]] # On[c]
    BY <1>1, <1>2 DEF CoreInv, TakerInv, Took
  <2>2. \A u \in Threads : hand[u] # Nothing => On[hand[u]] \in Promises
    BY <1>2, ConstantsAssumption
  <2> QED BY <1>1, <1>2, <2>1, <2>2 DEF CoreInv, HandInv
<1>5. TakerInv'
  BY <1>1, <1>2 DEF CoreInv, TakerInv, Took
<1> QED BY <1>3, <1>4, <1>5 DEF CoreInv

\* Nothing in hand: what a thread does next finishes nothing.
LEMMA NothingFinished ==
    ASSUME CoreInv, NEW t \in Threads, hand[t] = Nothing, UNCHANGED <<half, called>>
    PROVE  Finished(t)
<1>1. ~half[t] /\ \A c \in Callbacks : c # hand[t]
  BY ConstantsAssumption DEF CoreInv, HandInv
<1>2. /\ half = [half EXCEPT ![t] = FALSE]
      /\ calls = [c \in Callbacks |-> IF c = hand[t] THEN 1 ELSE calls[c]]
      /\ seen = [c \in Callbacks |-> IF c = hand[t] THEN first[On[c]] ELSE seen[c]]
  BY <1>1 DEF CoreInv, TypeOK
<1> QED BY <1>2 DEF Finished, called

\* A callback of one step ends.
LEMMA RanFinished ==
    ASSUME CoreInv, NEW t \in Threads, NEW c \in Callbacks, hand[t] = c, ~half[t], Ran(c), UNCHANGED half
    PROVE  Finished(t)
<1>1. calls[c] = 0 /\ result[On[c]] = first[On[c]]
  BY ConstantsAssumption DEF CoreInv, HandInv
<1>2. half' = [half EXCEPT ![t] = FALSE]
  BY DEF CoreInv, TypeOK
<1>3. /\ calls' = [d \in Callbacks |-> IF d = hand[t] THEN 1 ELSE calls[d]]
      /\ seen' = [d \in Callbacks |-> IF d = hand[t] THEN first[On[d]] ELSE seen[d]]
  <2>1. calls \in [Callbacks -> Nat] /\ seen \in [Callbacks -> Contents]
    BY DEF CoreInv, TypeOK
  <2>2. \A d \in Callbacks : /\ calls'[d] = IF d = c THEN 1 ELSE calls[d]
                             /\ seen'[d] = IF d = c THEN first[On[d]] ELSE seen[d]
    BY <1>1, <2>1 DEF Ran
  <2>3. calls' = [d \in Callbacks |-> calls'[d]] /\ seen' = [d \in Callbacks |-> seen'[d]]
    BY <2>1 DEF Ran
  <2> QED BY <2>2, <2>3
<1> QED BY <1>2, <1>3 DEF Finished

\* A callback of two steps ends.
LEMMA HalfFinished ==
    ASSUME CoreInv, NEW t \in Threads, NEW c \in Callbacks, hand[t] = c, half[t],
           half' = [half EXCEPT ![t] = FALSE], UNCHANGED called
    PROVE  Finished(t)
<1>1. calls[c] = 1 /\ seen[c] = first[On[c]]
  BY ConstantsAssumption DEF CoreInv, HandInv, RanInv
<1>2. /\ calls = [d \in Callbacks |-> IF d = hand[t] THEN 1 ELSE calls[d]]
      /\ seen = [d \in Callbacks |-> IF d = hand[t] THEN first[On[d]] ELSE seen[d]]
  BY <1>1 DEF CoreInv, TypeOK
<1> QED BY <1>2 DEF Finished, called

LEMMA CoreUnchanged ==
    ASSUME CoreInv, TypeOK', UNCHANGED <<promise, hand, half, passed, called>>
    PROVE  CoreInv'
BY DEF CoreInv, promise, called, KeptInv, HandInv, RanInv, TakerInv, Took, ResultInv, InnerInv

\* What is in hand has not run twice; it is of a kind that runs in one step or is in its
\* first.
LEMMA InHand ==
    ASSUME CoreInv, NEW t \in Threads, hand[t] # Nothing
    PROVE  /\ hand[t] \in Callbacks /\ On[hand[t]] \in Promises
           /\ first[On[hand[t]]] \in Contents \ {Moved, Nothing}
           /\ Kind[hand[t]] \notin {"all", "wait"} => ~half[t]
           /\ ~half[t] => calls[hand[t]] = 0 /\ result[On[hand[t]]] = first[On[hand[t]]]
<1>1. hand[t] \in Callbacks /\ On[hand[t]] \in Promises
  BY ConstantsAssumption DEF CoreInv, TypeOK
<1>2. state[On[hand[t]]] = "Completed" /\ (half[t] => Kind[hand[t]] \in {"all", "wait"})
  BY DEF CoreInv, HandInv
<1>3. first[On[hand[t]]] \in Contents \ {Moved, Nothing}
  BY <1>1, <1>2 DEF CoreInv, ResultInv, TypeOK
<1> QED BY <1>1, <1>2, <1>3 DEF CoreInv, HandInv

\* Every step keeps the invariant of the promises.
LEMMA CoreStep == ASSUME CoreInv, NEW t \in Threads, Step(t) PROVE CoreInv'
<1> USE ConstantsAssumption
<1>0. TypeOK' /\ TypeOK
  BY TypeStep DEF CoreInv
<1>1. CASE CallResolve(t)
  <2>1. PICK p \in shared \ Derived, v \in Values : Resolve(t, p, v, Nothing)
    BY <1>1 DEF CallResolve
  <2>2. Finished(t) /\ UNCHANGED passed
    BY <1>1, NothingFinished DEF CallResolve, Idle
  <2>3. p \in Promises /\ v \in Contents \ {Moved, Nothing}
    BY <1>0, <2>1 DEF TypeOK, Contents
  <2> QED BY <1>0, <2>1, <2>2, <2>3, ResolveStep
<1>2. CASE CallThen(t)
  <2>1. PICK c \in Passable \ passed : Then(t, c)
    BY <1>2 DEF CallThen
  <2>2. Finished(t)
    BY <1>2, NothingFinished DEF CallThen, Idle
  <2> QED BY <1>0, <2>1, <2>2, ThenStep DEF Passable
<1>3. CASE CombineThen(t)
  <2>1. PICK c \in Passable \ passed : Then(t, c)
    BY <1>3 DEF CombineThen
  <2>2. Finished(t)
    BY <1>3, NothingFinished DEF CombineThen
  <2> QED BY <1>0, <2>1, <2>2, ThenStep DEF Passable
<1>4. CASE Wait(t)
  <2>1. PICK c \in Waiters \ passed : Then(t, c)
    BY <1>4 DEF Wait
  <2>2. Finished(t)
    BY <1>4, NothingFinished DEF Wait, Idle
  <2>3. \A d \in Callbacks : Inner[d] # c
    <3>1. c \in Callbacks /\ Kind[c] = "wait"
      BY DEF Waiters
    <3>2. \A d \in Callbacks : Inner[d] = c => Kind[Inner[d]] = "move"
      BY <3>1, TargetsAssumption
    <3> QED BY <3>1, <3>2
  <2> QED BY <1>0, <2>1, <2>2, <2>3, ThenStep DEF Waiters
<1>5. CASE Combine(t) \/ Combined(t) \/ EndWait(t) \/ Finish(t)
  <2>1. UNCHANGED <<promise, hand, half, passed, called>>
    BY <1>5 DEF Combine, Combined, EndWait, Finish
  <2> QED BY <1>0, <2>1, CoreUnchanged
<1>6. CASE RunUser(t)
  <2>1. hand[t] \in Callbacks /\ ~half[t] /\ Ran(hand[t])
    BY <1>6, InHand DEF RunUser, Running
  <2>2. Finished(t)
    BY <1>6, <2>1, RanFinished DEF RunUser
  <2> QED BY <1>0, <1>6, <2>2, DoneStep DEF RunUser
<1>7. CASE Forward(t)
  <2> DEFINE c == hand[t]
             from == IF Kind[c] = "move" THEN On[c] ELSE Nothing
  <2>1. c \in Callbacks /\ ~half[t] /\ Ran(c) /\ c # Nothing /\ UNCHANGED <<half, passed>>
    BY <1>7, InHand DEF Forward, Running
  <2>2. Finished(t)
    BY <2>1, RanFinished
  <2>3. Target[c] \in Promises
    BY <1>7, <2>1, HasTarget DEF Forward, Running
  <2>4. result[On[c]] \in Contents \ {Moved, Nothing} /\ Resolve(t, Target[c], result[On[c]], from)
    BY <1>7, <2>1, InHand DEF Forward
  <2>5. from # Nothing => hand[t] # Nothing /\ from = On[hand[t]]
    BY <2>1
  <2> HIDE DEF from
  <2> QED BY <1>0, <2>1, <2>2, <2>3, <2>4, <2>5, ResolveStep
<1>8. CASE Chain(t)
  <2> DEFINE c == Inner[hand[t]]
  <2>1. hand[t] \in Callbacks /\ ~half[t] /\ Ran(hand[t]) /\ Kind[hand[t]] = "chain"
        /\ calls[hand[t]] = 0
    BY <1>8, InHand DEF Chain, Running
  <2>2. Finished(t)
    BY <1>8, <2>1, RanFinished DEF Chain
  <2>3. c \in Callbacks /\ \A d \in Callbacks : Inner[d] = c => hand[t] = d
    BY <2>1, TargetsAssumption
  <2>4. c \notin passed
    BY <2>1, <2>3 DEF CoreInv, InnerInv
  <2>5. CASE Then(t, c)
    BY <1>0, <2>2, <2>3, <2>4, <2>5, ThenStep
  <2>6. ASSUME NEW default \in Values, Resolve(t, Target[hand[t]], default, Nothing), UNCHANGED passed
        PROVE  CoreInv'
    <3>1. Target[hand[t]] \in Promises /\ default \in Contents \ {Moved, Nothing}
      BY <2>1, HasTarget DEF Contents
    <3> QED BY <1>0, <2>2, <2>6, <3>1, ResolveStep
  <2> QED BY <1>8, <2>5, <2>6 DEF Chain
<1>9. CASE KeepResult(t)
  <2>1. hand[t] \in Callbacks /\ Kind[hand[t]] \in {"all", "wait"}
    BY <1>9, InHand DEF KeepResult, Running
  <2> QED BY <1>0, <1>9, <2>1, HalfStep DEF KeepResult
<1>10. CASE CountResult(t)
  <2> DEFINE p == Target[hand[t]]
  <2>1. hand[t] \in Callbacks /\ half[t] /\ half' = [half EXCEPT ![t] = FALSE] /\ p \in Promises
    BY <1>10, InHand, HasTarget DEF CountResult, Running
  <2>2. Finished(t) /\ UNCHANGED passed
    BY <1>10, <2>1, HalfFinished DEF CountResult
  <2>3. CASE IsLast(p)
    <3>1. Resolve(t, p, List, Nothing) /\ List \in Contents \ {Moved, Nothing}
      BY <1>10, <2>1, <2>3 DEF CountResult, Contents
    <3> QED BY <1>0, <2>1, <2>2, <3>1, ResolveStep
  <2>4. CASE ~IsLast(p)
    <3>1. hand' = [hand EXCEPT ![t] = Nothing] /\ UNCHANGED promise
      BY <1>10, <2>4 DEF CountResult
    <3> QED BY <1>0, <2>2, <3>1, DoneStep
  <2> QED BY <2>3, <2>4
<1>11. CASE GiveResult(t)
  <2>1. hand[t] \in Callbacks /\ Kind[hand[t]] \in {"all", "wait"}
    BY <1>11, InHand DEF GiveResult, Running
  <2> QED BY <1>0, <1>11, <2>1, HalfStep DEF GiveResult
<1>12. CASE SetEvent(t)
  <2>1. hand[t] \in Callbacks
    BY <1>12, InHand DEF SetEvent, Running
  <2>2. Finished(t)
    BY <1>12, <2>1, HalfFinished DEF SetEvent
  <2> QED BY <1>0, <1>12, <2>2, DoneStep DEF SetEvent
<1> QED BY <1>1, <1>2, <1>3, <1>4, <1>5, <1>6, <1>7, <1>8, <1>9, <1>10, <1>11, <1>12
  DEF Step, CallSome, GoOn, RunCallback

-----------------------------------------------------------------------------
(* The invariant of the parts of an all()                                  *)

AllKind == {c \in Callbacks : Kind[c] = "all"}

LEMMA AllParts ==
    ASSUME NEW c \in AllKind
    PROVE  /\ Target[c] \in Promises /\ Target[c] \in Derived /\ c \in Parts(Target[c])
           /\ Parts(Target[c]) \subseteq AllKind
<1>1. Target[c] \in Promises /\ Target[c] # Nothing
  BY HasTarget, ConstantsAssumption DEF AllKind
<1>2. \A d \in Callbacks : Target[d] = Target[c] => Kind[d] = "all"
  BY TargetsAssumption DEF AllKind
<1> QED BY <1>1, <1>2 DEF AllKind, Derived, Parts

\* A step touches the hand of its thread alone, and what a promise was resolved with
\* first stays so.
LEMMA OneHand ==
    ASSUME CoreInv, NEW t \in Threads, Step(t)
    PROVE  /\ \A u \in Threads : u # t => hand'[u] = hand[u]
           /\ \A p \in Promises : state[p] # "Pending" => first'[p] = first[p] /\ state'[p] # "Pending"
<1>0. TypeOK
  BY DEF CoreInv
<1>1. ASSUME NEW p, NEW v, NEW from, Resolve(t, p, v, from) PROVE
         /\ \A u \in Threads : u # t => hand'[u] = hand[u]
         /\ \A q \in Promises : state[q] # "Pending" => first'[q] = first[q] /\ state'[q] # "Pending"
  BY <1>0, <1>1 DEF Resolve, MayResolve, promise, TypeOK
<1>2. ASSUME NEW c, Then(t, c) PROVE
         /\ \A u \in Threads : u # t => hand'[u] = hand[u]
         /\ \A q \in Promises : state[q] # "Pending" => first'[q] = first[q] /\ state'[q] # "Pending"
  BY <1>0, <1>2 DEF Then, TypeOK
<1>3. CASE CallResolve(t)
  BY <1>1, <1>3 DEF CallResolve
<1>4. CASE CallThen(t) \/ CombineThen(t) \/ Wait(t)
  BY <1>2, <1>4 DEF CallThen, CombineThen, Wait
<1>9. CASE Chain(t)
  BY <1>1, <1>2, <1>9 DEF Chain
<1>5. CASE Forward(t)
  BY <1>1, <1>5 DEF Forward
<1>6. CASE CountResult(t)
  <2>1. CASE IsLast(Target[hand[t]])
    BY <1>1, <1>6, <2>1 DEF CountResult
  <2>2. CASE ~IsLast(Target[hand[t]])
    BY <1>0, <1>6, <2>2 DEF CountResult, promise, TypeOK
  <2> QED BY <2>1, <2>2
<1>7. CASE Combine(t) \/ Combined(t) \/ EndWait(t) \/ Finish(t) \/ KeepResult(t) \/ GiveResult(t)
  <2>1. UNCHANGED <<hand, state, first>>
    BY <1>7 DEF Combine, Combined, EndWait, Finish, KeepResult, GiveResult, promise
  <2> QED BY <2>1
<1>8. CASE RunUser(t) \/ SetEvent(t)
  <2>1. hand' = [hand EXCEPT ![t] = Nothing] /\ UNCHANGED <<state, first>>
    BY <1>8 DEF RunUser, SetEvent, promise
  <2> QED BY <1>0, <2>1 DEF TypeOK
<1> QED BY <1>3, <1>4, <1>5, <1>6, <1>7, <1>8, <1>9 DEF Step, CallSome, GoOn, RunCallback

\* Exactly what the thread had in hand is done when it finishes.
LEMMA FinishedDone ==
    ASSUME CoreInv, CoreInv', NEW t \in Threads, Step(t), Finished(t), NEW c \in Callbacks
    PROVE  Done(c)' <=> Done(c) \/ c = hand[t]
<1>1. c # Nothing /\ (calls'[c] = IF c = hand[t] THEN 1 ELSE calls[c])
  BY FinishedPointwise DEF FinishedFacts
<1>2. \A u \in Threads : u # t => hand'[u] = hand[u]
  BY OneHand
<1>3. ~half'[t]
  BY DEF Finished, CoreInv, TypeOK
<1>4. hand'[t] = c => calls'[c] = 0
  BY <1>1, <1>3 DEF CoreInv, HandInv
<1>5. c = hand[t] => \A u \in Threads : u # t => hand[u] # c
  BY <1>1 DEF CoreInv, TakerInv
<1> QED BY <1>1, <1>2, <1>4, <1>5 DEF Done

\* A step that ends no part of an all() and resolves no promise made by one.
LEMMA AllSame ==
    ASSUME CoreInv, CoreInv', AllInv, NEW t \in Threads, Step(t), UNCHANGED context,
           \A c \in AllKind : Done(c)' <=> Done(c),
           \A c \in AllKind : calls'[c] = 1 => calls[c] = 1,
           \A c \in AllKind : state'[Target[c]] # "Pending" => state[Target[c]] # "Pending"
    PROVE  AllInv'
<1>1. ASSUME NEW p, \E c \in Parts(p) : Kind[c] = "all" PROVE Counted(p)' = Counted(p)
  <2>1. PICK c \in AllKind : Target[c] = p
    BY <1>1 DEF Parts, AllKind
  <2>2. Parts(p) \subseteq AllKind
    BY <2>1, AllParts
  <2>3. \A d \in Parts(p) : Done(d)' <=> Done(d)
    BY <2>2
  <2> QED BY <2>3 DEF Counted, Parts
<1>2. ASSUME NEW p \in Promises, \E c \in Parts(p) : Kind[c] = "all"
      PROVE  nCompleted'[p] = Cardinality(Counted(p)')
  BY <1>1, <1>2 DEF AllInv, context
<1>3. ASSUME NEW c \in AllKind, calls'[c] = 1 PROVE results'[c] = first'[On[c]]
  <2>1. calls[c] = 1 /\ c \in Callbacks /\ On[c] \in Promises
    BY <1>3, ConstantsAssumption DEF AllKind
  <2>2. state[On[c]] = "Completed"
    BY <2>1 DEF CoreInv, RanInv
  <2>3. first'[On[c]] = first[On[c]]
    BY <2>1, <2>2, OneHand
  <2>4. results'[c] = results[c] /\ results[c] = first[On[c]]
    BY <2>1 DEF AllInv, AllKind, context
  <2> QED BY <2>3, <2>4
<1>4. ASSUME NEW c \in AllKind, state'[Target[c]] # "Pending"
      PROVE  Counted(Target[c])' = Parts(Target[c])
  <2>1. \E d \in Parts(Target[c]) : Kind[d] = "all"
    BY DEF AllKind, Parts
  <2>2. Counted(Target[c]) = Parts(Target[c])
    BY <1>4 DEF AllInv, AllKind
  <2> QED BY <1>1, <2>1, <2>2
<1>5. \A c \in Callbacks : Kind[c] = "all" =>
          /\ calls'[c] = 1 => results'[c] = first'[On[c]]
          /\ state'[Target[c]] # "Pending" => Counted(Target[c])' = Parts(Target[c])
  BY <1>3, <1>4 DEF AllKind
<1> QED BY <1>2, <1>5 DEF AllInv, Parts

\* A callback that is no part of an all() runs to its end.
LEMMA AllFinished ==
    ASSUME CoreInv, CoreInv', AllInv, NEW t \in Threads, Step(t), Finished(t), UNCHANGED context,
           hand[t] \notin AllKind,
           \A c \in AllKind : state'[Target[c]] # "Pending" => state[Target[c]] # "Pending"
    PROVE  AllInv'
<1>1. \A c \in AllKind : Done(c)' <=> Done(c)
  BY FinishedDone DEF AllKind
<1>2. \A c \in AllKind : calls'[c] = 1 => calls[c] = 1
  BY FinishedPointwise DEF FinishedFacts, AllKind
<1> QED BY <1>1, <1>2, AllSame

\* then() resolves nothing, and resolve nothing but its promise.
LEMMA ThenPending ==
    ASSUME TypeOK, NEW t \in Threads, NEW c \in Callbacks, Then(t, c), NEW p \in Promises, state'[p] # "Pending"
    PROVE  state[p] # "Pending"
BY ConstantsAssumption DEF Then, ThenNow, TypeOK

LEMMA ResolvePending ==
    ASSUME TypeOK, NEW t \in Threads, NEW p \in Promises, NEW v, NEW from, Resolve(t, p, v, from),
           NEW q \in Promises, q # p, state'[q] # "Pending"
    PROVE  state[q] # "Pending"
BY DEF Resolve, promise, TypeOK

\* The first step of a part of an all().
LEMMA AllKept == ASSUME CoreInv, CoreInv', AllInv, NEW t \in Threads, KeepResult(t) PROVE AllInv'
<1> DEFINE c == hand[t]
<1>1. c \in AllKind /\ ~half[t] /\ Ran(c) /\ UNCHANGED <<state, first, hand, nCompleted>>
      /\ results' = [results EXCEPT ![c] = first[On[c]]]
  BY InHand DEF KeepResult, Running, AllKind, Kept
<1>2. \A d \in Callbacks : /\ calls'[d] = IF d = c THEN 1 ELSE calls[d]
                           /\ results'[d] = IF d = c THEN first[On[c]] ELSE results[d]
  <2>1. calls[c] = 0
    BY <1>1, InHand, ConstantsAssumption DEF AllKind
  <2> QED BY <1>1, <2>1 DEF Ran, CoreInv, TypeOK, AllKind
<1>3. \A d \in Callbacks : Done(d)' <=> Done(d)
  BY <1>1, <1>2 DEF Done
<1>4. \A p : Counted(p)' = Counted(p)
  BY <1>3 DEF Counted, Parts
<1>5. \A p \in Promises : (\E d \in Parts(p) : Kind[d] = "all") => nCompleted'[p] = Cardinality(Counted(p)')
  BY <1>1, <1>4 DEF AllInv
<1>6. \A d \in Callbacks : Kind[d] = "all" /\ calls'[d] = 1 => results'[d] = first'[On[d]]
  BY <1>1, <1>2 DEF AllInv
<1>7. \A d \in Callbacks : Kind[d] = "all" /\ state'[Target[d]] # "Pending"
                           => Counted(Target[d])' = Parts(Target[d])
  BY <1>1, <1>4 DEF AllInv
<1> QED BY <1>5, <1>6, <1>7 DEF AllInv, Parts

\* The second: the count is that of the results kept, so the last one finds the list full.
LEMMA AllCounted == ASSUME CoreInv, CoreInv', AllInv, NEW t \in Threads, CountResult(t) PROVE AllInv'
<1>0. PICK c \in AllKind : c = hand[t]
  BY InHand DEF CountResult, Running, AllKind
<1> DEFINE p == Target[c]
<1>1. /\ c \in Callbacks /\ Kind[c] = "all" /\ half[t] /\ half' = [half EXCEPT ![t] = FALSE] /\ UNCHANGED <<called, results>>
      /\ nCompleted' = [nCompleted EXCEPT ![p] = @ + 1]
  BY <1>0 DEF CountResult, AllKind
<1>2. Step(t) /\ Finished(t) /\ p \in Promises /\ c \in Parts(p) /\ Parts(p) \subseteq AllKind
  BY <1>0, <1>1, HalfFinished, AllParts DEF Step, GoOn, RunCallback
<1>3. \A d \in Callbacks : Done(d)' <=> Done(d) \/ d = c
  BY <1>0, <1>2, FinishedDone
<1>4. Counted(p)' = Counted(p) \cup {c} /\ c \notin Counted(p)
  <2>1. ~Done(c)
    BY <1>0 DEF Done
  <2> QED BY <1>2, <1>3, <2>1 DEF Counted, Parts
<1>5. ASSUME NEW q, q # p PROVE Counted(q)' = Counted(q)
  BY <1>3, <1>5 DEF Counted, Parts
<1>6. /\ IsFiniteSet(Parts(p)) /\ IsFiniteSet(Counted(p)) /\ Counted(p)' \subseteq Parts(p)
      /\ Cardinality(Counted(p)') = Cardinality(Counted(p)) + 1
  <2>1. IsFiniteSet(Parts(p))
    BY ConstantsAssumption, FS_Subset DEF Parts
  <2>2. Counted(p) \subseteq Parts(p) /\ Counted(p)' \subseteq Parts(p)
    BY <1>2, <1>4 DEF Counted
  <2>3. IsFiniteSet(Counted(p))
    BY <2>1, <2>2, FS_Subset
  <2> QED BY <1>4, <2>1, <2>2, <2>3, FS_AddElement
<1>7. nCompleted[p] = Cardinality(Counted(p)) /\ nCompleted'[p] = Cardinality(Counted(p)')
  <2>1. \E d \in Parts(p) : Kind[d] = "all"
    BY <1>1, <1>2 DEF AllKind
  <2>2. nCompleted[p] = Cardinality(Counted(p))
    BY <1>2, <2>1 DEF AllInv
  <2> QED BY <1>1, <1>2, <1>6, <2>2 DEF CoreInv, TypeOK
<1>8. ASSUME NEW q \in Promises, \E d \in Parts(q) : Kind[d] = "all"
      PROVE  nCompleted'[q] = Cardinality(Counted(q)')
  <2>1. CASE q = p
    BY <1>7, <2>1
  <2>2. CASE q # p
    <3>1. nCompleted'[q] = nCompleted[q]
      BY <1>1, <2>2 DEF CoreInv, TypeOK
    <3> QED BY <1>5, <1>8, <2>2, <3>1 DEF AllInv
  <2> QED BY <2>1, <2>2
<1>9. ASSUME NEW d \in Callbacks, Kind[d] = "all", calls'[d] = 1 PROVE results'[d] = first'[On[d]]
  <2>1. calls[d] = 1 /\ results'[d] = results[d] /\ results[d] = first[On[d]] /\ On[d] \in Promises
    BY <1>1, <1>9, ConstantsAssumption DEF called, AllInv
  <2>2. state[On[d]] # "Pending"
    BY <2>1 DEF CoreInv, RanInv
  <2> QED BY <1>2, <2>1, <2>2, OneHand
<1>10. ASSUME NEW d \in Callbacks, Kind[d] = "all", state'[Target[d]] # "Pending"
       PROVE  Counted(Target[d])' = Parts(Target[d])
  <2> DEFINE q == Target[d]
  <2>1. q \in Promises
    BY <1>10, AllParts DEF AllKind
  <2>2. CASE state[q] # "Pending"
    <3>1. Counted(q) = Parts(q)
      BY <1>10, <2>2 DEF AllInv
    <3>2. q # p
      BY <1>2, <1>4, <3>1
    <3> QED BY <1>5, <3>1, <3>2
  <2>3. CASE state[q] = "Pending"
    <3>1. IsLast(p) /\ q = p
      <4>1. CASE IsLast(p)
        <5>1. Resolve(t, p, List, Nothing)
          BY <1>0, <4>1 DEF CountResult
        <5> QED BY <1>2, <1>10, <2>1, <2>3, <4>1, <5>1, ResolvePending DEF CoreInv
      <4>2. CASE ~IsLast(p)
        <5>1. UNCHANGED state
          BY <1>0, <4>2 DEF CountResult, promise
        <5> QED BY <1>10, <2>3, <5>1
      <4> QED BY <4>1, <4>2
    <3>2. Cardinality(Counted(p)') = Cardinality(Parts(p))
      BY <1>6, <1>7, <3>1 DEF IsLast
    <3>3. Counted(p)' = Parts(p)
      BY <1>6, <3>2, FS_Subset
    <3> QED BY <3>1, <3>3
  <2> QED BY <2>2, <2>3
<1>11. \A q \in Promises : (\E d \in Parts(q) : Kind[d] = "all") => nCompleted'[q] = Cardinality(Counted(q)')
  BY <1>8
<1> QED BY <1>9, <1>10, <1>11 DEF AllInv, Parts

LEMMA AllStep == ASSUME CoreInv, CoreInv', AllInv, NEW t \in Threads, Step(t) PROVE AllInv'
<1> USE ConstantsAssumption
<1>0. TypeOK /\ Nothing \notin AllKind /\ \A c \in AllKind : Target[c] \in Promises
  BY AllParts DEF CoreInv, AllKind
<1>1. CASE CallResolve(t)
  <2>1. PICK p \in shared \ Derived, v \in Values : Resolve(t, p, v, Nothing)
    BY <1>1 DEF CallResolve
  <2>2. Finished(t) /\ hand[t] \notin AllKind /\ UNCHANGED context
    BY <1>0, <1>1, NothingFinished DEF CallResolve, Idle
  <2>3. p \in Promises /\ \A c \in AllKind : Target[c] # p
    BY <1>0, <2>1, AllParts DEF TypeOK
  <2>4. \A c \in AllKind : state'[Target[c]] # "Pending" => state[Target[c]] # "Pending"
    BY <1>0, <2>1, <2>3, ResolvePending
  <2> QED BY <2>2, <2>4, AllFinished
<1>2. CASE CallThen(t) \/ CombineThen(t) \/ Wait(t)
  <2>1. PICK c \in Callbacks : Then(t, c)
    BY <1>2 DEF CallThen, CombineThen, Wait, Passable, Waiters
  <2>2. hand[t] = Nothing /\ UNCHANGED <<half, called, context>>
    BY <1>2 DEF CallThen, CombineThen, Wait, Idle
  <2>3. Finished(t)
    BY <2>2, NothingFinished
  <2>4. \A d \in AllKind : state'[Target[d]] # "Pending" => state[Target[d]] # "Pending"
    BY <1>0, <2>1, ThenPending
  <2> QED BY <1>0, <2>2, <2>3, <2>4, AllFinished
<1>3. CASE Combine(t) \/ Combined(t) \/ EndWait(t) \/ Finish(t)
  <2>1. UNCHANGED <<state, hand, calls, context>>
    BY <1>3 DEF Combine, Combined, EndWait, Finish, promise, called
  <2>2. \A c \in AllKind : Done(c)' <=> Done(c)
    BY <2>1 DEF Done
  <2> QED BY <2>1, <2>2, AllSame
<1>4. CASE RunUser(t) \/ SetEvent(t)
  <2>1. hand[t] \in Callbacks /\ hand[t] \notin AllKind /\ UNCHANGED <<state, context>>
    BY <1>4, InHand DEF RunUser, SetEvent, Running, promise, AllKind
  <2>2. CASE RunUser(t)
    BY <2>1, <2>2, InHand, RanFinished, AllFinished DEF RunUser, Running
  <2>3. CASE SetEvent(t)
    BY <2>1, <2>3, HalfFinished, AllFinished DEF SetEvent
  <2> QED BY <1>4, <2>2, <2>3
<1>5. CASE Forward(t)
  <2> DEFINE c == hand[t]
             from == IF Kind[c] = "move" THEN On[c] ELSE Nothing
  <2>1. c \in Callbacks /\ c # Nothing /\ ~half[t] /\ Ran(c) /\ Kind[c] \in {"copy", "move"}
        /\ UNCHANGED <<half, context>>
    BY <1>5, InHand DEF Forward, Running
  <2>2. Finished(t) /\ c \notin AllKind
    BY <2>1, RanFinished DEF AllKind
  <2>3. Resolve(t, Target[c], result[On[c]], from)
    BY <1>5 DEF Forward
  <2>4. Target[c] \in Promises /\ \A d \in AllKind : Target[d] # Target[c]
    BY <2>1, HasTarget, TargetsAssumption DEF AllKind
  <2> HIDE DEF from
  <2>5. \A d \in AllKind : state'[Target[d]] # "Pending" => state[Target[d]] # "Pending"
    BY <1>0, <2>3, <2>4, ResolvePending
  <2> QED BY <2>1, <2>2, <2>5, AllFinished
<1>6. CASE Chain(t)
  <2>1. hand[t] \in Callbacks /\ hand[t] \notin AllKind /\ ~half[t] /\ Ran(hand[t])
        /\ Kind[hand[t]] = "chain" /\ UNCHANGED <<half, context>>
    BY <1>6, InHand DEF Chain, Running, AllKind
  <2>2. Finished(t) /\ Inner[hand[t]] \in Callbacks
    BY <2>1, RanFinished, TargetsAssumption
  <2>3. \A d \in AllKind : state'[Target[d]] # "Pending" => state[Target[d]] # "Pending"
    <3>1. CASE Then(t, Inner[hand[t]])
      BY <1>0, <2>2, <3>1, ThenPending
    <3>2. ASSUME NEW default \in Values, Resolve(t, Target[hand[t]], default, Nothing)
          PROVE  \A d \in AllKind : state'[Target[d]] # "Pending" => state[Target[d]] # "Pending"
      <4>1. Target[hand[t]] \in Promises /\ \A d \in AllKind : Target[d] # Target[hand[t]]
        BY <2>1, HasTarget, TargetsAssumption DEF AllKind
      <4> QED BY <1>0, <3>2, <4>1, ResolvePending
    <3> QED BY <1>6, <3>1, <3>2 DEF Chain
  <2> QED BY <2>1, <2>2, <2>3, AllFinished
<1>7. CASE KeepResult(t)
  BY <1>7, AllKept
<1>8. CASE CountResult(t)
  BY <1>8, AllCounted
<1>9. CASE GiveResult(t)
  <2>1. hand[t] \in Callbacks /\ hand[t] \notin AllKind /\ Ran(hand[t]) /\ UNCHANGED <<state, hand, context>>
    BY <1>9, InHand DEF GiveResult, Running, AllKind
  <2>2. \A c \in AllKind : calls'[c] = calls[c]
    BY <2>1 DEF Ran, CoreInv, TypeOK, AllKind
  <2>3. \A c \in AllKind : Done(c)' <=> Done(c)
    BY <2>1, <2>2 DEF Done
  <2> QED BY <2>1, <2>2, <2>3, AllSame
<1> QED BY <1>1, <1>2, <1>3, <1>4, <1>5, <1>6, <1>7, <1>8, <1>9
  DEF Step, CallSome, GoOn, RunCallback

-----------------------------------------------------------------------------
(* The invariant of wait()                                                 *)

\* A step that passes no callback of a wait, begins none and ends none.
LEMMA WaitSame ==
    ASSUME CoreInv, WaitInv, UNCHANGED <<waits, events, ended, strayed>>,
           passed \subseteq passed', passed' \cap Waiters \subseteq passed,
           \A c \in Waiters : c \in events /\ Done(c) => Done(c)'
    PROVE  WaitInv'
<1>1. \A c : InFrame(c)' <=> InFrame(c)
  BY DEF InFrame
<1>2. \A t, u \in Threads : waits'[t] = waits'[u] /\ waits'[t] # Nothing => t = u
  BY DEF WaitInv
<1>3. \A t \in Threads : waits'[t] # Nothing => waits'[t] \in passed' /\ ended'[waits'[t]] = Nothing
  BY DEF WaitInv
<1>4. \A c \in Waiters :
          /\ c \in passed' => InFrame(c)' \/ ended'[c] # Nothing
          /\ ended'[c] # Nothing => c \in passed'
  BY <1>1 DEF WaitInv
<1>5. \A c \in Waiters :
          /\ c \in events' => Done(c)'
          /\ ended'[c] = "set" => c \in events'
          /\ c \in strayed' => ended'[c] \in {"timeout", "stop"}
  BY DEF WaitInv
<1> QED BY <1>2, <1>3, <1>4, <1>5 DEF WaitInv

\* The callback of a wait that was given up, and no other, finds the frame gone.
LEMMA FrameGone ==
    ASSUME CoreInv, WaitInv, NEW t \in Threads, NEW c \in Waiters, hand[t] = c, ~InFrame(c)
    PROVE  ended[c] \in {"timeout", "stop"}
<1>1. c \in Callbacks /\ c # Nothing
  BY ConstantsAssumption DEF Waiters
<1>2. c \in passed
  BY <1>1 DEF CoreInv, HandInv
<1>3. ended[c] # Nothing /\ ended[c] \in {"set", "timeout", "stop", Nothing}
  BY <1>1, <1>2 DEF WaitInv, CoreInv, TypeOK
<1>4. c \notin events
  BY DEF WaitInv, Done
<1> QED BY <1>3, <1>4 DEF WaitInv

LEMMA WaitBegins == ASSUME CoreInv, CoreInv', WaitInv, NEW t \in Threads, Wait(t) PROVE WaitInv'
<1>1. PICK c \in Waiters \ passed : Then(t, c) /\ waits' = [waits EXCEPT ![t] = c]
  BY DEF Wait
<1>2. /\ waits[t] = Nothing /\ hand[t] = Nothing /\ passed' = passed \cup {c}
      /\ UNCHANGED <<half, called, events, ended, strayed>>
  BY <1>1 DEF Wait, Idle, Then
<1>3. Finished(t) /\ Step(t)
  BY <1>2, NothingFinished DEF Step, CallSome
<1>4. /\ c \in Callbacks /\ c # Nothing /\ ended[c] = Nothing
      /\ \A u \in Threads : /\ waits[u] # c
                            /\ waits'[u] = IF u = t THEN c ELSE waits[u]
  BY <1>1, ConstantsAssumption DEF WaitInv, Waiters, CoreInv, TypeOK
<1>5. \A t1, t2 \in Threads : waits'[t1] = waits'[t2] /\ waits'[t1] # Nothing => t1 = t2
  BY <1>2, <1>4 DEF WaitInv
<1>6. \A u \in Threads : waits'[u] # Nothing => waits'[u] \in passed' /\ ended'[waits'[u]] = Nothing
  BY <1>2, <1>4 DEF WaitInv
<1>7. \A d \in Waiters : InFrame(d)' <=> InFrame(d) \/ d = c
  <2>1. InFrame(c)'
    BY <1>4 DEF InFrame
  <2>2. ASSUME NEW d, d # c, InFrame(d)' PROVE InFrame(d)
    BY <1>4, <2>2 DEF InFrame
  <2>3. ASSUME NEW d \in Waiters, InFrame(d) PROVE InFrame(d)'
    BY <1>2, <1>4, <2>3, ConstantsAssumption DEF InFrame, Waiters
  <2> QED BY <2>1, <2>2, <2>3
<1>8. \A d \in Waiters : d \in events => Done(d)'
  BY <1>3, FinishedDone DEF WaitInv, Waiters
<1>9. \A d \in Waiters :
          /\ d \in passed' => InFrame(d)' \/ ended'[d] # Nothing
          /\ ended'[d] # Nothing => d \in passed'
          /\ d \in events' => Done(d)'
          /\ ended'[d] = "set" => d \in events'
          /\ d \in strayed' => ended'[d] \in {"timeout", "stop"}
  BY <1>2, <1>7, <1>8 DEF WaitInv
<1> QED BY <1>5, <1>6, <1>9 DEF WaitInv

LEMMA WaitEnds == ASSUME CoreInv, CoreInv', WaitInv, NEW t \in Threads, EndWait(t) PROVE WaitInv'
<1> DEFINE c == waits[t]
<1>1. PICK reason \in {"set", "timeout", "stop"} :
          /\ reason = "set" => IsSet(c)
          /\ ended' = [ended EXCEPT ![c] = reason]
  BY DEF EndWait
<1>2. /\ c # Nothing /\ waits' = [waits EXCEPT ![t] = Nothing] /\ c \in Waiters /\ c \in Callbacks
      /\ UNCHANGED <<passed, events, strayed, hand, calls>>
  BY DEF EndWait, CoreInv, TypeOK, Waiters, called
<1>3. /\ \A u \in Threads : waits'[u] = IF u = t THEN Nothing ELSE waits[u]
      /\ \A d \in Callbacks : ended'[d] = IF d = c THEN reason ELSE ended[d]
      /\ \A d \in Waiters : d \in Callbacks
      /\ \A u \in Threads : waits[u] # Nothing => waits[u] \in Callbacks
      /\ reason # Nothing
  BY <1>1, <1>2, ConstantsAssumption DEF Waiters, CoreInv, TypeOK
<1>4. \A u \in Threads : u # t /\ waits[u] # Nothing => waits[u] # c
  BY DEF WaitInv
<1>5. ended[c] = Nothing /\ c \notin strayed /\ c \in passed /\ (reason = "set" => c \in events)
  BY <1>1, <1>2, ConstantsAssumption DEF WaitInv, IsSet
<1>6. \A t1, t2 \in Threads : waits'[t1] = waits'[t2] /\ waits'[t1] # Nothing => t1 = t2
  BY <1>3 DEF WaitInv
<1>7. \A u \in Threads : waits'[u] # Nothing => waits'[u] \in passed' /\ ended'[waits'[u]] = Nothing
  BY <1>2, <1>3, <1>4 DEF WaitInv
<1>8. \A d \in Waiters : d # c /\ InFrame(d) => InFrame(d)'
  BY <1>3 DEF InFrame
<1>9. \A d \in Waiters : d \in events' => Done(d)'
  BY <1>2 DEF WaitInv, Done
<1>10. \A d \in Waiters :
          /\ d \in passed' => InFrame(d)' \/ ended'[d] # Nothing
          /\ ended'[d] # Nothing => d \in passed'
  BY <1>2, <1>3, <1>5, <1>8 DEF WaitInv
<1>11. \A d \in Waiters :
          /\ ended'[d] = "set" => d \in events'
          /\ d \in strayed' => ended'[d] \in {"timeout", "stop"}
  BY <1>2, <1>3, <1>5 DEF WaitInv
<1> QED BY <1>6, <1>7, <1>9, <1>10, <1>11 DEF WaitInv
\* The callback of a wait touches the frame, and its last step sets the event.
LEMMA WaitTouches ==
    ASSUME CoreInv, WaitInv, NEW t \in Threads, NEW c \in Waiters, hand[t] = c, Touch(c),
           UNCHANGED <<passed, waits, ended>>,
           \A d \in Waiters : d \in events' => Done(d)', events \subseteq events'
    PROVE  WaitInv'
<1>1. \A d : InFrame(d)' <=> InFrame(d)
  BY DEF InFrame
<1>2. \A t1, t2 \in Threads : waits'[t1] = waits'[t2] /\ waits'[t1] # Nothing => t1 = t2
  BY DEF WaitInv
<1>3. \A u \in Threads : waits'[u] # Nothing => waits'[u] \in passed' /\ ended'[waits'[u]] = Nothing
  BY DEF WaitInv
<1>4. \A d \in Waiters :
          /\ d \in passed' => InFrame(d)' \/ ended'[d] # Nothing
          /\ ended'[d] # Nothing => d \in passed'
          /\ ended'[d] = "set" => d \in events'
  BY <1>1 DEF WaitInv
<1>5. \A d \in Waiters : d \in strayed' => ended'[d] \in {"timeout", "stop"}
  BY FrameGone DEF Touch, WaitInv
<1> QED BY <1>2, <1>3, <1>4, <1>5 DEF WaitInv

LEMMA WaitStep == ASSUME CoreInv, CoreInv', WaitInv, NEW t \in Threads, Step(t) PROVE WaitInv'
<1> USE ConstantsAssumption
<1>0. TypeOK /\ \A c \in Waiters : c \in Callbacks /\ c # Nothing /\ Kind[c] = "wait" /\ Target[c] = Nothing
  BY TargetsAssumption DEF CoreInv, Waiters
<1>a. ASSUME Finished(t) PROVE \A c \in Waiters : c \in events /\ Done(c) => Done(c)'
  BY <1>0, <1>a, FinishedDone
<1>1. CASE CallThen(t) \/ CombineThen(t)
  <2>1. PICK c \in Callbacks : Then(t, c) /\ c \notin Waiters
    <3>1. CASE CallThen(t)
      BY <1>0, <3>1 DEF CallThen, Passable
    <3>2. CASE CombineThen(t)
      BY <1>0, <3>2 DEF CombineThen, Passable, Parts
    <3> QED BY <1>1, <3>1, <3>2
  <2>2. hand[t] = Nothing /\ UNCHANGED <<half, called, waits, events, ended, strayed>>
    BY <1>1 DEF CallThen, CombineThen, Idle, waiting
  <2>3. Finished(t) /\ passed' = passed \cup {c}
    BY <2>1, <2>2, NothingFinished DEF Then
  <2> QED BY <1>a, <2>1, <2>2, <2>3, WaitSame
<1>2. CASE Wait(t)
  BY <1>2, WaitBegins
<1>3. CASE EndWait(t)
  BY <1>3, WaitEnds
<1>4. CASE Combine(t) \/ Combined(t) \/ Finish(t)
  <2>1. UNCHANGED <<hand, calls, passed, waits, events, ended, strayed>>
    BY <1>4 DEF Combine, Combined, Finish, waiting, called
  <2>2. \A c \in Waiters : Done(c) => Done(c)'
    BY <2>1 DEF Done
  <2> QED BY <2>1, <2>2, WaitSame
<1>5. CASE CallResolve(t) \/ RunUser(t) \/ Forward(t) \/ CountResult(t)
  <2>1. UNCHANGED <<passed, waits, events, ended, strayed>>
    BY <1>5 DEF CallResolve, RunUser, Forward, CountResult, waiting
  <2>2. Finished(t)
    <3>1. CASE CallResolve(t)
      BY <3>1, NothingFinished DEF CallResolve, Idle
    <3>2. CASE RunUser(t)
      BY <3>2, InHand, RanFinished DEF RunUser, Running
    <3>3. CASE Forward(t)
      BY <3>3, InHand, RanFinished DEF Forward, Running
    <3>4. CASE CountResult(t)
      BY <3>4, InHand, HalfFinished DEF CountResult, Running
    <3> QED BY <1>5, <3>1, <3>2, <3>3, <3>4
  <2> QED BY <1>a, <2>1, <2>2, WaitSame
<1>6. CASE Chain(t)
  <2> DEFINE c == Inner[hand[t]]
  <2>1. hand[t] \in Callbacks /\ ~half[t] /\ Ran(hand[t]) /\ Kind[hand[t]] = "chain"
        /\ UNCHANGED <<half, waits, events, ended, strayed>>
    BY <1>6, InHand DEF Chain, Running, waiting
  <2>2. Finished(t) /\ (passed' = passed \cup {c} \/ passed' = passed)
    BY <1>6, <2>1, RanFinished DEF Chain, Then
  <2>3. c \notin Waiters
    BY <1>0, <2>1, TargetsAssumption
  <2> QED BY <1>a, <2>1, <2>2, <2>3, WaitSame
<1>7. CASE KeepResult(t)
  <2>1. hand[t] \in Callbacks /\ hand[t] \notin Waiters /\ Ran(hand[t])
        /\ UNCHANGED <<hand, passed, waits, events, ended, strayed>>
    BY <1>0, <1>7, InHand DEF KeepResult, Running, waiting
  <2>2. \A c \in Waiters : Done(c) => Done(c)'
    BY <1>0, <2>1 DEF Ran, Done, TypeOK
  <2> QED BY <2>1, <2>2, WaitSame
<1>8. CASE GiveResult(t)
  <2>0. PICK c \in Waiters : c = hand[t]
    BY <1>8, InHand DEF GiveResult, Running, Waiters
  <2>1. Ran(c) /\ Touch(c) /\ UNCHANGED <<hand, passed, waits, events, ended>>
    BY <1>8, <2>0 DEF GiveResult
  <2>2. \A d \in Waiters : Done(d) => Done(d)'
    BY <1>0, <2>0, <2>1 DEF Ran, Done, TypeOK
  <2>3. \A d \in Waiters : d \in events' => Done(d)'
    BY <2>1, <2>2 DEF WaitInv
  <2> QED BY <2>0, <2>1, <2>3, WaitTouches
<1>9. CASE SetEvent(t)
  <2>0. PICK c \in Waiters : c = hand[t]
    BY <1>9, InHand DEF SetEvent, Running, Waiters
  <2>1. Touch(c) /\ events' = events \cup {c} /\ UNCHANGED <<passed, waits, ended>>
    BY <1>9, <2>0 DEF SetEvent
  <2>2. Finished(t)
    BY <1>0, <1>9, <2>0, HalfFinished DEF SetEvent
  <2>3. Done(c)' /\ \A d \in Waiters : Done(d) => Done(d)'
    BY <1>0, <2>0, <2>2, FinishedDone
  <2>4. \A d \in Waiters : d \in events' => Done(d)'
    BY <2>1, <2>3 DEF WaitInv
  <2> QED BY <2>0, <2>1, <2>4, WaitTouches
<1> QED BY <1>1, <1>2, <1>3, <1>4, <1>5, <1>6, <1>7, <1>8, <1>9
  DEF Step, CallSome, GoOn, RunCallback
-----------------------------------------------------------------------------
(* The theorems                                                            *)

LEMMA InvInit == Init => IInv
<1> SUFFICES ASSUME Init PROVE IInv
  OBVIOUS
<1> USE ConstantsAssumption, TargetsAssumption DEF Init
<1>1. CoreInv
  BY CoreInit
<1>2. AllInv
  <2>1. \A c \in Callbacks : ~Done(c)
    BY DEF Done
  <2>2. \A p : Counted(p) = {}
    BY <2>1 DEF Counted, Parts
  <2>3. \A c \in AllKind : state[Target[c]] = "Pending"
    BY AllParts
  <2>4. \A c \in Callbacks : Kind[c] = "all" => calls[c] # 1 /\ state[Target[c]] = "Pending"
    BY <2>3 DEF AllKind
  <2>5. \A p \in Promises : nCompleted[p] = Cardinality(Counted(p))
    BY <2>2, FS_EmptySet
  <2> QED BY <2>4, <2>5 DEF AllInv
<1>3. WaitInv
  BY DEF WaitInv, Waiters
<1> QED BY <1>1, <1>2, <1>3 DEF IInv

LEMMA InvNext == IInv /\ [Next]_vars => IInv'
<1> SUFFICES ASSUME IInv, [Next]_vars PROVE IInv'
  OBVIOUS
<1>1. CASE Next
  <2>1. PICK t \in Threads : Step(t)
    BY <1>1 DEF Next, Step
  <2>2. CoreInv'
    BY <2>1, CoreStep DEF IInv
  <2> QED BY <2>1, <2>2, AllStep, WaitStep DEF IInv
<1>2. CASE UNCHANGED vars
  <2>1. CoreInv'
    <3>1. TypeOK'
      BY <1>2 DEF IInv, CoreInv, TypeOK, vars
    <3>2. UNCHANGED <<promise, hand, half, passed, called>>
      BY <1>2 DEF vars, promise, called
    <3> QED BY <3>1, <3>2, CoreUnchanged DEF IInv
  <2>2. AllInv'
    BY <1>2 DEF IInv, AllInv, Counted, Done, Parts, vars
  <2>3. WaitInv'
    BY <1>2 DEF IInv, WaitInv, InFrame, Done, Waiters, vars
  <2> QED BY <2>1, <2>2, <2>3 DEF IInv
<1> QED BY <1>1, <1>2

\* The inductive invariant holds, whatever the threads, the promises and what is made of
\* them.
THEOREM Invariance == Spec => []IInv
BY InvInit, InvNext, PTL DEF Spec

\* Every variable keeps its type: no promise is resolved with what was moved elsewhere.
THEOREM TypeCorrect == Spec => []TypeOK
<1>1. IInv => TypeOK
  BY DEF IInv, CoreInv
<1> QED BY <1>1, Invariance, PTL

\* resolve and then hand the result to one callback, once, and it is the result the
\* promise was resolved with first.
THEOREM TakenOnce == Spec => []OneTaker
<1>1. IInv => OneTaker
  <2> SUFFICES ASSUME IInv, NEW c \in Callbacks, NEW d \in Callbacks
               PROVE  /\ calls[c] \in {0, 1}
                      /\ calls[c] = 1 => seen[c] = first[On[c]] /\ seen[c] # Nothing
                      /\ calls[c] = 1 /\ calls[d] = 1 /\ On[c] = On[d] => c = d
    BY DEF OneTaker
  <2>1. calls[c] \in {0, 1} /\ On[c] \in Promises
    BY ConstantsAssumption DEF IInv, CoreInv, RanInv
  <2>2. calls[c] = 1 => seen[c] = first[On[c]] /\ first[On[c]] # Nothing
    BY <2>1 DEF IInv, CoreInv, RanInv, ResultInv
  <2>3. calls[c] = 1 /\ calls[d] = 1 /\ On[c] = On[d] => c = d
    BY DEF IInv, CoreInv, TakerInv, Took
  <2> QED BY <2>1, <2>2, <2>3
<1> QED BY <1>1, Invariance, PTL

\* The list of an all() is full when its promise is resolved, whichever thread counted
\* the last result.
THEOREM AllIsComplete == Spec => []AllComplete
<1>1. IInv => AllComplete
  <2> SUFFICES ASSUME IInv, NEW c \in AllKind, state[Target[c]] # "Pending"
               PROVE  results[c] # Nothing /\ results[c] = first[On[c]]
    BY DEF AllComplete, AllKind
  <2>1. c \in Counted(Target[c])
    BY AllParts DEF IInv, AllInv, AllKind
  <2>2. calls[c] = 1 /\ results[c] = first[On[c]] /\ On[c] \in Promises
    BY <2>1, ConstantsAssumption DEF Counted, Done, IInv, AllInv, AllKind
  <2>3. state[On[c]] = "Completed" /\ first[On[c]] # Nothing
    BY <2>2 DEF IInv, CoreInv, RanInv, ResultInv, AllKind
  <2> QED BY <2>2, <2>3
<1> QED BY <1>1, Invariance, PTL

\* Only a wait() that was given up leaves its callback a frame that is gone, and one that
\* was not returns with the result.
THEOREM WaitSafe == Spec => []WaitIsSafe
<1>1. IInv => WaitIsSafe
  BY DEF IInv, WaitInv, Done, WaitIsSafe
<1> QED BY <1>1, Invariance, PTL
=============================================================================
