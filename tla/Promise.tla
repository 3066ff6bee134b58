------------------------------ MODULE Promise ------------------------------
(***************************************************************************)
(* Promise: a result that one thread gives and one callback gets, whoever  *)
(* comes first, and the promises made of others: from, thenReturn,         *)
(* thenPromise, race, all and wait.                                        *)
(*                                                                         *)
(* Each section under a promise's spin lock is a step, and so is each thing*)
(* a callback does once the lock was given back.  A callback is the last   *)
(* thing resolve and then do, so a thread runs one at a time; what a user's*)
(* callback calls is what its thread calls next.  The promise outlives its *)
(* callback: see RefCount.                                                 *)
(***************************************************************************)
EXTENDS Integers, FiniteSets

CONSTANTS
    Threads,
    Promises,
    Values,     \* what the promises are resolved with
    Callbacks,  \* each is passed to then() at most once
    On,         \* the promise whose then() it is passed to
    Kind,       \* what it does, see Kinds
    Target,     \* the promise it resolves, Nothing if it resolves none
    Inner,      \* of a chain (thenPromise): what it passes to the promise it gets
    Timed,      \* the waits with a timeout
    Moved, List, Nothing

\* user: the program's own; wait: sets the waiter's event; copy: from, thenReturn;
\* move: race, dispatchPromise; all: keeps its result in the list; chain: thenPromise.
Kinds == {"user", "wait", "copy", "move", "all", "chain"}
Waiters == {c \in Callbacks : Kind[c] = "wait"}

ASSUME ConstantsAssumption ==
    /\ On \in [Callbacks -> Promises] /\ Kind \in [Callbacks -> Kinds]
    /\ Target \in [Callbacks -> Promises \cup {Nothing}]
    /\ Inner \in [Callbacks -> Callbacks \cup {Nothing}]
    /\ Timed \subseteq Waiters
    /\ Nothing \notin Promises \cup Callbacks \cup Values \cup {Moved, List, "set", "timeout", "stop"}
    /\ Moved \notin Values \cup {List} /\ List \notin Values
    /\ IsFiniteSet(Callbacks)

\* What the functions that make promises of others build: a chain may go on with any
\* promise, itself made of others, even the one it resolves.
ASSUME TargetsAssumption == \A c \in Callbacks :
    /\ Target[c] = Nothing <=> Kind[c] \in {"user", "wait"}
    /\ Kind[c] = "chain" <=> Inner[c] # Nothing
    /\ Kind[c] = "chain" => Kind[Inner[c]] = "move" /\ Target[Inner[c]] = Target[c]
    /\ \A d \in Callbacks :
          /\ Inner[c] = Inner[d] /\ Inner[c] # Nothing => c = d
          /\ Kind[c] = "all" /\ Target[d] = Target[c] => Kind[d] = "all"

VARIABLES
    state,      \* m_state
    result,     \* m_result
    callback,   \* m_callback
    hand,       \* the callback each thread is running
    half,       \* it has done the first of its two steps
    waits,      \* the wait() each thread is in
    combines,   \* the promise each thread is making of others
    shared,     \* the promises that have been given to the program
    passed,     \* the callbacks that were passed to then()
    events,     \* the events of waits that were set
    stopping,   \* the threads that were asked to end
    nCompleted, \* of an all(): the number of results
    results,    \* of an all(): the result of each
    first,      \* what each promise was resolved with first (history)
    calls,      \* how often each callback ran (history)
    seen,       \* the result it ran with (history)
    ended,      \* why each wait() returned (history)
    strayed     \* waits whose callback touched a frame that was gone (history)

vars == <<state, result, callback, hand, half, waits, combines, shared, passed, events,
          stopping, nCompleted, results, first, calls, seen, ended, strayed>>
promise == <<state, result, callback, first>>
context == <<nCompleted, results>>
waiting == <<waits, events, stopping, ended, strayed>>
program == <<combines, shared>>
called == <<calls, seen>>

Derived == {Target[c] : c \in Callbacks} \ {Nothing}
Parts(p) == {c \in Callbacks : Target[c] = p}
Passable == {c \in Callbacks : \A d \in Callbacks : Inner[d] # c}

\* A promise of the program's is pending, or made by fromValue.
Init ==
    /\ \E given \in [Promises -> Values \cup {Nothing}] :
          /\ \A p \in Derived : given[p] = Nothing
          /\ state = [p \in Promises |-> IF given[p] = Nothing THEN "Pending" ELSE "Resolved"]
          /\ result = given /\ first = given
    /\ callback = [p \in Promises |-> Nothing]
    /\ hand = [t \in Threads |-> Nothing] /\ half = [t \in Threads |-> FALSE]
    /\ waits = [t \in Threads |-> Nothing] /\ combines = [t \in Threads |-> Nothing]
    /\ shared = Promises \ Derived /\ passed = {} /\ events = {} /\ stopping = {}
    /\ nCompleted = [p \in Promises |-> 0] /\ results = [c \in Callbacks |-> Nothing]
    /\ calls = [c \in Callbacks |-> 0] /\ seen = [c \in Callbacks |-> Nothing]
    /\ ended = [c \in Callbacks |-> Nothing] /\ strayed = {}

Idle(t) == hand[t] = Nothing /\ waits[t] = Nothing /\ combines[t] = Nothing

-----------------------------------------------------------------------------
(* resolve and then: the section under m_lock                              *)

\* Faulty variant: a result that nobody has taken yet is replaced.
MayResolve_Again(p) == state[p] # "Completed"

MayResolve(p) == state[p] = "Pending"

\* What was moved into the promise is gone from where it came from.
Resolve(t, p, v, from) ==
    \/ /\ ~MayResolve(p) /\ hand' = [hand EXCEPT ![t] = Nothing] /\ UNCHANGED promise
    \/ /\ MayResolve(p)
       /\ state' = [state EXCEPT ![p] = IF callback[p] = Nothing THEN "Resolved" ELSE "Completed"]
       /\ result' = [x \in Promises |-> IF x = p THEN v ELSE IF x = from THEN Moved ELSE result[x]]
       /\ hand' = [hand EXCEPT ![t] = callback[p]]
       /\ callback' = [callback EXCEPT ![p] = Nothing]
       /\ first' = [first EXCEPT ![p] = IF @ = Nothing THEN v ELSE @]

\* Faulty variant: a promise that is resolved already keeps the callback for later.
ThenNow_Never(p) == FALSE

ThenNow(p) == state[p] = "Resolved"

\* A callback given to a promise that is pending replaces the one before; given to
\* one whose result was taken it is dropped.
Then(t, c) ==
    LET p == On[c] IN
    /\ passed' = passed \cup {c}
    /\ \/ /\ ThenNow(p) /\ state' = [state EXCEPT ![p] = "Completed"]
          /\ hand' = [hand EXCEPT ![t] = c] /\ UNCHANGED callback
       \/ /\ ~ThenNow(p) /\ state[p] # "Completed"
          /\ callback' = [callback EXCEPT ![p] = c] /\ hand' = [hand EXCEPT ![t] = Nothing]
          /\ UNCHANGED state
       \/ /\ state[p] = "Completed" /\ hand' = [hand EXCEPT ![t] = Nothing]
          /\ UNCHANGED <<state, callback>>
    /\ UNCHANGED <<result, first>>

-----------------------------------------------------------------------------
(* What the program calls                                                  *)
CallResolve(t) ==
    /\ Idle(t)
    /\ \E p \in shared \ Derived, v \in Values : Resolve(t, p, v, Nothing)
    /\ UNCHANGED <<half, passed, context, waiting, program, called>>

CallThen(t) ==
    /\ Idle(t)
    /\ \E c \in Passable \ passed : Kind[c] = "user" /\ On[c] \in shared /\ Then(t, c)
    /\ UNCHANGED <<half, context, waiting, program, called>>

\* from, thenReturn, thenPromise, race, all: the new promise is returned once a
\* callback was passed to each of the others.
Combine(t) ==
    /\ Idle(t)
    /\ \E p \in Derived \ shared :
          /\ \A u \in Threads : combines[u] # p
          /\ {On[c] : c \in Parts(p) \cap Passable} \subseteq shared
          /\ combines' = [combines EXCEPT ![t] = p]
    /\ UNCHANGED <<promise, hand, half, shared, passed, context, waiting, called>>

CombineThen(t) ==
    /\ hand[t] = Nothing /\ combines[t] # Nothing
    /\ \E c \in (Parts(combines[t]) \cap Passable) \ passed : Then(t, c)
    /\ UNCHANGED <<half, context, waiting, program, called>>

Combined(t) ==
    /\ hand[t] = Nothing /\ combines[t] # Nothing
    /\ Parts(combines[t]) \cap Passable \subseteq passed
    /\ shared' = shared \cup {combines[t]}
    /\ combines' = [combines EXCEPT ![t] = Nothing]
    /\ UNCHANGED <<promise, hand, half, passed, context, waiting, called>>

Wait(t) ==
    /\ Idle(t)
    /\ \E c \in Waiters \ passed :
          /\ On[c] \in shared /\ Then(t, c) /\ waits' = [waits EXCEPT ![t] = c]
    /\ UNCHANGED <<half, events, stopping, ended, strayed, context, program, called>>

\* Faulty variant: wait() looks at the promise instead of its event.
IsSet_State(c) == state[On[c]] # "Pending"

IsSet(c) == c \in events

\* wait() is over: by the event, by the timeout, or because its thread is to end (it
\* then returns no if it was to end already, and yes if it was told meanwhile).
EndWait(t) ==
    /\ waits[t] # Nothing /\ hand[t] = Nothing
    /\ \E reason \in {"set", "timeout", "stop"} :
          /\ reason = "set" => IsSet(waits[t])
          /\ reason = "timeout" => waits[t] \in Timed
          /\ reason = "stop" => t \in stopping
          /\ ended' = [ended EXCEPT ![waits[t]] = reason]
    /\ waits' = [waits EXCEPT ![t] = Nothing]
    /\ UNCHANGED <<promise, hand, half, passed, events, stopping, strayed, context, program, called>>

\* Only a thread that waits minds that it is to end.
Finish(t) ==
    /\ waits[t] # Nothing
    /\ stopping' = stopping \cup {t}
    /\ UNCHANGED <<promise, hand, half, waits, passed, events, ended, strayed, context, program, called>>

-----------------------------------------------------------------------------
(* What a callback does                                                    *)
Running(t, kinds) == hand[t] # Nothing /\ Kind[hand[t]] \in kinds
Ran(c) == /\ calls' = [calls EXCEPT ![c] = @ + 1]
          /\ seen' = [seen EXCEPT ![c] = result[On[c]]]

RunUser(t) ==
    /\ Running(t, {"user"}) /\ Ran(hand[t])
    /\ hand' = [hand EXCEPT ![t] = Nothing]
    /\ UNCHANGED <<promise, half, passed, context, waiting, program>>

Forward(t) ==
    /\ Running(t, {"copy", "move"})
    /\ LET c == hand[t] IN
          /\ Ran(c)
          /\ Resolve(t, Target[c], result[On[c]], IF Kind[c] = "move" THEN On[c] ELSE Nothing)
    /\ UNCHANGED <<half, passed, context, waiting, program>>

\* The program's part of thenPromise() gives the promise to go on with, or a null one,
\* whose then() runs the callback with a default value.  What it calls for that, to make
\* the promise of others say, is what another thread calls before this step.
Chain(t) ==
    /\ Running(t, {"chain"}) /\ Ran(hand[t])
    /\ \/ On[Inner[hand[t]]] \in shared /\ Then(t, Inner[hand[t]])
       \/ /\ \E default \in Values : Resolve(t, Target[hand[t]], default, Nothing)
          /\ UNCHANGED passed
    /\ UNCHANGED <<half, context, waiting, program>>

Kept(c) == result[On[c]]

\* The result goes to its place in the list, then it is counted; the last to be
\* counted resolves.
KeepResult(t) ==
    /\ Running(t, {"all"}) /\ ~half[t]
    /\ LET c == hand[t] IN
          /\ Ran(c)
          /\ results' = [results EXCEPT ![c] = Kept(c)]
          /\ result' = [result EXCEPT ![On[c]] = Moved]
    /\ half' = [half EXCEPT ![t] = TRUE]
    /\ UNCHANGED <<state, callback, first, hand, passed, nCompleted, waiting, program>>

\* Faulty variant: the count before the increment is compared.
IsLast_OffByOne(p) == nCompleted[p] + 2 = Cardinality(Parts(p))

IsLast(p) == nCompleted[p] + 1 = Cardinality(Parts(p))

CountResult(t) ==
    /\ Running(t, {"all"}) /\ half[t]
    /\ LET p == Target[hand[t]] IN
          /\ nCompleted' = [nCompleted EXCEPT ![p] = @ + 1]
          /\ \/ IsLast(p) /\ Resolve(t, p, List, Nothing)
             \/ ~IsLast(p) /\ hand' = [hand EXCEPT ![t] = Nothing] /\ UNCHANGED promise
    /\ half' = [half EXCEPT ![t] = FALSE]
    /\ UNCHANGED <<passed, results, waiting, program, called>>

\* A wait's callback writes to the frame of wait(), then sets its event through it.
InFrame(c) == \E u \in Threads : waits[u] = c
Touch(c) == strayed' = IF InFrame(c) THEN strayed ELSE strayed \cup {c}

GiveResult(t) ==
    /\ Running(t, {"wait"}) /\ ~half[t]
    /\ LET c == hand[t] IN
          /\ Ran(c) /\ Touch(c)
          /\ result' = [result EXCEPT ![On[c]] = Moved]
    /\ half' = [half EXCEPT ![t] = TRUE]
    /\ UNCHANGED <<state, callback, first, hand, passed, waits, events, stopping, ended, context, program>>

SetEvent(t) ==
    /\ Running(t, {"wait"}) /\ half[t]
    /\ Touch(hand[t]) /\ events' = events \cup {hand[t]}
    /\ hand' = [hand EXCEPT ![t] = Nothing] /\ half' = [half EXCEPT ![t] = FALSE]
    /\ UNCHANGED <<promise, passed, waits, stopping, ended, context, program, called>>

-----------------------------------------------------------------------------
RunCallback(t) == RunUser(t) \/ Forward(t) \/ Chain(t) \/ KeepResult(t) \/ CountResult(t)
                  \/ GiveResult(t) \/ SetEvent(t)
GoOn(t) == RunCallback(t) \/ CombineThen(t) \/ Combined(t)
CallSome(t) == CallResolve(t) \/ CallThen(t) \/ Combine(t) \/ Wait(t)

Next == \E t \in Threads : CallSome(t) \/ GoOn(t) \/ EndWait(t) \/ Finish(t)

\* A thread runs on while it has something to do, and a wait that may end ends; what
\* the program calls is up to the program.
Fairness == \A t \in Threads : WF_vars(GoOn(t) \/ EndWait(t))

Spec == Init /\ [][Next]_vars /\ Fairness

-----------------------------------------------------------------------------
Contents == Values \cup {List, Moved, Nothing}

TypeOK ==
    /\ state \in [Promises -> {"Pending", "Resolved", "Completed"}]
    /\ result \in [Promises -> Contents] /\ first \in [Promises -> Contents \ {Moved}]
    /\ callback \in [Promises -> Callbacks \cup {Nothing}]
    /\ hand \in [Threads -> Callbacks \cup {Nothing}] /\ half \in [Threads -> BOOLEAN]
    /\ waits \in [Threads -> Waiters \cup {Nothing}]
    /\ combines \in [Threads -> Derived \cup {Nothing}]
    /\ shared \subseteq Promises /\ passed \subseteq Callbacks /\ events \subseteq Waiters
    /\ stopping \subseteq Threads
    /\ nCompleted \in [Promises -> Nat]
    /\ results \in [Callbacks -> Contents \ {Moved}]
    /\ calls \in [Callbacks -> Nat] /\ seen \in [Callbacks -> Contents]
    /\ ended \in [Callbacks -> {"set", "timeout", "stop", Nothing}] /\ strayed \subseteq Waiters

\* A callback runs at most once, and with the result its promise was resolved with
\* first: never before there is one, never with another that came later, never with
\* what is left of one that was moved to somebody else.  Of all that are passed to
\* one promise at most one runs.
OneTaker == \A c, d \in Callbacks :
    /\ calls[c] \in {0, 1}
    /\ calls[c] = 1 => seen[c] = first[On[c]] /\ seen[c] # Nothing
    /\ calls[c] = 1 /\ calls[d] = 1 /\ On[c] = On[d] => c = d

\* A promise made by all() is resolved only when its list holds the result of every
\* part, though the parts are resolved by different threads without a lock.
AllComplete == \A c \in {d \in Callbacks : Kind[d] = "all"} :
    state[Target[c]] # "Pending" => results[c] # Nothing /\ results[c] = first[On[c]]

\* The callback of a wait() touches the frame of the wait only while it is there, and
\* a wait() does not return without the result, unless it was given up: by its
\* timeout, or because its thread was to end.
WaitIsSafe == \A c \in Waiters :
    /\ c \in strayed => ended[c] \in {"timeout", "stop"}
    /\ ended[c] = "set" => calls[c] = 1

\* Somebody else passed a callback to the same promise.
Mixed(p) == Cardinality({c \in passed : On[c] = p}) > 1

\* A wait() for a promise that is resolved returns, and a promise made of others is
\* resolved when they are, as long as no promise is given a second callback.
Served ==
    /\ \A c \in Waiters :
          InFrame(c) /\ state[On[c]] # "Pending" ~> ~InFrame(c) \/ Mixed(On[c])
    /\ \A p \in Derived :
          (p \in shared /\ \A c \in Parts(p) : c \in passed /\ state[On[c]] # "Pending")
             ~> state[p] # "Pending" \/ \E c \in Parts(p) : Mixed(On[c])
=============================================================================
