---------------------------- MODULE ExpiringMap ----------------------------
(***************************************************************************)
(* ExpiringMap keeps its entries in two maps, those used since the timer's *)
(* last pass and those used before.  Each pass (_update, on the loop's     *)
(* thread) drops the second, tells m_onExpired what was in it, and stops   *)
(* the timer of a map that is left empty; put() and add() start it again.  *)
(*                                                                         *)
(* The operations take the map's lock.  setExpiringMilliseconds() writes   *)
(* m_duration and looks at m_timer before it does, the destructor never    *)
(* does, and _setupTimer() waits under it for a pass that is under way.    *)
(* setDispatchLoop() moves the timer to another loop, where a pass may     *)
(* begin while one that cleared its own timer still goes on.               *)
(***************************************************************************)
EXTENDS Integers, Sequences, FiniteSets

CONSTANTS
    Threads,    \* the program's
    Loops,      \* and those of the dispatch loops
    Keys,
    Durations,  \* what the program may set; 0 is no timer
    MaxEntries, \* bounds: entries the program makes,
    MaxTimers,  \* timers made for the map,
    MaxGets,    \* and calls that use an entry
    Nobody

ASSUME ConstantsAssumption ==
    /\ IsFiniteSet(Threads \cup Loops) /\ Threads \cap Loops = {} /\ Nobody \notin Threads \cup Loops
    /\ Durations \subseteq Nat /\ {MaxEntries, MaxTimers, MaxGets} \subseteq Nat

VARIABLES
    current, backup,    \* m_mapCurrent, m_mapBackup: the entries in them
    duration,           \* m_duration
    dispatchLoop,       \* m_dispatchLoop
    timer,              \* m_timer: NoTimer, or its number, its loop and [started, interval]
    lock,
    pc, read,           \* the step each thread is at, and the duration it read
    awaited,            \* the timer that the destructor stopped, or 0
    running,            \* the timer whose task a loop's thread is in, or 0
    old,                \* _update's
    cleared,            \* loops of which the pass under way cleared m_timer
    key,                \* of each entry that was made
    told, gone,         \* the entries m_onExpired was told of; removed or replaced
    used,               \* put, added or got since the last pass, and not made older since
    twice,              \* keys that were added while they were there
    missed,             \* no timer was there for a new duration while entries were
    late,               \* what used the map when its destructor had returned
    made, gets          \* how many timers were made, entries used

maps == <<current, backup>>
settings == <<duration, dispatchLoop>>
threads == <<lock, pc, read, awaited>>
loop == <<running, old, cleared>>
entries == <<key, told, gone, used, twice>>
counts == <<made, gets>>
history == <<entries, missed, late, counts>>
vars == <<maps, settings, timer, threads, loop, history>>

Everybody == Threads \cup Loops
Entries == 1 .. MaxEntries
NoTimer == [id |-> 0, on |-> Nobody, started |-> FALSE, interval |-> 0]

Init ==
    /\ current = {} /\ backup = {} /\ duration \in Durations /\ dispatchLoop \in Loops /\ timer = NoTimer
    /\ lock = Nobody /\ pc = [t \in Everybody |-> "outside"] /\ read = [t \in Everybody |-> 0] /\ awaited = 0
    /\ running = [l \in Loops |-> 0] /\ old = [l \in Loops |-> {}] /\ cleared = {}
    /\ key = <<>> /\ told = {} /\ gone = {} /\ used = {} /\ twice = {}
    /\ missed = FALSE /\ late = {} /\ made = 0 /\ gets = 0

Of(k, map) == {e \in map : key[e] = k}

\* HashMap::remove(): one of the entries with the key, if there is one.
Without(k, map) == IF Of(k, map) = {} THEN {map} ELSE {map \ {e} : e \in Of(k, map)}

Go(t, to) == pc' = [pc EXCEPT ![t] = to]

Destroying == \E t \in Threads : pc[t] \in {"destroy", "destroyWait", "destroyed", "crashed"}
Destroyed == \E t \in Threads : pc[t] = "destroyed"

\* A call begins in the program, for a loop's thread in m_onExpired, and returns there.
Calls(t) == ~Destroying /\ pc[t] = IF t \in Loops THEN "call" ELSE "outside"
Return(t) == Go(t, IF t \in Loops THEN "end" ELSE "outside")

\* The bound on timers, met before a call.
Room == made + Cardinality({t \in Everybody : pc[t] \in {"test", "lock", "stop", "wait", "create"}}) < MaxTimers

-----------------------------------------------------------------------------
(* The operations                                                          *)

\* A call of the whole of which nobody sees the steps.
Locked(t) == Calls(t) /\ lock = Nobody /\ Return(t) /\ UNCHANGED <<lock, read, awaited, settings, timer, loop>>

\* get() with flagUpdateLifetime, and getValue(): what is found in the backup moves.
Get(t, k) ==
    /\ Locked(t) /\ gets < MaxGets /\ gets' = gets + 1
    /\ Of(k, current) = {}
    /\ \E e \in Of(k, backup) : current' = current \cup {e} /\ backup' = backup \ {e} /\ used' = used \cup {e}
    /\ UNCHANGED <<key, told, gone, twice, missed, late, made>>

\* The rest of put() and add(): _setupTimer() when there is no timer, which reads m_duration.
ThenSetup(t) ==
    IF timer = NoTimer
    THEN lock' = t /\ read' = [read EXCEPT ![t] = duration] /\ Go(t, "create") /\ missed' = FALSE
    ELSE Return(t) /\ UNCHANGED <<lock, read, missed>>

\* put_NoLock() on the two maps.
PutMaps(k, e) ==
    \E c \in Without(k, current), b \in Without(k, backup) :
       current' = c \cup {e} /\ backup' = b /\ gone' = gone \cup (current \ c) \cup (backup \ b)

Put(t, k) ==
    LET e == Len(key) + 1 IN
    /\ Calls(t) /\ lock = Nobody /\ e \in Entries /\ Room
    /\ key' = Append(key, k) /\ used' = used \cup {e} /\ PutMaps(k, e) /\ ThenSetup(t)
    /\ UNCHANGED <<settings, timer, awaited, loop, told, twice, late, counts>>

\* add() looks at nothing.
Add(t, k) ==
    LET e == Len(key) + 1 IN
    /\ Calls(t) /\ lock = Nobody /\ e \in Entries /\ Room
    /\ key' = Append(key, k) /\ used' = used \cup {e} /\ current' = current \cup {e}
    /\ twice' = IF Of(k, current \cup backup) = {} THEN twice ELSE twice \cup {k}
    /\ ThenSetup(t)
    /\ UNCHANGED <<backup, settings, timer, awaited, loop, told, gone, late, counts>>

Remove(t, k) ==
    /\ Locked(t)
    /\ current' \in Without(k, current)
    /\ backup' \in IF Of(k, current) = {} THEN Without(k, backup) ELSE {backup}
    /\ gone' = gone \cup (current \ current') \cup (backup \ backup')
    /\ UNCHANGED <<key, told, used, twice, missed, late, counts>>

\* removeAll() and removeOld().
RemoveMany(t) ==
    /\ Locked(t) /\ current \cup backup # {}
    /\ backup' = {} /\ current' \in {current, {}}
    /\ gone' = gone \cup (current \ current') \cup backup
    /\ UNCHANGED <<key, told, used, twice, missed, late, counts>>

\* pushInternalMap(): a map of the caller's comes before the two, the last of which is
\* returned; no timer is set up for it.  The caller's map has one entry, or none.
PushMap(t, new) ==
    /\ Locked(t) /\ current' = new /\ backup' = current /\ gone' = gone \cup backup /\ used' = new
    /\ missed' = (missed \/ (new # {} /\ timer = NoTimer /\ duration > 0))
    /\ UNCHANGED <<told, late, counts>>

PushEmpty(t) == current \cup backup # {} /\ PushMap(t, {}) /\ UNCHANGED <<key, twice>>

PushEntry(t, k) ==
    LET e == Len(key) + 1 IN
    /\ e \in Entries /\ PushMap(t, {e}) /\ key' = Append(key, k)
    /\ twice' = IF Of(k, current) = {} THEN twice ELSE twice \cup {k}

\* contains(), getAllKeys() and a get() that moves nothing: seen where the callback waits
\* for the lock.
Look(t) == t \in Loops /\ Locked(t) /\ UNCHANGED <<maps, history>>

-----------------------------------------------------------------------------
(* The timer                                                               *)

\* No timer is set up though entries wait for one, or another thread is about to.
Misses == timer = NoTimer /\ (current \cup backup # {} \/ lock # Nobody)

\* setExpiringMilliseconds() up to its look at m_timer; it takes no lock before.
SetDuration(t) ==
    /\ Calls(t) /\ Room
    /\ \E d \in Durations \ {duration} : duration' = d
    /\ Go(t, "test")
    /\ UNCHANGED <<maps, dispatchLoop, timer, lock, read, awaited, loop, history>>

TestTimer(t) ==
    /\ pc[t] = "test"
    /\ IF timer = NoTimer THEN Return(t) ELSE Go(t, "lock")
    /\ missed' = (missed \/ Misses)
    /\ UNCHANGED <<maps, settings, timer, lock, read, awaited, loop, entries, late, counts>>

\* setupTimer() and setDispatchLoop(), which look under the lock.
SetupTimer(t) ==
    /\ Calls(t) /\ lock = Nobody /\ Room
    /\ duration' \in Durations /\ dispatchLoop' \in Loops
    /\ IF timer = NoTimer THEN Return(t) /\ UNCHANGED lock ELSE Go(t, "stop") /\ lock' = t
    /\ missed' = (missed \/ (duration' # duration /\ Misses))
    /\ UNCHANGED <<maps, timer, read, awaited, loop, entries, late, counts>>

\* _setupTimer() with the lock; setExpiringMilliseconds() may find no timer by now.
Lock(t) ==
    /\ pc[t] = "lock" /\ lock = Nobody /\ lock' = t /\ Go(t, "stop")
    /\ UNCHANGED <<maps, settings, timer, read, awaited, loop, history>>

\* Timer::stopAndWait(): stops,
Stop(t) ==
    /\ pc[t] = "stop" /\ Go(t, "wait")
    /\ timer' = [timer EXCEPT !.started = FALSE]
    /\ UNCHANGED <<maps, settings, lock, read, awaited, loop, history>>

\* Faulty variant: any pass is waited for.
Runs_Any(id) == \E l \in Loops : running[l] # 0

\* and waits while the timer's task runs.
Runs(id) == id # 0 /\ \E l \in Loops : running[l] = id

\* Then m_timer is cleared and m_duration read.  m_timer is what it was when the wait began:
\* who has the lock is the only one to change it.
EndWait(t) ==
    /\ pc[t] = "wait" /\ ~Runs(timer.id) /\ Go(t, "create")
    /\ timer' = NoTimer /\ read' = [read EXCEPT ![t] = duration] /\ missed' = FALSE
    /\ UNCHANGED <<maps, settings, lock, awaited, loop, entries, late, counts>>

\* Timer::startWithLoop(), and the lock given back.
Create(t) ==
    /\ pc[t] = "create" /\ Return(t) /\ lock' = Nobody
    /\ IF read[t] = 0 THEN UNCHANGED <<timer, made>>
       ELSE made' = made + 1
            /\ timer' = [id |-> made + 1, on |-> dispatchLoop, started |-> TRUE, interval |-> read[t]]
    /\ UNCHANGED <<maps, settings, read, awaited, loop, entries, missed, late, gets>>

-----------------------------------------------------------------------------
(* The loops' threads                                                      *)

\* A loop runs the task of a timer that is started (Timer::run).
Run(l) ==
    /\ pc[l] = "outside" /\ timer.started /\ timer.on = l
    /\ running' = [running EXCEPT ![l] = timer.id] /\ Go(l, "update")
    /\ UNCHANGED <<maps, settings, timer, lock, read, awaited, old, cleared, history>>

\* A use of the map by a pass, told apart when the map is no more.
Uses(l, step) == late' = IF Destroyed THEN late \cup {<<step, l \in cleared>>} ELSE late

\* What the pass leaves in the backup is what was in the current map.
LeftEmpty == current = {}

\* Faulty variants: the entries of the backup stay; those of the current map are dropped, too.
Update_Keeps(l) ==
    /\ pc[l] = "update" /\ lock = Nobody /\ Uses(l, "update")
    /\ old' = [old EXCEPT ![l] = backup] /\ backup' = backup \cup current /\ current' = {} /\ used' = {}
    /\ timer' = IF LeftEmpty THEN NoTimer ELSE timer
    /\ cleared' = IF LeftEmpty THEN cleared \cup {l} ELSE cleared
    /\ Go(l, "updated")
    /\ UNCHANGED <<settings, lock, read, awaited, running, key, told, gone, twice, missed, counts>>
Update_Both(l) ==
    /\ pc[l] = "update" /\ lock = Nobody /\ Uses(l, "update")
    /\ old' = [old EXCEPT ![l] = backup \cup current] /\ backup' = {} /\ current' = {} /\ used' = {}
    /\ timer' = NoTimer /\ cleared' = cleared \cup {l}
    /\ Go(l, "updated")
    /\ UNCHANGED <<settings, lock, read, awaited, running, key, told, gone, twice, missed, counts>>

\* _update(), under the lock.
Update(l) ==
    /\ pc[l] = "update" /\ lock = Nobody /\ Uses(l, "update")
    /\ old' = [old EXCEPT ![l] = backup] /\ backup' = current /\ current' = {} /\ used' = {}
    /\ timer' = IF LeftEmpty THEN NoTimer ELSE timer
    /\ cleared' = IF LeftEmpty THEN cleared \cup {l} ELSE cleared
    /\ Go(l, "updated")
    /\ UNCHANGED <<settings, lock, read, awaited, running, key, told, gone, twice, missed, counts>>

\* The rest of it, with the lock given back: m_onExpired is read from the map if it has
\* something to be told.
Tell(l) ==
    /\ pc[l] = "updated"
    /\ IF old[l] = {} THEN Go(l, "end") /\ UNCHANGED late ELSE Go(l, "callback") /\ Uses(l, "tell")
    /\ told' = told \cup old[l] /\ old' = [old EXCEPT ![l] = {}]
    /\ UNCHANGED <<maps, settings, timer, lock, read, awaited, running, cleared, key, gone, used, twice,
                   missed, counts>>

\* m_onExpired may call the map, at the end, and returns.
CallFromCallback(l) ==
    /\ pc[l] = "callback" /\ ~Destroying /\ Go(l, "call")
    /\ UNCHANGED <<maps, settings, timer, lock, read, awaited, loop, history>>

EndRun(l) ==
    /\ pc[l] \in {"callback", "end"} /\ Go(l, "outside")
    /\ running' = [running EXCEPT ![l] = 0] /\ cleared' = cleared \ {l}
    /\ UNCHANGED <<maps, settings, timer, lock, read, awaited, old, history>>

-----------------------------------------------------------------------------
(* The destructor                                                          *)

\* The program destroys the map when it is in no call of it; _release() looks for a timer,
Destroy(t) ==
    /\ \A u \in Threads : pc[u] = "outside"
    /\ \A l \in Loops : pc[l] \notin {"call", "test", "lock"}
    /\ lock = Nobody
    /\ Go(t, IF timer = NoTimer THEN "destroyed" ELSE "destroy")
    /\ UNCHANGED <<maps, settings, timer, lock, read, awaited, loop, history>>

\* and stops it through m_timer, which a pass may have cleared since.
DestroyStop(t) ==
    /\ pc[t] = "destroy"
    /\ timer' = [timer EXCEPT !.started = FALSE] /\ awaited' = timer.id
    /\ Go(t, IF timer = NoTimer THEN "crashed" ELSE "destroyWait")
    /\ UNCHANGED <<maps, settings, lock, read, loop, history>>

\* Faulty variant: stops the timer and does not wait.
DestroyWait_Not(t) ==
    /\ pc[t] = "destroyWait" /\ Go(t, "destroyed")
    /\ UNCHANGED <<maps, settings, timer, lock, read, awaited, loop, history>>

\* It waits for that timer, whatever m_timer becomes.
DestroyWait(t) ==
    /\ pc[t] = "destroyWait" /\ ~Runs(awaited) /\ Go(t, "destroyed")
    /\ UNCHANGED <<maps, settings, timer, lock, read, awaited, loop, history>>

-----------------------------------------------------------------------------
Operation(t) ==
    \/ \E k \in Keys : Get(t, k) \/ Put(t, k) \/ Add(t, k) \/ Remove(t, k) \/ PushEntry(t, k)
    \/ RemoveMany(t) \/ PushEmpty(t) \/ Look(t) \/ SetDuration(t) \/ SetupTimer(t)

GoOn(t) == TestTimer(t) \/ Lock(t) \/ Stop(t) \/ EndWait(t) \/ Create(t) \/ DestroyStop(t) \/ DestroyWait(t)

Pass(l) == Run(l) \/ Update(l) \/ Tell(l) \/ EndRun(l)

Next ==
    \/ \E t \in Everybody : Operation(t) \/ GoOn(t)
    \/ \E t \in Threads : Destroy(t)
    \/ \E l \in Loops : Pass(l) \/ CallFromCallback(l)

\* Threads go on with the call they are in, a loop runs a timer that is started, and the
\* callback returns.
Fairness ==
    /\ \A t \in Everybody : WF_vars(GoOn(t))
    /\ \A l \in Loops : WF_vars(Pass(l)) /\ WF_vars(Operation(l))

Spec == Init /\ [][Next]_vars /\ Fairness

-----------------------------------------------------------------------------
TypeOK ==
    /\ {current, backup, told, gone, used} \subseteq SUBSET Entries
    /\ duration \in Durations /\ dispatchLoop \in Loops
    /\ timer \in {NoTimer} \cup [id : 1 .. MaxTimers, on : Loops, started : BOOLEAN, interval : Durations \ {0}]
    /\ lock \in Everybody \cup {Nobody} /\ read \in [Everybody -> Durations \cup {0}]
    /\ pc \in [Everybody -> {"outside", "call", "test", "lock", "stop", "wait", "create", "update", "updated",
                            "callback", "end", "destroy", "destroyWait", "destroyed", "crashed"}]
    /\ awaited \in 0 .. MaxTimers /\ running \in [Loops -> 0 .. MaxTimers] /\ old \in [Loops -> SUBSET Entries]
    /\ cleared \subseteq Loops /\ key \in Seq(Keys) /\ twice \subseteq Keys
    /\ missed \in BOOLEAN /\ late \subseteq {"update", "tell"} \X BOOLEAN
    /\ made \in 0 .. MaxTimers /\ gets \in 0 .. MaxGets

\* An entry is in one place: a map, the hands of a pass, told to m_onExpired, or removed.
NoneLost ==
    LET places == <<current, backup, told, gone>> IN
    /\ (UNION {places[i] : i \in 1 .. 4}) \cup (UNION {old[l] : l \in Loops}) = DOMAIN key
    /\ \A i, j \in 1 .. 4 : i # j => places[i] \cap places[j] = {}
    /\ \A l \in Loops : /\ \A i \in 1 .. 4 : old[l] \cap places[i] = {}
                        /\ \A m \in Loops \ {l} : old[l] \cap old[m] = {}

\* A key has one entry in the two maps, unless add() or pushInternalMap() found it there.
OneEntry == \A k \in Keys \ twice : Cardinality(Of(k, current \cup backup)) <= 1

\* Between calls, the timer runs in the map's loop at its interval, and is there while entries
\* are; but not when setExpiringMilliseconds() saw no timer where another thread was about to
\* make one, when the duration is set while entries wait without a timer, or when
\* pushInternalMap() brought entries to a map without a timer.
TimerFits ==
    lock = Nobody /\ (\A t \in Everybody : pc[t] \notin {"test", "lock"}) /\ ~missed /\ ~Destroying =>
        /\ timer # NoTimer => timer.started /\ timer.interval = duration /\ timer.on = dispatchLoop
        /\ current \cup backup # {} /\ duration > 0 => timer # NoTimer

\* Where the entries are, and the timer for them.
Inv == TypeOK /\ NoneLost /\ OneEntry /\ TimerFits

\* No pass drops an entry that was put, added or got since the pass before it, on whichever
\* loops the two ran; only pushInternalMap() makes an entry older without a pass.
NoneEarly == [][\A l \in Loops : old'[l] \cap used = {}]_vars

\* When the destructor has returned, the passes that still go on are those that cleared
\* m_timer themselves, so that the destructor could not wait for them; and all that they then
\* use of the map is m_onExpired, which _update reads without the lock (the code's own
\* exception: the map it reads from is destroyed).
DestroyedQuiet ==
    /\ Destroyed => \A l \in Loops : running[l] # 0 => l \in cleared
    /\ late \subseteq {<<"tell", TRUE>>}

\* _setupTimer() waits, with the lock, for a pass that wants the lock, in _update or in the
\* program's callback.
Stuck ==
    /\ lock # Nobody /\ pc[lock] = "wait" /\ timer # NoTimer
    /\ \E l \in Loops : running[l] = timer.id /\ (lock = l \/ pc[l] \in {"update", "call", "lock"})

\* Otherwise it returns, and so does the destructor.
SetupReturns == \A t \in Everybody : (pc[t] \in {"test", "lock", "stop", "wait", "create", "destroyWait"}) ~>
    (pc[t] \in {"outside", "end", "destroyed"} \/ Stuck)

\* An entry that is no longer used leaves the map, as long as a timer is wanted.
Expires == \A e \in Entries : (e \in current \cup backup) ~>
    (e \notin current \cup backup \/ duration = 0 \/ missed \/ Stuck \/ Destroying)

\* Whoever sets the timer up or destroys the map gets on, and what is not used expires.
Live == SetupReturns /\ Expires
=============================================================================
