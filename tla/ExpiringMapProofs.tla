------------------------- MODULE ExpiringMapProofs -------------------------
(***************************************************************************)
(* The inductive invariant of ExpiringMap and the theorems it proves for   *)
(* any threads, loops, keys, durations and bounds.                         *)
(***************************************************************************)
EXTENDS ExpiringMap, FiniteSetTheorems, TLAPS

Holding == {"stop", "wait", "create"}
Setting == {"test", "lock", "stop", "wait", "create"}
Ending == {"destroy", "destroyWait", "destroyed", "crashed"}

\* The types; only the loops' threads are in a pass, only the program's in the destructor,
\* and the calls that may still make a timer have room for it.
Types ==
    /\ TypeOK
    /\ \A t \in Threads : pc[t] \in {"outside"} \cup Setting \cup Ending
    /\ \A l \in Loops : pc[l] \notin Ending
    /\ made + Cardinality({t \in Everybody : pc[t] \in Setting}) <= MaxTimers

Kept == current \cup backup
InHand == UNION {old[l] : l \in Loops}

\* Every entry that was made is in one place, and a pass has none in hand when it begins.
Places ==
    /\ Kept \cup InHand \cup told \cup gone = DOMAIN key
    /\ current \cap backup = {} /\ Kept \cap InHand = {}
    /\ Kept \cap told = {} /\ Kept \cap gone = {}
    /\ InHand \cap told = {} /\ InHand \cap gone = {} /\ told \cap gone = {}
    /\ \A l, m \in Loops : l # m => old[l] \cap old[m] = {}
    /\ \A l \in Loops : old[l] # {} => pc[l] = "updated"

\* What was used since the last pass is in the current map, or was removed.
UsedInv == used \subseteq current \cup gone

\* Two entries of the maps have the same key only if the second was put beside the first.
Unique == \A e, f \in Kept : key[e] = key[f] /\ key[e] \notin twice => e = f

\* The map's lock has the owner that is in _setupTimer.
LockInv ==
    /\ \A t \in Everybody : pc[t] \in Holding <=> lock = t
    /\ \A t \in Everybody : pc[t] = "create" => timer = NoTimer

\* A call is on its way to _setupTimer, or is there and has not read m_duration.
Coming == \E t \in Everybody : pc[t] \in {"test", "lock"}
Looks == Coming \/ \E t \in Everybody : pc[t] \in {"stop", "wait"}

\* The timer, and what thread t that makes the next one read, against m_duration and
\* m_dispatchLoop.
TimerInv ==
    /\ timer # NoTimer /\ ~timer.started => Destroying \/ \E t \in Everybody : pc[t] = "wait"
    /\ timer # NoTimer /\ timer.interval # duration => missed \/ Looks
    /\ timer # NoTimer /\ timer.on # dispatchLoop => missed \/ Looks
    /\ timer = NoTimer /\ Kept # {} /\ duration > 0 => missed \/ Looks \/ \E t \in Everybody : pc[t] = "create"
    /\ \A t \in Everybody : pc[t] = "create" /\ read[t] # duration => missed \/ Coming

\* A pass that did not clear m_timer is of the map's timer, and on that timer's loop; so is
\* one that wants the lock.
PassInv ==
    \A l \in Loops :
       /\ pc[l] \in {"update", "updated"} => running[l] # 0
       /\ pc[l] \in {"outside", "update"} => l \notin cleared
       /\ running[l] # 0 /\ l \notin cleared => timer # NoTimer /\ running[l] = timer.id /\ timer.on = l

\* While the map is destroyed nobody else calls it, and the timer it stopped stays stopped;
\* what ran when the destructor returned had cleared m_timer.
EndInv ==
    /\ \A t \in Threads : pc[t] \in Ending =>
        /\ lock = Nobody /\ \A l \in Loops : pc[l] \notin {"call", "test", "lock"}
        /\ \A u \in Threads \ {t} : pc[u] = "outside"
        /\ pc[t] \in {"destroyWait", "destroyed"} => ~timer.started
        /\ pc[t] = "destroyWait" => awaited # 0 /\ (timer = NoTimer \/ timer.id = awaited)
        /\ pc[t] = "destroyed" => \A l \in Loops : running[l] # 0 => l \in cleared
    /\ late \subseteq {<<"tell", TRUE>>}

IInv == Types /\ Places /\ UsedInv /\ Unique /\ LockInv /\ TimerInv /\ PassInv /\ EndInv

Setters == {t \in Everybody : pc[t] \in Setting}

\* The steps a thread can be at.
Steps(t) == IF t \in Loops THEN {"outside", "call", "update", "updated", "callback", "end"} \cup Setting
                           ELSE {"outside"} \cup Setting \cup Ending

-----------------------------------------------------------------------------
(* What a step of one thread does to the steps                             *)

\* The other threads stay where they are.
LEMMA GoFacts ==
    ASSUME TypeOK, NEW t \in Everybody, NEW s, Go(t, s)
    PROVE /\ pc'[t] = s
          /\ \A u \in Everybody : u # t => pc'[u] = pc[u]
BY DEF TypeOK, Go, Everybody

\* A thread that is not in a call that sets the timer up, and does not begin one, changes
\* nothing for those that are.
LEMMA Steady ==
    ASSUME TypeOK, NEW t \in Everybody, NEW s, Go(t, s), pc[t] \notin Setting, s \notin Setting
    PROVE \A u \in Everybody : \A x \in Setting : pc'[u] = x <=> pc[u] = x
<1> SUFFICES ASSUME NEW u \in Everybody, NEW x \in Setting PROVE pc'[u] = x <=> pc[u] = x
  OBVIOUS
<1>1. CASE u = t
  BY <1>1, GoFacts
<1>2. CASE u # t
  BY <1>2, GoFacts
<1> QED BY <1>1, <1>2

LEMMA EverybodyFinite == IsFiniteSet(Everybody)
BY ConstantsAssumption DEF Everybody

\* How many threads are in such calls before and after a step.
LEMMA Counted ==
    ASSUME TypeOK, NEW t \in Everybody, NEW s, Go(t, s)
    PROVE /\ Cardinality(Setters) \in Nat /\ Cardinality(Setters') \in Nat
          /\ pc[t] \in Setting => Cardinality(Setters) >= 1
          /\ pc[t] \in Setting /\ s \in Setting => Cardinality(Setters') = Cardinality(Setters)
          /\ pc[t] \notin Setting /\ s \notin Setting => Cardinality(Setters') = Cardinality(Setters)
          /\ pc[t] \notin Setting /\ s \in Setting => Cardinality(Setters') = Cardinality(Setters) + 1
          /\ pc[t] \in Setting /\ s \notin Setting => Cardinality(Setters') = Cardinality(Setters) - 1
<1>1. IsFiniteSet(Setters) /\ IsFiniteSet(Setters')
  BY EverybodyFinite, FS_Subset DEF Setters
<1>2. pc'[t] = s /\ \A u \in Everybody : u # t => pc'[u] = pc[u]
  BY GoFacts
<1>3. Cardinality(Setters) \in Nat /\ Cardinality(Setters') \in Nat
  BY <1>1, FS_CardinalityType
<1>4. ASSUME pc[t] \in Setting PROVE Cardinality(Setters) >= 1
  <2>1. t \in Setters
    BY <1>4 DEF Setters
  <2>2. Cardinality(Setters) # 0
    BY <1>1, <2>1, FS_EmptySet
  <2> QED BY <1>3, <2>2
<1>5. ASSUME pc[t] \in Setting <=> s \in Setting PROVE Setters' = Setters
  <2> SUFFICES ASSUME NEW u \in Everybody PROVE pc'[u] \in Setting <=> pc[u] \in Setting
    BY DEF Setters
  <2>1. CASE u = t
    BY <1>2, <1>5, <2>1
  <2>2. CASE u # t
    BY <1>2, <2>2
  <2> QED BY <2>1, <2>2
<1>8. ASSUME pc[t] \in Setting <=> s \in Setting
      PROVE Cardinality(Setters') = Cardinality(Setters)
  BY <1>5, <1>8
<1>6. ASSUME pc[t] \notin Setting, s \in Setting PROVE Cardinality(Setters') = Cardinality(Setters) + 1
  <2>1. Setters' = Setters \cup {t} /\ t \notin Setters
    <3>1. \A u \in Everybody : pc'[u] \in Setting <=> (pc[u] \in Setting \/ u = t)
      BY <1>2, <1>6
    <3> QED BY <1>6, <3>1 DEF Setters
  <2> QED BY <1>1, <2>1, FS_AddElement
<1>7. ASSUME pc[t] \in Setting, s \notin Setting PROVE Cardinality(Setters') = Cardinality(Setters) - 1
  <2>1. Setters' = Setters \ {t} /\ t \in Setters
    <3>1. \A u \in Everybody : pc'[u] \in Setting <=> (pc[u] \in Setting /\ u # t)
      BY <1>2, <1>7
    <3> QED BY <1>7, <3>1 DEF Setters
  <2> QED BY <1>1, <2>1, FS_RemoveElement
<1>9. pc[t] \in Setting => Cardinality(Setters) >= 1
  BY <1>4
<1>10. pc[t] \notin Setting /\ s \in Setting => Cardinality(Setters') = Cardinality(Setters) + 1
  BY <1>6
<1>11. pc[t] \in Setting /\ s \notin Setting => Cardinality(Setters') = Cardinality(Setters) - 1
  BY <1>7
<1>12. pc[t] \in Setting /\ s \in Setting => Cardinality(Setters') = Cardinality(Setters)
  BY <1>8
<1>13. pc[t] \notin Setting /\ s \notin Setting => Cardinality(Setters') = Cardinality(Setters)
  BY <1>8
<1> QED BY <1>3, <1>9, <1>10, <1>11, <1>12, <1>13

\* A call that may make a timer has room for it.
LEMMA TimerRoom ==
    ASSUME Types, NEW t \in Everybody, NEW s, Go(t, s), pc[t] \in Setting
    PROVE made + 1 <= MaxTimers
<1>1. Cardinality(Setters) \in Nat /\ Cardinality(Setters) >= 1
  BY Counted DEF Types
<1>2. made + Cardinality(Setters) <= MaxTimers
  BY DEF Types, Setters
<1>3. made \in Nat /\ MaxTimers \in Nat
  BY ConstantsAssumption DEF Types, TypeOK
<1> QED BY <1>1, <1>2, <1>3

\* The types after a step of one thread, from those of the data.
LEMMA TypesStep ==
    ASSUME Types, NEW t \in Everybody, NEW s \in Steps(t), Go(t, s), TypeOK',
           \/ made' = made /\ (s \notin Setting \/ pc[t] \in Setting \/ Room)
           \/ made' = made + 1 /\ pc[t] \in Setting /\ s \notin Setting
    PROVE Types'
<1>1. pc'[t] = s /\ \A u \in Everybody : u # t => pc'[u] = pc[u]
  BY GoFacts DEF Types
<1>2. \A u \in Threads : pc'[u] \in {"outside"} \cup Setting \cup Ending
  BY <1>1, ConstantsAssumption DEF Types, Steps, Everybody
<1>3. \A l \in Loops : pc'[l] \notin Ending
  BY <1>1 DEF Types, Steps, Everybody, Ending, Setting
<1>4. made' + Cardinality(Setters') <= MaxTimers
  <2>1. made + Cardinality(Setters) <= MaxTimers
    BY DEF Types, Setters
  <2>2. made \in Nat /\ MaxTimers \in Nat
    BY ConstantsAssumption DEF Types, TypeOK
  <2>3. /\ Cardinality(Setters) \in Nat /\ Cardinality(Setters') \in Nat
        /\ pc[t] \in Setting => Cardinality(Setters) >= 1
        /\ pc[t] \in Setting /\ s \in Setting => Cardinality(Setters') = Cardinality(Setters)
        /\ pc[t] \notin Setting /\ s \notin Setting => Cardinality(Setters') = Cardinality(Setters)
        /\ pc[t] \notin Setting /\ s \in Setting => Cardinality(Setters') = Cardinality(Setters) + 1
        /\ pc[t] \in Setting /\ s \notin Setting => Cardinality(Setters') = Cardinality(Setters) - 1
    BY Counted DEF Types
  <2>4. Room => made + Cardinality(Setters) < MaxTimers
    BY DEF Room, Setters, Setting
  <2> QED BY <2>1, <2>2, <2>3, <2>4
<1> QED BY <1>2, <1>3, <1>4 DEF Types, Setters
-----------------------------------------------------------------------------
(* What the parts of the invariant rest on                                 *)

\* What the passes have in hand, when one of them takes something or gives it away.
LEMMA TakenFacts ==
    ASSUME old \in [Loops -> SUBSET Entries], NEW l \in Loops, NEW S, old' = [old EXCEPT ![l] = S]
    PROVE /\ old'[l] = S /\ \A m \in Loops : m # l => old'[m] = old[m]
          /\ old[l] = {} => InHand' = InHand \cup S
          /\ S = {} /\ (\A k, m \in Loops : k # m => old[k] \cap old[m] = {}) => InHand' = InHand \ old[l]
<1>1. old'[l] = S /\ \A m \in Loops : m # l => old'[m] = old[m]
  OBVIOUS
<1>2. \A x : x \in InHand' <=> \E m \in Loops : x \in old'[m]
  BY DEF InHand
<1>3. \A x : x \in InHand <=> \E m \in Loops : x \in old[m]
  BY DEF InHand
<1>4. ASSUME old[l] = {} PROVE InHand' = InHand \cup S
  <2>1. ASSUME NEW x PROVE x \in InHand' <=> x \in InHand \/ x \in S
    <3>1. CASE x \in S
      BY <1>1, <1>2, <3>1
    <3>2. CASE x \notin S
      BY <1>1, <1>2, <1>3, <1>4, <3>2
    <3> QED BY <3>1, <3>2
  <2> QED BY <2>1
<1>5. ASSUME S = {}, \A k, m \in Loops : k # m => old[k] \cap old[m] = {}
      PROVE InHand' = InHand \ old[l]
  <2>1. ASSUME NEW x PROVE x \in InHand' <=> x \in InHand /\ x \notin old[l]
    <3>1. ASSUME x \in InHand' PROVE x \in InHand /\ x \notin old[l]
      <4>1. PICK m \in Loops : x \in old'[m]
        BY <1>2, <3>1
      <4>2. m # l /\ x \in old[m]
        BY <1>1, <1>5, <4>1
      <4> QED BY <1>3, <1>5, <4>2
    <3>2. ASSUME x \in InHand, x \notin old[l] PROVE x \in InHand'
      BY <1>1, <1>2, <1>3, <3>2
    <3> QED BY <3>1, <3>2
  <2> QED BY <2>1
<1> QED BY <1>1, <1>4, <1>5

\* A step that has nothing in hand.
LEMMA HandKept ==
    ASSUME Types, Places, NEW t \in Everybody, NEW s, Go(t, s), t \in Loops => old[t] = {}, old' = old
    PROVE /\ InHand' = InHand
          /\ \A l, m \in Loops : l # m => old'[l] \cap old'[m] = {}
          /\ \A l \in Loops : old'[l] # {} => pc'[l] = "updated"
<1>1. \A l \in Loops : old[l] # {} => pc'[l] = pc[l]
  BY GoFacts DEF Types, Everybody
<1> QED BY <1>1 DEF Places, InHand

LEMMA PlacesKept ==
    ASSUME Types, Places, NEW t \in Everybody, NEW s, Go(t, s), t \in Loops => old[t] = {},
           UNCHANGED <<current, backup, old, told, gone, key>>
    PROVE Places'
BY HandKept DEF Places, Kept

LEMMA UsedKept ==
    ASSUME UsedInv, UNCHANGED <<current, gone, used>>
    PROVE UsedInv'
BY DEF UsedInv

LEMMA UniqueKept ==
    ASSUME Unique, UNCHANGED <<current, backup, key, twice>>
    PROVE Unique'
BY DEF Unique, Kept

LEMMA LockSame ==
    ASSUME Types, LockInv, NEW t \in Everybody, NEW s, Go(t, s), pc[t] \notin Holding, s \notin Holding,
           lock' = lock, timer' = timer \/ timer' = NoTimer
    PROVE LockInv'
<1>1. \A u \in Everybody : u # t => pc'[u] = pc[u]
  BY GoFacts DEF Types
<1>2. pc'[t] = s
  BY GoFacts DEF Types
<1>3. \A u \in Everybody : pc'[u] \in Holding <=> pc[u] \in Holding
  BY <1>1, <1>2
<1>4. \A u \in Everybody : pc'[u] = "create" => pc[u] = "create"
  BY <1>1, <1>2 DEF Holding
<1> QED BY <1>3, <1>4 DEF LockInv

\* Only a thread that sets the timer up keeps the lock from one step to the next.
LEMMA LockKept ==
    ASSUME Types, LockInv, NEW t \in Everybody, NEW s, Go(t, s), pc[t] \notin Setting, s \notin Setting,
           lock' = lock, timer' = timer \/ timer' = NoTimer
    PROVE LockInv'
BY LockSame DEF Setting, Holding

LEMMA TimerKept ==
    ASSUME Types, TimerInv, NEW t \in Everybody, NEW s, Go(t, s), pc[t] \notin Setting, s \notin Setting,
           UNCHANGED <<timer, settings, read, missed>>, Destroying => Destroying',
           timer # NoTimer \/ Kept' \subseteq Kept \/ ~(duration > 0)
    PROVE TimerInv'
<1>1. \A u \in Everybody : \A x \in Setting : pc'[u] = x <=> pc[u] = x
  BY Steady DEF Types
<1>2. \A u \in Everybody : /\ pc'[u] = "stop" <=> pc[u] = "stop"
                           /\ pc'[u] = "wait" <=> pc[u] = "wait"
                           /\ pc'[u] = "create" <=> pc[u] = "create"
                           /\ pc'[u] = "test" <=> pc[u] = "test"
                           /\ pc'[u] = "lock" <=> pc[u] = "lock"
  BY <1>1 DEF Setting
<1>3. Coming' <=> Coming
  BY <1>2 DEF Coming
<1>4. Looks' <=> Looks
  BY <1>2, <1>3 DEF Looks
<1>5. /\ (\E u \in Everybody : pc'[u] = "wait") <=> (\E u \in Everybody : pc[u] = "wait")
      /\ (\E u \in Everybody : pc'[u] = "create") <=> (\E u \in Everybody : pc[u] = "create")
  BY <1>2
<1>6. timer # NoTimer /\ ~timer.started => Destroying' \/ \E u \in Everybody : pc'[u] = "wait"
  BY <1>5 DEF TimerInv
<1>7. timer # NoTimer /\ timer.interval # duration => missed \/ Looks'
  BY <1>4 DEF TimerInv
<1>10. timer # NoTimer /\ timer.on # dispatchLoop => missed \/ Looks'
  BY <1>4 DEF TimerInv
<1>8. timer = NoTimer /\ Kept' # {} /\ duration > 0 => missed \/ Looks' \/ \E u \in Everybody : pc'[u] = "create"
  BY <1>4, <1>5 DEF TimerInv
<1>9. \A u \in Everybody : pc'[u] = "create" /\ read[u] # duration => missed \/ Coming'
  BY <1>2, <1>3 DEF TimerInv
<1> QED BY <1>6, <1>7, <1>8, <1>9, <1>10 DEF TimerInv, settings

\* Once entries wait without a timer, nothing is asked of one.
LEMMA TimerMissed ==
    ASSUME Types, TimerInv, NEW t \in Everybody, NEW s, Go(t, s), pc[t] \notin Setting, s \notin Setting,
           timer' = timer, missed', Destroying => Destroying'
    PROVE TimerInv'
<1>1. \A u \in Everybody : pc'[u] = "wait" <=> pc[u] = "wait"
  BY Steady DEF Types, Setting
<1>2. timer # NoTimer /\ ~timer.started => Destroying' \/ \E u \in Everybody : pc'[u] = "wait"
  BY <1>1 DEF TimerInv
<1> QED BY <1>2 DEF TimerInv

LEMMA PassKept ==
    ASSUME Types, PassInv, NEW t \in Everybody, NEW s, Go(t, s), s \notin {"outside", "update", "updated"} \/ t \notin Loops,
           UNCHANGED <<timer, running, cleared>>
    PROVE PassInv'
<1> SUFFICES ASSUME NEW l \in Loops
             PROVE /\ pc'[l] \in {"update", "updated"} => running[l] # 0
                   /\ pc'[l] \in {"outside", "update"} => l \notin cleared
                   /\ running[l] # 0 /\ l \notin cleared => timer # NoTimer /\ running[l] = timer.id /\ timer.on = l
  BY DEF PassInv
<1>1. CASE l = t
  BY <1>1, GoFacts DEF Types, PassInv
<1>2. CASE l # t
  BY <1>2, GoFacts DEF Types, PassInv, Everybody
<1> QED BY <1>1, <1>2

\* Nobody calls a map that is being destroyed.
LEMMA SettersAlone ==
    ASSUME IInv, NEW t \in Everybody, pc[t] \in Setting
    PROVE ~Destroying
<1> SUFFICES ASSUME NEW u \in Threads, pc[u] \in Ending PROVE FALSE
  BY DEF Destroying, Ending
<1>1. t # u /\ pc[t] # "outside"
  BY DEF Ending, Setting
<1>2. t \in Loops
  BY <1>1 DEF IInv, EndInv, Everybody
<1>3. pc[t] \in Holding
  BY <1>2 DEF IInv, EndInv, Setting, Holding
<1>4. lock = t /\ lock = Nobody
  BY <1>2, <1>3 DEF IInv, EndInv, LockInv
<1> QED BY <1>2, <1>4, ConstantsAssumption

LEMMA EndEmpty ==
    ASSUME Types, EndInv, ~Destroying, NEW t \in Everybody, NEW s, Go(t, s), s \notin Ending, late' = late
    PROVE ~Destroying' /\ EndInv'
<1>1. \A u \in Threads : pc'[u] \notin Ending
  <2> SUFFICES ASSUME NEW u \in Threads PROVE pc'[u] \notin Ending
    OBVIOUS
  <2>1. pc[u] \notin Ending
    BY DEF Destroying, Ending
  <2>2. u \in Everybody
    BY DEF Everybody
  <2> QED BY <2>1, <2>2, GoFacts DEF Types
<1> QED BY <1>1 DEF EndInv, Destroying, Ending

-----------------------------------------------------------------------------
(* The calls                                                               *)

After(t) == IF t \in Loops THEN "end" ELSE "outside"

LEMMA CallFacts ==
    ASSUME IInv, NEW t \in Everybody, Calls(t)
    PROVE /\ ~Destroying /\ pc[t] \notin Setting /\ After(t) \notin Setting \cup Ending
          /\ After(t) \in Steps(t) /\ (t \in Loops => old[t] = {})
          /\ (After(t) \notin {"outside", "update", "updated"} \/ t \notin Loops)
          /\ Return(t) <=> Go(t, After(t))
BY DEF IInv, Calls, Return, After, Setting, Ending, Steps, Places

\* A call that has the lock for the whole of it, and leaves the timer alone.
LEMMA LockedStep ==
    ASSUME IInv, NEW t \in Everybody, Locked(t), TypeOK', UNCHANGED <<late, made>>,
           missed' \/ (missed' = missed /\ (timer # NoTimer \/ Kept' \subseteq Kept \/ ~(duration > 0)))
    PROVE Types' /\ LockInv' /\ TimerInv' /\ PassInv' /\ EndInv'
<1>1. /\ Calls(t) /\ Go(t, After(t)) /\ lock = Nobody
      /\ UNCHANGED <<lock, read, awaited, settings, timer, loop>>
  BY DEF Locked, Return, After
<1>2. /\ ~Destroying /\ pc[t] \notin Setting /\ After(t) \notin Setting \cup Ending /\ After(t) \in Steps(t)
      /\ (After(t) \notin {"outside", "update", "updated"} \/ t \notin Loops)
  BY <1>1, CallFacts
<1>3. Types'
  BY <1>1, <1>2, TypesStep DEF IInv
<1>4. LockInv'
  BY <1>1, <1>2, LockKept DEF IInv
<1>5. TimerInv'
  <2>1. CASE missed'
    BY <1>1, <1>2, <2>1, TimerMissed DEF IInv
  <2>2. CASE missed' = missed /\ (timer # NoTimer \/ Kept' \subseteq Kept \/ ~(duration > 0))
    BY <1>1, <1>2, <2>2, TimerKept DEF IInv
  <2> QED BY <2>1, <2>2
<1>6. PassInv'
  BY <1>1, <1>2, PassKept DEF IInv, loop
<1>7. EndInv'
  BY <1>1, <1>2, EndEmpty DEF IInv
<1> QED BY <1>3, <1>4, <1>5, <1>6, <1>7

Pcs == {"outside", "call", "update", "updated", "callback", "end"} \cup Setting \cup Ending

\* The types of the steps and of what most calls leave alone.
LEMMA PcType ==
    ASSUME TypeOK, NEW t \in Everybody, NEW s \in Steps(t), Go(t, s)
    PROVE pc' \in [Everybody -> Pcs]
BY DEF TypeOK, Go, Steps, Pcs, Setting, Ending

LEMMA PcsAre ==
    Pcs = {"outside", "call", "test", "lock", "stop", "wait", "create", "update", "updated",
           "callback", "end", "destroy", "destroyWait", "destroyed", "crashed"}
BY DEF Pcs, Setting, Ending

LEMMA LockedTypes ==
    ASSUME IInv, NEW t \in Everybody, Locked(t), {current', backup', gone', used'} \subseteq SUBSET Entries,
           UNCHANGED <<told, late, made>>, gets' \in 0 .. MaxGets, missed' \in BOOLEAN,
           key' \in Seq(Keys), twice' \subseteq Keys
    PROVE TypeOK'
<1>1. /\ Go(t, After(t)) /\ After(t) \in Steps(t)
      /\ UNCHANGED <<lock, read, awaited, settings, timer, loop>>
  BY CallFacts DEF Locked, Return, After
<1>2. pc' \in [Everybody -> Pcs]
  BY <1>1, PcType DEF IInv, Types
<1> QED BY <1>1, <1>2, PcsAre DEF IInv, Types, TypeOK, loop, settings

LEMMA GetStep ==
    ASSUME IInv, NEW t \in Everybody, NEW k \in Keys, Get(t, k)
    PROVE IInv'
<1>1. /\ Locked(t) /\ gets < MaxGets /\ gets' = gets + 1
      /\ UNCHANGED <<key, told, gone, twice, missed, late, made>>
  BY DEF Get
<1>2. PICK e \in backup : current' = current \cup {e} /\ backup' = backup \ {e} /\ used' = used \cup {e}
  BY DEF Get, Of
<1>3. TypeOK'
  <2>1. gets' \in 0 .. MaxGets
    BY <1>1, ConstantsAssumption DEF IInv, Types, TypeOK
  <2>2. {current', backup', gone', used'} \subseteq SUBSET Entries
    BY <1>1, <1>2 DEF IInv, Types, TypeOK
  <2>3. missed' \in BOOLEAN /\ key' \in Seq(Keys) /\ twice' \subseteq Keys
    BY <1>1 DEF IInv, Types, TypeOK
  <2> QED BY <1>1, <2>1, <2>2, <2>3, LockedTypes
<1>4. Kept' = Kept
  BY <1>2 DEF Kept
<1>5. Types' /\ LockInv' /\ TimerInv' /\ PassInv' /\ EndInv'
  BY <1>1, <1>3, <1>4, LockedStep
<1>6. Places'
  <2>1. Go(t, After(t)) /\ old' = old /\ (t \in Loops => old[t] = {})
    BY <1>1, CallFacts DEF Locked, loop
  <2>2. /\ InHand' = InHand /\ \A l, m \in Loops : l # m => old'[l] \cap old'[m] = {}
        /\ \A l \in Loops : old'[l] # {} => pc'[l] = "updated"
    BY <2>1, HandKept DEF IInv
  <2>3. current' \cap backup' = {}
    BY <1>2 DEF IInv, Places
  <2> QED BY <1>1, <1>4, <2>2, <2>3 DEF IInv, Places
<1>7. Unique'
  BY <1>1, <1>4 DEF IInv, Unique
<1>8. UsedInv'
  BY <1>1, <1>2 DEF IInv, UsedInv
<1> QED BY <1>5, <1>6, <1>7, <1>8 DEF IInv

\* remove(), removeAll() and the like only take entries out of the maps.
LEMMA RemovedStep ==
    ASSUME IInv, NEW t \in Everybody, Locked(t), Kept' \subseteq Kept, current' \cap backup' = {},
           gone' = gone \cup (Kept \ Kept'), UsedInv', used' \in SUBSET Entries,
           UNCHANGED <<key, told, twice, missed, late, counts>>
    PROVE IInv'
<1>1. TypeOK'
  <2>1. {current', backup', gone', used'} \subseteq SUBSET Entries
    BY DEF IInv, Types, TypeOK, Kept
  <2>2. gets' \in 0 .. MaxGets /\ missed' \in BOOLEAN /\ key' \in Seq(Keys) /\ twice' \subseteq Keys
    BY DEF IInv, Types, TypeOK, counts
  <2> QED BY <2>1, <2>2, LockedTypes DEF counts
<1>2. Types' /\ LockInv' /\ TimerInv' /\ PassInv' /\ EndInv'
  BY <1>1, LockedStep DEF counts
<1>3. Places'
  <2>1. Go(t, After(t)) /\ old' = old /\ (t \in Loops => old[t] = {})
    BY CallFacts DEF Locked, loop
  <2>2. /\ InHand' = InHand /\ \A l, m \in Loops : l # m => old'[l] \cap old'[m] = {}
        /\ \A l \in Loops : old'[l] # {} => pc'[l] = "updated"
    BY <2>1, HandKept DEF IInv
  <2>3. Kept' \cup InHand \cup told \cup gone' = DOMAIN key
    BY DEF IInv, Places
  <2>4. /\ Kept' \cap InHand = {} /\ Kept' \cap told = {} /\ Kept' \cap gone' = {}
        /\ InHand \cap gone' = {} /\ told \cap gone' = {} /\ InHand \cap told = {}
    BY DEF IInv, Places
  <2> QED BY <2>2, <2>3, <2>4 DEF Places
<1>4. Unique'
  BY DEF IInv, Unique
<1> QED BY <1>2, <1>3, <1>4 DEF IInv

LEMMA WithoutIs ==
    ASSUME NEW k, NEW map, NEW rest \in Without(k, map)
    PROVE rest \subseteq map
BY DEF Without

LEMMA RemoveStep ==
    ASSUME IInv, NEW t \in Everybody, NEW k \in Keys, Remove(t, k)
    PROVE IInv'
<1>1. /\ Locked(t) /\ gone' = gone \cup (current \ current') \cup (backup \ backup')
      /\ UNCHANGED <<key, told, used, twice, missed, late, counts>>
  BY DEF Remove
<1>2. current' \subseteq current /\ backup' \subseteq backup
  BY WithoutIs DEF Remove
<1>3. current \cap backup = {}
  BY DEF IInv, Places
<1>4. Kept' \subseteq Kept /\ current' \cap backup' = {} /\ gone' = gone \cup (Kept \ Kept')
  BY <1>1, <1>2, <1>3 DEF Kept
<1>5. UsedInv' /\ used' \in SUBSET Entries
  BY <1>1 DEF IInv, UsedInv, Types, TypeOK
<1> QED BY <1>1, <1>4, <1>5, RemovedStep

LEMMA RemoveManyStep ==
    ASSUME IInv, NEW t \in Everybody, RemoveMany(t)
    PROVE IInv'
<1>1. /\ Locked(t) /\ UNCHANGED <<key, told, used, twice, missed, late, counts>>
      /\ backup' = {} /\ current' \in {current, {}} /\ gone' = gone \cup (current \ current') \cup backup
  BY DEF RemoveMany
<1>2. current \cap backup = {}
  BY DEF IInv, Places
<1>3. Kept' \subseteq Kept /\ current' \cap backup' = {} /\ gone' = gone \cup (Kept \ Kept')
  BY <1>1, <1>2 DEF Kept
<1>4. UsedInv' /\ used' \in SUBSET Entries
  BY <1>1 DEF IInv, UsedInv, Types, TypeOK
<1> QED BY <1>1, <1>3, <1>4, RemovedStep

LEMMA LookStep ==
    ASSUME IInv, NEW t \in Everybody, Look(t)
    PROVE IInv'
<1>1. Locked(t) /\ UNCHANGED <<current, backup, history>>
  BY DEF Look, maps
<1>2. Kept' = Kept /\ current' \cap backup' = {}
  BY <1>1 DEF IInv, Places, Kept
<1>3. gone' = gone \cup (Kept \ Kept') /\ UsedInv' /\ used' \in SUBSET Entries
  BY <1>1, <1>2 DEF history, entries, IInv, UsedInv, Types, TypeOK
<1> QED BY <1>1, <1>2, <1>3, RemovedStep DEF history, entries

\* What a new entry and its key add.
LEMMA KeyFacts ==
    ASSUME IInv, NEW k \in Keys, NEW e, e = Len(key) + 1, key' = Append(key, k)
    PROVE /\ key' \in Seq(Keys) /\ Kept \subseteq DOMAIN key /\ e \notin DOMAIN key
          /\ DOMAIN key' = DOMAIN key \cup {e} /\ key'[e] = k
          /\ \A f \in DOMAIN key : key'[f] = key[f]
BY DEF IInv, Types, TypeOK, Places

\* A new entry takes the place of some, or is put beside them.
LEMMA Inserted ==
    ASSUME IInv, NEW t \in Everybody, NEW s, Go(t, s), t \in Loops => old[t] = {},
           NEW k \in Keys, NEW e, e = Len(key) + 1, key' = Append(key, k),
           Kept' \subseteq Kept \cup {e}, e \in Kept', current' \cap backup' = {},
           gone' = gone \cup (Kept \ Kept'), k \notin twice' => \A f \in Kept \cap Kept' : key[f] # k,
           twice' \in {twice, twice \cup {k}}, UNCHANGED <<old, told>>
    PROVE Places' /\ Unique'
<1>1. /\ key' \in Seq(Keys) /\ Kept \subseteq DOMAIN key /\ e \notin DOMAIN key
      /\ DOMAIN key' = DOMAIN key \cup {e} /\ key'[e] = k
      /\ \A f \in DOMAIN key : key'[f] = key[f]
  BY KeyFacts
<1>2. Places'
  <2>1. /\ InHand' = InHand /\ \A l, m \in Loops : l # m => old'[l] \cap old'[m] = {}
        /\ \A l \in Loops : old'[l] # {} => pc'[l] = "updated"
    BY HandKept DEF IInv
  <2>2. Kept' \cup InHand \cup told \cup gone' = DOMAIN key'
    BY <1>1 DEF IInv, Places
  <2>3. /\ Kept' \cap InHand = {} /\ Kept' \cap told = {} /\ Kept' \cap gone' = {}
        /\ InHand \cap gone' = {} /\ told \cap gone' = {} /\ InHand \cap told = {}
    BY <1>1 DEF IInv, Places
  <2> QED BY <2>1, <2>2, <2>3 DEF Places
<1>3. Unique'
  <2> SUFFICES ASSUME NEW f \in Kept', NEW g \in Kept', key'[f] = key'[g], key'[f] \notin twice'
               PROVE f = g
    BY DEF Unique
  <2>1. CASE f = e \/ g = e
    BY <1>1, <2>1
  <2>2. CASE f # e /\ g # e
    BY <1>1, <2>2 DEF IInv, Unique
  <2> QED BY <2>1, <2>2
<1> QED BY <1>2, <1>3

LEMMA PushEmptyStep ==
    ASSUME IInv, NEW t \in Everybody, PushEmpty(t)
    PROVE IInv'
<1>1. /\ Locked(t) /\ current' = {} /\ backup' = current /\ gone' = gone \cup backup /\ used' = {}
      /\ missed' = missed
      /\ UNCHANGED <<key, twice, told, late, counts>>
  BY DEF PushEmpty, PushMap, IInv, Types, TypeOK
<1>2. current \cap backup = {}
  BY DEF IInv, Places
<1>3. Kept' \subseteq Kept /\ current' \cap backup' = {} /\ gone' = gone \cup (Kept \ Kept')
  BY <1>1, <1>2 DEF Kept
<1>4. UsedInv' /\ used' \in SUBSET Entries
  BY <1>1 DEF UsedInv
<1> QED BY <1>1, <1>3, <1>4, RemovedStep

LEMMA PushEntryStep ==
    ASSUME IInv, NEW t \in Everybody, NEW k \in Keys, PushEntry(t, k)
    PROVE IInv'
<1> DEFINE e == Len(key) + 1
<1>1. /\ Locked(t) /\ e \in Entries /\ current' = {e} /\ backup' = current /\ gone' = gone \cup backup
      /\ used' = {e} /\ key' = Append(key, k)
      /\ missed' = (missed \/ (timer = NoTimer /\ duration > 0))
      /\ twice' = IF Of(k, current) = {} THEN twice ELSE twice \cup {k}
      /\ UNCHANGED <<told, late, counts>>
  BY DEF PushEntry, PushMap
<1>2. e \notin Kept /\ current \cap backup = {}
  BY DEF IInv, Types, TypeOK, Places
<1> HIDE DEF e
<1>3. /\ Kept' \subseteq Kept \cup {e} /\ e \in Kept' /\ current' \cap backup' = {}
      /\ gone' = gone \cup (Kept \ Kept')
  BY <1>1, <1>2 DEF Kept
<1>4. k \notin twice' => \A f \in Kept \cap Kept' : key[f] # k
  BY <1>1, <1>2 DEF Kept, Of
<1>5. Go(t, After(t)) /\ (t \in Loops => old[t] = {}) /\ old' = old
  BY <1>1, CallFacts DEF Locked, loop
<1>6. key' \in Seq(Keys)
  BY <1>1, KeyFacts DEF e
<1>7. TypeOK'
  <2>1. {current', backup', gone', used'} \subseteq SUBSET Entries
    BY <1>1 DEF IInv, Types, TypeOK
  <2>2. missed' \in BOOLEAN
    BY <1>1 DEF IInv, Types, TypeOK
  <2>3. twice' \subseteq Keys
    BY <1>1 DEF IInv, Types, TypeOK
  <2>4. gets' \in 0 .. MaxGets
    BY <1>1 DEF IInv, Types, TypeOK, counts
  <2> QED BY <1>1, <1>6, <2>1, <2>2, <2>3, <2>4, LockedTypes DEF counts
<1>8. Types' /\ LockInv' /\ TimerInv' /\ PassInv' /\ EndInv'
  <2>1. missed' \/ (missed' = missed /\ (timer # NoTimer \/ ~(duration > 0)))
    BY <1>1 DEF IInv, Types, TypeOK
  <2> QED BY <1>1, <1>7, <2>1, LockedStep DEF counts
<1>9. Places' /\ Unique'
  <2>1. twice' \in {twice, twice \cup {k}} /\ told' = told
    BY <1>1
  <2> QED BY <1>1, <1>3, <1>4, <1>5, <2>1, Inserted DEF e
<1>10. UsedInv'
  BY <1>1 DEF UsedInv
<1> QED BY <1>8, <1>9, <1>10 DEF IInv

-----------------------------------------------------------------------------
(* put() and add()                                                         *)

\* They may go on to set the timer up.
LEMMA ThenSetupTimer ==
    ASSUME IInv, NEW t \in Everybody, Calls(t), lock = Nobody, Room, ThenSetup(t), TypeOK',
           UNCHANGED <<settings, timer, awaited, loop, made, late>>
    PROVE Types' /\ LockInv' /\ TimerInv' /\ PassInv' /\ EndInv'
<1>1. /\ ~Destroying /\ pc[t] \notin Setting /\ After(t) \notin Setting \cup Ending
      /\ After(t) \in Steps(t) /\ (Return(t) <=> Go(t, After(t)))
      /\ (After(t) \notin {"outside", "update", "updated"} \/ t \notin Loops)
  BY CallFacts
<1>2. CASE timer = NoTimer
  <2>1. lock' = t /\ read' = [read EXCEPT ![t] = duration] /\ Go(t, "create") /\ missed' = FALSE
    BY <1>2 DEF ThenSetup
  <2>2. pc'[t] = "create" /\ \A u \in Everybody : u # t => pc'[u] = pc[u]
    BY <2>1, GoFacts DEF IInv, Types
  <2>3. "create" \in Steps(t) /\ "create" \notin Ending
    BY DEF Steps, Setting, Ending
  <2>4. Types'
    BY <2>1, <2>3, TypesStep DEF IInv
  <2>5. LockInv'
    <3>1. \A u \in Everybody : pc[u] \notin Holding
      BY ConstantsAssumption DEF IInv, LockInv, Everybody
    <3>2. \A u \in Everybody : pc'[u] \in Holding <=> u = t
      BY <2>2, <3>1 DEF Holding
    <3> QED BY <1>2, <2>1, <3>2 DEF LockInv
  <2>6. TimerInv'
    <3>1. \A u \in Everybody : pc'[u] = "create" => u = t
      BY <2>2, ConstantsAssumption DEF IInv, LockInv, Everybody, Holding
    <3>2. read'[t] = duration /\ duration' = duration /\ timer' = NoTimer
      BY <1>2, <2>1 DEF IInv, Types, TypeOK, settings
    <3> QED BY <2>2, <3>1, <3>2 DEF TimerInv
  <2>7. PassInv'
    BY <2>1, PassKept DEF IInv, loop
  <2>8. EndInv'
    BY <1>1, <2>1, <2>3, EndEmpty DEF IInv
  <2> QED BY <2>4, <2>5, <2>6, <2>7, <2>8
<1>3. CASE timer # NoTimer
  <2>1. Go(t, After(t)) /\ UNCHANGED <<lock, read, missed>>
    BY <1>1, <1>3 DEF ThenSetup
  <2>2. Types'
    BY <1>1, <2>1, TypesStep DEF IInv
  <2>3. LockInv'
    BY <1>1, <2>1, LockKept DEF IInv
  <2>4. TimerInv'
    BY <1>1, <1>3, <2>1, TimerKept DEF IInv
  <2>5. PassInv'
    BY <1>1, <2>1, PassKept DEF IInv, loop
  <2>6. EndInv'
    BY <1>1, <2>1, EndEmpty DEF IInv
  <2> QED BY <2>2, <2>3, <2>4, <2>5, <2>6
<1> QED BY <1>2, <1>3

\* A new entry takes the place of those of its key, or is added beside them.
LEMMA InsertStep ==
    ASSUME IInv, NEW t \in Everybody, NEW k \in Keys, NEW e, e = Len(key) + 1, e \in Entries,
           Calls(t), lock = Nobody, Room, ThenSetup(t), key' = Append(key, k),
           Kept' \subseteq Kept \cup {e}, e \in Kept', current' \cap backup' = {},
           gone' = gone \cup (Kept \ Kept'), twice' \in {twice, twice \cup {k}},
           k \notin twice' => \A f \in Kept \cap Kept' : key[f] # k,
           used' = used \cup {e}, UsedInv',
           UNCHANGED <<settings, timer, awaited, loop, told, late, counts>>
    PROVE IInv'
<1>1. key' \in Seq(Keys)
  BY KeyFacts
<1>2. /\ ~Destroying /\ pc[t] \notin Setting /\ After(t) \notin Setting \cup Ending
      /\ After(t) \in Steps(t) /\ (Return(t) <=> Go(t, After(t))) /\ (t \in Loops => old[t] = {})
  BY CallFacts
<1>3. PICK s \in {"create", After(t)} : Go(t, s)
  BY <1>2 DEF ThenSetup
<1>4. TypeOK'
  <2>1. pc' \in [Everybody -> Pcs]
    BY <1>2, <1>3, PcType DEF IInv, Types, Steps, Setting
  <2>2. /\ lock' \in Everybody \cup {Nobody} /\ missed' \in BOOLEAN
        /\ read' \in [Everybody -> Durations \cup {0}]
    <3>1. CASE timer = NoTimer
      <4>1. lock' = t /\ read' = [read EXCEPT ![t] = duration] /\ missed' = FALSE
        BY <3>1 DEF ThenSetup
      <4>2. read \in [Everybody -> Durations \cup {0}] /\ duration \in Durations
        BY DEF IInv, Types, TypeOK
      <4> QED BY <4>1, <4>2
    <3>2. CASE timer # NoTimer
      <4>1. UNCHANGED <<lock, read, missed>>
        BY <3>2 DEF ThenSetup
      <4> QED BY <4>1 DEF IInv, Types, TypeOK
    <3> QED BY <3>1, <3>2
  <2>3. {current', backup', told', gone', used'} \subseteq SUBSET Entries
    BY DEF IInv, Types, TypeOK, Kept
  <2>4. key' \in Seq(Keys) /\ twice' \subseteq Keys
    BY <1>1 DEF IInv, Types, TypeOK
  <2> QED BY <2>1, <2>2, <2>3, <2>4, PcsAre DEF IInv, Types, TypeOK, loop, settings, counts
<1>5. Types' /\ LockInv' /\ TimerInv' /\ PassInv' /\ EndInv'
  BY <1>4, ThenSetupTimer DEF counts
<1>6. Places' /\ Unique'
  BY <1>2, <1>3, Inserted DEF loop
<1> QED BY <1>5, <1>6 DEF IInv

\* What is left of a map of which HashMap::remove() took one of the entries with the key.
LEMMA WithoutLeaves ==
    ASSUME NEW k, NEW map, NEW rest \in Without(k, map), \A f, g \in map : key[f] = k /\ key[g] = k => f = g
    PROVE \A f \in rest : key[f] # k
BY DEF Without, Of

LEMMA PutStep ==
    ASSUME IInv, NEW t \in Everybody, NEW k \in Keys, Put(t, k)
    PROVE IInv'
<1> DEFINE e == Len(key) + 1
<1>1. /\ Calls(t) /\ lock = Nobody /\ e \in Entries /\ Room /\ key' = Append(key, k)
      /\ used' = used \cup {e} /\ ThenSetup(t)
      /\ UNCHANGED <<settings, timer, awaited, loop, told, twice, late, counts>>
  BY DEF Put
<1>2. PICK c \in Without(k, current), b \in Without(k, backup) :
         /\ current' = c \cup {e} /\ backup' = b
         /\ gone' = gone \cup (current \ c) \cup (backup \ b)
  BY DEF Put, PutMaps
<1>3. c \subseteq current /\ b \subseteq backup
  BY WithoutIs
<1>4. e \notin Kept /\ current \cap backup = {}
  BY DEF IInv, Types, TypeOK, Places
<1> HIDE DEF e
<1>5. /\ Kept' \subseteq Kept \cup {e} /\ e \in Kept' /\ current' \cap backup' = {}
      /\ gone' = gone \cup (Kept \ Kept')
  BY <1>2, <1>3, <1>4 DEF Kept
<1>6. k \notin twice => \A f \in Kept \cap Kept' : key[f] # k
  <2> SUFFICES ASSUME k \notin twice PROVE \A f \in c \cup b : key[f] # k
    BY <1>2, <1>4 DEF Kept
  <2>1. \A f, g \in Kept : key[f] = k /\ key[g] = k => f = g
    BY DEF IInv, Unique
  <2>2. \A f \in c : key[f] # k
    BY <2>1, WithoutLeaves DEF Kept
  <2>3. \A f \in b : key[f] # k
    BY <2>1, WithoutLeaves DEF Kept
  <2> QED BY <2>2, <2>3
<1>7. UsedInv'
  BY <1>1, <1>2 DEF IInv, UsedInv
<1> QED BY <1>1, <1>5, <1>6, <1>7, InsertStep DEF e

LEMMA AddStep ==
    ASSUME IInv, NEW t \in Everybody, NEW k \in Keys, Add(t, k)
    PROVE IInv'
<1> DEFINE e == Len(key) + 1
<1>1. /\ Calls(t) /\ lock = Nobody /\ e \in Entries /\ Room /\ key' = Append(key, k)
      /\ ThenSetup(t) /\ UNCHANGED <<backup, settings, timer, awaited, loop, told, gone, late, counts>>
      /\ current' = current \cup {e} /\ used' = used \cup {e}
      /\ twice' = IF Of(k, current \cup backup) = {} THEN twice ELSE twice \cup {k}
  BY DEF Add
<1>2. e \notin Kept /\ current \cap backup = {}
  BY DEF IInv, Types, TypeOK, Places
<1> HIDE DEF e
<1>3. /\ Kept' \subseteq Kept \cup {e} /\ e \in Kept' /\ current' \cap backup' = {}
      /\ gone' = gone \cup (Kept \ Kept')
  BY <1>1, <1>2 DEF Kept
<1>4. twice' \in {twice, twice \cup {k}} /\ (k \notin twice' => \A f \in Kept \cap Kept' : key[f] # k)
  BY <1>1 DEF Of, Kept
<1>5. UsedInv'
  BY <1>1 DEF IInv, UsedInv
<1> QED BY <1>1, <1>3, <1>4, <1>5, InsertStep DEF e
-----------------------------------------------------------------------------
(* Setting the timer up                                                    *)

\* While a call is on its way to _setupTimer the timer need not fit.
LEMMA TimerLooks ==
    ASSUME Types, TimerInv, NEW t \in Everybody, NEW s, Go(t, s), pc[t] # "wait", timer' = timer,
           Destroying => Destroying', Looks', Coming' \/ \A u \in Everybody : pc'[u] # "create"
    PROVE TimerInv'
<1>1. \A u \in Everybody : pc[u] = "wait" => pc'[u] = "wait"
  BY GoFacts DEF Types
<1>2. timer' # NoTimer /\ ~timer'.started => Destroying' \/ \E u \in Everybody : pc'[u] = "wait"
  BY <1>1 DEF TimerInv
<1> QED BY <1>2 DEF TimerInv

LEMMA SetDurationStep ==
    ASSUME IInv, NEW t \in Everybody, SetDuration(t)
    PROVE IInv'
<1>1. /\ Calls(t) /\ Room /\ duration' \in Durations /\ Go(t, "test")
      /\ UNCHANGED <<maps, dispatchLoop, timer, lock, read, awaited, loop, history>>
  BY DEF SetDuration
<1>2. ~Destroying /\ pc[t] \notin Setting /\ (t \in Loops => old[t] = {})
  BY <1>1, CallFacts
<1>3. "test" \in Steps(t) /\ "test" \notin Ending /\ "test" \in Setting /\ "test" \notin Holding
  BY DEF Steps, Setting, Ending, Holding
<1>4. pc'[t] = "test"
  BY <1>1, GoFacts DEF IInv, Types
<1>5. TypeOK'
  BY <1>1, <1>3, PcType, PcsAre DEF IInv, Types, TypeOK, loop, history, entries, counts, maps
<1>6. Types'
  BY <1>1, <1>3, <1>5, TypesStep DEF IInv, history, counts
<1>7. Places'
  BY <1>1, <1>2, PlacesKept DEF IInv, loop, history, entries, maps
<1>8. Unique' /\ UsedInv'
  BY <1>1, UniqueKept, UsedKept DEF IInv, history, entries, maps
<1>9. LockInv'
  BY <1>1, <1>2, <1>3, LockSame DEF IInv, Setting, Holding
<1>10. TimerInv'
  <2>1. Coming' /\ Looks'
    BY <1>4 DEF Coming, Looks
  <2> QED BY <1>1, <1>2, <2>1, TimerLooks DEF IInv, Setting
<1>11. PassInv'
  BY <1>1, PassKept DEF IInv, loop
<1>12. EndInv'
  BY <1>1, <1>2, <1>3, EndEmpty DEF IInv, history
<1> QED BY <1>6, <1>7, <1>8, <1>9, <1>10, <1>11, <1>12 DEF IInv

\* The thread that is in such a call returns from it, or goes on.
LEMMA SetterFacts ==
    ASSUME IInv, NEW t \in Everybody, pc[t] \in Setting
    PROVE /\ ~Destroying /\ (t \in Loops => old[t] = {})
          /\ Return(t) <=> Go(t, After(t))
          /\ After(t) \in Steps(t) /\ After(t) \notin Setting \cup Ending
          /\ After(t) \notin {"outside", "update", "updated"} \/ t \notin Loops
          /\ Setting \subseteq Steps(t) /\ Setting \cap Ending = {}
          /\ Setting \cap {"outside", "update", "updated"} = {}
BY SettersAlone DEF IInv, Places, Return, After, Steps, Setting, Ending

\* What the steps of such a call leave as it is.
LEMMA SetterKeeps ==
    ASSUME IInv, NEW t \in Everybody, pc[t] \in Setting, NEW s \in Steps(t) \ Ending, Go(t, s),
           UNCHANGED <<maps, loop, entries, late>>
    PROVE Places' /\ UsedInv' /\ Unique' /\ EndInv'
<1>1. ~Destroying /\ (t \in Loops => old[t] = {})
  BY SetterFacts
<1>2. Places'
  BY <1>1, PlacesKept DEF IInv, loop, maps, entries
<1>3. Unique' /\ UsedInv'
  BY UniqueKept, UsedKept DEF IInv, maps, entries
<1>4. EndInv'
  BY <1>1, EndEmpty DEF IInv
<1> QED BY <1>2, <1>3, <1>4

LEMMA TestTimerStep ==
    ASSUME IInv, NEW t \in Everybody, TestTimer(t)
    PROVE IInv'
<1>1. /\ pc[t] = "test" /\ missed' = (missed \/ Misses)
      /\ UNCHANGED <<maps, settings, timer, lock, read, awaited, loop, entries, late, counts>>
  BY DEF TestTimer
<1>2. pc[t] \in Setting /\ pc[t] \notin Holding
  BY <1>1 DEF Setting, Holding
<1>3. /\ ~Destroying /\ (Return(t) <=> Go(t, After(t)))
      /\ After(t) \in Steps(t) /\ After(t) \notin Setting \cup Ending
      /\ After(t) \notin {"outside", "update", "updated"} \/ t \notin Loops
      /\ Setting \subseteq Steps(t) /\ Setting \cap Ending = {}
  BY <1>2, SetterFacts
<1>4. PICK s \in {"lock", After(t)} : Go(t, s) /\ (s = "lock" <=> timer # NoTimer)
  <2>1. "lock" \in Setting
    BY DEF Setting
  <2> QED BY <1>3, <2>1 DEF TestTimer
<1>5. /\ s \in Steps(t) \ Ending /\ s \notin Holding
      /\ s \notin {"outside", "update", "updated"} \/ t \notin Loops
  BY <1>3, <1>4 DEF Setting, Holding, After
<1>6. TypeOK'
  <2>1. pc' \in [Everybody -> Pcs]
    BY <1>4, <1>5, PcType DEF IInv, Types
  <2>2. missed' \in BOOLEAN
    BY <1>1 DEF IInv, Types, TypeOK, Misses
  <2> QED BY <1>1, <2>1, <2>2, PcsAre DEF IInv, Types, TypeOK, loop, maps, settings, entries, counts
<1>7. Types'
  BY <1>1, <1>2, <1>4, <1>5, <1>6, TypesStep DEF IInv, counts
<1>8. Places' /\ UsedInv' /\ Unique' /\ EndInv'
  BY <1>1, <1>2, <1>4, <1>5, SetterKeeps
<1>9. LockInv'
  BY <1>1, <1>2, <1>4, <1>5, LockSame DEF IInv
<1>10. PassInv'
  BY <1>1, <1>4, <1>5, PassKept DEF IInv, loop
<1>11. pc'[t] = s /\ \A u \in Everybody : u # t => pc'[u] = pc[u]
  BY <1>4, GoFacts DEF IInv, Types
<1>12. TimerInv'
  <2>1. CASE s = "lock"
    <3>1. Coming' /\ Looks'
      BY <1>11, <2>1 DEF Coming, Looks
    <3> QED BY <1>1, <1>3, <1>4, <3>1, TimerLooks DEF IInv
  <2>2. CASE timer = NoTimer
    <3>1. Kept # {} => missed'
      BY <1>1, <2>2 DEF Misses, Kept
    <3>2. ASSUME NEW u \in Everybody, pc'[u] = "create" PROVE missed'
      <4>1. pc[u] = "create"
        BY <1>5, <1>11, <3>2 DEF Holding
      <4>2. lock = u
        BY <4>1 DEF IInv, LockInv, Holding
      <4>3. lock # Nobody
        BY <4>2, ConstantsAssumption DEF Everybody
      <4> QED BY <1>1, <2>2, <4>3 DEF Misses
    <3> QED BY <1>1, <2>2, <3>1, <3>2 DEF TimerInv, Kept, maps, settings
  <2> QED BY <1>4, <2>1, <2>2
<1> QED BY <1>7, <1>8, <1>9, <1>10, <1>12 DEF IInv
\* Who takes the lock to set the timer up finds no other thread there.
LEMMA TakesLock ==
    ASSUME Types, LockInv, NEW t \in Everybody, lock = Nobody, lock' = t, Go(t, "stop"), timer' = timer
    PROVE LockInv' /\ Looks' /\ \A u \in Everybody : pc'[u] # "create"
<1>1. pc'[t] = "stop" /\ \A u \in Everybody : u # t => pc'[u] = pc[u]
  BY GoFacts DEF Types
<1>2. \A u \in Everybody : pc[u] \notin Holding
  BY ConstantsAssumption DEF LockInv, Everybody
<1>3. \A u \in Everybody : pc'[u] \in Holding <=> u = t
  BY <1>1, <1>2 DEF Holding
<1>4. \A u \in Everybody : pc'[u] # "create"
  BY <1>1, <1>2 DEF Holding
<1> QED BY <1>1, <1>3, <1>4 DEF LockInv, Looks

LEMMA SetupTimerStep ==
    ASSUME IInv, NEW t \in Everybody, SetupTimer(t)
    PROVE IInv'
<1>1. /\ Calls(t) /\ lock = Nobody /\ Room /\ duration' \in Durations
      /\ missed' = (missed \/ (duration' # duration /\ Misses))
      /\ dispatchLoop' \in Loops
      /\ UNCHANGED <<maps, timer, read, awaited, loop, entries, late, counts>>
  BY DEF SetupTimer
<1>2. /\ ~Destroying /\ pc[t] \notin Setting /\ After(t) \notin Setting \cup Ending
      /\ After(t) \in Steps(t) /\ (Return(t) <=> Go(t, After(t))) /\ (t \in Loops => old[t] = {})
      /\ (After(t) \notin {"outside", "update", "updated"} \/ t \notin Loops)
  BY <1>1, CallFacts
<1>3. PICK s \in {"stop", After(t)} :
         /\ Go(t, s)
         /\ s = "stop" => timer # NoTimer /\ lock' = t
         /\ s = After(t) => timer = NoTimer /\ lock' = lock
  <2>1. After(t) # "stop"
    BY DEF After
  <2> QED BY <1>2, <2>1 DEF SetupTimer
<1>4. /\ s \in Steps(t) /\ s \notin Ending
      /\ (s \notin {"outside", "update", "updated"} \/ t \notin Loops)
  BY <1>2, <1>3 DEF Steps, Setting, Ending, After
<1>5. TypeOK'
  <2>1. pc' \in [Everybody -> Pcs]
    BY <1>3, <1>4, PcType DEF IInv, Types
  <2>2. missed' \in BOOLEAN /\ lock' \in Everybody \cup {Nobody}
    BY <1>1, <1>3 DEF IInv, Types, TypeOK, Misses
  <2> QED BY <1>1, <2>1, <2>2, PcsAre DEF IInv, Types, TypeOK, loop, maps, entries, counts
<1>6. Types'
  BY <1>1, <1>3, <1>4, <1>5, TypesStep DEF IInv, counts
<1>7. Places' /\ UsedInv' /\ Unique' /\ PassInv'
  <2>1. Places'
    BY <1>1, <1>2, <1>3, PlacesKept DEF IInv, loop, maps, entries
  <2>2. Unique' /\ UsedInv'
    BY <1>1, UniqueKept, UsedKept DEF IInv, maps, entries
  <2>3. PassInv'
    BY <1>1, <1>3, <1>4, PassKept DEF IInv, loop
  <2> QED BY <2>1, <2>2, <2>3
<1>8. EndInv'
  BY <1>1, <1>2, <1>3, <1>4, EndEmpty DEF IInv
<1>9. LockInv' /\ TimerInv'
  <2>1. CASE s = "stop"
    <3>1. LockInv' /\ Looks' /\ \A u \in Everybody : pc'[u] # "create"
      BY <1>1, <1>3, <2>1, TakesLock DEF IInv
    <3>2. pc[t] # "wait"
      BY <1>2 DEF Setting
    <3> QED BY <1>1, <1>2, <1>3, <2>1, <3>1, <3>2, TimerLooks DEF IInv
  <2>2. CASE s = After(t)
    <3>1. LockInv'
      BY <1>1, <1>2, <1>3, <2>2, LockKept DEF IInv
    <3>2. CASE duration' = duration
      <4>1. missed' = missed /\ Kept' = Kept
        BY <1>1, <3>2 DEF IInv, Types, TypeOK, Kept, maps
      <4>2. \A u \in Everybody : \A x \in Setting : pc'[u] = x <=> pc[u] = x
        BY <1>2, <1>3, <2>2, Steady DEF IInv, Types
      <4>3. /\ Looks => Looks' /\ (Coming => Coming')
            /\ \A u \in Everybody : pc'[u] = "create" <=> pc[u] = "create"
        BY <4>2 DEF Looks, Coming, Setting
      <4>4. Coming => Coming'
        BY <4>2 DEF Coming, Setting
      <4> QED BY <1>1, <1>3, <2>2, <3>1, <3>2, <4>1, <4>3, <4>4 DEF IInv, TimerInv
    <3>3. CASE duration' # duration
      <4>1. Kept' # {} => missed'
        BY <1>1, <1>3, <2>2, <3>3 DEF Misses, Kept, maps
      <4>2. \A u \in Everybody : pc'[u] # "create"
        <5>1. \A u \in Everybody : pc'[u] \in Holding => lock' = u
          BY <3>1 DEF LockInv
        <5> QED BY <1>1, <1>3, <2>2, <5>1, ConstantsAssumption DEF Holding, Everybody
      <4> QED BY <1>1, <1>3, <2>2, <3>1, <4>1, <4>2 DEF TimerInv
    <3> QED BY <3>2, <3>3, <3>1
  <2> QED BY <1>3, <2>1, <2>2
<1> QED BY <1>6, <1>7, <1>8, <1>9 DEF IInv

LEMMA LockStep ==
    ASSUME IInv, NEW t \in Everybody, Lock(t)
    PROVE IInv'
<1>1. /\ pc[t] = "lock" /\ lock = Nobody /\ lock' = t /\ Go(t, "stop")
      /\ UNCHANGED <<maps, settings, timer, read, awaited, loop, history>>
  BY DEF Lock
<1>2. pc[t] \in Setting /\ "stop" \in Setting /\ "stop" \in Steps(t) \ Ending
  BY <1>1 DEF Setting, Steps, Ending
<1>3. TypeOK'
  BY <1>1, <1>2, PcType, PcsAre DEF IInv, Types, TypeOK, loop, maps, settings, history, entries, counts
<1>4. Types'
  BY <1>1, <1>2, <1>3, TypesStep DEF IInv, history, counts
<1>5. Places' /\ UsedInv' /\ Unique' /\ EndInv'
  BY <1>1, <1>2, SetterKeeps DEF history
<1>6. PassInv'
  BY <1>1, PassKept DEF IInv, loop
<1>7. LockInv' /\ Looks' /\ \A u \in Everybody : pc'[u] # "create"
  BY <1>1, TakesLock DEF IInv
<1>8. TimerInv'
  BY <1>1, <1>2, <1>7, SetterFacts, TimerLooks DEF IInv
<1> QED BY <1>4, <1>5, <1>6, <1>7, <1>8 DEF IInv

Timers == [id : 1 .. MaxTimers, on : Loops, started : BOOLEAN, interval : Durations \ {0}]

\* Timer::stop() leaves the timer what it was.
LEMMA Stopped ==
    ASSUME TypeOK, timer' = [timer EXCEPT !.started = FALSE]
    PROVE /\ timer' \in {NoTimer} \cup Timers
          /\ timer' = NoTimer <=> timer = NoTimer
          /\ timer'.id = timer.id /\ timer'.on = timer.on
          /\ ~timer'.started
<1>1. timer \in {NoTimer} \cup Timers
  BY DEF TypeOK, Timers
<1>2. CASE timer = NoTimer
  <2>1. timer' = NoTimer
    BY <1>2 DEF NoTimer
  <2> QED BY <1>2, <2>1 DEF NoTimer
<1>3. CASE timer \in Timers
  <2>1. timer' \in Timers /\ timer'.id = timer.id /\ timer'.on = timer.on /\ ~timer'.started
    BY <1>3 DEF Timers
  <2>2. timer.id # 0 /\ NoTimer.id = 0
    BY <1>3 DEF Timers, NoTimer
  <2> QED BY <2>1, <2>2
<1> QED BY <1>1, <1>2, <1>3

\* Passes take no notice of what else happens to the timer.
LEMMA PassMoved ==
    ASSUME Types, PassInv, NEW t \in Everybody, NEW s, Go(t, s), s \notin {"outside", "update", "updated"} \/ t \notin Loops,
           UNCHANGED <<running, cleared>>,
           \/ (timer' = NoTimer <=> timer = NoTimer) /\ timer'.id = timer.id /\ timer'.on = timer.on
           \/ \A l \in Loops : running[l] # 0 => l \in cleared
    PROVE PassInv'
<1> SUFFICES ASSUME NEW l \in Loops
             PROVE /\ pc'[l] \in {"update", "updated"} => running[l] # 0
                   /\ pc'[l] \in {"outside", "update"} => l \notin cleared
                   /\ running[l] # 0 /\ l \notin cleared => timer' # NoTimer /\ running[l] = timer'.id /\ timer'.on = l
  BY DEF PassInv
<1>1. CASE l = t
  BY <1>1, GoFacts DEF Types, PassInv
<1>2. CASE l # t
  BY <1>2, GoFacts DEF Types, PassInv, Everybody
<1> QED BY <1>1, <1>2

LEMMA StopStep ==
    ASSUME IInv, NEW t \in Everybody, Stop(t)
    PROVE IInv'
<1>1. /\ pc[t] = "stop" /\ Go(t, "wait") /\ timer' = [timer EXCEPT !.started = FALSE]
      /\ UNCHANGED <<maps, settings, lock, read, awaited, loop, history>>
  BY DEF Stop
<1>2. pc[t] \in Setting /\ "wait" \in Setting /\ "wait" \in Steps(t) \ Ending
  BY <1>1 DEF Setting, Steps, Ending
<1>3. /\ timer' \in {NoTimer} \cup Timers
      /\ timer' = NoTimer <=> timer = NoTimer
      /\ timer'.id = timer.id /\ timer'.on = timer.on
  BY <1>1, Stopped DEF IInv, Types
<1>4. TypeOK'
  BY <1>1, <1>2, <1>3, PcType, PcsAre DEF IInv, Types, TypeOK, Timers, loop, maps, settings, history, entries, counts
<1>5. Types'
  BY <1>1, <1>2, <1>4, TypesStep DEF IInv, history, counts
<1>6. Places' /\ UsedInv' /\ Unique' /\ EndInv'
  BY <1>1, <1>2, SetterKeeps DEF history
<1>7. PassInv'
  BY <1>1, <1>3, PassMoved DEF IInv, loop
<1>8. pc'[t] = "wait" /\ \A u \in Everybody : u # t => pc'[u] = pc[u]
  BY <1>1, GoFacts DEF IInv, Types
<1>9. \A u \in Everybody : pc'[u] \in Holding <=> lock' = u
  BY <1>1, <1>8 DEF IInv, LockInv, Holding
<1>10. \A u \in Everybody : pc'[u] # "create"
  BY <1>1, <1>8, <1>9 DEF IInv, LockInv, Holding
<1>11. LockInv'
  BY <1>9, <1>10 DEF LockInv
<1>12. TimerInv'
  BY <1>8, <1>10 DEF TimerInv, Looks
<1> QED BY <1>5, <1>6, <1>7, <1>11, <1>12 DEF IInv

LEMMA EndWaitStep ==
    ASSUME IInv, NEW t \in Everybody, EndWait(t)
    PROVE IInv'
<1>1. /\ pc[t] = "wait" /\ ~Runs(timer.id) /\ Go(t, "create") /\ timer' = NoTimer
      /\ read' = [read EXCEPT ![t] = duration] /\ missed' = FALSE
      /\ UNCHANGED <<maps, settings, lock, awaited, loop, entries, late, counts>>
  BY DEF EndWait
<1>2. pc[t] \in Setting /\ "create" \in Setting /\ "create" \in Steps(t) \ Ending
  BY <1>1 DEF Setting, Steps, Ending
<1>3. TypeOK'
  <2>1. pc' \in [Everybody -> Pcs]
    BY <1>1, <1>2, PcType DEF IInv, Types
  <2>2. read' \in [Everybody -> Durations \cup {0}]
    <3>1. read \in [Everybody -> Durations \cup {0}] /\ duration \in Durations
      BY DEF IInv, Types, TypeOK
    <3> QED BY <1>1, <3>1
  <2> QED BY <1>1, <2>1, <2>2, PcsAre DEF IInv, Types, TypeOK, loop, maps, settings, entries, counts
<1>4. Types'
  BY <1>1, <1>2, <1>3, TypesStep DEF IInv, counts
<1>5. Places' /\ UsedInv' /\ Unique' /\ EndInv'
  BY <1>1, <1>2, SetterKeeps
<1>6. PassInv'
  <2>1. \A l \in Loops : running[l] # 0 => l \in cleared
    BY <1>1 DEF Runs, IInv, PassInv
  <2> QED BY <1>1, <2>1, PassMoved DEF IInv, loop
<1>7. pc'[t] = "create" /\ \A u \in Everybody : u # t => pc'[u] = pc[u]
  BY <1>1, GoFacts DEF IInv, Types
<1>8. \A u \in Everybody : pc'[u] \in Holding <=> lock' = u
  BY <1>1, <1>7 DEF IInv, LockInv, Holding
<1>9. LockInv'
  BY <1>1, <1>8 DEF LockInv
<1>10. TimerInv'
  <2>1. \A u \in Everybody : pc'[u] = "create" => u = t
    BY <1>7, <1>8 DEF Holding
  <2>2. read'[t] = duration'
    BY <1>1 DEF IInv, Types, TypeOK, settings
  <2> QED BY <1>1, <1>7, <2>1, <2>2 DEF TimerInv
<1> QED BY <1>4, <1>5, <1>6, <1>9, <1>10 DEF IInv

LEMMA CreateStep ==
    ASSUME IInv, NEW t \in Everybody, Create(t)
    PROVE IInv'
<1>1. /\ pc[t] = "create" /\ Return(t) /\ lock' = Nobody
      /\ IF read[t] = 0 THEN UNCHANGED <<timer, made>>
         ELSE made' = made + 1 /\ timer' = [id |-> made + 1, on |-> dispatchLoop, started |-> TRUE, interval |-> read[t]]
      /\ UNCHANGED <<maps, settings, read, awaited, loop, entries, missed, late, gets>>
  BY DEF Create
<1>2. pc[t] \in Setting /\ pc[t] \in Holding
  BY <1>1 DEF Setting, Holding
<1>3. /\ ~Destroying /\ Go(t, After(t)) /\ After(t) \in Steps(t) \ Ending /\ After(t) \notin Setting
      /\ (After(t) \notin {"outside", "update", "updated"} \/ t \notin Loops)
  BY <1>1, <1>2, SetterFacts
<1>4. timer = NoTimer /\ lock = t
  BY <1>1, <1>2 DEF IInv, LockInv
<1>5. TypeOK'
  <2>1. pc' \in [Everybody -> Pcs]
    BY <1>3, PcType DEF IInv, Types
  <2>2. /\ made' \in 0 .. MaxTimers
        /\ timer' \in {NoTimer} \cup Timers
    <3>1. made + 1 <= MaxTimers /\ made \in 0 .. MaxTimers /\ MaxTimers \in Nat
      BY <1>2, <1>3, TimerRoom, ConstantsAssumption DEF IInv, Types, TypeOK
    <3>2. read[t] \in Durations \cup {0}
      BY DEF IInv, Types, TypeOK
    <3>3. CASE read[t] = 0
      BY <1>1, <3>3, <1>4, <3>1
    <3>4. CASE read[t] # 0
      <4>1. made' = made + 1 /\ timer' = [id |-> made + 1, on |-> dispatchLoop, started |-> TRUE, interval |-> read[t]]
        BY <1>1, <3>4
      <4>2. made + 1 \in 1 .. MaxTimers /\ read[t] \in Durations \ {0} /\ dispatchLoop \in Loops
        BY <3>1, <3>2, <3>4 DEF IInv, Types, TypeOK
      <4>3. timer' \in Timers
        BY <4>1, <4>2 DEF Timers
      <4> QED BY <4>1, <4>2, <4>3
    <3> QED BY <3>3, <3>4
  <2> QED BY <1>1, <2>1, <2>2, PcsAre DEF IInv, Types, TypeOK, Timers, loop, maps, settings, entries
<1>6. Types'
  BY <1>1, <1>2, <1>3, <1>5, TypesStep DEF IInv
<1>7. Places' /\ UsedInv' /\ Unique' /\ EndInv'
  BY <1>1, <1>2, <1>3, SetterKeeps
<1>8. PassInv'
  <2>1. \A l \in Loops : running[l] # 0 => l \in cleared
    BY <1>4 DEF IInv, PassInv
  <2> QED BY <1>1, <1>3, <2>1, PassMoved DEF IInv, loop
<1>9. pc'[t] = After(t) /\ \A u \in Everybody : u # t => pc'[u] = pc[u]
  BY <1>3, GoFacts DEF IInv, Types
<1>10. \A u \in Everybody : pc'[u] \notin Holding
  BY <1>3, <1>4, <1>9 DEF IInv, LockInv, Holding, Setting
<1>11. LockInv'
  BY <1>1, <1>10, ConstantsAssumption DEF LockInv, Everybody, Holding
<1>12. TimerInv'
  <2>1. Coming => Coming'
    BY <1>1, <1>9 DEF Coming
  <2>2. read[t] # duration => missed \/ Coming
    BY <1>1 DEF IInv, TimerInv
  <2>3. Coming' => Looks'
    BY DEF Looks
  <2>4. \A u \in Everybody : pc'[u] # "create"
    BY <1>10 DEF Holding
  <2>5. CASE read[t] = 0
    BY <1>1, <1>4, <2>1, <2>2, <2>3, <2>4, <2>5, ConstantsAssumption DEF TimerInv, IInv, Types, TypeOK, NoTimer, settings
  <2>6. CASE read[t] # 0
    BY <1>1, <2>1, <2>2, <2>3, <2>4, <2>6 DEF TimerInv, NoTimer, settings
  <2> QED BY <2>5, <2>6
<1> QED BY <1>6, <1>7, <1>8, <1>11, <1>12 DEF IInv
-----------------------------------------------------------------------------
(* The loops' threads                                                      *)

LoopSteps == {"outside", "call", "update", "updated", "callback", "end"}

\* A step of a loop's thread outside the calls.
LEMMA LoopStep ==
    ASSUME IInv, NEW l \in Loops, NEW s \in LoopSteps, Go(l, s), pc[l] \notin Setting,
           lock' = lock, made' = made, timer' = timer \/ timer' = NoTimer, TypeOK'
    PROVE Types' /\ LockInv' /\ (\A u \in Threads : pc'[u] = pc[u]) /\ (Destroying' <=> Destroying)
<1>1. l \in Everybody /\ s \in Steps(l) /\ s \notin Setting
  BY DEF Everybody, Steps, Setting, LoopSteps
<1>2. Types'
  BY <1>1, TypesStep DEF IInv
<1>3. LockInv'
  BY <1>1, LockKept DEF IInv
<1>4. \A u \in Threads : pc'[u] = pc[u]
  BY <1>1, GoFacts, ConstantsAssumption DEF IInv, Types, Everybody
<1> QED BY <1>2, <1>3, <1>4 DEF Destroying

LEMMA LoopTypes ==
    ASSUME IInv, NEW l \in Loops, NEW s \in LoopSteps, Go(l, s)
    PROVE /\ l \in Everybody /\ pc' \in [Everybody -> Pcs] /\ s \notin Setting
          /\ pc'[l] = s /\ \A m \in Loops : m # l => pc'[m] = pc[m]
<1>1. l \in Everybody /\ s \in Steps(l) /\ s \notin Setting
  BY DEF Everybody, Steps, Setting, LoopSteps
<1>2. pc' \in [Everybody -> Pcs]
  BY <1>1, PcType DEF IInv, Types
<1> QED BY <1>1, <1>2, GoFacts DEF IInv, Types, Everybody

LEMMA RunStep ==
    ASSUME IInv, NEW l \in Loops, Run(l)
    PROVE IInv'
<1>1. /\ pc[l] = "outside" /\ timer.started /\ timer.on = l /\ Go(l, "update")
      /\ running' = [running EXCEPT ![l] = timer.id]
      /\ UNCHANGED <<maps, settings, timer, lock, read, awaited, old, cleared, history>>
  BY DEF Run
<1>2. "update" \in LoopSteps /\ pc[l] \notin Setting
  BY <1>1 DEF LoopSteps, Setting
<1>3. timer # NoTimer /\ timer.id \in 1 .. MaxTimers
  BY <1>1 DEF NoTimer, IInv, Types, TypeOK
<1>4. /\ l \in Everybody /\ pc' \in [Everybody -> Pcs] /\ "update" \notin Setting
      /\ pc'[l] = "update" /\ \A m \in Loops : m # l => pc'[m] = pc[m]
  BY <1>1, <1>2, LoopTypes
<1>5. /\ running' \in [Loops -> 0 .. MaxTimers] /\ running'[l] = timer.id
      /\ \A m \in Loops : m # l => running'[m] = running[m]
  BY <1>1, <1>3, ConstantsAssumption DEF IInv, Types, TypeOK
<1>6. TypeOK'
  BY <1>1, <1>4, <1>5, PcsAre DEF IInv, Types, TypeOK, maps, settings, history, entries, counts
<1>7. Types' /\ LockInv' /\ (\A u \in Threads : pc'[u] = pc[u]) /\ (Destroying' <=> Destroying)
  BY <1>1, <1>2, <1>6, LoopStep DEF history, counts
<1>8. Places' /\ UsedInv' /\ Unique'
  <2>1. old[l] = {}
    BY <1>1 DEF IInv, Places
  <2> QED BY <1>1, <1>4, <2>1, PlacesKept, UsedKept, UniqueKept DEF IInv, maps, history, entries
<1>9. TimerInv'
  <2>1. Kept' = Kept
    BY <1>1 DEF Kept, maps
  <2> QED BY <1>1, <1>2, <1>4, <1>7, <2>1, TimerKept DEF IInv, history
<1>10. PassInv'
  <2> SUFFICES ASSUME NEW m \in Loops
               PROVE /\ pc'[m] \in {"update", "updated"} => running'[m] # 0
                     /\ pc'[m] \in {"outside", "update"} => m \notin cleared
                     /\ running'[m] # 0 /\ m \notin cleared =>
                           timer # NoTimer /\ running'[m] = timer.id /\ timer.on = m
    BY <1>1 DEF PassInv
  <2>1. CASE m = l
    <3>1. l \notin cleared
      BY <1>1 DEF IInv, PassInv
    <3> QED BY <1>1, <1>3, <1>4, <1>5, <2>1, <3>1
  <2>2. CASE m # l
    BY <1>4, <1>5, <2>2 DEF IInv, PassInv
  <2> QED BY <2>1, <2>2
<1>11. EndInv'
  <2>1. \A t \in Threads : pc[t] \notin {"destroyWait", "destroyed"}
    BY <1>1 DEF IInv, EndInv, Ending
  <2>2. \A m \in Loops : pc'[m] \in {"call", "test", "lock"} => pc[m] \in {"call", "test", "lock"}
    BY <1>4
  <2> QED BY <1>1, <1>7, <2>1, <2>2 DEF IInv, EndInv, history
<1> QED BY <1>7, <1>8, <1>9, <1>10, <1>11 DEF IInv

\* A pass on its loop is the only one that did not clear m_timer.
LEMMA OnlyPass ==
    ASSUME IInv, NEW l \in Loops, pc[l] = "update"
    PROVE /\ ~Destroyed /\ l \notin cleared /\ running[l] # 0 /\ timer # NoTimer
          /\ \A m \in Loops : running[m] # 0 /\ m \notin cleared => m = l
<1>1. l \notin cleared /\ running[l] # 0 /\ timer # NoTimer /\ timer.on = l
  BY DEF IInv, PassInv
<1>2. ~Destroyed
  BY <1>1 DEF Destroyed, IInv, EndInv, Ending
<1>3. \A m \in Loops : running[m] # 0 /\ m \notin cleared => timer.on = m
  BY DEF IInv, PassInv
<1> QED BY <1>1, <1>2, <1>3

LEMMA UpdateStep ==
    ASSUME IInv, NEW l \in Loops, Update(l)
    PROVE IInv'
<1>1. /\ pc[l] = "update" /\ lock = Nobody /\ Go(l, "updated")
      /\ old' = [old EXCEPT ![l] = backup] /\ backup' = current /\ current' = {} /\ used' = {}
      /\ timer' = IF current = {} THEN NoTimer ELSE timer
      /\ cleared' = IF current = {} THEN cleared \cup {l} ELSE cleared
      /\ UNCHANGED <<settings, lock, read, awaited, running, key, told, gone, twice, missed, counts>>
  BY DEF Update, LeftEmpty
<1>2. "updated" \in LoopSteps /\ pc[l] \notin Setting
  BY <1>1 DEF LoopSteps, Setting
<1>3. /\ ~Destroyed /\ l \notin cleared /\ running[l] # 0
      /\ \A m \in Loops : running[m] # 0 /\ m \notin cleared => m = l
  BY <1>1, OnlyPass
<1>4. late' = late
  BY <1>3 DEF Update, Uses
<1>5. /\ l \in Everybody /\ pc' \in [Everybody -> Pcs] /\ "updated" \notin Setting
      /\ pc'[l] = "updated" /\ \A m \in Loops : m # l => pc'[m] = pc[m]
  BY <1>1, <1>2, LoopTypes
<1>6. old[l] = {}
  BY <1>1 DEF IInv, Places
<1>7. /\ old'[l] = backup /\ \A m \in Loops : m # l => old'[m] = old[m]
      /\ InHand' = InHand \cup backup
  BY <1>1, <1>6, TakenFacts DEF IInv, Types, TypeOK
<1>8. TypeOK'
  <2>1. old' \in [Loops -> SUBSET Entries] /\ {current', backup', told', gone', used'} \subseteq SUBSET Entries
    BY <1>1 DEF IInv, Types, TypeOK
  <2>2. timer' \in {NoTimer} \cup Timers /\ cleared' \subseteq Loops
    BY <1>1 DEF IInv, Types, TypeOK, Timers
  <2> QED BY <1>1, <1>4, <1>5, <2>1, <2>2, PcsAre DEF IInv, Types, TypeOK, Timers, settings, counts
<1>9. Types' /\ LockInv' /\ (\A u \in Threads : pc'[u] = pc[u]) /\ (Destroying' <=> Destroying)
  BY <1>1, <1>2, <1>8, LoopStep DEF counts
<1>10. Kept' = current /\ Kept = current \cup backup
  BY <1>1 DEF Kept
<1>11. Places'
  <2>1. /\ Kept' \cup InHand' \cup told' \cup gone' = DOMAIN key'
        /\ current' \cap backup' = {} /\ Kept' \cap InHand' = {} /\ Kept' \cap told' = {} /\ Kept' \cap gone' = {}
        /\ InHand' \cap told' = {} /\ InHand' \cap gone' = {} /\ told' \cap gone' = {}
    BY <1>1, <1>7, <1>10 DEF IInv, Places
  <2>2. \A k, m \in Loops : k # m => old'[k] \cap old'[m] = {}
    <3>1. \A m \in Loops : old[m] \subseteq InHand
      BY DEF InHand
    <3>2. backup \cap InHand = {}
      BY <1>10 DEF IInv, Places
    <3>3. \A m \in Loops : m # l => old'[m] \cap backup = {}
      BY <1>7, <3>1, <3>2
    <3> QED BY <1>7, <3>3 DEF IInv, Places
  <2>3. \A m \in Loops : old'[m] # {} => pc'[m] = "updated"
    BY <1>5, <1>7 DEF IInv, Places
  <2> QED BY <2>1, <2>2, <2>3 DEF Places
<1>12. Unique' /\ UsedInv'
  BY <1>1, <1>10 DEF IInv, Unique, UsedInv
<1>13. TimerInv'
  <2>1. CASE current # {}
    <3>1. timer' = timer /\ Kept' \subseteq Kept
      BY <1>1, <1>10, <2>1
    <3> QED BY <1>1, <1>2, <1>5, <1>9, <3>1, TimerKept DEF IInv
  <2>2. CASE current = {}
    <3>1. timer' = NoTimer /\ Kept' = {}
      BY <1>1, <1>10, <2>2
    <3>2. \A u \in Everybody : pc'[u] # "create"
      <4>1. \A u \in Everybody : pc[u] # "create"
        BY <1>1, ConstantsAssumption DEF IInv, LockInv, Everybody, Holding
      <4> QED BY <1>5, <1>9, <4>1 DEF Everybody
    <3> QED BY <3>1, <3>2 DEF TimerInv
  <2> QED BY <2>1, <2>2
<1>14. PassInv'
  <2> SUFFICES ASSUME NEW m \in Loops
               PROVE /\ pc'[m] \in {"update", "updated"} => running[m] # 0
                     /\ pc'[m] \in {"outside", "update"} => m \notin cleared'
                     /\ running[m] # 0 /\ m \notin cleared' =>
                           timer' # NoTimer /\ running[m] = timer'.id /\ timer'.on = m
    BY <1>1 DEF PassInv
  <2>1. /\ pc[m] \in {"update", "updated"} => running[m] # 0
        /\ pc[m] \in {"outside", "update"} => m \notin cleared
        /\ running[m] # 0 /\ m \notin cleared => timer # NoTimer /\ running[m] = timer.id /\ timer.on = m
    BY DEF IInv, PassInv
  <2>2. CASE current # {}
    BY <1>1, <1>3, <1>5, <2>1, <2>2
  <2>3. CASE current = {}
    BY <1>1, <1>3, <1>5, <2>1, <2>3
  <2> QED BY <2>2, <2>3
<1>15. EndInv'
  <2>1. ~timer.started => ~timer'.started
    BY <1>1 DEF NoTimer
  <2>2. \A t \in Threads : pc[t] # "destroyed"
    BY <1>3 DEF Destroyed
  <2>3. timer' = NoTimer \/ timer' = timer
    BY <1>1
  <2>4. \A m \in Loops : pc'[m] \in {"call", "test", "lock"} => pc[m] \in {"call", "test", "lock"}
    BY <1>5
  <2> QED BY <1>1, <1>4, <1>9, <2>1, <2>2, <2>3, <2>4 DEF IInv, EndInv
<1> QED BY <1>9, <1>11, <1>12, <1>13, <1>14, <1>15 DEF IInv

\* The steps of a pass after _update: the maps and the timer are left alone.
LEMMA RestOfPass ==
    ASSUME IInv, NEW l \in Loops, NEW s \in {"outside", "call", "callback", "end"}, Go(l, s),
           pc[l] \in {"updated", "callback", "end"}, old' = [old EXCEPT ![l] = {}], told' = told \cup old[l],
           \/ UNCHANGED <<running, cleared>> /\ s # "outside"
           \/ running' = [running EXCEPT ![l] = 0] /\ cleared' = cleared \ {l},
           s = "call" => ~Destroying, late' \in {late, late \cup {<<"tell", TRUE>>}},
           UNCHANGED <<maps, settings, timer, lock, read, awaited, key, gone, used, twice, missed, counts>>
    PROVE IInv'
<1>1. s \in LoopSteps /\ pc[l] \notin Setting /\ s \notin {"update", "updated"}
  BY DEF LoopSteps, Setting
<1>2. /\ l \in Everybody /\ pc' \in [Everybody -> Pcs] /\ s \notin Setting
      /\ pc'[l] = s /\ \A m \in Loops : m # l => pc'[m] = pc[m]
  BY <1>1, LoopTypes
<1>3. /\ running' \in [Loops -> 0 .. MaxTimers] /\ cleared' \subseteq Loops
      /\ \A m \in Loops : m # l => running'[m] = running[m] /\ (m \in cleared' <=> m \in cleared)
      /\ running'[l] # 0 => running'[l] = running[l] /\ (l \in cleared' <=> l \in cleared)
      /\ s = "outside" => l \notin cleared'
  <2>1. running \in [Loops -> 0 .. MaxTimers] /\ cleared \subseteq Loops /\ 0 \in 0 .. MaxTimers
    BY ConstantsAssumption DEF IInv, Types, TypeOK
  <2>2. CASE UNCHANGED <<running, cleared>> /\ s # "outside"
    BY <2>1, <2>2
  <2>3. CASE running' = [running EXCEPT ![l] = 0] /\ cleared' = cleared \ {l}
    <3>1. running' \in [Loops -> 0 .. MaxTimers] /\ running'[l] = 0 /\ \A m \in Loops : m # l => running'[m] = running[m]
      BY <2>1, <2>3
    <3> QED BY <2>1, <2>3, <3>1
  <2> QED BY <2>2, <2>3
<1>4. /\ old'[l] = {} /\ \A m \in Loops : m # l => old'[m] = old[m]
      /\ InHand' = InHand \ old[l]
  BY TakenFacts DEF IInv, Types, TypeOK, Places
<1>5. TypeOK'
  <2>1. old' \in [Loops -> SUBSET Entries] /\ told' \in SUBSET Entries
    BY DEF IInv, Types, TypeOK
  <2>2. late' \subseteq {"update", "tell"} \X BOOLEAN
    <3>1. late \subseteq {"update", "tell"} \X BOOLEAN
      BY DEF IInv, Types, TypeOK
    <3>2. <<"tell", TRUE>> \in {"update", "tell"} \X BOOLEAN
      OBVIOUS
    <3> QED BY <3>1, <3>2
  <2> QED BY <1>2, <1>3, <2>1, <2>2, PcsAre DEF IInv, Types, TypeOK, maps, settings, counts
<1>6. Types' /\ LockInv' /\ (\A u \in Threads : pc'[u] = pc[u]) /\ (Destroying' <=> Destroying)
  BY <1>1, <1>5, LoopStep DEF counts
<1>7. Places'
  <2>1. UNCHANGED <<current, backup, gone, key>> /\ Kept' = Kept
    BY DEF maps, Kept
  <2>2. old[l] \subseteq InHand
    BY DEF InHand
  <2>3. /\ Kept' \cup InHand' \cup told' \cup gone' = DOMAIN key'
        /\ current' \cap backup' = {} /\ Kept' \cap InHand' = {} /\ Kept' \cap told' = {} /\ Kept' \cap gone' = {}
        /\ InHand' \cap told' = {} /\ InHand' \cap gone' = {} /\ told' \cap gone' = {}
    BY <1>4, <2>1, <2>2 DEF IInv, Places
  <2>4. /\ \A k, m \in Loops : k # m => old'[k] \cap old'[m] = {}
        /\ \A m \in Loops : old'[m] # {} => pc'[m] = "updated"
    BY <1>2, <1>4 DEF IInv, Places
  <2> QED BY <2>3, <2>4 DEF Places
<1>8. Unique' /\ UsedInv'
  BY UniqueKept, UsedKept DEF IInv, maps
<1>9. TimerInv'
  <2>1. Kept' = Kept
    BY DEF Kept, maps
  <2> QED BY <1>1, <1>2, <1>6, <2>1, TimerKept DEF IInv
<1>10. PassInv'
  <2> SUFFICES ASSUME NEW m \in Loops
               PROVE /\ pc'[m] \in {"update", "updated"} => running'[m] # 0
                     /\ pc'[m] \in {"outside", "update"} => m \notin cleared'
                     /\ running'[m] # 0 /\ m \notin cleared' =>
                           timer # NoTimer /\ running'[m] = timer.id /\ timer.on = m
    BY DEF PassInv
  <2>1. CASE m = l
    BY <1>1, <1>2, <1>3, <2>1 DEF IInv, PassInv
  <2>2. CASE m # l
    BY <1>2, <1>3, <2>2 DEF IInv, PassInv
  <2> QED BY <2>1, <2>2
<1>11. EndInv'
  <2>1. late' \subseteq {<<"tell", TRUE>>}
    BY DEF IInv, EndInv
  <2> SUFFICES ASSUME NEW t \in Threads, pc[t] \in Ending
               PROVE /\ lock = Nobody /\ \A m \in Loops : pc'[m] \notin {"call", "test", "lock"}
                     /\ \A u \in Threads \ {t} : pc[u] = "outside"
                     /\ pc[t] \in {"destroyWait", "destroyed"} => ~timer.started
                     /\ pc[t] = "destroyWait" => awaited # 0 /\ (timer = NoTimer \/ timer.id = awaited)
                     /\ pc[t] = "destroyed" => \A m \in Loops : running'[m] # 0 => m \in cleared'
    BY <1>6, <2>1 DEF EndInv
  <2>2. s \notin {"call", "test", "lock"}
    BY <1>2 DEF Destroying, Ending, Setting
  <2>3. \A m \in Loops : pc'[m] \notin {"call", "test", "lock"}
    BY <1>2, <2>2 DEF IInv, EndInv
  <2>4. pc[t] = "destroyed" => \A m \in Loops : running'[m] # 0 => m \in cleared'
    BY <1>3 DEF IInv, EndInv
  <2> QED BY <2>3, <2>4 DEF IInv, EndInv
<1> QED BY <1>6, <1>7, <1>8, <1>9, <1>10, <1>11 DEF IInv

\* What a pass uses of a map that is destroyed is what it reads to tell, and it cleared m_timer.
LEMMA TellLate ==
    ASSUME IInv, NEW l \in Loops, pc[l] = "updated", Uses(l, "tell")
    PROVE late' \in {late, late \cup {<<"tell", TRUE>>}}
<1>1. ASSUME Destroyed PROVE l \in cleared
  <2>1. PICK t \in Threads : pc[t] = "destroyed"
    BY <1>1 DEF Destroyed
  <2>2. running[l] # 0
    BY DEF IInv, PassInv
  <2> QED BY <2>1, <2>2 DEF IInv, EndInv, Ending
<1>2. CASE Destroyed
  <2>1. late' = late \cup {<<"tell", l \in cleared>>}
    BY <1>2 DEF Uses
  <2>2. (l \in cleared) = TRUE
    BY <1>1, <1>2
  <2> QED BY <2>1, <2>2
<1>3. CASE ~Destroyed
  BY <1>3 DEF Uses
<1> QED BY <1>2, <1>3

LEMMA TellStep ==
    ASSUME IInv, NEW l \in Loops, Tell(l)
    PROVE IInv'
<1> DEFINE s == IF old[l] = {} THEN "end" ELSE "callback"
<1>1. s \in {"outside", "call", "callback", "end"} /\ s # "call" /\ s # "outside"
  OBVIOUS
<1>2. Go(l, s)
  BY DEF Tell
<1> HIDE DEF s
<1>3. /\ pc[l] = "updated" /\ told' = told \cup old[l] /\ old' = [old EXCEPT ![l] = {}]
      /\ UNCHANGED <<maps, settings, timer, lock, read, awaited, running, cleared, key, gone, used, twice,
                     missed, counts>>
  BY DEF Tell
<1>4. late' \in {late, late \cup {<<"tell", TRUE>>}}
  BY <1>3, TellLate DEF Tell
<1> QED BY <1>1, <1>2, <1>3, <1>4, RestOfPass

\* A pass that has nothing in hand goes on with nothing in hand.
LEMMA NoneTaken ==
    ASSUME IInv, NEW l \in Loops, pc[l] # "updated", UNCHANGED <<old, told>>
    PROVE old' = [old EXCEPT ![l] = {}] /\ told' = told \cup old[l]
<1>1. old[l] = {}
  BY DEF IInv, Places
<1> QED BY <1>1 DEF IInv, Types, TypeOK

LEMMA CallFromCallbackStep ==
    ASSUME IInv, NEW l \in Loops, CallFromCallback(l)
    PROVE IInv'
<1>1. /\ pc[l] = "callback" /\ ~Destroying /\ Go(l, "call")
      /\ UNCHANGED <<maps, settings, timer, lock, read, awaited, loop, history>>
  BY DEF CallFromCallback
<1>2. old' = [old EXCEPT ![l] = {}] /\ told' = told \cup old[l]
  BY <1>1, NoneTaken DEF loop, history, entries
<1> QED BY <1>1, <1>2, RestOfPass DEF loop, history, entries

LEMMA EndRunStep ==
    ASSUME IInv, NEW l \in Loops, EndRun(l)
    PROVE IInv'
<1>1. /\ pc[l] \in {"callback", "end"} /\ Go(l, "outside")
      /\ running' = [running EXCEPT ![l] = 0] /\ cleared' = cleared \ {l}
      /\ UNCHANGED <<maps, settings, timer, lock, read, awaited, old, history>>
  BY DEF EndRun
<1>2. old' = [old EXCEPT ![l] = {}] /\ told' = told \cup old[l]
  BY <1>1, NoneTaken DEF history, entries
<1> QED BY <1>1, <1>2, RestOfPass DEF history, entries

-----------------------------------------------------------------------------
(* The destructor                                                          *)

\* A step of the destructor leaves the maps, the lock and the other threads alone.
LEMMA DestructorStep ==
    ASSUME IInv, NEW t \in Threads, NEW s \in Ending, Go(t, s), pc[t] \in {"outside"} \cup Ending,
           UNCHANGED <<maps, settings, lock, read, loop, history>>,
           timer' \in {NoTimer} \cup Timers, timer' = NoTimer <=> timer = NoTimer,
           timer'.id = timer.id, timer'.on = timer.on,
           timer' = timer \/ (~timer'.started /\ timer'.interval = timer.interval),
           lock = Nobody, \A l \in Loops : pc[l] \notin {"call", "test", "lock"},
           \A u \in Threads \ {t} : pc[u] = "outside", awaited' \in 0 .. MaxTimers,
           s \in {"destroyWait", "destroyed"} => ~timer'.started,
           s = "destroyWait" => awaited' # 0 /\ (timer' = NoTimer \/ timer'.id = awaited'),
           s = "destroyed" => \A l \in Loops : running[l] # 0 => l \in cleared
    PROVE IInv'
<1>1. /\ t \in Everybody /\ t \notin Loops /\ s \in Steps(t) /\ s \notin Setting /\ s \notin Holding
      /\ pc[t] \notin Setting /\ pc[t] \notin Holding
  BY ConstantsAssumption DEF Everybody, Steps, Setting, Ending, Holding
<1>2. pc'[t] = s /\ \A u \in Everybody : u # t => pc'[u] = pc[u]
  BY <1>1, GoFacts DEF IInv, Types
<1>3. TypeOK'
  <2>1. pc' \in [Everybody -> Pcs]
    BY <1>1, PcType DEF IInv, Types
  <2> QED BY <2>1, PcsAre DEF IInv, Types, TypeOK, Timers, maps, settings, loop, history, entries, counts
<1>4. Types'
  BY <1>1, <1>3, TypesStep DEF IInv, history, counts
<1>5. Places' /\ UsedInv' /\ Unique'
  BY <1>1, PlacesKept, UsedKept, UniqueKept DEF IInv, maps, loop, history, entries
<1>6. \A u \in Everybody : pc[u] \notin Holding /\ pc'[u] \notin Holding
  BY <1>1, <1>2, ConstantsAssumption DEF IInv, LockInv, Everybody
<1>7. LockInv'
  <2>1. \A u \in Everybody : pc'[u] # "create"
    BY <1>6 DEF Holding
  <2>2. \A u \in Everybody : lock' # u
    BY ConstantsAssumption DEF Everybody
  <2> QED BY <1>6, <2>1, <2>2 DEF LockInv
<1>8. TimerInv'
  <2>1. Destroying'
    BY <1>2 DEF Destroying, Ending
  <2>2. \A u \in Everybody : /\ pc'[u] # "create" /\ pc[u] # "create"
                             /\ pc'[u] = "stop" <=> pc[u] = "stop"
                             /\ pc'[u] = "wait" <=> pc[u] = "wait"
    BY <1>6 DEF Holding
  <2>3. \A u \in Everybody : /\ pc'[u] = "test" <=> pc[u] = "test"
                             /\ pc'[u] = "lock" <=> pc[u] = "lock"
    BY <1>1, <1>2 DEF Setting
  <2>4. (Coming' <=> Coming) /\ (Looks' <=> Looks)
    BY <2>2, <2>3 DEF Coming, Looks
  <2>5. /\ timer' # NoTimer /\ timer'.interval # duration' => missed' \/ Looks'
        /\ timer' # NoTimer /\ timer'.on # dispatchLoop' => missed' \/ Looks'
    BY <2>4 DEF IInv, TimerInv, history, settings
  <2>6. timer' = NoTimer /\ Kept' # {} /\ duration' > 0 => missed' \/ Looks'
    <3>1. Kept' = Kept /\ missed' = missed /\ duration' = duration
      BY DEF Kept, maps, history, settings
    <3>2. \A u \in Everybody : pc[u] # "create"
      BY <2>2
    <3> QED BY <2>4, <3>1, <3>2 DEF IInv, TimerInv
  <2> QED BY <2>1, <2>2, <2>5, <2>6 DEF TimerInv
<1>9. PassInv'
  <2>1. UNCHANGED <<running, cleared>>
    BY DEF loop
  <2> QED BY <1>1, <2>1, PassMoved DEF IInv
<1>10. EndInv'
  <2>1. \A u \in Threads \ {t} : pc'[u] = "outside"
    BY <1>2 DEF Everybody
  <2>2. \A u \in Threads : pc'[u] \in Ending => u = t
    BY <2>1 DEF Ending
  <2>3. \A l \in Loops : pc'[l] \notin {"call", "test", "lock"}
    BY <1>1, <1>2 DEF Everybody
  <2>4. late' \subseteq {<<"tell", TRUE>>}
    BY DEF IInv, EndInv, history
  <2> QED BY <1>2, <2>1, <2>2, <2>3, <2>4 DEF EndInv, loop
<1> QED BY <1>4, <1>5, <1>7, <1>8, <1>9, <1>10 DEF IInv

LEMMA TimerFacts ==
    ASSUME IInv
    PROVE /\ timer \in {NoTimer} \cup Timers /\ (timer # NoTimer => timer.id # 0) /\ NoTimer.id = 0 /\ ~NoTimer.started
          /\ timer.id \in 0 .. MaxTimers
BY ConstantsAssumption DEF IInv, Types, TypeOK, Timers, NoTimer

LEMMA DestroyStep ==
    ASSUME IInv, NEW t \in Threads, Destroy(t)
    PROVE IInv'
<1> DEFINE s == IF timer = NoTimer THEN "destroyed" ELSE "destroy"
<1>1. Go(t, s) /\ s \in Ending /\ s # "destroyWait"
  BY DEF Destroy, Ending
<1>2. /\ \A u \in Threads : pc[u] = "outside"
      /\ \A l \in Loops : pc[l] \notin {"call", "test", "lock"}
      /\ lock = Nobody
      /\ UNCHANGED <<maps, settings, timer, lock, read, awaited, loop, history>>
  BY DEF Destroy
<1>3. s = "destroyed" => ~timer.started /\ \A l \in Loops : running[l] # 0 => l \in cleared
  BY TimerFacts DEF IInv, PassInv
<1>4. timer' \in {NoTimer} \cup Timers /\ awaited' \in 0 .. MaxTimers
  BY <1>2, TimerFacts DEF IInv, Types, TypeOK
<1> HIDE DEF s
<1> QED BY <1>1, <1>2, <1>3, <1>4, DestructorStep

LEMMA DestroyStopStep ==
    ASSUME IInv, NEW t \in Threads, DestroyStop(t)
    PROVE IInv'
<1> DEFINE s == IF timer = NoTimer THEN "crashed" ELSE "destroyWait"
<1>1. Go(t, s) /\ s \in Ending /\ s # "destroyed" /\ (s = "destroyWait" => timer # NoTimer)
  BY DEF DestroyStop, Ending
<1>2. /\ pc[t] = "destroy" /\ timer' = [timer EXCEPT !.started = FALSE] /\ awaited' = timer.id
      /\ UNCHANGED <<maps, settings, lock, read, loop, history>>
  BY DEF DestroyStop
<1>3. pc[t] \in Ending
  BY <1>2 DEF Ending
<1>4. /\ timer' \in {NoTimer} \cup Timers /\ (timer' = NoTimer <=> timer = NoTimer)
      /\ timer'.id = timer.id /\ timer'.on = timer.on /\ ~timer'.started
  BY <1>2, Stopped DEF IInv, Types
<1>5. timer'.interval = timer.interval
  BY <1>2, TimerFacts DEF Timers, NoTimer
<1>6. /\ lock = Nobody /\ \A l \in Loops : pc[l] \notin {"call", "test", "lock"}
      /\ \A u \in Threads \ {t} : pc[u] = "outside"
  BY <1>3 DEF IInv, EndInv
<1>7. awaited' \in 0 .. MaxTimers /\ (s = "destroyWait" => awaited' # 0 /\ timer'.id = awaited')
  BY <1>1, <1>2, <1>4, TimerFacts
<1> HIDE DEF s
<1> QED BY <1>1, <1>2, <1>3, <1>4, <1>5, <1>6, <1>7, DestructorStep

LEMMA DestroyWaitStep ==
    ASSUME IInv, NEW t \in Threads, DestroyWait(t)
    PROVE IInv'
<1>1. /\ pc[t] = "destroyWait" /\ ~Runs(awaited) /\ Go(t, "destroyed")
      /\ UNCHANGED <<maps, settings, timer, lock, read, awaited, loop, history>>
  BY DEF DestroyWait
<1>2. pc[t] \in Ending /\ "destroyed" \in Ending
  BY <1>1 DEF Ending
<1>3. /\ lock = Nobody /\ \A l \in Loops : pc[l] \notin {"call", "test", "lock"}
      /\ \A u \in Threads \ {t} : pc[u] = "outside"
      /\ ~timer.started /\ awaited # 0 /\ (timer = NoTimer \/ timer.id = awaited)
  BY <1>1, <1>2 DEF IInv, EndInv
<1>4. \A l \in Loops : running[l] # 0 => l \in cleared
  <2>1. \A l \in Loops : running[l] # awaited
    BY <1>1, <1>3 DEF Runs
  <2> QED BY <1>3, <2>1 DEF IInv, PassInv
<1>5. timer' \in {NoTimer} \cup Timers /\ awaited' \in 0 .. MaxTimers
  BY <1>1, TimerFacts DEF IInv, Types, TypeOK
<1> QED BY <1>1, <1>2, <1>3, <1>4, <1>5, DestructorStep

-----------------------------------------------------------------------------
(* The theorems                                                            *)

LEMMA InitIInv == Init => IInv
<1> SUFFICES ASSUME Init PROVE IInv
  OBVIOUS
<1>1. Nobody \notin Everybody /\ MaxTimers \in Nat /\ MaxGets \in Nat
  BY ConstantsAssumption DEF Everybody
<1>2. \A t \in Everybody : pc[t] = "outside"
  BY DEF Init
<1>3. Types
  <2>1. TypeOK
    <3>1. pc \in [Everybody -> Pcs] /\ read \in [Everybody -> Durations \cup {0}]
      BY DEF Init, Pcs
    <3>2. /\ running \in [Loops -> 0 .. MaxTimers] /\ old \in [Loops -> SUBSET Entries]
          /\ awaited \in 0 .. MaxTimers /\ made \in 0 .. MaxTimers /\ gets \in 0 .. MaxGets
          /\ key \in Seq(Keys)
      BY <1>1 DEF Init
    <3> QED BY <3>1, <3>2, PcsAre DEF Init, TypeOK
  <2>2. \A t \in Everybody : pc[t] \notin Setting \cup Ending
    BY <1>2 DEF Setting, Ending
  <2>3. {t \in Everybody : pc[t] \in Setting} = {}
    BY <2>2
  <2>4. made + Cardinality({t \in Everybody : pc[t] \in Setting}) <= MaxTimers
    <3>1. Cardinality({t \in Everybody : pc[t] \in Setting}) = 0
      BY <2>3, FS_EmptySet
    <3> QED BY <1>1, <3>1 DEF Init
  <2> QED BY <1>2, <2>1, <2>2, <2>4 DEF Types, Everybody
<1>4. Places /\ UsedInv /\ Unique
  <2>1. InHand = {} /\ \A l \in Loops : old[l] = {}
    BY DEF Init, InHand
  <2> QED BY <2>1 DEF Init, Places, UsedInv, Unique, Kept
<1>5. LockInv
  BY <1>1, <1>2 DEF Init, LockInv, Holding
<1>6. TimerInv
  BY <1>2 DEF Init, TimerInv, Kept
<1>7. PassInv /\ EndInv
  <2>1. \A l \in Loops : running[l] = 0 /\ pc[l] = "outside" /\ l \notin cleared
    BY <1>2 DEF Init, Everybody
  <2>2. late = {} /\ \A t \in Threads : pc[t] \notin Ending
    BY <1>2 DEF Init, Everybody, Ending
  <2> QED BY <2>1, <2>2 DEF PassInv, EndInv
<1> QED BY <1>3, <1>4, <1>5, <1>6, <1>7 DEF IInv

LEMMA OperationIInv ==
    ASSUME IInv, NEW t \in Everybody, Operation(t)
    PROVE IInv'
<1>1. CASE \E k \in Keys : Get(t, k)
  BY <1>1, GetStep
<1>2. CASE \E k \in Keys : Put(t, k)
  BY <1>2, PutStep
<1>3. CASE \E k \in Keys : Add(t, k)
  BY <1>3, AddStep
<1>4. CASE \E k \in Keys : Remove(t, k)
  BY <1>4, RemoveStep
<1>5. CASE \E k \in Keys : PushEntry(t, k)
  BY <1>5, PushEntryStep
<1> QED BY <1>1, <1>2, <1>3, <1>4, <1>5, RemoveManyStep, PushEmptyStep, LookStep, SetDurationStep, SetupTimerStep DEF Operation

LEMMA GoOnIInv ==
    ASSUME IInv, NEW t \in Everybody, GoOn(t)
    PROVE IInv'
<1>1. DestroyStop(t) \/ DestroyWait(t) => t \in Threads
  BY DEF DestroyStop, DestroyWait, IInv, Types, Everybody, Ending
<1> QED BY <1>1, TestTimerStep, LockStep, StopStep, EndWaitStep, CreateStep, DestroyStopStep, DestroyWaitStep DEF GoOn

LEMMA NextIInv == IInv /\ [Next]_vars => IInv'
<1> SUFFICES ASSUME IInv, [Next]_vars PROVE IInv'
  OBVIOUS
<1>1. CASE UNCHANGED vars
  <2>1. /\ UNCHANGED <<current, backup, duration, dispatchLoop, timer, lock, pc, read, awaited, running, old, cleared>>
        /\ UNCHANGED <<key, told, gone, used, twice, missed, late, made, gets>>
    BY <1>1 DEF vars, maps, settings, threads, loop, history, entries, counts
  <2>2. Types' /\ Places' /\ UsedInv' /\ Unique'
    BY <2>1 DEF IInv, Types, TypeOK, Places, InHand, UsedInv, Unique, Kept
  <2>3. LockInv' /\ TimerInv' /\ PassInv' /\ EndInv'
    BY <2>1 DEF IInv, LockInv, TimerInv, PassInv, EndInv, Kept, Coming, Looks, Destroying
  <2> QED BY <2>2, <2>3 DEF IInv
<1>2. ASSUME NEW t \in Everybody, Operation(t) PROVE IInv'
  BY <1>2, OperationIInv
<1>3. ASSUME NEW t \in Everybody, GoOn(t) PROVE IInv'
  BY <1>3, GoOnIInv
<1>4. ASSUME NEW t \in Threads, Destroy(t) PROVE IInv'
  BY <1>4, DestroyStep
<1>5. ASSUME NEW l \in Loops, Pass(l) \/ CallFromCallback(l) PROVE IInv'
  BY <1>5, RunStep, UpdateStep, TellStep, EndRunStep, CallFromCallbackStep DEF Pass
<1> QED BY <1>1, <1>2, <1>3, <1>4, <1>5 DEF Next

\* The invariant says of each entry where it is.
LEMMA PlacesNoneLost == Places => NoneLost
<1> SUFFICES ASSUME Places PROVE NoneLost
  OBVIOUS
<1> DEFINE places == <<current, backup, told, gone>>
<1>1. /\ places[1] = current /\ places[2] = backup /\ places[3] = told /\ places[4] = gone
      /\ 1 .. 4 = {1, 2, 3, 4}
  OBVIOUS
<1>2. \A l \in Loops : old[l] \subseteq InHand
  BY DEF InHand
<1> HIDE DEF places
<1>3. {places[i] : i \in 1 .. 4} = {current, backup, told, gone}
  BY <1>1
<1>4. (UNION {places[i] : i \in 1 .. 4}) \cup (UNION {old[l] : l \in Loops}) = DOMAIN key
  <2>1. UNION {places[i] : i \in 1 .. 4} = Kept \cup told \cup gone
    BY <1>3 DEF Kept
  <2> QED BY <2>1 DEF Places, InHand
<1>5. \A i, j \in {1, 2, 3, 4} : i # j => places[i] \cap places[j] = {}
  BY <1>1 DEF Places, Kept
<1>6. \A l \in Loops : \A i \in {1, 2, 3, 4} : old[l] \cap places[i] = {}
  BY <1>1, <1>2 DEF Places, Kept
<1> QED BY <1>1, <1>4, <1>5, <1>6 DEF NoneLost, Places, places

LEMMA UniqueOneEntry == Unique => OneEntry
<1> SUFFICES ASSUME Unique, NEW k \in Keys \ twice PROVE Cardinality(Of(k, Kept)) <= 1
  BY DEF OneEntry, Kept
<1>1. \A e, f \in Of(k, Kept) : e = f
  BY DEF Of, Unique
<1>2. CASE Of(k, Kept) = {}
  <2>1. Cardinality(Of(k, Kept)) = 0
    BY <1>2, FS_EmptySet
  <2> QED BY <2>1
<1>3. CASE Of(k, Kept) # {}
  <2>1. PICK e : Of(k, Kept) = {e}
    BY <1>1, <1>3
  <2>2. Cardinality(Of(k, Kept)) = 1
    BY <2>1, FS_Singleton
  <2> QED BY <2>2
<1> QED BY <1>2, <1>3

LEMMA IInvTimerFits == IInv => TimerFits
<1> SUFFICES ASSUME IInv, lock = Nobody, \A t \in Everybody : pc[t] \notin {"test", "lock"}, ~missed, ~Destroying
             PROVE /\ timer # NoTimer => timer.started /\ timer.interval = duration /\ timer.on = dispatchLoop
                   /\ Kept # {} /\ duration > 0 => timer # NoTimer
  BY DEF TimerFits, Kept
<1>1. \A t \in Everybody : pc[t] \notin Holding
  BY ConstantsAssumption DEF IInv, LockInv, Everybody
<1>2. ~Coming /\ ~Looks
  BY <1>1 DEF Coming, Looks, Holding
<1>3. \A t \in Everybody : pc[t] \notin {"wait", "create"}
  BY <1>1 DEF Holding
<1> QED BY <1>2, <1>3 DEF IInv, TimerInv

LEMMA IInvImplies == IInv => Inv /\ DestroyedQuiet
<1> SUFFICES ASSUME IInv PROVE Inv /\ DestroyedQuiet
  OBVIOUS
<1>1. DestroyedQuiet
  <2>1. late \subseteq {<<"tell", TRUE>>}
    BY DEF IInv, EndInv
  <2>2. \A t \in Threads : pc[t] = "destroyed" => \A l \in Loops : running[l] # 0 => l \in cleared
    BY DEF IInv, EndInv, Ending
  <2> QED BY <2>1, <2>2 DEF DestroyedQuiet, Destroyed
<1> QED BY <1>1, PlacesNoneLost, UniqueOneEntry, IInvTimerFits DEF IInv, Types, Inv

\* The inductive invariant: where each entry is, who sets the timer up, what may have made the
\* timer unfit, and what a destroyed map leaves behind.
THEOREM Invariance == Spec => []IInv
<1>1. Init => IInv
  BY InitIInv
<1>2. IInv /\ [Next]_vars => IInv'
  BY NextIInv
<1> QED BY <1>1, <1>2, PTL DEF Spec

\* For any threads, loops, keys and durations, an entry is in one place, a key has one entry
\* unless it was put beside the first, and between calls the timer is there, in the map's loop,
\* and runs at the map's interval.
THEOREM EntriesAndTimer == Spec => []Inv
<1>1. IInv => Inv
  BY IInvImplies
<1> QED BY <1>1, Invariance, PTL

\* What a step takes in hand is not in use: it comes from the backup, where nothing used is.
LEMMA TakesUnused ==
    ASSUME IInv, [Next]_vars
    PROVE \A l \in Loops : old'[l] \cap used = {}
<1>1. ASSUME NEW l \in Loops PROVE old[l] \cap used = {} /\ backup \cap used = {}
  <2>1. old[l] \subseteq InHand
    BY DEF InHand
  <2> QED BY <2>1 DEF IInv, Places, UsedInv, Kept
<1>2. old \in [Loops -> SUBSET Entries]
  BY DEF IInv, Types, TypeOK
<1>3. CASE UNCHANGED old
  BY <1>1, <1>3
<1>4. ASSUME NEW l \in Loops, old' = [old EXCEPT ![l] = backup] \/ old' = [old EXCEPT ![l] = {}]
      PROVE \A m \in Loops : old'[m] \cap used = {}
  BY <1>1, <1>2, <1>4
<1>5. ASSUME NEW t \in Everybody, Operation(t) \/ GoOn(t) PROVE UNCHANGED old
  BY <1>5 DEF Operation, GoOn, Get, Put, Add, Remove, RemoveMany, PushEntry, PushEmpty, PushMap, Look, Locked,
              SetDuration, SetupTimer, TestTimer, Lock, Stop, EndWait, Create, DestroyStop, DestroyWait, loop
<1>6. ASSUME NEW t \in Threads, Destroy(t) PROVE UNCHANGED old
  BY <1>6 DEF Destroy, loop
<1>7. ASSUME NEW l \in Loops, Run(l) \/ EndRun(l) \/ CallFromCallback(l) PROVE UNCHANGED old
  BY <1>7 DEF Run, EndRun, CallFromCallback, loop
<1>8. ASSUME NEW l \in Loops, Update(l) \/ Tell(l)
      PROVE old' = [old EXCEPT ![l] = backup] \/ old' = [old EXCEPT ![l] = {}]
  BY <1>8 DEF Update, Tell
<1>9. CASE UNCHANGED vars
  BY <1>3, <1>9 DEF vars, loop
<1> QED BY <1>3, <1>4, <1>5, <1>6, <1>7, <1>8, <1>9 DEF Next, Pass

\* No pass drops an entry used since the pass before, whatever calls and passes came between,
\* on one loop or on several.
THEOREM NoUsedDropped == Spec => NoneEarly
<1>1. IInv /\ [Next]_vars => [\A l \in Loops : old'[l] \cap used = {}]_vars
  BY TakesUnused
<1> QED BY <1>1, Invariance, PTL DEF Spec, NoneEarly

\* When the destructor has returned, the passes under way had cleared m_timer, and what they use
\* of the map that is gone is m_onExpired alone.
THEOREM QuietAfterDestroy == Spec => []DestroyedQuiet
<1>1. IInv => DestroyedQuiet
  BY IInvImplies
<1> QED BY <1>1, Invariance, PTL
=============================================================================
