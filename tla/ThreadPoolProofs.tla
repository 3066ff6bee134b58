------------------------- MODULE ThreadPoolProofs -------------------------
(***************************************************************************)
(* The inductive invariant of ThreadPool and the theorems it proves for    *)
(* any callers, workers, tasks and limits.                                 *)
(***************************************************************************)
EXTENDS ThreadPool, FiniteSetTheorems, WellFoundedInduction, TLAPS

Steps == CallSteps \cup WaitSteps \cup
            {"outside", "off", "while", "_processTask", "task", "idle", "woken", "return"}
ReleaseSteps == {"finish", "finishWake", "finishAndWait"}
Threads == [Workers -> [stop : BOOLEAN, waiting : BOOLEAN, signal : BOOLEAN]]
Limit == Max(Maximums \cup {1})

Types ==
    /\ flagRunning \in BOOLEAN /\ holder \in Actors \cup {Nobody}
    /\ threadWorkers \in Seq(Workers) /\ threadSleeping \in Seq(Workers) /\ tasks \in Seq(Tasks)
    /\ limits \in [min : Minimums, max : Maximums]
    /\ threads \in Threads /\ pc \in [Actors -> Steps]
    /\ running \in [Workers -> Tasks \cup {Nobody}]
    /\ at \in Nat \ {0}
    /\ left \subseteq Tasks /\ unserved \subseteq Tasks

\* What is queued was added, and once.
TasksInv == IsInjective(tasks) /\ Range(tasks) \cap left = {}

\* The lock is held for more than one step by who is in _wake or releases the pool.
LockInv == \A a \in Actors :
    /\ pc[a] = "_wake" => holder = a /\ flagRunning
    /\ pc[a] \in ReleaseSteps => holder = a /\ ~flagRunning
    /\ holder = a => pc[a] \in ReleaseSteps \cup {"_wake"}

\* The threads of the list: every worker that goes on is in it, no more than the limit, and
\* while the pool runs only workers that go on.
WorkersInv ==
    /\ IsInjective(threadWorkers) /\ Len(threadWorkers) <= Limit
    /\ \A w \in Workers : pc[w] \notin {"off", "return"} => w \in Range(threadWorkers)
    /\ \A w \in Workers : running[w] # Nobody => pc[w] \in CallSteps \cup {"task"}

\* While the pool runs nobody is asked to stop, a signal is for one that waits, and who
\* waits without one is listed, once.
SleepersInv ==
    /\ IsInjective(threadSleeping)
    /\ flagRunning => /\ \A w \in Workers : ~threads[w].stop
                      /\ \A w \in Workers : threads[w].signal => pc[w] \in WaitSteps
                      /\ SleepersExact

\* Who released the pool has waited for the workers before the one it is at.
ReleaseInv == \A a \in Actors : pc[a] = "finishAndWait" =>
    \A i \in 1 .. Len(threadWorkers) : i < at => threadWorkers[i] = a \/ pc[threadWorkers[i]] = "off"

\* After that one worker goes on at most, which released the pool from inside its task.
QuietInv == (~flagRunning /\ holder = Nobody) =>
    \E a \in Actors : \A w \in Workers :
        pc[w] \in {"off", "return"} \/ (w = a /\ pc[w] \in {"task", "while", "addTask", "wake", "release"})

\* Some worker looks, or the tasks in the queue came after a worker was woken or started.
StrandInv == flagRunning => Looking # {} \/ Range(tasks) \subseteq unserved

IInv == Types /\ TasksInv /\ LockInv /\ WorkersInv /\ SleepersInv /\ ReleaseInv /\ QuietInv /\ StrandInv

-----------------------------------------------------------------------------
(* The limit, and sequences                                                *)

\* A set of natural numbers has a least one.
LEMMA LeastNat ==
    ASSUME NEW S \in SUBSET Nat, S # {}
    PROVE  \E x \in S : \A y \in S : x <= y
<1> DEFINE R == {ss \in Nat \X Nat : ss[1] < ss[2]}
<1>1. IsWellFoundedOn(R, Nat)
  BY NatLessThanWellFounded DEF OpToRel
<1>2. PICK x \in S : \A y \in S : ~(<<y, x>> \in R)
  <2> HIDE DEF R
  <2> QED BY <1>1, WFMin
<1>3. \A y \in S : x <= y
  <2> SUFFICES ASSUME NEW y \in S PROVE x <= y
    OBVIOUS
  <2>1. ~ (<<y, x>> \in R)
    BY <1>2
  <2> QED BY <2>1
<1> QED BY <1>3

\* A finite set of natural numbers is bounded: the first number of its elements without a
\* bound would come after one that has a bound.
LEMMA Bounded ==
    ASSUME NEW S \in SUBSET Nat, IsFiniteSet(S)
    PROVE  \E b \in Nat : \A x \in S : x <= b
<1>1. PICK n \in Nat : ExistsSurjection(1 .. n, S)
  BY FS_NatSurjection
<1>2. PICK f \in Surjection(1 .. n, S) : TRUE
  BY <1>1 DEF ExistsSurjection
<1>3. f \in [1 .. n -> S] /\ \A x \in S : \E i \in 1 .. n : f[i] = x
  BY <1>2 DEF Surjection
<1>4. \A i \in 1 .. n : f[i] \in Nat
  BY <1>3
<1> DEFINE B(k) == \E b \in Nat : \A i \in 1 .. n : i <= k => f[i] <= b
           U == {k \in 0 .. n : ~B(k)}
<1>5. B(0)
  <2>1. 0 \in Nat /\ \A i \in 1 .. n : i <= 0 => f[i] <= 0
    OBVIOUS
  <2> QED BY <2>1
<1>6. ASSUME NEW k \in 1 .. n, B(k - 1) PROVE B(k)
  <2>1. PICK b \in Nat : \A i \in 1 .. n : i <= k - 1 => f[i] <= b
    BY <1>6
  <2>2. PICK c \in Nat : b <= c /\ f[k] <= c
    <3>1. f[k] \in Nat
      BY <1>4
    <3>2. CASE b <= f[k]
      BY <3>1, <3>2
    <3>3. CASE f[k] <= b
      BY <3>3
    <3> QED BY <3>1, <3>2, <3>3
  <2>3. ASSUME NEW i \in 1 .. n, i <= k PROVE f[i] <= c
    <3>1. CASE i = k
      BY <3>1, <2>2
    <3>2. CASE i <= k - 1
      <4>1. f[i] <= b
        BY <3>2, <2>1
      <4>2. f[i] \in Nat
        BY <1>4
      <4> QED BY <4>1, <4>2, <2>2
    <3> QED BY <3>1, <3>2, <2>3
  <2> QED BY <2>3
<1>7. U = {}
  <2> SUFFICES ASSUME U # {} PROVE FALSE
    OBVIOUS
  <2>1. U \in SUBSET Nat
    OBVIOUS
  <2>2. PICK k \in U : \A y \in U : k <= y
    <3> HIDE DEF U
    <3> QED BY <2>1, LeastNat
  <2>3. k \in 0 .. n /\ ~B(k)
    <3> HIDE DEF B
    <3> QED OBVIOUS
  <2> HIDE DEF B
  <2>4. k \in 1 .. n
    <3>1. k # 0
      BY <2>3, <1>5
    <3> QED BY <2>3, <3>1
  <2>5. k - 1 \in 0 .. n
    BY <2>4
  <2>6. ~ B(k - 1)
    BY <2>3, <2>4, <1>6
  <2>7. k - 1 \in U
    BY <2>5, <2>6
  <2> QED BY <2>2, <2>4, <2>7
<1>8. B(n)
  <2> HIDE DEF B
  <2>1. n \in 0 .. n
    OBVIOUS
  <2> QED BY <2>1, <1>7
<1>9. PICK b \in Nat : \A i \in 1 .. n : i <= n => f[i] <= b
  BY <1>8
<1>10. \A x \in S : x <= b
  BY <1>3, <1>9
<1> QED BY <1>10

LEMMA LimitFacts == Limit \in Nat /\ 1 <= Limit /\ \A n \in Maximums : n <= Limit
<1> DEFINE S == Maximums \cup {1}
           U == {b \in Nat : \A x \in S : x <= b}
<1>1. S \in SUBSET Nat /\ IsFiniteSet(S) /\ 1 \in S
  BY ConstantsAssumption, FS_AddElement
<1>2. U \in SUBSET Nat /\ U # {}
  <2> HIDE DEF S
  <2> QED BY <1>1, Bounded
<1>3. PICK m \in U : \A y \in U : m <= y
  <2> HIDE DEF U
  <2> QED BY <1>2, LeastNat
<1>4. m \in Nat /\ \A x \in S : x <= m
  BY <1>3
<1>5. m \in S
  <2> SUFFICES ASSUME m \notin S PROVE FALSE
    OBVIOUS
  <2>1. 1 <= m /\ \A x \in S : x <= m - 1
    <3> HIDE DEF S
    <3> QED BY <1>1, <1>4
  <2>2. m - 1 \in U
    <3> HIDE DEF S
    <3> QED BY <2>1, <1>4
  <2> QED BY <2>2, <1>3, <1>4
<1>6. Max(S) \in S /\ \A y \in S : Max(S) >= y
  <2>1. \E x \in S : \A y \in S : x >= y
    <3> HIDE DEF S
    <3> QED BY <1>1, <1>4, <1>5
  <2> HIDE DEF S
  <2> QED BY <2>1 DEF Max
<1>7. Limit = Max(S)
  BY DEF Limit
<1> HIDE DEF S
<1>8. Limit \in Nat /\ \A y \in S : y <= Limit
  BY <1>1, <1>6, <1>7
<1>9. Maximums \subseteq S
  BY DEF S
<1> QED BY <1>1, <1>8, <1>9

\* A list's elements, and what one more at its end or its start, or one less, leaves of them.
LEMMA RangeFacts ==
    ASSUME NEW S, NEW s \in Seq(S)
    PROVE  /\ Range(s) \subseteq S
           /\ \A x : x \in Range(s) <=> \E i \in 1 .. Len(s) : s[i] = x
           /\ IsInjective(s) <=> \A i, j \in 1 .. Len(s) : s[i] = s[j] => i = j
<1>1. DOMAIN s = 1 .. Len(s) /\ \A i \in 1 .. Len(s) : s[i] \in S
  OBVIOUS
<1> QED BY <1>1 DEF Range, IsInjective

LEMMA AppendFacts ==
    ASSUME NEW S, NEW s \in Seq(S), NEW e \in S
    PROVE  /\ Append(s, e) \in Seq(S) /\ Len(Append(s, e)) = Len(s) + 1
           /\ Range(Append(s, e)) = Range(s) \cup {e}
           /\ IsInjective(s) /\ e \notin Range(s) => IsInjective(Append(s, e))
<1> DEFINE t == Append(s, e)
<1>1. /\ t \in Seq(S) /\ Len(t) = Len(s) + 1 /\ t[Len(s) + 1] = e /\ Len(s) \in Nat
      /\ \A i \in 1 .. Len(s) : t[i] = s[i]
  OBVIOUS
<1> HIDE DEF t
<1>2. /\ \A x : x \in Range(s) <=> \E i \in 1 .. Len(s) : s[i] = x
      /\ \A x : x \in Range(t) <=> \E i \in 1 .. Len(t) : t[i] = x
  BY <1>1, RangeFacts
<1>3. \A i \in 1 .. Len(t) : i \in 1 .. Len(s) \/ i = Len(s) + 1
  BY <1>1
<1>4. 1 .. Len(s) \subseteq 1 .. Len(t) /\ Len(s) + 1 \in 1 .. Len(t)
  BY <1>1
<1>5. Range(t) = Range(s) \cup {e}
  <2>1. \A x : x \in Range(t) => x \in Range(s) \cup {e}
    BY <1>1, <1>2, <1>3
  <2>2. \A x : x \in Range(s) \cup {e} => x \in Range(t)
    BY <1>1, <1>2, <1>4
  <2> QED BY <2>1, <2>2
<1>6. ASSUME IsInjective(s), e \notin Range(s) PROVE IsInjective(t)
  <2>1. \A i, j \in 1 .. Len(s) : s[i] = s[j] => i = j
    BY <1>6, RangeFacts
  <2>2. \A i \in 1 .. Len(s) : s[i] # e
    BY <1>6, <1>2
  <2>3. \A i, j \in 1 .. Len(t) : t[i] = t[j] => i = j
    BY <2>1, <2>2, <1>1, <1>3
  <2> QED BY <2>3, <1>1, RangeFacts
<1> QED BY <1>1, <1>5, <1>6 DEF t

LEMMA PrependFacts ==
    ASSUME NEW S, NEW s \in Seq(S), NEW e \in S
    PROVE  /\ <<e>> \o s \in Seq(S)
           /\ Range(<<e>> \o s) = Range(s) \cup {e}
           /\ IsInjective(s) /\ e \notin Range(s) => IsInjective(<<e>> \o s)
<1> DEFINE t == <<e>> \o s
<1>1. /\ t \in Seq(S) /\ Len(t) = Len(s) + 1 /\ t[1] = e /\ Len(s) \in Nat
      /\ \A i \in 2 .. Len(t) : t[i] = s[i - 1]
  OBVIOUS
<1> HIDE DEF t
<1>2. /\ \A x : x \in Range(s) <=> \E i \in 1 .. Len(s) : s[i] = x
      /\ \A x : x \in Range(t) <=> \E i \in 1 .. Len(t) : t[i] = x
  BY <1>1, RangeFacts
<1>3. \A i \in 1 .. Len(t) : i = 1 \/ (i \in 2 .. Len(t) /\ i - 1 \in 1 .. Len(s))
  BY <1>1
<1>4. 1 \in 1 .. Len(t) /\ \A i \in 1 .. Len(s) : i + 1 \in 1 .. Len(t) /\ t[i + 1] = s[i]
  BY <1>1
<1>5. Range(t) = Range(s) \cup {e}
  <2>1. \A x : x \in Range(t) => x \in Range(s) \cup {e}
    BY <1>1, <1>2, <1>3
  <2>2. \A x : x \in Range(s) \cup {e} => x \in Range(t)
    BY <1>1, <1>2, <1>4
  <2> QED BY <2>1, <2>2
<1>6. ASSUME IsInjective(s), e \notin Range(s) PROVE IsInjective(t)
  <2>1. \A i, j \in 1 .. Len(s) : s[i] = s[j] => i = j
    BY <1>6, RangeFacts
  <2>2. \A i \in 1 .. Len(s) : s[i] # e
    BY <1>6, <1>2
  <2>3. \A i, j \in 1 .. Len(t) : t[i] = t[j] => i = j
    <3> SUFFICES ASSUME NEW i \in 1 .. Len(t), NEW j \in 1 .. Len(t), t[i] = t[j] PROVE i = j
      OBVIOUS
    <3>1. CASE i = 1 /\ j = 1
      BY <3>1
    <3>2. CASE i = 1 /\ j # 1
      BY <3>2, <2>2, <1>1, <1>3
    <3>3. CASE i # 1 /\ j = 1
      BY <3>3, <2>2, <1>1, <1>3
    <3>4. CASE i # 1 /\ j # 1
      <4>1. i - 1 \in 1 .. Len(s) /\ j - 1 \in 1 .. Len(s) /\ s[i - 1] = s[j - 1]
        BY <3>4, <1>1, <1>3
      <4>2. i - 1 = j - 1
        BY <4>1, <2>1
      <4> QED BY <4>2
    <3> QED BY <3>1, <3>2, <3>3, <3>4
  <2> QED BY <2>3, <1>1, RangeFacts
<1> QED BY <1>1, <1>5, <1>6 DEF t

LEMMA ConcatFacts ==
    ASSUME NEW S, NEW s \in Seq(S), NEW u \in Seq(S)
    PROVE  /\ s \o u \in Seq(S) /\ Len(s \o u) = Len(s) + Len(u)
           /\ \A i \in 1 .. Len(s) : (s \o u)[i] = s[i]
           /\ \A i \in 1 .. Len(u) : (s \o u)[Len(s) + i] = u[i]
<1>1. Len(s) \in Nat /\ Len(u) \in Nat
  OBVIOUS
<1>2. s \o u \in Seq(S) /\ Len(s \o u) = Len(s) + Len(u)
  OBVIOUS
<1>3. ASSUME NEW i \in 1 .. Len(s) PROVE (s \o u)[i] = s[i]
  BY <1>1
<1>4. ASSUME NEW i \in 1 .. Len(u) PROVE (s \o u)[Len(s) + i] = u[i]
  BY <1>1
<1> QED BY <1>2, <1>3, <1>4

\* One less at any place of a list without repetitions.
LEMMA RemoveFacts ==
    ASSUME NEW S, NEW s \in Seq(S), IsInjective(s), NEW k \in 1 .. Len(s)
    PROVE  /\ RemoveAt(s, k) \in Seq(S) /\ Len(RemoveAt(s, k)) = Len(s) - 1
           /\ Range(RemoveAt(s, k)) = Range(s) \ {s[k]}
           /\ IsInjective(RemoveAt(s, k))
<1> DEFINE p == SubSeq(s, 1, k - 1)
           q == SubSeq(s, k + 1, Len(s))
           t == RemoveAt(s, k)
<1>1. Len(s) \in Nat /\ \A i, j \in 1 .. Len(s) : s[i] = s[j] => i = j
  BY RangeFacts
<1>2. p \in Seq(S) /\ Len(p) = k - 1 /\ \A i \in 1 .. k - 1 : p[i] = s[i]
  BY <1>1
<1>3. q \in Seq(S) /\ Len(q) = Len(s) - k /\ \A i \in 1 .. Len(s) - k : q[i] = s[k + i]
  <2>1. CASE k = Len(s)
    <3>1. q = <<>>
      BY <2>1, <1>1
    <3> QED BY <3>1, <2>1, <1>1
  <2>2. CASE k < Len(s)
    BY <2>2, <1>1
  <2> QED BY <2>1, <2>2, <1>1
<1>4. t = p \o q
  BY DEF RemoveAt
<1> HIDE DEF p, q, t
<1>5. /\ t \in Seq(S) /\ Len(t) = Len(s) - 1
      /\ \A i \in 1 .. k - 1 : t[i] = s[i]
      /\ \A i \in k .. Len(s) - 1 : t[i] = s[i + 1]
  <2>0. /\ t \in Seq(S) /\ Len(t) = Len(p) + Len(q)
        /\ \A i \in 1 .. Len(p) : t[i] = p[i]
        /\ \A i \in 1 .. Len(q) : t[Len(p) + i] = q[i]
    <3>1. p \in Seq(S) /\ q \in Seq(S)
      BY <1>2, <1>3
    <3>2. /\ p \o q \in Seq(S) /\ Len(p \o q) = Len(p) + Len(q)
          /\ \A i \in 1 .. Len(p) : (p \o q)[i] = p[i]
          /\ \A i \in 1 .. Len(q) : (p \o q)[Len(p) + i] = q[i]
      BY <3>1, ConcatFacts
    <3> QED BY <3>2, <1>4, ZenonT(20)
  <2>1. t \in Seq(S) /\ Len(t) = Len(s) - 1
    <3>1. Len(t) = Len(p) + Len(q) /\ Len(p) = k - 1 /\ Len(q) = Len(s) - k
      BY <2>0, <1>2, <1>3
    <3>2. Len(t) = Len(s) - 1
      BY <3>1, <1>1
    <3> QED BY <2>0, <3>2
  <2>2. ASSUME NEW i \in 1 .. k - 1 PROVE t[i] = s[i]
    <3>1. i \in 1 .. Len(p)
      BY <1>2
    <3>2. t[i] = p[i]
      BY <3>1, <2>0
    <3> QED BY <3>2, <1>2
  <2>3. ASSUME NEW i \in k .. Len(s) - 1 PROVE t[i] = s[i + 1]
    <3>1. /\ i - (k - 1) \in 1 .. Len(s) - k /\ k + (i - (k - 1)) = i + 1
          /\ (k - 1) + (i - (k - 1)) = i
      BY <1>1
    <3>2. t[i] = q[i - (k - 1)]
      <4> DEFINE j == i - (k - 1)
      <4>1. j \in 1 .. Len(q) /\ Len(p) + j = i
        BY <3>1, <1>2, <1>3
      <4> HIDE DEF j
      <4>2. t[i] = q[j]
        BY <4>1, <2>0
      <4> QED BY <4>2 DEF j
    <3>3. q[i - (k - 1)] = s[k + (i - (k - 1))]
      BY <3>1, <1>3
    <3> QED BY <3>1, <3>2, <3>3
  <2> QED BY <2>1, <2>2, <2>3
<1>6. \A i \in 1 .. Len(t) : i \in 1 .. k - 1 \/ i \in k .. Len(s) - 1
  BY <1>1, <1>5
<1>7. /\ \A x : x \in Range(s) <=> \E i \in 1 .. Len(s) : s[i] = x
      /\ \A x : x \in Range(t) <=> \E i \in 1 .. Len(t) : t[i] = x
  BY <1>5, RangeFacts
<1>8. Range(t) = Range(s) \ {s[k]}
  <2>1. ASSUME NEW x \in Range(t) PROVE x \in Range(s) \ {s[k]}
    <3>1. PICK i \in 1 .. Len(t) : t[i] = x
      BY <1>7
    <3>2. CASE i \in 1 .. k - 1
      <4>1. i \in 1 .. Len(s) /\ s[i] = x /\ i # k
        BY <3>1, <3>2, <1>1, <1>5
      <4> QED BY <4>1, <1>1, <1>7
    <3>3. CASE i \in k .. Len(s) - 1
      <4>1. i + 1 \in 1 .. Len(s) /\ s[i + 1] = x /\ i + 1 # k
        BY <3>1, <3>3, <1>1, <1>5
      <4> QED BY <4>1, <1>1, <1>7
    <3> QED BY <3>2, <3>3, <1>6
  <2>2. ASSUME NEW x \in Range(s) \ {s[k]} PROVE x \in Range(t)
    <3>1. PICK i \in 1 .. Len(s) : s[i] = x /\ i # k
      BY <1>7
    <3>2. CASE i < k
      <4>1. i \in 1 .. k - 1 /\ i \in 1 .. Len(t)
        BY <3>2, <1>1, <1>5
      <4> QED BY <4>1, <3>1, <1>5, <1>7
    <3>3. CASE i > k
      <4>1. i - 1 \in k .. Len(s) - 1 /\ i - 1 \in 1 .. Len(t) /\ (i - 1) + 1 = i
        BY <3>3, <1>1, <1>5
      <4>2. t[i - 1] = s[(i - 1) + 1]
        BY <4>1, <1>5
      <4> QED BY <4>1, <4>2, <3>1, <1>7
    <3> QED BY <3>1, <3>2, <3>3
  <2> QED BY <2>1, <2>2
<1>9. IsInjective(t)
  <2>1. ASSUME NEW i \in 1 .. Len(t), NEW j \in 1 .. Len(t), t[i] = t[j] PROVE i = j
    <3>1. CASE i \in 1 .. k - 1 /\ j \in 1 .. k - 1
      BY <3>1, <2>1, <1>1, <1>5
    <3>2. CASE i \in 1 .. k - 1 /\ j \in k .. Len(s) - 1
      <4>1. i \in 1 .. Len(s) /\ j + 1 \in 1 .. Len(s) /\ s[i] = s[j + 1]
        BY <3>2, <2>1, <1>1, <1>5
      <4>2. i = j + 1
        BY <4>1, <1>1
      <4> QED BY <4>2, <3>2, <1>1
    <3>3. CASE i \in k .. Len(s) - 1 /\ j \in 1 .. k - 1
      <4>1. i + 1 \in 1 .. Len(s) /\ j \in 1 .. Len(s) /\ s[i + 1] = s[j]
        BY <3>3, <2>1, <1>1, <1>5
      <4>2. i + 1 = j
        BY <4>1, <1>1
      <4> QED BY <4>2, <3>3, <1>1
    <3>4. CASE i \in k .. Len(s) - 1 /\ j \in k .. Len(s) - 1
      <4>1. i + 1 \in 1 .. Len(s) /\ j + 1 \in 1 .. Len(s) /\ s[i + 1] = s[j + 1]
        BY <3>4, <2>1, <1>1, <1>5
      <4>2. i + 1 = j + 1
        BY <4>1, <1>1
      <4> QED BY <4>2, <3>4, <1>1
    <3> QED BY <3>1, <3>2, <3>3, <3>4, <1>6
  <2> QED BY <2>1, <1>5, RangeFacts
<1> QED BY <1>5, <1>8, <1>9 DEF t

\* And one less at its start.
LEMMA TailFacts ==
    ASSUME NEW S, NEW s \in Seq(S), IsInjective(s), s # <<>>
    PROVE  /\ Head(s) \in Range(s) /\ Tail(s) \in Seq(S)
           /\ Range(Tail(s)) = Range(s) \ {Head(s)}
           /\ IsInjective(Tail(s))
<1> DEFINE t == Tail(s)
<1>1. /\ t \in Seq(S) /\ Len(t) = Len(s) - 1 /\ Len(s) \in Nat /\ 1 \in 1 .. Len(s)
      /\ Head(s) = s[1] /\ \A i \in 1 .. Len(t) : t[i] = s[i + 1]
  OBVIOUS
<1> HIDE DEF t
<1>2. /\ \A x : x \in Range(s) <=> \E i \in 1 .. Len(s) : s[i] = x
      /\ \A x : x \in Range(t) <=> \E i \in 1 .. Len(t) : t[i] = x
      /\ \A i, j \in 1 .. Len(s) : s[i] = s[j] => i = j
  BY <1>1, RangeFacts
<1>3. \A i \in 1 .. Len(t) : i + 1 \in 1 .. Len(s) /\ i + 1 # 1
  BY <1>1
<1>4. \A i \in 1 .. Len(s) : i # 1 => i - 1 \in 1 .. Len(t) /\ t[i - 1] = s[i]
  BY <1>1
<1>5. Range(t) = Range(s) \ {Head(s)}
  <2>1. \A x : x \in Range(t) => x \in Range(s) \ {Head(s)}
    BY <1>1, <1>2, <1>3
  <2>2. \A x : x \in Range(s) \ {Head(s)} => x \in Range(t)
    BY <1>1, <1>2, <1>4
  <2> QED BY <2>1, <2>2
<1>6. IsInjective(t)
  <2>1. ASSUME NEW i \in 1 .. Len(t), NEW j \in 1 .. Len(t), t[i] = t[j] PROVE i = j
    <3>1. s[i + 1] = s[j + 1] /\ i + 1 \in 1 .. Len(s) /\ j + 1 \in 1 .. Len(s)
      BY <2>1, <1>1, <1>3
    <3>2. i + 1 = j + 1
      BY <3>1, <1>2
    <3> QED BY <3>2
  <2> QED BY <2>1, <1>1, RangeFacts
<1> QED BY <1>1, <1>2, <1>5, <1>6 DEF t

-----------------------------------------------------------------------------
(* What a step of one thread leaves of each part of the invariant          *)

LEMMA StepNames ==
    /\ CallSteps \subseteq Steps /\ WaitSteps \subseteq Steps /\ ReleaseSteps \subseteq CallSteps
    /\ "_wake" \in CallSteps
    /\ \A a \in Actors : Outside(a) \in {"outside", "task"}
    /\ \A w \in Workers : Outside(w) = "task"
BY ConstantsAssumption DEF Steps, CallSteps, WaitSteps, ReleaseSteps, Outside

\* What Go does to the steps.
LEMMA GoFacts ==
    ASSUME Types, NEW a \in Actors, NEW from, NEW to \in Steps, Go(a, from, to)
    PROVE  /\ pc[a] = from /\ pc' \in [Actors -> Steps] /\ pc'[a] = to
           /\ \A u \in Actors \ {a} : pc'[u] = pc[u]
BY DEF Types, Go

LEMMA ActorFacts ==
    /\ Workers \subseteq Actors /\ Nobody \notin Actors /\ Nobody \notin Tasks
    /\ \A w \in Workers : w \in Actors /\ w # Nobody
BY ConstantsAssumption DEF Actors

\* The lock is kept,
LEMMA LockKept ==
    ASSUME IInv, NEW a \in Actors, NEW from, NEW to \in Steps, Go(a, from, to),
           UNCHANGED <<flagRunning, holder>>,
           to = "_wake" <=> from = "_wake", to \in ReleaseSteps <=> from \in ReleaseSteps
    PROVE  LockInv'
<1>1. /\ pc[a] = from /\ pc'[a] = to /\ \A u \in Actors \ {a} : pc'[u] = pc[u]
  BY GoFacts DEF IInv
<1> QED BY <1>1 DEF IInv, LockInv

\* or taken,
LEMMA LockTaken ==
    ASSUME IInv, NEW a \in Actors, NEW from, NEW to \in Steps, Go(a, from, to),
           holder = Nobody, holder' = a,
           \/ to = "_wake" /\ flagRunning'
           \/ to \in ReleaseSteps /\ ~flagRunning'
    PROVE  LockInv'
<1>1. /\ pc[a] = from /\ pc'[a] = to /\ \A u \in Actors \ {a} : pc'[u] = pc[u]
  BY GoFacts DEF IInv
<1>2. \A u \in Actors : pc[u] # "_wake" /\ pc[u] \notin ReleaseSteps
  BY ActorFacts DEF IInv, LockInv
<1>3. \A u \in Actors \ {a} : pc'[u] # "_wake" /\ pc'[u] \notin ReleaseSteps /\ holder' # u
  BY <1>1, <1>2
<1>4. "_wake" \notin ReleaseSteps
  BY DEF ReleaseSteps
<1> QED BY <1>1, <1>3, <1>4 DEF LockInv

\* or given back.
LEMMA LockGiven ==
    ASSUME IInv, NEW a \in Actors, NEW from, NEW to \in Steps, Go(a, from, to),
           holder = a, holder' = Nobody, to # "_wake", to \notin ReleaseSteps
    PROVE  LockInv'
<1>1. /\ pc[a] = from /\ pc'[a] = to /\ \A u \in Actors \ {a} : pc'[u] = pc[u]
  BY GoFacts DEF IInv
<1>2. \A u \in Actors \ {a} : pc[u] # "_wake" /\ pc[u] \notin ReleaseSteps
  BY DEF IInv, LockInv
<1> QED BY <1>1, <1>2, ActorFacts DEF LockInv

\* Where the pool runs, or nobody has its lock, nobody waits for the workers.
LEMMA NobodyReleases ==
    ASSUME LockInv', flagRunning' \/ holder' = Nobody
    PROVE  ReleaseInv'
BY ActorFacts DEF LockInv, ReleaseInv, ReleaseSteps

LEMMA WorkersKept ==
    ASSUME IInv, NEW a \in Actors, NEW from, NEW to \in Steps, Go(a, from, to),
           UNCHANGED threadWorkers, to \in {"off", "return"} \/ from \notin {"off", "return"},
           \A w \in Workers : w # a => running'[w] = running[w],
           a \in Workers => running'[a] = Nobody \/ to \in CallSteps \cup {"task"}
    PROVE  WorkersInv'
<1>1. /\ pc[a] = from /\ pc'[a] = to /\ \A u \in Actors \ {a} : pc'[u] = pc[u]
  BY GoFacts DEF IInv
<1>2. \A w \in Workers : pc'[w] \notin {"off", "return"} => w \in Range(threadWorkers)
  BY <1>1, ActorFacts DEF IInv, WorkersInv
<1>3. \A w \in Workers : running'[w] # Nobody => pc'[w] \in CallSteps \cup {"task"}
  BY <1>1, ActorFacts DEF IInv, WorkersInv
<1>4. UNCHANGED Limit
  BY DEF Limit
<1> QED BY <1>2, <1>3, <1>4 DEF IInv, WorkersInv

LEMMA ReleaseKept ==
    ASSUME IInv, NEW a \in Actors, NEW from, NEW to \in Steps, Go(a, from, to),
           UNCHANGED <<threadWorkers, at>>, to # "finishAndWait", from # "off"
    PROVE  ReleaseInv'
<1>1. /\ pc[a] = from /\ pc'[a] = to /\ \A u \in Actors \ {a} : pc'[u] = pc[u]
  BY GoFacts DEF IInv
<1>2. \A i \in 1 .. Len(threadWorkers) : threadWorkers[i] \in Actors
  BY ActorFacts DEF IInv, Types
<1>3. \A i \in 1 .. Len(threadWorkers) : pc[threadWorkers[i]] = "off" => pc'[threadWorkers[i]] = "off"
  BY <1>1, <1>2
<1> QED BY <1>1, <1>3 DEF IInv, ReleaseInv

\* The sleepers, where the list is left alone: the thread waits without a signal as before.
LEMMA SleepersKept ==
    ASSUME IInv, NEW a \in Actors, NEW from, NEW to \in Steps, Go(a, from, to),
           UNCHANGED threadSleeping, flagRunning' => flagRunning,
           \A w \in Workers : w # a => threads'[w] = threads[w],
           a \in Workers /\ flagRunning =>
              /\ ~threads'[a].stop /\ (threads'[a].signal => to \in WaitSteps)
              /\ (to \in WaitSteps /\ ~threads'[a].signal) <=> (from \in WaitSteps /\ ~threads[a].signal)
    PROVE  SleepersInv'
<1>1. /\ pc[a] = from /\ pc'[a] = to /\ \A u \in Actors \ {a} : pc'[u] = pc[u]
  BY GoFacts DEF IInv
<1>2. IsInjective(threadSleeping)'
  BY DEF IInv, SleepersInv
<1>3. ASSUME flagRunning'
      PROVE  /\ \A w \in Workers : ~threads'[w].stop
             /\ \A w \in Workers : threads'[w].signal => pc'[w] \in WaitSteps
             /\ \A w \in Workers : (pc'[w] \in WaitSteps /\ ~threads'[w].signal)
                                        <=> (pc[w] \in WaitSteps /\ ~threads[w].signal)
  BY <1>1, <1>3, ActorFacts DEF IInv, SleepersInv
<1>4. ASSUME flagRunning' PROVE SleepersExact'
  BY <1>3, <1>4 DEF IInv, SleepersInv, SleepersExact
<1> QED BY <1>2, <1>3, <1>4 DEF SleepersInv

\* The tasks that may be stranded, where what is queued is left alone: the thread looks still.
LEMMA StrandKept ==
    ASSUME IInv, NEW a \in Actors, NEW from, NEW to \in Steps, Go(a, from, to),
           UNCHANGED tasks, unserved' = unserved, flagRunning' => flagRunning,
           \A w \in Workers : w # a => threads'[w] = threads[w] /\ running'[w] = running[w],
           flagRunning' /\ a \in Looking => a \in Looking' \/ Range(tasks) = {}
    PROVE  StrandInv'
<1>1. /\ pc[a] = from /\ pc'[a] = to /\ \A u \in Actors \ {a} : pc'[u] = pc[u]
  BY GoFacts DEF IInv
<1>2. \A w \in Workers : w # a /\ w \in Looking => w \in Looking'
  BY <1>1, ActorFacts DEF Looking
<1>3. Looking \subseteq Workers
  BY DEF Looking
<1> QED BY <1>2, <1>3 DEF IInv, StrandInv

\* Once the pool is released one worker goes on at most, in a task or out of it.
On == {"task", "while", "addTask", "wake", "release"}

LEMMA QuietKept ==
    ASSUME IInv, NEW a \in Actors, NEW from, NEW to \in Steps, Go(a, from, to),
           UNCHANGED <<flagRunning, holder>>,
           a \in Workers /\ ~flagRunning /\ from \in On => to \in On \cup {"return"}, from = "return" => to = "off", from # "off"
    PROVE  QuietInv'
<1> SUFFICES ASSUME ~flagRunning, holder = Nobody
             PROVE  \E u \in Actors : \A w \in Workers :
                        pc'[w] \in {"off", "return"} \/ (w = u /\ pc'[w] \in On)
  BY DEF QuietInv, On
<1>1. /\ pc[a] = from /\ pc'[a] = to /\ \A u \in Actors \ {a} : pc'[u] = pc[u]
  BY GoFacts DEF IInv
<1>2. PICK u \in Actors : \A w \in Workers : pc[w] \in {"off", "return"} \/ (w = u /\ pc[w] \in On)
  BY DEF IInv, QuietInv, On
<1>3. ASSUME NEW w \in Workers PROVE pc'[w] \in {"off", "return"} \/ (w = u /\ pc'[w] \in On)
  <2>1. CASE w = a
    BY <2>1, <1>1, <1>2
  <2>2. CASE w # a
    BY <2>2, <1>1, <1>2, ActorFacts
  <2> QED BY <2>1, <2>2
<1> QED BY <1>3

\* A thread goes on, and changes no more than its own signal and task.
LEMMA LocalStep ==
    ASSUME IInv, NEW a \in Actors, NEW from, NEW to \in Steps, Go(a, from, to),
           UNCHANGED <<pool, at, history>>, threads' \in Threads,
           running' \in [Workers -> Tasks \cup {Nobody}],
           \A w \in Workers : w # a => threads'[w] = threads[w] /\ running'[w] = running[w],
           from \notin ReleaseSteps \cup {"_wake", "off"}, to \notin ReleaseSteps \cup {"_wake"},
           a \in Workers /\ ~flagRunning /\ from \in On => to \in On \cup {"return"}, from = "return" => to = "off",
           a \in Workers => running'[a] = Nobody \/ to \in CallSteps \cup {"task"},
           a \in Workers /\ flagRunning =>
              /\ ~threads'[a].stop /\ (threads'[a].signal => to \in WaitSteps)
              /\ (to \in WaitSteps /\ ~threads'[a].signal) <=> (from \in WaitSteps /\ ~threads[a].signal),
           flagRunning /\ a \in Looking => a \in Looking' \/ Range(tasks) = {}
    PROVE  IInv'
<1> USE DEF pool, history
<1>1. pc' \in [Actors -> Steps]
  BY GoFacts DEF IInv
<1>2. Types'
  BY <1>1 DEF IInv, Types
<1>3. TasksInv'
  BY DEF IInv, TasksInv
<1>4. LockInv'
  BY LockKept
<1>5. WorkersInv'
  BY WorkersKept
<1>6. ReleaseInv'
  BY ReleaseKept DEF ReleaseSteps
<1>7. SleepersInv'
  BY SleepersKept
<1>8. StrandInv'
  BY StrandKept
<1>9. QuietInv'
  BY QuietKept
<1> QED BY <1>2, <1>3, <1>4, <1>5, <1>6, <1>7, <1>8, <1>9 DEF IInv

\* What the invariant says of a worker, whatever it does next.
LEMMA WorkerFacts ==
    ASSUME IInv, NEW w \in Workers
    PROVE  /\ threads[w] \in [stop : BOOLEAN, waiting : BOOLEAN, signal : BOOLEAN]
           /\ running[w] # Nobody => pc[w] \in CallSteps \cup {"task"}
           /\ flagRunning => ~threads[w].stop /\ (threads[w].signal => pc[w] \in WaitSteps)
           /\ pc[w] \notin {"off", "return"} => w \in Range(threadWorkers)
           /\ w \in Looking <=> \/ pc[w] \in {"while", "_processTask", "woken"}
                                \/ running[w] # Nobody
                                \/ pc[w] \in WaitSteps /\ threads[w].signal
BY DEF IInv, Types, Threads, WorkersInv, SleepersInv, Looking

\* A thread goes on and changes nothing else.
LEMMA PcStep ==
    ASSUME IInv, NEW a \in Actors, NEW from, NEW to \in Steps, Go(a, from, to),
           UNCHANGED <<pool, threads, running, at, history>>,
           from \notin ReleaseSteps \cup {"_wake", "off"}, to \notin ReleaseSteps \cup {"_wake"},
           a \in Workers /\ ~flagRunning /\ from \in On => to \in On \cup {"return"}, from = "return" => to = "off",
           a \in Workers /\ from \in CallSteps \cup {"task"} => to \in CallSteps \cup {"task"},
           a \in Workers /\ flagRunning => (to \in WaitSteps <=> from \in WaitSteps),
           flagRunning /\ from \in {"while", "_processTask", "woken"} =>
              to \in {"while", "_processTask", "woken"} \/ Range(tasks) = {}
    PROVE  IInv'
<1>1. /\ pc[a] = from /\ pc'[a] = to /\ \A u \in Actors \ {a} : pc'[u] = pc[u]
  BY GoFacts DEF IInv
<1>2. threads' \in Threads /\ running' \in [Workers -> Tasks \cup {Nobody}]
  BY DEF IInv, Types
<1>3. ASSUME a \in Workers PROVE running'[a] = Nobody \/ to \in CallSteps \cup {"task"}
  <2>1. running[a] # Nobody => from \in CallSteps \cup {"task"}
    BY <1>1, <1>3, WorkerFacts
  <2> QED BY <2>1, <1>3
<1>4. ASSUME a \in Workers, flagRunning
      PROVE  /\ ~threads'[a].stop /\ (threads'[a].signal => to \in WaitSteps)
             /\ (to \in WaitSteps /\ ~threads'[a].signal) <=> (from \in WaitSteps /\ ~threads[a].signal)
  <2>1. ~threads[a].stop /\ (threads[a].signal => from \in WaitSteps)
    BY <1>1, <1>4, WorkerFacts
  <2> QED BY <2>1, <1>4
<1>5. ASSUME flagRunning, a \in Looking PROVE a \in Looking' \/ Range(tasks) = {}
  <2>1. a \in Workers
    BY <1>5 DEF Looking
  <2>2. \/ from \in {"while", "_processTask", "woken"}
        \/ running[a] # Nobody
        \/ from \in WaitSteps /\ threads[a].signal
    BY <2>1, <1>1, <1>5, WorkerFacts
  <2> QED BY <2>1, <2>2, <1>1, <1>5 DEF Looking
<1> QED BY <1>2, <1>3, <1>4, <1>5, LocalStep

-----------------------------------------------------------------------------
(* One step after the other                                                *)

LEMMA CallStep == ASSUME IInv, NEW a \in Actors, Call(a) PROVE IInv'
<1>1. PICK op \in {"addTask", "wake", "release"} : Go(a, Outside(a), op)
  BY DEF Call
<1>2. Outside(a) \in {"outside", "task"}
  BY StepNames
<1>3. op \in Steps /\ op \in CallSteps
  BY DEF Steps, CallSteps
<1>4. UNCHANGED <<pool, threads, running, at, history>>
  BY DEF Call
<1> QED BY <1>1, <1>2, <1>3, <1>4, PcStep DEF On, ReleaseSteps, CallSteps, WaitSteps

\* What a caller returns to.
LEMMA ReturnFacts ==
    ASSUME NEW a \in Actors
    PROVE  /\ Outside(a) \in Steps /\ Outside(a) \in {"outside", "task"}
           /\ a \in Workers => Outside(a) = "task"
BY StepNames DEF Steps

\* A call that changes nothing returns.
LEMMA ReturnStep ==
    ASSUME IInv, NEW a \in Actors, NEW op \in {"addTask", "wake", "release"}, Return(a, op),
           UNCHANGED <<pool, threads, running, at, history>>
    PROVE  IInv'
<1>1. Go(a, op, Outside(a))
  BY DEF Return
<1>2. op \in CallSteps
  BY DEF CallSteps
<1>3. Outside(a) \notin ReleaseSteps \cup {"_wake"} \cup WaitSteps
  BY ReturnFacts DEF ReleaseSteps, WaitSteps
<1>4. op \notin ReleaseSteps \cup {"_wake", "off", "return", "while", "_processTask", "woken"} \cup WaitSteps
  BY DEF ReleaseSteps, WaitSteps
<1>5. pc[a] = op
  BY <1>1 DEF Go
<1>6. a \in Workers => Outside(a) \in On \cup {"return"} /\ Outside(a) \in CallSteps \cup {"task"}
  BY ReturnFacts DEF On
<1> QED BY <1>1, <1>2, <1>3, <1>4, <1>6, ReturnFacts, PcStep

LEMMA RefusedStep == ASSUME IInv, NEW a \in Actors, Refused(a) \/ AddNull(a) PROVE IInv'
<1>1. CASE Refused(a)
  BY <1>1, ReturnStep DEF Refused
<1>2. CASE AddNull(a)
  BY <1>2, ReturnStep DEF AddNull
<1> QED BY <1>1, <1>2

LEMMA WhileStep == ASSUME IInv, NEW w \in Workers, While(w) PROVE IInv'
<1> DEFINE to == IF flagRunning /\ ~threads[w].stop THEN "_processTask" ELSE "return"
<1>1. Go(w, "while", to) /\ UNCHANGED <<pool, threads, running, at, history>>
  BY DEF While
<1>2. to \in {"_processTask", "return"} /\ (flagRunning => to = "_processTask")
  BY WorkerFacts
<1>3. ~flagRunning => to = "return"
  OBVIOUS
<1> HIDE DEF to
<1>4. to \in Steps \ (ReleaseSteps \cup {"_wake"} \cup WaitSteps)
  BY <1>2 DEF Steps, ReleaseSteps, WaitSteps
<1>5. flagRunning => to \in {"_processTask"}
  BY <1>2
<1>6. w \in Actors
  BY ActorFacts
<1>7. CASE flagRunning
  <2>1. Go(w, "while", "_processTask") /\ "_processTask" \in Steps
    BY <1>1, <1>4, <1>5, <1>7
  <2> QED BY <2>1, <1>1, <1>6, <1>7, PcStep DEF CallSteps, ReleaseSteps, WaitSteps, On
<1>8. CASE ~flagRunning
  <2>1. Go(w, "while", "return") /\ "return" \in Steps
    BY <1>1, <1>3, <1>4, <1>8
  <2> QED BY <2>1, <1>1, <1>6, <1>8, PcStep DEF CallSteps, ReleaseSteps, WaitSteps, On
<1> QED BY <1>7, <1>8

LEMMA NoTaskStep == ASSUME IInv, NEW w \in Workers, NoTask(w) PROVE IInv'
<1>1. UNCHANGED <<pool, threads, running, at, history>> /\ w \in Actors /\ Range(tasks) = {}
  <2>1. Range(tasks) = {}
    BY DEF NoTask, Range
  <2> QED BY <2>1, ActorFacts DEF NoTask
<1>2. PICK to \in {"idle", "while"} : Go(w, "_processTask", to)
  BY DEF NoTask
<1>3. to \in Steps \ (ReleaseSteps \cup {"_wake"} \cup WaitSteps)
  BY DEF Steps, ReleaseSteps, WaitSteps
<1> QED BY <1>1, <1>2, <1>3, PcStep DEF CallSteps, ReleaseSteps, WaitSteps, On

LEMMA EndThreadStep == ASSUME IInv, NEW w \in Workers, EndThread(w) PROVE IInv'
<1>1. UNCHANGED <<pool, threads, running, at, history>> /\ w \in Actors /\ Go(w, "return", "off")
  BY ActorFacts DEF EndThread
<1>2. "off" \in Steps
  BY DEF Steps
<1> QED BY <1>1, <1>2, PcStep DEF CallSteps, ReleaseSteps, WaitSteps, On

LEMMA WaitStep == ASSUME IInv, NEW w \in Workers, Wait(w) PROVE IInv'
<1> DEFINE to == IF threads[w].stop THEN "while" ELSE "setWaiting"
<1>1. /\ UNCHANGED <<pool, threads, running, at, history>> /\ w \in Actors
      /\ Go(w, "wait", to)
  BY ActorFacts DEF Wait
<1>2. to \in {"while", "setWaiting"} /\ (flagRunning => to = "setWaiting")
  BY WorkerFacts
<1> HIDE DEF to
<1>3. to \in Steps \ (ReleaseSteps \cup {"_wake"}) /\ (flagRunning => to \in WaitSteps)
  BY <1>2 DEF Steps, ReleaseSteps, WaitSteps
<1> QED BY <1>1, <1>2, <1>3, PcStep DEF CallSteps, ReleaseSteps, WaitSteps, On

\* A thread changes its signal or that it waits, on the way into the wait or out of it.
LEMMA EventStep ==
    ASSUME IInv, NEW w \in Workers, NEW from, NEW to \in Steps, Go(w, from, to),
           UNCHANGED <<pool, running, at, history>>,
           NEW waiting \in BOOLEAN, NEW signal \in BOOLEAN,
           threads' = [threads EXCEPT ![w] = [threads[w] EXCEPT !.waiting = waiting, !.signal = signal]],
           from \in WaitSteps \cup {"woken"}, to \in WaitSteps \cup {"woken", "while"},
           flagRunning /\ to \in WaitSteps => from \in WaitSteps /\ signal = threads[w].signal,
           flagRunning /\ to \notin WaitSteps => ~signal /\ (from \in WaitSteps => threads[w].signal)
    PROVE  IInv'
<1>1. pc[w] = from /\ pc'[w] = to /\ w \in Actors
  BY GoFacts, ActorFacts DEF IInv
<1>2. /\ threads[w] \in [stop : BOOLEAN, waiting : BOOLEAN, signal : BOOLEAN]
      /\ running[w] = Nobody /\ (flagRunning => ~threads[w].stop)
  BY <1>1, WorkerFacts DEF WaitSteps, CallSteps
<1>3. /\ threads' \in Threads /\ \A k \in Workers : k # w => threads'[k] = threads[k]
      /\ threads'[w].stop = threads[w].stop /\ threads'[w].signal = signal
  BY <1>2 DEF IInv, Types, Threads
<1>4. running' = running /\ running \in [Workers -> Tasks \cup {Nobody}]
  BY DEF IInv, Types
<1>5. /\ from \notin ReleaseSteps \cup {"_wake", "off", "return"} \cup On
      /\ to \notin ReleaseSteps \cup {"_wake"}
  BY DEF ReleaseSteps, WaitSteps, On
<1>6. flagRunning /\ w \in Looking => w \in Looking'
  <2>1. CASE to \in WaitSteps
    <3>1. flagRunning /\ w \in Looking => from \in WaitSteps /\ threads[w].signal
      BY <2>1, <1>1, <1>2, WorkerFacts DEF WaitSteps
    <3> QED BY <3>1, <2>1, <1>1, <1>3 DEF Looking
  <2>2. CASE to \in {"woken", "while"}
    BY <2>2, <1>1 DEF Looking
  <2> QED BY <2>1, <2>2
<1>7. flagRunning => /\ ~threads'[w].stop /\ (threads'[w].signal => to \in WaitSteps)
                     /\ (to \in WaitSteps /\ ~threads'[w].signal) <=> (from \in WaitSteps /\ ~threads[w].signal)
  <2>1. flagRunning /\ from \notin WaitSteps => ~threads[w].signal
    BY <1>1, WorkerFacts
  <2> QED BY <2>1, <1>2, <1>3
<1>8. running'[w] = Nobody /\ \A k \in Workers : k # w => threads'[k] = threads[k] /\ running'[k] = running[k]
  BY <1>2, <1>3
<1>9. running' \in [Workers -> Tasks \cup {Nobody}]
  BY <1>4
<1>10. from # "return" /\ from \notin On /\ from \notin ReleaseSteps \cup {"_wake", "off"}
  BY <1>5
<1> QED BY <1>1, <1>3, <1>5, <1>6, <1>7, <1>8, <1>9, <1>10, LocalStep

LEMMA EventSteps ==
    ASSUME IInv, NEW w \in Workers, SetWaiting(w) \/ DoWait(w) \/ Unblock(w) \/ Woken(w)
    PROVE  IInv'
<1> DEFINE t == threads[w]
           Change(waiting, signal) ==
              threads' = [threads EXCEPT ![w] = [t EXCEPT !.waiting = waiting, !.signal = signal]]
<1>1. threads \in Threads /\ t \in [stop : BOOLEAN, waiting : BOOLEAN, signal : BOOLEAN]
  BY WorkerFacts DEF IInv, Types
<1>2. t.signal \in BOOLEAN /\ t.waiting \in BOOLEAN
  BY <1>1
<1>3. /\ UNCHANGED <<pool, running, at, history>>
  BY DEF SetWaiting, DoWait, Unblock, Woken
<1>4. {"setWaiting", "doWait", "blocked"} \subseteq WaitSteps /\ {"woken", "while"} \cap WaitSteps = {}
  BY DEF WaitSteps
<1>5. {"doWait", "blocked", "woken", "while"} \subseteq Steps
  BY DEF Steps, WaitSteps
<1>6. CASE SetWaiting(w)
  <2>1. Go(w, "setWaiting", "doWait") /\ Change(TRUE, t.signal)
    BY <1>1, <1>6 DEF SetWaiting, Threads
  <2> QED BY <2>1, <1>2, <1>3, <1>4, <1>5, EventStep
<1>7. CASE Go(w, "doWait", "blocked") /\ UNCHANGED threads
  <2>1. Change(t.waiting, t.signal)
    BY <1>1, <1>7 DEF Threads
  <2> QED BY <2>1, <1>2, <1>3, <1>4, <1>5, <1>7, EventStep
<1>8. CASE /\ \E from \in {"doWait", "blocked"} : Go(w, from, "woken")
           /\ t.signal \/ t.stop
           /\ threads' = [threads EXCEPT ![w].signal = FALSE]
  <2>1. Change(t.waiting, FALSE)
    BY <1>1, <1>8 DEF Threads
  <2>2. flagRunning => t.signal
    BY <1>8, WorkerFacts
  <2> QED BY <2>1, <2>2, <1>2, <1>3, <1>4, <1>5, <1>8, EventStep
<1>9. CASE Woken(w)
  <2>1. Go(w, "woken", "while") /\ Change(FALSE, t.signal)
    BY <1>1, <1>9 DEF Woken, Threads
  <2>2. flagRunning => ~t.signal
    BY <2>1, <1>4, WorkerFacts DEF Go
  <2> QED BY <2>1, <2>2, <1>2, <1>3, <1>4, <1>5, EventStep
<1>10. DoWait(w) \/ Unblock(w) =>
          \/ Go(w, "doWait", "blocked") /\ UNCHANGED threads
          \/ /\ \E from \in {"doWait", "blocked"} : Go(w, from, "woken")
             /\ t.signal \/ t.stop
             /\ threads' = [threads EXCEPT ![w].signal = FALSE]
  BY DEF DoWait, Unblock
<1> QED BY <1>6, <1>7, <1>8, <1>9, <1>10

LEMMA EndTaskStep == ASSUME IInv, NEW w \in Workers, EndTask(w) PROVE IInv'
<1>1. /\ Go(w, "task", "while") /\ running' = [running EXCEPT ![w] = Nobody]
      /\ UNCHANGED <<pool, threads, at, history>> /\ w \in Actors
  BY ActorFacts DEF EndTask
<1>2. "while" \in Steps
  BY DEF Steps
<1>3. pc[w] = "task" /\ pc'[w] = "while"
  BY <1>1, <1>2, GoFacts DEF IInv
<1>4. threads \in Threads /\ running \in [Workers -> Tasks \cup {Nobody}]
  BY DEF IInv, Types
<1>5. running' \in [Workers -> Tasks \cup {Nobody}] /\ running'[w] = Nobody
      /\ \A k \in Workers : k # w => running'[k] = running[k]
  BY <1>1, <1>4
<1>6. w \in Looking'
  BY <1>3 DEF Looking
<1>7. flagRunning => ~threads[w].stop /\ ~threads[w].signal
  BY <1>3, WorkerFacts DEF WaitSteps
<1> QED BY <1>1, <1>2, <1>4, <1>5, <1>6, <1>7, LocalStep DEF On, ReleaseSteps, WaitSteps

LEMMA TakeTaskStep == ASSUME IInv, NEW w \in Workers, TakeTask(w) PROVE IInv'
<1> DEFINE t == Head(tasks)
<1>1. /\ Go(w, "_processTask", "task") /\ tasks # <<>> /\ tasks' = Tail(tasks)
      /\ running' = [running EXCEPT ![w] = t]
      /\ UNCHANGED <<flagRunning, holder, threadWorkers, threadSleeping, limits, threads, at, left, unserved>>
      /\ w \in Actors
  BY ActorFacts DEF TakeTask, history
<1>2. "task" \in Steps
  BY DEF Steps
<1>3. pc[w] = "_processTask" /\ pc'[w] = "task" /\ pc' \in [Actors -> Steps]
  BY <1>1, <1>2, GoFacts DEF IInv
<1>4. /\ t \in Tasks /\ t # Nobody /\ tasks' \in Seq(Tasks) /\ IsInjective(tasks')
      /\ Range(tasks') \subseteq Range(tasks)
  <2>1. tasks \in Seq(Tasks) /\ IsInjective(tasks)
    BY DEF IInv, Types, TasksInv
  <2>2. /\ t \in Range(tasks) /\ Range(tasks) \subseteq Tasks
        /\ Tail(tasks) \in Seq(Tasks) /\ IsInjective(Tail(tasks))
        /\ Range(Tail(tasks)) = Range(tasks) \ {t}
    BY <1>1, <2>1, TailFacts, RangeFacts
  <2> QED BY <2>2, <1>1, ActorFacts
<1> HIDE DEF t
<1>5. /\ running' \in [Workers -> Tasks \cup {Nobody}] /\ running'[w] # Nobody
      /\ \A k \in Workers : k # w => running'[k] = running[k]
  BY <1>1, <1>4 DEF IInv, Types
<1>6. Types'
  BY <1>1, <1>3, <1>4, <1>5 DEF IInv, Types
<1>7. TasksInv'
  BY <1>1, <1>4 DEF IInv, TasksInv
<1>8. LockInv' /\ WorkersInv' /\ ReleaseInv'
  BY <1>1, <1>2, <1>5, LockKept, WorkersKept, ReleaseKept DEF ReleaseSteps
<1>9. flagRunning => ~threads[w].stop /\ ~threads[w].signal
  BY <1>3, WorkerFacts DEF WaitSteps
<1>10. SleepersInv'
  BY <1>1, <1>2, <1>9, SleepersKept DEF WaitSteps
<1>11. QuietInv'
  BY <1>1, <1>2, QuietKept DEF On
<1>12. StrandInv'
  BY <1>5 DEF StrandInv, Looking
<1> QED BY <1>6, <1>7, <1>8, <1>10, <1>11, <1>12 DEF IInv

\* addTask and wake take the lock.
LEMMA AddTaskStep == ASSUME IInv, NEW a \in Actors, AddTask(a) PROVE IInv'
<1>1. PICK t \in left, flagUrgent \in BOOLEAN :
          /\ tasks' = IF flagUrgent THEN <<t>> \o tasks ELSE Append(tasks, t)
          /\ left' = left \ {t} /\ unserved' = unserved \cup {t}
  BY DEF AddTask
<1>2. /\ holder = Nobody /\ flagRunning /\ holder' = a /\ Go(a, "addTask", "_wake")
      /\ UNCHANGED <<flagRunning, threadWorkers, threadSleeping, limits, threads, running, at>>
  BY DEF AddTask, LockFree
<1>3. "_wake" \in Steps
  BY DEF Steps, CallSteps
<1>4. pc[a] = "addTask" /\ pc'[a] = "_wake" /\ pc' \in [Actors -> Steps]
  BY <1>2, <1>3, GoFacts DEF IInv
<1>5. /\ tasks' \in Seq(Tasks) /\ IsInjective(tasks') /\ Range(tasks') = Range(tasks) \cup {t}
      /\ t \in Tasks
  <2>1. tasks \in Seq(Tasks) /\ IsInjective(tasks) /\ t \in Tasks /\ t \notin Range(tasks)
    BY DEF IInv, Types, TasksInv
  <2>2. /\ Append(tasks, t) \in Seq(Tasks) /\ IsInjective(Append(tasks, t))
        /\ Range(Append(tasks, t)) = Range(tasks) \cup {t}
    BY <2>1, AppendFacts
  <2>3. /\ <<t>> \o tasks \in Seq(Tasks) /\ IsInjective(<<t>> \o tasks)
        /\ Range(<<t>> \o tasks) = Range(tasks) \cup {t}
    BY <2>1, PrependFacts
  <2> QED BY <1>1, <2>1, <2>2, <2>3
<1>6. Types'
  BY <1>1, <1>2, <1>4, <1>5 DEF IInv, Types
<1>7. TasksInv'
  BY <1>1, <1>5 DEF IInv, TasksInv
<1>8. LockInv'
  BY <1>2, <1>3, LockTaken
<1>9. WorkersInv'
  <2>1. a \in Workers => running'[a] = Nobody \/ "_wake" \in CallSteps \cup {"task"}
    BY DEF CallSteps
  <2> QED BY <2>1, <1>2, <1>3, WorkersKept
<1>10. ReleaseInv'
  BY <1>2, <1>8, NobodyReleases
<1>11. a \in Workers => ~threads[a].stop /\ ~threads[a].signal
  BY <1>2, <1>4, WorkerFacts DEF WaitSteps
<1>12. SleepersInv'
  <2>1. "addTask" \notin WaitSteps /\ "_wake" \notin WaitSteps
    BY DEF WaitSteps
  <2>2. a \in Workers => ~threads'[a].stop /\ ~threads'[a].signal
    BY <1>2, <1>3, <1>11
  <2> QED BY <2>1, <2>2, <1>2, <1>3, SleepersKept
<1>13. QuietInv'
  BY <1>2 DEF QuietInv
<1>14. StrandInv'
  <2>1. Looking \subseteq Looking'
    BY <1>2, <1>3, <1>4, GoFacts, ActorFacts DEF IInv, Looking, WaitSteps
  <2>2. Looking # {} \/ Range(tasks) \subseteq unserved
    BY <1>2 DEF IInv, StrandInv
  <2> QED BY <2>1, <2>2, <1>1, <1>5 DEF StrandInv
<1> QED BY <1>6, <1>7, <1>8, <1>9, <1>10, <1>12, <1>13, <1>14 DEF IInv

LEMMA WakeStep == ASSUME IInv, NEW a \in Actors, Wake(a) PROVE IInv'
<1>1. /\ holder = Nobody /\ flagRunning /\ holder' = a /\ Go(a, "wake", "_wake")
      /\ UNCHANGED <<flagRunning, threadWorkers, threadSleeping, tasks, limits, threads, running,
                     at, left, unserved>>
  BY DEF Wake, LockFree, history
<1>2. "_wake" \in Steps
  BY DEF Steps, CallSteps
<1>3. pc[a] = "wake" /\ pc'[a] = "_wake" /\ pc' \in [Actors -> Steps]
  BY <1>1, <1>2, GoFacts DEF IInv
<1>4. Types' /\ TasksInv'
  BY <1>1, <1>3 DEF IInv, Types, TasksInv
<1>5. LockInv'
  BY <1>1, <1>2, LockTaken
<1>6. WorkersInv'
  <2>1. a \in Workers => running'[a] = Nobody \/ "_wake" \in CallSteps \cup {"task"}
    BY DEF CallSteps
  <2> QED BY <2>1, <1>1, <1>2, WorkersKept
<1>7. ReleaseInv'
  BY <1>1, <1>5, NobodyReleases
<1>8. a \in Workers => ~threads[a].stop /\ ~threads[a].signal
  BY <1>1, <1>3, WorkerFacts DEF WaitSteps
<1>9. SleepersInv'
  <2>1. "wake" \notin WaitSteps /\ "_wake" \notin WaitSteps
    BY DEF WaitSteps
  <2>2. a \in Workers => ~threads'[a].stop /\ ~threads'[a].signal
    BY <1>1, <1>2, <1>8
  <2> QED BY <2>1, <2>2, <1>1, <1>2, SleepersKept
<1>10. QuietInv'
  BY <1>1 DEF QuietInv
<1>11. a \in Looking => a \in Looking'
  <2> SUFFICES ASSUME a \in Looking PROVE a \in Looking'
    OBVIOUS
  <2>1. a \in Workers /\ running[a] # Nobody
    BY <1>3 DEF Looking, WaitSteps
  <2> QED BY <2>1, <1>1 DEF Looking
<1>12. StrandInv'
  BY <1>1, <1>2, <1>11, StrandKept
<1> QED BY <1>4, <1>5, <1>6, <1>7, <1>9, <1>10, <1>12 DEF IInv

\* What holds of a caller in _wake.
LEMMA InWake ==
    ASSUME IInv, NEW a \in Actors, pc[a] = "_wake"
    PROVE  /\ flagRunning /\ holder = a
           /\ Range(threadSleeping) = {w \in Workers : pc[w] \in WaitSteps /\ ~threads[w].signal}
           /\ a \in Workers => ~threads[a].stop /\ ~threads[a].signal
           /\ a \in Looking => a \in Workers /\ running[a] # Nobody
BY DEF IInv, LockInv, SleepersInv, SleepersExact, Looking, WaitSteps

LEMMA WakeSleepingStep == ASSUME IInv, NEW a \in Actors, WakeSleeping(a) PROVE IInv'
<1> DEFINE h == Head(threadSleeping)
           o == Outside(a)
<1>1. /\ threadSleeping # <<>> /\ threadSleeping' = Tail(threadSleeping)
      /\ threads' = [threads EXCEPT ![h].signal = TRUE]
      /\ holder' = Nobody /\ Go(a, "_wake", o) /\ unserved' = {}
      /\ UNCHANGED <<flagRunning, threadWorkers, tasks, limits, running, at, left>>
  BY DEF WakeSleeping, Return
<1>2. o \in Steps /\ o \in {"outside", "task"} /\ (a \in Workers => o = "task")
  BY ReturnFacts
<1> HIDE DEF o
<1>3. /\ pc[a] = "_wake" /\ pc'[a] = o /\ pc' \in [Actors -> Steps]
      /\ \A u \in Actors \ {a} : pc'[u] = pc[u]
  BY <1>1, <1>2, GoFacts DEF IInv
<1>4. /\ flagRunning /\ holder = a
      /\ Range(threadSleeping) = {w \in Workers : pc[w] \in WaitSteps /\ ~threads[w].signal}
      /\ a \in Workers => ~threads[a].stop /\ ~threads[a].signal
  BY <1>3, InWake
<1>5. /\ h \in Range(threadSleeping) /\ threadSleeping' \in Seq(Workers)
      /\ Range(threadSleeping') = Range(threadSleeping) \ {h} /\ IsInjective(threadSleeping')
  <2>1. threadSleeping \in Seq(Workers) /\ IsInjective(threadSleeping)
    BY DEF IInv, Types, SleepersInv
  <2> QED BY <2>1, <1>1, TailFacts
<1>6. h \in Workers /\ pc[h] \in WaitSteps /\ h # a
  <2>1. h \in Workers /\ pc[h] \in WaitSteps
    BY <1>4, <1>5
  <2> QED BY <2>1, <1>3 DEF WaitSteps
<1> HIDE DEF h
<1>7. /\ threads' \in Threads /\ threads'[h].signal = TRUE /\ threads'[h].stop = threads[h].stop
      /\ \A w \in Workers : w # h => threads'[w] = threads[w]
  BY <1>1, <1>6 DEF IInv, Types, Threads
<1>8. Types' /\ TasksInv'
  BY <1>1, <1>3, <1>5, <1>7 DEF IInv, Types, TasksInv
<1>9. LockInv'
  BY <1>1, <1>2, <1>4, LockGiven DEF ReleaseSteps
<1>10. WorkersInv'
  <2>1. a \in Workers => running'[a] = Nobody \/ o \in CallSteps \cup {"task"}
    BY <1>2
  <2> QED BY <2>1, <1>1, <1>2, WorkersKept
<1>11. ReleaseInv'
  BY <1>1, <1>9, NobodyReleases
<1>12. SleepersInv'
  <2>1. \A w \in Workers : ~threads'[w].stop
    BY <1>4, <1>7, WorkerFacts
  <2>2. \A w \in Workers : pc'[w] \in WaitSteps <=> pc[w] \in WaitSteps
    BY <1>2, <1>3, ActorFacts DEF WaitSteps
  <2>3. \A w \in Workers : threads'[w].signal => pc'[w] \in WaitSteps
    BY <2>2, <1>4, <1>6, <1>7, WorkerFacts
  <2>4. Range(threadSleeping') = {w \in Workers : pc'[w] \in WaitSteps /\ ~threads'[w].signal}
    BY <2>2, <1>4, <1>5, <1>6, <1>7
  <2> QED BY <2>1, <2>3, <2>4, <1>5 DEF SleepersInv, SleepersExact
<1>13. QuietInv'
  BY <1>1, <1>4 DEF QuietInv
<1>14. StrandInv'
  <2>1. h \in Looking'
    BY <1>3, <1>6, <1>7, ActorFacts DEF Looking
  <2> QED BY <2>1 DEF StrandInv
<1> QED BY <1>8, <1>9, <1>10, <1>11, <1>12, <1>13, <1>14 DEF IInv

LEMMA WakeNobodyStep == ASSUME IInv, NEW a \in Actors, WakeNobody(a) PROVE IInv'
<1> DEFINE o == Outside(a)
<1>1. /\ holder' = Nobody /\ Go(a, "_wake", o)
      /\ UNCHANGED <<flagRunning, threadWorkers, threadSleeping, tasks, limits, threads, running,
                     at, left, unserved>>
  BY DEF WakeNobody, Return, history
<1>2. o \in Steps /\ o \in {"outside", "task"} /\ (a \in Workers => o = "task")
  BY ReturnFacts
<1> HIDE DEF o
<1>3. pc[a] = "_wake" /\ pc'[a] = o /\ pc' \in [Actors -> Steps]
  BY <1>1, <1>2, GoFacts DEF IInv
<1>4. /\ flagRunning /\ holder = a /\ (a \in Workers => ~threads[a].stop /\ ~threads[a].signal)
      /\ a \in Looking => a \in Workers /\ running[a] # Nobody
  BY <1>3, InWake
<1>5. Types' /\ TasksInv'
  BY <1>1, <1>3 DEF IInv, Types, TasksInv
<1>6. LockInv'
  BY <1>1, <1>2, <1>4, LockGiven DEF ReleaseSteps
<1>7. WorkersInv'
  <2>1. a \in Workers => running'[a] = Nobody \/ o \in CallSteps \cup {"task"}
    BY <1>2
  <2> QED BY <2>1, <1>1, <1>2, WorkersKept
<1>8. ReleaseInv'
  BY <1>1, <1>6, NobodyReleases
<1>9. SleepersInv'
  <2>1. o \notin WaitSteps /\ "_wake" \notin WaitSteps
    BY <1>2 DEF WaitSteps
  <2>2. a \in Workers => ~threads'[a].stop /\ ~threads'[a].signal
    BY <1>1, <1>4
  <2> QED BY <2>1, <2>2, <1>1, <1>2, SleepersKept
<1>10. QuietInv'
  BY <1>1, <1>4 DEF QuietInv
<1>11. a \in Looking => a \in Looking'
  BY <1>1, <1>4 DEF Looking
<1>12. StrandInv'
  BY <1>1, <1>2, <1>11, StrandKept
<1> QED BY <1>5, <1>6, <1>7, <1>8, <1>9, <1>10, <1>12 DEF IInv

\* A worker is started, which was off and is in the list no more.
LEMMA StartWorkerStep == ASSUME IInv, NEW a \in Actors, StartWorker(a) PROVE IInv'
<1> DEFINE o == Outside(a)
<1>1. PICK w \in Workers \ Range(threadWorkers) :
          /\ pc[w] = "off" /\ pc[a] = "_wake"
          /\ threads' = [threads EXCEPT ![w] = NewThread]
          /\ pc' = [pc EXCEPT ![w] = "while", ![a] = o]
          /\ threadWorkers' = Append(threadWorkers, w)
  BY DEF StartWorker
<1>2. /\ threadSleeping = <<>> /\ MayStart /\ holder' = Nobody /\ unserved' = {}
      /\ UNCHANGED <<flagRunning, threadSleeping, tasks, limits, running, at, left>>
  BY DEF StartWorker
<1>3. o \in Steps /\ o \in {"outside", "task"} /\ (a \in Workers => o = "task")
  BY ReturnFacts
<1> HIDE DEF o
<1>4. w # a /\ w \in Actors
  BY <1>1, ActorFacts
<1>5. pc \in [Actors -> Steps] /\ threads \in Threads /\ threadWorkers \in Seq(Workers)
  BY DEF IInv, Types
<1>6. /\ pc' \in [Actors -> Steps] /\ pc'[w] = "while" /\ pc'[a] = o
      /\ \A u \in Actors : u # a /\ u # w => pc'[u] = pc[u]
  <2>1. "while" \in Steps
    BY DEF Steps
  <2> QED BY <2>1, <1>1, <1>3, <1>4, <1>5
<1>7. /\ threads' \in Threads /\ ~threads'[w].stop /\ ~threads'[w].signal
      /\ \A k \in Workers : k # w => threads'[k] = threads[k]
  BY <1>1, <1>5 DEF Threads, NewThread
<1>8. /\ flagRunning /\ holder = a
      /\ Range(threadSleeping) = {k \in Workers : pc[k] \in WaitSteps /\ ~threads[k].signal}
  BY <1>1, InWake
<1>9. /\ threadWorkers' \in Seq(Workers) /\ Len(threadWorkers') = Len(threadWorkers) + 1
      /\ Range(threadWorkers') = Range(threadWorkers) \cup {w}
      /\ IsInjective(threadWorkers')
  BY <1>1, <1>5, AppendFacts DEF IInv, WorkersInv
<1>10. Types' /\ TasksInv'
  BY <1>2, <1>6, <1>7, <1>9 DEF IInv, Types, TasksInv
<1>11. LockInv'
  <2>1. \A u \in Actors \ {a} : pc[u] # "_wake" /\ pc[u] \notin ReleaseSteps
    BY <1>8 DEF IInv, LockInv
  <2>2. \A u \in Actors : pc'[u] # "_wake" /\ pc'[u] \notin ReleaseSteps
    BY <2>1, <1>3, <1>6 DEF ReleaseSteps
  <2> QED BY <2>2, <1>2, ActorFacts DEF LockInv
<1>12. WorkersInv'
  <2>1. Len(threadWorkers') <= Limit
    <3>1. CASE threadWorkers = <<>>
      BY <3>1, <1>9, LimitFacts
    <3>2. CASE Len(threadWorkers) < limits.max
      <4>1. limits.max \in Maximums /\ limits.max \in Nat /\ limits.max <= Limit /\ Limit \in Nat
        <5>1. limits.max \in Maximums
          BY DEF IInv, Types
        <5> QED BY <5>1, LimitFacts, ConstantsAssumption
      <4>2. Len(threadWorkers) \in Nat
        BY <1>5
      <4> QED BY <4>1, <4>2, <3>2, <1>9
    <3> QED BY <3>1, <3>2, <1>2 DEF MayStart
  <2>2. \A k \in Workers : pc'[k] \notin {"off", "return"} => k \in Range(threadWorkers')
    <3> SUFFICES ASSUME NEW k \in Workers, pc'[k] \notin {"off", "return"}
                 PROVE  k \in Range(threadWorkers')
      OBVIOUS
    <3>1. CASE k = w
      BY <3>1, <1>9
    <3>2. CASE k = a
      BY <3>2, <1>1, <1>9, WorkerFacts
    <3>3. CASE k # w /\ k # a
      BY <3>3, <1>6, <1>9, WorkerFacts, ActorFacts
    <3> QED BY <3>1, <3>2, <3>3
  <2>3. \A k \in Workers : running'[k] # Nobody => pc'[k] \in CallSteps \cup {"task"}
    <3> SUFFICES ASSUME NEW k \in Workers, running[k] # Nobody
                 PROVE  pc'[k] \in CallSteps \cup {"task"}
      BY <1>2
    <3>1. pc[k] \in CallSteps \cup {"task"}
      BY WorkerFacts
    <3>2. k # w
      BY <3>1, <1>1 DEF CallSteps
    <3> QED BY <3>1, <3>2, <1>3, <1>6, ActorFacts
  <2>4. UNCHANGED Limit
    BY DEF Limit
  <2> QED BY <2>1, <2>2, <2>3, <2>4, <1>9 DEF WorkersInv
<1>13. ReleaseInv'
  BY <1>2, <1>11, NobodyReleases
<1>14. SleepersInv'
  <2>1. \A k \in Workers : pc'[k] \in WaitSteps <=> pc[k] \in WaitSteps
    BY <1>1, <1>3, <1>6, ActorFacts DEF WaitSteps
  <2>2. \A k \in Workers : ~threads'[k].stop
    BY <1>7, <1>8, WorkerFacts
  <2>3. ~threads[w].signal
    BY <1>1, <1>8, WorkerFacts DEF WaitSteps
  <2>4. \A k \in Workers : threads'[k].signal => pc'[k] \in WaitSteps
    BY <2>1, <1>7, <1>8, WorkerFacts
  <2>5. \A k \in Workers : threads'[k].signal <=> threads[k].signal
    BY <2>3, <1>7
  <2>6. Range(threadSleeping') = {k \in Workers : pc'[k] \in WaitSteps /\ ~threads'[k].signal}
    BY <2>1, <2>5, <1>2, <1>8
  <2>7. IsInjective(threadSleeping)'
    BY <1>2 DEF IInv, SleepersInv
  <2> QED BY <2>2, <2>4, <2>6, <2>7 DEF SleepersInv, SleepersExact
<1>15. QuietInv'
  BY <1>2, <1>8 DEF QuietInv
<1>16. StrandInv'
  <2>1. w \in Looking'
    BY <1>6 DEF Looking
  <2> QED BY <2>1 DEF StrandInv
<1> QED BY <1>10, <1>11, <1>12, <1>13, <1>14, <1>15, <1>16 DEF IInv

LEMMA SetLimitsStep == ASSUME IInv, NEW a \in Actors, SetLimits(a) PROVE IInv'
<1>1. UNCHANGED <<flagRunning, holder, threadWorkers, threadSleeping, tasks, threads, pc,
                  running, at, left, unserved>>
  BY DEF SetLimits, history
<1>2. limits' \in [min : Minimums, max : Maximums]
  BY DEF SetLimits, IInv, Types
<1>3. Types'
  BY <1>1, <1>2 DEF IInv, Types
<1>4. TasksInv' /\ LockInv' /\ ReleaseInv'
  BY <1>1 DEF IInv, TasksInv, LockInv, ReleaseInv
<1>5. WorkersInv'
  BY <1>1 DEF IInv, WorkersInv, Limit
<1>6. SleepersInv' /\ QuietInv' /\ StrandInv'
  BY <1>1 DEF IInv, SleepersInv, SleepersExact, QuietInv, StrandInv, Looking
<1> QED BY <1>3, <1>4, <1>5, <1>6 DEF IInv

\* A worker without work, which finds the lock free.
LEMMA IdleFacts ==
    ASSUME IInv, NEW w \in Workers, pc[w] = "idle", holder = Nobody
    PROVE  /\ flagRunning /\ ~threads[w].stop /\ ~threads[w].signal
           /\ running[w] = Nobody /\ w \notin Looking
           /\ w \notin Range(threadSleeping) /\ w \in Range(threadWorkers)
<1>1. flagRunning
  BY DEF IInv, QuietInv
<1>2. ~threads[w].stop /\ ~threads[w].signal /\ running[w] = Nobody /\ w \in Range(threadWorkers)
  BY <1>1, WorkerFacts DEF WaitSteps, CallSteps
<1>3. w \notin Looking
  BY <1>2 DEF Looking
<1>4. w \notin Range(threadSleeping)
  BY <1>1 DEF IInv, SleepersInv, SleepersExact, WaitSteps
<1> QED BY <1>1, <1>2, <1>3, <1>4

LEMMA LeavePoolStep == ASSUME IInv, NEW w \in Workers, LeavePool(w) PROVE IInv'
<1>1. /\ holder = Nobody /\ Go(w, "idle", "return")
      /\ UNCHANGED <<flagRunning, holder, threadSleeping, tasks, limits, threads, running, at,
                     left, unserved>>
  BY DEF LeavePool, LockFree, history
<1>2. PICK i \in 1 .. Len(threadWorkers) :
          threadWorkers[i] = w /\ threadWorkers' = RemoveAt(threadWorkers, i)
  BY DEF LeavePool
<1>3. "return" \in Steps /\ w \in Actors
  BY ActorFacts DEF Steps
<1>4. /\ pc[w] = "idle" /\ pc'[w] = "return" /\ pc' \in [Actors -> Steps]
      /\ \A u \in Actors \ {w} : pc'[u] = pc[u]
  BY <1>1, <1>3, GoFacts DEF IInv
<1>5. /\ flagRunning /\ ~threads[w].stop /\ ~threads[w].signal
      /\ running[w] = Nobody /\ w \notin Looking
  BY <1>1, <1>4, IdleFacts
<1>6. /\ threadWorkers \in Seq(Workers) /\ IsInjective(threadWorkers)
      /\ Len(threadWorkers) \in Nat /\ Len(threadWorkers) <= Limit
  BY DEF IInv, Types, WorkersInv
<1>7. /\ threadWorkers' \in Seq(Workers) /\ Len(threadWorkers') = Len(threadWorkers) - 1
      /\ Range(threadWorkers') = Range(threadWorkers) \ {w} /\ IsInjective(threadWorkers')
  BY <1>2, <1>6, RemoveFacts
<1>8. Types' /\ TasksInv'
  BY <1>1, <1>4, <1>7 DEF IInv, Types, TasksInv
<1>9. LockInv'
  BY <1>1, <1>3, LockKept DEF ReleaseSteps
<1>10. WorkersInv'
  <2>1. Len(threadWorkers') <= Limit
    BY <1>6, <1>7, LimitFacts
  <2>2. \A k \in Workers : pc'[k] \notin {"off", "return"} => k \in Range(threadWorkers')
    BY <1>4, <1>7, WorkerFacts, ActorFacts
  <2>3. \A k \in Workers : running'[k] # Nobody => pc'[k] \in CallSteps \cup {"task"}
    BY <1>1, <1>4, <1>5, WorkerFacts, ActorFacts
  <2>4. UNCHANGED Limit
    BY DEF Limit
  <2> QED BY <2>1, <2>2, <2>3, <2>4, <1>7 DEF WorkersInv
<1>11. ReleaseInv'
  BY <1>1, <1>9, NobodyReleases
<1>12. SleepersInv'
  BY <1>1, <1>3, <1>5, SleepersKept DEF WaitSteps
<1>13. QuietInv'
  BY <1>1, <1>5 DEF QuietInv
<1>14. StrandInv'
  BY <1>1, <1>3, <1>5, StrandKept
<1> QED BY <1>8, <1>9, <1>10, <1>11, <1>12, <1>13, <1>14 DEF IInv

LEMMA GoToSleepStep == ASSUME IInv, NEW w \in Workers, GoToSleep(w) PROVE IInv'
<1>1. /\ holder = Nobody /\ Go(w, "idle", "wait") /\ threadSleeping' = Append(threadSleeping, w)
      /\ UNCHANGED <<flagRunning, holder, threadWorkers, tasks, limits, threads, running, at,
                     left, unserved>>
  BY DEF GoToSleep, LockFree, history
<1>2. "wait" \in Steps /\ "wait" \in WaitSteps /\ w \in Actors
  BY ActorFacts DEF Steps, WaitSteps
<1>3. /\ pc[w] = "idle" /\ pc'[w] = "wait" /\ pc' \in [Actors -> Steps]
      /\ \A u \in Actors \ {w} : pc'[u] = pc[u]
  BY <1>1, <1>2, GoFacts DEF IInv
<1>4. /\ flagRunning /\ ~threads[w].stop /\ ~threads[w].signal
      /\ running[w] = Nobody /\ w \notin Looking /\ w \notin Range(threadSleeping)
  BY <1>1, <1>3, IdleFacts
<1>5. /\ threadSleeping' \in Seq(Workers) /\ IsInjective(threadSleeping')
      /\ Range(threadSleeping') = Range(threadSleeping) \cup {w}
  <2>1. threadSleeping \in Seq(Workers) /\ IsInjective(threadSleeping)
    BY DEF IInv, Types, SleepersInv
  <2> QED BY <2>1, <1>1, <1>4, AppendFacts
<1>6. Types' /\ TasksInv'
  BY <1>1, <1>3, <1>5 DEF IInv, Types, TasksInv
<1>7. LockInv'
  BY <1>1, <1>2, LockKept DEF ReleaseSteps
<1>8. WorkersInv'
  BY <1>1, <1>2, <1>4, WorkersKept
<1>9. ReleaseInv'
  BY <1>1, <1>7, NobodyReleases
<1>10. SleepersInv'
  <2>1. \A k \in Workers : k # w => (pc'[k] \in WaitSteps <=> pc[k] \in WaitSteps)
    BY <1>3, ActorFacts
  <2>2. \A k \in Workers : ~threads'[k].stop
    BY <1>1, <1>4, WorkerFacts
  <2>3. \A k \in Workers : threads'[k].signal => pc'[k] \in WaitSteps
    BY <2>1, <1>1, <1>2, <1>3, <1>4, WorkerFacts
  <2>4. Range(threadSleeping) = {k \in Workers : pc[k] \in WaitSteps /\ ~threads[k].signal}
    BY <1>4 DEF IInv, SleepersInv, SleepersExact
  <2>5. Range(threadSleeping') = {k \in Workers : pc'[k] \in WaitSteps /\ ~threads'[k].signal}
    BY <2>1, <2>4, <1>1, <1>2, <1>3, <1>4, <1>5
  <2> QED BY <2>2, <2>3, <2>5, <1>5 DEF SleepersInv, SleepersExact
<1>11. QuietInv'
  BY <1>1, <1>4 DEF QuietInv
<1>12. StrandInv'
  BY <1>1, <1>2, <1>4, StrandKept
<1> QED BY <1>6, <1>7, <1>8, <1>9, <1>10, <1>11, <1>12 DEF IInv

LEMMA ReleaseStep == ASSUME IInv, NEW a \in Actors, Release(a) PROVE IInv'
<1>1. /\ holder = Nobody /\ flagRunning /\ flagRunning' = FALSE /\ holder' = a /\ at' = 1
      /\ Go(a, "release", "finish")
      /\ UNCHANGED <<threadWorkers, threadSleeping, tasks, limits, threads, running, left, unserved>>
  BY DEF Release, LockFree, history
<1>2. "finish" \in Steps /\ "finish" \in ReleaseSteps /\ "finish" \in CallSteps
  BY DEF Steps, CallSteps, ReleaseSteps
<1>3. pc[a] = "release" /\ pc'[a] = "finish" /\ pc' \in [Actors -> Steps]
      /\ \A u \in Actors \ {a} : pc'[u] = pc[u]
  BY <1>1, <1>2, GoFacts DEF IInv
<1>4. Types' /\ TasksInv'
  <2>1. holder' \in Actors \cup {Nobody} /\ at' \in Nat \ {0}
    BY <1>1
  <2>2. flagRunning' \in BOOLEAN
    BY <1>1, Zenon
  <2> QED BY <2>1, <2>2, <1>1, <1>3 DEF IInv, Types, TasksInv
<1>5. LockInv'
  BY <1>1, <1>2, LockTaken
<1>6. WorkersInv'
  BY <1>1, <1>2, WorkersKept
<1>7. ReleaseInv'
  <2>1. \A u \in Actors : pc[u] # "finishAndWait"
    BY <1>1 DEF IInv, LockInv, ReleaseSteps
  <2> QED BY <2>1, <1>3 DEF ReleaseInv
<1>8. SleepersInv'
  BY <1>1 DEF IInv, SleepersInv
<1>9. QuietInv' /\ StrandInv'
  BY <1>1, ActorFacts DEF QuietInv, StrandInv
<1> QED BY <1>4, <1>5, <1>6, <1>7, <1>8, <1>9 DEF IInv

\* A step of who releases the pool, which keeps the lock.
LEMMA ReleasingStep ==
    ASSUME IInv, NEW a \in Actors, NEW from \in ReleaseSteps, NEW to \in ReleaseSteps,
           pc[a] = from, pc' = [pc EXCEPT ![a] = to],
           UNCHANGED <<pool, running, history>>, threads' \in Threads, at' \in Nat \ {0},
           to = "finishAndWait" => \A i \in 1 .. Len(threadWorkers) : i < at' =>
              threadWorkers[i] = a \/ pc[threadWorkers[i]] = "off"
    PROVE  IInv'
<1> USE DEF pool, history
<1>1. to \in Steps /\ to \in CallSteps /\ from \notin {"off", "return", "_wake"} /\ to # "_wake"
  BY DEF Steps, CallSteps, ReleaseSteps
<1>2. Go(a, from, to)
  BY DEF Go
<1>3. pc' \in [Actors -> Steps] /\ pc'[a] = to /\ \A u \in Actors \ {a} : pc'[u] = pc[u]
  BY <1>1, <1>2, GoFacts DEF IInv
<1>4. ~flagRunning /\ holder = a
  BY DEF IInv, LockInv
<1>5. Types' /\ TasksInv'
  <2>1. /\ threads' \in Threads /\ at' \in Nat \ {0}
        /\ UNCHANGED <<flagRunning, holder, threadWorkers, threadSleeping, tasks, limits, running,
                       left, unserved>>
    OBVIOUS
  <2> QED BY <2>1, <1>3 DEF IInv, Types, TasksInv
<1>6. LockInv'
  BY <1>1, <1>2, LockKept
<1>7. WorkersInv'
  BY <1>1, <1>2, WorkersKept
<1>8. ReleaseInv'
  <2>1. \A u \in Actors : pc'[u] = "finishAndWait" => u = a
    BY <1>3, <1>4 DEF IInv, LockInv, ReleaseSteps
  <2>2. to = "finishAndWait" => \A i \in 1 .. Len(threadWorkers) : i < at' =>
            threadWorkers[i] = a \/ pc'[threadWorkers[i]] = "off"
    <3>1. \A i \in 1 .. Len(threadWorkers) : threadWorkers[i] \in Actors
      BY ActorFacts DEF IInv, Types
    <3> QED BY <3>1, <1>3
  <2> QED BY <2>1, <2>2, <1>3 DEF ReleaseInv
<1>9. SleepersInv'
  BY <1>4 DEF IInv, SleepersInv
<1>10. QuietInv' /\ StrandInv'
  BY <1>4, ActorFacts DEF QuietInv, StrandInv
<1> QED BY <1>5, <1>6, <1>7, <1>8, <1>9, <1>10 DEF IInv

\* What Thread::finish and Thread::wake leave of the types.
LEMMA CurrentFacts ==
    ASSUME IInv
    PROVE  /\ ~AtEnd => Current \in Workers /\ at \in 1 .. Len(threadWorkers)
           /\ RequestStop \/ WakeThread \/ UNCHANGED threads => threads' \in Threads
<1>1. /\ threadWorkers \in Seq(Workers) /\ at \in Nat \ {0} /\ Len(threadWorkers) \in Nat
      /\ threads \in Threads
  BY DEF IInv, Types
<1>2. ~AtEnd => at \in 1 .. Len(threadWorkers)
  BY <1>1 DEF AtEnd
<1>3. ~AtEnd => Current \in Workers
  BY <1>1, <1>2 DEF Current
<1>4. \A w \in Workers : threads[w] \in [stop : BOOLEAN, waiting : BOOLEAN, signal : BOOLEAN]
  BY <1>1 DEF Threads
<1>5. RequestStop => threads' \in Threads
  BY <1>1, <1>4 DEF RequestStop, Threads
<1>6. WakeThread => threads' \in Threads
  <2> DEFINE sig == threads[Current].signal \/ threads[Current].waiting
  <2>1. sig \in BOOLEAN
    OBVIOUS
  <2>2. WakeThread => threads' = [threads EXCEPT ![Current].signal = sig]
    BY DEF WakeThread
  <2> HIDE DEF sig
  <2> QED BY <1>1, <1>4, <2>1, <2>2 DEF Threads
<1> QED BY <1>1, <1>2, <1>3, <1>5, <1>6

LEMMA FinishSteps ==
    ASSUME IInv, NEW a \in Actors, Finish(a) \/ FinishWake(a) \/ FinishedAll(a) PROVE IInv'
<1>1. at \in Nat \ {0} /\ threads \in Threads /\ pc \in [Actors -> Steps]
  BY DEF IInv, Types
<1>2. {"finish", "finishWake", "finishAndWait"} \subseteq ReleaseSteps
  BY DEF ReleaseSteps
<1>3. UNCHANGED <<pool, running, history>>
  BY DEF Finish, FinishWake, FinishedAll
<1>4. CASE Finish(a)
  <2>1. threads' \in Threads
    BY <1>1, <1>4, CurrentFacts DEF Finish
  <2>2. CASE Go(a, "finish", "finishWake") /\ UNCHANGED at
    <3>1. pc[a] = "finish" /\ pc' = [pc EXCEPT ![a] = "finishWake"] /\ at' \in Nat \ {0}
      BY <2>2, <1>1 DEF Go
    <3> QED BY <3>1, <2>1, <1>2, <1>3, ReleasingStep
  <2>3. CASE pc[a] = "finish" /\ pc' = pc /\ at' = at + 1
    <3>1. pc[a] = "finish" /\ pc' = [pc EXCEPT ![a] = "finish"] /\ at' \in Nat \ {0}
      BY <2>3, <1>1
    <3> QED BY <3>1, <2>1, <2>3, <1>1, <1>2, <1>3, ReleasingStep
  <2> QED BY <2>2, <2>3, <1>4 DEF Finish
<1>5. CASE FinishWake(a)
  <2>1. Go(a, "finishWake", "finish") /\ WakeThread /\ at' = at + 1
    BY <1>5 DEF FinishWake
  <2>2. threads' \in Threads /\ at' \in Nat \ {0}
    BY <2>1, <1>1, CurrentFacts
  <2> QED BY <2>1, <2>2, <1>1, <1>2, <1>3, ReleasingStep DEF Go
<1>6. CASE FinishedAll(a)
  <2>1. Go(a, "finish", "finishAndWait") /\ at' = 1 /\ UNCHANGED threads
    BY <1>6 DEF FinishedAll
  <2>2. at' \in Nat \ {0} /\ threads' \in Threads /\ \A i \in 1 .. Len(threadWorkers) : ~ (i < at')
    BY <2>1, <1>1
  <2> QED BY <2>1, <2>2, <1>1, <1>2, <1>3, ReleasingStep DEF Go
<1> QED BY <1>4, <1>5, <1>6

LEMMA FinishAndWaitStep == ASSUME IInv, NEW a \in Actors, FinishAndWait(a) PROVE IInv'
<1>1. at \in Nat \ {0} /\ threads \in Threads /\ pc \in [Actors -> Steps]
  BY DEF IInv, Types
<1>2. "finishAndWait" \in ReleaseSteps
  BY DEF ReleaseSteps
<1>3. pc[a] = "finishAndWait" /\ pc' = [pc EXCEPT ![a] = "finishAndWait"]
      /\ UNCHANGED <<pool, running, history>> /\ ~AtEnd
  BY <1>1 DEF FinishAndWait
<1>4. \A i \in 1 .. Len(threadWorkers) : i < at => threadWorkers[i] = a \/ pc[threadWorkers[i]] = "off"
  BY <1>3 DEF IInv, ReleaseInv
<1>5. CASE WakeThread /\ at' = at
  <2>1. threads' \in Threads /\ at' \in Nat \ {0}
    BY <1>1, <1>5, CurrentFacts
  <2> QED BY <2>1, <1>2, <1>3, <1>4, <1>5, ReleasingStep
<1>6. CASE ~WaitFor(Current, a) /\ at' = at + 1 /\ UNCHANGED threads
  <2>1. threads' \in Threads /\ at' \in Nat \ {0}
    BY <1>1, <1>6
  <2>2. Current = a \/ pc[Current] = "off"
    BY <1>6 DEF WaitFor, IsRunning
  <2>3. \A i \in 1 .. Len(threadWorkers) : i < at' => i < at \/ i = at
    BY <1>1, <1>6
  <2>4. \A i \in 1 .. Len(threadWorkers) : i < at' => threadWorkers[i] = a \/ pc[threadWorkers[i]] = "off"
    BY <2>2, <2>3, <1>4 DEF Current
  <2> QED BY <2>1, <2>4, <1>2, <1>3, ReleasingStep
<1> QED BY <1>5, <1>6 DEF FinishAndWait

\* release returns: who is left of the workers had left the pool before, or released it.
LEMMA ReleasedStep == ASSUME IInv, NEW a \in Actors, Released(a) PROVE IInv'
<1> DEFINE o == Outside(a)
<1>1. /\ AtEnd /\ holder' = Nobody /\ Go(a, "finishAndWait", o)
      /\ UNCHANGED <<flagRunning, threadWorkers, threadSleeping, tasks, limits, threads, running,
                     at, left, unserved>>
  BY DEF Released, Return, history
<1>2. o \in Steps /\ o \in {"outside", "task"} /\ (a \in Workers => o = "task")
  BY ReturnFacts
<1> HIDE DEF o
<1>3. /\ pc[a] = "finishAndWait" /\ pc'[a] = o /\ pc' \in [Actors -> Steps]
      /\ \A u \in Actors \ {a} : pc'[u] = pc[u]
  BY <1>1, <1>2, GoFacts DEF IInv
<1>4. ~flagRunning /\ holder = a
  BY <1>3 DEF IInv, LockInv, ReleaseSteps
<1>5. Types' /\ TasksInv'
  BY <1>1, <1>3 DEF IInv, Types, TasksInv
<1>6. LockInv'
  BY <1>1, <1>2, <1>4, LockGiven DEF ReleaseSteps
<1>7. WorkersInv'
  <2>1. a \in Workers => running'[a] = Nobody \/ o \in CallSteps \cup {"task"}
    BY <1>2
  <2> QED BY <2>1, <1>1, <1>2, WorkersKept
<1>8. ReleaseInv'
  BY <1>1, <1>6, NobodyReleases
<1>9. SleepersInv' /\ StrandInv'
  BY <1>1, <1>4 DEF IInv, SleepersInv, StrandInv
<1>10. \A w \in Workers : w # a => pc[w] \in {"off", "return"}
  <2> SUFFICES ASSUME NEW w \in Workers, w # a, pc[w] \notin {"off", "return"} PROVE FALSE
    OBVIOUS
  <2>1. threadWorkers \in Seq(Workers) /\ at \in Nat
    BY DEF IInv, Types
  <2>2. w \in Range(threadWorkers)
    BY WorkerFacts
  <2>3. PICK i \in 1 .. Len(threadWorkers) : threadWorkers[i] = w
    BY <2>1, <2>2, RangeFacts
  <2>4. i < at
    BY <2>1, <1>1 DEF AtEnd
  <2> QED BY <2>3, <2>4, <1>3 DEF IInv, ReleaseInv
<1>11. QuietInv'
  <2>1. \A w \in Workers : pc'[w] \in {"off", "return"} \/ (w = a /\ pc'[w] = "task")
    BY <1>2, <1>3, <1>10, ActorFacts
  <2> QED BY <2>1 DEF QuietInv
<1> QED BY <1>5, <1>6, <1>7, <1>8, <1>9, <1>11 DEF IInv

-----------------------------------------------------------------------------
(* The theorems                                                            *)

LEMMA InitIInv == Init => IInv
<1> SUFFICES ASSUME Init PROVE IInv
  OBVIOUS
<1> USE DEF Init
<1>1. /\ pc \in [Actors -> Steps] /\ \A w \in Workers : pc[w] = "off"
      /\ \A a \in Actors : pc[a] \in {"outside", "off"}
  BY ConstantsAssumption DEF Steps, Actors
<1>2. threads \in Threads /\ \A w \in Workers : ~threads[w].stop /\ ~threads[w].signal
  BY DEF NewThread, Threads
<1>3. Range(<<>>) = {} /\ IsInjective(<<>>)
  BY DEF Range, IsInjective
<1>4. Types
  BY <1>1, <1>2 DEF Types
<1>5. TasksInv /\ LockInv
  BY <1>1, <1>3, ActorFacts DEF TasksInv, LockInv, ReleaseSteps
<1>6. WorkersInv
  BY <1>1, <1>3, LimitFacts DEF WorkersInv
<1>7. SleepersInv
  BY <1>1, <1>2, <1>3 DEF SleepersInv, SleepersExact, WaitSteps
<1>8. ReleaseInv /\ QuietInv /\ StrandInv
  BY <1>1, <1>3 DEF ReleaseInv, QuietInv, StrandInv
<1> QED BY <1>4, <1>5, <1>6, <1>7, <1>8 DEF IInv

LEMMA NextIInv == IInv /\ [Next]_vars => IInv'
<1> SUFFICES ASSUME IInv, [Next]_vars PROVE IInv'
  OBVIOUS
<1>1. CASE UNCHANGED vars
  BY <1>1 DEF vars, IInv, Types, TasksInv, LockInv, WorkersInv, Limit, SleepersInv, SleepersExact,
              ReleaseInv, QuietInv, StrandInv, Looking
<1>2. ASSUME NEW a \in Actors, Call(a) \/ SetLimits(a) \/ Acquire(a) PROVE IInv'
  BY <1>2, CallStep, SetLimitsStep, AddTaskStep, RefusedStep, WakeStep, ReleaseStep DEF Acquire
<1>3. ASSUME NEW a \in Actors, Proceed(a) PROVE IInv'
  BY <1>3, WakeSleepingStep, StartWorkerStep, WakeNobodyStep, FinishSteps, FinishAndWaitStep,
     ReleasedStep DEF Proceed
<1>4. ASSUME NEW w \in Workers, Work(w) PROVE IInv'
  BY <1>4, WhileStep, TakeTaskStep, NoTaskStep, WaitStep, EventSteps, EndThreadStep DEF Work
<1>5. ASSUME NEW w \in Workers, Rest(w) \/ EndTask(w) PROVE IInv'
  BY <1>5, LeavePoolStep, GoToSleepStep, EndTaskStep DEF Rest
<1> QED BY <1>1, <1>2, <1>3, <1>4, <1>5 DEF Next

\* A set of workers that are in the list has no more elements than the list.
LEMMA ListBound ==
    ASSUME NEW s \in Seq(Workers), NEW S \in SUBSET Range(s)
    PROVE  IsFiniteSet(S) /\ Cardinality(S) <= Len(s)
<1>1. Len(s) \in Nat /\ s \in [1 .. Len(s) -> Range(s)]
  BY DEF Range
<1>2. s \in Surjection(1 .. Len(s), Range(s))
  BY <1>1, RangeFacts DEF Surjection
<1>3. IsFiniteSet(1 .. Len(s)) /\ Cardinality(1 .. Len(s)) = Len(s)
  <2>1. 1 \in Int /\ Len(s) \in Int
    BY <1>1
  <2>2. Cardinality(1 .. Len(s)) = IF 1 > Len(s) THEN 0 ELSE Len(s) - 1 + 1
    BY <2>1, FS_Interval
  <2>3. Cardinality(1 .. Len(s)) = Len(s)
    BY <2>2, <1>1
  <2> QED BY <2>1, <2>3, FS_Interval
<1>4. IsFiniteSet(Range(s)) /\ Cardinality(Range(s)) <= Len(s)
  BY <1>2, <1>3, FS_Surjection
<1>5. IsFiniteSet(S) /\ Cardinality(S) <= Cardinality(Range(s))
  BY <1>4, FS_Subset
<1>6. Cardinality(S) \in Nat /\ Cardinality(Range(s)) \in Nat
  BY <1>4, <1>5, FS_CardinalityType
<1> QED BY <1>1, <1>4, <1>5, <1>6

\* The invariant gives what the runs check.
LEMMA IInvLimit == IInv => LimitKept
<1> SUFFICES ASSUME IInv PROVE LimitKept
  OBVIOUS
<1> DEFINE R == {w \in Workers : running[w] # Nobody}
<1>1. threadWorkers \in Seq(Workers) /\ Len(threadWorkers) \in Nat /\ Len(threadWorkers) <= Limit
  BY DEF IInv, Types, WorkersInv
<1>2. R \subseteq Range(threadWorkers)
  BY WorkerFacts DEF CallSteps
<1>3. IsFiniteSet(R) /\ Cardinality(R) <= Len(threadWorkers)
  BY <1>1, <1>2, ListBound
<1>4. Cardinality(R) \in Nat
  BY <1>3, FS_CardinalityType
<1>5. Cardinality(R) <= Limit
  BY <1>1, <1>3, <1>4, LimitFacts
<1> QED BY <1>5 DEF LimitKept, Limit

LEMMA IInvQuiet == IInv => ReleasedIsQuiet
<1> SUFFICES ASSUME IInv, ~flagRunning, LockFree
             PROVE  /\ \A w \in Workers : pc[w] \notin WaitSteps \cup {"_processTask", "idle", "woken"}
                    /\ Cardinality({w \in Workers : pc[w] \notin {"off", "return"}}) <= 1
  BY DEF ReleasedIsQuiet
<1> DEFINE G == {w \in Workers : pc[w] \notin {"off", "return"}}
<1>1. PICK a \in Actors : \A w \in Workers :
          pc[w] \in {"off", "return"} \/ (w = a /\ pc[w] \in {"task", "while", "addTask", "wake", "release"})
  BY DEF LockFree, IInv, QuietInv
<1>2. \A w \in Workers : pc[w] \notin WaitSteps \cup {"_processTask", "idle", "woken"}
  BY <1>1 DEF WaitSteps
<1>3. G \subseteq {a}
  BY <1>1
<1>4. IsFiniteSet({a}) /\ Cardinality({a}) = 1
  BY FS_Singleton
<1>5. Cardinality(G) <= Cardinality({a})
  BY <1>3, <1>4, FS_Subset
<1>6. Cardinality(G) <= 1
  BY <1>4, <1>5
<1> QED BY <1>2, <1>6

LEMMA IInvImplies == IInv => Inv /\ OnlyUnservedStranded /\ ReleasedIsQuiet
<1> SUFFICES ASSUME IInv PROVE Inv /\ OnlyUnservedStranded
  BY IInvQuiet
<1>1. TypeOK
  BY DEF IInv, Types, Threads, Steps, TasksInv, WorkersInv, SleepersInv, TypeOK
<1>2. SleepersExact
  BY DEF IInv, SleepersInv, SleepersExact
<1>3. OnlyUnservedStranded
  BY DEF IInv, StrandInv, OnlyUnservedStranded
<1> QED BY <1>1, <1>2, <1>3, IInvLimit DEF Inv

\* The inductive invariant: who has the lock, which workers are listed, who sleeps, and for
\* which tasks nobody looks.
THEOREM Invariance == Spec => []IInv
<1>1. Init => IInv
  BY InitIInv
<1>2. IInv /\ [Next]_vars => IInv'
  BY NextIInv
<1> QED BY <1>1, <1>2, PTL DEF Spec

\* No more tasks run at a time than the largest limit allows, and the list of the sleeping
\* workers is exact, whatever the limits, the callers and the workers.
THEOREM LimitAndSleepers == Spec => []Inv
<1>1. IInv => Inv
  BY IInvImplies
<1> QED BY <1>1, Invariance, PTL

\* A task that nobody is on the way to was added after a worker was last woken or started.
THEOREM NoneStranded == Spec => []OnlyUnservedStranded
<1>1. IInv => OnlyUnservedStranded
  BY IInvImplies
<1> QED BY <1>1, Invariance, PTL

\* When release has returned no worker takes a task or waits, and one goes on at most.
THEOREM QuietAfterRelease == Spec => []ReleasedIsQuiet
<1>1. IInv => ReleasedIsQuiet
  BY IInvImplies
<1> QED BY <1>1, Invariance, PTL
=============================================================================
