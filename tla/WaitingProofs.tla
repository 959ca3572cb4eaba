--------------------------- MODULE WaitingProofs ---------------------------
(***************************************************************************)
(* The safety of the two primitive ways to wait, for any number of threads *)
(* and semaphores and any lengths of sleep: timer_sleep, whose threads the *)
(* timer's handler wakes (Alarm), and sema_down, whose threads sema_up     *)
(* wakes (Semaphores).  For each an inductive invariant beside that of     *)
(* Threads, the proof that every step is a step of Threads, and the        *)
(* theorems.  The two systems share no variable but those of Threads.      *)
(***************************************************************************)
EXTENDS Alarm, Semaphores, ThreadsProofs, FiniteSetTheorems

-----------------------------------------------------------------------------
(* The timer: the inductive invariant.                                     *)

\* The types of the timer's variables.
TimerTypes ==
  /\ ticks \in 0..MaxTicks
  /\ sleep_list \in Seq(Thread)
  /\ wakeup_tick \in [Thread -> Nat]
  /\ in_timer \in BOOLEAN

\* A list of threads without repetitions, in the order of their ticks.
Sorted(q, w) == \A i, j \in 1..Len(q) : i < j => w[q[i]] <= w[q[j]]

\* The threads that wait are those on sleep_list.
Sleepers ==
  /\ IsInjective(sleep_list)
  /\ \A t \in Thread : pc[t] = "waiting" <=> t \in ToSet(sleep_list)
  /\ Sorted(sleep_list, wakeup_tick)

\* Nobody on the list is overdue, and while the timer's handler runs the
\* threads that are due are the ones it has still to wake.
NotOverdue ==
  /\ in_timer => k.in_external_intr
  /\ \A t \in ToSet(sleep_list) :
       IF in_timer THEN wakeup_tick[t] >= ticks ELSE wakeup_tick[t] > ticks

\* A queued thread of higher priority than the running one is on its way to the
\* CPU: the running thread has lowered its own priority, or created that
\* thread, or is idle(), and yields next; or a handler has asked for a yield.
Pending ==
  \A u \in Thread :
    Queued(k, u) /\ k.priority[u] > k.priority[k.current] =>
      \/ pc[k.current] \in {"set_priority"} \cup IdlePc
      \/ pc[k.current] = "created" /\ u = arg[k.current]
      \/ k.in_external_intr /\ k.yield_on_return

\* The thread that will be the idle thread has been created with PRI_MIN.
LowestIdle == \A t \in Thread : pc[t] = "idle" => k.priority[t] = 0

AlarmInv == TimerTypes /\ Sleepers /\ NotOverdue /\ Pending /\ LowestIdle

-----------------------------------------------------------------------------
(* The order of sleep_list.                                                *)

\* Inserting a thread in the order of the wake-up ticks.
LEMMA InsertFacts ==
  ASSUME NEW q \in Seq(Thread), NEW t \in Thread, NEW w \in [Thread -> Nat],
         IsInjective(q), Sorted(q, w), t \notin ToSet(q)
  PROVE  LET r == InsertOrdered(q, t, w) IN
         /\ r \in Seq(Thread)
         /\ ToSet(r) = ToSet(q) \cup {t}
         /\ IsInjective(r)
         /\ Sorted(r, w)
<1> DEFINE n == Len(q)
           I == {i \in 1..n + 1 : i = n + 1 \/ w[t] < w[q[i]]}
           m == Min(I)
           r == InsertOrdered(q, t, w)
           u == SubSeq(q, 1, m - 1)
           v == SubSeq(q, m, n)
<1>1. /\ DOMAIN q = 1..n /\ n \in Nat
      /\ \A i \in 1..n : q[i] \in Thread /\ w[q[i]] \in Nat /\ q[i] \in ToSet(q)
      /\ w[t] \in Nat
      /\ n = Len(q)
  BY ToSetFacts
<1>2. I \subseteq Nat /\ I # {}
  <2>1. n + 1 \in 1..n + 1
    BY <1>1
  <2> HIDE DEF n
  <2>2. n + 1 \in I
    BY <2>1
  <2> QED BY <1>1, <2>2
<1>3. m \in I /\ \A i \in I : m <= i
  BY <1>2, MinExists
<1>4. /\ m \in 1..n + 1
      /\ m <= n => w[t] < w[q[m]]
      /\ \A i \in 1..n : i < m => w[q[i]] <= w[t]
  <2>1. ASSUME NEW i \in 1..n, i < m
        PROVE  w[q[i]] <= w[t]
    <3>1. i \notin I
      BY <1>1, <1>3, <2>1
    <3>2. ~(w[t] < w[q[i]])
      BY <1>1, <2>1, <3>1
    <3> QED BY <1>1, <3>2
  <2>2. m \in 1..n + 1 /\ (m = n + 1 \/ w[t] < w[q[m]])
    BY <1>3
  <2> HIDE DEF m
  <2> QED BY <1>1, <2>1, <2>2
<1>5. r = u \o <<t>> \o v
  BY DEF InsertOrdered, InsertAt
<1> HIDE DEF m, I, r, n
<1>6. /\ u \in Seq(Thread) /\ Len(u) = m - 1
      /\ \A i \in 1..m - 1 : u[i] = q[i]
  <2>1. \A i \in 1..m - 1 : q[i] \in Thread
    BY <1>1, <1>4
  <2>2. /\ u \in Seq(Thread) /\ Len(u) = IF 1 <= m - 1 THEN (m - 1) - 1 + 1 ELSE 0
        /\ \A i \in 1..(m - 1) - 1 + 1 : u[i] = q[1 + i - 1]
    <3>1. 1 \in Int /\ m - 1 \in Int
      BY <1>1, <1>4
    <3> QED BY <2>1, <3>1, SubSeqProperties
  <2> HIDE DEF u
  <2> QED BY <1>1, <1>4, <2>2
<1>7. /\ v \in Seq(Thread) /\ Len(v) = n + 1 - m
      /\ \A i \in 1..n + 1 - m : v[i] = q[m + i - 1]
  <2>1. (\A i \in m..n : q[i] \in Thread) /\ m \in Int /\ n \in Int
    BY <1>1, <1>4
  <2>2. /\ v \in Seq(Thread)
        /\ Len(v) = IF m <= n THEN n - m + 1 ELSE 0
        /\ \A i \in 1..n - m + 1 : v[i] = q[m + i - 1]
    BY <2>1, SubSeqProperties
  <2> HIDE DEF v
  <2>3. n - m + 1 = n + 1 - m /\ (~(m <= n) => n + 1 - m = 0)
    BY <1>1, <1>4
  <2> QED BY <2>2, <2>3
<1> HIDE DEF u, v
<1> DEFINE x == u \o <<t>>
<1>8. /\ x \in Seq(Thread) /\ Len(x) = m
      /\ \A i \in 1..m : x[i] = IF i < m THEN q[i] ELSE t
  <2>1. <<t>> \in Seq(Thread) /\ Len(<<t>>) = 1 /\ <<t>>[1] = t
    OBVIOUS
  <2>2. /\ x \in Seq(Thread) /\ Len(x) = Len(u) + 1
        /\ \A i \in 1..Len(u) + 1 : x[i] = IF i <= Len(u) THEN u[i] ELSE <<t>>[i - Len(u)]
    BY <1>6, <2>1, ConcatProperties
  <2> HIDE DEF x
  <2>3. Len(u) + 1 = m /\ \A i \in 1..m : (i <= Len(u) <=> i < m) /\ (~(i < m) => i - Len(u) = 1)
    BY <1>4, <1>6
  <2>4. \A i \in 1..m : i < m => u[i] = q[i]
    BY <1>4, <1>6
  <2> QED BY <2>1, <2>2, <2>3, <2>4
<1> HIDE DEF x
<1>9. /\ r \in Seq(Thread) /\ Len(r) = n + 1 /\ DOMAIN r = 1..n + 1
      /\ \A i \in 1..n + 1 : r[i] = IF i < m THEN q[i] ELSE IF i = m THEN t ELSE q[i - 1]
  <2>1. r = x \o v
    BY <1>5 DEF x
  <2>2. /\ r \in Seq(Thread) /\ Len(r) = Len(x) + Len(v)
        /\ \A i \in 1..Len(x) + Len(v) : r[i] = IF i <= Len(x) THEN x[i] ELSE v[i - Len(x)]
    BY <1>7, <1>8, <2>1, ConcatProperties
  <2>3. Len(x) + Len(v) = n + 1
    BY <1>1, <1>4, <1>7, <1>8
  <2>4. ASSUME NEW i \in 1..n + 1
        PROVE  r[i] = IF i < m THEN q[i] ELSE IF i = m THEN t ELSE q[i - 1]
    <3>1. CASE i <= m
      BY <1>4, <1>8, <2>2, <2>3, <2>4, <3>1
    <3>2. CASE ~(i <= m)
      <4>1. i - m \in 1..n + 1 - m /\ m + (i - m) - 1 = i - 1 /\ ~(i < m) /\ i # m
        <5>1. i \in Int /\ m \in Int /\ n \in Int /\ i <= n + 1
          BY <1>1, <1>4, <2>4
        <5> HIDE DEF m, n
        <5> QED BY <3>2, <5>1
      <4>2. v[i - m] = q[i - 1]
        BY <1>7, <4>1
      <4> QED BY <1>8, <2>2, <2>3, <2>4, <3>2, <4>1, <4>2
    <3> QED BY <3>1, <3>2
  <2> QED BY <2>2, <2>3, <2>4
<1> DEFINE f(i) == IF i < m THEN i ELSE i - 1
<1>10. \A i \in 1..n + 1 : i # m => f(i) \in 1..n /\ r[i] = q[f(i)]
  BY <1>1, <1>4, <1>9
<1>11. /\ \A i, j \in 1..n + 1 : i # m /\ j # m /\ f(i) = f(j) => i = j
       /\ \A i, j \in 1..n + 1 : i # m /\ j # m /\ i < j => f(i) < f(j)
       /\ r[m] = t /\ m \in 1..n + 1
  <2>1. r[m] = t /\ m \in 1..n + 1 /\ m \in Nat
    BY <1>1, <1>4, <1>9
  <2> QED BY <1>1, <2>1
<1>12. ToSet(r) = ToSet(q) \cup {t}
  <2>1. ASSUME NEW y PROVE y \in ToSet(r) <=> y \in ToSet(q) \/ y = t
    <3>1. y \in ToSet(r) <=> \E i \in 1..n + 1 : r[i] = y
      BY <1>9, ToSetFacts
    <3>2. y \in ToSet(q) <=> \E i \in 1..n : q[i] = y
      BY <1>1, ToSetFacts
    <3>3. \A i \in 1..n : \E j \in 1..n + 1 : r[j] = q[i]
      <4>1. TAKE i \in 1..n
      <4>2. CASE i < m
        <5>1. i \in 1..n + 1 /\ r[i] = q[i]
          BY <1>1, <1>9, <4>2
        <5> QED BY <5>1
      <4>3. CASE ~(i < m)
        <5>1. i + 1 \in 1..n + 1 /\ ~(i + 1 < m) /\ i + 1 # m /\ (i + 1) - 1 = i
          BY <1>1, <1>4, <4>3
        <5>2. r[i + 1] = q[i]
          BY <1>9, <5>1
        <5> QED BY <5>1, <5>2
      <4> QED BY <4>2, <4>3
    <3>4. \A i \in 1..n + 1 : r[i] = t \/ \E j \in 1..n : r[i] = q[j]
      <4> HIDE DEF f
      <4> QED BY <1>10, <1>11
    <3> QED BY <1>11, <3>1, <3>2, <3>3, <3>4
  <2> QED BY <2>1
<1>13. IsInjective(r)
  <2>1. SUFFICES ASSUME NEW i \in 1..n + 1, NEW j \in 1..n + 1, r[i] = r[j]
                 PROVE  i = j
    BY <1>9 DEF IsInjective
  <2>2. \A l \in 1..n : q[l] # t
    BY <1>1
  <2> HIDE DEF f
  <2>3. CASE i = m \/ j = m
    BY <1>10, <1>11, <2>1, <2>2, <2>3
  <2>4. CASE i # m /\ j # m
    <3>1. f(i) = f(j)
      BY <1>1, <1>10, <2>1, <2>4 DEF IsInjective
    <3> QED BY <1>11, <2>4, <3>1
  <2> QED BY <2>3, <2>4
<1>14. Sorted(r, w)
  <2>1. SUFFICES ASSUME NEW i \in 1..n + 1, NEW j \in 1..n + 1, i < j
                 PROVE  w[r[i]] <= w[r[j]]
    BY <1>9 DEF Sorted
  <2>2. \A a, b \in 1..n : a <= b => w[q[a]] <= w[q[b]]
    BY <1>1 DEF Sorted
  <2>3. CASE i # m /\ j # m
    <3>1. f(i) \in 1..n /\ f(j) \in 1..n /\ f(i) < f(j)
          /\ r[i] = q[f(i)] /\ r[j] = q[f(j)]
      BY <1>10, <1>11, <2>1, <2>3
    <3> HIDE DEF f
    <3>2. f(i) <= f(j)
      BY <1>1, <3>1
    <3> QED BY <2>2, <3>1, <3>2
  <2>4. CASE i = m
    <3>1. j - 1 \in 1..n /\ m <= j - 1 /\ r[j] = q[j - 1] /\ m <= n
      BY <1>1, <1>4, <1>9, <2>1, <2>4
    <3>2. m \in 1..n /\ w[q[m]] <= w[q[j - 1]] /\ w[t] < w[q[m]]
      BY <1>1, <1>4, <2>2, <3>1
    <3>3. w[t] <= w[q[j - 1]]
      BY <1>1, <3>1, <3>2
    <3> QED BY <1>11, <2>4, <3>1, <3>3
  <2>5. CASE j = m
    <3>1. i \in 1..n /\ i < m /\ r[i] = q[i]
      BY <1>1, <1>4, <1>9, <2>1, <2>5
    <3> QED BY <1>4, <1>11, <2>5, <3>1
  <2> QED BY <2>3, <2>4, <2>5
<1> QED BY <1>9, <1>12, <1>13, <1>14 DEF r

\* Taking the head off a sorted list: nobody behind it is due before it.
LEMMA HeadFacts ==
  ASSUME NEW q \in Seq(Thread), NEW w \in [Thread -> Nat],
         IsInjective(q), Sorted(q, w), q # << >>
  PROVE  /\ Head(q) \in ToSet(q) /\ Head(q) \in Thread
         /\ \A t \in ToSet(q) : w[Head(q)] <= w[t]
         /\ Tail(q) \in Seq(Thread)
         /\ ToSet(Tail(q)) = ToSet(q) \ {Head(q)}
         /\ IsInjective(Tail(q))
         /\ Sorted(Tail(q), w)
<1> DEFINE r == Tail(q)
<1>1. /\ r \in Seq(Thread) /\ Len(r) = Len(q) - 1 /\ Len(q) \in Nat \ {0}
      /\ \A i \in 1..Len(q) - 1 : r[i] = q[i + 1]
      /\ Head(q) = q[1] /\ Head(q) \in Thread
  BY HeadTailProperties
<1>2. /\ Head(q) \in ToSet(q)
      /\ ToSet(r) = ToSet(q) \ {Head(q)}
      /\ IsInjective(r)
  BY TailFacts
<1>3. \A t \in ToSet(q) : w[Head(q)] <= w[t]
  <2>1. ASSUME NEW i \in 1..Len(q) PROVE w[q[1]] <= w[q[i]]
    <3>1. 1 \in 1..Len(q) /\ w[q[1]] \in Nat
      BY <1>1
    <3>2. CASE i = 1
      BY <3>1, <3>2
    <3>3. CASE i # 1
      <4>1. 1 < i
        BY <1>1, <3>3
      <4> QED BY <3>1, <4>1 DEF Sorted
    <3> QED BY <3>2, <3>3
  <2> QED BY <1>1, <2>1, ToSetFacts
<1>4. Sorted(r, w)
  <2> HIDE DEF r
  <2> SUFFICES ASSUME NEW i \in 1..Len(r), NEW j \in 1..Len(r), i < j
               PROVE  w[r[i]] <= w[r[j]]
    BY DEF Sorted
  <2>1. i + 1 \in 1..Len(q) /\ j + 1 \in 1..Len(q) /\ i + 1 < j + 1
    BY <1>1
  <2> QED BY <1>1, <2>1 DEF Sorted
<1> QED BY <1>1, <1>2, <1>3, <1>4

-----------------------------------------------------------------------------
(* Every step is one of Threads.                                           *)

\* The first sleeper, when there is one.
LEMMA FirstSleeper ==
  ASSUME IInv, AlarmInv, sleep_list # << >>
  PROVE  LET u == Head(sleep_list) IN
         /\ u \in Thread /\ u \in ToSet(sleep_list)
         /\ pc[u] = "waiting" /\ k.status[u] = "blocked"
         /\ u # k.current /\ u # k.idle_thread
         /\ \A t \in ToSet(sleep_list) : t \in Thread /\ wakeup_tick[u] <= wakeup_tick[t]
         /\ Tail(sleep_list) \in Seq(Thread)
         /\ ToSet(Tail(sleep_list)) = ToSet(sleep_list) \ {u}
         /\ IsInjective(Tail(sleep_list))
         /\ Sorted(Tail(sleep_list), wakeup_tick)
<1> DEFINE u == Head(sleep_list)
<1>1. /\ sleep_list \in Seq(Thread) /\ wakeup_tick \in [Thread -> Nat]
      /\ IsInjective(sleep_list) /\ Sorted(sleep_list, wakeup_tick)
  BY DEF AlarmInv, TimerTypes, Sleepers
<1>2. /\ u \in Thread /\ u \in ToSet(sleep_list)
      /\ \A t \in ToSet(sleep_list) : wakeup_tick[u] <= wakeup_tick[t]
      /\ Tail(sleep_list) \in Seq(Thread)
      /\ ToSet(Tail(sleep_list)) = ToSet(sleep_list) \ {u}
      /\ IsInjective(Tail(sleep_list))
      /\ Sorted(Tail(sleep_list), wakeup_tick)
  BY <1>1, HeadFacts
<1>3. ToSet(sleep_list) \subseteq Thread
  BY <1>1, ToSetFacts
<1>4. pc[u] = "waiting"
  BY <1>2 DEF AlarmInv, Sleepers
<1>5. k.status[u] = "blocked" /\ u # k.current /\ u # k.idle_thread
  BY <1>2, <1>4, IInvFacts, PlaceFacts DEF IInv, PcInv, PlacesInv, IdlePc
<1> QED BY <1>2, <1>3, <1>4, <1>5

\* A step of the alarm clock is a step of the threads.
LEMMA AlarmStepIsThreads ==
  ASSUME IInv, AlarmInv, AlarmNext
  PROVE  Next
<1>1. CASE WakeFirst
  <2>1. Head(sleep_list) \in Thread /\ pc[Head(sleep_list)] = "waiting"
    BY <1>1, FirstSleeper DEF WakeFirst, SomeoneDue
  <2>2. IntrUnblock(Head(sleep_list))
    BY <1>1, <2>1 DEF WakeFirst, IntrUnblock
  <2> QED BY <2>1, <2>2 DEF Next, Interrupt
<1>2. CASE Boot
  BY <1>2 DEF Next
<1>3. ASSUME NEW t \in Thread, OtherStep(t) \/ timer_sleep(t)
      PROVE  Next
  BY <1>3 DEF Next, ThreadStep, OtherStep, timer_sleep
<1>4. CASE TimerEnter \/ TimerEnd \/ OtherInterrupt
  BY <1>4 DEF Next, Interrupt, TimerEnter, TimerEnd, OtherInterrupt
<1> QED BY <1>1, <1>2, <1>3, <1>4 DEF AlarmNext, timer_interrupt

-----------------------------------------------------------------------------
(* The sleepers.                                                           *)

\* The steps of the module that are not about the clock: they neither put a
\* thread to sleep nor wake one, and fall outside the timer's handler.
QuietStep ==
  /\ \/ Boot
     \/ \E t \in Thread : OtherStep(t)
     \/ IntrEnter
     \/ ~in_timer /\ DeviceReturn
  /\ UNCHANGED timerVars

\* What such a step does to the places.
LEMMA QuietMoves ==
  ASSUME IInv, AlarmInv, QuietStep
  PROVE  /\ ~in_timer
         /\ \A u \in Thread : pc'[u] = "waiting" <=> pc[u] = "waiting"
<1>1. CASE PlainStep
  <2>1. \A u \in Thread : pc'[u] = "waiting" <=> pc[u] = "waiting"
    BY <1>1, PlainMoves
  <2>2. ~in_timer
    BY DEF AlarmInv, NotOverdue, QuietStep, Boot, thread_start, CreateThread,
           StartThread, YieldToArg, WaitForIdle, OtherStep, thread_create, idle,
           IdleBegins, IdleUps, IdleBlocks, Yield, thread_set_priority,
           ChangePriority, YieldIfHigher, Exit, IntrEnter, Interruptible, Runs
  <2> QED BY <2>1, <2>2
<1>2. ASSUME NEW t \in Thread, Exit(t)
      PROVE  ~in_timer /\ \A u \in Thread : pc'[u] = "waiting" <=> pc[u] = "waiting"
  BY <1>2 DEF Exit, Goto, Runs, AlarmInv, NotOverdue, IInv, PcInv
<1> QED BY <1>1, <1>2 DEF QuietStep, OtherStep, PlainStep

\* The part of the invariant that is about the sleepers.
SleepInv == TimerTypes /\ Sleepers /\ NotOverdue

\* A quiet step leaves the sleepers and the clock alone.
LEMMA QuietSleep ==
  ASSUME IInv, AlarmInv, QuietStep
  PROVE  SleepInv'
<1>1. /\ ticks' = ticks /\ sleep_list' = sleep_list
      /\ wakeup_tick' = wakeup_tick /\ in_timer' = in_timer
      /\ ~in_timer
      /\ \A u \in Thread : pc'[u] = "waiting" <=> pc[u] = "waiting"
  BY QuietMoves DEF QuietStep, timerVars
<1>2. TimerTypes'
  BY <1>1 DEF AlarmInv, TimerTypes
<1>3. Sleepers'
  BY <1>1 DEF AlarmInv, Sleepers
<1>4. NotOverdue'
  BY <1>1 DEF AlarmInv, NotOverdue
<1> QED BY <1>2, <1>3, <1>4 DEF SleepInv

\* timer_sleep.
LEMMA SleepsInOrder ==
  ASSUME IInv, AlarmInv, NEW t \in Thread, timer_sleep(t)
  PROVE  SleepInv'
<1>1. PICK n \in Sleeps :
        n > 0 /\ wakeup_tick' = [wakeup_tick EXCEPT ![t] = ticks + n]
  BY DEF timer_sleep
<1>2. /\ ticks \in Nat /\ ticks + n \in Nat /\ ticks + n > ticks
      /\ ticks' = ticks /\ in_timer' = in_timer
      /\ MaxTicks \in Nat /\ ticks \in 0..MaxTicks
      /\ wakeup_tick \in [Thread -> Nat]
      /\ sleep_list \in Seq(Thread)
      /\ IsInjective(sleep_list) /\ Sorted(sleep_list, wakeup_tick)
  BY <1>1, AlarmAssumption DEF timer_sleep, AlarmInv, TimerTypes, Sleepers
<1>3. /\ wakeup_tick' \in [Thread -> Nat]
      /\ wakeup_tick'[t] = ticks + n
      /\ \A u \in Thread \ {t} : wakeup_tick'[u] = wakeup_tick[u]
  BY <1>1, <1>2
<1>4. /\ ~k.in_external_intr /\ pc[t] = "run" /\ ~in_timer
      /\ pc' = [pc EXCEPT ![t] = "waiting"] /\ pc \in [Thread -> Location]
  BY DEF timer_sleep, Block, Runs, Goto, AlarmInv, NotOverdue, IInv, PcInv
<1>5. t \notin ToSet(sleep_list)
  BY <1>4 DEF AlarmInv, Sleepers
<1>6. ToSet(sleep_list) \subseteq Thread
  BY <1>2, ToSetFacts
<1>7. Sorted(sleep_list, wakeup_tick')
  <2>1. \A i \in 1..Len(sleep_list) : sleep_list[i] \in Thread \ {t}
    BY <1>2, <1>5, ToSetFacts
  <2> QED BY <1>2, <1>3, <2>1 DEF Sorted
<1>8. /\ sleep_list' \in Seq(Thread)
      /\ ToSet(sleep_list') = ToSet(sleep_list) \cup {t}
      /\ IsInjective(sleep_list')
      /\ Sorted(sleep_list', wakeup_tick')
  <2>1. sleep_list' = InsertOrdered(sleep_list, t, wakeup_tick')
    BY DEF timer_sleep, SleepInsert
  <2> QED BY <1>2, <1>3, <1>5, <1>7, <2>1, InsertFacts
<1>9. TimerTypes'
  BY <1>2, <1>3, <1>4, <1>8 DEF AlarmInv, TimerTypes
<1>10. Sleepers'
  BY <1>4, <1>8 DEF AlarmInv, Sleepers
<1>11. NotOverdue'
  <2>1. (\A u \in ToSet(sleep_list) : wakeup_tick[u] > ticks)
    BY <1>4 DEF AlarmInv, NotOverdue
  <2>2. \A u \in ToSet(sleep_list') : wakeup_tick'[u] > ticks
    BY <1>2, <1>3, <1>5, <1>6, <1>8, <2>1
  <2> QED BY <1>2, <1>4, <2>2 DEF NotOverdue
<1> QED BY <1>9, <1>10, <1>11 DEF SleepInv

\* The clock ticks: those due now are due at this very tick.
LEMMA TimerEnters ==
  ASSUME IInv, AlarmInv, TimerEnter
  PROVE  SleepInv'
<1>1. /\ ticks \in 0..MaxTicks /\ MaxTicks \in Nat /\ ticks' = ticks + 1
      /\ ticks < MaxTicks
      /\ in_timer' = TRUE /\ sleep_list' = sleep_list /\ wakeup_tick' = wakeup_tick
      /\ pc' = pc /\ k' = intr_enter(k) /\ ~k.in_external_intr /\ ~in_timer
      /\ wakeup_tick \in [Thread -> Nat] /\ sleep_list \in Seq(Thread)
  BY AlarmAssumption DEF TimerEnter, IntrEnter, Interruptible, AlarmInv, TimerTypes, NotOverdue
<1>2. k'.in_external_intr
  BY <1>1, InterruptSound DEF IInv
<1>3. ToSet(sleep_list) \subseteq Thread
  BY <1>1, ToSetFacts
<1>4. TimerTypes' /\ Sleepers'
  BY <1>1 DEF AlarmInv, TimerTypes, Sleepers
<1>5. NotOverdue'
  <2>1. \A t \in ToSet(sleep_list) : wakeup_tick[t] > ticks /\ wakeup_tick[t] \in Nat
    BY <1>1, <1>3 DEF AlarmInv, NotOverdue
  <2>2. \A t \in ToSet(sleep_list) : wakeup_tick[t] >= ticks + 1
    BY <1>1, <2>1
  <2> QED BY <1>1, <1>2, <2>2 DEF NotOverdue
<1> QED BY <1>4, <1>5 DEF SleepInv

\* Waking the first sleeper.
LEMMA FirstWakes ==
  ASSUME IInv, AlarmInv, WakeFirst
  PROVE  /\ SleepInv'
         /\ wakeup_tick[Head(sleep_list)] = ticks
         /\ k'.in_external_intr /\ k'.current = k.current
<1> DEFINE u == Head(sleep_list)
           r == Tail(sleep_list)
<1>1. /\ u \in Thread /\ u \in ToSet(sleep_list) /\ pc[u] = "waiting"
      /\ u # k.idle_thread /\ k.status[u] = "blocked"
      /\ r \in Seq(Thread) /\ ToSet(r) = ToSet(sleep_list) \ {u}
      /\ IsInjective(r) /\ Sorted(r, wakeup_tick)
  BY FirstSleeper DEF WakeFirst, SomeoneDue
<1> HIDE DEF r
<1>2. /\ sleep_list' = r /\ ticks' = ticks /\ wakeup_tick' = wakeup_tick
      /\ in_timer /\ in_timer' = in_timer
      /\ pc' = [pc EXCEPT ![u] = "run"] /\ pc \in [Thread -> Location]
      /\ k.in_external_intr
  BY DEF WakeFirst, InHandler, Goto, IInv, PcInv, r
<1>3. wakeup_tick[u] = ticks
  <2>1. wakeup_tick[u] >= ticks /\ wakeup_tick[u] <= ticks
    BY <1>1, <1>2 DEF AlarmInv, NotOverdue, WakeFirst, SomeoneDue
  <2>2. wakeup_tick[u] \in Nat /\ ticks \in Nat
    BY <1>1, AlarmAssumption DEF AlarmInv, TimerTypes
  <2> QED BY <2>1, <2>2
<1>4. k'.in_external_intr /\ k'.current = k.current
  <2> DEFINE y == thread_unblock(k, u)
  <2>1. Sound(y) /\ y = [k EXCEPT !.status = y.status, !.ready_queues = y.ready_queues]
    BY <1>1, UnblockSound DEF IInv
  <2>2. k' = y \/ k' = intr_yield_on_return(y)
    BY DEF WakeFirst
  <2> HIDE DEF y
  <2>3. y.in_external_intr = k.in_external_intr /\ y.current = k.current
    BY <2>1, IInvFacts DEF KernelState
  <2>4. /\ intr_yield_on_return(y).in_external_intr = y.in_external_intr
        /\ intr_yield_on_return(y).current = y.current
    BY <2>1, InterruptSound
  <2> QED BY <1>2, <2>2, <2>3, <2>4
<1>5. TimerTypes'
  BY <1>1, <1>2 DEF AlarmInv, TimerTypes
<1>6. Sleepers'
  BY <1>1, <1>2 DEF AlarmInv, Sleepers
<1>7. NotOverdue'
  BY <1>1, <1>2, <1>4 DEF AlarmInv, NotOverdue
<1> QED BY <1>3, <1>4, <1>5, <1>6, <1>7 DEF SleepInv

\* The handler stops at the first sleeper that is not due: none is.
LEMMA TimerEnds ==
  ASSUME IInv, AlarmInv, TimerEnd
  PROVE  SleepInv'
<1>1. /\ sleep_list' = sleep_list /\ ticks' = ticks /\ wakeup_tick' = wakeup_tick
      /\ ~in_timer' /\ in_timer' \in BOOLEAN /\ in_timer
      /\ sleep_list \in Seq(Thread)
      /\ wakeup_tick \in [Thread -> Nat] /\ ticks \in 0..MaxTicks /\ MaxTicks \in Nat
  BY AlarmAssumption DEF TimerEnd, AlarmInv, TimerTypes
<1>2. \A u \in Thread : pc'[u] = "waiting" <=> pc[u] = "waiting"
  BY PlainMoves DEF TimerEnd, PlainStep
<1>3. \A t \in ToSet(sleep_list) : wakeup_tick[t] > ticks
  <2>1. CASE sleep_list = << >>
    BY <2>1, EmptyList
  <2>2. CASE sleep_list # << >>
    <3>1. /\ Head(sleep_list) \in Thread
          /\ \A t \in ToSet(sleep_list) :
               t \in Thread /\ wakeup_tick[Head(sleep_list)] <= wakeup_tick[t]
      BY <2>2, FirstSleeper
    <3>2. wakeup_tick[Head(sleep_list)] > ticks
      BY <1>1, <2>2, <3>1 DEF TimerEnd, SomeoneDue
    <3> QED BY <1>1, <3>1, <3>2
  <2> QED BY <2>1, <2>2
<1>4. TimerTypes'
  BY <1>1 DEF AlarmInv, TimerTypes
<1>5. Sleepers'
  BY <1>1, <1>2 DEF AlarmInv, Sleepers
<1>6. NotOverdue'
  BY <1>1, <1>3 DEF NotOverdue
<1> QED BY <1>4, <1>5, <1>6 DEF SleepInv

-----------------------------------------------------------------------------
(* Priority scheduling.                                                    *)

\* No thread in the queues has a higher priority than the running one.
NobodyAbove(kk) ==
  \A u \in Thread : Queued(kk, u) => ~(kk.priority[u] > kk.priority[kk.current])

\* A switch leaves nobody behind.
LEMMA HighestNobody ==
  ASSUME NEW kk, Sound(kk), Highest(kk)
  PROVE  NobodyAbove(kk)
<1>1. \A u \in Thread : kk.priority[u] \in 0..PRI_MAX
  BY KernelTypes DEF Sound, Priority
<1>2. kk.current \in Thread /\ PRI_MAX \in Nat
  BY KernelTypes, SchedAssumption DEF Sound
<1> QED BY <1>1, <1>2 DEF Highest, NobodyAbove

\* After a yield, a block or an exit.
LEMMA SwitchNobody ==
  ASSUME NEW kk, Sound(kk)
  PROVE  /\ NobodyAbove(thread_yield(kk))
         /\ Runnable(kk) => NobodyAbove(thread_block(kk))
         /\ kk.idle_thread # NULL /\ kk.current # kk.idle_thread =>
              NobodyAbove(thread_exit(kk))
         /\ kk.yield_on_return => NobodyAbove(intr_return(kk))
<1>1. NobodyAbove(thread_yield(kk))
  BY YieldSound, HighestNobody
<1>2. Runnable(kk) => NobodyAbove(thread_block(kk))
  BY BlockSound, HighestNobody
<1>3. kk.idle_thread # NULL /\ kk.current # kk.idle_thread => NobodyAbove(thread_exit(kk))
  BY ExitSound, HighestNobody
<1>4. kk.yield_on_return => NobodyAbove(intr_return(kk))
  <2> DEFINE d == [kk EXCEPT !.in_external_intr = FALSE, !.yield_on_return = FALSE]
  <2>1. Sound(d)
    <3>1. d \in KernelState /\ d.current = kk.current /\ d.idle_thread = kk.idle_thread
          /\ d.status = kk.status /\ d.priority = kk.priority
          /\ d.ready_queues = kk.ready_queues
          /\ d.destruction_req = kk.destruction_req /\ d.panic = kk.panic
      BY DEF Sound, KernelState
    <3> HIDE DEF d
    <3> QED BY <3>1, SoundFrame
  <2>2. kk.yield_on_return => intr_return(kk) = thread_yield(d)
    BY DEF intr_return
  <2> HIDE DEF d
  <2> QED BY <2>1, <2>2, YieldSound, HighestNobody
<1> QED BY <1>1, <1>2, <1>3, <1>4

\* A thread that runs and owes no yield has nobody above it.
LEMMA NobodyBefore ==
  ASSUME Pending, NEW t \in Thread, NEW from, Runs(t, from),
         from \notin {"set_priority", "created"} \cup IdlePc
  PROVE  NobodyAbove(k)
BY DEF Pending, NobodyAbove, Runs

\* Nobody above the running thread: nothing is owed.
LEMMA NobodyPending ==
  ASSUME NobodyAbove(k')
  PROVE  Pending'
BY DEF NobodyAbove, Pending

\* Waking a thread queues that one only.
LEMMA WakeQueues ==
  ASSUME NEW kk, Sound(kk), NEW u \in Thread, kk.status[u] = "blocked",
         u # kk.idle_thread
  PROVE  LET k2 == thread_unblock(kk, u) IN
         /\ Sound(k2)
         /\ k2.current = kk.current /\ k2.priority = kk.priority
         /\ k2.in_external_intr = kk.in_external_intr
         /\ k2.yield_on_return = kk.yield_on_return
         /\ \A v \in Thread : Queued(k2, v) <=> Queued(kk, v) \/ v = u
<1> DEFINE k2 == thread_unblock(kk, u)
<1>1. /\ Sound(k2)
      /\ k2 = [kk EXCEPT !.status = k2.status, !.ready_queues = k2.ready_queues]
      /\ k2.status = [kk.status EXCEPT ![u] = "ready"]
  BY UnblockSound
<1> HIDE DEF k2
<1>2. /\ k2.current = kk.current /\ k2.priority = kk.priority
      /\ k2.in_external_intr = kk.in_external_intr
      /\ k2.yield_on_return = kk.yield_on_return
      /\ k2.idle_thread = kk.idle_thread
      /\ kk.status \in [Thread -> Status]
  BY <1>1 DEF Sound, KernelState
<1>3. \A v \in Thread : Queued(k2, v) <=> Queued(kk, v) \/ v = u
  BY <1>1, <1>2, QueuedReady
<1> QED BY <1>1, <1>2, <1>3 DEF k2

\* Allocating a thread queues nobody.
LEMMA CreatePending ==
  ASSUME IInv, Pending, NEW t \in Thread, NEW p \in Priority, NEW from, NEW to, NEW entry,
         CreateThread(t, from, to, p, entry), from \in {"run", "boot"}
  PROVE  Pending'
<1>1. PICK u \in Thread : k.status[u] = "free" /\ k' = init_thread(k, u, p)
  BY DEF CreateThread
<1>2. /\ Sound(k') /\ k'.current = k.current /\ k'.idle_thread = k.idle_thread
      /\ k'.status = [k.status EXCEPT ![u] = "blocked"]
  BY <1>1, InitThreadSound DEF IInv
<1>3. k'.priority = [k.priority EXCEPT ![u] = p]
  BY <1>1, IInvFacts DEF init_thread, KernelState
<1>4. NobodyAbove(k)
  BY NobodyBefore DEF CreateThread, IdlePc
<1>5. u # k.current /\ k.priority \in [Thread -> Priority]
  BY <1>1, IInvFacts, KernelTypes
<1>6. \A v \in Thread : Queued(k', v) => Queued(k, v) /\ v # u
  BY <1>2, IInvFacts, QueuedReady DEF IInv
<1>7. NobodyAbove(k')
  BY <1>2, <1>3, <1>4, <1>5, <1>6, IInvFacts DEF NobodyAbove
<1> QED BY <1>7, NobodyPending

\* Starting one queues the newborn thread only.
LEMMA StartPending ==
  ASSUME IInv, Pending, LowestIdle, NEW t \in Thread, NEW from, NEW to,
         StartThread(t, from, to),
         \/ from = "create" /\ to = "created"
         \/ from = "boot_create" /\ to = "boot_created" /\ t = initial_thread
  PROVE  Pending'
<1>1. /\ k.current = t /\ pc[t] = from /\ k' = thread_unblock(k, arg[t])
      /\ pc' = [pc EXCEPT ![t] = to] /\ arg' = arg /\ pc \in [Thread -> Location]
  BY DEF StartThread, Runs, Goto, IInv, PcInv
<1>2. /\ arg[t] \in Thread /\ k.status[arg[t]] = "blocked"
      /\ pc[arg[t]] \in {"run", "idle"}
  BY <1>1 DEF IInv, PcInv, NewbornInv
<1>3. arg[t] # k.idle_thread
  BY <1>2, PlaceFacts DEF IdlePc
<1>4. /\ Sound(k') /\ k'.current = k.current /\ k'.priority = k.priority
      /\ \A v \in Thread : Queued(k', v) <=> Queued(k, v) \/ v = arg[t]
  BY <1>1, <1>2, <1>3, WakeQueues DEF IInv
<1>5. NobodyAbove(k)
  BY NobodyBefore DEF StartThread, IdlePc
<1>6. CASE from = "create"
  BY <1>1, <1>4, <1>5, <1>6 DEF Pending, NobodyAbove
<1>7. CASE from = "boot_create"
  <2>1. pc[arg[t]] = "idle"
    <3>1. k.idle_thread = NULL /\ arg[t] # initial_thread
      BY <1>1, <1>2, <1>7, IInvFacts DEF IInv, PcInv, BootInv
    <3> QED BY <1>2, <3>1 DEF IInv, PcInv, BootInv
  <2>2. k.priority[arg[t]] = 0 /\ k.priority[t] \in 0..PRI_MAX /\ PRI_MAX \in Nat
    BY <1>2, <2>1, IInvFacts, KernelTypes, SchedAssumption DEF LowestIdle, Priority
  <2>3. ~(k.priority[arg[t]] > k.priority[t])
    BY <2>2
  <2>4. NobodyAbove(k')
    BY <1>1, <1>4, <1>5, <2>3 DEF NobodyAbove
  <2> QED BY <2>4, NobodyPending
<1> QED BY <1>6, <1>7

\* The yield at the end of thread_create.
LEMMA YieldToArgPending ==
  ASSUME IInv, Pending, NEW t \in Thread, NEW from, NEW to, YieldToArg(t, from, to),
         from \in {"created", "boot_created"} \/ to \in IdlePc
  PROVE  Pending'
<1>1. CASE Outranks(k, arg[t])
  <2>1. k' = thread_yield(k)
    BY <1>1 DEF YieldToArg, YieldTo
  <2> QED BY <2>1, SwitchNobody, NobodyPending DEF IInv
<1>2. CASE ~Outranks(k, arg[t])
  <2>1. /\ k' = k /\ k.current = t /\ pc[t] = from /\ ~k.in_external_intr
        /\ pc' = [pc EXCEPT ![t] = to] /\ pc \in [Thread -> Location]
    BY <1>2 DEF YieldToArg, YieldTo, Runs, Goto, IInv, PcInv
  <2>2. CASE to \in IdlePc
    BY <2>1, <2>2 DEF Pending
  <2>3. CASE from \in {"created", "boot_created"}
    <3>1. \A u \in Thread : Queued(k, u) => k.status[u] # "free"
      BY QueuedReady DEF IInv
    <3>2. \A u \in Thread : Queued(k, u) /\ u = arg[t] => ~(k.priority[u] > k.priority[t])
      BY <1>2, <2>1, <3>1, SchedAssumption DEF Outranks
    <3>3. NobodyAbove(k)
      BY <2>1, <2>3, <3>2 DEF Pending, NobodyAbove, IdlePc
    <3> QED BY <2>1, <3>3, NobodyPending
  <2> QED BY <2>2, <2>3
<1> QED BY <1>1, <1>2

\* Boot, idle() and the calls of a running thread.
LEMMA ThreadPending ==
  ASSUME IInv, Pending, LowestIdle,
         Boot \/ \E t \in Thread : OtherStep(t) \/ Block(t)
  PROVE  Pending'
<1>1. Sound(k) /\ initial_thread \in Thread /\ pc \in [Thread -> Location]
  BY IInvFacts DEF IInv, PcInv
<1>2. CASE Boot
  <2>1. CASE thread_start
    <3>1. 0 \in Priority
      BY SchedAssumption DEF Priority
    <3> QED BY <1>1, <2>1, <3>1, CreatePending, StartPending, YieldToArgPending
            DEF thread_start
  <2>2. ASSUME NEW from \in {"boot_down", "boot_recheck"}, WaitForIdle(from)
        PROVE  Pending'
    <3>1. Runs(initial_thread, from)
      BY <2>2 DEF WaitForIdle
    <3>2. CASE Available(idle_started)
      <4>1. NobodyAbove(k) /\ k' = k
        BY <1>1, <2>2, <3>1, <3>2, NobodyBefore DEF WaitForIdle, IdlePc
      <4> QED BY <4>1, NobodyPending
    <3>3. CASE ~Available(idle_started)
      <4>1. k' = thread_block(k) /\ Runnable(k)
        BY <2>2, <3>1, <3>3, BootRunnable DEF WaitForIdle, sema_wait
      <4> QED BY <1>1, <4>1, SwitchNobody, NobodyPending
    <3> QED BY <3>2, <3>3
  <2> QED BY <1>2, <2>1, <2>2 DEF Boot
<1>3. ASSUME NEW t \in Thread, OtherStep(t) \/ Block(t)
      PROVE  Pending'
  <2>1. CASE thread_create(t)
    BY <2>1, CreatePending, StartPending, YieldToArgPending, ThreadsAssumption
       DEF thread_create
  <2>2. CASE IdleBegins(t) \/ IdleUps(t)
    <3>1. pc'[k.current] \in IdlePc
      BY <1>1, <2>2, IInvFacts DEF IdleBegins, IdleUps, Goto, Runs, IdlePc
    <3>2. k'.current = k.current
      <4>1. CASE IdleBegins(t)
        BY <4>1, IInvFacts DEF IdleBegins, KernelState
      <4>2. CASE IdleUps(t)
        <5>1. k' = k \/ (k' = thread_unblock(k, initial_thread)
                         /\ idle_started.waiters = <<initial_thread>>)
          BY <4>2, WakeMain DEF IdleUps
        <5>2. idle_started.waiters = <<initial_thread>> =>
                 k.status[initial_thread] = "blocked" /\ initial_thread # k.idle_thread
          <6>1. idle_started.waiters = <<initial_thread>> => idle_started.waiters # << >>
            OBVIOUS
          <6>2. StartedInv
            BY DEF IInv, PcInv
          <6>3. idle_started.waiters = <<initial_thread>> =>
                  pc[initial_thread] = "boot_recheck" /\ k.status[initial_thread] = "blocked"
            BY <6>1, <6>2 DEF StartedInv
          <6> QED BY <1>1, <6>3, PlaceFacts DEF IdlePc
        <5> QED BY <1>1, <5>1, <5>2, WakeQueues
      <4> QED BY <2>2, <4>1, <4>2
    <3> QED BY <3>1, <3>2 DEF Pending
  <2>3. CASE YieldToArg(t, "idle_yield", "idle_loop")
    BY <2>3, YieldToArgPending DEF IdlePc
  <2>4. CASE IdleBlocks(t) \/ Block(t)
    <3>1. Runnable(k)
      BY <2>4, PlaceFacts, IInvFacts DEF Runnable, IdleBlocks, Block, Runs, BootPc
    <3>2. k' = thread_block(k)
      BY <2>4 DEF IdleBlocks, Block
    <3> QED BY <1>1, <3>1, <3>2, SwitchNobody, NobodyPending
  <2>5. CASE Yield(t)
    BY <1>1, <2>5, SwitchNobody, NobodyPending DEF Yield
  <2>6. CASE ChangePriority(t)
    <3>1. PICK p \in SetPriorities, donated \in BOOLEAN :
            k' = SetPriority(k, donated, p)
      BY <2>6 DEF ChangePriority
    <3>2. p \in Priority /\ k.current # k.idle_thread
      BY <2>6, PlaceFacts, IInvFacts, ThreadsAssumption
         DEF ChangePriority, Runs, IdlePc
    <3>3. k'.current = k.current
      BY <1>1, <3>1, <3>2, SetPrioritySound
    <3>4. pc'[k.current] = "set_priority"
      BY <1>1, <2>6, IInvFacts DEF ChangePriority, Runs, Goto
    <3> QED BY <3>3, <3>4 DEF Pending
  <2>7. CASE YieldIfHigher(t)
    <3>1. CASE has_higher_ready_thread(k)
      BY <1>1, <2>7, <3>1, SwitchNobody, NobodyPending DEF YieldIfHigher
    <3>2. CASE ~has_higher_ready_thread(k)
      <4>1. NobodyAbove(k) /\ k' = k
        BY <1>1, <2>7, <3>2, HigherReady DEF YieldIfHigher, NobodyAbove
      <4> QED BY <4>1, NobodyPending
    <3> QED BY <3>1, <3>2
  <2>8. CASE Exit(t)
    <3>1. k.idle_thread # NULL /\ k.current # k.idle_thread
      BY <2>8, PlaceFacts, IInvFacts DEF Exit, Runs, BootPc, IdlePc
    <3>2. k' = thread_exit(k)
      BY <2>8 DEF Exit
    <3> QED BY <1>1, <3>1, <3>2, SwitchNobody, NobodyPending
  <2> QED BY <1>3, <2>1, <2>2, <2>3, <2>4, <2>5, <2>6, <2>7, <2>8
          DEF OtherStep, idle, thread_set_priority
<1> QED BY <1>2, <1>3

\* Interrupts.
LEMMA InterruptPending ==
  ASSUME IInv, Pending, IntrEnter \/ DeviceReturn \/ TimerReturn
  PROVE  Pending'
<1>1. Sound(k) /\ pc \in [Thread -> Location] /\ k.current \in Thread
  BY IInvFacts DEF IInv, PcInv
<1>2. CASE IntrEnter
  <2>1. /\ k' = intr_enter(k) /\ pc' = pc /\ arg' = arg /\ ~k.in_external_intr
    BY <1>2 DEF IntrEnter, Interruptible
  <2>2. /\ k'.current = k.current /\ k'.priority = k.priority
        /\ k'.ready_queues = k.ready_queues
    BY <2>1, IInvFacts DEF intr_enter, KernelState
  <2>3. \A u : Queued(k', u) <=> Queued(k, u)
    BY <2>2 DEF Queued
  <2> QED BY <2>1, <2>2, <2>3 DEF Pending
<1>3. CASE DeviceReturn \/ TimerReturn
  <2>1. PICK r \in {k, thread_tick(k)} : k' = intr_return(r)
    BY <1>3 DEF DeviceReturn, TimerReturn
  <2>2. /\ Sound(r) /\ r.current = k.current /\ r.priority = k.priority
        /\ r.ready_queues = k.ready_queues
        /\ k.yield_on_return => r.yield_on_return
    <3>1. CASE r = k
      BY <1>1, <3>1
    <3>2. CASE r = thread_tick(k)
      <4>1. /\ Sound(r) /\ r.current = k.current
            /\ r.yield_on_return =
                 (k.yield_on_return \/ k.thread_ticks + 1 >= TIME_SLICE)
        BY <1>1, <3>2, InterruptSound
      <4>2. r.priority = k.priority /\ r.ready_queues = k.ready_queues
        BY <3>2, IInvFacts DEF thread_tick, KernelState
      <4>3. k.yield_on_return => r.yield_on_return
        BY <4>1, Zenon
      <4> QED BY <4>1, <4>2, <4>3
    <3> QED BY <3>1, <3>2
  <2>3. CASE r.yield_on_return
    BY <2>1, <2>2, <2>3, SwitchNobody, NobodyPending
  <2>4. CASE ~r.yield_on_return
    <3>1. /\ k'.current = k.current /\ k'.priority = k.priority
          /\ k'.ready_queues = k.ready_queues
      BY <2>1, <2>2, <2>4 DEF intr_return, Sound, KernelState
    <3>2. \A u : Queued(k', u) <=> Queued(k, u)
      BY <3>1 DEF Queued
    <3>3. pc'[k.current] = pc[k.current] \/
          (pc'[k.current] \in IdlePc /\ pc[k.current] \in IdlePc)
      BY <1>1, <1>3 DEF DeviceReturn, TimerReturn, AfterHalt, IdlePc
    <3>4. arg' = arg /\ ~k.yield_on_return
      BY <1>3, <2>2, <2>4 DEF DeviceReturn, TimerReturn
    <3> QED BY <3>1, <3>2, <3>3, <3>4 DEF Pending
  <2> QED BY <2>3, <2>4
<1> QED BY <1>2, <1>3

\* The timer's wake-ups: the handler asks for a yield when it must.
LEMMA WakePending ==
  ASSUME IInv, AlarmInv, WakeFirst
  PROVE  Pending'
<1> DEFINE u == Head(sleep_list)
           y == thread_unblock(k, u)
<1>1. /\ u \in Thread /\ k.status[u] = "blocked"
      /\ u # k.current /\ u # k.idle_thread
  BY FirstSleeper DEF WakeFirst, SomeoneDue
<1>2. /\ Sound(y) /\ y.current = k.current /\ y.priority = k.priority
      /\ y.in_external_intr = k.in_external_intr
      /\ y.yield_on_return = k.yield_on_return
      /\ \A v \in Thread : Queued(y, v) <=> Queued(k, v) \/ v = u
  BY <1>1, WakeQueues DEF IInv
<1>3. /\ k' = IF k.priority[u] > k.priority[k.current] THEN intr_yield_on_return(y) ELSE y
      /\ pc' = [pc EXCEPT ![u] = "run"] /\ arg' = arg /\ k.in_external_intr
      /\ pc \in [Thread -> Location] /\ Pending
  BY DEF WakeFirst, Goto, InHandler, IInv, PcInv, AlarmInv
<1> HIDE DEF y, u
<1>4. pc'[k.current] = pc[k.current]
  BY <1>1, <1>3
<1>5. CASE k.priority[u] > k.priority[k.current]
  <2>1. k' = intr_yield_on_return(y)
    BY <1>3, <1>5
  <2>2. k'.in_external_intr /\ k'.yield_on_return
    BY <1>2, <1>3, <2>1 DEF intr_yield_on_return, Sound, KernelState
  <2> QED BY <2>2 DEF Pending
<1>6. CASE ~(k.priority[u] > k.priority[k.current])
  <2>1. k' = y
    BY <1>3, <1>6
  <2> QED BY <1>2, <1>3, <1>4, <1>6, <2>1 DEF Pending
<1> QED BY <1>5, <1>6

\* The idle thread keeps the priority it was created with until it runs.
LEMMA IdleKept ==
  ASSUME IInv, LowestIdle,
         SamePriorities(k, k'),
         \A u \in Thread : pc'[u] = "idle" => pc[u] = "idle"
  PROVE  LowestIdle'
BY DEF LowestIdle, SamePriorities

\* Nobody else is given its place, and its priority is not changed there.
LEMMA LowestStep ==
  ASSUME IInv, LowestIdle,
         \/ Boot
         \/ \E t \in Thread : OtherStep(t) \/ Block(t)
         \/ Interrupt
  PROVE  LowestIdle'
<1>1. /\ Sound(k) /\ initial_thread \in Thread /\ pc \in [Thread -> Location]
      /\ k.priority \in [Thread -> Priority] /\ k.current \in Thread
      /\ k \in KernelState
  BY IInvFacts, KernelTypes DEF IInv, PcInv
<1>2. /\ SamePriorities(k, thread_block(k))
      /\ SamePriorities(k, thread_yield(k))
      /\ SamePriorities(k, thread_exit(k))
      /\ SamePriorities(k, thread_tick(k))
      /\ SamePriorities(k, intr_enter(k))
      /\ SamePriorities(k, intr_return(k))
      /\ SamePriorities(k, k)
      /\ \A u : /\ SamePriorities(k, thread_unblock(k, u))
                /\ SamePriorities(k, intr_yield_on_return(thread_unblock(k, u)))
  BY <1>1, PrioritiesKept DEF SamePriorities
<1>3. ASSUME NEW t \in Thread, NEW p \in Priority, NEW from, NEW to, NEW entry,
             CreateThread(t, from, to, p, entry),
             to \in {"create", "boot_create"},
             entry = "run" \/ p = 0
      PROVE  LowestIdle'
  <2>1. PICK u \in Thread : /\ k.status[u] = "free" /\ k' = init_thread(k, u, p)
                            /\ pc' = [pc EXCEPT ![t] = to, ![u] = entry]
    BY <1>3 DEF CreateThread
  <2>2. k'.priority = [k.priority EXCEPT ![u] = p]
    BY <1>1, <2>1 DEF init_thread, KernelState
  <2> QED BY <1>1, <1>3, <2>1, <2>2 DEF LowestIdle
<1>4. ASSUME NEW t \in Thread, NEW from, NEW to,
             StartThread(t, from, to) \/ YieldToArg(t, from, to), to # "idle"
      PROVE  LowestIdle'
  BY <1>1, <1>2, <1>4, IdleKept DEF StartThread, YieldToArg, YieldTo, Goto
<1>5. CASE Boot
  <2>1. 0 \in Priority
    BY SchedAssumption DEF Priority
  <2>2. ASSUME NEW from \in {"boot_down", "boot_recheck"}, WaitForIdle(from)
        PROVE  LowestIdle'
    <3>1. SamePriorities(k, k')
      BY <1>2, <2>2 DEF WaitForIdle, sema_wait
    <3>2. \A u \in Thread : pc'[u] = "idle" => pc[u] = "idle"
      BY <1>1, <2>2 DEF WaitForIdle, Goto
    <3> QED BY <3>1, <3>2, IdleKept
  <2> QED BY <1>1, <1>3, <1>4, <1>5, <2>1, <2>2 DEF Boot, thread_start
<1>6. ASSUME NEW t \in Thread, OtherStep(t) \/ Block(t)
      PROVE  LowestIdle'
  <2>1. CASE thread_create(t)
    BY <1>3, <1>4, <2>1, ThreadsAssumption DEF thread_create
  <2>2. CASE IdleBegins(t) \/ IdleUps(t) \/ IdleBlocks(t)
    <3>1. SamePriorities(k, k')
      <4>1. CASE IdleBegins(t)
        BY <1>1, <4>1 DEF IdleBegins, SamePriorities, KernelState
      <4>2. CASE IdleUps(t)
        <5>1. k' = k \/ k' = thread_unblock(k, initial_thread)
          BY <4>2, WakeMain DEF IdleUps
        <5> QED BY <1>2, <5>1
      <4>3. CASE IdleBlocks(t)
        BY <1>2, <4>3 DEF IdleBlocks
      <4> QED BY <2>2, <4>1, <4>2, <4>3
    <3>2. \A u \in Thread : pc'[u] = "idle" => pc[u] = "idle"
      BY <1>1, <2>2 DEF IdleBegins, IdleUps, IdleBlocks, Goto
    <3> QED BY <3>1, <3>2, IdleKept
  <2>3. CASE YieldToArg(t, "idle_yield", "idle_loop")
    BY <1>4, <2>3
  <2>4. CASE Yield(t) \/ Block(t) \/ YieldIfHigher(t) \/ Exit(t)
    <3>1. SamePriorities(k, k')
      BY <1>2, <2>4 DEF Yield, Block, YieldIfHigher, Exit
    <3>2. \A u \in Thread : pc'[u] = "idle" => pc[u] = "idle"
      BY <1>1, <2>4 DEF Yield, Block, YieldIfHigher, Exit, Goto
    <3> QED BY <3>1, <3>2, IdleKept
  <2>5. CASE ChangePriority(t)
    <3>1. PICK p \in SetPriorities, donated \in BOOLEAN :
            k' = SetPriority(k, donated, p)
      BY <2>5 DEF ChangePriority
    <3>2. \A u \in Thread \ {k.current} : k'.priority[u] = k.priority[u]
      BY <1>1, <3>1
         DEF SetPriority, thread_update_priority, list_push_back, list_remove, KernelState
    <3>3. pc' = [pc EXCEPT ![k.current] = "set_priority"]
      BY <2>5 DEF ChangePriority, Runs, Goto
    <3> QED BY <1>1, <3>2, <3>3 DEF LowestIdle
  <2> QED BY <1>6, <2>1, <2>2, <2>3, <2>4, <2>5
          DEF OtherStep, idle, thread_set_priority
<1>7. CASE Interrupt
  <2>1. SamePriorities(k, k')
    <3>1. CASE TimerReturn
      <4>1. Sound(thread_tick(k)) /\ SamePriorities(k, thread_tick(k))
        BY <1>1, <1>2, InterruptSound
      <4>2. SamePriorities(thread_tick(k), k')
        BY <3>1, <4>1, PrioritiesKept DEF TimerReturn
      <4> QED BY <4>1, <4>2 DEF SamePriorities
    <3>2. CASE IntrEnter \/ DeviceReturn \/ \E u \in Thread : IntrUnblock(u)
      BY <1>2, <3>2 DEF IntrEnter, DeviceReturn, IntrUnblock
    <3> QED BY <1>7, <3>1, <3>2 DEF Interrupt
  <2>2. \A u \in Thread : pc'[u] = "idle" => pc[u] = "idle"
    BY <1>1, <1>7
       DEF Interrupt, IntrEnter, DeviceReturn, TimerReturn, IntrUnblock, Goto, AfterHalt
  <2> QED BY <2>1, <2>2, IdleKept
<1> QED BY <1>5, <1>6, <1>7

-----------------------------------------------------------------------------
(* The theorems.                                                           *)

\* The clock starts with nobody asleep.
LEMMA AlarmInitInv ==
  ASSUME AlarmInit
  PROVE  IInv /\ AlarmInv
<1>1. IInv
  BY InitIInv DEF AlarmInit
<1>2. TimerTypes
  <2>1. << >> \in Seq(Thread) /\ 0 \in 0..MaxTicks /\ 0 \in Nat
    BY AlarmAssumption
  <2>2. ticks \in 0..MaxTicks /\ sleep_list \in Seq(Thread) /\ in_timer \in BOOLEAN
    BY <2>1 DEF AlarmInit
  <2>3. wakeup_tick \in [Thread -> Nat]
    BY <2>1 DEF AlarmInit
  <2> QED BY <2>2, <2>3 DEF TimerTypes
<1>3. Sleepers /\ NotOverdue
  BY EmptyList DEF AlarmInit, Init, Sleepers, NotOverdue, Sorted
<1>4. Pending
  <2>1. k.ready_queues = [p \in Priority |-> << >>]
    BY DEF AlarmInit, Init, thread_init
  <2>2. \A u : ~Contains(<< >>, u)
    BY DEF Contains
  <2>3. \A u : ~Queued(k, u)
    BY <2>1, <2>2 DEF Queued
  <2> QED BY <2>3 DEF Pending
<1>5. LowestIdle
  BY DEF AlarmInit, Init, LowestIdle
<1> QED BY <1>1, <1>2, <1>3, <1>4, <1>5 DEF AlarmInv

\* Every step is a step of Threads and keeps the invariants of both.
LEMMA AlarmNextInv ==
  ASSUME IInv, AlarmInv, [AlarmNext]_alarmVars
  PROVE  [Next]_vars /\ IInv' /\ AlarmInv'
<1>1. [Next]_vars
  BY AlarmStepIsThreads DEF alarmVars
<1>2. IInv'
  BY <1>1, NextIInv
<1>3. Pending /\ LowestIdle
  BY DEF AlarmInv
<1>4. CASE UNCHANGED alarmVars
  <2>1. k' = k /\ pc' = pc /\ arg' = arg /\ ticks' = ticks /\ in_timer' = in_timer
        /\ sleep_list' = sleep_list /\ wakeup_tick' = wakeup_tick
    BY <1>4 DEF alarmVars, vars, timerVars
  <2>2. TimerTypes' /\ Sleepers' /\ NotOverdue'
    BY <2>1 DEF AlarmInv, TimerTypes, Sleepers, NotOverdue
  <2>3. Pending' /\ LowestIdle'
    BY <2>1 DEF AlarmInv, Pending, LowestIdle
  <2> QED BY <1>1, <1>2, <2>2, <2>3 DEF AlarmInv
<1>5. CASE AlarmNext
  <2>1. SleepInv'
    <3>1. CASE QuietStep
      BY <3>1, QuietSleep
    <3>2. QuietStep \/ timer_interrupt \/ \E t \in Thread : timer_sleep(t)
      BY <1>5 DEF AlarmNext, OtherInterrupt, QuietStep
    <3> QED BY <3>1, <3>2, SleepsInOrder, TimerEnters, FirstWakes, TimerEnds
            DEF timer_interrupt
  <2>2. \/ Boot
        \/ \E t \in Thread : OtherStep(t) \/ Block(t)
        \/ IntrEnter \/ DeviceReturn \/ TimerReturn
        \/ WakeFirst
    BY <1>5 DEF AlarmNext, OtherInterrupt, timer_interrupt, timer_sleep, TimerEnter, TimerEnd
  <2>3. Pending'
    BY <1>3, <2>2, ThreadPending, InterruptPending, WakePending
  <2>4. LowestIdle'
    <3>1. WakeFirst => Interrupt
      <4>1. SUFFICES ASSUME WakeFirst PROVE \E u \in Thread : IntrUnblock(u)
        BY DEF Interrupt
      <4>2. Head(sleep_list) \in Thread /\ pc[Head(sleep_list)] = "waiting"
        BY <4>1, FirstSleeper DEF WakeFirst, SomeoneDue
      <4> QED BY <4>1, <4>2 DEF WakeFirst, IntrUnblock
    <3>2. IntrEnter \/ DeviceReturn \/ TimerReturn => Interrupt
      BY DEF Interrupt
    <3> QED BY <1>3, <2>2, <3>1, <3>2, LowestStep
  <2> QED BY <1>1, <1>2, <2>1, <2>3, <2>4 DEF AlarmInv, SleepInv
<1> QED BY <1>4, <1>5

\* The invariants of the alarm clock hold for any number of threads, any
\* sleeping times and any number of ticks.
THEOREM AlarmInvariance == AlarmSpec => [](IInv /\ AlarmInv)
<1>1. IInv /\ AlarmInv /\ [AlarmNext]_alarmVars => (IInv /\ AlarmInv)'
  BY AlarmNextInv
<1>2. AlarmInit => IInv /\ AlarmInv
  BY AlarmInitInv
<1> QED BY <1>1, <1>2, PTL DEF AlarmSpec

\* The alarm clock waits and wakes only as Threads allows, so the theorems
\* about Threads hold of it.
THEOREM AlarmRefinesThreads == AlarmSpec => AlarmImplementsThreads
<1>1. AlarmInit => Init
  BY DEF AlarmInit
<1>2. IInv /\ AlarmInv /\ [AlarmNext]_alarmVars => [Next]_vars
  BY AlarmNextInv
<1> QED BY <1>1, <1>2, AlarmInvariance, PTL DEF AlarmSpec, Spec, AlarmImplementsThreads

\* sleep_list holds the sleeping threads, once each and in order, and nobody
\* on it is overdue outside the handler.
THEOREM SleepListIsExact == AlarmSpec => []SleepListExact
<1>1. ASSUME IInv, AlarmInv
      PROVE  SleepListExact
  <2>1. AlarmTypeOK
    BY <1>1 DEF IInv, Sound, PcInv, AlarmInv, TimerTypes, AlarmTypeOK, TypeOK
  <2>2. /\ sleep_list \in Seq(Thread) /\ ToSet(sleep_list) \subseteq Thread
        /\ DOMAIN sleep_list = 1..Len(sleep_list)
        /\ \A i \in DOMAIN sleep_list : sleep_list[i] \in ToSet(sleep_list)
    BY <1>1, ToSetFacts DEF AlarmInv, TimerTypes
  <2>3. \A t \in ToSet(sleep_list) : pc[t] = "waiting" /\ k.status[t] = "blocked"
    BY <1>1, <2>2 DEF AlarmInv, Sleepers, IInv, PcInv, PlacesInv
  <2>4. \A i \in DOMAIN sleep_list : k.status[sleep_list[i]] = "blocked"
    BY <2>2, <2>3
  <2>5. {t \in Thread : pc[t] = "waiting"} = ToSet(sleep_list)
    BY <1>1, <2>2 DEF AlarmInv, Sleepers
  <2>6. \A i, j \in DOMAIN sleep_list :
          i < j => wakeup_tick[sleep_list[i]] <= wakeup_tick[sleep_list[j]]
    BY <1>1, <2>2 DEF AlarmInv, Sleepers, Sorted
  <2>7. ~k.in_external_intr =>
          \A i \in DOMAIN sleep_list : wakeup_tick[sleep_list[i]] > ticks
    BY <1>1, <2>2 DEF AlarmInv, NotOverdue
  <2>8. IsInjective(sleep_list)
    BY <1>1 DEF AlarmInv, Sleepers
  <2> QED BY <2>1, <2>4, <2>5, <2>6, <2>7, <2>8 DEF SleepListExact
<1> QED BY <1>1, AlarmInvariance, PTL

\* A sleeper wakes at the tick it asked for, neither early nor late.
THEOREM WokenInTime == AlarmSpec => WokenOnTime
<1> DEFINE A == \A t \in Thread :
                  pc[t] = "waiting" /\ pc'[t] # "waiting" => wakeup_tick[t] = ticks
<1>1. ASSUME IInv, AlarmInv, AlarmNext
      PROVE  A
  <2>1. pc \in [Thread -> Location]
    BY <1>1 DEF IInv, PcInv
  <2>2. CASE QuietStep
    BY <1>1, <2>2, QuietMoves
  <2>3. ASSUME NEW t \in Thread, timer_sleep(t)
        PROVE  A
    BY <2>1, <2>3 DEF timer_sleep, Block, Goto
  <2>4. CASE TimerEnter \/ TimerEnd
    BY <1>1, <2>4, PlainMoves DEF PlainStep, TimerEnter, TimerEnd
  <2>5. CASE WakeFirst
    BY <1>1, <2>1, <2>5, FirstWakes DEF WakeFirst, Goto
  <2>6. \/ QuietStep \/ TimerEnter \/ TimerEnd \/ WakeFirst
        \/ \E t \in Thread : timer_sleep(t)
    BY <1>1 DEF AlarmNext, OtherInterrupt, QuietStep, timer_interrupt
  <2> HIDE DEF A
  <2> QED BY <2>2, <2>3, <2>4, <2>5, <2>6
<1>2. IInv /\ AlarmInv /\ [AlarmNext]_alarmVars => [A]_alarmVars
  BY <1>1
<1> QED BY <1>2, AlarmInvariance, PTL DEF AlarmSpec, WokenOnTime

\* A thread that is not about to yield never runs below a ready one.
THEOREM HighestAlwaysRuns == AlarmSpec => []HighestRuns
<1>1. ASSUME IInv, AlarmInv
      PROVE  HighestRuns
  <2> SUFFICES ASSUME ~k.in_external_intr, pc[k.current] = "run"
               PROVE  ~has_higher_ready_thread(k)
    BY DEF HighestRuns
  <2>1. \A u \in Thread : Queued(k, u) => ~(k.priority[u] > k.priority[k.current])
    BY <1>1 DEF AlarmInv, Pending, IdlePc
  <2> QED BY <1>1, <2>1, NobodyHigher DEF IInv
<1> QED BY <1>1, AlarmInvariance, PTL

-----------------------------------------------------------------------------
(* Semaphores: the inductive invariant.                                    *)

\* A thread in synch.c is awake there or asleep, and works on a semaphore
\* exactly while it is in sema_down.
SemaPlaces ==
  /\ \A t \in Thread : at[t] # "out" => pc[t] \in {"run", "waiting"}
  /\ \A t \in Thread : at[t] = "down" <=> on[t] # NULL
  /\ \A t \in Thread : at[t] # "out" /\ pc[t] = "run" => k.status[t] # "blocked"

\* The threads on the list of s are those that sleep in sema_down (s), once each.
SemaLists ==
  /\ \A s \in Sema : IsInjective(sema[s].waiters)
  /\ \A t \in Thread : pc[t] = "waiting" =>
       on[t] \in Sema /\ t \in Asleep(on[t])
  /\ \A s \in Sema : \A t \in Asleep(s) : pc[t] = "waiting" /\ on[t] = s

\* The types of the semaphores and of what their callers remember.
SemaTypes ==
  /\ sema \in [Sema -> Semaphore]
  /\ at \in [Thread -> {"out", "down", "up"}]
  /\ on \in [Thread -> Sema \cup {NULL}]
  /\ woken \in [Thread -> Thread \cup {NULL}]

\* Threads that were woken and have not looked at s yet, by their places.
Returning(s) == {t \in Thread : on[t] = s /\ pc[t] = "run"}

\* As long as a thread sleeps on s, every unit is owed to a returning one.
UnitsOwed ==
  \A s \in Sema :
    /\ IsFiniteSet(Returning(s))
    /\ sema[s].waiters # << >> => Cardinality(Returning(s)) >= sema[s].value

SemaInv ==
  /\ SemaTypes
  /\ SemaPlaces
  /\ SemaLists
  /\ UnitsOwed

-----------------------------------------------------------------------------
(* Consequences of the invariant.                                          *)

\* What the types say of one semaphore.
LEMMA SemaTypesFacts ==
  ASSUME SemaTypes, NEW s \in Sema
  PROVE  /\ sema[s] \in Semaphore
         /\ sema[s].value \in Nat
         /\ sema[s].waiters \in Seq(Thread)
         /\ sema[s] = [value |-> sema[s].value, waiters |-> sema[s].waiters]
         /\ s # NULL
         /\ Asleep(s) \subseteq Thread
         /\ sema[s].waiters = << >> <=> Asleep(s) = {}
<1>1. sema[s] \in Semaphore
  BY DEF SemaTypes
<1>2. sema[s].value \in Nat /\ sema[s].waiters \in Seq(Thread)
  BY <1>1 DEF Semaphore
<1>3. sema[s] = [value |-> sema[s].value, waiters |-> sema[s].waiters]
  BY <1>1 DEF Semaphore
<1> QED BY <1>1, <1>2, <1>3, ToSetFacts, SemaphoresAssumption DEF Asleep

\* The thread a sema_up would wake is asleep there.
LEMMA WaiterFacts ==
  ASSUME IInv, SemaInv, NEW s \in Sema
  PROVE  /\ Waiter(s) = NULL <=> Asleep(s) = {}
         /\ Waiter(s) # NULL =>
              /\ Waiter(s) \in Asleep(s)
              /\ Waiter(s) \in Thread
              /\ pc[Waiter(s)] = "waiting"
              /\ on[Waiter(s)] = s
              /\ at[Waiter(s)] = "down"
              /\ k.status[Waiter(s)] = "blocked"
              /\ \A t \in Asleep(s) : k.priority[t] <= k.priority[Waiter(s)]
<1>1. SemaTypes /\ SemaLists /\ SemaPlaces
  BY DEF SemaInv
<1>2. /\ Waiter(s) = NULL <=> sema[s].waiters = << >>
      /\ Waiter(s) # NULL =>
              /\ Waiter(s) \in ToSet(sema[s].waiters)
              /\ Waiter(s) \in Thread
              /\ \A t \in ToSet(sema[s].waiters) : k.priority[t] <= k.priority[Waiter(s)]
  BY <1>1, IInvFacts, SemaTypesFacts, UnblockedFacts DEF Waiter
<1>3. \A t \in Asleep(s) :
        pc[t] = "waiting" /\ on[t] = s /\ at[t] = "down" /\ k.status[t] = "blocked"
  <2>1. ASSUME NEW t \in Asleep(s)
        PROVE  t \in Thread /\ pc[t] = "waiting" /\ on[t] = s /\ s # NULL
    BY <1>1, <2>1, SemaTypesFacts DEF SemaLists
  <2>2. \A t \in Thread : pc[t] = "waiting" => k.status[t] = "blocked"
    BY DEF IInv, PcInv, PlacesInv
  <2>3. \A t \in Thread : on[t] # NULL => at[t] = "down"
    BY <1>1 DEF SemaPlaces
  <2> QED BY <2>1, <2>2, <2>3
<1> QED BY <1>1, <1>2, <1>3, SemaTypesFacts DEF Asleep

\* A thread at "out" in the step is one that may call Threads at will.
LEMMA ElsewhereMoves ==
  ASSUME IInv, SemaInv,
         \/ Boot \/ \E t \in Thread : idle(t) \/ Elsewhere(t)
         \/ SemaInterrupt,
         NEW u \in Thread
  PROVE  /\ PlainStep
         /\ pc'[u] = "waiting" <=> pc[u] = "waiting"
         /\ at[u] # "out" => pc'[u] = pc[u]
<1>1. PlainStep
  BY DEF PlainStep, Elsewhere, SemaInterrupt
<1>2. /\ pc'[u] = "waiting" <=> pc[u] = "waiting"
      /\ pc'[u] # pc[u] /\ pc[u] = "run" => thread_create(u) \/ thread_set_priority(u)
  BY <1>1, PlainMoves
<1>3. at[u] # "out" => pc[u] \in {"run", "waiting"}
  BY DEF SemaInv, SemaPlaces
<1>4. pc'[u] # pc[u] /\ pc[u] = "run" => at[u] = "out"
  <2> SUFFICES ASSUME pc'[u] # pc[u], pc[u] = "run" PROVE at[u] = "out"
    OBVIOUS
  <2>1. k.current = u /\ ~k.in_external_intr
    BY <1>2 DEF thread_create, thread_set_priority, CreateThread, StartThread,
                YieldToArg, ChangePriority, YieldIfHigher, Runs
  <2>2. pc \in [Thread -> Location] /\ initial_thread \in Thread
    BY SchedAssumption DEF IInv, PcInv
  <2>3. CASE Boot
    BY <2>1, <2>3
       DEF Boot, thread_start, CreateThread, StartThread, YieldToArg, WaitForIdle, Runs
  <2>4. ASSUME NEW t \in Thread, idle(t)
        PROVE  FALSE
    BY <2>1, <2>4 DEF idle, IdleBegins, IdleUps, YieldToArg, IdleBlocks, Runs
  <2>5. ASSUME NEW t \in Thread, Elsewhere(t)
        PROVE  at[u] = "out"
    <3>1. k.current = t
      BY <2>5 DEF Elsewhere, thread_create, thread_set_priority, CreateThread,
                StartThread, YieldToArg, ChangePriority, YieldIfHigher,
                UpdatePriority, Yield, Runs
    <3> QED BY <2>1, <2>5, <3>1 DEF Elsewhere
  <2>6. CASE SemaInterrupt
    BY <2>1, <2>2, <2>6 DEF SemaInterrupt, IntrEnter, DeviceReturn, TimerReturn, InHandler
  <2> QED BY <2>3, <2>4, <2>5, <2>6
<1> QED BY <1>1, <1>2, <1>3, <1>4

-----------------------------------------------------------------------------
(* Every step is one of Threads.                                           *)

\* sema_up wakes a thread that sleeps in sema_down, as Threads allows, or nobody.
LEMMA SemaUpIsThreads ==
  ASSUME IInv, SemaInv, NEW s \in Sema,
         (\E t \in Thread : SemaUp(t, s)) \/ IntrSemaUp(s)
  PROVE  Next \/ UNCHANGED vars
<1>1. CASE Waiter(s) = NULL
  BY <1>1 DEF SemaUp, IntrSemaUp
<1>2. CASE Waiter(s) # NULL
  <2>1. Waiter(s) \in Thread /\ pc[Waiter(s)] = "waiting"
    BY <1>2, WaiterFacts
  <2>2. ASSUME NEW t \in Thread, SemaUp(t, s)
        PROVE  Unblock(t)
    BY <1>2, <2>1, <2>2 DEF SemaUp, Unblock
  <2>3. ASSUME IntrSemaUp(s)
        PROVE  IntrUnblock(Waiter(s))
    BY <1>2, <2>1, <2>3 DEF IntrSemaUp, IntrUnblock
  <2> QED BY <2>1, <2>2, <2>3 DEF Next, ThreadStep, Interrupt
<1> QED BY <1>1, <1>2

\* Every step of the semaphores is one of Threads, or changes only semaphores.
LEMMA SemaStepIsThreads ==
  ASSUME IInv, SemaInv, SemaNext
  PROVE  Next \/ UNCHANGED vars
<1>1. CASE Boot \/ \E t \in Thread : idle(t)
  BY <1>1 DEF Next, ThreadStep
<1>2. ASSUME NEW t \in Thread, NEW s \in Sema, sema_down(t, s) \/ sema_try_down(t, s)
      PROVE  Next \/ UNCHANGED vars
  BY <1>2 DEF sema_down, sema_try_down, Take, Sleep, Next, ThreadStep
<1>3. ASSUME NEW t \in Thread, SemaUpYield(t)
      PROVE  Next \/ UNCHANGED vars
  BY <1>3 DEF SemaUpYield, YieldTo, Yield, Next, ThreadStep, vars
<1>4. ASSUME NEW t \in Thread, Elsewhere(t)
      PROVE  Next \/ UNCHANGED vars
  BY <1>4 DEF Elsewhere, Next, ThreadStep
<1>5. CASE SemaInterrupt
  BY <1>5 DEF SemaInterrupt, Next, Interrupt
<1> QED BY <1>1, <1>2, <1>3, <1>4, <1>5, SemaUpIsThreads DEF SemaNext

-----------------------------------------------------------------------------
(* The steps preserve the invariant.                                       *)

\* Threads that were awake in synch.c and stay there are awake.
LEMMA StillAwake ==
  ASSUME IInv, Next \/ UNCHANGED vars, NEW u \in Thread,
         pc[u] = "run", pc'[u] = "run", k.status[u] # "blocked"
  PROVE  k'.status[u] # "blocked"
BY AwakeStep DEF vars

\* A step of Threads that leaves synch.c alone.
LEMMA SemaQuietStep ==
  ASSUME IInv, SemaInv, Next \/ UNCHANGED vars, UNCHANGED semaVars,
         \A u \in Thread : /\ pc'[u] = "waiting" <=> pc[u] = "waiting"
                           /\ at[u] # "out" => pc'[u] = pc[u]
  PROVE  SemaInv'
<1>1. SemaTypes' /\ SemaLists'
  <2>1. \A s \in Sema : Asleep(s)' = Asleep(s)
    BY DEF Asleep, semaVars
  <2>2. SemaTypes'
    BY DEF SemaInv, SemaTypes, semaVars
  <2>3. \A s \in Sema : \A t \in Asleep(s) : t \in Thread
    BY SemaTypesFacts DEF SemaInv
  <2>4. sema' = sema /\ on' = on
    BY DEF semaVars
  <2>5. (\A s \in Sema : IsInjective(sema[s].waiters))'
    BY <2>4 DEF SemaInv, SemaLists
  <2>6. (\A t \in Thread : pc[t] = "waiting" => on[t] \in Sema /\ t \in Asleep(on[t]))'
    BY <2>4 DEF SemaInv, SemaLists, Asleep
  <2>7. \A s \in Sema : \A t \in Asleep(s)' : pc'[t] = "waiting" /\ on'[t] = s
    BY <2>1, <2>3, <2>4 DEF SemaInv, SemaLists
  <2>8. SemaLists'
    BY <2>5, <2>6, <2>7 DEF SemaLists
  <2> QED BY <2>2, <2>8
<1>2. SemaPlaces'
  <2>1. ASSUME NEW u \in Thread, at[u] # "out", pc'[u] = "run"
        PROVE  k'.status[u] # "blocked"
    BY <2>1, StillAwake DEF SemaInv, SemaPlaces
  <2> QED BY <2>1 DEF SemaInv, SemaPlaces, semaVars
<1>3. \A s \in Sema : Returning(s)' = Returning(s)
  <2>1. \A s \in Sema, u \in Thread : on[u] = s => at[u] # "out"
    BY SemaTypesFacts DEF SemaInv, SemaPlaces
  <2> QED BY <2>1 DEF Returning, semaVars
<1>4. UnitsOwed'
  BY <1>3 DEF SemaInv, UnitsOwed, semaVars
<1> QED BY <1>1, <1>2, <1>4 DEF SemaInv

\* Taking a unit: the thread is no longer on its way, and there is one unit less.
LEMMA TakeStep ==
  ASSUME IInv, SemaInv, NEW t \in Thread, NEW s \in Sema, Take(t, s),
         at[t] = "out" \/ (at[t] = "down" /\ on[t] = s)
  PROVE  SemaInv'
<1>1. /\ SemaTypes /\ SemaPlaces /\ SemaLists /\ UnitsOwed
      /\ pc[t] = "run" /\ pc' = pc /\ k' = k /\ woken' = woken
      /\ sema[s].value \in Nat \ {0}
      /\ on[t] \in {s, NULL}
  <2>1. SemaTypes /\ SemaPlaces /\ SemaLists /\ UnitsOwed
    BY DEF SemaInv
  <2>2. sema[s].value \in Nat \ {0}
    <3>1. sema[s].value \in Nat
      BY <2>1, SemaTypesFacts
    <3> QED BY <3>1 DEF Take, Available
  <2>3. on[t] \in {s, NULL}
    BY <2>1 DEF SemaPlaces
  <2> QED BY <2>1, <2>2, <2>3 DEF Take, Runs, vars
<1>2. /\ sema' \in [Sema -> Semaphore]
      /\ sema'[s].value = sema[s].value - 1
      /\ \A r \in Sema : sema'[r].waiters = sema[r].waiters
      /\ \A r \in Sema \ {s} : sema'[r] = sema[r]
  <2> DEFINE new == [value |-> sema[s].value - 1, waiters |-> sema[s].waiters]
  <2>1. sema[s] \in Semaphore /\ sema[s].waiters \in Seq(Thread)
    BY <1>1, SemaTypesFacts
  <2>2. sema_take(sema[s]) = new
    BY <2>1 DEF sema_take, Semaphore
  <2>3. new \in Semaphore
    BY <1>1, <2>1 DEF Semaphore
  <2>4. sema' = [sema EXCEPT ![s] = new]
    BY <2>2 DEF Take
  <2>5. new.value = sema[s].value - 1 /\ new.waiters = sema[s].waiters
    OBVIOUS
  <2> HIDE DEF new
  <2> QED BY <1>1, <2>3, <2>4, <2>5 DEF SemaTypes
<1>3. /\ at' \in [Thread -> {"out", "down", "up"}]
      /\ on' \in [Thread -> Sema \cup {NULL}]
      /\ at'[t] = "out" /\ on'[t] = NULL
      /\ \A u \in Thread \ {t} : at'[u] = at[u] /\ on'[u] = on[u]
  BY <1>1 DEF Take, SemaTypes
<1>4. SemaTypes'
  BY <1>1, <1>2, <1>3 DEF SemaTypes
<1>5. SemaPlaces'
  BY <1>1, <1>3 DEF SemaPlaces
<1>6. SemaLists'
  <2>1. \A r \in Sema : Asleep(r)' = Asleep(r)
    BY <1>2 DEF Asleep
  <2>2. \A r \in Sema : \A u \in Asleep(r) : u \in Thread \ {t}
    BY <1>1, SemaTypesFacts DEF SemaLists
  <2> QED BY <1>1, <1>2, <1>3, <2>1, <2>2 DEF SemaLists
<1>7. UnitsOwed'
  <2>1. \A r \in Sema \ {s} : Returning(r)' = Returning(r)
    <3>1. NULL \notin Sema
      BY SemaphoresAssumption
    <3>2. \A r \in Sema \ {s}, u \in Thread : on'[u] = r /\ pc'[u] = "run" <=>
                                             on[u] = r /\ pc[u] = "run"
      BY <1>1, <1>3, <3>1
    <3> QED BY <3>2 DEF Returning
  <2>2. Returning(s)' = Returning(s) \ {t}
    BY <1>1, <1>3, SemaTypesFacts DEF Returning
  <2>3. IsFiniteSet(Returning(s))
    BY <1>1 DEF UnitsOwed
  <2>4. /\ IsFiniteSet(Returning(s) \ {t})
        /\ Cardinality(Returning(s) \ {t}) >= Cardinality(Returning(s)) - 1
    BY <2>3, FS_RemoveElement, FS_CardinalityType
  <2>5. Cardinality(Returning(s)) \in Nat /\ Cardinality(Returning(s) \ {t}) \in Nat
    BY <2>3, <2>4, FS_CardinalityType
  <2>6. /\ IsFiniteSet(Returning(s)')
        /\ sema'[s].waiters # << >> => Cardinality(Returning(s)') >= sema'[s].value
    BY <1>1, <1>2, <2>2, <2>4, <2>5 DEF UnitsOwed
  <2>7. ASSUME NEW r \in Sema
        PROVE  /\ IsFiniteSet(Returning(r)')
               /\ sema'[r].waiters # << >> => Cardinality(Returning(r)') >= sema'[r].value
    <3>1. CASE r = s
      BY <2>6, <3>1
    <3>2. CASE r # s
      BY <1>1, <1>2, <2>1, <3>2 DEF UnitsOwed
    <3> QED BY <3>1, <3>2
  <2> QED BY <2>7 DEF UnitsOwed
<1> QED BY <1>4, <1>5, <1>6, <1>7 DEF SemaInv

\* Finding no unit: the thread goes to the end of the list and sleeps.
LEMMA SleepStep ==
  ASSUME IInv, SemaInv, NEW t \in Thread, NEW s \in Sema, Sleep(t, s),
         at[t] = "out" \/ (at[t] = "down" /\ on[t] = s)
  PROVE  SemaInv'
<1>1. /\ SemaTypes /\ SemaPlaces /\ SemaLists /\ UnitsOwed
      /\ pc[t] = "run" /\ k.current = t
      /\ pc \in [Thread -> Location]
      /\ pc' = [pc EXCEPT ![t] = "waiting"] /\ woken' = woken
      /\ sema[s].value = 0
      /\ on[t] \in {s, NULL}
      /\ Next
  <2>1. SemaTypes /\ SemaPlaces /\ SemaLists /\ UnitsOwed
    BY DEF SemaInv
  <2>2. sema[s].value = 0
    <3>1. sema[s].value \in Nat
      BY <2>1, SemaTypesFacts
    <3> QED BY <3>1 DEF Sleep, Available
  <2>3. on[t] \in {s, NULL}
    BY <2>1 DEF SemaPlaces
  <2>4. Next
    BY DEF Sleep, Next, ThreadStep
  <2>5. pc \in [Thread -> Location]
    BY DEF IInv, PcInv
  <2> QED BY <2>1, <2>2, <2>3, <2>4, <2>5 DEF Sleep, Block, Goto, Runs
<1>2. t \notin Asleep(s)
  BY <1>1 DEF SemaLists
<1>3. /\ sema' \in [Sema -> Semaphore]
      /\ sema'[s].value = 0
      /\ Asleep(s)' = Asleep(s) \cup {t}
      /\ IsInjective(sema'[s].waiters)
      /\ \A r \in Sema \ {s} : sema'[r] = sema[r]
  <2> DEFINE q == Append(sema[s].waiters, t)
             new == [value |-> 0, waiters |-> q]
  <2>1. sema[s] \in Semaphore /\ sema[s].waiters \in Seq(Thread)
        /\ IsInjective(sema[s].waiters) /\ t \notin ToSet(sema[s].waiters)
    BY <1>1, <1>2, SemaTypesFacts DEF SemaLists, Asleep
  <2>2. /\ q \in Seq(Thread) /\ IsInjective(q)
        /\ ToSet(q) = ToSet(sema[s].waiters) \cup {t}
    BY <2>1, AppendFacts
  <2>3. sema_wait(k, sema[s]).sema = new
    BY <1>1, <2>1 DEF sema_wait, Semaphore
  <2>4. new \in Semaphore
    BY <2>2 DEF Semaphore
  <2>5. sema' = [sema EXCEPT ![s] = new]
    BY <2>3 DEF Sleep
  <2>6. new.value = 0 /\ new.waiters = q
    OBVIOUS
  <2> HIDE DEF new, q
  <2>7. sema'[s] = new /\ sema' \in [Sema -> Semaphore]
        /\ \A r \in Sema \ {s} : sema'[r] = sema[r]
    BY <1>1, <2>4, <2>5 DEF SemaTypes
  <2> QED BY <2>2, <2>6, <2>7 DEF Asleep
<1>4. /\ at' \in [Thread -> {"out", "down", "up"}]
      /\ on' \in [Thread -> Sema \cup {NULL}]
      /\ at'[t] = "down" /\ on'[t] = s
      /\ \A u \in Thread \ {t} : at'[u] = at[u] /\ on'[u] = on[u] /\ pc'[u] = pc[u]
      /\ pc'[t] = "waiting"
  BY <1>1 DEF Sleep, SemaTypes
<1>5. SemaTypes'
  BY <1>1, <1>3, <1>4 DEF SemaTypes
<1>6. SemaPlaces'
  <2>1. ASSUME NEW u \in Thread, at'[u] # "out", pc'[u] = "run"
        PROVE  k'.status[u] # "blocked"
    <3>1. u # t /\ pc[u] = "run" /\ at[u] # "out" /\ k.status[u] # "blocked"
      BY <1>1, <1>4, <2>1 DEF SemaPlaces
    <3> QED BY <1>1, <2>1, <3>1, StillAwake
  <2>2. s # NULL
    BY SemaphoresAssumption
  <2> QED BY <1>1, <1>4, <2>1, <2>2 DEF SemaPlaces
<1>7. SemaLists'
  <2>1. \A r \in Sema \ {s} : Asleep(r)' = Asleep(r)
    BY <1>3 DEF Asleep
  <2>2. \A r \in Sema : \A u \in Asleep(r) : u \in Thread \ {t}
    <3>1. \A r \in Sema : Asleep(r) \subseteq Thread
      BY <1>1, SemaTypesFacts
    <3>2. \A r \in Sema : t \notin Asleep(r)
      BY <1>1 DEF SemaLists
    <3> QED BY <3>1, <3>2
  <2> QED BY <1>1, <1>3, <1>4, <2>1, <2>2 DEF SemaLists
<1>8. UnitsOwed'
  <2>1. \A r \in Sema \ {s} : Returning(r)' = Returning(r)
    <3>1. NULL \notin Sema
      BY SemaphoresAssumption
    <3>2. \A r \in Sema \ {s}, u \in Thread : on'[u] = r /\ pc'[u] = "run" <=>
                                             on[u] = r /\ pc[u] = "run"
      BY <1>1, <1>4, <3>1
    <3> QED BY <3>2 DEF Returning
  <2>2. Returning(s)' = Returning(s) \ {t}
    BY <1>1, <1>4 DEF Returning
  <2>3. /\ IsFiniteSet(Returning(s)')
        /\ Cardinality(Returning(s)') >= 0
    BY <1>1, <2>2, FS_RemoveElement, FS_CardinalityType DEF UnitsOwed
  <2>4. ASSUME NEW r \in Sema
        PROVE  /\ IsFiniteSet(Returning(r)')
               /\ sema'[r].waiters # << >> => Cardinality(Returning(r)') >= sema'[r].value
    <3>1. CASE r = s
      BY <1>3, <2>3, <3>1
    <3>2. CASE r # s
      BY <1>1, <1>3, <2>1, <3>2 DEF UnitsOwed
    <3> QED BY <3>1, <3>2
  <2> QED BY <2>4 DEF UnitsOwed
<1> QED BY <1>5, <1>6, <1>7, <1>8 DEF SemaInv

\* What raising the value does to the list: the chosen thread leaves it.
LEMMA RaiseFacts ==
  ASSUME SemaTypes, SemaLists, NEW s \in Sema, Raise(s)
  PROVE  /\ sema' \in [Sema -> Semaphore]
         /\ sema'[s].value = sema[s].value + 1
         /\ sema[s].value \in Nat
         /\ Asleep(s)' = Asleep(s) \ {Waiter(s)}
         /\ IsInjective(sema'[s].waiters)
         /\ sema[s].waiters = << >> => sema'[s].waiters = << >>
         /\ \A r \in Sema \ {s} : sema'[r] = sema[r]
<1> DEFINE w == Waiter(s)
           q == RemoveFirst(sema[s].waiters, w)
           new == [value |-> sema[s].value + 1, waiters |-> q]
<1>1. /\ sema[s].value \in Nat /\ sema[s].waiters \in Seq(Thread)
      /\ sema[s].waiters = << >> <=> Asleep(s) = {}
      /\ IsInjective(sema[s].waiters)
  <2>1. IsInjective(sema[s].waiters)
    BY DEF SemaLists
  <2> QED BY <2>1, SemaTypesFacts
<1>2. /\ q \in Seq(Thread) /\ IsInjective(q)
      /\ ToSet(q) = ToSet(sema[s].waiters) \ {w}
  BY <1>1, RemoveFacts
<1>3. sema' = [sema EXCEPT ![s] = new]
  BY DEF Raise, w
<1>4. new \in Semaphore /\ new.value = sema[s].value + 1 /\ new.waiters = q
  BY <1>1, <1>2 DEF Semaphore
<1> HIDE DEF new, q, w
<1>5. /\ sema'[s] = new /\ sema' \in [Sema -> Semaphore]
      /\ \A r \in Sema \ {s} : sema'[r] = sema[r]
  BY <1>3, <1>4 DEF SemaTypes
<1>6. Asleep(s)' = Asleep(s) \ {w}
  BY <1>2, <1>4, <1>5 DEF Asleep
<1>7. sema[s].waiters = << >> => q = << >>
  <2>1. q = << >> <=> ToSet(q) = {}
    BY <1>2, ToSetFacts
  <2> QED BY <1>1, <1>2, <2>1 DEF Asleep
<1> QED BY <1>1, <1>2, <1>4, <1>5, <1>6, <1>7 DEF w

\* The part of sema_up that threads and handlers share.
LEMMA RaiseStep ==
  ASSUME IInv, SemaInv, Next \/ UNCHANGED vars, NEW s \in Sema, Raise(s),
         Waiter(s) = NULL => UNCHANGED vars,
         Waiter(s) # NULL => /\ pc' = [pc EXCEPT ![Waiter(s)] = "run"]
                             /\ k'.status[Waiter(s)] # "blocked",
         on' = on,
         at' \in [Thread -> {"out", "down", "up"}],
         woken' \in [Thread -> Thread \cup {NULL}],
         \A v \in Thread :
           \/ at'[v] = at[v]
           \/ at[v] = "out" /\ at'[v] = "up" /\ pc[v] = "run" /\ k.status[v] # "blocked"
  PROVE  SemaInv'
<1> DEFINE w == Waiter(s)
<1>1. /\ SemaTypes /\ SemaPlaces /\ SemaLists /\ UnitsOwed
      /\ pc \in [Thread -> Location]
  BY DEF SemaInv, IInv, PcInv
<1>2. /\ w = NULL <=> Asleep(s) = {}
      /\ w # NULL => w \in Asleep(s) /\ w \in Thread /\ pc[w] = "waiting" /\ on[w] = s
                     /\ at[w] = "down"
  BY WaiterFacts
<1> HIDE DEF w
<1>3. /\ sema' \in [Sema -> Semaphore]
      /\ sema'[s].value = sema[s].value + 1
      /\ sema[s].value \in Nat
      /\ Asleep(s)' = Asleep(s) \ {w}
      /\ IsInjective(sema'[s].waiters)
      /\ sema[s].waiters = << >> => sema'[s].waiters = << >>
      /\ \A r \in Sema \ {s} : sema'[r] = sema[r]
  BY <1>1, RaiseFacts DEF w
<1>4. \A u \in Thread : pc'[u] = IF u = w THEN "run" ELSE pc[u]
  <2>1. CASE w = NULL
    BY <2>1, SchedAssumption DEF vars, w
  <2>2. CASE w # NULL
    BY <1>1, <2>2 DEF w
  <2> QED BY <2>1, <2>2
<1>5. SemaTypes'
  BY <1>1, <1>3 DEF SemaTypes
<1>6. SemaPlaces'
  <2>1. ASSUME NEW u \in Thread, at'[u] # "out", pc'[u] = "run"
        PROVE  k'.status[u] # "blocked"
    <3>1. CASE u = w
      BY <3>1, SchedAssumption DEF w
    <3>2. CASE u # w
      <4>1. pc[u] = "run" /\ k.status[u] # "blocked"
        BY <1>1, <1>4, <2>1, <3>2 DEF SemaPlaces
      <4> QED BY <2>1, <4>1, StillAwake
    <3> QED BY <3>1, <3>2
  <2>2. ASSUME NEW u \in Thread, at'[u] # "out"
        PROVE  pc'[u] \in {"run", "waiting"}
    BY <1>1, <1>4, <2>2 DEF SemaPlaces
  <2>3. \A u \in Thread : at'[u] = "down" <=> on'[u] # NULL
    BY <1>1 DEF SemaPlaces
  <2> QED BY <2>1, <2>2, <2>3 DEF SemaPlaces
<1>7. SemaLists'
  <2>1. \A r \in Sema \ {s} : Asleep(r)' = Asleep(r)
    BY <1>3 DEF Asleep
  <2>2. \A r \in Sema : Asleep(r) \subseteq Thread
    BY <1>1, SemaTypesFacts
  <2>3. (\A r \in Sema : IsInjective(sema[r].waiters))'
    BY <1>1, <1>3 DEF SemaLists
  <2>4. ASSUME NEW u \in Thread, pc'[u] = "waiting"
        PROVE  (on[u] \in Sema /\ u \in Asleep(on[u]))'
    <3>1. u # w /\ pc[u] = "waiting"
      BY <1>4, <2>4
    <3>2. on[u] \in Sema /\ u \in Asleep(on[u]) /\ on'[u] = on[u]
      BY <1>1, <3>1 DEF SemaLists
    <3>3. CASE on[u] = s
      BY <1>3, <3>1, <3>2, <3>3
    <3>4. CASE on[u] # s
      BY <2>1, <3>2, <3>4
    <3> QED BY <3>3, <3>4
  <2>5. ASSUME NEW r \in Sema, NEW u \in Asleep(r)'
        PROVE  pc'[u] = "waiting" /\ on'[u] = r
    <3>1. u \in Asleep(r) /\ u # w
      <4>1. CASE r = s
        BY <1>3, <2>5, <4>1
      <4>2. CASE r # s
        <5>1. u \in Asleep(r) /\ on[u] = r /\ u \in Thread
          BY <1>1, <2>1, <2>2, <2>5, <4>2 DEF SemaLists
        <5> QED BY <1>2, <4>2, <5>1, SchedAssumption
      <4> QED BY <4>1, <4>2
    <3> QED BY <1>1, <1>4, <2>2, <3>1 DEF SemaLists
  <2>6. \A u \in Thread : pc'[u] = "waiting" => (on[u] \in Sema /\ u \in Asleep(on[u]))'
    BY <2>4
  <2> QED BY <2>3, <2>5, <2>6 DEF SemaLists
<1>8. UnitsOwed'
  <2>1. \A r \in Sema \ {s} : Returning(r)' = Returning(r)
    <3>1. \A r \in Sema \ {s}, u \in Thread : on'[u] = r /\ pc'[u] = "run" <=>
                                             on[u] = r /\ pc[u] = "run"
      BY <1>2, <1>4, SchedAssumption
    <3> QED BY <3>1 DEF Returning
  <2>2. w = NULL => Returning(s)' = Returning(s)
    BY SchedAssumption, <1>4 DEF Returning
  <2>3. w # NULL => Returning(s)' = Returning(s) \cup {w} /\ w \notin Returning(s)
    BY <1>2, <1>4 DEF Returning
  <2>4. IsFiniteSet(Returning(s)) /\ Cardinality(Returning(s)) \in Nat
    BY <1>1, FS_CardinalityType DEF UnitsOwed
  <2>5. /\ IsFiniteSet(Returning(s)')
        /\ sema'[s].waiters # << >> => Cardinality(Returning(s)') >= sema'[s].value
    <3>1. CASE w = NULL
      <4>1. sema'[s].waiters = << >>
        BY <1>1, <1>2, <1>3, <3>1, SemaTypesFacts
      <4> QED BY <2>2, <2>4, <3>1, <4>1
    <3>2. CASE w # NULL
      <4>1. /\ IsFiniteSet(Returning(s)')
            /\ Cardinality(Returning(s)') = Cardinality(Returning(s)) + 1
        BY <2>3, <2>4, <3>2, FS_AddElement
      <4>2. sema[s].waiters # << >>
        BY <1>1, <1>2, <3>2, SemaTypesFacts
      <4>3. Cardinality(Returning(s)) >= sema[s].value
        BY <1>1, <4>2 DEF UnitsOwed
      <4> QED BY <1>3, <2>4, <4>1, <4>3
    <3> QED BY <3>1, <3>2
  <2>6. ASSUME NEW r \in Sema
        PROVE  /\ IsFiniteSet(Returning(r)')
               /\ sema'[r].waiters # << >> => Cardinality(Returning(r)') >= sema'[r].value
    <3>1. CASE r = s
      BY <2>5, <3>1
    <3>2. CASE r # s
      BY <1>1, <1>3, <2>1, <3>2 DEF UnitsOwed
    <3> QED BY <3>1, <3>2
  <2> QED BY <2>6 DEF UnitsOwed
<1> QED BY <1>5, <1>6, <1>7, <1>8 DEF SemaInv

\* The thread that is woken is ready at once, in a thread or in a handler.
LEMMA WokenIsReady ==
  ASSUME IInv, SemaInv, NEW s \in Sema, Waiter(s) # NULL
  PROVE  /\ thread_unblock(k, Waiter(s)).status[Waiter(s)] # "blocked"
         /\ intr_yield_on_return(thread_unblock(k, Waiter(s))).status[Waiter(s)] # "blocked"
<1> DEFINE w == Waiter(s)
           k1 == thread_unblock(k, w)
<1>1. w \in Thread /\ pc[w] = "waiting" /\ k.status[w] = "blocked"
  BY WaiterFacts
<1>2. Sound(k) /\ w # k.idle_thread /\ k.status \in [Thread -> Status]
  BY <1>1, PlaceFacts, IInvFacts DEF IInv, IdlePc
<1>3. Sound(k1) /\ k1.status = [k.status EXCEPT ![w] = "ready"]
  BY <1>1, <1>2, UnblockSound
<1>4. intr_yield_on_return(k1).status = k1.status
  BY <1>3, InterruptSound
<1> HIDE DEF w, k1
<1>5. k1.status[w] # "blocked" /\ intr_yield_on_return(k1).status[w] # "blocked"
  BY <1>1, <1>2, <1>3, <1>4
<1> QED BY <1>5 DEF w, k1

\* sema_up in a thread, which may have to yield afterwards.
LEMMA SemaUpStep ==
  ASSUME IInv, SemaInv, NEW t \in Thread, NEW s \in Sema, SemaUp(t, s)
  PROVE  SemaInv'
<1>1. Next \/ UNCHANGED vars
  BY SemaUpIsThreads
<1>2. /\ pc[t] = "run" /\ at[t] = "out" /\ k.status[t] # "blocked" /\ on' = on
      /\ Raise(s)
      /\ SemaTypes
  BY IInvFacts DEF SemaUp, Runs, SemaInv
<1>3. Waiter(s) = NULL => UNCHANGED vars
  BY DEF SemaUp
<1>4. Waiter(s) # NULL => /\ pc' = [pc EXCEPT ![Waiter(s)] = "run"]
                          /\ k'.status[Waiter(s)] # "blocked"
  BY WokenIsReady DEF SemaUp, Goto
<1>5. at' \in [Thread -> {"out", "down", "up"}] /\ at' = [at EXCEPT ![t] = "up"]
  BY <1>2 DEF SemaUp, SemaTypes
<1>6. woken' \in [Thread -> Thread \cup {NULL}]
  BY <1>2, WaiterFacts DEF SemaUp, SemaTypes
<1>7. \A v \in Thread :
        \/ at'[v] = at[v]
        \/ at[v] = "out" /\ at'[v] = "up" /\ pc[v] = "run" /\ k.status[v] # "blocked"
  BY <1>2, <1>5 DEF SemaTypes
<1> QED BY <1>1, <1>2, <1>3, <1>4, <1>5, <1>6, <1>7, RaiseStep

\* sema_up in an interrupt handler.
LEMMA IntrSemaUpStep ==
  ASSUME IInv, SemaInv, NEW s \in Sema, IntrSemaUp(s)
  PROVE  SemaInv'
<1>1. Next \/ UNCHANGED vars
  BY SemaUpIsThreads
<1>2. on' = on /\ at' = at /\ woken' = woken /\ Raise(s) /\ SemaTypes
  BY DEF IntrSemaUp, SemaInv
<1>3. Waiter(s) = NULL => UNCHANGED vars
  BY DEF IntrSemaUp
<1>4. Waiter(s) # NULL => /\ pc' = [pc EXCEPT ![Waiter(s)] = "run"]
                          /\ k'.status[Waiter(s)] # "blocked"
  BY WokenIsReady DEF IntrSemaUp, Goto
<1> QED BY <1>1, <1>2, <1>3, <1>4, RaiseStep DEF SemaTypes

\* The yield at the end of sema_up.
LEMMA SemaUpYieldStep ==
  ASSUME IInv, SemaInv, NEW t \in Thread, SemaUpYield(t)
  PROVE  SemaInv'
<1>1. /\ SemaTypes /\ SemaPlaces /\ SemaLists /\ UnitsOwed
      /\ pc' = pc /\ sema' = sema /\ on' = on
      /\ Next \/ UNCHANGED vars
  BY SemaStepIsThreads DEF SemaInv, SemaUpYield, SemaNext
<1>2. SemaTypes'
  BY <1>1 DEF SemaUpYield, SemaTypes
<1>3. \A u \in Thread : at'[u] = IF u = t THEN "out" ELSE at[u]
  BY <1>1 DEF SemaUpYield, SemaTypes
<1>4. SemaPlaces'
  <2>1. ASSUME NEW u \in Thread, at'[u] # "out", pc'[u] = "run"
        PROVE  k'.status[u] # "blocked"
    BY <1>1, <1>3, <2>1, StillAwake DEF SemaPlaces
  <2>2. at[t] = "up"
    BY DEF SemaUpYield
  <2>3. ASSUME NEW u \in Thread
        PROVE  /\ at'[u] # "out" => pc'[u] \in {"run", "waiting"}
               /\ at'[u] = "down" <=> on'[u] # NULL
    <3>1. /\ at[u] # "out" => pc[u] \in {"run", "waiting"}
          /\ at[u] = "down" <=> on[u] # NULL
      BY <1>1 DEF SemaPlaces
    <3> QED BY <1>1, <1>3, <2>2, <3>1
  <2> QED BY <2>1, <2>3 DEF SemaPlaces
<1>5. SemaLists'
  <2>1. (\A s \in Sema : IsInjective(sema[s].waiters))'
    BY <1>1 DEF SemaLists
  <2>2. (\A u \in Thread : pc[u] = "waiting" => on[u] \in Sema /\ u \in Asleep(on[u]))'
    BY <1>1 DEF SemaLists, Asleep
  <2>3. (\A s \in Sema : \A u \in Asleep(s) : pc[u] = "waiting" /\ on[u] = s)'
    BY <1>1 DEF SemaLists, Asleep
  <2> QED BY <2>1, <2>2, <2>3 DEF SemaLists
<1>6. UnitsOwed'
  <2>1. \A s \in Sema : Returning(s)' = Returning(s)
    BY <1>1 DEF Returning
  <2> QED BY <1>1, <2>1 DEF UnitsOwed
<1> QED BY <1>2, <1>4, <1>5, <1>6 DEF SemaInv

-----------------------------------------------------------------------------
(* The theorems.                                                           *)

\* After sema_init nobody sleeps and nobody is on the way.
LEMMA SemaInitInv == SemaInit => IInv /\ SemaInv
<1> SUFFICES ASSUME SemaInit PROVE IInv /\ SemaInv
  OBVIOUS
<1>1. IInv
  BY InitIInv DEF SemaInit
<1>2. \A s \in Sema : sema_init(InitValue[s]) \in Semaphore
  BY SemaphoresAssumption, EmptyList DEF sema_init, Semaphore
<1>3. \A s \in Sema : sema[s].waiters = << >> /\ Asleep(s) = {}
  BY EmptyList DEF SemaInit, sema_init, Asleep
<1>4. SemaTypes
  BY <1>2 DEF SemaInit, SemaTypes
<1>5. SemaPlaces
  BY DEF SemaInit, SemaPlaces
<1>6. SemaLists
  <2>1. \A t \in Thread : pc[t] # "waiting"
    BY DEF SemaInit, Init
  <2> QED BY <1>3, <2>1, EmptyList DEF SemaLists
<1>7. UnitsOwed
  <2>1. \A s \in Sema : Returning(s) = {}
    BY DEF SemaInit, Init, Returning
  <2> QED BY <1>3, <2>1, FS_EmptySet DEF UnitsOwed
<1> QED BY <1>1, <1>4, <1>5, <1>6, <1>7 DEF SemaInv

\* Every step is one of Threads and preserves both invariants.
LEMMA SemaNextInv ==
  ASSUME IInv, SemaInv, [SemaNext]_allVars
  PROVE  /\ [Next]_vars
         /\ IInv'
         /\ SemaInv'
<1>1. [Next]_vars
  BY SemaStepIsThreads DEF allVars, vars
<1>2. IInv'
  BY <1>1, NextIInv
<1>3. CASE UNCHANGED allVars
  <2>1. UNCHANGED semaVars /\ UNCHANGED vars
    BY <1>3 DEF allVars
  <2> QED BY <1>1, <1>2, <2>1, SemaQuietStep DEF vars
<1>4. ASSUME \/ Boot \/ \E t \in Thread : idle(t) \/ Elsewhere(t)
             \/ SemaInterrupt,
             UNCHANGED semaVars
      PROVE  SemaInv'
  BY <1>1, <1>4, ElsewhereMoves, SemaQuietStep
<1>5. ASSUME NEW t \in Thread, NEW s \in Sema, sema_down(t, s) \/ sema_try_down(t, s)
      PROVE  SemaInv'
  BY <1>5, TakeStep, SleepStep DEF sema_down, sema_try_down
<1>6. ASSUME SemaNext
      PROVE  SemaInv'
  BY <1>4, <1>5, <1>6, SemaUpStep, IntrSemaUpStep, SemaUpYieldStep
     DEF SemaNext, Elsewhere, SemaInterrupt
<1> QED BY <1>1, <1>2, <1>3, <1>6

\* The invariant of Threads and that of the semaphores hold in every state: what
\* sema_down, sema_try_down and sema_up do keeps the lists, the units and the
\* places of the threads in agreement.
THEOREM SemaInvariance == SemaSpec => [](IInv /\ SemaInv)
<1>1. IInv /\ SemaInv /\ [SemaNext]_allVars => (IInv /\ SemaInv)'
  BY SemaNextInv
<1> QED BY <1>1, SemaInitInv, PTL DEF SemaSpec

\* The semaphores, their waiters and the threads in synch.c keep their types.
THEOREM SemaTypeCorrect == SemaSpec => []SemaTypeOK
<1>1. IInv /\ SemaInv => SemaTypeOK
  BY DEF IInv, Sound, PcInv, SemaInv, SemaTypes, SemaTypeOK, TypeOK
<1> QED BY <1>1, SemaInvariance, PTL

\* Semaphores behave as Threads allows, so every theorem of Threads holds of
\* threads that use them.
THEOREM SemaRefinesThreads == SemaSpec => SemaImplementsThreads
<1>1. SemaInit => Init
  BY DEF SemaInit
<1>2. IInv /\ SemaInv /\ [SemaNext]_allVars => [Next]_vars
  BY SemaNextInv
<1> QED BY <1>1, <1>2, SemaInvariance, PTL DEF SemaSpec, Spec, SemaImplementsThreads

\* A thread that sleeps on a semaphore is blocked, in no ready queue and on the list
\* of that semaphore alone, once: its single elem (synch.c:75) is never in two
\* lists.
THEOREM OneListPerThread == SemaSpec => []ElemOnOneList
<1>1. ASSUME IInv, SemaInv
      PROVE  ElemOnOneList
  <2>1. SemaTypeOK
    BY <1>1 DEF IInv, Sound, PcInv, SemaInv, SemaTypes, SemaTypeOK, TypeOK
  <2>2. SemaTypes /\ SemaLists
    BY <1>1 DEF SemaInv
  <2>3. ASSUME NEW s \in Sema, NEW t \in Asleep(s)
        PROVE  /\ k.status[t] = "blocked"
               /\ ~Queued(k, t)
               /\ on[t] = s
               /\ \A r \in Sema \ {s} : t \notin Asleep(r)
    <3>1. t \in Thread /\ pc[t] = "waiting" /\ on[t] = s
      BY <2>2, <2>3, SemaTypesFacts DEF SemaLists
    <3>2. k.status[t] = "blocked"
      BY <1>1, <3>1 DEF IInv, PcInv, PlacesInv
    <3>3. ~Queued(k, t)
      <4>1. k \in KernelState /\ Queues(k)
        BY <1>1 DEF IInv, Sound
      <4>2. \A p \in Priority : t \notin ToSet(k.ready_queues[p])
        BY <3>1, <3>2, <4>1 DEF Queues
      <4>3. \A p \in Priority : ~Contains(k.ready_queues[p], t)
        BY <4>1, <4>2, QueueType, ToSetFacts
      <4> QED BY <4>3 DEF Queued
    <3> QED BY <2>2, <3>1, <3>2, <3>3 DEF SemaLists
  <2> QED BY <2>1, <2>2, <2>3 DEF ElemOnOneList, SemaLists
<1> QED BY <1>1, SemaInvariance, PTL

\* While a thread sleeps on a semaphore, every unit of it has a thread that was
\* woken and has still to look at it (the while loop of synch.c:74): a unit
\* another thread snatches never leaves a sleeper behind with nobody to wake it.
THEOREM NoWakeupLost == SemaSpec => []NoLostWakeup
<1>1. ASSUME IInv, SemaInv
      PROVE  NoLostWakeup
  <2> SUFFICES ASSUME NEW s \in Sema, sema[s].waiters # << >>
               PROVE  Cardinality(OnTheWay(s)) >= sema[s].value
    BY DEF NoLostWakeup
  <2>1. OnTheWay(s) = Returning(s)
    <3>1. SemaTypes /\ SemaPlaces /\ s # NULL
      BY <1>1, SemaphoresAssumption DEF SemaInv
    <3>2. ASSUME NEW t \in Thread, on[t] = s
          PROVE  k.status[t] # "blocked" <=> pc[t] = "run"
      <4>1. at[t] = "down" /\ pc[t] \in {"run", "waiting"}
        BY <3>1, <3>2 DEF SemaPlaces
      <4> QED BY <1>1, <3>1, <4>1 DEF SemaPlaces, IInv, PcInv, PlacesInv
    <3> QED BY <3>2 DEF OnTheWay, Returning
  <2> QED BY <1>1, <2>1 DEF SemaInv, UnitsOwed
<1> QED BY <1>1, SemaInvariance, PTL

\* sema_up, in a thread or in a handler, wakes a waiter that no thread it leaves
\* on the list outranks, whatever donations and thread_set_priority have done since
\* they were queued.
THEOREM HighestWoken == SemaSpec => WakesHighest
<1> DEFINE A == \A s \in Sema : \A t \in Asleep(s) \ Asleep(s)' :
                  \A u \in Asleep(s)' : k.priority[u] <= k.priority[t]
<1>1. ASSUME IInv, SemaInv, SemaNext
      PROVE  A
  <2>1. CASE sema' = sema
    BY <2>1 DEF Asleep
  <2>2. ASSUME NEW t \in Thread, NEW r \in Sema, sema_down(t, r) \/ sema_try_down(t, r)
        PROVE  A
    <3>1. sema[r] \in Semaphore /\ sema[r].waiters \in Seq(Thread) /\ SemaTypes
      BY <1>1, SemaTypesFacts DEF SemaInv
    <3>2. \E new : /\ sema' = [sema EXCEPT ![r] = new]
                   /\ ToSet(sema[r].waiters) \subseteq ToSet(new.waiters)
      <4>1. CASE Take(t, r)
        <5>1. sema' = [sema EXCEPT ![r] = sema_take(sema[r])]
          BY <4>1 DEF Take
        <5>2. sema_take(sema[r]).waiters = sema[r].waiters
          BY <3>1 DEF sema_take, Semaphore
        <5> QED BY <5>1, <5>2
      <4>2. CASE Sleep(t, r)
        <5>1. sema' = [sema EXCEPT ![r] = sema_wait(k, sema[r]).sema]
          BY <4>2 DEF Sleep
        <5>2. sema_wait(k, sema[r]).sema.waiters = Append(sema[r].waiters, k.current)
          BY <3>1 DEF sema_wait, Semaphore
        <5>3. ToSet(sema[r].waiters) \subseteq ToSet(sema_wait(k, sema[r]).sema.waiters)
          BY <1>1, <3>1, <5>2, AppendFacts, IInvFacts
        <5> QED BY <5>1, <5>3
      <4> QED BY <2>2, <4>1, <4>2 DEF sema_down, sema_try_down
    <3>3. \A s \in Sema : Asleep(s) \subseteq Asleep(s)'
      BY <3>1, <3>2 DEF Asleep, SemaTypes
    <3> QED BY <3>3
  <2>3. ASSUME NEW r \in Sema, Raise(r)
        PROVE  A
    <3> SUFFICES ASSUME NEW s \in Sema, NEW t \in Asleep(s) \ Asleep(s)',
                        NEW u \in Asleep(s)'
                 PROVE  k.priority[u] <= k.priority[t]
      OBVIOUS
    <3>1. /\ Asleep(r)' = Asleep(r) \ {Waiter(r)}
          /\ \A q \in Sema \ {r} : Asleep(q)' = Asleep(q)
      BY <1>1, <2>3, RaiseFacts DEF SemaInv, Asleep
    <3>2. s = r /\ t = Waiter(r) /\ u \in Asleep(r)
      BY <3>1
    <3>3. Waiter(r) # NULL
      BY <1>1, <3>2, WaiterFacts
    <3> QED BY <1>1, <3>2, <3>3, WaiterFacts
  <2>4. sema' = sema \/ (\E t \in Thread, r \in Sema : sema_down(t, r) \/ sema_try_down(t, r))
          \/ \E r \in Sema : Raise(r)
    BY <1>1 DEF SemaNext, SemaUp, IntrSemaUp, SemaUpYield, Elsewhere, SemaInterrupt, semaVars
  <2> HIDE DEF A
  <2> QED BY <2>1, <2>2, <2>3, <2>4
<1>2. IInv /\ SemaInv /\ [SemaNext]_allVars => [A]_allVars
  BY <1>1
<1> QED BY <1>2, SemaInvariance, PTL DEF SemaSpec, WakesHighest
=============================================================================
