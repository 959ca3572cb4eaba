--------------------------- MODULE ThreadsProofs ---------------------------
(***************************************************************************)
(* The safety of the thread system, for every set of pages, every range of *)
(* priorities and every slice: IInv is inductive and implies the           *)
(* invariants of Threads.  Four parts: sequences without repetitions, the  *)
(* form every list of the kernel has; the scheduler's operations on a      *)
(* kernel state; the inductive invariant and the theorems; and what the    *)
(* modules that add waiting to Threads need about its steps.               *)
(***************************************************************************)
EXTENDS Threads, SequenceTheorems, WellFoundedInduction, TLAPS

-----------------------------------------------------------------------------
(* Sequences without repetitions, and least and greatest numbers.          *)

\* A set of naturals that is not empty has a least member.
LEMMA MinExists ==
  ASSUME NEW S, S \subseteq Nat, S # {}
  PROVE  /\ Min(S) \in S
         /\ \A y \in S : Min(S) <= y
<1>1. PICK x \in S : \A y \in S : ~ (<<y, x>> \in OpToRel(<, Nat))
  BY NatLessThanWellFounded, WFMin
<1>2. \A y \in S : x <= y
  <2>1. TAKE y \in S
  <2>2. ~ (y < x)
    BY <1>1 DEF OpToRel
  <2> QED BY <2>2
<1> QED BY <1>2 DEF Min

\* A bounded set of naturals that is not empty has a greatest member.
LEMMA MaxExists ==
  ASSUME NEW n \in Nat, NEW S, S \subseteq 0..n, S # {}
  PROVE  /\ Max(S) \in S
         /\ \A y \in S : y <= Max(S)
<1> DEFINE R == {n - s : s \in S}
<1>1. R \subseteq Nat /\ R # {}
  OBVIOUS
<1>2. Min(R) \in R /\ \A y \in R : Min(R) <= y
  BY <1>1, MinExists
<1>3. PICK s \in S : Min(R) = n - s
  BY <1>2
<1>4. \A y \in S : s >= y
  <2>1. TAKE y \in S
  <2>2. n - s <= n - y
    BY <1>2, <1>3
  <2> QED BY <2>2
<1> QED BY <1>4 DEF Max

\* The elements of a sequence, read off by index or by Contains.
LEMMA ToSetFacts ==
  ASSUME NEW S, NEW q \in Seq(S)
  PROVE  /\ ToSet(q) \subseteq S
         /\ \A x : x \in ToSet(q) <=> \E i \in 1..Len(q) : q[i] = x
         /\ \A x : x \in ToSet(q) <=> Contains(q, x)
         /\ q = << >> <=> ToSet(q) = {}
<1>1. DOMAIN q = 1..Len(q) /\ Len(q) \in Nat /\ \A i \in 1..Len(q) : q[i] \in S
  OBVIOUS
<1>2. \A x : x \in ToSet(q) <=> \E i \in 1..Len(q) : q[i] = x
  BY <1>1 DEF ToSet
<1>3. q # << >> => q[1] \in ToSet(q) /\ 1 \in 1..Len(q)
  BY <1>1, <1>2
<1>4. q = << >> => ToSet(q) = {}
  BY <1>1, <1>2
<1> QED BY <1>1, <1>2, <1>3, <1>4 DEF Contains

\* The empty queue.
LEMMA EmptyList ==
  ASSUME NEW S
  PROVE  << >> \in Seq(S) /\ ToSet(<< >>) = {} /\ IsInjective(<< >>)
<1>1. << >> \in Seq(S) /\ DOMAIN << >> = {}
  OBVIOUS
<1> QED BY <1>1 DEF ToSet, IsInjective

\* Appending an element that is not in the queue keeps it free of repetitions.
LEMMA AppendFacts ==
  ASSUME NEW S, NEW q \in Seq(S), NEW x \in S
  PROVE  /\ Append(q, x) \in Seq(S)
         /\ ToSet(Append(q, x)) = ToSet(q) \cup {x}
         /\ IsInjective(q) /\ x \notin ToSet(q) => IsInjective(Append(q, x))
<1> DEFINE r == Append(q, x)
<1>1. /\ r \in Seq(S) /\ Len(r) = Len(q) + 1 /\ r[Len(q) + 1] = x
      /\ \A i \in 1..Len(q) : r[i] = q[i]
      /\ DOMAIN r = 1..Len(q) + 1 /\ DOMAIN q = 1..Len(q) /\ Len(q) \in Nat
  BY AppendProperties
<1>2. \A y : y \in ToSet(r) <=> y \in ToSet(q) \/ y = x
  <2>1. TAKE y
  <2>2. y \in ToSet(r) <=> \E i \in 1..Len(q) + 1 : r[i] = y
    BY <1>1, ToSetFacts
  <2>3. y \in ToSet(q) <=> \E i \in 1..Len(q) : q[i] = y
    BY ToSetFacts
  <2>4. \A i \in 1..Len(q) + 1 : i \in 1..Len(q) \/ i = Len(q) + 1
    BY <1>1
  <2>5. Len(q) + 1 \in 1..Len(q) + 1 /\ \A i \in 1..Len(q) : i \in 1..Len(q) + 1
    BY <1>1
  <2> HIDE DEF r
  <2> QED BY <1>1, <2>2, <2>3, <2>4, <2>5
<1>3. IsInjective(q) /\ x \notin ToSet(q) => IsInjective(r)
  <2>1. \A i \in 1..Len(q) : q[i] \in ToSet(q)
    BY <1>1, ToSetFacts
  <2> QED BY <1>1, <2>1 DEF IsInjective
<1> QED BY <1>1, <1>2, <1>3

\* Taking the head off a queue.
LEMMA TailFacts ==
  ASSUME NEW S, NEW q \in Seq(S), q # << >>
  PROVE  /\ Tail(q) \in Seq(S)
         /\ Head(q) \in S /\ Head(q) \in ToSet(q)
         /\ IsInjective(q) => /\ ToSet(Tail(q)) = ToSet(q) \ {Head(q)}
                             /\ IsInjective(Tail(q))
<1> DEFINE r == Tail(q)
<1>1. /\ r \in Seq(S) /\ Len(r) = Len(q) - 1 /\ Len(q) \in Nat \ {0}
      /\ \A i \in 1..Len(q) - 1 : r[i] = q[i + 1]
      /\ Head(q) = q[1] /\ Head(q) \in S
      /\ DOMAIN r = 1..Len(q) - 1 /\ DOMAIN q = 1..Len(q)
  BY HeadTailProperties
<1>2. Head(q) \in ToSet(q)
  BY <1>1, ToSetFacts
<1>3. ASSUME IsInjective(q)
      PROVE  IsInjective(r) /\ ToSet(r) = ToSet(q) \ {Head(q)}
  <2> HIDE DEF r
  <2>1. IsInjective(r)
    <3>1. SUFFICES ASSUME NEW i \in 1..Len(q) - 1, NEW j \in 1..Len(q) - 1,
                          r[i] = r[j]
                   PROVE  i = j
      BY <1>1 DEF IsInjective
    <3>2. i + 1 \in 1..Len(q) /\ j + 1 \in 1..Len(q) /\ q[i + 1] = q[j + 1]
      BY <1>1, <3>1
    <3>3. i + 1 = j + 1
      BY <1>1, <1>3, <3>2 DEF IsInjective
    <3> QED BY <1>1, <3>3
  <2>2. \A y : y \in ToSet(r) <=> y \in ToSet(q) /\ y # q[1]
    <3>1. TAKE y
    <3>2. y \in ToSet(r) <=> \E i \in 1..Len(q) - 1 : q[i + 1] = y
      BY <1>1, ToSetFacts
    <3>3. y \in ToSet(q) <=> \E i \in 1..Len(q) : q[i] = y
      BY ToSetFacts
    <3>4. \A i \in 1..Len(q) - 1 : i + 1 \in 1..Len(q) /\ i + 1 # 1
      BY <1>1
    <3>5. \A i \in 1..Len(q) : i = 1 \/ (i - 1 \in 1..Len(q) - 1 /\ i = (i - 1) + 1)
      BY <1>1
    <3>6. \A i \in 1..Len(q) : q[i] = q[1] => i = 1
      BY <1>1, <1>3 DEF IsInjective
    <3> QED BY <3>2, <3>3, <3>4, <3>5, <3>6
  <2> QED BY <1>1, <2>1, <2>2
<1> QED BY <1>1, <1>2, <1>3

\* Removing an element from a queue that holds it at most once.
LEMMA RemoveFacts ==
  ASSUME NEW S, NEW q \in Seq(S), NEW x, IsInjective(q)
  PROVE  /\ RemoveFirst(q, x) \in Seq(S)
         /\ ToSet(RemoveFirst(q, x)) = ToSet(q) \ {x}
         /\ IsInjective(RemoveFirst(q, x))
<1>1. DOMAIN q = 1..Len(q) /\ Len(q) \in Nat /\ \A i \in 1..Len(q) : q[i] \in S
  OBVIOUS
<1>2. CASE x \notin ToSet(q)
  <2>1. RemoveFirst(q, x) = q
    BY <1>1, <1>2, ToSetFacts DEF RemoveFirst
  <2> QED BY <1>2, <2>1
<1>3. CASE x \in ToSet(q)
  <2> DEFINE I == {i \in 1..Len(q) : q[i] = x}
             m == Min(I)
             r == RemoveFirst(q, x)
  <2>1. I # {} /\ I \subseteq Nat
    BY <1>1, <1>3, ToSetFacts
  <2>2. m \in 1..Len(q) /\ q[m] = x
    BY <2>1, MinExists
  <2>3. RemoveFirst(q, x) = SubSeq(q, 1, m - 1) \o SubSeq(q, m + 1, Len(q))
    BY <2>1 DEF RemoveFirst, SelectInSeq, RemoveAt
  <2> HIDE DEF m, I
  <2> DEFINE u == SubSeq(q, 1, m - 1)
             v == SubSeq(q, m + 1, Len(q))
  <2>4. /\ u \in Seq(S) /\ Len(u) = m - 1
        /\ \A i \in 1..m - 1 : u[i] = q[i]
    <3>1. \A i \in 1..m - 1 : q[i] \in S
      BY <1>1, <2>2
    <3>2. /\ u \in Seq(S) /\ Len(u) = IF 1 <= m - 1 THEN (m - 1) - 1 + 1 ELSE 0
          /\ \A i \in 1..(m - 1) - 1 + 1 : u[i] = q[1 + i - 1]
      BY <1>1, <2>2, <3>1, SubSeqProperties
    <3> HIDE DEF u
    <3> QED BY <1>1, <2>2, <3>2
  <2>5. /\ v \in Seq(S) /\ Len(v) = Len(q) - m
        /\ \A i \in 1..Len(q) - m : v[i] = q[m + i]
    <3>1. \A i \in m + 1..Len(q) : q[i] \in S
      BY <1>1, <2>2
    <3>2. /\ v \in Seq(S)
          /\ Len(v) = IF m + 1 <= Len(q) THEN Len(q) - (m + 1) + 1 ELSE 0
          /\ \A i \in 1..Len(q) - (m + 1) + 1 : v[i] = q[m + 1 + i - 1]
      BY <1>1, <2>2, <3>1, SubSeqProperties
    <3> HIDE DEF v
    <3>3. Len(q) - (m + 1) + 1 = Len(q) - m
      BY <1>1, <2>2
    <3>4. Len(v) = Len(q) - m
      <4>1. CASE m + 1 <= Len(q)
        BY <3>2, <3>3, <4>1
      <4>2. CASE ~ (m + 1 <= Len(q))
        <5>1. m \in Nat /\ Len(q) \in Nat /\ m <= Len(q)
          BY <1>1, <2>2
        <5>2. m = Len(q)
          BY <4>2, <5>1
        <5>3. Len(q) - m = 0
          BY <5>1, <5>2
        <5> QED BY <3>2, <4>2, <5>3
      <4> QED BY <4>1, <4>2
    <3>5. \A i \in 1..Len(q) - m : v[i] = q[m + i]
      <4>1. TAKE i \in 1..Len(q) - m
      <4>2. i \in 1..Len(q) - (m + 1) + 1
        BY <3>3
      <4>3. m + 1 + i - 1 = m + i
        BY <2>2
      <4> QED BY <3>2, <4>2, <4>3
    <3> QED BY <3>2, <3>4, <3>5
  <2> HIDE DEF r, u, v
  <2>6. /\ r \in Seq(S) /\ Len(r) = Len(q) - 1
        /\ \A i \in 1..Len(q) - 1 : r[i] = IF i <= m - 1 THEN u[i] ELSE v[i - (m - 1)]
    <3>1. r = u \o v
      BY <2>3 DEF r, u, v
    <3>2. /\ u \o v \in Seq(S) /\ Len(u \o v) = Len(u) + Len(v)
          /\ \A i \in 1..Len(u) + Len(v) :
               (u \o v)[i] = IF i <= Len(u) THEN u[i] ELSE v[i - Len(u)]
      BY <2>4, <2>5, ConcatProperties
    <3>3. Len(u) + Len(v) = Len(q) - 1
      BY <1>1, <2>2, <2>4, <2>5
    <3> QED BY <2>4, <3>1, <3>2, <3>3
  <2>7. \A i \in 1..Len(q) - 1 : r[i] = IF i < m THEN q[i] ELSE q[i + 1]
    <3>1. TAKE i \in 1..Len(q) - 1
    <3>2. CASE i < m
      BY <1>1, <2>2, <2>4, <2>6, <3>2
    <3>3. CASE ~ (i < m)
      <4>1. ~ (i <= m - 1) /\ i - (m - 1) \in 1..Len(q) - m
        BY <1>1, <2>2, <3>3
      <4>2. m + (i - (m - 1)) = i + 1
        BY <1>1, <2>2
      <4> QED BY <2>5, <2>6, <3>3, <4>1, <4>2
    <3> QED BY <3>2, <3>3
  <2>8. \A i \in 1..Len(q) : q[i] = x => i = m
    BY <1>1, <2>2 DEF IsInjective
  <2>9. \A y : y \in ToSet(r) <=> y \in ToSet(q) /\ y # x
    <3>1. TAKE y
    <3>2. y \in ToSet(r) <=> \E i \in 1..Len(q) - 1 : r[i] = y
      BY <2>6, ToSetFacts
    <3>3. y \in ToSet(q) <=> \E i \in 1..Len(q) : q[i] = y
      BY ToSetFacts
    <3>4. ASSUME NEW i \in 1..Len(q) - 1, r[i] = y
          PROVE  y \in ToSet(q) /\ y # x
      <4>1. CASE i < m
        BY <1>1, <2>2, <2>7, <2>8, <3>3, <3>4, <4>1
      <4>2. CASE ~ (i < m)
        <5>1. i + 1 \in 1..Len(q) /\ i + 1 # m /\ q[i + 1] = y
          BY <1>1, <2>2, <2>7, <3>4, <4>2
        <5> QED BY <2>8, <3>3, <5>1
      <4> QED BY <4>1, <4>2
    <3>5. ASSUME NEW i \in 1..Len(q), q[i] = y, y # x
          PROVE  \E j \in 1..Len(q) - 1 : r[j] = y
      <4>1. CASE i < m
        <5>1. i \in 1..Len(q) - 1 /\ r[i] = y
          BY <1>1, <2>2, <2>7, <3>5, <4>1
        <5> QED BY <5>1
      <4>2. CASE ~ (i < m)
        <5>1. i # m
          BY <2>2, <3>5
        <5>2. i - 1 \in 1..Len(q) - 1 /\ ~ (i - 1 < m) /\ (i - 1) + 1 = i
          BY <1>1, <2>2, <4>2, <5>1
        <5>3. r[i - 1] = y
          BY <2>7, <3>5, <5>2
        <5> QED BY <5>2, <5>3
      <4> QED BY <4>1, <4>2
    <3> QED BY <3>2, <3>3, <3>4, <3>5
  <2>10. IsInjective(r)
    <3>1. SUFFICES ASSUME NEW i \in 1..Len(q) - 1, NEW j \in 1..Len(q) - 1,
                          r[i] = r[j]
                   PROVE  i = j
      BY <2>6 DEF IsInjective
    <3> DEFINE f(n) == IF n < m THEN n ELSE n + 1
    <3>2. f(i) \in 1..Len(q) /\ f(j) \in 1..Len(q) /\ q[f(i)] = q[f(j)]
      BY <1>1, <2>2, <2>7, <3>1
    <3>3. f(i) = f(j)
      <4> HIDE DEF f
      <4> QED BY <1>1, <3>2 DEF IsInjective
    <3> QED BY <1>1, <2>2, <3>3
  <2> QED BY <2>6, <2>9, <2>10 DEF r
<1> QED BY <1>2, <1>3

-----------------------------------------------------------------------------
(* Choosing the next thread.                                               *)

\* The highest priority with a ready thread.
LEMMA TopFacts ==
  ASSUME NEW m \in KernelState, NonEmpty(m) # {}
  PROVE  /\ TopPriority(m) \in Priority
         /\ m.ready_queues[TopPriority(m)] # << >>
         /\ \A p \in NonEmpty(m) : p <= TopPriority(m)
<1>1. NonEmpty(m) \subseteq 0..PRI_MAX
  BY DEF NonEmpty, Priority
<1>2. /\ Max(NonEmpty(m)) \in NonEmpty(m)
      /\ \A p \in NonEmpty(m) : p <= Max(NonEmpty(m))
  BY <1>1, MaxExists, SchedAssumption
<1> QED BY <1>2 DEF TopPriority, NonEmpty

\* The type of the ready queues.
LEMMA QueueType ==
  ASSUME NEW m \in KernelState
  PROVE  /\ m.ready_queues \in [Priority -> Seq(Thread)]
         /\ \A p \in Priority : m.ready_queues[p] \in Seq(Thread)
<1>1. m.ready_queues \in [Priority -> Seq(Thread)]
  BY DEF KernelState
<1> QED BY <1>1

\* What taking the next thread off its queue does, with a queue to take it from.
LEMMA PopFacts ==
  ASSUME NEW m \in KernelState, NonEmpty(m) # {}
  PROVE  LET p == TopPriority(m)
             q == m.ready_queues[p]
         IN  /\ next_thread_to_run(m) = Head(q)
             /\ Head(q) \in Thread
             /\ PopNext(m) = [m EXCEPT !.ready_queues = [@ EXCEPT ![p] = Tail(q)]]
             /\ [m.ready_queues EXCEPT ![p] = Tail(q)] \in [Priority -> Seq(Thread)]
<1> DEFINE p == TopPriority(m)
           q == m.ready_queues[p]
<1>1. p \in Priority /\ q \in Seq(Thread) /\ q # << >>
  BY TopFacts, QueueType
<1>2. Head(q) \in Thread /\ Tail(q) \in Seq(Thread)
  BY <1>1, TailFacts
<1>3. [m.ready_queues EXCEPT ![p] = Tail(q)] \in [Priority -> Seq(Thread)]
  <2> HIDE DEF p
  <2> QED BY <1>1, <1>2, QueueType
<1> QED BY <1>2, <1>3 DEF next_thread_to_run, PopNext

\* schedule queues the page of the thread it leaves.
Doomed(m) ==
  /\ m.current # next_thread_to_run(m)
  /\ m.status[m.current] = "dying"
  /\ m.current # initial_thread

\* What schedule does to each field of the kernel state.
LEMMA ScheduleFacts ==
  ASSUME NEW m \in KernelState, next_thread_to_run(m) # NULL
  PROVE  LET next == next_thread_to_run(m)
             k2   == schedule(m)
         IN  /\ next \in Thread
             /\ k2 \in KernelState
             /\ k2.current = next
             /\ k2.idle_thread = m.idle_thread
             /\ k2.status = [m.status EXCEPT ![next] = "running"]
             /\ k2.priority = m.priority
             /\ k2.base_priority = m.base_priority
             /\ k2.ready_queues = PopNext(m).ready_queues
             /\ k2.destruction_req = IF Doomed(m)
                                     THEN Append(m.destruction_req, m.current)
                                     ELSE m.destruction_req
             /\ k2.thread_ticks = 0
             /\ k2.in_external_intr = m.in_external_intr
             /\ k2.yield_on_return = m.yield_on_return
             /\ k2.panic = m.panic
<1> DEFINE next == next_thread_to_run(m)
           rq == PopNext(m).ready_queues
           dr == IF Doomed(m) THEN Append(m.destruction_req, m.current)
                 ELSE m.destruction_req
<1>1. next \in Thread /\ rq \in [Priority -> Seq(Thread)]
  <2>1. CASE NonEmpty(m) = {}
    BY <2>1 DEF next_thread_to_run, PopNext, KernelState
  <2>2. CASE NonEmpty(m) # {}
    <3> DEFINE f == [m.ready_queues EXCEPT ![TopPriority(m)] =
                       Tail(m.ready_queues[TopPriority(m)])]
    <3>1. PopNext(m) = [m EXCEPT !.ready_queues = f]
      BY <2>2, PopFacts
    <3>2. f \in [Priority -> Seq(Thread)] /\ next \in Thread
      BY <2>2, PopFacts
    <3> HIDE DEF f
    <3> QED BY <3>1, <3>2 DEF KernelState
  <2> QED BY <2>1, <2>2
<1>2. PopNext(m) = [m EXCEPT !.ready_queues = rq]
  <2>1. CASE NonEmpty(m) = {}
    BY <2>1 DEF PopNext, KernelState
  <2>2. CASE NonEmpty(m) # {}
    <3> DEFINE f == [m.ready_queues EXCEPT ![TopPriority(m)] =
                       Tail(m.ready_queues[TopPriority(m)])]
    <3>1. PopNext(m) = [m EXCEPT !.ready_queues = f]
      BY <2>2, PopFacts
    <3> HIDE DEF f
    <3> QED BY <3>1 DEF KernelState
  <2> QED BY <2>1, <2>2
<1>3. dr \in Seq(Thread)
  BY AppendFacts DEF KernelState
<1>4. schedule(m) = [m EXCEPT !.ready_queues = rq, !.current = next,
                              !.status = [m.status EXCEPT ![next] = "running"],
                              !.thread_ticks = 0, !.destruction_req = dr]
  BY <1>2 DEF schedule, Doomed, KernelState
<1>5. [m.status EXCEPT ![next] = "running"] \in [Thread -> Status]
  BY <1>1 DEF KernelState, Status
<1> DEFINE st == [m.status EXCEPT ![next] = "running"]
           k2 == [m EXCEPT !.ready_queues = rq, !.current = next, !.status = st,
                           !.thread_ticks = 0, !.destruction_req = dr]
<1> HIDE DEF next, rq, dr, st
<1>6. k2 \in KernelState
  BY <1>1, <1>3, <1>5 DEF KernelState, st
<1>7. /\ k2.current = next /\ k2.idle_thread = m.idle_thread /\ k2.status = st
      /\ k2.priority = m.priority /\ k2.base_priority = m.base_priority
      /\ k2.ready_queues = rq /\ k2.destruction_req = dr /\ k2.thread_ticks = 0
      /\ k2.in_external_intr = m.in_external_intr
      /\ k2.yield_on_return = m.yield_on_return /\ k2.panic = m.panic
  BY DEF KernelState
<1>8. schedule(m) = k2
  BY <1>4 DEF st
<1> HIDE DEF k2
<1> QED BY <1>1, <1>6, <1>7, <1>8 DEF next, rq, dr, st

-----------------------------------------------------------------------------
(* What holds of the kernel state between two operations, and what must    *)
(* hold when schedule is called.                                           *)

\* Each ready queue holds, once, the ready threads of its priority; the idle
\* thread is in none of them.
Queues(m) ==
  \A p \in Priority :
    /\ IsInjective(m.ready_queues[p])
    /\ \A t \in Thread :
         t \in ToSet(m.ready_queues[p]) <=>
           /\ m.status[t] = "ready"
           /\ m.priority[t] = p
           /\ t # m.idle_thread

Requests(m) ==
  /\ IsInjective(m.destruction_req)
  /\ \A t \in ToSet(m.destruction_req) :
       m.status[t] = "dying" /\ t # initial_thread

IdleAlive(m) ==
  m.idle_thread # NULL => m.status[m.idle_thread] \notin {"free", "dying"}

Sound(m) ==
  /\ m \in KernelState
  /\ ~m.panic
  /\ Queues(m)
  /\ Requests(m)
  /\ IdleAlive(m)
  /\ \A t \in Thread : m.status[t] = "running" <=> t = m.current

Descheduled(m) ==
  /\ m \in KernelState
  /\ ~m.panic
  /\ Queues(m)
  /\ Requests(m)
  /\ IdleAlive(m)
  /\ \A t \in Thread : m.status[t] # "running"
  /\ m.current \notin ToSet(m.destruction_req)

\* There is a thread to run.
Runnable(m) == m.idle_thread # NULL \/ NonEmpty(m) # {}

\* What the rest of the system sees of a thread's status: asleep, dead or
\* neither.
SameClass(m, k2, t) ==
  /\ k2.status[t] = "blocked" <=> m.status[t] = "blocked"
  /\ k2.status[t] \in {"free", "dying"} <=> m.status[t] \in {"free", "dying"}

\* The types of the fields of a kernel state.
LEMMA KernelTypes ==
  ASSUME NEW m \in KernelState
  PROVE  /\ m.current \in Thread
         /\ m.idle_thread \in Thread \cup {NULL}
         /\ m.status \in [Thread -> Status]
         /\ m.priority \in [Thread -> Priority]
         /\ m.base_priority \in [Thread -> Priority]
         /\ m.ready_queues \in [Priority -> Seq(Thread)]
         /\ m.destruction_req \in Seq(Thread)
         /\ m.thread_ticks \in Nat
         /\ m.in_external_intr \in BOOLEAN
         /\ m.yield_on_return \in BOOLEAN
         /\ m.panic \in BOOLEAN
BY DEF KernelState

\* The thread that is chosen is ready, or the idle thread, and the queues
\* lose it.
LEMMA NextFacts ==
  ASSUME NEW m, Descheduled(m), Runnable(m)
  PROVE  LET next == next_thread_to_run(m) IN
         /\ next # NULL
         /\ next \in Thread
         /\ m.status[next] = "ready" \/ next = m.idle_thread
         /\ \A p \in Priority :
              /\ IsInjective(PopNext(m).ready_queues[p])
              /\ ToSet(PopNext(m).ready_queues[p]) =
                   ToSet(m.ready_queues[p]) \ {next}
<1>1. m \in KernelState /\ Queues(m) /\ NULL \notin Thread
  BY SchedAssumption DEF Descheduled
<1>2. CASE NonEmpty(m) = {}
  <2>1. next_thread_to_run(m) = m.idle_thread /\ PopNext(m) = m
    BY <1>2 DEF next_thread_to_run, PopNext
  <2>2. m.idle_thread # NULL /\ m.idle_thread \in Thread
    BY <1>1, <1>2, KernelTypes DEF Runnable
  <2>3. \A p \in Priority : m.ready_queues[p] = << >>
    BY <1>2 DEF NonEmpty
  <2>4. \A p \in Priority : ToSet(m.ready_queues[p]) = {}
    BY <2>3, EmptyList
  <2> QED BY <1>1, <2>1, <2>2, <2>4 DEF Queues
<1>3. CASE NonEmpty(m) # {}
  <2> DEFINE top == TopPriority(m)
             q == m.ready_queues[top]
             next == Head(q)
  <2>1. top \in Priority /\ q \in Seq(Thread) /\ q # << >>
    BY <1>1, <1>3, TopFacts, QueueType
  <2>2. IsInjective(q)
    BY <1>1, <2>1 DEF Queues
  <2>3. /\ next \in Thread /\ next \in ToSet(q)
        /\ ToSet(Tail(q)) = ToSet(q) \ {next} /\ IsInjective(Tail(q))
    BY <2>1, <2>2, TailFacts
  <2>4. next_thread_to_run(m) = next
    BY <1>3 DEF next_thread_to_run
  <2>5. PopNext(m).ready_queues = [m.ready_queues EXCEPT ![top] = Tail(q)]
    BY <1>1, <1>3 DEF PopNext, KernelState
  <2>6. m.ready_queues \in [Priority -> Seq(Thread)]
    BY <1>1, KernelTypes
  <2> HIDE DEF top, next
  <2>7. m.status[next] = "ready" /\ m.priority[next] = top
    BY <1>1, <2>1, <2>3 DEF Queues
  <2>8. ASSUME NEW p \in Priority
        PROVE  /\ IsInjective(PopNext(m).ready_queues[p])
               /\ ToSet(PopNext(m).ready_queues[p]) =
                    ToSet(m.ready_queues[p]) \ {next}
    <3>1. CASE p = top
      BY <2>1, <2>3, <2>5, <2>6, <3>1
    <3>2. CASE p # top
      <4>1. PopNext(m).ready_queues[p] = m.ready_queues[p]
        BY <2>5, <2>6, <3>2
      <4>2. next \notin ToSet(m.ready_queues[p])
        BY <1>1, <2>3, <2>7, <3>2 DEF Queues
      <4> QED BY <1>1, <4>1, <4>2 DEF Queues
    <3> QED BY <3>1, <3>2
  <2> QED BY <1>1, <2>3, <2>4, <2>7, <2>8
<1> QED BY <1>2, <1>3

\* The thread that runs is not idle and not of lower priority than a thread
\* in the queues, if there is any.
Highest(m) ==
  \A t \in Thread :
    Queued(m, t) => /\ m.priority[t] <= m.priority[m.current]
                    /\ m.current # m.idle_thread

\* schedule, called with no thread on the CPU and one to run, restores soundness
\* and picks the highest priority there is.
LEMMA ScheduleSound ==
  ASSUME NEW m, Descheduled(m), Runnable(m)
  PROVE  LET k2 == schedule(m) IN
         /\ Sound(k2)
         /\ m.status[k2.current] = "ready" \/ k2.current = m.idle_thread
         /\ \A t \in Thread \ {k2.current} : k2.status[t] = m.status[t]
         /\ Highest(k2)
         /\ k2.idle_thread = m.idle_thread
         /\ k2.in_external_intr = m.in_external_intr
         /\ k2.thread_ticks = 0
<1> DEFINE k2 == schedule(m)
           next == next_thread_to_run(m)
           rq == PopNext(m).ready_queues
<1>1. m \in KernelState /\ NULL \notin Thread
  BY SchedAssumption DEF Descheduled
<1>2. /\ next # NULL /\ next \in Thread
      /\ m.status[next] = "ready" \/ next = m.idle_thread
      /\ \A p \in Priority :
           IsInjective(rq[p]) /\ ToSet(rq[p]) = ToSet(m.ready_queues[p]) \ {next}
  BY NextFacts
<1>3. /\ k2 \in KernelState
      /\ k2.current = next
      /\ k2.idle_thread = m.idle_thread
      /\ k2.status = [m.status EXCEPT ![next] = "running"]
      /\ k2.priority = m.priority
      /\ k2.ready_queues = rq
      /\ k2.destruction_req = IF Doomed(m)
                              THEN Append(m.destruction_req, m.current)
                              ELSE m.destruction_req
      /\ k2.thread_ticks = 0
      /\ k2.in_external_intr = m.in_external_intr
      /\ k2.panic = m.panic
  BY <1>1, <1>2, ScheduleFacts
<1> HIDE DEF k2, rq
<1>4. /\ k2.status[next] = "running"
      /\ \A t \in Thread \ {next} : k2.status[t] = m.status[t]
  BY <1>1, <1>2, <1>3, KernelTypes
<1>5. Doomed(m) => /\ m.current # next /\ m.status[m.current] = "dying"
                   /\ m.current # initial_thread
  BY DEF Doomed
<1>highest. Highest(k2)
  <2> SUFFICES ASSUME NEW t \in Thread, Queued(k2, t)
               PROVE  k2.priority[t] <= k2.priority[next] /\ next # k2.idle_thread
    BY <1>3 DEF Highest
  <2>1. PICK p \in Priority : Contains(rq[p], t)
    BY <1>3 DEF Queued
  <2>2. rq[p] \in Seq(Thread)
    BY <1>3, QueueType
  <2>3. t \in ToSet(m.ready_queues[p]) /\ m.ready_queues[p] \in Seq(Thread)
    <3>1. t \in ToSet(rq[p])
      BY <2>1, <2>2, ToSetFacts
    <3> QED BY <1>1, <1>2, <3>1, QueueType
  <2>4. p \in NonEmpty(m) /\ m.priority[t] = p
    <3>1. m.ready_queues[p] # << >>
      BY <2>3, EmptyList
    <3> QED BY <2>3, <3>1 DEF NonEmpty, Descheduled, Queues
  <2> DEFINE top == TopPriority(m)
             q == m.ready_queues[top]
  <2>5. top \in Priority /\ q # << >> /\ p <= top
    BY <1>1, <2>4, TopFacts
  <2>6. next = Head(q)
    BY <2>4 DEF next_thread_to_run
  <2>7. Head(q) \in ToSet(q)
    <3>1. q \in Seq(Thread)
      BY <1>1, <2>5, QueueType
    <3> HIDE DEF q
    <3> QED BY <2>5, <3>1, TailFacts
  <2> HIDE DEF next, top
  <2>8. m.priority[next] = top /\ next # m.idle_thread
    BY <1>2, <2>5, <2>6, <2>7 DEF Descheduled, Queues
  <2> QED BY <1>3, <2>4, <2>5, <2>8
<1> HIDE DEF next
<1>6. Queues(k2)
  <2> SUFFICES ASSUME NEW p \in Priority
               PROVE  /\ IsInjective(rq[p])
                      /\ \A t \in Thread :
                           t \in ToSet(rq[p]) <=>
                             /\ k2.status[t] = "ready"
                             /\ m.priority[t] = p
                             /\ t # m.idle_thread
    BY <1>3 DEF Queues
  <2> QED BY <1>2, <1>4 DEF Descheduled, Queues
<1>7. Requests(k2)
  <2>1. \A t \in ToSet(m.destruction_req) :
          t \in Thread /\ m.status[t] = "dying" /\ t # initial_thread
    BY <1>1, KernelTypes, ToSetFacts DEF Descheduled, Requests
  <2>2. next \notin ToSet(m.destruction_req)
    BY <1>1, <1>2, <2>1 DEF Descheduled, IdleAlive
  <2>3. CASE ~Doomed(m)
    BY <1>3, <1>4, <2>1, <2>2, <2>3 DEF Descheduled, Requests
  <2>4. CASE Doomed(m)
    <3>1. /\ IsInjective(k2.destruction_req)
          /\ ToSet(k2.destruction_req) = ToSet(m.destruction_req) \cup {m.current}
      BY <1>1, <1>3, <2>4, AppendFacts, KernelTypes DEF Descheduled, Requests
    <3>2. m.current \in Thread
      BY <1>1, KernelTypes
    <3> QED BY <1>4, <1>5, <2>1, <2>2, <2>4, <3>1, <3>2 DEF Requests
  <2> QED BY <2>3, <2>4
<1>8. IdleAlive(k2)
  BY <1>1, <1>3, <1>4, KernelTypes DEF Descheduled, IdleAlive
<1>9. \A t \in Thread : k2.status[t] = "running" <=> t = next
  BY <1>4 DEF Descheduled
<1>10. Sound(k2)
  BY <1>3, <1>6, <1>7, <1>8, <1>9 DEF Sound, Descheduled
<1> QED BY <1>2, <1>3, <1>4, <1>10, <1>highest DEF k2

-----------------------------------------------------------------------------
(* The operations keep the kernel state sound.                             *)

\* do_schedule, up to its call of schedule: the requested pages are freed and
\* the current thread gets the status it leaves with.
Leaving(m, s) == [FreePages(m) EXCEPT !.status[m.current] = s]

\* What do_schedule has done when it calls schedule: the pages that were queued
\* are free and the current thread has its new status.
LEMMA LeavingFacts ==
  ASSUME NEW m \in KernelState, NEW s \in Status
  PROVE  LET k1 == Leaving(m, s) IN
         /\ k1 \in KernelState
         /\ k1.current = m.current
         /\ k1.idle_thread = m.idle_thread
         /\ k1.priority = m.priority
         /\ k1.ready_queues = m.ready_queues
         /\ k1.destruction_req = << >>
         /\ k1.in_external_intr = m.in_external_intr
         /\ k1.panic = m.panic
         /\ k1.status[m.current] = s
         /\ \A t \in Thread \ {m.current} :
              k1.status[t] = IF t \in ToSet(m.destruction_req) THEN "free"
                             ELSE m.status[t]
<1> DEFINE st == [t \in Thread |-> IF Contains(m.destruction_req, t) THEN "free"
                                   ELSE m.status[t]]
           st2 == [st EXCEPT ![m.current] = s]
<1>1. st \in [Thread -> Status] /\ m.current \in Thread
  BY KernelTypes DEF Status
<1>2. << >> \in Seq(Thread)
  BY EmptyList
<1>3. \A t \in Thread : t \in ToSet(m.destruction_req) <=> Contains(m.destruction_req, t)
  BY KernelTypes, ToSetFacts
<1>4. FreePages(m) = [m EXCEPT !.status = st, !.destruction_req = << >>]
  BY DEF FreePages
<1>5. \A t \in Thread : st[t] = IF t \in ToSet(m.destruction_req) THEN "free"
                                 ELSE m.status[t]
  BY <1>3
<1> HIDE DEF st
<1>6. Leaving(m, s) = [m EXCEPT !.status = st2, !.destruction_req = << >>]
  BY <1>4 DEF Leaving, KernelState
<1>7. st2 \in [Thread -> Status] /\ st2[m.current] = s
      /\ \A t \in Thread \ {m.current} : st2[t] = st[t]
  BY <1>1
<1> HIDE DEF st2
<1> QED BY <1>2, <1>5, <1>6, <1>7 DEF KernelState

\* Appending t to the queue of priority p.
LEMMA PushFacts ==
  ASSUME NEW m \in KernelState, NEW p \in Priority, NEW t \in Thread
  PROVE  LET k1 == list_push_back(m, p, t) IN
         /\ k1 = [m EXCEPT !.ready_queues = k1.ready_queues]
         /\ k1 \in KernelState
         /\ k1.ready_queues[p] = Append(m.ready_queues[p], t)
         /\ ToSet(k1.ready_queues[p]) = ToSet(m.ready_queues[p]) \cup {t}
         /\ \A q \in Priority \ {p} : k1.ready_queues[q] = m.ready_queues[q]
<1> DEFINE f == [m.ready_queues EXCEPT ![p] = Append(m.ready_queues[p], t)]
<1>1. m.ready_queues \in [Priority -> Seq(Thread)] /\ m.ready_queues[p] \in Seq(Thread)
  BY QueueType
<1>2. /\ Append(m.ready_queues[p], t) \in Seq(Thread)
      /\ ToSet(Append(m.ready_queues[p], t)) = ToSet(m.ready_queues[p]) \cup {t}
  BY <1>1, AppendFacts
<1>3. /\ f \in [Priority -> Seq(Thread)]
      /\ f[p] = Append(m.ready_queues[p], t)
      /\ \A q \in Priority \ {p} : f[q] = m.ready_queues[q]
  BY <1>1, <1>2
<1>4. list_push_back(m, p, t) = [m EXCEPT !.ready_queues = f]
  BY DEF list_push_back
<1> HIDE DEF f
<1> QED BY <1>2, <1>3, <1>4 DEF KernelState

\* A state that differs in no field Sound speaks of is sound too.
LEMMA SoundFrame ==
  ASSUME NEW m, Sound(m), NEW k2 \in KernelState,
         k2.current = m.current, k2.idle_thread = m.idle_thread,
         k2.status = m.status, k2.priority = m.priority,
         k2.ready_queues = m.ready_queues,
         k2.destruction_req = m.destruction_req, k2.panic = m.panic
  PROVE  Sound(k2)
BY DEF Sound, Queues, Requests, IdleAlive

\* A status left behind by the current thread, for a switch to another one.
LEMMA SwitchSound ==
  ASSUME NEW m, Sound(m), NEW k0 \in KernelState,
         NEW s \in {"ready", "dying"},
         k0 = [m EXCEPT !.ready_queues = k0.ready_queues],
         s = "dying" => m.current # m.idle_thread,
         Runnable(k0),
         \A p \in Priority :
           /\ IsInjective(k0.ready_queues[p])
           /\ \A t \in Thread :
                t \in ToSet(k0.ready_queues[p]) <=>
                  \/ t \in ToSet(m.ready_queues[p])
                  \/ /\ s = "ready" /\ t = m.current /\ m.priority[t] = p
                     /\ t # m.idle_thread
  PROVE  LET k2 == do_schedule(k0, s) IN
         /\ Sound(k2)
         /\ Highest(k2)
         /\ k2.idle_thread = m.idle_thread
         /\ k2.in_external_intr = m.in_external_intr
         /\ k2.thread_ticks = 0
         /\ \A t \in Thread \ {m.idle_thread, m.current} : SameClass(m, k2, t)
         /\ m.current # m.idle_thread =>
              \/ k2.status[m.current] = s
              \/ s = "ready" /\ k2.status[m.current] = "running"
<1> DEFINE k1 == Leaving(k0, s)
           k2 == schedule(k1)
<1>1. /\ m \in KernelState /\ NULL \notin Thread /\ s \in Status
      /\ m.current \in Thread
  BY SchedAssumption, KernelTypes DEF Sound, Status
<1>2. /\ k0.current = m.current /\ k0.idle_thread = m.idle_thread
      /\ k0.status = m.status /\ k0.priority = m.priority
      /\ k0.destruction_req = m.destruction_req /\ k0.panic = m.panic
      /\ k0.in_external_intr = m.in_external_intr
  BY <1>1 DEF KernelState
<1>3. /\ k1 \in KernelState
      /\ k1.current = m.current
      /\ k1.idle_thread = m.idle_thread
      /\ k1.priority = m.priority
      /\ k1.ready_queues = k0.ready_queues
      /\ k1.destruction_req = << >>
      /\ k1.in_external_intr = m.in_external_intr
      /\ k1.panic = m.panic
      /\ k1.status[m.current] = s
      /\ \A t \in Thread \ {m.current} :
           k1.status[t] = IF t \in ToSet(m.destruction_req) THEN "free"
                          ELSE m.status[t]
  BY <1>1, <1>2, LeavingFacts
<1> HIDE DEF k1
<1>4. \A t \in ToSet(m.destruction_req) : m.status[t] = "dying"
  BY DEF Sound, Requests
<1>5. \A t \in Thread \ {m.current} : SameClass(m, k1, t) /\ k1.status[t] # "running"
                                      /\ (k1.status[t] = "ready" <=> m.status[t] = "ready")
  BY <1>3, <1>4 DEF SameClass, Sound
<1>6. Descheduled(k1)
  <2>1. Queues(k1)
    <3> SUFFICES ASSUME NEW p \in Priority, NEW t \in Thread
                 PROVE  t \in ToSet(k0.ready_queues[p]) <=>
                          /\ k1.status[t] = "ready"
                          /\ m.priority[t] = p
                          /\ t # m.idle_thread
      BY <1>3 DEF Queues
    <3>1. t \in ToSet(m.ready_queues[p]) <=>
            /\ m.status[t] = "ready" /\ m.priority[t] = p /\ t # m.idle_thread
      BY DEF Sound, Queues
    <3>2. CASE t = m.current
      <4>1. m.status[t] = "running"
        BY <3>2, <1>1 DEF Sound
      <4> QED BY <1>3, <3>1, <3>2, <4>1
    <3>3. CASE t # m.current
      BY <1>5, <3>1, <3>3
    <3> QED BY <3>2, <3>3
  <2>2. Requests(k1) /\ k1.current \notin ToSet(k1.destruction_req)
    BY <1>3, EmptyList DEF Requests
  <2>3. IdleAlive(k1)
    BY <1>1, <1>3, <1>5, KernelTypes DEF IdleAlive, Sound, SameClass
  <2> QED BY <1>3, <1>5, <2>1, <2>2, <2>3 DEF Descheduled, Sound
<1>7. Runnable(k1)
  BY <1>2, <1>3 DEF Runnable, NonEmpty
<1>8. /\ Sound(k2) /\ Highest(k2)
      /\ k1.status[k2.current] = "ready" \/ k2.current = m.idle_thread
      /\ \A t \in Thread \ {k2.current} : k2.status[t] = k1.status[t]
      /\ k2.idle_thread = m.idle_thread
      /\ k2.in_external_intr = m.in_external_intr
      /\ k2.thread_ticks = 0
  BY <1>3, <1>6, <1>7, ScheduleSound
<1>9. k2 = do_schedule(k0, s)
  BY <1>2 DEF k1, do_schedule, Leaving
<1> HIDE DEF k2
<1>10. k2.status[k2.current] = "running" /\ k2.current \in Thread
  BY <1>8, KernelTypes DEF Sound
<1>11. \A t \in Thread \ {m.idle_thread, m.current} : SameClass(m, k2, t)
  <2> SUFFICES ASSUME NEW t \in Thread, t # m.idle_thread, t # m.current
               PROVE  SameClass(m, k2, t)
    OBVIOUS
  <2>1. CASE t = k2.current
    <3>1. k1.status[t] = "ready" /\ k2.status[t] = "running"
      BY <1>8, <1>10, <2>1
    <3> QED BY <1>5, <3>1 DEF SameClass
  <2>2. CASE t # k2.current
    BY <1>5, <1>8, <2>2 DEF SameClass
  <2> QED BY <2>1, <2>2
<1>12. m.current # m.idle_thread =>
              \/ k2.status[m.current] = s
              \/ s = "ready" /\ k2.status[m.current] = "running"
  BY <1>1, <1>3, <1>8, <1>10
<1> QED BY <1>8, <1>9, <1>11, <1>12

\* thread_yield can always be called.
LEMMA YieldSound ==
  ASSUME NEW m, Sound(m)
  PROVE  LET k2 == thread_yield(m) IN
         /\ Sound(k2)
         /\ Highest(k2)
         /\ k2.idle_thread = m.idle_thread
         /\ k2.in_external_intr = m.in_external_intr
         /\ k2.thread_ticks = 0
         /\ \A t \in Thread \ {m.idle_thread} : SameClass(m, k2, t)
<1> DEFINE cur == m.current
           k0 == IF cur = m.idle_thread THEN m
                 ELSE list_push_back(m, m.priority[cur], cur)
           k2 == do_schedule(k0, "ready")
<1>1. /\ m \in KernelState /\ NULL \notin Thread /\ cur \in Thread
      /\ m.priority[cur] \in Priority /\ m.status[cur] = "running"
  BY SchedAssumption, KernelTypes DEF Sound
<1>2. /\ k0 \in KernelState /\ k0 = [m EXCEPT !.ready_queues = k0.ready_queues]
      /\ Runnable(k0)
      /\ \A p \in Priority :
           /\ IsInjective(k0.ready_queues[p])
           /\ \A t \in Thread :
                t \in ToSet(k0.ready_queues[p]) <=>
                  \/ t \in ToSet(m.ready_queues[p])
                  \/ /\ t = cur /\ m.priority[t] = p /\ t # m.idle_thread
  <2>1. CASE cur = m.idle_thread
    <3>1. k0 = m
      BY <2>1
    <3> HIDE DEF k0
    <3>2. m = [m EXCEPT !.ready_queues = m.ready_queues]
      BY <1>1 DEF KernelState
    <3> QED BY <1>1, <2>1, <3>1, <3>2 DEF Runnable, Sound, Queues
  <2>2. CASE cur # m.idle_thread
    <3> DEFINE pr == m.priority[cur]
    <3>1. k0 = list_push_back(m, pr, cur) /\ pr \in Priority
      BY <1>1, <2>2
    <3>3. cur \notin ToSet(m.ready_queues[pr]) /\ IsInjective(m.ready_queues[pr])
      BY <1>1 DEF Sound, Queues
    <3> HIDE DEF k0, pr, cur
    <3>2. /\ k0 = [m EXCEPT !.ready_queues = k0.ready_queues]
          /\ k0 \in KernelState
          /\ k0.ready_queues[pr] = Append(m.ready_queues[pr], cur)
          /\ ToSet(k0.ready_queues[pr]) = ToSet(m.ready_queues[pr]) \cup {cur}
          /\ \A q \in Priority \ {pr} : k0.ready_queues[q] = m.ready_queues[q]
      <4> DEFINE r == list_push_back(m, pr, cur)
      <4>1. k0 = r
        BY <3>1
      <4>2. cur \in Thread
        BY <1>1
      <4>3. /\ r = [m EXCEPT !.ready_queues = r.ready_queues]
            /\ r \in KernelState
            /\ r.ready_queues[pr] = Append(m.ready_queues[pr], cur)
            /\ ToSet(r.ready_queues[pr]) = ToSet(m.ready_queues[pr]) \cup {cur}
            /\ \A q \in Priority \ {pr} : r.ready_queues[q] = m.ready_queues[q]
        BY <1>1, <3>1, <4>2, PushFacts
      <4> HIDE DEF r
      <4> QED BY <4>1, <4>3
    <3>4. IsInjective(k0.ready_queues[pr])
      <4>1. m.ready_queues[pr] \in Seq(Thread)
        BY <1>1, <3>1, QueueType
      <4> DEFINE q == m.ready_queues[pr]
      <4>2. q \in Seq(Thread) /\ IsInjective(q) /\ cur \notin ToSet(q)
        BY <3>3, <4>1
      <4> HIDE DEF q
      <4>3. IsInjective(Append(q, cur))
        BY <1>1, <4>2, AppendFacts
      <4> QED BY <3>2, <4>3 DEF q
    <3>5. Runnable(k0)
      <4>1. k0.ready_queues[pr] \in Seq(Thread)
        BY <3>1, <3>2, QueueType
      <4>2. k0.ready_queues[pr] # << >>
        BY <3>2, <4>1, EmptyList
      <4> QED BY <3>1, <4>2 DEF Runnable, NonEmpty
    <3>6. ASSUME NEW p \in Priority
          PROVE  /\ IsInjective(k0.ready_queues[p])
                 /\ \A t \in Thread :
                      t \in ToSet(k0.ready_queues[p]) <=>
                        \/ t \in ToSet(m.ready_queues[p])
                        \/ /\ t = cur /\ p = pr /\ t # m.idle_thread
      <4>1. CASE p = pr
        BY <2>2, <3>2, <3>4, <4>1
      <4>2. CASE p # pr
        BY <3>2, <4>2 DEF Sound, Queues
      <4> QED BY <4>1, <4>2
    <3> QED BY <1>1, <3>2, <3>5, <3>6 DEF pr, cur
  <2> QED BY <2>1, <2>2
<1>3. k2 = thread_yield(m)
  BY DEF thread_yield
<1> HIDE DEF k0
<1>4. /\ Sound(k2) /\ Highest(k2)
      /\ k2.idle_thread = m.idle_thread
      /\ k2.in_external_intr = m.in_external_intr
      /\ k2.thread_ticks = 0
      /\ \A t \in Thread \ {m.idle_thread, cur} : SameClass(m, k2, t)
      /\ cur # m.idle_thread => k2.status[cur] \in {"ready", "running"}
  BY <1>2, SwitchSound
<1> HIDE DEF k2
<1>5. cur # m.idle_thread => SameClass(m, k2, cur)
  BY <1>1, <1>4 DEF SameClass
<1> QED BY <1>3, <1>4, <1>5

\* thread_exit needs an idle thread to switch to.
LEMMA ExitSound ==
  ASSUME NEW m, Sound(m), m.idle_thread # NULL, m.current # m.idle_thread
  PROVE  LET k2 == thread_exit(m) IN
         /\ Sound(k2)
         /\ Highest(k2)
         /\ k2.idle_thread = m.idle_thread
         /\ k2.in_external_intr = m.in_external_intr
         /\ k2.thread_ticks = 0
         /\ k2.status[m.current] = "dying"
         /\ \A t \in Thread \ {m.idle_thread, m.current} : SameClass(m, k2, t)
<1>1. m \in KernelState /\ m = [m EXCEPT !.ready_queues = m.ready_queues]
  BY DEF Sound, KernelState
<1>2. Runnable(m)
  BY DEF Runnable
<1>3. \A p \in Priority : IsInjective(m.ready_queues[p])
  BY DEF Sound, Queues
<1> DEFINE k2 == do_schedule(m, "dying")
<1>4. /\ Sound(k2) /\ Highest(k2)
      /\ k2.idle_thread = m.idle_thread
      /\ k2.in_external_intr = m.in_external_intr
      /\ k2.thread_ticks = 0
      /\ \A t \in Thread \ {m.idle_thread, m.current} : SameClass(m, k2, t)
      /\ k2.status[m.current] = "dying"
  BY <1>1, <1>2, <1>3, SwitchSound
<1> HIDE DEF k2
<1>5. k2 = thread_exit(m)
  BY DEF k2, thread_exit
<1> QED BY <1>4, <1>5

\* thread_block needs a thread to switch to, ready or idle.
LEMMA BlockSound ==
  ASSUME NEW m, Sound(m), Runnable(m)
  PROVE  LET k2 == thread_block(m) IN
         /\ Sound(k2)
         /\ Highest(k2)
         /\ k2.idle_thread = m.idle_thread
         /\ k2.in_external_intr = m.in_external_intr
         /\ k2.thread_ticks = 0
         /\ m.current # m.idle_thread => k2.status[m.current] = "blocked"
         /\ \A t \in Thread \ {m.idle_thread, m.current} : SameClass(m, k2, t)
<1> DEFINE st == [m.status EXCEPT ![m.current] = "blocked"]
           k1 == [m EXCEPT !.status = st]
           k2 == schedule(k1)
<1>1. /\ m \in KernelState /\ m.current \in Thread /\ NULL \notin Thread
      /\ m.status \in [Thread -> Status]
  BY SchedAssumption, KernelTypes DEF Sound
<1>2. /\ st \in [Thread -> Status] /\ st[m.current] = "blocked"
      /\ \A t \in Thread \ {m.current} : st[t] = m.status[t]
  BY <1>1 DEF Status
<1>3. k2 = thread_block(m)
  BY DEF thread_block
<1> HIDE DEF st
<1>4. /\ k1 \in KernelState
      /\ k1.current = m.current /\ k1.idle_thread = m.idle_thread
      /\ k1.status = st /\ k1.priority = m.priority
      /\ k1.ready_queues = m.ready_queues
      /\ k1.destruction_req = m.destruction_req /\ k1.panic = m.panic
      /\ k1.in_external_intr = m.in_external_intr
  BY <1>1, <1>2 DEF KernelState
<1> HIDE DEF k1
<1>5. Descheduled(k1)
  <2>1. Queues(k1)
    BY <1>1, <1>2, <1>4 DEF Queues, Sound
  <2>2. m.current \notin ToSet(m.destruction_req)
    BY <1>1 DEF Sound, Requests
  <2>3. \A t \in ToSet(m.destruction_req) : t \in Thread
    BY <1>1, KernelTypes, ToSetFacts
  <2>4. Requests(k1)
    BY <1>2, <1>4, <2>2, <2>3 DEF Requests, Sound
  <2>5. IdleAlive(k1)
    BY <1>1, <1>2, <1>4, KernelTypes DEF IdleAlive, Sound
  <2>6. \A t \in Thread : k1.status[t] # "running"
    BY <1>1, <1>2, <1>4 DEF Sound
  <2> QED BY <1>4, <2>1, <2>2, <2>4, <2>5, <2>6 DEF Descheduled, Sound
<1>6. Runnable(k1)
  BY <1>4 DEF Runnable, NonEmpty
<1>7. /\ Sound(k2) /\ Highest(k2)
      /\ k1.status[k2.current] = "ready" \/ k2.current = m.idle_thread
      /\ \A t \in Thread \ {k2.current} : k2.status[t] = k1.status[t]
      /\ k2.idle_thread = m.idle_thread
      /\ k2.in_external_intr = m.in_external_intr
      /\ k2.thread_ticks = 0
  BY <1>4, <1>5, <1>6, ScheduleSound
<1> HIDE DEF k2
<1>8. k2.status[k2.current] = "running" /\ k2.current \in Thread
  BY <1>7, KernelTypes DEF Sound
<1>9. m.current # m.idle_thread => k2.status[m.current] = "blocked"
  BY <1>1, <1>2, <1>4, <1>7
<1>10. ASSUME NEW t \in Thread, t # m.idle_thread, t # m.current
       PROVE  SameClass(m, k2, t)
  BY <1>2, <1>4, <1>7, <1>8, <1>10 DEF SameClass
<1> QED BY <1>3, <1>7, <1>9, <1>10

\* Waking a blocked thread other than idle.
LEMMA UnblockSound ==
  ASSUME NEW m, Sound(m), NEW u \in Thread, m.status[u] = "blocked",
         u # m.idle_thread
  PROVE  LET k2 == thread_unblock(m, u) IN
         /\ Sound(k2)
         /\ k2 = [m EXCEPT !.status = k2.status, !.ready_queues = k2.ready_queues]
         /\ k2.status = [m.status EXCEPT ![u] = "ready"]
<1> DEFINE pr == m.priority[u]
           r == list_push_back(m, pr, u)
           st == [m.status EXCEPT ![u] = "ready"]
           k2 == [r EXCEPT !.status = st]
<1>1. /\ m \in KernelState /\ NULL \notin Thread /\ pr \in Priority
      /\ m.current \in Thread /\ m.status \in [Thread -> Status]
  BY SchedAssumption, KernelTypes DEF Sound
<1>2. /\ st \in [Thread -> Status] /\ st[u] = "ready"
      /\ \A t \in Thread \ {u} : st[t] = m.status[t]
  BY <1>1 DEF Status
<1>3. /\ r = [m EXCEPT !.ready_queues = r.ready_queues]
      /\ r \in KernelState
      /\ r.ready_queues[pr] = Append(m.ready_queues[pr], u)
      /\ ToSet(r.ready_queues[pr]) = ToSet(m.ready_queues[pr]) \cup {u}
      /\ \A q \in Priority \ {pr} : r.ready_queues[q] = m.ready_queues[q]
  <2> HIDE DEF pr
  <2> QED BY <1>1, PushFacts
<1>4. thread_unblock(m, u) = k2
  <2>1. r.status = m.status
    <3> HIDE DEF r
    <3> QED BY <1>1, <1>3 DEF KernelState
  <2> QED BY <2>1 DEF thread_unblock
<1> HIDE DEF r, st
<1>5. /\ k2 \in KernelState
      /\ k2.current = m.current /\ k2.idle_thread = m.idle_thread
      /\ k2.status = st /\ k2.priority = m.priority
      /\ k2.ready_queues = r.ready_queues
      /\ k2.destruction_req = m.destruction_req /\ k2.panic = m.panic
      /\ k2 = [m EXCEPT !.status = k2.status, !.ready_queues = k2.ready_queues]
  BY <1>1, <1>2, <1>3 DEF KernelState
<1> HIDE DEF k2
<1>6. Queues(k2)
  <2>1. u \notin ToSet(m.ready_queues[pr]) /\ IsInjective(m.ready_queues[pr])
    BY <1>1 DEF Sound, Queues
  <2>2. IsInjective(r.ready_queues[pr])
    <3> DEFINE q == m.ready_queues[pr]
    <3>1. q \in Seq(Thread)
      BY <1>1, QueueType
    <3> HIDE DEF q
    <3>2. IsInjective(q) /\ u \notin ToSet(q) => IsInjective(Append(q, u))
      BY <3>1, AppendFacts
    <3> QED BY <1>3, <2>1, <3>2 DEF q
  <2> SUFFICES ASSUME NEW p \in Priority
               PROVE  /\ IsInjective(r.ready_queues[p])
                      /\ \A t \in Thread :
                           t \in ToSet(r.ready_queues[p]) <=>
                             /\ st[t] = "ready"
                             /\ m.priority[t] = p
                             /\ t # m.idle_thread
    BY <1>5 DEF Queues
  <2>3. CASE p = pr
    <3>1. \A t \in Thread : t \in ToSet(m.ready_queues[pr]) <=>
                             /\ m.status[t] = "ready"
                             /\ m.priority[t] = pr
                             /\ t # m.idle_thread
      BY <1>1 DEF Sound, Queues
    <3>2. m.priority[u] = pr
      OBVIOUS
    <3> HIDE DEF pr
    <3> QED BY <1>2, <1>3, <2>2, <2>3, <3>1, <3>2
  <2>4. CASE p # pr
    BY <1>2, <1>3, <2>4 DEF Sound, Queues
  <2> QED BY <2>3, <2>4
<1>7. Requests(k2)
  <2>1. \A t \in ToSet(m.destruction_req) : t \in Thread
    BY <1>1, KernelTypes, ToSetFacts
  <2> QED BY <1>2, <1>5, <2>1 DEF Sound, Requests
<1>8. IdleAlive(k2)
  BY <1>1, <1>2, <1>5, KernelTypes DEF Sound, IdleAlive
<1>9. \A t \in Thread : st[t] = "running" <=> t = m.current
  BY <1>1, <1>2 DEF Sound
<1>10. Sound(k2)
  BY <1>5, <1>6, <1>7, <1>8, <1>9 DEF Sound
<1> QED BY <1>4, <1>5, <1>10 DEF st

\* A thread moves to the queue of its new priority if it is ready.
LEMMA UpdateSound ==
  ASSUME NEW m, Sound(m), NEW u \in Thread, u # m.idle_thread,
         NEW p \in Priority
  PROVE  LET k2 == thread_update_priority(m, u, p) IN
         /\ Sound(k2)
         /\ k2.current = m.current
         /\ k2.idle_thread = m.idle_thread
         /\ k2.status = m.status
         /\ k2.thread_ticks = m.thread_ticks
         /\ k2.in_external_intr = m.in_external_intr
<1> DEFINE old == m.priority[u]
           pr == [m.priority EXCEPT ![u] = p]
           k2 == thread_update_priority(m, u, p)
<1>1. /\ m \in KernelState /\ old \in Priority
      /\ m.ready_queues \in [Priority -> Seq(Thread)]
  BY KernelTypes DEF Sound
<1>2. /\ pr \in [Thread -> Priority] /\ pr[u] = p
      /\ \A t \in Thread \ {u} : pr[t] = m.priority[t]
  BY <1>1, KernelTypes
<1>3. CASE m.status[u] # "ready"
  <2>1. k2 = [m EXCEPT !.priority = pr]
    BY <1>3 DEF thread_update_priority
  <2> HIDE DEF k2, pr
  <2>2. /\ k2 \in KernelState
        /\ k2.current = m.current /\ k2.idle_thread = m.idle_thread
        /\ k2.status = m.status /\ k2.priority = pr
        /\ k2.ready_queues = m.ready_queues
        /\ k2.destruction_req = m.destruction_req /\ k2.panic = m.panic
        /\ k2.thread_ticks = m.thread_ticks
        /\ k2.in_external_intr = m.in_external_intr
    BY <1>1, <1>2, <2>1 DEF KernelState
  <2>3. Queues(k2)
    BY <1>2, <1>3, <2>2 DEF Sound, Queues
  <2>4. Sound(k2)
    BY <2>2, <2>3 DEF Sound, Requests, IdleAlive
  <2> QED BY <2>2, <2>4 DEF k2
<1>4. CASE m.status[u] = "ready"
  <2> DEFINE q  == m.ready_queues[old]
             f  == [m.ready_queues EXCEPT ![old] = RemoveFirst(q, u)]
             k1 == [m EXCEPT !.ready_queues = f]
             r  == list_push_back(k1, p, u)
  <2>1. /\ \A t \in Thread : t \in ToSet(q) <=>
             m.status[t] = "ready" /\ m.priority[t] = old /\ t # m.idle_thread
        /\ IsInjective(q) /\ q \in Seq(Thread) /\ u \in ToSet(q)
    BY <1>1, <1>4, QueueType DEF Sound, Queues
  <2>2. /\ RemoveFirst(q, u) \in Seq(Thread)
        /\ ToSet(RemoveFirst(q, u)) = ToSet(q) \ {u}
        /\ IsInjective(RemoveFirst(q, u))
    <3> HIDE DEF q
    <3> QED BY <2>1, RemoveFacts
  <2>3. f \in [Priority -> Seq(Thread)]
        /\ f[old] = RemoveFirst(q, u)
        /\ \A x \in Priority \ {old} : f[x] = m.ready_queues[x]
    <3> HIDE DEF q, old
    <3> QED BY <1>1, <2>2
  <2>4. k2 = [r EXCEPT !.priority = pr]
    <3>1. list_remove(m, old, u) = k1
      BY DEF list_remove
    <3>2. k1.ready_queues = f
      <4> HIDE DEF f
      <4> QED BY <1>1 DEF KernelState
    <3>3. r.priority = m.priority
      <4> HIDE DEF f
      <4> QED BY <1>1 DEF KernelState, list_push_back
    <3> HIDE DEF k1, f, q
    <3> QED BY <1>4, <3>1, <3>3 DEF thread_update_priority
  <2>5. \A x \in Priority : /\ IsInjective(f[x])
                           /\ \A t \in Thread : t \in ToSet(f[x]) <=>
                                /\ m.status[t] = "ready" /\ m.priority[t] = x
                                /\ t # m.idle_thread /\ t # u
    <3> TAKE x \in Priority
    <3>0. m.priority[u] = old
      OBVIOUS
    <3> HIDE DEF f, q, old
    <3>1. CASE x = old
      BY <2>1, <2>2, <2>3, <3>1
    <3>2. CASE x # old
      BY <2>3, <3>0, <3>2 DEF Sound, Queues
    <3> QED BY <3>1, <3>2
  <2> HIDE DEF f, k2, pr, old
  <2>6. /\ k1 \in KernelState /\ k1.ready_queues = f
    BY <1>1, <2>3 DEF KernelState
  <2> HIDE DEF k1
  <2>7. /\ r = [k1 EXCEPT !.ready_queues = r.ready_queues]
        /\ r \in KernelState
        /\ r.ready_queues[p] = Append(f[p], u)
        /\ ToSet(r.ready_queues[p]) = ToSet(f[p]) \cup {u}
        /\ \A x \in Priority \ {p} : r.ready_queues[x] = f[x]
    <3>1. /\ r = [k1 EXCEPT !.ready_queues = r.ready_queues]
          /\ r \in KernelState
          /\ r.ready_queues[p] = Append(k1.ready_queues[p], u)
          /\ ToSet(r.ready_queues[p]) = ToSet(k1.ready_queues[p]) \cup {u}
          /\ \A x \in Priority \ {p} : r.ready_queues[x] = k1.ready_queues[x]
      BY <2>6, PushFacts
    <3> HIDE DEF r
    <3> QED BY <2>6, <3>1
  <2> HIDE DEF r
  <2>8. r = [m EXCEPT !.ready_queues = r.ready_queues]
    BY <1>1, <2>7 DEF KernelState, k1
  <2>9. /\ k2 \in KernelState
        /\ k2.current = m.current /\ k2.idle_thread = m.idle_thread
        /\ k2.status = m.status /\ k2.priority = pr
        /\ k2.ready_queues = r.ready_queues
        /\ k2.destruction_req = m.destruction_req /\ k2.panic = m.panic
        /\ k2.thread_ticks = m.thread_ticks
        /\ k2.in_external_intr = m.in_external_intr
    BY <1>1, <1>2, <2>4, <2>7, <2>8 DEF KernelState
  <2>10. IsInjective(r.ready_queues[p])
    <3>1. f[p] \in Seq(Thread) /\ IsInjective(f[p]) /\ u \notin ToSet(f[p])
      BY <2>3, <2>5
    <3> DEFINE g == f[p]
    <3> HIDE DEF g
    <3>2. IsInjective(Append(g, u))
      BY <3>1, AppendFacts DEF g
    <3> QED BY <2>7, <3>2 DEF g
  <2>11. Queues(k2)
    <3> SUFFICES ASSUME NEW x \in Priority
                 PROVE  /\ IsInjective(r.ready_queues[x])
                        /\ \A t \in Thread :
                             t \in ToSet(r.ready_queues[x]) <=>
                               /\ m.status[t] = "ready"
                               /\ pr[t] = x
                               /\ t # m.idle_thread
      BY <2>9 DEF Queues
    <3>1. CASE x = p
      BY <1>2, <1>4, <2>5, <2>7, <2>10, <3>1
    <3>2. CASE x # p
      BY <1>2, <1>4, <2>5, <2>7, <3>2
    <3> QED BY <3>1, <3>2
  <2>12. Sound(k2)
    BY <2>9, <2>11 DEF Sound, Requests, IdleAlive
  <2> QED BY <2>9, <2>12 DEF k2
<1> QED BY <1>3, <1>4

\* thread_set_priority moves at most the current thread, which is in no queue.
LEMMA SetPrioritySound ==
  ASSUME NEW m, Sound(m), m.current # m.idle_thread,
         NEW donated \in BOOLEAN, NEW p \in Priority
  PROVE  LET k2 == SetPriority(m, donated, p) IN
         /\ Sound(k2)
         /\ k2.current = m.current
         /\ k2.idle_thread = m.idle_thread
         /\ k2.status = m.status
         /\ k2.thread_ticks = m.thread_ticks
         /\ k2.in_external_intr = m.in_external_intr
<1> DEFINE cur == m.current
           bp == [m.base_priority EXCEPT ![cur] = p]
           k1 == [m EXCEPT !.base_priority = bp]
           k2 == SetPriority(m, donated, p)
<1>1. m \in KernelState /\ cur \in Thread
  BY KernelTypes DEF Sound
<1>2. bp \in [Thread -> Priority]
  BY <1>1, KernelTypes
<1>3. \/ k2 = k1
      \/ k2 = thread_update_priority(k1, cur, p)
  BY DEF SetPriority
<1> HIDE DEF bp, k2
<1>4. /\ k1 \in KernelState
      /\ k1.current = m.current /\ k1.idle_thread = m.idle_thread
      /\ k1.status = m.status /\ k1.priority = m.priority
      /\ k1.ready_queues = m.ready_queues
      /\ k1.destruction_req = m.destruction_req /\ k1.panic = m.panic
      /\ k1.thread_ticks = m.thread_ticks
      /\ k1.in_external_intr = m.in_external_intr
  BY <1>1, <1>2 DEF KernelState
<1> HIDE DEF k1
<1>5. Sound(k1)
  BY <1>4, SoundFrame
<1>6. CASE k2 = k1
  BY <1>4, <1>5, <1>6 DEF k2
<1>7. CASE k2 = thread_update_priority(k1, cur, p)
  <2> DEFINE r == thread_update_priority(k1, cur, p)
  <2>1. /\ Sound(r) /\ r.current = k1.current /\ r.idle_thread = k1.idle_thread
        /\ r.status = k1.status /\ r.thread_ticks = k1.thread_ticks
        /\ r.in_external_intr = k1.in_external_intr
    BY <1>1, <1>4, <1>5, UpdateSound
  <2> HIDE DEF r
  <2>2. k2 = r
    BY <1>7 DEF r
  <2> QED BY <1>4, <2>1, <2>2 DEF k2
<1> QED BY <1>3, <1>6, <1>7

\* A free page becomes a blocked thread.
LEMMA InitThreadSound ==
  ASSUME NEW m, Sound(m), NEW u \in Thread, m.status[u] = "free",
         NEW p \in Priority
  PROVE  LET k2 == init_thread(m, u, p) IN
         /\ Sound(k2)
         /\ k2.current = m.current
         /\ k2.idle_thread = m.idle_thread
         /\ k2.status = [m.status EXCEPT ![u] = "blocked"]
         /\ k2.thread_ticks = m.thread_ticks
         /\ k2.in_external_intr = m.in_external_intr
<1> DEFINE st == [m.status EXCEPT ![u] = "blocked"]
           pr == [m.priority EXCEPT ![u] = p]
           bp == [m.base_priority EXCEPT ![u] = p]
           k2 == init_thread(m, u, p)
<1>1. m \in KernelState /\ m.current \in Thread /\ NULL \notin Thread
      /\ m.status[m.current] = "running"
      /\ \A t \in ToSet(m.destruction_req) : t \in Thread
  BY SchedAssumption, KernelTypes, ToSetFacts DEF Sound
<1>2. /\ st \in [Thread -> Status] /\ st[u] = "blocked"
      /\ \A t \in Thread \ {u} : st[t] = m.status[t]
  BY <1>1, KernelTypes DEF Status
<1>3. /\ pr \in [Thread -> Priority] /\ bp \in [Thread -> Priority]
      /\ \A t \in Thread \ {u} : pr[t] = m.priority[t]
  BY <1>1, KernelTypes
<1>4. k2 = [m EXCEPT !.status = st, !.priority = pr, !.base_priority = bp]
  BY DEF init_thread
<1> HIDE DEF st, pr, bp, k2
<1>5. /\ k2 \in KernelState
      /\ k2.current = m.current /\ k2.idle_thread = m.idle_thread
      /\ k2.status = st /\ k2.priority = pr
      /\ k2.ready_queues = m.ready_queues
      /\ k2.destruction_req = m.destruction_req /\ k2.panic = m.panic
      /\ k2.thread_ticks = m.thread_ticks
      /\ k2.in_external_intr = m.in_external_intr
  BY <1>1, <1>2, <1>3, <1>4 DEF KernelState
<1>6. Queues(k2)
  BY <1>2, <1>3, <1>5 DEF Sound, Queues
<1>7. Requests(k2)
  BY <1>1, <1>2, <1>5 DEF Sound, Requests
<1>8. IdleAlive(k2)
  BY <1>1, <1>2, <1>5, KernelTypes DEF Sound, IdleAlive
<1>9. \A t \in Thread : st[t] = "running" <=> t = m.current
  BY <1>1, <1>2 DEF Sound
<1>10. Sound(k2)
  BY <1>5, <1>6, <1>7, <1>8, <1>9 DEF Sound
<1> QED BY <1>5, <1>10 DEF k2, st

\* idle() sets idle_thread to itself while it runs.
LEMMA BecomeIdleSound ==
  ASSUME NEW m, Sound(m), m.idle_thread = NULL
  PROVE  LET k2 == [m EXCEPT !.idle_thread = m.current] IN
         /\ Sound(k2)
         /\ k2.current = m.current
         /\ k2.idle_thread = m.current
         /\ k2.status = m.status
         /\ k2.thread_ticks = m.thread_ticks
         /\ k2.in_external_intr = m.in_external_intr
<1> DEFINE k2 == [m EXCEPT !.idle_thread = m.current]
<1>1. m \in KernelState /\ m.current \in Thread /\ NULL \notin Thread
  BY SchedAssumption, KernelTypes DEF Sound
<1>2. /\ k2 \in KernelState
      /\ k2.current = m.current /\ k2.idle_thread = m.current
      /\ k2.status = m.status /\ k2.priority = m.priority
      /\ k2.ready_queues = m.ready_queues
      /\ k2.destruction_req = m.destruction_req /\ k2.panic = m.panic
      /\ k2.thread_ticks = m.thread_ticks
      /\ k2.in_external_intr = m.in_external_intr
  BY <1>1 DEF KernelState
<1> HIDE DEF k2
<1>3. m.status[m.current] = "running"
  BY <1>1 DEF Sound
<1>4. Queues(k2)
  BY <1>1, <1>2, <1>3 DEF Sound, Queues
<1>5. Requests(k2) /\ IdleAlive(k2)
  BY <1>2, <1>3 DEF Sound, Requests, IdleAlive
<1> QED BY <1>2, <1>4, <1>5 DEF Sound, k2

\* Entering an interrupt, the tick and the request to yield move no thread.
LEMMA InterruptSound ==
  ASSUME NEW m, Sound(m)
  PROVE  /\ Sound(intr_enter(m))
         /\ intr_enter(m).current = m.current
         /\ intr_enter(m).idle_thread = m.idle_thread
         /\ intr_enter(m).status = m.status
         /\ intr_enter(m).thread_ticks = m.thread_ticks
         /\ intr_enter(m).in_external_intr
         /\ Sound(intr_yield_on_return(m))
         /\ intr_yield_on_return(m).current = m.current
         /\ intr_yield_on_return(m).idle_thread = m.idle_thread
         /\ intr_yield_on_return(m).status = m.status
         /\ intr_yield_on_return(m).thread_ticks = m.thread_ticks
         /\ intr_yield_on_return(m).in_external_intr = m.in_external_intr
         /\ Sound(thread_tick(m))
         /\ thread_tick(m).current = m.current
         /\ thread_tick(m).idle_thread = m.idle_thread
         /\ thread_tick(m).status = m.status
         /\ thread_tick(m).thread_ticks = m.thread_ticks + 1
         /\ thread_tick(m).in_external_intr = m.in_external_intr
         /\ thread_tick(m).yield_on_return =
              (m.yield_on_return \/ m.thread_ticks + 1 >= TIME_SLICE)
<1>1. m \in KernelState /\ m.thread_ticks \in Nat /\ m.yield_on_return \in BOOLEAN
  BY KernelTypes DEF Sound
<1> DEFINE a == intr_enter(m)
           b == intr_yield_on_return(m)
           y == m.yield_on_return \/ m.thread_ticks + 1 >= TIME_SLICE
           c == thread_tick(m)
<1>2. /\ a \in KernelState
      /\ a.current = m.current /\ a.idle_thread = m.idle_thread
      /\ a.status = m.status /\ a.priority = m.priority
      /\ a.ready_queues = m.ready_queues
      /\ a.destruction_req = m.destruction_req /\ a.panic = m.panic
      /\ a.thread_ticks = m.thread_ticks /\ a.in_external_intr
  BY <1>1 DEF KernelState, intr_enter
<1>3. /\ b \in KernelState
      /\ b.current = m.current /\ b.idle_thread = m.idle_thread
      /\ b.status = m.status /\ b.priority = m.priority
      /\ b.ready_queues = m.ready_queues
      /\ b.destruction_req = m.destruction_req /\ b.panic = m.panic
      /\ b.thread_ticks = m.thread_ticks
      /\ b.in_external_intr = m.in_external_intr
  BY <1>1 DEF KernelState, intr_yield_on_return
<1>4. /\ c \in KernelState
      /\ c.current = m.current /\ c.idle_thread = m.idle_thread
      /\ c.status = m.status /\ c.priority = m.priority
      /\ c.ready_queues = m.ready_queues
      /\ c.destruction_req = m.destruction_req /\ c.panic = m.panic
      /\ c.thread_ticks = m.thread_ticks + 1
      /\ c.in_external_intr = m.in_external_intr
      /\ c.yield_on_return = y
  <2>1. c = [m EXCEPT !.thread_ticks = m.thread_ticks + 1, !.yield_on_return = y]
    BY <1>1 DEF thread_tick, KernelState
  <2>2. y \in BOOLEAN /\ m.thread_ticks + 1 \in Nat
    BY <1>1
  <2> HIDE DEF c, y
  <2> QED BY <1>1, <2>1, <2>2 DEF KernelState
<1> HIDE DEF a, b, c
<1>5. Sound(a) /\ Sound(b) /\ Sound(c)
  BY <1>2, <1>3, <1>4, SoundFrame
<1> QED BY <1>2, <1>3, <1>4, <1>5 DEF a, b, c

\* The way back from an interrupt: a slice that is used up ends in a yield.
LEMMA ReturnSound ==
  ASSUME NEW m, Sound(m)
  PROVE  LET k2 == intr_return(m) IN
         /\ Sound(k2)
         /\ k2.current = m.current \/ Highest(k2)
         /\ k2.idle_thread = m.idle_thread
         /\ ~k2.in_external_intr
         /\ k2.thread_ticks = IF m.yield_on_return THEN 0 ELSE m.thread_ticks
         /\ ~m.yield_on_return => k2.current = m.current /\ k2.status = m.status
         /\ \A t \in Thread \ {m.idle_thread} : SameClass(m, k2, t)
<1> DEFINE d == [m EXCEPT !.in_external_intr = FALSE, !.yield_on_return = FALSE]
           y == thread_yield(d)
           k2 == intr_return(m)
<1>1. m \in KernelState
  BY DEF Sound
<1>2. /\ d \in KernelState
      /\ d.current = m.current /\ d.idle_thread = m.idle_thread
      /\ d.status = m.status /\ d.priority = m.priority
      /\ d.ready_queues = m.ready_queues
      /\ d.destruction_req = m.destruction_req /\ d.panic = m.panic
      /\ d.thread_ticks = m.thread_ticks
      /\ d.in_external_intr = FALSE
  BY <1>1 DEF KernelState
<1>3. k2 = IF m.yield_on_return THEN y ELSE d
  BY DEF intr_return
<1> HIDE DEF d
<1>4. Sound(d)
  BY <1>2, SoundFrame
<1>5. /\ Sound(y) /\ Highest(y) /\ y.idle_thread = d.idle_thread
      /\ y.in_external_intr = d.in_external_intr /\ y.thread_ticks = 0
      /\ \A t \in Thread \ {d.idle_thread} : SameClass(d, y, t)
  BY <1>4, YieldSound
<1> HIDE DEF y, k2
<1>6. CASE m.yield_on_return
  BY <1>2, <1>3, <1>5, <1>6 DEF SameClass, k2
<1>7. CASE ~m.yield_on_return
  BY <1>2, <1>3, <1>4, <1>7 DEF SameClass, k2
<1> QED BY <1>6, <1>7

-----------------------------------------------------------------------------
(* The inductive invariant: the kernel state is sound, and the places of   *)
(* the threads agree with it.                                              *)

BootPc == {"boot", "boot_create", "boot_created", "boot_down", "boot_recheck"}
IdlePc == {"idle_up", "idle_yield", "idle_loop", "idle_halt"}

\* A thread is somewhere exactly while it is neither free nor dying, and
\* blocked while it waits.
PlacesInv ==
  \A t \in Thread :
    /\ pc[t] = "none" <=> k.status[t] \in {"free", "dying"}
    /\ pc[t] = "waiting" => k.status[t] = "blocked"

\* A thread that has been created and not yet started is blocked, and has
\* one creator, who will start it.
NewbornInv ==
  \A t \in Thread :
    pc[t] \in {"create", "boot_create"} =>
      /\ arg[t] \in Thread
      /\ k.status[arg[t]] = "blocked"
      /\ pc[arg[t]] \in {"run", "idle"}
      /\ \A u \in Thread :
           pc[u] \in {"create", "boot_create"} /\ arg[u] = arg[t] => u = t

\* One thread at most executes idle(); it is idle_thread from its first step.
IdleInv ==
  /\ k.idle_thread # NULL => pc[k.idle_thread] \in IdlePc
  /\ \A t \in Thread : pc[t] \in IdlePc => t = k.idle_thread
  /\ \A t \in Thread : pc[t] = "idle" => /\ k.idle_thread = NULL
                                        /\ t # initial_thread
  /\ \A t, u \in Thread : pc[t] = "idle" /\ pc[u] = "idle" => t = u

\* idle_started has been raised only by the idle thread, and has no waiter
\* but main.
StartedInv ==
  /\ idle_started.value > 0 => k.idle_thread # NULL
  /\ \/ idle_started.waiters = << >>
     \/ /\ idle_started.waiters = <<initial_thread>>
        /\ pc[initial_thread] = "boot_recheck"
        /\ k.status[initial_thread] = "blocked"

\* Until the idle thread has run there are only main, which is in
\* thread_start, and the idle thread, which is ready once main lets it be.
BootInv ==
  /\ \A t \in Thread \ {initial_thread} : pc[t] \notin BootPc
  /\ k.idle_thread = NULL => /\ pc[initial_thread] \in BootPc
                             /\ \A t \in Thread \ {initial_thread} :
                                  pc[t] \in {"none", "idle"}
  /\ pc[initial_thread] \in {"boot", "boot_create", "boot_created"} =>
       /\ k.idle_thread = NULL
       /\ k.current = initial_thread
  /\ pc[initial_thread] = "boot" =>
       \A t \in Thread \ {initial_thread} : pc[t] = "none"
  /\ /\ pc[initial_thread] \in {"boot_created", "boot_down", "boot_recheck"}
     /\ k.idle_thread = NULL
     => \E u \in Thread : pc[u] = "idle" /\ k.status[u] # "blocked"

\* A handler runs on top of a thread that has interrupts on.
HandlerInv == k.in_external_intr => pc[k.current] \notin IntrOff

PcInv ==
  /\ idle_started \in Semaphore
  /\ pc \in [Thread -> Location]
  /\ arg \in [Thread -> Thread \cup {NULL}]
  /\ PlacesInv
  /\ NewbornInv
  /\ IdleInv
  /\ StartedInv
  /\ BootInv
  /\ HandlerInv

IInv == Sound(k) /\ SliceBound /\ PcInv

-----------------------------------------------------------------------------
(* Consequences of the invariant.                                          *)

\* What most steps need to know of a state.
LEMMA IInvFacts ==
  ASSUME IInv
  PROVE  /\ k \in KernelState
         /\ NULL \notin Thread
         /\ initial_thread \in Thread
         /\ k.current \in Thread
         /\ k.status[k.current] = "running"
         /\ k.status \in [Thread -> Status]
         /\ k.idle_thread \in Thread \cup {NULL}
         /\ pc[k.current] \notin {"none", "waiting"}
         /\ k.thread_ticks \in Nat
         /\ TIME_SLICE \in Nat \ {0}
         /\ k.thread_ticks < TIME_SLICE
<1>1. k \in KernelState /\ k.current \in Thread /\ k.status[k.current] = "running"
  BY KernelTypes DEF IInv, Sound
<1>2. pc[k.current] \notin {"none", "waiting"}
  BY <1>1 DEF IInv, PcInv, PlacesInv
<1> QED BY <1>1, <1>2, KernelTypes, SchedAssumption DEF IInv, SliceBound

\* A thread that is not in idle() is not the idle thread, and a thread past
\* thread_start finds the idle thread there.
LEMMA PlaceFacts ==
  ASSUME IInv, NEW t \in Thread
  PROVE  /\ pc[t] \notin IdlePc => t # k.idle_thread
         /\ pc[t] \notin BootPc \cup {"none", "idle"} => k.idle_thread # NULL
BY IInvFacts DEF IInv, PcInv, IdleInv, BootInv

\* Two parts of the invariant, when no thread enters or leaves idle(), and
\* once the idle thread is up.
LEMMA IdleFrame ==
  ASSUME IInv,
         k'.idle_thread = k.idle_thread,
         \A t \in Thread : /\ pc'[t] \in IdlePc <=> pc[t] \in IdlePc
                           /\ pc'[t] = "idle" => pc[t] = "idle"
  PROVE  IdleInv'
<1>1. IdleInv /\ k.idle_thread \in Thread \cup {NULL}
  BY IInvFacts DEF IInv, PcInv
<1>2. k'.idle_thread # NULL => pc'[k'.idle_thread] \in IdlePc
  BY <1>1 DEF IdleInv
<1>3. \A t \in Thread : pc'[t] \in IdlePc => t = k'.idle_thread
  BY <1>1 DEF IdleInv
<1>4. \A t \in Thread : pc'[t] = "idle" => k'.idle_thread = NULL /\ t # initial_thread
  BY <1>1 DEF IdleInv
<1>5. \A t, u \in Thread : pc'[t] = "idle" /\ pc'[u] = "idle" => t = u
  BY <1>1 DEF IdleInv
<1> QED BY <1>2, <1>3, <1>4, <1>5 DEF IdleInv

\* The start of the system is over once idle_thread is set.
LEMMA BootFrame ==
  ASSUME IInv,
         k.idle_thread # NULL,
         k'.idle_thread = k.idle_thread,
         \A t \in Thread : pc'[t] \in BootPc => pc[t] = pc'[t]
  PROVE  BootInv'
BY IInvFacts DEF IInv, PcInv, BootInv, BootPc

\* Places of a running thread that the invariant does not tell apart.
Plain == {"run", "created", "set_priority"}

\* Most steps move the current thread between two places that the invariant
\* does not tell apart, and put no other thread to sleep or to death.
LEMMA MoveFrame ==
  ASSUME IInv,
         Sound(k'),
         k'.idle_thread = k.idle_thread,
         \A t \in Thread \ {k.idle_thread} : SameClass(k, k', t),
         idle_started' = idle_started,
         pc[k.current] \notin IntrOff,
         NEW to \in Location, pc' = [pc EXCEPT ![k.current] = to],
         \/ to = pc[k.current]
         \/ pc[k.current] \in Plain /\ to \in Plain
         \/ pc[k.current] \in IdlePc /\ to \in IdlePc,
         arg' \in [Thread -> Thread \cup {NULL}],
         \A t \in Thread : pc[t] \in {"create", "boot_create"} => arg'[t] = arg[t],
         HandlerInv'
  PROVE  PcInv'
<1> DEFINE c == k.current
<1>1. /\ c \in Thread /\ NULL \notin Thread /\ initial_thread \in Thread
      /\ k.status[c] = "running" /\ pc[c] \notin {"none", "waiting"}
      /\ k.idle_thread \in Thread \cup {NULL}
      /\ pc \in [Thread -> Location]
  BY IInvFacts DEF IInv, PcInv
<1>2. /\ pc' \in [Thread -> Location] /\ pc'[c] = to
      /\ \A t \in Thread \ {c} : pc'[t] = pc[t]
  BY <1>1
<1>3. \A t \in Thread \ {k.idle_thread} :
        /\ k'.status[t] = "blocked" <=> k.status[t] = "blocked"
        /\ k'.status[t] \in {"free", "dying"} <=> k.status[t] \in {"free", "dying"}
  BY DEF SameClass
<1>4. k.idle_thread # NULL => /\ k.status[k.idle_thread] \notin {"free", "dying"}
                             /\ k'.status[k.idle_thread] \notin {"free", "dying"}
  BY DEF Sound, IdleAlive, IInv
<1>5. PlacesInv'
  BY <1>1, <1>2, <1>3, <1>4
     DEF IInv, PcInv, PlacesInv, IdleInv, Plain, IdlePc
<1>6. NewbornInv'
  <2> SUFFICES ASSUME NEW t \in Thread, pc'[t] \in {"create", "boot_create"}
               PROVE  /\ arg'[t] \in Thread
                      /\ k'.status[arg'[t]] = "blocked"
                      /\ pc'[arg'[t]] \in {"run", "idle"}
                      /\ \A u \in Thread :
                           pc'[u] \in {"create", "boot_create"} /\ arg'[u] = arg'[t]
                             => u = t
    BY DEF NewbornInv
  <2>1. \A u \in Thread : pc'[u] \in {"create", "boot_create"} =>
                            pc[u] = pc'[u] /\ arg'[u] = arg[u]
    BY <1>1, <1>2 DEF Plain, IdlePc
  <2>2. /\ arg[t] \in Thread /\ k.status[arg[t]] = "blocked"
        /\ pc[arg[t]] \in {"run", "idle"} /\ arg'[t] = arg[t]
        /\ \A u \in Thread :
             pc[u] \in {"create", "boot_create"} /\ arg[u] = arg[t] => u = t
    BY <2>1 DEF IInv, PcInv, NewbornInv
  <2>3. arg[t] # c /\ arg[t] # k.idle_thread
    BY <1>1, <2>2 DEF IInv, PcInv, IdleInv, IdlePc
  <2> QED BY <1>2, <1>3, <2>1, <2>2, <2>3
<1>7. IdleInv'
  BY <1>1, <1>2 DEF IInv, PcInv, IdleInv, Plain, IdlePc
<1>8. StartedInv'
  <2>1. initial_thread = c => pc[c] # "boot_recheck"
    BY DEF IntrOff
  <2> QED BY <1>1, <1>2, <1>3, <2>1 DEF IInv, PcInv, StartedInv, IdleInv, IdlePc
<1>9. BootInv'
  <2>1. pc[initial_thread] \notin {"boot", "boot_create", "boot_created"}
    BY <1>1 DEF IInv, PcInv, BootInv, IntrOff
  <2>2. pc'[c] = "idle" <=> pc[c] = "idle"
    BY <1>2 DEF Plain, IdlePc
  <2>3. pc'[c] \in BootPc <=> pc[c] \in BootPc
    BY <1>2 DEF Plain, IdlePc, BootPc
  <2>4. pc'[initial_thread] \notin {"boot", "boot_create", "boot_created"}
    BY <1>1, <1>2, <2>1 DEF Plain, IdlePc
  <2>5. pc'[initial_thread] \in BootPc => pc'[initial_thread] = pc[initial_thread]
    BY <1>1, <1>2 DEF Plain, IdlePc, BootPc
  <2>6. pc[c] \in Plain \cup IdlePc => k.idle_thread # NULL
    BY <1>1 DEF IInv, PcInv, BootInv, Plain, IdlePc, BootPc
  <2>7. \A t \in Thread \ {initial_thread} : pc'[t] \notin BootPc
    BY <1>2, <2>3 DEF IInv, PcInv, BootInv
  <2>8. k.idle_thread = NULL => pc' = pc
    BY <1>1, <2>6
  <2>9. k.idle_thread = NULL /\ pc[initial_thread] \in {"boot_down", "boot_recheck"}
        => \E u \in Thread : pc'[u] = "idle" /\ k'.status[u] # "blocked"
    <3> SUFFICES ASSUME k.idle_thread = NULL,
                        pc[initial_thread] \in {"boot_down", "boot_recheck"}
                 PROVE  \E u \in Thread : pc'[u] = "idle" /\ k'.status[u] # "blocked"
      OBVIOUS
    <3>1. PICK u \in Thread : pc[u] = "idle" /\ k.status[u] # "blocked"
      BY DEF IInv, PcInv, BootInv
    <3> QED BY <1>1, <1>3, <2>8, <3>1
  <2> QED BY <2>4, <2>5, <2>7, <2>8, <2>9 DEF IInv, PcInv, BootInv
<1> QED BY <1>2, <1>5, <1>6, <1>7, <1>8, <1>9 DEF PcInv, IInv

-----------------------------------------------------------------------------
(* Steps of the current thread that MoveFrame covers.                      *)

\* The end of thread_create and of sema_up: yield, or go on.
LEMMA YieldToSound ==
  ASSUME IInv, NEW k2, k2 = k \/ k2 = thread_yield(k)
  PROVE  /\ Sound(k2)
         /\ k2.idle_thread = k.idle_thread
         /\ k2.in_external_intr = k.in_external_intr
         /\ k2.thread_ticks \in {0, k.thread_ticks}
         /\ \A t \in Thread \ {k.idle_thread} : SameClass(k, k2, t)
<1>1. Sound(k)
  BY DEF IInv
<1>2. CASE k2 = k
  BY <1>1, <1>2 DEF SameClass
<1>3. CASE k2 = thread_yield(k)
  <2> DEFINE y == thread_yield(k)
  <2>1. /\ Sound(y) /\ y.idle_thread = k.idle_thread
        /\ y.in_external_intr = k.in_external_intr /\ y.thread_ticks = 0
        /\ \A t \in Thread \ {k.idle_thread} : SameClass(k, y, t)
    BY <1>1, YieldSound
  <2> HIDE DEF y
  <2>2. k2 = y
    BY <1>3 DEF y
  <2> QED BY <2>1, <2>2
<1> QED BY <1>2, <1>3

\* A step of a running thread that may give up the CPU and moves the thread
\* between places MoveFrame does not tell apart.
LEMMA RunningStep ==
  ASSUME IInv, NEW t \in Thread, NEW from, NEW to \in Location,
         Runs(t, from),
         \/ from = to /\ from = "run"
         \/ from \in Plain /\ to \in Plain
         \/ from \in IdlePc /\ to \in IdlePc,
         pc' = [pc EXCEPT ![t] = to],
         Sound(k'),
         k'.idle_thread = k.idle_thread,
         k'.in_external_intr = k.in_external_intr,
         k'.thread_ticks \in {0, k.thread_ticks},
         \A u \in Thread \ {k.idle_thread} : SameClass(k, k', u),
         idle_started' = idle_started,
         \/ arg' = arg
         \/ arg' = [arg EXCEPT ![t] = NULL]
  PROVE  IInv'
<1>1. /\ k.current = t /\ pc[t] = from /\ ~k.in_external_intr
      /\ from \notin IntrOff \cup {"create"}
  BY DEF Runs, Plain, IdlePc, IntrOff
<1>2. SliceBound'
  BY IInvFacts DEF SliceBound
<1>3. HandlerInv'
  BY <1>1 DEF HandlerInv
<1>4. /\ arg' \in [Thread -> Thread \cup {NULL}]
      /\ \A u \in Thread : pc[u] \in {"create", "boot_create"} => arg'[u] = arg[u]
  BY <1>1 DEF IInv, PcInv, IntrOff
<1>5. PcInv'
  BY <1>1, <1>3, <1>4, MoveFrame
<1> QED BY <1>2, <1>5 DEF IInv

\* The yield that ends thread_create, and the one that ends sema_up in idle().
LEMMA YieldToArgStep ==
  ASSUME IInv, NEW t \in Thread,
         \/ YieldToArg(t, "created", "run")
         \/ YieldToArg(t, "idle_yield", "idle_loop")
  PROVE  IInv'
<1>1. k' = k \/ k' = thread_yield(k)
  BY DEF YieldToArg, YieldTo
<1>2. /\ Sound(k') /\ k'.idle_thread = k.idle_thread
      /\ k'.in_external_intr = k.in_external_intr
      /\ k'.thread_ticks \in {0, k.thread_ticks}
      /\ \A u \in Thread \ {k.idle_thread} : SameClass(k, k', u)
  BY <1>1, YieldToSound
<1>3. CASE YieldToArg(t, "created", "run")
  BY <1>2, <1>3, RunningStep DEF YieldToArg, Goto, Plain, Location
<1>4. CASE YieldToArg(t, "idle_yield", "idle_loop")
  BY <1>2, <1>4, RunningStep DEF YieldToArg, Goto, IdlePc, Location
<1> QED BY <1>3, <1>4

\* thread_yield, called by a thread for itself.
LEMMA YieldStep ==
  ASSUME IInv, NEW t \in Thread, Yield(t)
  PROVE  IInv'
<1>1. k' = thread_yield(k) /\ Runs(t, "run")
  BY DEF Yield
<1>2. /\ Sound(k') /\ k'.idle_thread = k.idle_thread
      /\ k'.in_external_intr = k.in_external_intr
      /\ k'.thread_ticks \in {0, k.thread_ticks}
      /\ \A u \in Thread \ {k.idle_thread} : SameClass(k, k', u)
  BY <1>1, YieldToSound
<1>3. pc' = [pc EXCEPT ![t] = "run"] /\ arg' = arg /\ idle_started' = idle_started
  BY <1>1 DEF Yield, Runs, IInv, PcInv
<1> QED BY <1>1, <1>2, <1>3, RunningStep DEF Plain, Location

\* The check that ends thread_set_priority.
LEMMA YieldIfHigherStep ==
  ASSUME IInv, NEW t \in Thread, YieldIfHigher(t)
  PROVE  IInv'
<1>1. k' = k \/ k' = thread_yield(k)
  BY DEF YieldIfHigher
<1>2. /\ Sound(k') /\ k'.idle_thread = k.idle_thread
      /\ k'.in_external_intr = k.in_external_intr
      /\ k'.thread_ticks \in {0, k.thread_ticks}
      /\ \A u \in Thread \ {k.idle_thread} : SameClass(k, k', u)
  BY <1>1, YieldToSound
<1> QED BY <1>2, RunningStep DEF YieldIfHigher, Goto, Plain, Location

\* thread_set_priority, up to its check.
LEMMA ChangePriorityStep ==
  ASSUME IInv, NEW t \in Thread, ChangePriority(t)
  PROVE  IInv'
<1>1. PICK p \in SetPriorities, donated \in BOOLEAN : k' = SetPriority(k, donated, p)
  BY DEF ChangePriority
<1>2. p \in Priority /\ Sound(k)
  BY ThreadsAssumption DEF IInv
<1>3. Runs(t, "run") /\ k.current = t /\ k.current # k.idle_thread
  BY PlaceFacts DEF ChangePriority, Runs, IdlePc
<1> DEFINE r == SetPriority(k, donated, p)
<1>4. /\ Sound(r) /\ r.current = k.current /\ r.idle_thread = k.idle_thread
      /\ r.status = k.status /\ r.thread_ticks = k.thread_ticks
      /\ r.in_external_intr = k.in_external_intr
  BY <1>2, <1>3, SetPrioritySound
<1> HIDE DEF r
<1>5. k' = r
  BY <1>1 DEF r
<1>6. \A u \in Thread \ {k.idle_thread} : SameClass(k, k', u)
  BY <1>4, <1>5 DEF SameClass
<1> QED BY <1>3, <1>4, <1>5, <1>6, RunningStep
        DEF ChangePriority, Goto, Plain, Location

\* A donation moves a ready thread to the queue of its new priority.
LEMMA UpdatePriorityStep ==
  ASSUME IInv, NEW t \in Thread, UpdatePriority(t)
  PROVE  IInv'
<1>1. PICK u \in Thread, p \in Donated :
        u # k.idle_thread /\ k' = thread_update_priority(k, u, p)
  BY DEF UpdatePriority
<1>2. p \in Priority /\ Sound(k)
  BY ThreadsAssumption DEF IInv
<1> DEFINE r == thread_update_priority(k, u, p)
<1>3. /\ Sound(r) /\ r.current = k.current /\ r.idle_thread = k.idle_thread
      /\ r.status = k.status /\ r.thread_ticks = k.thread_ticks
      /\ r.in_external_intr = k.in_external_intr
  BY <1>1, <1>2, UpdateSound
<1> HIDE DEF r
<1>4. k' = r
  BY <1>1 DEF r
<1>5. \A v \in Thread \ {k.idle_thread} : SameClass(k, k', v)
  BY <1>3, <1>4 DEF SameClass
<1>6. Runs(t, "run") /\ pc' = [pc EXCEPT ![t] = "run"]
  BY DEF UpdatePriority, Runs, IInv, PcInv
<1> QED BY <1>3, <1>4, <1>5, <1>6, RunningStep DEF UpdatePriority, Plain, Location

\* The idle thread blocks: schedule can always pick it again.
LEMMA IdleBlocksStep ==
  ASSUME IInv, NEW t \in Thread, IdleBlocks(t)
  PROVE  IInv'
<1>1. /\ Runs(t, "idle_loop") /\ k.current = t /\ t = k.idle_thread
      /\ k' = thread_block(k)
  BY DEF IdleBlocks, Runs, IInv, PcInv, IdleInv, IdlePc
<1>2. Sound(k) /\ Runnable(k)
  BY <1>1, IInvFacts DEF IInv, Runnable
<1> DEFINE r == thread_block(k)
<1>3. /\ Sound(r) /\ r.idle_thread = k.idle_thread
      /\ r.in_external_intr = k.in_external_intr /\ r.thread_ticks = 0
      /\ \A u \in Thread \ {k.idle_thread, k.current} : SameClass(k, r, u)
  BY <1>2, BlockSound
<1> HIDE DEF r
<1>4. k' = r
  BY <1>1 DEF r
<1> QED BY <1>1, <1>3, <1>4, RunningStep DEF IdleBlocks, Goto, IdlePc, Location

-----------------------------------------------------------------------------
(* thread_create.                                                          *)

\* The page of a new thread was free, so nobody refers to it; a place for it
\* in idle() is only made by main, once.
LEMMA CreateThreadStep ==
  ASSUME IInv, NEW t \in Thread, NEW p \in Priority,
         NEW from, NEW to, NEW entry,
         CreateThread(t, from, to, p, entry),
         \/ from = "run" /\ to = "create" /\ entry = "run"
         \/ /\ from = "boot" /\ to = "boot_create" /\ entry = "idle"
            /\ t = initial_thread
  PROVE  IInv'
<1>1. PICK u \in Thread :
        /\ Runs(t, from)
        /\ k.status[u] = "free"
        /\ k' = init_thread(k, u, p)
        /\ pc' = [pc EXCEPT ![t] = to, ![u] = entry]
        /\ arg' = [arg EXCEPT ![t] = u, ![u] = NULL]
        /\ idle_started' = idle_started
  BY DEF CreateThread
<1>2. /\ initial_thread \in Thread /\ NULL \notin Thread /\ t = k.current
      /\ k.status[t] = "running" /\ pc[t] = from /\ pc[u] = "none" /\ u # t
      /\ ~k.in_external_intr
      /\ pc \in [Thread -> Location] /\ arg \in [Thread -> Thread \cup {NULL}]
      /\ k.status \in [Thread -> Status]
  BY <1>1, IInvFacts DEF Runs, IInv, PcInv, PlacesInv
<1> DEFINE r == init_thread(k, u, p)
<1>3. /\ Sound(r) /\ r.current = k.current /\ r.idle_thread = k.idle_thread
      /\ r.status = [k.status EXCEPT ![u] = "blocked"]
      /\ r.thread_ticks = k.thread_ticks
      /\ r.in_external_intr = k.in_external_intr
  BY <1>1, InitThreadSound DEF IInv
<1> HIDE DEF r
<1>4. /\ Sound(k') /\ k'.current = t /\ k'.idle_thread = k.idle_thread
      /\ k'.thread_ticks = k.thread_ticks /\ ~k'.in_external_intr
      /\ k'.status[u] = "blocked"
      /\ \A v \in Thread \ {u} : k'.status[v] = k.status[v]
  <2>1. k' = r
    BY <1>1 DEF r
  <2> QED BY <1>2, <1>3, <2>1
<1>5. /\ pc'[t] = to /\ pc'[u] = entry /\ \A v \in Thread \ {t, u} : pc'[v] = pc[v]
      /\ arg'[t] = u /\ arg'[u] = NULL /\ \A v \in Thread \ {t, u} : arg'[v] = arg[v]
      /\ pc' \in [Thread -> Location] /\ arg' \in [Thread -> Thread \cup {NULL}]
  BY <1>1, <1>2 DEF Location, IntrOff
<1>6. u # k.idle_thread
  BY <1>2 DEF IInv, PcInv, IdleInv, IdlePc
<1>7. SliceBound' /\ HandlerInv'
  BY <1>4 DEF IInv, SliceBound, HandlerInv
<1>8. PlacesInv'
  BY <1>1, <1>2, <1>4, <1>5 DEF IInv, PcInv, PlacesInv
<1>9. NewbornInv'
  <2>1. \A v \in Thread \ {t} : pc'[v] \in {"create", "boot_create"} =>
          /\ v # u /\ pc[v] \in {"create", "boot_create"} /\ arg'[v] = arg[v]
          /\ arg[v] \in Thread /\ k.status[arg[v]] = "blocked"
          /\ arg[v] # u /\ arg[v] # t
    BY <1>1, <1>2, <1>5 DEF IInv, PcInv, NewbornInv
  <2>2. \A v \in Thread \ {t} : pc'[v] \in {"create", "boot_create"} =>
          /\ pc'[arg[v]] \in {"run", "idle"}
          /\ k'.status[arg[v]] = "blocked"
    BY <1>4, <1>5, <2>1 DEF IInv, PcInv, NewbornInv
  <2>3. \A v, w \in Thread \ {t} :
          pc'[v] \in {"create", "boot_create"} /\ pc'[w] \in {"create", "boot_create"}
            /\ arg'[v] = arg'[w] => v = w
    <3> SUFFICES ASSUME NEW v \in Thread \ {t}, NEW w \in Thread \ {t},
                        pc'[v] \in {"create", "boot_create"},
                        pc'[w] \in {"create", "boot_create"},
                        arg'[v] = arg'[w]
                 PROVE  v = w
      OBVIOUS
    <3>1. /\ pc[v] \in {"create", "boot_create"}
          /\ pc[w] \in {"create", "boot_create"}
          /\ arg[v] = arg[w]
      BY <2>1
    <3> QED BY <3>1 DEF IInv, PcInv, NewbornInv
  <2>4. entry \in {"run", "idle"}
    OBVIOUS
  <2> SUFFICES ASSUME NEW v \in Thread, pc'[v] \in {"create", "boot_create"}
               PROVE  /\ arg'[v] \in Thread
                      /\ k'.status[arg'[v]] = "blocked"
                      /\ pc'[arg'[v]] \in {"run", "idle"}
                      /\ \A w \in Thread :
                           pc'[w] \in {"create", "boot_create"} /\ arg'[w] = arg'[v]
                             => w = v
    BY DEF NewbornInv
  <2>5. CASE v = t
    BY <1>4, <1>5, <2>1, <2>4, <2>5
  <2>6. CASE v # t
    BY <1>5, <2>1, <2>2, <2>3, <2>6
  <2> QED BY <2>5, <2>6
<1>10. IdleInv'
  <2>1. from = "boot" => \A v \in Thread : pc[v] # "idle"
    <3> SUFFICES ASSUME from = "boot", NEW v \in Thread
                 PROVE  pc[v] # "idle"
      OBVIOUS
    <3>1. t = initial_thread /\ pc[t] = "boot"
      BY <1>2
    <3> QED BY <3>1 DEF IInv, PcInv, BootInv
  <2>2. from = "boot" => k.idle_thread = NULL
    BY <1>2 DEF IInv, PcInv, BootInv
  <2>3. IdleInv /\ (entry = "idle" => from = "boot")
    BY DEF IInv, PcInv
  <2>4. \A v \in Thread \ {t, u} : pc'[v] = pc[v]
    BY <1>5
  <2>5. k.idle_thread # t
    BY <1>2, PlaceFacts DEF IdlePc
  <2>6. k'.idle_thread # NULL => pc'[k'.idle_thread] \in IdlePc
    BY <1>2, <1>4, <1>6, <2>3, <2>4, <2>5, KernelTypes DEF IdleInv, Sound
  <2>7. \A v \in Thread : pc'[v] \in IdlePc => v = k'.idle_thread
    BY <1>4, <1>5, <2>3, <2>4 DEF IdleInv, IdlePc
  <2>8. \A v \in Thread : pc'[v] = "idle" =>
          /\ k'.idle_thread = NULL
          /\ v # initial_thread
          /\ from = "boot" => v = u
    BY <1>2, <1>4, <1>5, <2>1, <2>2, <2>3, <2>4 DEF IdleInv
  <2>9. \A v, w \in Thread : pc'[v] = "idle" /\ pc'[w] = "idle" => v = w
    BY <1>5, <2>3, <2>4, <2>8 DEF IdleInv
  <2> QED BY <2>6, <2>7, <2>8, <2>9 DEF IdleInv
<1>11. StartedInv'
  BY <1>1, <1>2, <1>4, <1>5 DEF IInv, PcInv, StartedInv
<1>12. BootInv'
  <2>1. CASE from = "boot"
    BY <1>2, <1>4, <1>5, <2>1 DEF IInv, PcInv, BootInv, BootPc
  <2>2. CASE from = "run"
    <3>1. k.idle_thread # NULL
      BY <1>2, <2>2, PlaceFacts DEF BootPc
    <3>2. pc'[t] = "create" /\ pc'[u] = "run"
      BY <1>5, <2>2
    <3>3. \A v \in Thread : pc'[v] \in BootPc => pc[v] = pc'[v]
      BY <1>2, <1>5, <3>2 DEF BootPc
    <3> QED BY <1>4, <3>1, <3>3, BootFrame
  <2> QED BY <2>1, <2>2
<1> QED BY <1>1, <1>4, <1>5, <1>7, <1>8, <1>9, <1>10, <1>11, <1>12
        DEF IInv, PcInv

\* thread_unblock of the thread just created.
LEMMA StartThreadStep ==
  ASSUME IInv, NEW t \in Thread, NEW from, NEW to,
         StartThread(t, from, to),
         \/ from = "create" /\ to = "created"
         \/ from = "boot_create" /\ to = "boot_created" /\ t = initial_thread
  PROVE  IInv'
<1> DEFINE u == arg[t]
<1>1. /\ Runs(t, from)
      /\ k' = thread_unblock(k, u)
      /\ pc' = [pc EXCEPT ![t] = to]
      /\ arg' = arg
      /\ idle_started' = idle_started
  BY DEF StartThread, Goto
<1>2. /\ initial_thread \in Thread /\ NULL \notin Thread /\ t = k.current
      /\ k.status[t] = "running" /\ pc[t] = from /\ ~k.in_external_intr
      /\ pc \in [Thread -> Location] /\ k.status \in [Thread -> Status]
  BY <1>1, IInvFacts DEF Runs, IInv, PcInv
<1>3. /\ u \in Thread /\ k.status[u] = "blocked" /\ pc[u] \in {"run", "idle"}
      /\ u # t /\ NewbornInv
      /\ \A v \in Thread : pc[v] \in {"create", "boot_create"} /\ v # t => arg[v] # u
  BY <1>2 DEF IInv, PcInv, NewbornInv
<1>4. u # k.idle_thread
  BY <1>3, PlaceFacts DEF IdlePc
<1> HIDE DEF u
<1> DEFINE r == thread_unblock(k, u)
<1>5. /\ Sound(r) /\ r.current = k.current /\ r.idle_thread = k.idle_thread
      /\ r.status = [k.status EXCEPT ![u] = "ready"]
      /\ r.thread_ticks = k.thread_ticks
      /\ r.in_external_intr = k.in_external_intr
  <2>1. /\ Sound(r)
        /\ r = [k EXCEPT !.status = r.status, !.ready_queues = r.ready_queues]
        /\ r.status = [k.status EXCEPT ![u] = "ready"]
    BY <1>3, <1>4, UnblockSound DEF IInv
  <2> HIDE DEF r
  <2> QED BY <2>1, IInvFacts DEF KernelState
<1> HIDE DEF r
<1>6. /\ Sound(k') /\ k'.current = t /\ k'.idle_thread = k.idle_thread
      /\ k'.thread_ticks = k.thread_ticks /\ ~k'.in_external_intr
      /\ k'.status[u] = "ready"
      /\ \A v \in Thread \ {u} : k'.status[v] = k.status[v]
  <2>1. k' = r
    BY <1>1 DEF r
  <2> QED BY <1>2, <1>3, <1>5, <2>1
<1>7. /\ pc'[t] = to /\ \A v \in Thread \ {t} : pc'[v] = pc[v]
      /\ pc' \in [Thread -> Location]
  BY <1>1, <1>2 DEF Location, IntrOff
<1>8. SliceBound' /\ HandlerInv'
  BY <1>6 DEF IInv, SliceBound, HandlerInv
<1>9. PlacesInv'
  BY <1>2, <1>3, <1>6, <1>7 DEF IInv, PcInv, PlacesInv
<1>10. NewbornInv'
  <2> SUFFICES ASSUME NEW v \in Thread, pc'[v] \in {"create", "boot_create"}
               PROVE  /\ arg[v] \in Thread
                      /\ k'.status[arg[v]] = "blocked"
                      /\ pc'[arg[v]] \in {"run", "idle"}
                      /\ \A w \in Thread :
                           pc'[w] \in {"create", "boot_create"} /\ arg[w] = arg[v]
                             => w = v
    BY <1>1 DEF NewbornInv
  <2>1. v # t /\ \A w \in Thread : pc'[w] \in {"create", "boot_create"} => pc'[w] = pc[w]
    BY <1>7
  <2>2. arg[v] # u /\ arg[v] # t /\ arg[v] \in Thread
    BY <1>2, <1>3, <1>7, <2>1 DEF NewbornInv
  <2> QED BY <1>3, <1>6, <1>7, <2>1, <2>2 DEF NewbornInv
<1>11. IdleInv'
  <2>1. \A v \in Thread : /\ pc'[v] \in IdlePc <=> pc[v] \in IdlePc
                          /\ pc'[v] = "idle" => pc[v] = "idle"
    BY <1>2, <1>7 DEF IdlePc
  <2> QED BY <1>6, <2>1, IdleFrame
<1>12. StartedInv'
  <2>1. u = initial_thread => pc[u] # "boot_recheck"
    BY <1>3
  <2> QED BY <1>1, <1>2, <1>6, <1>7, <2>1 DEF IInv, PcInv, StartedInv
<1>13. BootInv'
  <2>1. CASE from = "boot_create"
    <3>1. t = initial_thread /\ pc[t] = "boot_create" /\ pc'[t] = "boot_created"
      BY <1>2, <1>7, <2>1
    <3>2. k.idle_thread = NULL
      BY <3>1 DEF IInv, PcInv, BootInv
    <3>3. pc[u] = "idle"
      BY <1>2, <1>3, <3>2 DEF IInv, PcInv, BootInv
    <3>4. pc'[u] = "idle" /\ k'.status[u] # "blocked"
      BY <1>3, <1>6, <1>7, <3>3
    <3> QED BY <1>3, <1>6, <1>7, <3>1, <3>2, <3>4 DEF IInv, PcInv, BootInv, BootPc
  <2>2. CASE from = "create"
    <3>1. k.idle_thread # NULL
      BY <1>2, <2>2, PlaceFacts DEF BootPc
    <3>2. /\ pc'[t] = "created"
          /\ \A v \in Thread : pc'[v] \in BootPc => pc[v] = pc'[v]
      BY <1>2, <1>7, <2>2 DEF BootPc
    <3> QED BY <1>6, <3>1, <3>2, BootFrame
  <2> QED BY <2>1, <2>2
<1> QED BY <1>1, <1>6, <1>7, <1>8, <1>9, <1>10, <1>11, <1>12, <1>13
        DEF IInv, PcInv

-----------------------------------------------------------------------------
(* thread_start, from the creation of the idle thread on.                  *)

\* thread_start after thread_create: main yields to the idle thread or goes on.
LEMMA BootYieldStep ==
  ASSUME IInv, YieldToArg(initial_thread, "boot_created", "boot_down")
  PROVE  IInv'
<1> DEFINE t == initial_thread
<1>1. /\ Runs(t, "boot_created")
      /\ k' = k \/ k' = thread_yield(k)
      /\ pc' = [pc EXCEPT ![t] = "boot_down"]
      /\ arg' = [arg EXCEPT ![t] = NULL]
      /\ idle_started' = idle_started
  BY DEF YieldToArg, YieldTo, Goto
<1>2. /\ Sound(k') /\ k'.idle_thread = k.idle_thread
      /\ k'.in_external_intr = k.in_external_intr
      /\ k'.thread_ticks \in {0, k.thread_ticks}
      /\ \A v \in Thread \ {k.idle_thread} : SameClass(k, k', v)
  BY <1>1, YieldToSound
<1>3. /\ t \in Thread /\ NULL \notin Thread /\ t = k.current
      /\ pc[t] = "boot_created" /\ ~k.in_external_intr
      /\ k.idle_thread = NULL
      /\ pc \in [Thread -> Location] /\ arg \in [Thread -> Thread \cup {NULL}]
  BY <1>1, IInvFacts DEF Runs, IInv, PcInv, BootInv
<1> HIDE DEF t
<1>4. /\ pc'[t] = "boot_down" /\ \A v \in Thread \ {t} : pc'[v] = pc[v]
      /\ pc' \in [Thread -> Location]
      /\ \A v \in Thread \ {t} : arg'[v] = arg[v]
      /\ arg' \in [Thread -> Thread \cup {NULL}]
  BY <1>1, <1>3 DEF Location
<1>5. \A v \in Thread :
        /\ k'.status[v] = "blocked" <=> k.status[v] = "blocked"
        /\ k'.status[v] \in {"free", "dying"} <=> k.status[v] \in {"free", "dying"}
  BY <1>2, <1>3 DEF SameClass
<1>6. SliceBound' /\ HandlerInv'
  BY <1>2, <1>3, IInvFacts DEF SliceBound, HandlerInv
<1>7. PlacesInv'
  BY <1>3, <1>4, <1>5 DEF IInv, PcInv, PlacesInv
<1>8. NewbornInv'
  <2>1. \A v \in Thread : pc'[v] \notin {"create", "boot_create"}
    BY <1>3, <1>4 DEF IInv, PcInv, BootInv, BootPc, t
  <2> QED BY <2>1 DEF NewbornInv
<1>9. IdleInv'
  <2>1. \A v \in Thread : /\ pc'[v] \in IdlePc <=> pc[v] \in IdlePc
                          /\ pc'[v] = "idle" => pc[v] = "idle"
    BY <1>3, <1>4 DEF IdlePc
  <2> QED BY <1>2, <2>1, IdleFrame
<1>10. StartedInv'
  BY <1>1, <1>2, <1>3 DEF IInv, PcInv, StartedInv, t
<1>11. BootInv'
  <2>1. PICK u \in Thread : pc[u] = "idle" /\ k.status[u] # "blocked"
    BY <1>3 DEF IInv, PcInv, BootInv, t
  <2>2. pc'[u] = "idle" /\ k'.status[u] # "blocked"
    BY <1>3, <1>4, <1>5, <2>1
  <2> QED BY <1>2, <1>3, <1>4, <2>2 DEF IInv, PcInv, BootInv, BootPc, t
<1> QED BY <1>1, <1>2, <1>4, <1>6, <1>7, <1>8, <1>9, <1>10, <1>11
        DEF IInv, PcInv

\* Main takes idle_started: the idle thread has raised it.
LEMMA BootTakeStep ==
  ASSUME IInv, NEW from \in {"boot_down", "boot_recheck"},
         WaitForIdle(from), Available(idle_started)
  PROVE  IInv'
<1> DEFINE t == initial_thread
<1>1. /\ Runs(t, from)
      /\ k' = k
      /\ idle_started' = [idle_started EXCEPT !.value = @ - 1]
      /\ pc' = [pc EXCEPT ![t] = "run"]
      /\ arg' = arg
      /\ idle_started.value > 0
  BY DEF WaitForIdle, Goto, Available, sema_take
<1>2. /\ t \in Thread /\ NULL \notin Thread /\ t = k.current
      /\ pc[t] = from /\ ~k.in_external_intr /\ k.status[t] = "running"
      /\ k.idle_thread # NULL
      /\ pc \in [Thread -> Location] /\ idle_started \in Semaphore
  BY <1>1, IInvFacts DEF Runs, IInv, PcInv, StartedInv
<1>3. /\ idle_started' \in Semaphore
      /\ idle_started'.waiters = idle_started.waiters
  BY <1>1, <1>2 DEF Semaphore
<1> HIDE DEF t
<1>4. /\ pc'[t] = "run" /\ \A v \in Thread \ {t} : pc'[v] = pc[v]
      /\ pc' \in [Thread -> Location]
  BY <1>1, <1>2 DEF Location
<1>5. SliceBound' /\ HandlerInv' /\ Sound(k')
  BY <1>1, <1>2, <1>4 DEF IInv, SliceBound, HandlerInv
<1>6. PlacesInv'
  BY <1>1, <1>2, <1>4 DEF IInv, PcInv, PlacesInv
<1>7. NewbornInv'
  BY <1>1, <1>2, <1>4 DEF IInv, PcInv, NewbornInv
<1>8. IdleInv'
  <2>1. \A v \in Thread : /\ pc'[v] \in IdlePc <=> pc[v] \in IdlePc
                          /\ pc'[v] = "idle" => pc[v] = "idle"
    BY <1>2, <1>4 DEF IdlePc
  <2> QED BY <1>1, <2>1, IdleFrame
<1>9. StartedInv'
  BY <1>1, <1>2, <1>3 DEF IInv, PcInv, StartedInv, t
<1>10. BootInv'
  <2>1. \A v \in Thread : pc'[v] \in BootPc => pc[v] = pc'[v]
    BY <1>4 DEF BootPc
  <2> QED BY <1>1, <1>2, <2>1, BootFrame
<1> QED BY <1>1, <1>3, <1>4, <1>5, <1>6, <1>7, <1>8, <1>9, <1>10
        DEF IInv, PcInv

\* While main waits for the idle thread, that thread exists or is ready.
LEMMA BootRunnable ==
  ASSUME IInv, Runs(initial_thread, "boot_down") \/ Runs(initial_thread, "boot_recheck")
  PROVE  Runnable(k)
<1> DEFINE t == initial_thread
<1>1. SUFFICES ASSUME k.idle_thread = NULL
               PROVE  NonEmpty(k) # {}
  BY DEF Runnable
<1>2. t = k.current /\ pc[t] \in {"boot_down", "boot_recheck"} /\ Sound(k)
  BY DEF Runs, IInv
<1>3. PICK u \in Thread : pc[u] = "idle" /\ k.status[u] # "blocked"
  BY <1>1, <1>2 DEF IInv, PcInv, BootInv
<1>4. k.status[u] = "ready"
  <2>1. k.status[u] \in Status /\ k.status[u] \notin {"free", "dying"}
    BY <1>3, IInvFacts DEF IInv, PcInv, PlacesInv
  <2>2. u # t
    BY <1>2, <1>3
  <2>3. k.status[u] # "running"
    BY <1>2, <2>2 DEF Sound
  <2> QED BY <1>3, <2>1, <2>3 DEF Status
<1> DEFINE q == k.ready_queues[k.priority[u]]
<1>5. k.priority[u] \in Priority /\ u # k.idle_thread
  BY <1>1, <1>2, KernelTypes, SchedAssumption DEF Sound
<1>6. u \in ToSet(q)
  BY <1>2, <1>4, <1>5 DEF Sound, Queues
<1>7. q # << >>
  BY <1>6, EmptyList
<1> QED BY <1>5, <1>7 DEF NonEmpty

\* Main falls asleep on idle_started: the idle thread exists or is ready.
LEMMA BootWaitStep ==
  ASSUME IInv, NEW from \in {"boot_down", "boot_recheck"},
         WaitForIdle(from), ~Available(idle_started)
  PROVE  IInv'
<1> DEFINE t == initial_thread
<1>1. /\ Runs(t, from)
      /\ k' = thread_block(k)
      /\ idle_started' = [idle_started EXCEPT !.waiters = Append(@, k.current)]
      /\ pc' = [pc EXCEPT ![t] = "boot_recheck"]
      /\ arg' = arg
  BY DEF WaitForIdle, Goto, sema_wait
<1>2. /\ t \in Thread /\ NULL \notin Thread /\ t = k.current
      /\ pc[t] = from /\ ~k.in_external_intr /\ k.status[t] = "running"
      /\ pc \in [Thread -> Location] /\ idle_started \in Semaphore
      /\ t # k.idle_thread /\ Sound(k)
  BY <1>1, IInvFacts, PlaceFacts DEF Runs, IInv, PcInv, IdlePc
<1>3. /\ idle_started.waiters = << >>
      /\ idle_started' \in Semaphore
      /\ idle_started'.waiters = <<t>>
      /\ idle_started'.value = idle_started.value
  <2>1. idle_started.waiters = << >>
    BY <1>2 DEF IInv, PcInv, StartedInv
  <2>2. Append(<< >>, t) = <<t>> /\ <<t>> \in Seq(Thread)
    BY <1>2
  <2>3. idle_started' = [idle_started EXCEPT !.waiters = <<t>>]
    BY <1>1, <1>2, <2>1, <2>2
  <2> HIDE DEF t
  <2> QED BY <1>2, <2>1, <2>2, <2>3 DEF Semaphore
<1>4. Runnable(k)
  BY BootRunnable, <1>1 DEF t
<1> DEFINE r == thread_block(k)
<1>5. /\ Sound(r) /\ r.idle_thread = k.idle_thread
      /\ r.in_external_intr = k.in_external_intr /\ r.thread_ticks = 0
      /\ k.current # k.idle_thread => r.status[k.current] = "blocked"
      /\ \A v \in Thread \ {k.idle_thread, k.current} : SameClass(k, r, v)
  BY <1>2, <1>4, BlockSound
<1> HIDE DEF r, t
<1>6. /\ Sound(k') /\ k'.idle_thread = k.idle_thread /\ ~k'.in_external_intr
      /\ k'.thread_ticks = 0 /\ k'.status[t] = "blocked"
      /\ \A v \in Thread \ {k.idle_thread, t} :
        /\ k'.status[v] = "blocked" <=> k.status[v] = "blocked"
        /\ k'.status[v] \in {"free", "dying"} <=> k.status[v] \in {"free", "dying"}
  <2>1. k' = r
    BY <1>1 DEF r
  <2> QED BY <1>2, <1>5, <2>1 DEF SameClass
<1>7. /\ pc'[t] = "boot_recheck" /\ \A v \in Thread \ {t} : pc'[v] = pc[v]
      /\ pc' \in [Thread -> Location]
  BY <1>1, <1>2 DEF Location, IntrOff
<1>8. SliceBound' /\ HandlerInv'
  BY <1>6, IInvFacts DEF SliceBound, HandlerInv
<1>9. k.idle_thread # NULL => /\ k.status[k.idle_thread] \notin {"free", "dying"}
                             /\ k'.status[k.idle_thread] \notin {"free", "dying"}
                             /\ k.idle_thread \in Thread
                             /\ pc[k.idle_thread] \in IdlePc
  BY <1>6, IInvFacts DEF Sound, IdleAlive, IInv, PcInv, IdleInv
<1>10. PlacesInv'
  BY <1>2, <1>6, <1>7, <1>9 DEF IInv, PcInv, PlacesInv, IdlePc
<1>11. NewbornInv'
  <2> SUFFICES ASSUME NEW v \in Thread, pc'[v] \in {"create", "boot_create"}
               PROVE  /\ arg[v] \in Thread
                      /\ k'.status[arg[v]] = "blocked"
                      /\ pc'[arg[v]] \in {"run", "idle"}
                      /\ \A w \in Thread :
                           pc'[w] \in {"create", "boot_create"} /\ arg[w] = arg[v]
                             => w = v
    BY <1>1 DEF NewbornInv
  <2>1. v # t /\ \A w \in Thread : pc'[w] \in {"create", "boot_create"} => pc'[w] = pc[w]
    BY <1>7
  <2>2. /\ arg[v] \in Thread /\ k.status[arg[v]] = "blocked"
        /\ pc[arg[v]] \in {"run", "idle"}
        /\ \A w \in Thread :
             pc[w] \in {"create", "boot_create"} /\ arg[w] = arg[v] => w = v
    BY <2>1 DEF IInv, PcInv, NewbornInv
  <2>3. arg[v] # t /\ arg[v] # k.idle_thread
    BY <1>2, <1>9, <2>2 DEF IdlePc
  <2> QED BY <1>6, <1>7, <2>1, <2>2, <2>3
<1>12. IdleInv'
  <2>1. \A v \in Thread : /\ pc'[v] \in IdlePc <=> pc[v] \in IdlePc
                          /\ pc'[v] = "idle" => pc[v] = "idle"
    BY <1>2, <1>7 DEF IdlePc
  <2> QED BY <1>6, <2>1, IdleFrame
<1>13. StartedInv'
  BY <1>2, <1>3, <1>6, <1>7 DEF IInv, PcInv, StartedInv, t
<1>14. BootInv'
  <2>1. k.idle_thread = NULL => \E u \in Thread : pc'[u] = "idle" /\ k'.status[u] # "blocked"
    <3> SUFFICES ASSUME k.idle_thread = NULL
                 PROVE  \E u \in Thread : pc'[u] = "idle" /\ k'.status[u] # "blocked"
      OBVIOUS
    <3>1. PICK u \in Thread : pc[u] = "idle" /\ k.status[u] # "blocked"
      BY <1>2 DEF IInv, PcInv, BootInv, t
    <3> QED BY <1>2, <1>6, <1>7, <3>1
  <2> QED BY <1>2, <1>6, <1>7, <2>1 DEF IInv, PcInv, BootInv, BootPc, t
<1> QED BY <1>1, <1>3, <1>6, <1>7, <1>8, <1>10, <1>11, <1>12, <1>13, <1>14
        DEF IInv, PcInv

-----------------------------------------------------------------------------
(* idle.                                                                   *)

\* idle() sets idle_thread, which no other thread does.
LEMMA IdleBeginsStep ==
  ASSUME IInv, NEW t \in Thread, IdleBegins(t)
  PROVE  IInv'
<1>1. /\ Runs(t, "idle")
      /\ k' = [k EXCEPT !.idle_thread = t]
      /\ pc' = [pc EXCEPT ![t] = "idle_up"]
      /\ arg' = arg /\ idle_started' = idle_started
  BY DEF IdleBegins, Goto
<1>2. /\ t = k.current /\ pc[t] = "idle" /\ ~k.in_external_intr
      /\ k.idle_thread = NULL /\ t # initial_thread /\ k.status[t] = "running"
      /\ NULL \notin Thread /\ pc \in [Thread -> Location] /\ Sound(k)
      /\ initial_thread \in Thread
  BY <1>1, IInvFacts DEF Runs, IInv, PcInv, IdleInv
<1> DEFINE r == [k EXCEPT !.idle_thread = k.current]
<1>3. /\ Sound(r) /\ r.current = k.current /\ r.idle_thread = k.current
      /\ r.status = k.status /\ r.thread_ticks = k.thread_ticks
      /\ r.in_external_intr = k.in_external_intr
  BY <1>2, BecomeIdleSound
<1>4. k' = r
  BY <1>1, <1>2
<1> HIDE DEF r
<1>5. /\ pc'[t] = "idle_up" /\ \A v \in Thread \ {t} : pc'[v] = pc[v]
      /\ pc' \in [Thread -> Location]
  BY <1>1, <1>2 DEF Location
<1>6. SliceBound' /\ HandlerInv'
  BY <1>2, <1>3, <1>4 DEF IInv, SliceBound, HandlerInv
<1>7. PlacesInv'
  BY <1>2, <1>3, <1>4, <1>5 DEF IInv, PcInv, PlacesInv
<1>8. NewbornInv'
  <2>1. \A v \in Thread : pc'[v] \notin {"create", "boot_create"}
    <3>1. pc[initial_thread] # "boot_create"
      BY <1>2 DEF IInv, PcInv, BootInv
    <3> QED BY <1>2, <1>5, <3>1 DEF IInv, PcInv, BootInv, BootPc
  <2> QED BY <2>1 DEF NewbornInv
<1>9. IdleInv'
  BY <1>2, <1>3, <1>4, <1>5 DEF IInv, PcInv, IdleInv, IdlePc
<1>10. StartedInv'
  BY <1>1, <1>2, <1>3, <1>4, <1>5 DEF IInv, PcInv, StartedInv
<1>11. BootInv'
  BY <1>2, <1>3, <1>4, <1>5 DEF IInv, PcInv, BootInv, BootPc
<1> QED BY <1>1, <1>3, <1>4, <1>5, <1>6, <1>7, <1>8, <1>9, <1>10, <1>11
        DEF IInv, PcInv

\* sema_up of idle_started: main is the only thread it can wake.
LEMMA WakeMain ==
  ASSUME IInv
  PROVE  LET r == sema_up(k, idle_started) IN
         /\ r.sema \in Semaphore
         /\ r.sema.waiters = << >>
         /\ \/ r.kernel = k
            \/ /\ r.kernel = thread_unblock(k, initial_thread)
               /\ idle_started.waiters = <<initial_thread>>
         /\ Unblocked(k, idle_started) \in {NULL, initial_thread}
<1> DEFINE s == idle_started
           m == initial_thread
<1>1. s \in Semaphore /\ s.value \in Nat /\ s.waiters \in Seq(Thread) /\ m \in Thread
  BY IInvFacts DEF IInv, PcInv, Semaphore
<1>2. CASE s.waiters = << >>
  BY <1>1, <1>2 DEF sema_up, Unblocked, Semaphore
<1>3. CASE s.waiters = <<m>>
  <2> DEFINE q == <<m>>
  <2>1. DOMAIN q = {1} /\ q[1] = m /\ q # << >>
    OBVIOUS
  <2>2. MaxWaiter(k, q) = m
    <3> DEFINE P(i) == /\ \A j \in DOMAIN q : k.priority[q[j]] <= k.priority[q[i]]
                       /\ \A j \in 1..i-1 : k.priority[q[j]] < k.priority[q[i]]
    <3>1. P(1)
      <4>1. k.priority[m] \in Nat
        BY <1>1, KernelTypes, SchedAssumption DEF IInv, Sound, Priority
      <4> QED BY <2>1, <4>1
    <3>2. (CHOOSE i \in DOMAIN q : P(i)) \in DOMAIN q
      <4> HIDE DEF P
      <4> QED BY <2>1, <3>1
    <3>3. (CHOOSE i \in DOMAIN q : P(i)) = 1
      <4> HIDE DEF P
      <4> QED BY <2>1, <3>2
    <3>4. MaxWaiter(k, q) = q[CHOOSE i \in DOMAIN q : P(i)]
      BY DEF MaxWaiter
    <3> HIDE DEF P
    <3> QED BY <2>1, <3>3, <3>4
  <2>3. Unblocked(k, s) = m
    BY <1>3, <2>1, <2>2 DEF Unblocked
  <2>4. RemoveFirst(q, m) = << >>
    <3>1. q \in Seq(Thread) /\ IsInjective(q)
      BY <1>1, <2>1 DEF IsInjective
    <3>2. ToSet(q) = {m}
      BY <2>1 DEF ToSet
    <3> HIDE DEF q
    <3>3. RemoveFirst(q, m) \in Seq(Thread) /\ ToSet(RemoveFirst(q, m)) = ToSet(q) \ {m}
      BY <3>1, RemoveFacts
    <3>4. ToSet(RemoveFirst(q, m)) = {}
      BY <3>2, <3>3
    <3> QED BY <3>3, <3>4, ToSetFacts
  <2>5. sema_up(k, s) = [kernel |-> thread_unblock(k, m),
                         sema   |-> [value |-> s.value + 1, waiters |-> << >>]]
    BY <1>3, <2>1, <2>3, <2>4 DEF sema_up
  <2>6. [value |-> s.value + 1, waiters |-> << >>] \in Semaphore
    BY <1>1 DEF Semaphore
  <2> QED BY <1>3, <2>3, <2>5, <2>6
<1> QED BY <1>2, <1>3 DEF IInv, PcInv, StartedInv

\* idle() raises idle_started and wakes main, if main waits for it.
LEMMA IdleUpsStep ==
  ASSUME IInv, NEW t \in Thread, IdleUps(t)
  PROVE  IInv'
<1> DEFINE m == initial_thread
<1>1. /\ Runs(t, "idle_up")
      /\ pc' = [pc EXCEPT ![t] = "idle_yield"]
      /\ arg' = [arg EXCEPT ![t] = Unblocked(k, idle_started)]
      /\ k' = sema_up(k, idle_started).kernel
      /\ idle_started' = sema_up(k, idle_started).sema
  BY DEF IdleUps, Goto
<1>2. /\ t = k.current /\ pc[t] = "idle_up" /\ ~k.in_external_intr
      /\ k.idle_thread = t /\ k.status[t] = "running"
      /\ NULL \notin Thread /\ pc \in [Thread -> Location] /\ Sound(k)
      /\ m \in Thread /\ arg \in [Thread -> Thread \cup {NULL}]
      /\ k.status \in [Thread -> Status]
  BY <1>1, IInvFacts DEF Runs, IInv, PcInv, IdleInv, IdlePc
<1>3. /\ idle_started' \in Semaphore /\ idle_started'.waiters = << >>
      /\ \/ k' = k
         \/ /\ k' = thread_unblock(k, m)
            /\ idle_started.waiters = <<m>>
      /\ Unblocked(k, idle_started) \in {NULL, m}
  BY <1>1, WakeMain
<1> HIDE DEF m
<1>4. /\ Sound(k') /\ k'.current = t /\ k'.idle_thread = t
      /\ k'.thread_ticks = k.thread_ticks /\ ~k'.in_external_intr
      /\ \A v \in Thread \ {m} : k'.status[v] = k.status[v]
      /\ \/ k'.status[m] = k.status[m]
         \/ k'.status[m] = "ready" /\ pc[m] = "boot_recheck"
  <2>1. CASE k' = k
    BY <1>2, <2>1
  <2>2. CASE k' = thread_unblock(k, m) /\ idle_started.waiters = <<m>>
    <3>1. pc[m] = "boot_recheck" /\ k.status[m] = "blocked" /\ m # k.idle_thread
      <4>1. idle_started.waiters # << >>
        BY <2>2
      <4> QED BY <1>2, <4>1 DEF IInv, PcInv, StartedInv, m
    <3> DEFINE r == thread_unblock(k, m)
    <3>2. /\ Sound(r)
          /\ r = [k EXCEPT !.status = r.status, !.ready_queues = r.ready_queues]
          /\ r.status = [k.status EXCEPT ![m] = "ready"]
      BY <1>2, <3>1, UnblockSound
    <3> HIDE DEF r
    <3>3. k' = r
      BY <2>2 DEF r
    <3>4. /\ r.current = k.current /\ r.idle_thread = k.idle_thread
          /\ r.thread_ticks = k.thread_ticks
          /\ r.in_external_intr = k.in_external_intr
      BY <3>2, IInvFacts DEF KernelState
    <3> QED BY <1>2, <3>1, <3>2, <3>3, <3>4
  <2> QED BY <1>3, <2>1, <2>2
<1>5. /\ pc'[t] = "idle_yield" /\ \A v \in Thread \ {t} : pc'[v] = pc[v]
      /\ pc' \in [Thread -> Location]
      /\ \A v \in Thread \ {t} : arg'[v] = arg[v]
      /\ arg' \in [Thread -> Thread \cup {NULL}]
  BY <1>1, <1>2, <1>3 DEF Location
<1>6. SliceBound' /\ HandlerInv'
  BY <1>4 DEF IInv, SliceBound, HandlerInv
<1>7. PlacesInv'
  BY <1>2, <1>4, <1>5 DEF IInv, PcInv, PlacesInv
<1>8. NewbornInv'
  <2> SUFFICES ASSUME NEW v \in Thread, pc'[v] \in {"create", "boot_create"}
               PROVE  /\ arg'[v] \in Thread
                      /\ k'.status[arg'[v]] = "blocked"
                      /\ pc'[arg'[v]] \in {"run", "idle"}
                      /\ \A w \in Thread :
                           pc'[w] \in {"create", "boot_create"} /\ arg'[w] = arg'[v]
                             => w = v
    BY DEF NewbornInv
  <2>1. \A w \in Thread : pc'[w] \in {"create", "boot_create"} =>
                            w # t /\ pc'[w] = pc[w] /\ arg'[w] = arg[w]
    BY <1>5
  <2>2. /\ arg[v] \in Thread /\ k.status[arg[v]] = "blocked"
        /\ pc[arg[v]] \in {"run", "idle"}
        /\ \A w \in Thread :
             pc[w] \in {"create", "boot_create"} /\ arg[w] = arg[v] => w = v
    BY <2>1 DEF IInv, PcInv, NewbornInv
  <2>3. arg[v] # t
    BY <1>2, <2>2
  <2>4. k'.status[arg[v]] = "blocked"
    <3>1. CASE arg[v] = m
      BY <1>4, <2>2, <3>1
    <3>2. CASE arg[v] # m
      BY <1>4, <2>2, <3>2
    <3> QED BY <3>1, <3>2
  <2> QED BY <1>5, <2>1, <2>2, <2>3, <2>4
<1>9. IdleInv'
  <2>1. \A v \in Thread : /\ pc'[v] \in IdlePc <=> pc[v] \in IdlePc
                          /\ pc'[v] = "idle" => pc[v] = "idle"
    BY <1>2, <1>5 DEF IdlePc
  <2> QED BY <1>2, <1>4, <2>1, IdleFrame
<1>10. StartedInv'
  BY <1>2, <1>3, <1>4 DEF StartedInv
<1>11. BootInv'
  <2>1. \A v \in Thread : pc'[v] \in BootPc => pc[v] = pc'[v]
    BY <1>5 DEF BootPc
  <2> QED BY <1>2, <1>4, <2>1, BootFrame
<1> QED BY <1>3, <1>4, <1>5, <1>6, <1>7, <1>8, <1>9, <1>10, <1>11
        DEF IInv, PcInv

-----------------------------------------------------------------------------
(* Falling asleep, exiting, and being woken.                               *)

\* A thread falls asleep, or exits and leaves its page to be freed later.
LEMMA LeaveStep ==
  ASSUME IInv, NEW t \in Thread, Block(t) \/ Exit(t)
  PROVE  IInv'
<1>1. PICK to \in {"waiting", "none"} :
        /\ Runs(t, "run")
        /\ to = "waiting" => k' = thread_block(k)
        /\ to = "none" => k' = thread_exit(k)
        /\ pc' = [pc EXCEPT ![t] = to]
        /\ arg' = arg /\ idle_started' = idle_started
  BY DEF Block, Exit, Goto
<1>2. /\ t = k.current /\ pc[t] = "run" /\ ~k.in_external_intr
      /\ t # k.idle_thread /\ k.idle_thread # NULL /\ k.status[t] = "running"
      /\ k.idle_thread \in Thread
      /\ pc \in [Thread -> Location] /\ Sound(k)
  BY <1>1, IInvFacts, PlaceFacts DEF Runs, IInv, PcInv, IdlePc, BootPc
<1>3. /\ Sound(k') /\ k'.idle_thread = k.idle_thread /\ ~k'.in_external_intr
      /\ k'.thread_ticks = 0
      /\ k'.status[t] = IF to = "waiting" THEN "blocked" ELSE "dying"
      /\ \A v \in Thread \ {k.idle_thread, t} : SameClass(k, k', v)
  <2>1. CASE to = "waiting"
    <3> DEFINE r == thread_block(k)
    <3>1. Runnable(k)
      BY <1>2 DEF Runnable
    <3>2. /\ Sound(r) /\ r.idle_thread = k.idle_thread
          /\ r.in_external_intr = k.in_external_intr /\ r.thread_ticks = 0
          /\ k.current # k.idle_thread => r.status[k.current] = "blocked"
          /\ \A v \in Thread \ {k.idle_thread, k.current} : SameClass(k, r, v)
      BY <1>2, <3>1, BlockSound
    <3> HIDE DEF r
    <3>3. k' = r
      BY <1>1, <2>1 DEF r
    <3> QED BY <1>2, <2>1, <3>2, <3>3
  <2>2. CASE to = "none"
    <3> DEFINE r == thread_exit(k)
    <3>1. /\ Sound(r) /\ r.idle_thread = k.idle_thread
          /\ r.in_external_intr = k.in_external_intr /\ r.thread_ticks = 0
          /\ r.status[k.current] = "dying"
          /\ \A v \in Thread \ {k.idle_thread, k.current} : SameClass(k, r, v)
      BY <1>2, ExitSound
    <3> HIDE DEF r
    <3>2. k' = r
      BY <1>1, <2>2 DEF r
    <3> QED BY <1>2, <2>2, <3>1, <3>2
  <2> QED BY <1>1, <2>1, <2>2
<1>4. \A v \in Thread \ {k.idle_thread, t} :
        /\ k'.status[v] = "blocked" <=> k.status[v] = "blocked"
        /\ k'.status[v] \in {"free", "dying"} <=> k.status[v] \in {"free", "dying"}
  BY <1>3 DEF SameClass
<1>5. /\ pc'[t] = to /\ \A v \in Thread \ {t} : pc'[v] = pc[v]
      /\ pc' \in [Thread -> Location]
  BY <1>1, <1>2 DEF Location
<1>6. SliceBound' /\ HandlerInv'
  BY <1>3, IInvFacts DEF SliceBound, HandlerInv
<1>7. /\ k.status[k.idle_thread] \notin {"free", "dying"}
      /\ k'.status[k.idle_thread] \notin {"free", "dying"}
      /\ pc[k.idle_thread] \in IdlePc
  BY <1>2, <1>3, IInvFacts DEF Sound, IdleAlive, IInv, PcInv, IdleInv
<1>8. PlacesInv'
  BY <1>2, <1>3, <1>4, <1>5, <1>7 DEF IInv, PcInv, PlacesInv, IdlePc
<1>9. NewbornInv'
  <2> SUFFICES ASSUME NEW v \in Thread, pc'[v] \in {"create", "boot_create"}
               PROVE  /\ arg[v] \in Thread
                      /\ k'.status[arg[v]] = "blocked"
                      /\ pc'[arg[v]] \in {"run", "idle"}
                      /\ \A w \in Thread :
                           pc'[w] \in {"create", "boot_create"} /\ arg[w] = arg[v]
                             => w = v
    BY <1>1 DEF NewbornInv
  <2>1. v # t /\ \A w \in Thread : pc'[w] \in {"create", "boot_create"} => pc'[w] = pc[w]
    BY <1>1, <1>5
  <2>2. /\ arg[v] \in Thread /\ k.status[arg[v]] = "blocked"
        /\ pc[arg[v]] \in {"run", "idle"}
        /\ \A w \in Thread :
             pc[w] \in {"create", "boot_create"} /\ arg[w] = arg[v] => w = v
    BY <2>1 DEF IInv, PcInv, NewbornInv
  <2>3. arg[v] # t /\ arg[v] # k.idle_thread
    BY <1>2, <1>7, <2>2 DEF IdlePc
  <2> QED BY <1>4, <1>5, <2>1, <2>2, <2>3
<1>10. IdleInv'
  <2>1. \A v \in Thread : /\ pc'[v] \in IdlePc <=> pc[v] \in IdlePc
                          /\ pc'[v] = "idle" => pc[v] = "idle"
    BY <1>1, <1>2, <1>5 DEF IdlePc
  <2> QED BY <1>3, <2>1, IdleFrame
<1>11. StartedInv'
  <2>1. initial_thread \in Thread /\ (pc[initial_thread] = "boot_recheck" =>
           initial_thread \notin {t, k.idle_thread})
    BY <1>2, <1>7, IInvFacts DEF IdlePc
  <2> QED BY <1>1, <1>3, <1>4, <1>5, <2>1 DEF IInv, PcInv, StartedInv
<1>12. BootInv'
  <2>1. \A v \in Thread : pc'[v] \in BootPc => pc[v] = pc'[v]
    BY <1>1, <1>5 DEF BootPc
  <2> QED BY <1>2, <1>3, <2>1, BootFrame
<1> QED BY <1>1, <1>3, <1>5, <1>6, <1>8, <1>9, <1>10, <1>11, <1>12
        DEF IInv, PcInv

\* A thread that waits is woken, by a thread or by a handler.
LEMMA WakeStep ==
  ASSUME IInv,
         \/ \E t \in Thread : Unblock(t)
         \/ \E u \in Thread : IntrUnblock(u)
  PROVE  IInv'
<1>1. PICK u \in Thread :
        /\ pc[u] = "waiting"
        /\ \/ k' = thread_unblock(k, u)
           \/ k' = intr_yield_on_return(thread_unblock(k, u))
        /\ pc' = [pc EXCEPT ![u] = "run"]
        /\ arg' = arg /\ idle_started' = idle_started
  BY DEF Unblock, IntrUnblock, Goto
<1>2. /\ k.status[u] = "blocked" /\ u # k.idle_thread /\ u # k.current
      /\ k.idle_thread # NULL /\ k.current \in Thread
      /\ pc \in [Thread -> Location] /\ Sound(k) /\ k.status \in [Thread -> Status]
      /\ pc[k.current] \in IntrOff => ~k.in_external_intr
  BY <1>1, IInvFacts, PlaceFacts
     DEF IInv, PcInv, PlacesInv, HandlerInv, IdlePc, BootPc
<1> DEFINE r == thread_unblock(k, u)
           y == intr_yield_on_return(r)
<1>3. /\ Sound(r) /\ r.current = k.current /\ r.idle_thread = k.idle_thread
      /\ r.status = [k.status EXCEPT ![u] = "ready"]
      /\ r.thread_ticks = k.thread_ticks
      /\ r.in_external_intr = k.in_external_intr
  <2>1. /\ Sound(r)
        /\ r = [k EXCEPT !.status = r.status, !.ready_queues = r.ready_queues]
        /\ r.status = [k.status EXCEPT ![u] = "ready"]
    BY <1>2, UnblockSound
  <2> HIDE DEF r
  <2> QED BY <2>1, IInvFacts DEF KernelState
<1> HIDE DEF r
<1>4. /\ Sound(y) /\ y.current = r.current /\ y.idle_thread = r.idle_thread
      /\ y.status = r.status /\ y.thread_ticks = r.thread_ticks
      /\ y.in_external_intr = r.in_external_intr
  BY <1>3, InterruptSound
<1> HIDE DEF y
<1>5. /\ Sound(k') /\ k'.current = k.current /\ k'.idle_thread = k.idle_thread
      /\ k'.thread_ticks = k.thread_ticks
      /\ k'.in_external_intr = k.in_external_intr
      /\ k'.status[u] = "ready"
      /\ \A v \in Thread \ {u} : k'.status[v] = k.status[v]
  <2>1. k' = r \/ k' = y
    BY <1>1 DEF r, y
  <2> QED BY <1>2, <1>3, <1>4, <2>1
<1>6. /\ pc'[u] = "run" /\ \A v \in Thread \ {u} : pc'[v] = pc[v]
      /\ pc' \in [Thread -> Location]
  BY <1>1, <1>2 DEF Location
<1>7. SliceBound' /\ HandlerInv'
  BY <1>2, <1>5, <1>6 DEF IInv, PcInv, SliceBound, HandlerInv
<1>8. PlacesInv'
  BY <1>1, <1>2, <1>5, <1>6 DEF IInv, PcInv, PlacesInv
<1>9. NewbornInv'
  <2> SUFFICES ASSUME NEW v \in Thread, pc'[v] \in {"create", "boot_create"}
               PROVE  /\ arg[v] \in Thread
                      /\ k'.status[arg[v]] = "blocked"
                      /\ pc'[arg[v]] \in {"run", "idle"}
                      /\ \A w \in Thread :
                           pc'[w] \in {"create", "boot_create"} /\ arg[w] = arg[v]
                             => w = v
    BY <1>1 DEF NewbornInv
  <2>1. \A w \in Thread : pc'[w] \in {"create", "boot_create"} => w # u /\ pc'[w] = pc[w]
    BY <1>6
  <2>2. /\ arg[v] \in Thread /\ k.status[arg[v]] = "blocked"
        /\ pc[arg[v]] \in {"run", "idle"}
        /\ \A w \in Thread :
             pc[w] \in {"create", "boot_create"} /\ arg[w] = arg[v] => w = v
    BY <2>1 DEF IInv, PcInv, NewbornInv
  <2>3. arg[v] # u
    BY <1>1, <2>2
  <2> QED BY <1>5, <1>6, <2>1, <2>2, <2>3
<1>10. IdleInv'
  <2>1. \A v \in Thread : /\ pc'[v] \in IdlePc <=> pc[v] \in IdlePc
                          /\ pc'[v] = "idle" => pc[v] = "idle"
    BY <1>1, <1>6 DEF IdlePc
  <2> QED BY <1>5, <2>1, IdleFrame
<1>11. StartedInv'
  <2>1. initial_thread \in Thread /\ (pc[initial_thread] = "boot_recheck" =>
           initial_thread # u)
    BY <1>1, IInvFacts
  <2> QED BY <1>1, <1>5, <1>6, <2>1 DEF IInv, PcInv, StartedInv
<1>12. BootInv'
  <2>1. \A v \in Thread : pc'[v] \in BootPc => pc[v] = pc'[v]
    BY <1>6 DEF BootPc
  <2> QED BY <1>2, <1>5, <2>1, BootFrame
<1> QED BY <1>1, <1>5, <1>6, <1>7, <1>8, <1>9, <1>10, <1>11, <1>12
        DEF IInv, PcInv

-----------------------------------------------------------------------------
(* External interrupts.                                                    *)

\* An interrupt arrives.
LEMMA IntrEnterStep ==
  ASSUME IInv, IntrEnter
  PROVE  IInv'
<1>1. /\ k' = intr_enter(k) /\ pc[k.current] \notin IntrOff
      /\ pc' = pc /\ arg' = arg /\ idle_started' = idle_started
  BY DEF IntrEnter, Interruptible
<1> DEFINE r == intr_enter(k)
<1>2. /\ Sound(r) /\ r.current = k.current /\ r.idle_thread = k.idle_thread
      /\ r.status = k.status /\ r.thread_ticks = k.thread_ticks
  BY InterruptSound DEF IInv
<1> HIDE DEF r
<1>3. k' = r
  BY <1>1 DEF r
<1>4. \A u \in Thread \ {k.idle_thread} : SameClass(k, k', u)
  BY <1>2, <1>3 DEF SameClass
<1>5. SliceBound' /\ HandlerInv'
  BY <1>1, <1>2, <1>3 DEF IInv, SliceBound, HandlerInv
<1>6. /\ pc' = [pc EXCEPT ![k.current] = pc[k.current]]
      /\ pc[k.current] \in Location
      /\ arg' \in [Thread -> Thread \cup {NULL}]
  BY <1>1, IInvFacts DEF IInv, PcInv
<1>7. PcInv'
  BY <1>1, <1>2, <1>3, <1>4, <1>5, <1>6, MoveFrame
<1> QED BY <1>2, <1>3, <1>5, <1>7 DEF IInv

\* The handler has run: thread_tick counts the tick and asks for a yield
\* before the slice is exceeded.
LEMMA ReturnStep ==
  ASSUME IInv, DeviceReturn \/ TimerReturn
  PROVE  IInv'
<1>1. PICK k1 \in {k, thread_tick(k)} :
        /\ k' = intr_return(k1) /\ k.in_external_intr
        /\ pc' = AfterHalt /\ arg' = arg /\ idle_started' = idle_started
  BY DEF DeviceReturn, TimerReturn, InHandler
<1>2. /\ Sound(k1) /\ k1.current = k.current /\ k1.idle_thread = k.idle_thread
      /\ k1.status = k.status
      /\ k1.thread_ticks \in Nat
      /\ ~k1.yield_on_return => k1.thread_ticks < TIME_SLICE
  <2>1. CASE k1 = k
    BY <2>1, IInvFacts DEF IInv
  <2>2. CASE k1 = thread_tick(k)
    <3> DEFINE r == thread_tick(k)
    <3>1. /\ Sound(r) /\ r.current = k.current /\ r.idle_thread = k.idle_thread
          /\ r.status = k.status /\ r.thread_ticks = k.thread_ticks + 1
          /\ r.yield_on_return =
               (k.yield_on_return \/ k.thread_ticks + 1 >= TIME_SLICE)
      BY InterruptSound DEF IInv
    <3> HIDE DEF r
    <3>2. k1 = r
      BY <2>2 DEF r
    <3>3. ~r.yield_on_return => ~(k.thread_ticks + 1 >= TIME_SLICE)
      BY <3>1, Zenon
    <3>4. /\ k.thread_ticks + 1 \in Nat
          /\ ~(k.thread_ticks + 1 >= TIME_SLICE) => k.thread_ticks + 1 < TIME_SLICE
      BY IInvFacts
    <3>5. ~r.yield_on_return => r.thread_ticks < TIME_SLICE
      BY <3>1, <3>3, <3>4
    <3> QED BY <3>1, <3>2, <3>4, <3>5
  <2> QED BY <2>1, <2>2
<1> DEFINE r == intr_return(k1)
<1>3. /\ Sound(r) /\ r.idle_thread = k1.idle_thread /\ ~r.in_external_intr
      /\ r.thread_ticks = IF k1.yield_on_return THEN 0 ELSE k1.thread_ticks
      /\ \A u \in Thread \ {k1.idle_thread} : SameClass(k1, r, u)
  BY <1>2, ReturnSound
<1> HIDE DEF r
<1>4. k' = r
  BY <1>1 DEF r
<1>5. SliceBound' /\ HandlerInv'
  BY <1>2, <1>3, <1>4, IInvFacts DEF SliceBound, HandlerInv
<1>6. \A u \in Thread \ {k.idle_thread} : SameClass(k, k', u)
  BY <1>2, <1>3, <1>4 DEF SameClass
<1>7. /\ pc \in [Thread -> Location] /\ arg' \in [Thread -> Thread \cup {NULL}]
      /\ pc[k.current] \in Location /\ pc[k.current] \notin IntrOff
      /\ "idle_loop" \in Location
  BY <1>1, IInvFacts DEF IInv, PcInv, HandlerInv, Location
<1>8. CASE pc[k.current] = "idle_halt"
  <2>1. pc' = [pc EXCEPT ![k.current] = "idle_loop"]
    BY <1>1, <1>8 DEF AfterHalt
  <2>2. pc[k.current] \in IdlePc /\ "idle_loop" \in IdlePc
    BY <1>8 DEF IdlePc
  <2>3. PcInv'
    BY <1>1, <1>2, <1>3, <1>4, <1>5, <1>6, <1>7, <2>1, <2>2, MoveFrame
  <2> QED BY <1>3, <1>4, <1>5, <2>3 DEF IInv
<1>9. CASE pc[k.current] # "idle_halt"
  <2>1. pc' = [pc EXCEPT ![k.current] = pc[k.current]]
    BY <1>1, <1>7, <1>9 DEF AfterHalt
  <2>2. PcInv'
    BY <1>1, <1>2, <1>3, <1>4, <1>5, <1>6, <1>7, <2>1, MoveFrame
  <2> QED BY <1>3, <1>4, <1>5, <2>2 DEF IInv
<1> QED BY <1>8, <1>9

-----------------------------------------------------------------------------
(* The invariant and what follows from it.                                 *)

\* The invariant holds when thread_init has run.
LEMMA InitIInv == Init => IInv
<1> SUFFICES ASSUME Init PROVE IInv
  OBVIOUS
<1> USE SchedAssumption
<1>1. << >> \in Seq(Thread) /\ ToSet(<< >>) = {} /\ IsInjective(<< >>)
  BY EmptyList
<1>2. k \in KernelState
  BY <1>1 DEF Init, thread_init, KernelState, Priority, Status
<1>3. /\ k.current = initial_thread /\ k.idle_thread = NULL
      /\ k.status = [t \in Thread |-> IF t = initial_thread THEN "running" ELSE "free"]
      /\ k.ready_queues = [p \in Priority |-> << >>]
      /\ k.destruction_req = << >> /\ k.thread_ticks = 0
      /\ k.in_external_intr = FALSE /\ k.panic = FALSE
  BY DEF Init, thread_init
<1>4. Sound(k)
  <2>1. Queues(k)
    BY <1>1, <1>3 DEF Queues
  <2>2. Requests(k) /\ IdleAlive(k)
    BY <1>1, <1>3 DEF Requests, IdleAlive
  <2>3. \A t \in Thread : k.status[t] = "running" <=> t = k.current
    BY <1>3
  <2> QED BY <1>2, <1>3, <2>1, <2>2, <2>3 DEF Sound
<1>5. SliceBound
  BY <1>3 DEF SliceBound
<1>6. /\ pc = [t \in Thread |-> IF t = initial_thread THEN "boot" ELSE "none"]
      /\ arg = [t \in Thread |-> NULL]
      /\ idle_started = [value |-> 0, waiters |-> << >>]
  BY DEF Init, sema_init
<1>7. /\ pc \in [Thread -> Location] /\ arg \in [Thread -> Thread \cup {NULL}]
      /\ idle_started \in Semaphore
  BY <1>1, <1>6 DEF Location, IntrOff, Semaphore
<1>8. PlacesInv /\ NewbornInv /\ IdleInv /\ StartedInv
  BY <1>3, <1>6 DEF PlacesInv, NewbornInv, IdleInv, StartedInv, IdlePc
<1>9. BootInv /\ HandlerInv
  BY <1>3, <1>6 DEF BootInv, HandlerInv, BootPc
<1> QED BY <1>4, <1>5, <1>7, <1>8, <1>9 DEF IInv, PcInv

\* The invariant is inductive: every step preserves it.
LEMMA NextIInv == IInv /\ [Next]_vars => IInv'
<1> SUFFICES ASSUME IInv, [Next]_vars PROVE IInv'
  OBVIOUS
<1>1. CASE Boot
  <2> DEFINE t == initial_thread
  <2>1. t \in Thread /\ 0 \in Priority
    BY SchedAssumption DEF Priority
  <2>2. CASE CreateThread(t, "boot", "boot_create", 0, "idle")
    BY <2>1, <2>2, CreateThreadStep
  <2>3. CASE StartThread(t, "boot_create", "boot_created")
    BY <2>1, <2>3, StartThreadStep
  <2>4. CASE YieldToArg(t, "boot_created", "boot_down")
    BY <2>4, BootYieldStep
  <2>5. ASSUME NEW from \in {"boot_down", "boot_recheck"}, WaitForIdle(from)
        PROVE  IInv'
    BY <2>5, BootTakeStep, BootWaitStep
  <2> QED BY <1>1, <2>2, <2>3, <2>4, <2>5 DEF Boot, thread_start
<1>2. ASSUME NEW t \in Thread, ThreadStep(t)
      PROVE  IInv'
  <2>1. CASE thread_create(t)
    <3>1. ASSUME NEW p \in NewPriority, CreateThread(t, "run", "create", p, "run")
          PROVE  IInv'
      BY <3>1, ThreadsAssumption, CreateThreadStep
    <3>2. CASE StartThread(t, "create", "created")
      BY <3>2, StartThreadStep
    <3>3. CASE YieldToArg(t, "created", "run")
      BY <3>3, YieldToArgStep
    <3> QED BY <2>1, <3>1, <3>2, <3>3 DEF thread_create
  <2>2. CASE idle(t)
    BY <2>2, IdleBeginsStep, IdleUpsStep, YieldToArgStep, IdleBlocksStep DEF idle
  <2>3. CASE Yield(t)
    BY <2>3, YieldStep
  <2>4. CASE Block(t) \/ Exit(t)
    BY <2>4, LeaveStep
  <2>5. CASE Unblock(t)
    BY <2>5, WakeStep
  <2>6. CASE thread_set_priority(t)
    BY <2>6, ChangePriorityStep, YieldIfHigherStep DEF thread_set_priority
  <2>7. CASE UpdatePriority(t)
    BY <2>7, UpdatePriorityStep
  <2> QED BY <1>2, <2>1, <2>2, <2>3, <2>4, <2>5, <2>6, <2>7 DEF ThreadStep
<1>3. CASE Interrupt
  BY <1>3, IntrEnterStep, WakeStep, ReturnStep DEF Interrupt
<1>4. CASE UNCHANGED vars
  BY <1>4 DEF vars, IInv, SliceBound, PcInv, PlacesInv, NewbornInv, IdleInv,
              StartedInv, BootInv, HandlerInv
<1> QED BY <1>1, <1>2, <1>3, <1>4 DEF Next

\* IInv holds in every reachable state.
THEOREM Invariance == Spec => []IInv
BY InitIInv, NextIInv, PTL DEF Spec

\* Every variable keeps its type: the state the runs explore is the state
\* the code has.
THEOREM TypeCorrect == Spec => []TypeOK
<1>1. IInv => TypeOK
  BY DEF IInv, PcInv, Sound, TypeOK
<1> QED BY <1>1, Invariance, PTL

\* No assertion of thread.c fails, with any number of threads: in particular
\* schedule never runs out of threads, not even before idle() has run.
THEOREM NoAssertionFails == Spec => []NoPanic
<1>1. IInv => NoPanic
  BY DEF IInv, Sound, NoPanic
<1> QED BY <1>1, Invariance, PTL

\* The ready queues hold exactly the ready threads, each once and where its
\* priority says, so list_remove in thread_update_priority always finds the
\* thread in a queue.
THEOREM QueuesExact == Spec => []ReadyQueuesExact
<1>1. IInv => ReadyQueuesExact
  <2> SUFFICES ASSUME IInv PROVE ReadyQueuesExact
    OBVIOUS
  <2>1. k \in KernelState /\ Queues(k)
    BY DEF IInv, Sound
  <2>2. ASSUME NEW p \in Priority, NEW i \in DOMAIN k.ready_queues[p]
        PROVE  /\ k.status[k.ready_queues[p][i]] = "ready"
               /\ k.priority[k.ready_queues[p][i]] = p
               /\ k.ready_queues[p][i] # k.idle_thread
    <3> DEFINE q == k.ready_queues[p]
    <3>1. q \in Seq(Thread)
      BY <2>1, QueueType
    <3>2. q[i] \in Thread /\ q[i] \in ToSet(q)
      <4> HIDE DEF q
      <4>1. i \in DOMAIN q
        BY <2>2 DEF q
      <4> QED BY <3>1, <4>1, ToSetFacts DEF ToSet
    <3> QED BY <2>1, <3>2 DEF Queues
  <2>3. ASSUME NEW t \in Thread, k.status[t] = "ready", t # k.idle_thread
        PROVE  Contains(k.ready_queues[k.priority[t]], t)
    <3> DEFINE q == k.ready_queues[k.priority[t]]
    <3>1. k.priority[t] \in Priority
      BY <2>1, KernelTypes
    <3>2. t \in ToSet(q) /\ q \in Seq(Thread)
      BY <2>1, <2>3, <3>1, QueueType DEF Queues
    <3> HIDE DEF q
    <3>3. Contains(q, t)
      BY <3>2, ToSetFacts
    <3> QED BY <3>3 DEF q
  <2> QED BY <2>1, <2>2, <2>3 DEF ReadyQueuesExact, Queues
<1> QED BY <1>1, Invariance, PTL

\* A page is never freed under the thread that runs on it, and never twice.
THEOREM DestructionIsSafe == Spec => []DestructionSafe
<1>1. IInv => DestructionSafe
  <2> SUFFICES ASSUME IInv PROVE DestructionSafe
    OBVIOUS
  <2>1. /\ k.status[k.current] = "running" /\ Requests(k)
        /\ \A t \in Thread : k.status[t] = "running" => t = k.current
    BY IInvFacts DEF IInv, Sound
  <2> DEFINE d == k.destruction_req
  <2>2. \A i \in DOMAIN d : d[i] \in ToSet(d)
    BY DEF ToSet
  <2>3. \A i \in DOMAIN d : k.status[d[i]] = "dying" /\ d[i] # initial_thread
    BY <2>1, <2>2 DEF Requests
  <2> QED BY <2>1, <2>3 DEF DestructionSafe, Requests
<1> QED BY <1>1, Invariance, PTL

\* No thread runs longer than its slice while interrupts can be taken.
THEOREM SlicesBounded == Spec => []SliceBound
<1>1. IInv => SliceBound
  BY DEF IInv
<1> QED BY <1>1, Invariance, PTL

-----------------------------------------------------------------------------
(* Switches.                                                               *)

\* A step either leaves the current thread on the CPU or has called schedule.
LEMMA SwitchStep ==
  ASSUME IInv, Next
  PROVE  k'.current = k.current \/ Highest(k')
<1>1. k \in KernelState /\ Sound(k)
  BY DEF IInv, Sound
<1>2. Highest(thread_yield(k))
  BY <1>1, YieldSound
<1>3. ASSUME NEW t \in Thread, NEW from, NEW to, NEW p, NEW entry,
             CreateThread(t, from, to, p, entry)
      PROVE  k'.current = k.current
  BY <1>1, <1>3 DEF CreateThread, init_thread, KernelState
<1>4. ASSUME NEW u \in Thread
      PROVE  /\ thread_unblock(k, u).current = k.current
             /\ intr_yield_on_return(thread_unblock(k, u)).current = k.current
  <2>1. \/ thread_unblock(k, u) = Panic(k)
        \/ \E f, g : thread_unblock(k, u) = [k EXCEPT !.ready_queues = f, !.status = g]
    BY <1>1 DEF thread_unblock, list_push_back, KernelState
  <2> QED BY <1>1, <2>1 DEF Panic, intr_yield_on_return, KernelState
<1>5. ASSUME NEW t \in Thread, NEW from, NEW to, StartThread(t, from, to)
      PROVE  k'.current = k.current
  <2>1. CASE arg[t] \in Thread
    BY <1>4, <1>5, <2>1 DEF StartThread
  <2>2. CASE arg[t] \notin Thread
    <3>1. \/ k' = Panic(k)
          \/ \E f, g : k' = [k EXCEPT !.ready_queues = f, !.status = g]
      BY <1>1, <1>5 DEF StartThread, thread_unblock, list_push_back, KernelState
    <3> QED BY <1>1, <3>1 DEF Panic, KernelState
  <2> QED BY <2>1, <2>2
<1>6. ASSUME NEW t \in Thread, NEW from, NEW to, YieldToArg(t, from, to)
      PROVE  k'.current = k.current \/ Highest(k')
  BY <1>2, <1>6 DEF YieldToArg, YieldTo
<1>7. CASE Boot
  <2>1. CASE thread_start
    BY <1>3, <1>5, <1>6, <2>1, SchedAssumption DEF thread_start
  <2>2. ASSUME NEW from \in {"boot_down", "boot_recheck"}, WaitForIdle(from)
        PROVE  k'.current = k.current \/ Highest(k')
    <3>1. CASE Available(idle_started)
      BY <2>2, <3>1 DEF WaitForIdle
    <3>2. CASE ~Available(idle_started)
      <4>1. Runs(initial_thread, from) /\ k' = thread_block(k)
        BY <2>2, <3>2 DEF WaitForIdle, sema_wait
      <4>2. Runnable(k)
        BY <4>1, BootRunnable
      <4> QED BY <1>1, <4>1, <4>2, BlockSound
    <3> QED BY <3>1, <3>2
  <2> QED BY <1>7, <2>1, <2>2 DEF Boot
<1>8. ASSUME NEW t \in Thread, ThreadStep(t)
      PROVE  k'.current = k.current \/ Highest(k')
  <2>1. CASE thread_create(t)
    BY <1>3, <1>5, <1>6, <2>1 DEF thread_create
  <2>2. CASE IdleBegins(t)
    BY <1>1, <2>2 DEF IdleBegins, KernelState
  <2>3. CASE IdleUps(t)
    <3>1. k' = k \/ k' = thread_unblock(k, initial_thread)
      BY <2>3, WakeMain DEF IdleUps
    <3> QED BY <1>4, <3>1, SchedAssumption
  <2>4. CASE IdleBlocks(t) \/ Block(t)
    <3>1. Runnable(k)
      BY <2>4, PlaceFacts, IInvFacts
         DEF Runnable, IdleBlocks, Block, Runs, BootPc
    <3> QED BY <1>1, <2>4, <3>1, BlockSound DEF IdleBlocks, Block
  <2>5. CASE YieldToArg(t, "idle_yield", "idle_loop")
    BY <1>6, <2>5
  <2>6. CASE Yield(t) \/ YieldIfHigher(t)
    BY <1>2, <2>6 DEF Yield, YieldIfHigher
  <2>7. CASE Unblock(t)
    BY <1>4, <2>7 DEF Unblock
  <2>8. CASE ChangePriority(t)
    <3>1. PICK p \in SetPriorities, donated \in BOOLEAN :
            k' = SetPriority(k, donated, p)
      BY <2>8 DEF ChangePriority
    <3>2. p \in Priority /\ k.current # k.idle_thread
      BY <2>8, PlaceFacts, IInvFacts, ThreadsAssumption
         DEF ChangePriority, Runs, IdlePc
    <3> QED BY <1>1, <3>1, <3>2, SetPrioritySound
  <2>9. CASE UpdatePriority(t)
    BY <1>1, <2>9, ThreadsAssumption, UpdateSound DEF UpdatePriority
  <2>10. CASE Exit(t)
    <3>1. k.idle_thread # NULL /\ k.current # k.idle_thread
      BY <2>10, PlaceFacts, IInvFacts DEF Exit, Runs, BootPc, IdlePc
    <3> QED BY <1>1, <2>10, <3>1, ExitSound DEF Exit
  <2> QED BY <1>8, <2>1, <2>2, <2>3, <2>4, <2>5, <2>6, <2>7, <2>8, <2>9, <2>10
          DEF ThreadStep, idle, thread_set_priority
<1>9. CASE Interrupt
  <2>1. CASE IntrEnter
    BY <1>1, <2>1, InterruptSound DEF IntrEnter
  <2>2. ASSUME NEW u \in Thread, IntrUnblock(u)
        PROVE  k'.current = k.current
    BY <1>4, <2>2 DEF IntrUnblock
  <2>3. CASE DeviceReturn
    BY <1>1, <2>3, ReturnSound DEF DeviceReturn
  <2>4. CASE TimerReturn
    <3> DEFINE r == thread_tick(k)
    <3>1. Sound(r) /\ r.current = k.current
      BY <1>1, InterruptSound
    <3> HIDE DEF r
    <3>2. intr_return(r).current = r.current \/ Highest(intr_return(r))
      BY <3>1, ReturnSound
    <3> QED BY <2>4, <3>1, <3>2 DEF TimerReturn, r
  <2> QED BY <1>9, <2>1, <2>2, <2>3, <2>4 DEF Interrupt
<1> QED BY <1>7, <1>8, <1>9 DEF Next

\* A switch gives the CPU to a thread of the highest priority there is, and
\* to the idle thread only when the queues are empty.
THEOREM SwitchesToHighest == Spec => SwitchToHighest
<1>1. IInv /\ [Next]_vars =>
        [k'.current # k.current =>
           \A t \in Thread :
             Queued(k', t) => /\ k'.priority[t] <= k'.priority[k'.current]
                              /\ k'.current # k'.idle_thread]_vars
  BY SwitchStep DEF Highest
<1> QED BY <1>1, Invariance, PTL DEF Spec, SwitchToHighest

-----------------------------------------------------------------------------
(* For the modules that add waiting: which thread sema_up wakes, and which *)
(* steps of a thread leave the others as they are.                         *)

\* The waiter that sema_up chooses is on the list, and no other one has a
\* higher priority.
LEMMA MaxWaiterFacts ==
  ASSUME NEW kk \in KernelState, NEW q \in Seq(Thread), q # << >>
  PROVE  /\ MaxWaiter(kk, q) \in ToSet(q)
         /\ MaxWaiter(kk, q) \in Thread
         /\ \A t \in ToSet(q) : kk.priority[t] <= kk.priority[MaxWaiter(kk, q)]
<1> DEFINE P(i) == kk.priority[q[i]]
           S == {P(i) : i \in DOMAIN q}
           I == {i \in DOMAIN q : P(i) = Max(S)}
           Best(i) == /\ \A j \in DOMAIN q : kk.priority[q[j]] <= kk.priority[q[i]]
                      /\ \A j \in 1..i-1 : kk.priority[q[j]] < kk.priority[q[i]]
           m == CHOOSE i \in DOMAIN q : Best(i)
<1>1. /\ DOMAIN q = 1..Len(q) /\ Len(q) \in Nat
      /\ \A i \in DOMAIN q : q[i] \in Thread /\ P(i) \in 0..PRI_MAX
      /\ 1 \in DOMAIN q
  BY KernelTypes DEF Priority
<1>2. S \subseteq 0..PRI_MAX /\ S # {}
  BY <1>1
<1>3. Max(S) \in S /\ \A y \in S : y <= Max(S)
  BY <1>2, MaxExists, SchedAssumption
<1>4. I # {} /\ I \subseteq Nat
  <2>1. PICK i \in DOMAIN q : P(i) = Max(S)
    BY <1>3
  <2>2. i \in I
    BY <2>1
  <2>3. \A j \in I : j \in Nat
    BY <1>1
  <2> QED BY <2>2, <2>3
<1>5. Min(I) \in I /\ \A y \in I : Min(I) <= y
  BY <1>4, MinExists
<1>6. Best(Min(I))
  <2>1. \A j \in DOMAIN q : P(j) <= P(Min(I))
    BY <1>3, <1>5
  <2>2. ASSUME NEW j \in 1..Min(I)-1 PROVE P(j) < P(Min(I))
    <3>1. Min(I) \in DOMAIN q
      BY <1>5
    <3>2. j \in DOMAIN q /\ ~ (Min(I) <= j)
      <4> HIDE DEF I
      <4> QED BY <1>1, <3>1
    <3>3. P(j) # P(Min(I))
      BY <1>5, <3>2
    <3>4. P(j) \in 0..PRI_MAX /\ P(Min(I)) \in 0..PRI_MAX
      BY <1>1, <3>1, <3>2
    <3>5. P(j) <= P(Min(I))
      BY <2>1, <3>2
    <3> HIDE DEF P, I
    <3> QED BY <3>3, <3>4, <3>5, SchedAssumption
  <2> QED BY <2>1, <2>2
<1>7. m \in DOMAIN q /\ Best(m)
  <2> HIDE DEF Best
  <2> QED BY <1>5, <1>6
<1>8. MaxWaiter(kk, q) = q[m]
  BY DEF MaxWaiter
<1>9. q[m] \in ToSet(q) /\ \A t \in ToSet(q) : kk.priority[t] <= kk.priority[q[m]]
  <2> HIDE DEF m
  <2> QED BY <1>7 DEF ToSet
<1> HIDE DEF m
<1> QED BY <1>1, <1>7, <1>8, <1>9

\* Who a sema_up wakes, if anybody.
LEMMA UnblockedFacts ==
  ASSUME NEW kk \in KernelState, NEW s \in Semaphore
  PROVE  /\ s.waiters \in Seq(Thread) /\ s.value \in Nat
         /\ Unblocked(kk, s) = NULL <=> s.waiters = << >>
         /\ Unblocked(kk, s) # NULL =>
              /\ Unblocked(kk, s) \in ToSet(s.waiters)
              /\ Unblocked(kk, s) \in Thread
              /\ \A t \in ToSet(s.waiters) :
                   kk.priority[t] <= kk.priority[Unblocked(kk, s)]
<1>1. s.waiters \in Seq(Thread) /\ s.value \in Nat
  BY DEF Semaphore
<1>2. s.waiters # << >> => MaxWaiter(kk, s.waiters) # NULL
  BY <1>1, MaxWaiterFacts, SchedAssumption
<1> QED BY <1>1, <1>2, MaxWaiterFacts DEF Unblocked

\* A thread that is awake at a place outside the system falls asleep only in a
\* step that moves it from there.
LEMMA AwakeStep ==
  ASSUME IInv, Next, NEW t \in Thread,
         pc[t] = "run", pc'[t] = "run", k.status[t] # "blocked"
  PROVE  k'.status[t] # "blocked"
<1>1. k \in KernelState /\ Sound(k) /\ t # k.idle_thread /\ k.current \in Thread
      /\ k.status \in [Thread -> Status] /\ NULL \notin Thread
      /\ pc \in [Thread -> Location]
  BY PlaceFacts, IInvFacts DEF IInv, Sound, IdlePc, PcInv
<1>2. SameClass(k, thread_yield(k), t)
  BY <1>1, YieldSound
<1>3. ASSUME NEW c \in Thread, NEW from, NEW to, NEW p, NEW entry,
             CreateThread(c, from, to, p, entry)
      PROVE  k'.status[t] # "blocked"
  <2>1. PICK u \in Thread : k.status[u] = "free" /\ k' = init_thread(k, u, p)
    BY <1>3 DEF CreateThread
  <2>2. t # u
    BY <2>1 DEF IInv, PcInv, PlacesInv
  <2> QED BY <1>1, <2>1, <2>2 DEF init_thread, KernelState
<1>4. ASSUME NEW u
      PROVE  /\ thread_unblock(k, u).status[t] # "blocked"
             /\ intr_yield_on_return(thread_unblock(k, u)).status[t] # "blocked"
  <2>1. \/ thread_unblock(k, u) = Panic(k)
        \/ \E f : thread_unblock(k, u) =
                    [k EXCEPT !.ready_queues = f, !.status = [k.status EXCEPT ![u] = "ready"]]
    BY <1>1 DEF thread_unblock, list_push_back, KernelState
  <2>2. [k.status EXCEPT ![u] = "ready"][t] # "blocked"
    BY <1>1
  <2> QED BY <1>1, <2>1, <2>2 DEF Panic, intr_yield_on_return, KernelState
<1>5. ASSUME NEW c \in Thread, NEW from, NEW to, YieldToArg(c, from, to)
      PROVE  k'.status[t] # "blocked"
  BY <1>2, <1>5 DEF YieldToArg, YieldTo, SameClass
<1>6. ASSUME Runnable(k), k.current # t
      PROVE  thread_block(k).status[t] # "blocked"
  BY <1>1, <1>6, BlockSound DEF SameClass
<1>7. CASE Boot
  <2>1. CASE thread_start
    BY <1>3, <1>4, <1>5, <2>1, SchedAssumption DEF thread_start, StartThread
  <2>2. ASSUME NEW from \in {"boot_down", "boot_recheck"}, WaitForIdle(from)
        PROVE  k'.status[t] # "blocked"
    <3>1. CASE Available(idle_started)
      BY <2>2, <3>1 DEF WaitForIdle
    <3>2. CASE ~Available(idle_started)
      <4>1. Runs(initial_thread, from) /\ k' = thread_block(k)
        BY <2>2, <3>2 DEF WaitForIdle, sema_wait
      <4>2. Runnable(k) /\ k.current # t
        BY <4>1, BootRunnable DEF Runs
      <4> QED BY <1>6, <4>1, <4>2
    <3> QED BY <3>1, <3>2
  <2> QED BY <1>7, <2>1, <2>2 DEF Boot
<1>8. ASSUME NEW c \in Thread, ThreadStep(c)
      PROVE  k'.status[t] # "blocked"
  <2>1. CASE thread_create(c)
    BY <1>3, <1>4, <1>5, <2>1 DEF thread_create, StartThread
  <2>2. CASE IdleBegins(c)
    BY <1>1, <2>2 DEF IdleBegins, KernelState
  <2>3. CASE IdleUps(c)
    <3>1. k' = k \/ k' = thread_unblock(k, initial_thread)
      BY <2>3, WakeMain DEF IdleUps
    <3> QED BY <1>4, <3>1
  <2>4. CASE IdleBlocks(c) \/ Block(c)
    <3>1. Runnable(k)
      BY <2>4, PlaceFacts, IInvFacts DEF Runnable, IdleBlocks, Block, Runs, BootPc
    <3>2. k.current # t
      BY <1>1, <2>4 DEF IdleBlocks, Block, Runs, Goto
    <3> QED BY <1>6, <2>4, <3>1, <3>2 DEF IdleBlocks, Block
  <2>5. CASE YieldToArg(c, "idle_yield", "idle_loop")
    BY <1>5, <2>5
  <2>6. CASE Yield(c) \/ YieldIfHigher(c)
    BY <1>2, <2>6 DEF Yield, YieldIfHigher, SameClass
  <2>7. CASE Unblock(c)
    BY <1>4, <2>7 DEF Unblock
  <2>8. CASE ChangePriority(c)
    <3>1. PICK p \in SetPriorities, donated \in BOOLEAN :
            k' = SetPriority(k, donated, p)
      BY <2>8 DEF ChangePriority
    <3>2. p \in Priority /\ k.current # k.idle_thread
      BY <2>8, PlaceFacts, IInvFacts, ThreadsAssumption
         DEF ChangePriority, Runs, IdlePc
    <3> QED BY <1>1, <3>1, <3>2, SetPrioritySound
  <2>9. CASE UpdatePriority(c)
    BY <1>1, <2>9, ThreadsAssumption, UpdateSound DEF UpdatePriority
  <2>10. CASE Exit(c)
    <3>1. k.idle_thread # NULL /\ k.current # k.idle_thread
      BY <2>10, PlaceFacts, IInvFacts DEF Exit, Runs, BootPc, IdlePc
    <3>2. k.current # t
      BY <1>1, <2>10 DEF Exit, Runs, Goto
    <3> QED BY <1>1, <2>10, <3>1, <3>2, ExitSound DEF Exit, SameClass
  <2> QED BY <1>8, <2>1, <2>2, <2>3, <2>4, <2>5, <2>6, <2>7, <2>8, <2>9, <2>10
          DEF ThreadStep, idle, thread_set_priority
<1>9. CASE Interrupt
  <2>1. CASE IntrEnter
    BY <1>1, <2>1, InterruptSound DEF IntrEnter
  <2>2. ASSUME NEW u \in Thread, IntrUnblock(u)
        PROVE  k'.status[t] # "blocked"
    BY <1>4, <2>2 DEF IntrUnblock
  <2>3. CASE DeviceReturn
    BY <1>1, <2>3, ReturnSound DEF DeviceReturn, SameClass
  <2>4. CASE TimerReturn
    <3> DEFINE r == thread_tick(k)
    <3>1. Sound(r) /\ r.idle_thread = k.idle_thread /\ r.status = k.status
      BY <1>1, InterruptSound
    <3> HIDE DEF r
    <3>2. SameClass(r, intr_return(r), t)
      BY <1>1, <3>1, ReturnSound
    <3> QED BY <2>4, <3>1, <3>2 DEF TimerReturn, r, SameClass
  <2> QED BY <1>9, <2>1, <2>2, <2>3, <2>4 DEF Interrupt
<1> QED BY <1>7, <1>8, <1>9 DEF Next

\* The steps that neither put a thread to sleep outside the system nor wake or
\* end one.
PlainStep ==
  \/ Boot
  \/ \E t \in Thread : \/ idle(t)
                       \/ thread_create(t)
                       \/ thread_set_priority(t)
                       \/ Yield(t)
                       \/ UpdatePriority(t)
  \/ IntrEnter
  \/ DeviceReturn
  \/ TimerReturn

\* Such a step moves a thread away from "run" only in a call of its own.
LEMMA PlainMoves ==
  ASSUME IInv, PlainStep, NEW u \in Thread
  PROVE  /\ pc'[u] = "waiting" <=> pc[u] = "waiting"
         /\ pc'[u] # pc[u] /\ pc[u] = "run" =>
              thread_create(u) \/ thread_set_priority(u)
         /\ pc[u] \notin {"none", "idle"} \cup IdlePc =>
              pc'[u] \notin {"none", "idle"} \cup IdlePc
<1>1. pc \in [Thread -> Location] /\ initial_thread \in Thread
  BY SchedAssumption DEF IInv, PcInv
<1>2. ASSUME NEW c \in Thread, NEW from, NEW to, NEW p, NEW entry,
             CreateThread(c, from, to, p, entry)
      PROVE  \E v \in Thread : /\ pc[v] = "none" /\ v # c
                               /\ pc[c] = from
                               /\ pc' = [pc EXCEPT ![c] = to, ![v] = entry]
  BY <1>1, <1>2, IInvFacts DEF CreateThread, Runs, IInv, PcInv, PlacesInv
<1>3. CASE Boot
  BY <1>1, <1>2, <1>3
     DEF Boot, thread_start, StartThread, YieldToArg, WaitForIdle, Goto, Runs, IdlePc
<1>4. ASSUME NEW t \in Thread, thread_create(t)
      PROVE  /\ pc'[u] = "waiting" <=> pc[u] = "waiting"
             /\ pc'[u] # pc[u] /\ pc[u] = "run" => thread_create(u)
             /\ pc[u] \notin {"none", "idle"} \cup IdlePc =>
                  pc'[u] \notin {"none", "idle"} \cup IdlePc
  <2>1. ASSUME NEW p \in NewPriority, CreateThread(t, "run", "create", p, "run")
        PROVE  /\ pc'[u] = "waiting" <=> pc[u] = "waiting"
               /\ pc'[u] # pc[u] /\ pc[u] = "run" => u = t
               /\ pc[u] \notin {"none", "idle"} \cup IdlePc =>
                    pc'[u] \notin {"none", "idle"} \cup IdlePc
    BY <1>1, <1>2, <2>1 DEF IdlePc
  <2>2. CASE StartThread(t, "create", "created") \/ YieldToArg(t, "created", "run")
    BY <1>1, <2>2 DEF StartThread, YieldToArg, Goto, Runs, IdlePc
  <2>3. \/ \E p \in NewPriority : CreateThread(t, "run", "create", p, "run")
        \/ StartThread(t, "create", "created") \/ YieldToArg(t, "created", "run")
    BY <1>4 DEF thread_create
  <2>4. u = t => thread_create(u)
    BY <1>4
  <2> QED BY <2>1, <2>2, <2>3, <2>4
<1>5. ASSUME NEW t \in Thread, thread_set_priority(t)
      PROVE  /\ pc'[u] = "waiting" <=> pc[u] = "waiting"
             /\ pc'[u] # pc[u] /\ pc[u] = "run" => u = t
             /\ pc[u] \notin {"none", "idle"} \cup IdlePc =>
                  pc'[u] \notin {"none", "idle"} \cup IdlePc
  BY <1>1, <1>5
     DEF thread_set_priority, ChangePriority, YieldIfHigher, Goto, Runs, IdlePc
<1>6. ASSUME NEW t \in Thread, idle(t)
      PROVE  /\ pc'[u] = "waiting" <=> pc[u] = "waiting"
             /\ pc'[u] # pc[u] => pc[u] \in {"idle"} \cup IdlePc
  BY <1>1, <1>6
     DEF idle, IdleBegins, IdleUps, YieldToArg, IdleBlocks, Goto, Runs, IdlePc
<1>7. ASSUME NEW t \in Thread, Yield(t) \/ UpdatePriority(t)
      PROVE  pc' = pc
  BY <1>7 DEF Yield, UpdatePriority
<1>8. CASE IntrEnter \/ DeviceReturn \/ TimerReturn
  BY <1>1, <1>8, IInvFacts DEF IntrEnter, DeviceReturn, TimerReturn, AfterHalt, IdlePc
<1> QED BY <1>3, <1>4, <1>5, <1>6, <1>7, <1>8 DEF PlainStep, IdlePc

\* Two kernel states with the same priorities, donated and not.
SamePriorities(k1, k2) ==
  k2.priority = k1.priority /\ k2.base_priority = k1.base_priority

\* schedule does not touch a priority.
LEMMA ScheduleKeeps ==
  ASSUME NEW kk \in KernelState
  PROVE  SamePriorities(kk, schedule(kk))
<1> DEFINE q == PopNext(kk)
           next == next_thread_to_run(kk)
<1>1. /\ DOMAIN q = DOMAIN kk
      /\ q.priority = kk.priority /\ q.base_priority = kk.base_priority
      /\ {"current", "status", "thread_ticks", "destruction_req", "panic",
          "priority", "base_priority"} \subseteq DOMAIN kk
  BY DEF PopNext, KernelState
<1>2. \A f : DOMAIN f = DOMAIN kk =>
        \A c, s, d : LET g == [f EXCEPT !.current = c, !.status = s,
                                       !.thread_ticks = 0, !.destruction_req = d]
                     IN  g.priority = f.priority /\ g.base_priority = f.base_priority
  BY <1>1
<1>3. CASE next = NULL
  BY <1>1, <1>3 DEF schedule, Panic, SamePriorities
<1>4. CASE next # NULL
  <2>1. \E s, d : schedule(kk) = [q EXCEPT !.current = next, !.status = s,
                                      !.thread_ticks = 0, !.destruction_req = d]
    BY <1>4 DEF schedule
  <2> HIDE DEF q
  <2> QED BY <1>1, <1>2, <2>1 DEF SamePriorities
<1> QED BY <1>3, <1>4

\* Nor does any other operation that does not set one.
LEMMA PrioritiesKept ==
  ASSUME NEW kk, Sound(kk)
  PROVE  /\ SamePriorities(kk, thread_block(kk))
         /\ SamePriorities(kk, thread_yield(kk))
         /\ SamePriorities(kk, thread_exit(kk))
         /\ SamePriorities(kk, thread_tick(kk))
         /\ SamePriorities(kk, intr_enter(kk))
         /\ SamePriorities(kk, intr_return(kk))
         /\ \A u : /\ SamePriorities(kk, thread_unblock(kk, u))
                   /\ SamePriorities(kk, intr_yield_on_return(thread_unblock(kk, u)))
<1>1. kk \in KernelState
  BY DEF Sound
<1>2. ASSUME NEW k1 \in KernelState, NEW s \in {"ready", "dying"}
      PROVE  SamePriorities(k1, do_schedule(k1, s))
  <2>1. /\ Leaving(k1, s) \in KernelState
        /\ SamePriorities(k1, Leaving(k1, s))
    <3>1. Leaving(k1, s) \in KernelState /\ Leaving(k1, s).priority = k1.priority
      BY LeavingFacts, <1>2 DEF Status
    <3>2. Leaving(k1, s).base_priority = k1.base_priority
      BY <1>2 DEF Leaving, FreePages, KernelState
    <3> QED BY <3>1, <3>2 DEF SamePriorities
  <2>2. do_schedule(k1, s) = schedule(Leaving(k1, s))
    BY DEF do_schedule, Leaving
  <2> QED BY <2>1, <2>2, ScheduleKeeps DEF SamePriorities
<1>3. ASSUME NEW k1 \in KernelState
      PROVE  SamePriorities(k1, thread_yield(k1))
  <2>1. CASE k1.current = k1.idle_thread
    BY <1>2, <2>1 DEF thread_yield
  <2>2. CASE k1.current # k1.idle_thread
    <3> DEFINE r == list_push_back(k1, k1.priority[k1.current], k1.current)
    <3>1. r \in KernelState /\ r = [k1 EXCEPT !.ready_queues = r.ready_queues]
      <4>1. k1.current \in Thread /\ k1.priority[k1.current] \in Priority
        BY KernelTypes
      <4> QED BY <4>1, PushFacts
    <3>2. thread_yield(k1) = do_schedule(r, "ready")
      BY <2>2 DEF thread_yield
    <3> HIDE DEF r
    <3>3. SamePriorities(k1, r)
      BY <3>1 DEF KernelState, SamePriorities
    <3> QED BY <1>2, <3>1, <3>2, <3>3 DEF SamePriorities
  <2> QED BY <2>1, <2>2
<1>4. SamePriorities(kk, thread_block(kk))
  <2> DEFINE r == [kk EXCEPT !.status = [kk.status EXCEPT ![kk.current] = "blocked"]]
  <2>1. thread_block(kk) = schedule(r)
    BY <1>1 DEF thread_block, KernelState
  <2>2. r \in KernelState /\ SamePriorities(kk, r)
    BY <1>1 DEF KernelState, SamePriorities, Status
  <2> HIDE DEF r
  <2> QED BY <2>1, <2>2, ScheduleKeeps DEF SamePriorities
<1>5. /\ SamePriorities(kk, thread_exit(kk))
      /\ SamePriorities(kk, thread_yield(kk))
  BY <1>1, <1>2, <1>3 DEF thread_exit
<1>6. /\ SamePriorities(kk, thread_tick(kk))
      /\ SamePriorities(kk, intr_enter(kk))
  BY <1>1 DEF thread_tick, intr_enter, KernelState, SamePriorities
<1>7. SamePriorities(kk, intr_return(kk))
  <2> DEFINE d == [kk EXCEPT !.in_external_intr = FALSE, !.yield_on_return = FALSE]
  <2>1. d \in KernelState /\ SamePriorities(kk, d)
    BY <1>1 DEF KernelState, SamePriorities
  <2>2. intr_return(kk) = IF kk.yield_on_return THEN thread_yield(d) ELSE d
    BY DEF intr_return
  <2> HIDE DEF d
  <2> QED BY <1>3, <2>1, <2>2 DEF SamePriorities
<1>8. ASSUME NEW u
      PROVE  /\ SamePriorities(kk, thread_unblock(kk, u))
             /\ SamePriorities(kk, intr_yield_on_return(thread_unblock(kk, u)))
  <2>1. \/ thread_unblock(kk, u) = Panic(kk)
        \/ \E f, g : thread_unblock(kk, u) = [kk EXCEPT !.ready_queues = f, !.status = g]
    BY <1>1 DEF thread_unblock, list_push_back, KernelState
  <2> QED BY <1>1, <2>1 DEF Panic, intr_yield_on_return, KernelState, SamePriorities
<1> QED BY <1>4, <1>5, <1>6, <1>7, <1>8

\* The threads in the ready queues are the ready ones.
LEMMA QueuedReady ==
  ASSUME NEW kk, Sound(kk), NEW u \in Thread
  PROVE  Queued(kk, u) <=> kk.status[u] = "ready" /\ u # kk.idle_thread
<1>1. kk \in KernelState /\ Queues(kk) /\ kk.priority[u] \in Priority
  BY KernelTypes DEF Sound
<1>2. \A p \in Priority : Contains(kk.ready_queues[p], u) <=> u \in ToSet(kk.ready_queues[p])
  BY <1>1, QueueType, ToSetFacts
<1> QED BY <1>1, <1>2 DEF Queued, Queues

\* What has_higher_ready_thread says of the threads.
LEMMA HigherReady ==
  ASSUME NEW kk, Sound(kk), ~has_higher_ready_thread(kk), NEW u \in Thread, Queued(kk, u)
  PROVE  ~(kk.priority[u] > kk.priority[kk.current])
<1>1. kk \in KernelState /\ Queues(kk)
  BY DEF Sound
<1>2. PICK p \in Priority : Contains(kk.ready_queues[p], u)
  BY DEF Queued
<1>3. kk.ready_queues[p] \in Seq(Thread)
  BY <1>1, QueueType
<1>4. u \in ToSet(kk.ready_queues[p]) /\ kk.ready_queues[p] # << >>
  BY <1>2, <1>3, ToSetFacts
<1>5. kk.priority[u] = p
  BY <1>1, <1>4 DEF Queues
<1> QED BY <1>4, <1>5 DEF has_higher_ready_thread, NonEmpty

\* And the other way round.
LEMMA NobodyHigher ==
  ASSUME NEW kk, Sound(kk),
         \A u \in Thread : Queued(kk, u) => ~(kk.priority[u] > kk.priority[kk.current])
  PROVE  ~has_higher_ready_thread(kk)
<1> SUFFICES ASSUME NEW p \in NonEmpty(kk)
             PROVE  ~(p > kk.priority[kk.current])
  BY DEF has_higher_ready_thread
<1>1. kk \in KernelState /\ Queues(kk) /\ p \in Priority /\ kk.ready_queues[p] # << >>
  BY DEF Sound, NonEmpty
<1>2. kk.ready_queues[p] \in Seq(Thread)
  BY <1>1, QueueType
<1>3. PICK u \in Thread : u \in ToSet(kk.ready_queues[p])
  BY <1>1, <1>2, TailFacts
<1>4. Queued(kk, u) /\ kk.priority[u] = p
  BY <1>1, <1>2, <1>3, ToSetFacts DEF Queued, Queues
<1> QED BY <1>4
=============================================================================
