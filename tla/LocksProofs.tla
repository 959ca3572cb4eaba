---------------------------- MODULE LocksProofs ----------------------------
(***************************************************************************)
(* The safety of locks and of priority donation, for any number of threads *)
(* and locks and for interrupts anywhere.                                  *)
(***************************************************************************)
EXTENDS Locks, ThreadsProofs

\* The types of the locks and of what the threads remember of them.
LockTypes ==
  /\ holder \in [Lock -> Thread \cup {NULL}]
  /\ lsema \in [Lock -> Semaphore]
  /\ donations \in [Thread -> SUBSET Thread]
  /\ waiting_lock \in [Thread -> Lock \cup {NULL}]
  /\ owns \in [Thread -> SUBSET Lock]
  /\ at \in [Thread -> {"out"} \cup Acquiring \cup Releasing]
  /\ on \in [Thread -> Lock \cup {NULL}]
  /\ ptr \in [Thread -> Thread \cup Lock \cup {NULL}]
  /\ new_priority \in [Thread -> Priority]
  /\ fault \in BOOLEAN

\* A thread that has been created and is not the idle thread.
Alive(t) == pc[t] \notin {"none", "idle"} \cup IdlePc

\* A thread in synch.c is awake there or asleep in sema_down, and works on a
\* lock that it does not hold.
LockPlaces ==
  \A t \in Thread :
    /\ at[t] # "out" => pc[t] \in {"run", "waiting"}
    /\ pc[t] = "waiting" => at[t] = "recheck"
    /\ at[t] = "out" <=> on[t] = NULL
    /\ on[t] \notin owns[t]

\* What the pointer of a thread that walks the chain of holders points to.
Pointers ==
  /\ \A t \in Thread :
       /\ at[t] = "loop" => ptr[t] \in Lock \cup {NULL}
       /\ at[t] \in {"holder", "yield"} => ptr[t] \in Thread \cup {NULL}
       /\ at[t] = "chain" => ptr[t] \in Thread
       /\ at[t] = "follow" => fault \/ ptr[t] \in Thread
       /\ at[t] \in {"holder", "chain"} /\ ptr[t] # NULL => Alive(ptr[t])
  /\ \A l \in Lock : holder[l] # NULL => Alive(holder[l])

\* The threads on the list of a lock's semaphore are those that sleep in
\* lock_acquire of that lock, once each.
Waiters(l) == ToSet(lsema[l].waiters)

LockLists ==
  /\ \A l \in Lock : IsInjective(lsema[l].waiters)
  /\ \A t \in Thread : pc[t] = "waiting" => t \in Waiters(on[t])
  /\ \A l \in Lock : \A t \in Waiters(l) : pc[t] = "waiting" /\ on[t] = l

\* One thread at most is between sema_down and sema_up of a lock, the value says
\* whether there is one, and holder names a thread that owns it.
Exclusive ==
  \A l \in Lock :
    /\ \A t, u \in Inside(l) : t = u
    /\ lsema[l].value = IF Inside(l) = {} THEN 1 ELSE 0
    /\ \A t \in Thread : l \in owns[t] => holder[l] = t

\* A lock names as its holder a thread that owns it, or is about to clear it.
HolderOwns ==
  \A l \in Lock :
    holder[l] # NULL =>
      \/ l \in owns[holder[l]]
      \/ on[holder[l]] = l /\ at[holder[l]] \in {"refresh", "update", "clear"}

\* waiting_lock is set from its assignment in lock_acquire to the end of
\* sema_down.
Walking == {"compare", "donate", "next", "loop", "holder", "chain", "follow"}
Waits == Walking \cup {"push", "down", "recheck", "got"}

WaitingSet ==
  \A t \in Thread :
    /\ waiting_lock[t] # NULL => waiting_lock[t] = on[t] /\ at[t] \in Waits
    /\ at[t] \in Walking \cup {"push"} => waiting_lock[t] = on[t]

LockCore ==
  /\ LockTypes
  /\ LockPlaces
  /\ Pointers
  /\ LockLists
  /\ Exclusive
  /\ HolderOwns
  /\ WaitingSet

LockInv == LockCore /\ cuts \in 0 .. MaxCuts

-----------------------------------------------------------------------------
(* What holds besides as long as no interrupt has cut into a lock function. *)

\* Only the running thread is in the middle of a lock function.
OneInside ==
  /\ \A t \in Thread : t # k.current => at[t] \in {"out", "recheck"}
  /\ k.in_external_intr => at[k.current] = "out"

\* A donor waits for a lock of the thread it donates to.
DonorsWait == \A t, d \in Thread : d \in donations[t] => waiting_lock[d] \in owns[t]

\* The donations that the running thread has still to pass on: its own, and
\* then that of the holder it has just raised.
Owed(t, d) ==
  LET c == k.current IN
  \/ at[c] \in {"compare", "donate"} /\ d = c /\ t = holder[on[c]]
  \/ at[c] = "next" /\ d = holder[on[c]]
  \/ at[c] = "loop" /\ waiting_lock[d] = ptr[c]
  \/ at[c] \in {"holder", "chain"} /\ t = ptr[c]
  \/ at[c] = "follow" /\ d = ptr[c]

\* Every donation counts, or is owed and no higher than the running thread's.
Heard ==
  /\ \A t, d \in Thread : d \in donations[t] =>
       \/ priority(d) <= priority(t)
       \/ Owed(t, d) /\ priority(d) <= priority(k.current)
  /\ at[k.current] = "donate" /\ holder[on[k.current]] # NULL =>
       priority(holder[on[k.current]]) < priority(k.current)
  /\ at[k.current] = "chain" => priority(ptr[k.current]) < priority(k.current)
  /\ \A t \in Thread : at[t] = "update" =>
       \A d \in donations[t] : priority(d) <= new_priority[t]

\* A thread without a lock has its own priority.
Returned ==
  /\ \A t \in Thread :
       owns[t] = {} /\ at[t] \notin {"refresh", "update"} =>
         priority(t) = k.base_priority[t]
  /\ \A t \in Thread :
       owns[t] = {} /\ at[t] = "update" => new_priority[t] = k.base_priority[t]
  /\ at[k.current] \in {"holder", "chain"} /\ ptr[k.current] # NULL =>
       owns[ptr[k.current]] # {}

UncutInv == cuts = 0 => OneInside /\ DonorsWait /\ Heard /\ Returned

-----------------------------------------------------------------------------
(* Consequences of the invariant, and the steps of Threads.                *)

\* The conjuncts of LockInv, for a proof that needs several.
LEMMA LockParts ==
  ASSUME LockInv
  PROVE  /\ LockTypes /\ LockPlaces /\ Pointers /\ LockLists
         /\ Exclusive /\ HolderOwns /\ WaitingSet
         /\ cuts \in 0 .. MaxCuts
BY DEF LockInv, LockCore

\* A thread in the middle of a lock function.
LEMMA AtFacts ==
  ASSUME IInv, LockInv, NEW t \in Thread, NEW place, IsAt(t, place)
  PROVE  /\ ~fault /\ k.current = t /\ pc[t] = "run" /\ at[t] = place
         /\ ~k.in_external_intr
         /\ place # "out" => on[t] \in Lock
         /\ t \notin {NULL} /\ NULL \notin Lock /\ NULL \notin Thread
BY LockParts, SchedAssumption, LocksAssumption DEF IsAt, Runs, LockPlaces, LockTypes

\* The facts about a thread that is alive.
LEMMA AliveFacts ==
  ASSUME IInv, NEW h \in Thread, Alive(h)
  PROVE  k.status[h] # "free" /\ h # k.idle_thread
BY PlaceFacts DEF Alive, IInv, PcInv, PlacesInv

\* Whoever a thread donates to, Threads allows it.
LEMMA DonateIsUpdate ==
  ASSUME IInv, LockInv, NEW t \in Thread, NEW h \in Thread \cup {NULL}, Donate(t, h),
         Runs(t, "run"), h # NULL => Alive(h)
  PROVE  UpdatePriority(t) \/ UNCHANGED vars
<1>1. CASE h = NULL
  BY <1>1 DEF Donate, vars
<1>2. CASE h # NULL
  <2>1. h \in Thread /\ k.status[h] # "free" /\ h # k.idle_thread
    BY <1>2, AliveFacts
  <2>2. priority(t) \in Donated
    BY LocksAssumption, IInvFacts, KernelTypes DEF priority
  <2>3. k' = thread_update_priority(k, h, priority(t))
    BY <1>2 DEF Donate
  <2> QED BY <2>1, <2>2, <2>3 DEF Donate, UpdatePriority
<1> QED BY <1>1, <1>2

\* The priority a thread returns to is one.
LEMMA EffectiveFacts ==
  ASSUME k \in KernelState, LockTypes, NEW t \in Thread
  PROVE  /\ Effective(t) \in Priority
         /\ k.base_priority[t] <= Effective(t)
         /\ \A d \in donations[t] : priority(d) <= Effective(t)
         /\ donations[t] = {} => Effective(t) = k.base_priority[t]
<1> DEFINE S == {k.base_priority[t]} \cup {priority(d) : d \in donations[t]}
<1>1. donations[t] \subseteq Thread
  BY DEF LockTypes
<1>2. S \subseteq 0..PRI_MAX /\ S # {}
  <2>1. \A u \in Thread : k.priority[u] \in 0..PRI_MAX /\ k.base_priority[u] \in 0..PRI_MAX
    BY KernelTypes DEF Priority
  <2> QED BY <1>1, <2>1 DEF priority
<1>3. Max(S) \in S /\ \A y \in S : y <= Max(S)
  BY <1>2, MaxExists, SchedAssumption
<1>4. Effective(t) = Max(S)
  BY DEF Effective
<1>5. donations[t] = {} => S = {k.base_priority[t]}
  OBVIOUS
<1> HIDE DEF S
<1>6. k.base_priority[t] \in S /\ \A d \in donations[t] : priority(d) \in S
  BY DEF S
<1> QED BY <1>2, <1>3, <1>4, <1>5, <1>6 DEF Priority

\* The steps of lock_acquire and lock_release that may change the kernel.
LEMMA AcquireIsThreads ==
  ASSUME IInv, LockInv, NEW t \in Thread, lock_acquire(t)
  PROVE  Next \/ UNCHANGED vars
<1>1. Pointers /\ LockTypes
  BY LockParts
<1>2. CASE DonateHolder(t)
  <2>1. IsAt(t, "donate") /\ Donate(t, holder[on[t]]) /\ on[t] \in Lock
    BY <1>2, AtFacts DEF DonateHolder
  <2>2. holder[on[t]] \in Thread \cup {NULL} /\ (holder[on[t]] # NULL => Alive(holder[on[t]]))
    BY <1>1, <2>1 DEF Pointers, LockTypes
  <2> QED BY <2>1, <2>2, DonateIsUpdate DEF IsAt, Next, ThreadStep
<1>3. CASE ChainDonate(t)
  <2>1. IsAt(t, "chain") /\ Donate(t, ptr[t])
    BY <1>3 DEF ChainDonate
  <2>2. ptr[t] \in Thread /\ Alive(ptr[t])
    BY <1>1, <2>1, AtFacts DEF Pointers
  <2> QED BY <2>1, <2>2, DonateIsUpdate DEF IsAt, Next, ThreadStep
<1>4. CASE DownSleep(t)
  BY <1>4 DEF DownSleep, Next, ThreadStep
<1>5. CASE \/ \E l \in Lock : AcquireBegin(t, l)
           \/ SetWaiting(t) \/ PushDonation(t) \/ CompareHolder(t)
           \/ NextLock(t) \/ ChainLoop(t) \/ ChainCompare(t)
           \/ ChainFollow(t)
           \/ DownTake(t) \/ ClearWaiting(t)
           \/ SetHolder(t)
  BY <1>5 DEF AcquireBegin, SetWaiting, PushDonation, CompareHolder, NextLock, ChainLoop,
              ChainCompare, ChainFollow, DownTake, ClearWaiting, SetHolder
<1> QED BY <1>2, <1>3, <1>4, <1>5 DEF lock_acquire

\* The thread the release of a lock wakes, if any.
LEMMA WokenFacts ==
  ASSUME IInv, LockInv, NEW l \in Lock
  PROVE  LET u == Unblocked(k, lsema[l]) IN
         /\ u = NULL <=> lsema[l].waiters = << >>
         /\ u # NULL => /\ u \in Thread /\ u \in Waiters(l)
                        /\ pc[u] = "waiting" /\ on[u] = l /\ at[u] = "recheck"
                        /\ u # k.current
<1>1. lsema[l] \in Semaphore /\ LockLists /\ LockPlaces
  BY LockParts DEF LockTypes
<1> DEFINE u == Unblocked(k, lsema[l])
<1>2. /\ u = NULL <=> lsema[l].waiters = << >>
      /\ u # NULL => u \in Thread /\ u \in Waiters(l)
  BY <1>1, IInvFacts, UnblockedFacts DEF Waiters
<1>3. u # NULL => pc[u] = "waiting" /\ on[u] = l /\ at[u] = "recheck"
  BY <1>1, <1>2 DEF LockLists, LockPlaces
<1> QED BY <1>2, <1>3, IInvFacts

\* lock_release does to the kernel what Threads allows.
LEMMA ReleaseIsThreads ==
  ASSUME IInv, LockInv, NEW t \in Thread, lock_release(t)
  PROVE  Next \/ UNCHANGED vars
<1>1. CASE LockUp(t)
  <2> DEFINE u == Unblocked(k, lsema[on[t]])
  <2>1. Runs(t, "run") /\ on[t] \in Lock
    BY <1>1, AtFacts DEF LockUp, IsAt
  <2>2. /\ u = NULL <=> lsema[on[t]].waiters = << >>
        /\ u # NULL => u \in Thread /\ pc[u] = "waiting"
    BY <2>1, WokenFacts
  <2>3. CASE u = NULL
    <3>1. sema_up(k, lsema[on[t]]).kernel = k
      BY <2>2, <2>3 DEF sema_up
    <3> QED BY <1>1, <2>3, <3>1 DEF LockUp, vars
  <2>4. CASE u # NULL
    <3>1. sema_up(k, lsema[on[t]]).kernel = thread_unblock(k, u)
      BY <2>2, <2>4 DEF sema_up
    <3>2. Unblock(t)
      BY <1>1, <2>1, <2>2, <2>4, <3>1 DEF LockUp, Unblock
    <3> QED BY <3>2 DEF Next, ThreadStep
  <2> QED BY <2>3, <2>4
<1>2. CASE UpdateOwn(t)
  <2>1. Runs(t, "run") /\ new_priority[t] \in Donated
    BY <1>2, LockParts, LocksAssumption DEF UpdateOwn, IsAt, LockTypes
  <2>2. Alive(t) /\ k.status[t] # "free" /\ t # k.idle_thread
    <3>1. Alive(t)
      BY <2>1 DEF Runs, Alive, IdlePc
    <3> QED BY <3>1, AliveFacts
  <2>3. UpdatePriority(t)
    BY <1>2, <2>1, <2>2 DEF UpdateOwn, UpdatePriority
  <2> QED BY <2>3 DEF Next, ThreadStep
<1>3. CASE UpYield(t)
  <2>1. Yield(t) \/ UNCHANGED vars
    BY <1>3 DEF UpYield, YieldTo, Yield, IsAt, vars
  <2> QED BY <2>1 DEF Next, ThreadStep
<1>4. CASE (\E l \in Lock : RemoveDonations(t, l)) \/ RefreshPriority(t) \/ ClearHolder(t)
  BY <1>4 DEF RemoveDonations, RefreshPriority, ClearHolder
<1> QED BY <1>1, <1>2, <1>3, <1>4 DEF lock_release

\* What a thread does outside the lock functions, and the steps of the system.
OtherStep ==
  /\ \/ ~fault /\ (Boot \/ \E t \in Thread : idle(t))
     \/ \E t \in Thread : Elsewhere(t)
     \/ LockInterrupt
  /\ UNCHANGED lockVars

\* The steps outside the lock functions are plain steps of Threads.
LEMMA OtherIsThreads ==
  ASSUME OtherStep
  PROVE  PlainStep /\ Next
<1>1. ASSUME NEW t \in Thread, Elsewhere(t)
      PROVE  thread_create(t) \/ thread_set_priority(t) \/ Yield(t)
  BY <1>1 DEF Elsewhere, SetOwnPriority, thread_set_priority, ChangePriority
<1>2. PlainStep
  BY <1>1 DEF OtherStep, PlainStep, LockInterrupt
<1> QED BY <1>2 DEF PlainStep, Next, ThreadStep, Interrupt

\* Every step of the locks is a step of Threads or leaves its state alone.
LEMMA LocksStepIsThreads ==
  ASSUME IInv, LockInv, [LocksNext]_allVars
  PROVE  Next \/ UNCHANGED vars
<1>1. LocksNext =>
        \/ Halted \/ OtherStep
        \/ \E t \in Thread : \/ lock_acquire(t) \/ lock_release(t)
                             \/ \E l \in Lock : TryTake(t, l)
  BY DEF LocksNext, LocksStep, OtherStep, Elsewhere, LockInterrupt
<1>2. UNCHANGED allVars => UNCHANGED vars
  BY DEF allVars
<1>3. \A t \in Thread, l \in Lock : TryTake(t, l) => UNCHANGED vars
  BY DEF TryTake
<1> QED BY <1>1, <1>2, <1>3, AcquireIsThreads, ReleaseIsThreads, OtherIsThreads DEF Halted

-----------------------------------------------------------------------------
(* The steps preserve the invariant.                                       *)

\* No thread ends, and none becomes the idle thread later.
LEMMA AliveStep ==
  ASSUME IInv, LockInv, [LocksNext]_allVars, NEW h, h \in Thread, Alive(h)
  PROVE  Alive(h)'
<1>1. pc \in [Thread -> Location]
  BY DEF IInv, PcInv
<1>2. CASE OtherStep
  BY <1>2, OtherIsThreads, PlainMoves DEF Alive
<1>3. ASSUME NEW t \in Thread, lock_acquire(t) \/ lock_release(t)
                               \/ \E l \in Lock : TryTake(t, l)
      PROVE  Alive(h)'
  <2>1. CASE DownSleep(t)
    BY <1>1, <2>1 DEF DownSleep, Block, Goto, Alive, IdlePc
  <2>2. CASE LockUp(t)
    <3>1. pc' = pc \/ pc' = [pc EXCEPT ![Unblocked(k, lsema[on[t]])] = "run"]
      BY <2>2 DEF LockUp, Goto
    <3> QED BY <1>1, <3>1 DEF Alive, IdlePc
  <2>3. CASE ~DownSleep(t) /\ ~LockUp(t)
    <3>1. pc' = pc
      BY <1>3, <2>3
         DEF lock_acquire, lock_release, AcquireBegin, SetWaiting, PushDonation,
             CompareHolder, DonateHolder, Donate, NextLock, ChainLoop, ChainCompare,
             ChainDonate, ChainFollow, DownTake, ClearWaiting, SetHolder, TryTake,
             RemoveDonations, RefreshPriority, UpdateOwn, ClearHolder, UpYield, vars
    <3> QED BY <3>1 DEF Alive
  <2> QED BY <2>1, <2>2, <2>3
<1>4. UNCHANGED pc => Alive(h)'
  BY DEF Alive
<1>5. \/ OtherStep \/ UNCHANGED pc
      \/ \E t \in Thread : \/ lock_acquire(t) \/ lock_release(t)
                           \/ \E l \in Lock : TryTake(t, l)
  BY DEF LocksNext, LocksStep, OtherStep, Elsewhere, LockInterrupt, Halted, allVars, vars
<1> QED BY <1>2, <1>3, <1>4, <1>5

\* Where a thread is inside the critical section of its lock.
InPlaces == {"got", "own", "try", "refresh", "update", "clear", "up"}
Clearing == {"refresh", "update", "clear"}

\* A step along a lock function: the thread moves between two places of the
\* same kind, and neither a holder nor a semaphore changes.
LEMMA WalkStep ==
  ASSUME IInv, LockInv, NEW t \in Thread, NEW a,
         pc[t] = "run", at[t] # "out", a # "out",
         at[t] \in InPlaces <=> a \in InPlaces,
         at[t] \in Clearing <=> a \in Clearing,
         at' = [at EXCEPT ![t] = a],
         pc' = pc, holder' = holder, lsema' = lsema, owns' = owns, on' = on
  PROVE  LockPlaces' /\ LockLists' /\ Exclusive' /\ HolderOwns'
<1>1. /\ LockTypes /\ LockPlaces /\ LockLists /\ Exclusive /\ HolderOwns
      /\ NULL \notin Lock
  BY LockParts, LocksAssumption
<1>2. /\ at'[t] = a
      /\ \A u \in Thread \ {t} : at'[u] = at[u]
  BY <1>1 DEF LockTypes
<1>3. LockPlaces'
  BY <1>1, <1>2 DEF LockPlaces
<1>4. LockLists'
  <2>1. \A l \in Lock : Waiters(l)' = Waiters(l)
    BY DEF Waiters
  <2>2. (\A l \in Lock : IsInjective(lsema[l].waiters))'
    BY <1>1 DEF LockLists
  <2>3. (\A u \in Thread : pc[u] = "waiting" => u \in Waiters(on[u]))'
    BY <1>1 DEF LockLists, Waiters
  <2>4. (\A l \in Lock : \A u \in Waiters(l) : pc[u] = "waiting" /\ on[u] = l)'
    BY <1>1, <2>1 DEF LockLists
  <2> QED BY <2>2, <2>3, <2>4 DEF LockLists
<1>5. Exclusive'
  <2>1. \A l \in Lock : Inside(l)' = Inside(l)
    BY <1>2 DEF Inside, InPlaces
  <2> QED BY <1>1, <2>1 DEF Exclusive
<1>6. HolderOwns'
  <2>1. \A l \in Lock : holder[l] # NULL => holder[l] \in Thread
    BY <1>1 DEF LockTypes
  <2> QED BY <1>1, <1>2, <2>1 DEF HolderOwns, Clearing
<1> QED BY <1>3, <1>4, <1>5, <1>6

\* Pointers and waiting_lock, for such a step: only the pointer of t moves.
LEMMA WalkPointers ==
  ASSUME IInv, LockInv, NEW t \in Thread, NEW a, NEW p,
         [LocksNext]_allVars, ~fault,
         at' = [at EXCEPT ![t] = a],
         ptr' = [ptr EXCEPT ![t] = p],
         \A l \in Lock : holder'[l] \in {holder[l], NULL},
         /\ a = "loop" => p \in Lock \cup {NULL}
         /\ a \in {"holder", "yield"} => p \in Thread \cup {NULL}
         /\ a = "chain" => p \in Thread
         /\ a = "follow" => fault' \/ p \in Thread
         /\ a \in {"holder", "chain"} /\ p # NULL => Alive(p)
  PROVE  Pointers'
<1>1. LockTypes /\ Pointers /\ NULL \notin Thread
  BY LockParts, SchedAssumption
<1>2. /\ at'[t] = a /\ ptr'[t] = p
      /\ \A u \in Thread \ {t} : at'[u] = at[u] /\ ptr'[u] = ptr[u]
  BY <1>1 DEF LockTypes
<1>3. \A h \in Thread : Alive(h) => Alive(h)'
  BY AliveStep
<1>4. ASSUME NEW u \in Thread
      PROVE  /\ at'[u] = "loop" => ptr'[u] \in Lock \cup {NULL}
             /\ at'[u] \in {"holder", "yield"} => ptr'[u] \in Thread \cup {NULL}
             /\ at'[u] = "chain" => ptr'[u] \in Thread
             /\ at'[u] = "follow" => fault' \/ ptr'[u] \in Thread
             /\ at'[u] \in {"holder", "chain"} /\ ptr'[u] # NULL =>
                  ptr'[u] \in Thread /\ Alive(ptr'[u])
  BY <1>1, <1>2 DEF Pointers
<1>5. \A l \in Lock : holder'[l] # NULL => holder'[l] \in Thread /\ Alive(holder'[l])
  BY <1>1 DEF Pointers, LockTypes
<1>6. \A u \in Thread : at'[u] \in {"holder", "chain"} /\ ptr'[u] # NULL => Alive(ptr[u])'
  <2>1. TAKE u \in Thread
  <2>2. HAVE at'[u] \in {"holder", "chain"} /\ ptr'[u] # NULL
  <2>3. ptr'[u] \in Thread /\ Alive(ptr'[u])
    BY <1>4, <2>2
  <2> QED BY <1>3, <2>3 DEF Alive
<1>7. \A l \in Lock : holder'[l] # NULL => Alive(holder[l])'
  BY <1>3, <1>5 DEF Alive
<1> QED BY <1>4, <1>6, <1>7 DEF Pointers

\* And for waiting_lock, if the step leaves it alone.
LEMMA WalkWaiting ==
  ASSUME IInv, LockInv, NEW t \in Thread, NEW a,
         at' = [at EXCEPT ![t] = a],
         on' = on, waiting_lock' = waiting_lock,
         /\ waiting_lock[t] # NULL => a \in Waits
         /\ a \in Walking \cup {"push"} => waiting_lock[t] = on[t]
  PROVE  WaitingSet'
<1>1. WaitingSet /\ LockTypes
  BY LockParts
<1>2. /\ at'[t] = a
      /\ \A u \in Thread \ {t} : at'[u] = at[u]
  BY <1>1 DEF LockTypes
<1> QED BY <1>1, <1>2 DEF WaitingSet

\* The steps of lock_acquire up to sema_down: only the donation of t, its
\* pointer or waiting_lock, and the priority of a holder change.
LEMMA ChainStep ==
  ASSUME IInv, LockInv, [LocksNext]_allVars, NEW t \in Thread,
         \/ SetWaiting(t) \/ PushDonation(t) \/ CompareHolder(t) \/ DonateHolder(t)
         \/ NextLock(t) \/ ChainLoop(t) \/ ChainCompare(t) \/ ChainDonate(t)
         \/ ChainFollow(t) \/ ClearWaiting(t)
  PROVE  LockCore'
<1>1. /\ LockTypes /\ Pointers /\ WaitingSet
      /\ NULL \notin Thread /\ NULL \notin Lock
  BY LockParts, SchedAssumption, LocksAssumption
<1> DEFINE h == holder[on[t]]
           From == {"wait", "push", "compare", "donate", "next", "loop", "holder",
                    "chain", "follow", "got"}
<1>2. /\ pc[t] = "run" /\ at[t] \in From /\ on[t] \in Lock /\ ~fault
      /\ h \in Thread \cup {NULL}
      /\ h # NULL => Alive(h) /\ waiting_lock[h] \in Lock \cup {NULL}
  <2>1. PICK a \in From : IsAt(t, a)
    BY DEF SetWaiting, PushDonation, CompareHolder, DonateHolder, NextLock, ChainLoop,
           ChainCompare, ChainDonate, ChainFollow, ClearWaiting
  <2>2. on[t] \in Lock
    BY <2>1, AtFacts
  <2> QED BY <1>1, <2>1, <2>2, AtFacts DEF LockTypes, Pointers
<1>3. /\ pc' = pc /\ holder' = holder /\ lsema' = lsema /\ owns' = owns /\ on' = on
      /\ new_priority' = new_priority
  BY DEF SetWaiting, PushDonation, CompareHolder, DonateHolder, Donate, NextLock,
         ChainLoop, ChainCompare, ChainDonate, ChainFollow, ClearWaiting, vars
<1>4. fault' \in BOOLEAN /\ donations' \in [Thread -> SUBSET Thread]
      /\ waiting_lock' \in [Thread -> Lock \cup {NULL}]
  <2>1. fault' \in BOOLEAN
    BY <1>1 DEF SetWaiting, PushDonation, CompareHolder, DonateHolder, NextLock, ChainLoop,
         ChainCompare, ChainDonate, ChainFollow, ClearWaiting, Deref, LockTypes
  <2>2. donations' = donations \/
          (h \in Thread /\ donations' = [donations EXCEPT ![h] = @ \cup {t}])
    BY <1>2 DEF SetWaiting, PushDonation, CompareHolder, DonateHolder, NextLock, ChainLoop,
         ChainCompare, ChainDonate, ChainFollow, ClearWaiting
  <2>3. \/ waiting_lock' = waiting_lock
        \/ waiting_lock' = [waiting_lock EXCEPT ![t] = on[t]]
        \/ waiting_lock' = [waiting_lock EXCEPT ![t] = NULL]
    BY DEF SetWaiting, PushDonation, CompareHolder, DonateHolder, NextLock, ChainLoop,
         ChainCompare, ChainDonate, ChainFollow, ClearWaiting
  <2> QED BY <1>1, <1>2, <2>1, <2>2, <2>3 DEF LockTypes
\* Where the step goes and what its pointer is there.
<1>5. \E a \in {"push", "compare", "donate", "next", "loop", "holder", "chain", "follow",
                "down", "own"}, p \in Thread \cup Lock \cup {NULL} :
        /\ at' = [at EXCEPT ![t] = a]
        /\ ptr' = [ptr EXCEPT ![t] = p]
        /\ at[t] = "got" <=> a = "own"
        /\ a = "loop" => p \in Lock \cup {NULL}
        /\ a = "holder" => p \in Thread \cup {NULL}
        /\ a = "chain" => p \in Thread
        /\ a = "follow" => fault' \/ p \in Thread
        /\ a \in {"holder", "chain"} /\ p # NULL => Alive(p)
        /\ at[t] \in Walking \cup {"push"} => a \in Waits
        /\ a \in Walking \cup {"push"} => at[t] \in Walking \cup {"wait", "push"}
        /\ at[t] = "wait" => waiting_lock' = [waiting_lock EXCEPT ![t] = on[t]] /\ a = "push"
        /\ at[t] = "got" => waiting_lock' = [waiting_lock EXCEPT ![t] = NULL]
        /\ at[t] \notin {"wait", "got"} => waiting_lock' = waiting_lock
  <2>1. ptr = [ptr EXCEPT ![t] = ptr[t]] /\ ptr[t] \in Thread \cup Lock \cup {NULL}
    BY <1>1 DEF LockTypes
  <2>2. CASE SetWaiting(t) \/ PushDonation(t) \/ CompareHolder(t) \/ DonateHolder(t)
             \/ ClearWaiting(t)
    <3>1. \E a \in {"push", "compare", "donate", "next", "own"} :
            /\ at' = [at EXCEPT ![t] = a] /\ ptr' = ptr
            /\ at[t] = "wait" => waiting_lock' = [waiting_lock EXCEPT ![t] = on[t]] /\ a = "push"
            /\ at[t] = "got" => waiting_lock' = [waiting_lock EXCEPT ![t] = NULL]
            /\ at[t] \notin {"wait", "got"} => waiting_lock' = waiting_lock
            /\ at[t] = "got" <=> a = "own"
            /\ at[t] \in {"wait", "push", "compare", "donate", "got"}
      BY <2>2 DEF SetWaiting, PushDonation, CompareHolder, DonateHolder, ClearWaiting,
                  IsAt, To
    <3> QED BY <2>1, <3>1 DEF Walking, Waits
  <2>3. CASE NextLock(t)
    BY <1>2, <2>3 DEF NextLock, IsAt, To, Point, Walking, Waits
  <2>4. CASE ChainFollow(t)
    <3>1. ptr[t] \in Thread /\ waiting_lock[ptr[t]] \in Lock \cup {NULL}
      BY <1>1, <1>2, <2>4 DEF ChainFollow, IsAt, Pointers, LockTypes
    <3> QED BY <2>4, <3>1 DEF ChainFollow, IsAt, To, Point, Walking, Waits
  <2>5. CASE ChainLoop(t)
    <3>1. CASE ptr[t] = NULL
      BY <2>1, <2>5, <3>1 DEF ChainLoop, IsAt, To, Point, Walking, Waits
    <3>2. CASE ptr[t] # NULL
      <4>1. /\ holder[ptr[t]] \in Thread \cup {NULL}
            /\ holder[ptr[t]] # NULL => Alive(holder[ptr[t]])
        BY <1>1, <1>2, <2>5, <3>2 DEF ChainLoop, IsAt, Pointers, LockTypes
      <4> QED BY <2>5, <3>2, <4>1 DEF ChainLoop, IsAt, To, Point, Walking, Waits
    <3> QED BY <3>1, <3>2
  <2>6. CASE ChainCompare(t)
    <3>1. /\ ptr[t] \in Thread \cup {NULL} /\ (ptr[t] # NULL => Alive(ptr[t]))
          /\ fault' = (ptr[t] = NULL)
      BY <1>1, <1>2, <2>6 DEF ChainCompare, IsAt, Pointers, Deref
    <3> DEFINE b == IF ptr[t] # NULL /\ priority(ptr[t]) < priority(t)
                    THEN "chain" ELSE "follow"
    <3>2. /\ at' = [at EXCEPT ![t] = b] /\ ptr' = ptr /\ at[t] = "holder"
          /\ waiting_lock' = waiting_lock
      BY <2>6 DEF ChainCompare, IsAt, To
    <3>3. b \in {"chain", "follow"} /\ (b = "chain" => ptr[t] # NULL)
      OBVIOUS
    <3> HIDE DEF b
    <3> QED BY <2>1, <3>1, <3>2, <3>3 DEF Walking, Waits
  <2>7. CASE ChainDonate(t)
    <3>1. ptr[t] \in Thread
      BY <1>1, <1>2, <2>7 DEF ChainDonate, IsAt, Pointers
    <3> QED BY <2>1, <2>7, <3>1 DEF ChainDonate, IsAt, To, Walking, Waits
  <2> QED BY <2>2, <2>3, <2>4, <2>5, <2>6, <2>7
<1>6. PICK a \in {"push", "compare", "donate", "next", "loop", "holder", "chain", "follow",
                  "down", "own"}, p \in Thread \cup Lock \cup {NULL} :
        /\ at' = [at EXCEPT ![t] = a]
        /\ ptr' = [ptr EXCEPT ![t] = p]
        /\ at[t] = "got" <=> a = "own"
        /\ a = "loop" => p \in Lock \cup {NULL}
        /\ a = "holder" => p \in Thread \cup {NULL}
        /\ a = "chain" => p \in Thread
        /\ a = "follow" => fault' \/ p \in Thread
        /\ a \in {"holder", "chain"} /\ p # NULL => Alive(p)
        /\ at[t] \in Walking \cup {"push"} => a \in Waits
        /\ a \in Walking \cup {"push"} => at[t] \in Walking \cup {"wait", "push"}
        /\ at[t] = "wait" => waiting_lock' = [waiting_lock EXCEPT ![t] = on[t]] /\ a = "push"
        /\ at[t] = "got" => waiting_lock' = [waiting_lock EXCEPT ![t] = NULL]
        /\ at[t] \notin {"wait", "got"} => waiting_lock' = waiting_lock
  BY <1>5
<1>7. LockTypes'
  <2>1. /\ at' \in [Thread -> {"out"} \cup Acquiring \cup Releasing]
        /\ ptr' \in [Thread -> Thread \cup Lock \cup {NULL}]
    BY <1>1, <1>6 DEF LockTypes, Acquiring
  <2> QED BY <1>1, <1>3, <1>4, <2>1 DEF LockTypes
<1>8. LockPlaces' /\ LockLists' /\ Exclusive' /\ HolderOwns'
  <2>1. /\ at[t] # "out" /\ a # "out"
        /\ at[t] \in InPlaces <=> a \in InPlaces
        /\ at[t] \in Clearing <=> a \in Clearing
    BY <1>2, <1>6 DEF InPlaces, Clearing
  <2> QED BY <1>2, <1>3, <1>6, <2>1, WalkStep
<1>9. Pointers'
  <2>1. \A l \in Lock : holder'[l] \in {holder[l], NULL}
    BY <1>3
  <2> QED BY <1>2, <1>6, <2>1, WalkPointers
<1>10. WaitingSet'
  <2>1. CASE at[t] \in {"wait", "got"}
    <3>1. /\ at'[t] = a
          /\ \A u \in Thread \ {t} : at'[u] = at[u] /\ waiting_lock'[u] = waiting_lock[u]
          /\ at[t] = "wait" => waiting_lock'[t] = on[t] /\ a = "push"
          /\ at[t] = "got" => waiting_lock'[t] = NULL /\ a = "own"
      BY <1>1, <1>6, <2>1 DEF LockTypes
    <3>2. "push" \in Waits /\ "own" \notin Walking \cup {"push"}
      BY DEF Waits, Walking
    <3> QED BY <1>1, <1>3, <2>1, <3>1, <3>2 DEF WaitingSet
  <2>2. CASE at[t] \notin {"wait", "got"}
    <3>1. waiting_lock[t] # NULL => a \in Waits
      BY <1>1, <1>2, <1>6, <2>2 DEF WaitingSet, Waits, Walking
    <3>2. a \in Walking \cup {"push"} => waiting_lock[t] = on[t]
      BY <1>1, <1>6, <2>2 DEF WaitingSet
    <3> QED BY <1>3, <1>6, <2>2, <3>1, <3>2, WalkWaiting
  <2> QED BY <2>1, <2>2
<1> QED BY <1>7, <1>8, <1>9, <1>10 DEF LockCore

\* The list of a semaphore, when only a thread that is awake moves.
LEMMA ListsFrame ==
  ASSUME LockInv, NEW t \in Thread, pc[t] # "waiting", pc' = pc,
         \A l \in Lock : lsema'[l].waiters = lsema[l].waiters,
         \A u \in Thread \ {t} : on'[u] = on[u]
  PROVE  LockLists'
<1>1. LockLists /\ LockPlaces /\ LockTypes
  BY LockParts
<1>2. \A l \in Lock : Waiters(l)' = Waiters(l)
  BY DEF Waiters
<1>3. \A u \in Thread : pc[u] = "waiting" => on[u] \in Lock /\ u # t
  BY <1>1 DEF LockPlaces, LockTypes
<1>4. (\A l \in Lock : IsInjective(lsema[l].waiters))'
  BY <1>1 DEF LockLists
<1>5. (\A u \in Thread : pc[u] = "waiting" => u \in Waiters(on[u]))'
  BY <1>1, <1>3 DEF LockLists, Waiters
<1>6. \A l \in Lock : Waiters(l) \subseteq Thread
  BY <1>1, ToSetFacts DEF LockTypes, Semaphore, Waiters
<1>7. (\A l \in Lock : \A u \in Waiters(l) : pc[u] = "waiting" /\ on[u] = l)'
  BY <1>1, <1>2, <1>6 DEF LockLists
<1> QED BY <1>4, <1>5, <1>7 DEF LockLists

\* Pointers, when t goes to a place without one.
LEMMA PointersFrame ==
  ASSUME IInv, LockInv, [LocksNext]_allVars, NEW t \in Thread, NEW a,
         a \notin {"loop", "holder", "yield", "chain", "follow"},
         at' = [at EXCEPT ![t] = a],
         ptr' = ptr, ~fault,
         \A l \in Lock : holder'[l] # NULL => holder'[l] = holder[l] \/ (holder'[l] \in Thread /\ Alive(holder'[l]))
  PROVE  Pointers'
<1>1. LockTypes /\ Pointers /\ NULL \notin Thread
  BY LockParts, SchedAssumption
<1>2. /\ at'[t] = a
      /\ \A u \in Thread \ {t} : at'[u] = at[u]
  BY <1>1 DEF LockTypes
<1>3. \A h \in Thread : Alive(h) => Alive(h)'
  BY AliveStep
<1>4. \A u \in Thread : at'[u] \in {"holder", "chain"} /\ ptr'[u] # NULL => Alive(ptr[u])'
  <2>1. TAKE u \in Thread
  <2>2. HAVE at'[u] \in {"holder", "chain"} /\ ptr'[u] # NULL
  <2>3. ptr'[u] \in Thread /\ Alive(ptr'[u])
    BY <1>1, <1>2, <2>2 DEF Pointers
  <2> QED BY <1>3, <2>3 DEF Alive
<1>5. \A l \in Lock : holder'[l] # NULL => Alive(holder[l])'
  <2>1. \A l \in Lock : holder'[l] # NULL => holder'[l] \in Thread /\ Alive(holder'[l])
    BY <1>1 DEF Pointers, LockTypes
  <2> QED BY <1>3, <2>1 DEF Alive
<1>6. \A u \in Thread : /\ at'[u] = "loop" => ptr'[u] \in Lock \cup {NULL}
                        /\ at'[u] \in {"holder", "yield"} => ptr'[u] \in Thread \cup {NULL}
                        /\ at'[u] = "chain" => ptr'[u] \in Thread
                        /\ at'[u] = "follow" => fault' \/ ptr'[u] \in Thread
  BY <1>1, <1>2 DEF Pointers
<1> QED BY <1>4, <1>5, <1>6 DEF Pointers

\* The begin of lock_acquire.
LEMMA BeginStep ==
  ASSUME IInv, LockInv, [LocksNext]_allVars, NEW t \in Thread, NEW l \in Lock,
         AcquireBegin(t, l)
  PROVE  LockCore'
<1>1. /\ LockTypes /\ LockPlaces /\ Exclusive /\ HolderOwns /\ WaitingSet
      /\ NULL \notin Lock
  BY LockParts, LocksAssumption
<1>2. /\ pc[t] = "run" /\ at[t] = "out" /\ ~fault /\ on[t] = NULL
      /\ pc' = pc /\ holder' = holder /\ lsema' = lsema /\ owns' = owns
      /\ waiting_lock' = waiting_lock /\ ptr' = ptr /\ donations' = donations
      /\ new_priority' = new_priority /\ fault' = fault
      /\ on' = [on EXCEPT ![t] = l]
  <2>1. IsAt(t, "out")
    BY DEF AcquireBegin
  <2>2. pc[t] = "run" /\ at[t] = "out" /\ ~fault
    BY <2>1 DEF IsAt, Runs
  <2> QED BY <1>1, <2>2 DEF AcquireBegin, vars, LockPlaces
<1>3. PICK a \in {"down", "wait"} : at' = [at EXCEPT ![t] = a]
  BY DEF AcquireBegin, To
<1>4. /\ at'[t] = a /\ on'[t] = l
      /\ \A u \in Thread \ {t} : at'[u] = at[u] /\ on'[u] = on[u]
  BY <1>1, <1>2, <1>3 DEF LockTypes
<1>5. l \notin owns[t]
  <2>1. \A h \in owns[t] : h < l /\ h \in Nat
    BY <1>1, LocksAssumption DEF AcquireBegin, MayAcquire, LockTypes
  <2>2. ~(l < l)
    BY LocksAssumption
  <2> QED BY <2>1, <2>2
<1>6. LockTypes'
  <2>1. at' \in [Thread -> {"out"} \cup Acquiring \cup Releasing]
    BY <1>1, <1>3 DEF LockTypes, Acquiring
  <2> QED BY <1>1, <1>2, <2>1 DEF LockTypes
<1>7. LockPlaces'
  BY <1>1, <1>2, <1>4, <1>5 DEF LockPlaces
<1>8. LockLists'
  BY <1>2, <1>4, ListsFrame
<1>9. Pointers'
  BY <1>2, <1>3, PointersFrame
<1>10. Exclusive'
  <2>1. \A r \in Lock : Inside(r)' = Inside(r)
    BY <1>1, <1>2, <1>4 DEF Inside
  <2> QED BY <1>1, <1>2, <2>1 DEF Exclusive
<1>11. HolderOwns'
  <2>1. \A r \in Lock : holder[r] # NULL => holder[r] \in Thread
    BY <1>1 DEF LockTypes
  <2> QED BY <1>1, <1>2, <1>4, <2>1 DEF HolderOwns
<1>12. WaitingSet'
  BY <1>1, <1>2, <1>4 DEF WaitingSet, Waits, Walking
<1> QED BY <1>6, <1>7, <1>8, <1>9, <1>10, <1>11, <1>12 DEF LockCore

\* The semaphore of a lock as a record.
LEMMA SemaFacts ==
  ASSUME LockTypes, NEW l \in Lock
  PROVE  /\ lsema[l] \in Semaphore
         /\ lsema[l].value \in Nat
         /\ lsema[l].waiters \in Seq(Thread)
         /\ Waiters(l) \subseteq Thread
<1>1. lsema[l] \in Semaphore
  BY DEF LockTypes
<1>2. lsema[l].value \in Nat /\ lsema[l].waiters \in Seq(Thread)
  BY <1>1 DEF Semaphore
<1> QED BY <1>1, <1>2, ToSetFacts DEF Waiters

\* The thread that takes the semaphore is alone inside.
LEMMA TakeStep ==
  ASSUME IInv, LockInv, [LocksNext]_allVars, NEW t \in Thread,
         DownTake(t) \/ \E l \in Lock : TryTake(t, l)
  PROVE  LockCore'
<1>1. /\ LockTypes /\ LockPlaces /\ Exclusive /\ HolderOwns /\ WaitingSet
      /\ NULL \notin Lock
  BY LockParts, LocksAssumption
<1>2. PICK l \in Lock, a \in {"got", "try"} :
        /\ at' = [at EXCEPT ![t] = a] /\ on' = [on EXCEPT ![t] = l]
        /\ lsema' = [lsema EXCEPT ![l] = sema_take(@)]
        /\ Available(lsema[l]) /\ l \notin owns[t]
        /\ pc[t] = "run" /\ ~fault
        /\ \/ at[t] \in {"down", "recheck"} /\ on[t] = l /\ a = "got"
           \/ at[t] = "out" /\ on[t] = NULL /\ a = "try"
        /\ pc' = pc /\ holder' = holder /\ owns' = owns
        /\ waiting_lock' = waiting_lock /\ ptr' = ptr /\ donations' = donations
        /\ new_priority' = new_priority /\ fault' = fault
  <2>1. CASE DownTake(t)
    <3>1. PICK b \in {"down", "recheck"} : IsAt(t, b)
      BY <2>1 DEF DownTake
    <3>2. /\ ~fault /\ pc[t] = "run" /\ at[t] = b /\ on[t] \in Lock /\ on[t] \notin owns[t]
      BY <1>1, <3>1, AtFacts DEF LockPlaces
    <3>3. on' = [on EXCEPT ![t] = on[t]]
      BY <1>1, <2>1 DEF DownTake, LockTypes
    <3> QED BY <2>1, <3>2, <3>3 DEF DownTake, To, vars
  <2>2. ASSUME NEW l \in Lock, TryTake(t, l)
        PROVE  /\ at' = [at EXCEPT ![t] = "try"] /\ on' = [on EXCEPT ![t] = l]
               /\ lsema' = [lsema EXCEPT ![l] = sema_take(@)]
               /\ Available(lsema[l]) /\ l \notin owns[t]
               /\ pc[t] = "run" /\ ~fault
               /\ at[t] = "out" /\ on[t] = NULL
               /\ pc' = pc /\ holder' = holder /\ owns' = owns
               /\ waiting_lock' = waiting_lock /\ ptr' = ptr /\ donations' = donations
               /\ new_priority' = new_priority /\ fault' = fault
    <3>1. ~fault /\ pc[t] = "run" /\ at[t] = "out" /\ on[t] = NULL
      BY <1>1, <2>2, AtFacts DEF TryTake, LockPlaces
    <3> QED BY <2>2, <3>1 DEF TryTake, To, vars
  <2>3. CASE \E l \in Lock : TryTake(t, l)
    BY <2>2, <2>3
  <2> QED BY <2>1, <2>3
<1>3. /\ at'[t] = a /\ on'[t] = l
      /\ \A u \in Thread \ {t} : at'[u] = at[u] /\ on'[u] = on[u]
  BY <1>1, <1>2 DEF LockTypes
<1>4. /\ lsema' \in [Lock -> Semaphore]
      /\ lsema'[l].value = lsema[l].value - 1
      /\ \A r \in Lock : lsema'[r].waiters = lsema[r].waiters
      /\ \A r \in Lock \ {l} : lsema'[r] = lsema[r]
      /\ lsema[l].value \in Nat \ {0}
  <2> DEFINE new == [value |-> lsema[l].value - 1, waiters |-> lsema[l].waiters]
  <2>1. /\ lsema[l] \in Semaphore /\ lsema[l].waiters \in Seq(Thread)
        /\ lsema[l].value \in Nat \ {0}
    BY <1>1, <1>2, SemaFacts DEF Available
  <2>2. sema_take(lsema[l]) = new
    BY <2>1 DEF sema_take, Semaphore
  <2>3. new \in Semaphore
    BY <2>1 DEF Semaphore
  <2>4. new.value = lsema[l].value - 1 /\ new.waiters = lsema[l].waiters
    OBVIOUS
  <2>5. lsema' = [lsema EXCEPT ![l] = new]
    BY <1>2, <2>2
  <2> HIDE DEF new
  <2> QED BY <1>1, <2>1, <2>3, <2>4, <2>5 DEF LockTypes
<1>5. Inside(l) = {} /\ lsema[l].value = 1 /\ lsema'[l].value = 0
  <2>1. Inside(l) = {} /\ lsema[l].value = 1
    BY <1>1, <1>4 DEF Exclusive
  <2> QED BY <1>4, <2>1
<1>6. LockTypes'
  <2>1. at' \in [Thread -> {"out"} \cup Acquiring \cup Releasing]
    BY <1>1, <1>2 DEF LockTypes, Acquiring
  <2>2. on' \in [Thread -> Lock \cup {NULL}]
    BY <1>1, <1>2 DEF LockTypes
  <2> QED BY <1>1, <1>2, <1>4, <2>1, <2>2 DEF LockTypes
<1>7. LockPlaces'
  BY <1>1, <1>2, <1>3 DEF LockPlaces
<1>8. LockLists'
  BY <1>2, <1>3, <1>4, ListsFrame
<1>9. Pointers'
  BY <1>2, PointersFrame
<1>10. Exclusive'
  <2>1. Inside(l)' = {t}
    <3>1. t \in Inside(l)'
      BY <1>2, <1>3 DEF Inside
    <3>2. \A u \in Thread \ {t} : u \in Inside(l)' <=> u \in Inside(l)
      BY <1>2, <1>3 DEF Inside
    <3>3. \A u \in Inside(l)' : u \in Thread
      BY DEF Inside
    <3> QED BY <1>5, <3>1, <3>2, <3>3
  <2>2. \A r \in Lock \ {l} : Inside(r)' = Inside(r)
    <3>1. \A r \in Lock \ {l} : \A u \in Thread : u \in Inside(r)' <=> u \in Inside(r)
      BY <1>1, <1>2, <1>3 DEF Inside
    <3>2. \A r \in Lock : Inside(r)' \subseteq Thread /\ Inside(r) \subseteq Thread
      BY DEF Inside
    <3> QED BY <3>1, <3>2
  <2>3. ASSUME NEW r \in Lock
        PROVE  /\ \A x, u \in Inside(r)' : x = u
               /\ lsema'[r].value = IF Inside(r)' = {} THEN 1 ELSE 0
               /\ \A x \in Thread : r \in owns'[x] => holder'[r] = x
    <3>1. CASE r = l
      BY <1>1, <1>2, <1>5, <2>1, <3>1 DEF Exclusive
    <3>2. CASE r # l
      BY <1>1, <1>2, <1>4, <2>2, <3>2 DEF Exclusive
    <3> QED BY <3>1, <3>2
  <2> QED BY <2>3 DEF Exclusive
<1>11. HolderOwns'
  <2>1. \A r \in Lock : holder[r] # NULL => holder[r] \in Thread
    BY <1>1 DEF LockTypes
  <2> QED BY <1>1, <1>2, <1>3, <2>1 DEF HolderOwns
<1>12. WaitingSet'
  BY <1>1, <1>2, <1>3 DEF WaitingSet, Waits, Walking
<1> QED BY <1>6, <1>7, <1>8, <1>9, <1>10, <1>11, <1>12 DEF LockCore

\* The last step of lock_acquire: the thread inside becomes the holder.
LEMMA HolderStep ==
  ASSUME IInv, LockInv, [LocksNext]_allVars, NEW t \in Thread, SetHolder(t)
  PROVE  LockCore'
<1>1. /\ LockTypes /\ LockPlaces /\ Exclusive /\ HolderOwns /\ WaitingSet
      /\ NULL \notin Lock /\ NULL \notin Thread
  BY LockParts, LocksAssumption, SchedAssumption
<1>2. PICK l \in Lock :
        /\ l = on[t] /\ at[t] \in {"own", "try"} /\ pc[t] = "run" /\ ~fault
        /\ l \notin owns[t] /\ Alive(t)
  <2>1. PICK a \in {"own", "try"} : IsAt(t, a)
    BY DEF SetHolder
  <2> QED BY <1>1, <2>1, AtFacts DEF LockPlaces, Alive, IdlePc
<1>3. /\ pc' = pc /\ lsema' = lsema /\ waiting_lock' = waiting_lock /\ ptr' = ptr
      /\ donations' = donations /\ new_priority' = new_priority /\ fault' = fault
      /\ holder' = [holder EXCEPT ![l] = t]
      /\ owns' = [owns EXCEPT ![t] = @ \cup {l}]
      /\ at' = [at EXCEPT ![t] = "out"] /\ on' = [on EXCEPT ![t] = NULL]
  BY <1>2 DEF SetHolder, To, vars
<1>4. /\ at'[t] = "out" /\ on'[t] = NULL /\ owns'[t] = owns[t] \cup {l} /\ holder'[l] = t
      /\ \A u \in Thread \ {t} : at'[u] = at[u] /\ on'[u] = on[u] /\ owns'[u] = owns[u]
      /\ \A r \in Lock \ {l} : holder'[r] = holder[r]
  BY <1>1, <1>3 DEF LockTypes
<1>5. LockTypes'
  BY <1>1, <1>3 DEF LockTypes
<1>6. LockPlaces'
  <2>1. NULL \notin owns'[t]
    BY <1>1, <1>4 DEF LockTypes
  <2> QED BY <1>1, <1>2, <1>3, <1>4, <2>1 DEF LockPlaces
<1>7. LockLists'
  BY <1>2, <1>3, <1>4, ListsFrame
<1>8. Pointers'
  <2>1. \A r \in Lock : holder'[r] # NULL =>
          holder'[r] = holder[r] \/ (holder'[r] \in Thread /\ Alive(holder'[r]))
    BY <1>2, <1>4
  <2> QED BY <1>2, <1>3, <2>1, PointersFrame
<1>9. t \in Inside(l)
  BY <1>2 DEF Inside
<1>10. Exclusive'
  <2>1. \A r \in Lock : Inside(r)' = Inside(r)
    <3>1. \A r \in Lock, u \in Thread : u \in Inside(r)' <=> u \in Inside(r)
      BY <1>1, <1>2, <1>4, <1>9 DEF Inside
    <3>2. \A r \in Lock : Inside(r)' \subseteq Thread /\ Inside(r) \subseteq Thread
      BY DEF Inside
    <3> QED BY <3>1, <3>2
  <2>2. ASSUME NEW r \in Lock, NEW x \in Thread, r \in owns'[x]
        PROVE  holder'[r] = x
    <3>1. CASE r = l
      <4>1. x = t \/ x \in Inside(l)
        BY <1>4, <2>2, <3>1 DEF Inside
      <4> QED BY <1>1, <1>4, <1>9, <3>1, <4>1 DEF Exclusive
    <3>2. CASE r # l
      BY <1>1, <1>4, <2>2, <3>2 DEF Exclusive
    <3> QED BY <3>1, <3>2
  <2> QED BY <1>1, <1>3, <2>1, <2>2 DEF Exclusive
<1>11. HolderOwns'
  <2> SUFFICES ASSUME NEW r \in Lock, holder'[r] # NULL
               PROVE  \/ r \in owns'[holder'[r]]
                      \/ on'[holder'[r]] = r /\ at'[holder'[r]] \in {"refresh", "update", "clear"}
    BY DEF HolderOwns
  <2>1. CASE r = l
    BY <1>4, <2>1
  <2>2. CASE r # l
    <3>1. holder'[r] = holder[r] /\ holder[r] \in Thread
      BY <1>1, <1>4, <2>2 DEF LockTypes
    <3> QED BY <1>1, <1>2, <1>4, <3>1 DEF HolderOwns
  <2> QED BY <2>1, <2>2
<1>12. WaitingSet'
  BY <1>1, <1>2, <1>3, <1>4 DEF WaitingSet, Waits, Walking
<1> QED BY <1>5, <1>6, <1>7, <1>8, <1>10, <1>11, <1>12 DEF LockCore

\* The first step of lock_release: the holder is no longer the owner.
LEMMA ReleaseStep ==
  ASSUME IInv, LockInv, [LocksNext]_allVars, NEW t \in Thread, NEW l \in Lock,
         RemoveDonations(t, l)
  PROVE  LockCore'
<1>1. /\ LockTypes /\ LockPlaces /\ Exclusive /\ HolderOwns /\ WaitingSet
      /\ NULL \notin Lock /\ NULL \notin Thread
  BY LockParts, LocksAssumption, SchedAssumption
<1>2. /\ at[t] = "out" /\ on[t] = NULL /\ pc[t] = "run" /\ ~fault /\ l \in owns[t]
      /\ holder[l] = t
  <2>1. IsAt(t, "out") /\ l \in owns[t]
    BY DEF RemoveDonations
  <2>2. holder[l] = t
    BY <1>1, <2>1 DEF Exclusive
  <2> QED BY <1>1, <2>1, <2>2, AtFacts DEF LockPlaces
<1>3. /\ pc' = pc /\ lsema' = lsema /\ waiting_lock' = waiting_lock /\ ptr' = ptr
      /\ new_priority' = new_priority /\ fault' = fault /\ holder' = holder
      /\ owns' = [owns EXCEPT ![t] = @ \ {l}]
      /\ at' = [at EXCEPT ![t] = "refresh"] /\ on' = [on EXCEPT ![t] = l]
      /\ donations' = [donations EXCEPT ![t] = {d \in @ : waiting_lock[d] # l}]
  BY DEF RemoveDonations, To, vars
<1>4. /\ at'[t] = "refresh" /\ on'[t] = l /\ owns'[t] = owns[t] \ {l}
      /\ \A u \in Thread \ {t} : at'[u] = at[u] /\ on'[u] = on[u] /\ owns'[u] = owns[u]
  BY <1>1, <1>3 DEF LockTypes
<1>5. LockTypes'
  <2>1. at' \in [Thread -> {"out"} \cup Acquiring \cup Releasing]
    BY <1>1, <1>3 DEF LockTypes, Releasing
  <2>2. on' \in [Thread -> Lock \cup {NULL}] /\ owns' \in [Thread -> SUBSET Lock]
    BY <1>1, <1>3 DEF LockTypes
  <2>3. donations' \in [Thread -> SUBSET Thread]
    BY <1>1, <1>3 DEF LockTypes
  <2> QED BY <1>1, <1>3, <2>1, <2>2, <2>3 DEF LockTypes
<1>6. LockPlaces'
  BY <1>1, <1>2, <1>3, <1>4 DEF LockPlaces
<1>7. LockLists'
  BY <1>2, <1>3, <1>4, ListsFrame
<1>8. Pointers'
  BY <1>2, <1>3, PointersFrame
<1>9. Exclusive'
  <2>1. \A r \in Lock : Inside(r)' = Inside(r)
    <3>1. \A r \in Lock, u \in Thread : u \in Inside(r)' <=> u \in Inside(r)
      BY <1>1, <1>2, <1>4 DEF Inside
    <3>2. \A r \in Lock : Inside(r)' \subseteq Thread /\ Inside(r) \subseteq Thread
      BY DEF Inside
    <3> QED BY <3>1, <3>2
  <2> QED BY <1>1, <1>3, <1>4, <2>1 DEF Exclusive
<1>10. HolderOwns'
  <2>1. \A r \in Lock : holder[r] # NULL => holder[r] \in Thread
    BY <1>1 DEF LockTypes
  <2> QED BY <1>1, <1>2, <1>3, <1>4, <2>1 DEF HolderOwns
<1>11. WaitingSet'
  BY <1>1, <1>2, <1>3, <1>4 DEF WaitingSet, Waits, Walking
<1> QED BY <1>5, <1>6, <1>7, <1>8, <1>9, <1>10, <1>11 DEF LockCore

\* refresh_priority.
LEMMA RefreshStep ==
  ASSUME IInv, LockInv, [LocksNext]_allVars, NEW t \in Thread,
         RefreshPriority(t) \/ UpdateOwn(t)
  PROVE  LockCore'
<1>1. LockTypes /\ WaitingSet /\ k \in KernelState
  BY LockParts, IInvFacts
<1>2. PICK a \in {"update", "clear"} :
        /\ at[t] \in {"refresh", "update"} /\ at' = [at EXCEPT ![t] = a]
  BY DEF RefreshPriority, UpdateOwn, IsAt, To
<1>3. /\ pc[t] = "run" /\ ~fault
      /\ pc' = pc /\ holder' = holder /\ lsema' = lsema /\ owns' = owns /\ on' = on
      /\ waiting_lock' = waiting_lock /\ ptr' = ptr /\ donations' = donations
      /\ fault' = fault
  BY DEF RefreshPriority, UpdateOwn, IsAt, Runs, vars
<1>4. new_priority' \in [Thread -> Priority]
  <2>1. 0 \in Priority /\ Effective(t) \in Priority
    BY <1>1, EffectiveFacts, SchedAssumption DEF Priority
  <2> QED BY <1>1, <2>1 DEF RefreshPriority, UpdateOwn, LockTypes
<1>5. LockTypes'
  <2>1. at' \in [Thread -> {"out"} \cup Acquiring \cup Releasing]
    BY <1>1, <1>2 DEF LockTypes, Releasing
  <2> QED BY <1>1, <1>3, <1>4, <2>1 DEF LockTypes
<1>6. LockPlaces' /\ LockLists' /\ Exclusive' /\ HolderOwns'
  <2>1. /\ at[t] # "out" /\ a # "out"
        /\ at[t] \in InPlaces <=> a \in InPlaces
        /\ at[t] \in Clearing <=> a \in Clearing
    BY <1>2 DEF InPlaces, Clearing
  <2> QED BY <1>2, <1>3, <2>1, WalkStep
<1>7. Pointers'
  BY <1>2, <1>3, PointersFrame
<1>8. WaitingSet'
  <2>1. waiting_lock[t] = NULL /\ a \notin Walking \cup {"push"}
    BY <1>1, <1>2 DEF WaitingSet, Waits, Walking
  <2> QED BY <1>2, <1>3, <2>1, WalkWaiting
<1> QED BY <1>5, <1>6, <1>7, <1>8 DEF LockCore

\* The lock no longer names a holder.
LEMMA ClearStep ==
  ASSUME IInv, LockInv, [LocksNext]_allVars, NEW t \in Thread, ClearHolder(t)
  PROVE  LockCore'
<1>1. /\ LockTypes /\ LockPlaces /\ Exclusive /\ HolderOwns /\ WaitingSet
      /\ NULL \notin Lock /\ NULL \notin Thread
  BY LockParts, LocksAssumption, SchedAssumption
<1>2. PICK l \in Lock :
        /\ l = on[t] /\ at[t] = "clear" /\ pc[t] = "run" /\ ~fault
        /\ l \notin owns[t]
  BY <1>1, AtFacts DEF ClearHolder, LockPlaces
<1>3. /\ pc' = pc /\ lsema' = lsema /\ waiting_lock' = waiting_lock /\ ptr' = ptr
      /\ donations' = donations /\ new_priority' = new_priority /\ fault' = fault
      /\ on' = on /\ owns' = owns
      /\ holder' = [holder EXCEPT ![l] = NULL]
      /\ at' = [at EXCEPT ![t] = "up"]
  BY <1>2 DEF ClearHolder, To, vars
<1>4. /\ at'[t] = "up" /\ holder'[l] = NULL
      /\ \A u \in Thread \ {t} : at'[u] = at[u]
      /\ \A r \in Lock \ {l} : holder'[r] = holder[r]
  BY <1>1, <1>3 DEF LockTypes
<1>5. LockTypes'
  <2>1. at' \in [Thread -> {"out"} \cup Acquiring \cup Releasing]
    BY <1>1, <1>3 DEF LockTypes, Releasing
  <2> QED BY <1>1, <1>3, <2>1 DEF LockTypes
<1>6. LockPlaces'
  BY <1>1, <1>2, <1>3, <1>4 DEF LockPlaces
<1>7. LockLists'
  BY <1>2, <1>3, ListsFrame
<1>8. Pointers'
  <2>1. \A r \in Lock : holder'[r] # NULL => holder'[r] = holder[r]
    BY <1>4
  <2> QED BY <1>2, <1>3, <2>1, PointersFrame
<1>9. Exclusive'
  <2>1. \A r \in Lock : Inside(r)' = Inside(r)
    BY <1>2, <1>3, <1>4 DEF Inside
  <2>2. t \in Inside(l)
    BY <1>2 DEF Inside
  <2>3. ASSUME NEW r \in Lock, NEW x \in Thread, r \in owns[x]
        PROVE  holder'[r] = x
    <3>1. CASE r = l
      <4>1. x \in Inside(l)
        BY <2>3, <3>1 DEF Inside
      <4> QED BY <1>1, <1>2, <2>2, <2>3, <3>1, <4>1 DEF Exclusive
    <3>2. CASE r # l
      BY <1>1, <1>4, <2>3, <3>2 DEF Exclusive
    <3> QED BY <3>1, <3>2
  <2> QED BY <1>1, <1>3, <2>1, <2>3 DEF Exclusive
<1>10. HolderOwns'
  <2>1. \A r \in Lock : holder[r] # NULL => holder[r] \in Thread
    BY <1>1 DEF LockTypes
  <2> QED BY <1>1, <1>2, <1>3, <1>4, <2>1 DEF HolderOwns
<1>11. WaitingSet'
  <2>1. waiting_lock[t] = NULL /\ "up" \notin Walking \cup {"push"}
    BY <1>1, <1>2 DEF WaitingSet, Waits, Walking
  <2> QED BY <1>3, <2>1, WalkWaiting
<1> QED BY <1>5, <1>6, <1>7, <1>8, <1>9, <1>10, <1>11 DEF LockCore

\* A thread that finds the lock taken falls asleep.
LEMMA LockSleepStep ==
  ASSUME IInv, LockInv, [LocksNext]_allVars, NEW t \in Thread, DownSleep(t)
  PROVE  LockCore'
<1>1. /\ LockTypes /\ LockPlaces /\ LockLists /\ Exclusive /\ HolderOwns /\ WaitingSet
      /\ NULL \notin Lock /\ NULL \notin Thread /\ pc \in [Thread -> Location]
  BY LockParts, LocksAssumption, SchedAssumption DEF IInv, PcInv
<1>2. PICK l \in Lock :
        /\ l = on[t] /\ at[t] \in {"down", "recheck"} /\ pc[t] = "run" /\ ~fault
        /\ l \notin owns[t] /\ k.current = t
  <2>1. PICK a \in {"down", "recheck"} : IsAt(t, a)
    BY DEF DownSleep
  <2> QED BY <1>1, <2>1, AtFacts DEF LockPlaces
<1>3. /\ waiting_lock' = waiting_lock /\ ptr' = ptr /\ holder' = holder
      /\ donations' = donations /\ new_priority' = new_priority /\ fault' = fault
      /\ on' = on /\ owns' = owns
      /\ pc' = [pc EXCEPT ![t] = "waiting"]
      /\ at' = [at EXCEPT ![t] = "recheck"]
      /\ ~Available(lsema[l])
      /\ lsema' = [lsema EXCEPT ![l] = sema_wait(k, lsema[l]).sema]
  BY <1>2 DEF DownSleep, Block, Goto, To
<1>4. /\ at'[t] = "recheck" /\ pc'[t] = "waiting"
      /\ \A u \in Thread \ {t} : at'[u] = at[u] /\ pc'[u] = pc[u]
  BY <1>1, <1>3 DEF LockTypes
<1>5. t \notin Waiters(l)
  BY <1>1, <1>2 DEF LockLists
<1>6. /\ lsema' \in [Lock -> Semaphore]
      /\ lsema[l].value = 0 /\ lsema'[l].value = 0
      /\ Waiters(l)' = Waiters(l) \cup {t}
      /\ IsInjective(lsema'[l].waiters)
      /\ \A r \in Lock \ {l} : lsema'[r] = lsema[r]
  <2> DEFINE q == Append(lsema[l].waiters, t)
             new == [value |-> 0, waiters |-> q]
  <2>1. /\ lsema[l] \in Semaphore /\ lsema[l].waiters \in Seq(Thread)
        /\ IsInjective(lsema[l].waiters) /\ t \notin ToSet(lsema[l].waiters)
        /\ lsema[l].value = 0
    BY <1>1, <1>3, <1>5, SemaFacts DEF LockLists, Waiters, Available
  <2>2. /\ q \in Seq(Thread) /\ IsInjective(q)
        /\ ToSet(q) = ToSet(lsema[l].waiters) \cup {t}
    BY <2>1, AppendFacts
  <2>3. sema_wait(k, lsema[l]).sema = new
    BY <1>2, <2>1 DEF sema_wait, Semaphore
  <2>4. new \in Semaphore
    BY <2>2 DEF Semaphore
  <2>5. lsema' = [lsema EXCEPT ![l] = new]
    BY <1>3, <2>3
  <2>6. new.value = 0 /\ new.waiters = q
    OBVIOUS
  <2> HIDE DEF new, q
  <2>7. lsema'[l] = new /\ lsema' \in [Lock -> Semaphore]
        /\ \A r \in Lock \ {l} : lsema'[r] = lsema[r]
    BY <1>1, <2>4, <2>5 DEF LockTypes
  <2> QED BY <2>1, <2>2, <2>6, <2>7 DEF Waiters
<1>7. LockTypes'
  <2>1. at' \in [Thread -> {"out"} \cup Acquiring \cup Releasing]
    BY <1>1, <1>3 DEF LockTypes, Acquiring
  <2> QED BY <1>1, <1>3, <1>6, <2>1 DEF LockTypes
<1>8. LockPlaces'
  BY <1>1, <1>2, <1>3, <1>4 DEF LockPlaces
<1>9. LockLists'
  <2>1. \A r \in Lock \ {l} : Waiters(r)' = Waiters(r)
    BY <1>6 DEF Waiters
  <2>2. \A r \in Lock : Waiters(r) \subseteq Thread
    BY <1>1, SemaFacts
  <2>3. \A r \in Lock : t \notin Waiters(r)
    BY <1>1, <1>2 DEF LockLists
  <2>4. (\A r \in Lock : IsInjective(lsema[r].waiters))'
    BY <1>1, <1>6 DEF LockLists
  <2>5. ASSUME NEW u \in Thread, pc'[u] = "waiting"
        PROVE  (u \in Waiters(on[u]))'
    <3>1. CASE u = t
      BY <1>2, <1>3, <1>6, <3>1
    <3>2. CASE u # t
      <4>1. pc[u] = "waiting" /\ u \in Waiters(on[u]) /\ on[u] \in Lock
        BY <1>1, <1>4, <2>5, <3>2 DEF LockLists, LockPlaces, LockTypes
      <4>2. \A r \in Lock : u \in Waiters(r) => u \in Waiters(r)'
        BY <1>6, <2>1
      <4> QED BY <1>3, <4>1, <4>2 DEF Waiters
    <3> QED BY <3>1, <3>2
  <2>6. ASSUME NEW r \in Lock, NEW u \in Waiters(r)'
        PROVE  pc'[u] = "waiting" /\ on'[u] = r
    <3>1. CASE u = t
      BY <1>2, <1>3, <1>4, <1>6, <2>1, <2>3, <2>6, <3>1
    <3>2. CASE u # t
      <4>1. u \in Waiters(r)
        BY <1>6, <2>1, <2>6, <3>2
      <4> QED BY <1>1, <1>3, <1>4, <2>2, <3>2, <4>1 DEF LockLists
    <3> QED BY <3>1, <3>2
  <2>7. \A u \in Thread : pc'[u] = "waiting" => (u \in Waiters(on[u]))'
    BY <2>5
  <2> QED BY <2>4, <2>6, <2>7 DEF LockLists
<1>10. Pointers'
  <2>1. \A r \in Lock : holder'[r] # NULL => holder'[r] = holder[r]
    BY <1>3
  <2> QED BY <1>2, <1>3, <2>1, PointersFrame
<1>11. Exclusive'
  <2>1. \A r \in Lock : Inside(r)' = Inside(r)
    BY <1>2, <1>3, <1>4 DEF Inside
  <2>2. \A r \in Lock : lsema'[r].value = lsema[r].value
    BY <1>6
  <2> QED BY <1>1, <1>3, <2>1, <2>2 DEF Exclusive
<1>12. HolderOwns'
  <2>1. \A r \in Lock : holder[r] # NULL => holder[r] \in Thread
    BY <1>1 DEF LockTypes
  <2> QED BY <1>1, <1>2, <1>3, <1>4, <2>1 DEF HolderOwns
<1>13. WaitingSet'
  <2>1. "recheck" \in Waits /\ "recheck" \notin Walking \cup {"push"}
    BY DEF Waits, Walking
  <2> QED BY <1>3, <2>1, WalkWaiting
<1> QED BY <1>7, <1>8, <1>9, <1>10, <1>11, <1>12, <1>13 DEF LockCore

\* sema_up of a lock: the value rises and a waiter, if any, leaves the list.
LEMMA LockUpFacts ==
  ASSUME IInv, LockInv, NEW l \in Lock,
         lsema' = [lsema EXCEPT ![l] = sema_up(k, lsema[l]).sema]
  PROVE  LET w == Unblocked(k, lsema[l]) IN
         /\ lsema' \in [Lock -> Semaphore]
         /\ lsema'[l].value = lsema[l].value + 1
         /\ Waiters(l)' = Waiters(l) \ {w}
         /\ IsInjective(lsema'[l].waiters)
         /\ \A r \in Lock \ {l} : lsema'[r] = lsema[r]
<1> DEFINE w == Unblocked(k, lsema[l])
           q == RemoveFirst(lsema[l].waiters, w)
           new == [value |-> lsema[l].value + 1, waiters |-> q]
<1>1. /\ lsema[l] \in Semaphore /\ lsema[l].value \in Nat /\ lsema[l].waiters \in Seq(Thread)
      /\ IsInjective(lsema[l].waiters) /\ LockTypes
  BY LockParts, SemaFacts DEF LockLists
<1>2. /\ q \in Seq(Thread) /\ IsInjective(q)
      /\ ToSet(q) = ToSet(lsema[l].waiters) \ {w}
  BY <1>1, RemoveFacts
<1>3. sema_up(k, lsema[l]).sema = new
  <2>1. CASE lsema[l].waiters # << >>
    BY <2>1 DEF sema_up
  <2>2. CASE lsema[l].waiters = << >>
    <3>1. ToSet(q) = {} /\ q = << >>
      <4>1. ToSet(lsema[l].waiters) = {}
        BY <2>2, EmptyList
      <4>2. q \in Seq(Thread) /\ ToSet(q) = {}
        BY <1>2, <4>1
      <4> HIDE DEF q
      <4> QED BY <4>2, ToSetFacts
    <3>2. sema_up(k, lsema[l]).sema = [lsema[l] EXCEPT !.value = lsema[l].value + 1]
      BY <2>2 DEF sema_up
    <3>3. lsema[l] = [value |-> lsema[l].value, waiters |-> lsema[l].waiters]
      BY <1>1 DEF Semaphore
    <3> QED BY <2>2, <3>1, <3>2, <3>3
  <2> QED BY <2>1, <2>2
<1>4. new \in Semaphore /\ new.value = lsema[l].value + 1 /\ new.waiters = q
  BY <1>1, <1>2 DEF Semaphore
<1> HIDE DEF new, q, w
<1>5. /\ lsema'[l] = new /\ lsema' \in [Lock -> Semaphore]
      /\ \A r \in Lock \ {l} : lsema'[r] = lsema[r]
  BY <1>1, <1>3, <1>4 DEF LockTypes
<1>6. Waiters(l)' = Waiters(l) \ {w}
  BY <1>2, <1>4, <1>5 DEF Waiters
<1> QED BY <1>2, <1>4, <1>5, <1>6 DEF w

\* The lock is free again, and one thread that waited for it is awake.
LEMMA LockUpStep ==
  ASSUME IInv, LockInv, [LocksNext]_allVars, NEW t \in Thread, LockUp(t)
  PROVE  LockCore'
<1>1. /\ LockTypes /\ LockPlaces /\ LockLists /\ Exclusive /\ HolderOwns /\ WaitingSet
      /\ NULL \notin Lock /\ NULL \notin Thread /\ pc \in [Thread -> Location]
  BY LockParts, LocksAssumption, SchedAssumption DEF IInv, PcInv
<1>2. PICK l \in Lock :
        /\ l = on[t] /\ at[t] = "up" /\ pc[t] = "run" /\ ~fault
        /\ l \notin owns[t] /\ k.current = t
  BY <1>1, AtFacts DEF LockUp, LockPlaces
<1> DEFINE w == Unblocked(k, lsema[l])
<1>3. /\ waiting_lock' = waiting_lock /\ holder' = holder
      /\ donations' = donations /\ new_priority' = new_priority /\ fault' = fault
      /\ on' = on /\ owns' = owns
      /\ ptr' = [ptr EXCEPT ![t] = w]
      /\ at' = [at EXCEPT ![t] = "yield"]
      /\ lsema' = [lsema EXCEPT ![l] = sema_up(k, lsema[l]).sema]
      /\ pc' = IF w = NULL THEN pc ELSE [pc EXCEPT ![w] = "run"]
  BY <1>2 DEF LockUp, To, Point, Goto
<1>4. /\ w # NULL => /\ w \in Thread /\ w \in Waiters(l) /\ pc[w] = "waiting"
                     /\ on[w] = l /\ at[w] = "recheck"
      /\ w # t
  BY <1>1, <1>2, WokenFacts
<1>5. /\ lsema' \in [Lock -> Semaphore]
      /\ lsema'[l].value = lsema[l].value + 1
      /\ Waiters(l)' = Waiters(l) \ {w}
      /\ IsInjective(lsema'[l].waiters)
      /\ \A r \in Lock \ {l} : lsema'[r] = lsema[r]
  BY <1>3, LockUpFacts
<1> HIDE DEF w
<1>6. /\ at'[t] = "yield" /\ pc'[t] = "run"
      /\ \A u \in Thread \ {t} : at'[u] = at[u]
      /\ \A u \in Thread : pc'[u] = IF u = w THEN "run" ELSE pc[u]
  <2>1. at'[t] = "yield" /\ \A u \in Thread \ {t} : at'[u] = at[u]
    BY <1>1, <1>3 DEF LockTypes
  <2>2. \A u \in Thread : pc'[u] = IF u = w THEN "run" ELSE pc[u]
    BY <1>1, <1>3, <1>4
  <2> QED BY <1>2, <2>1, <2>2
<1>7. LockTypes'
  <2>1. at' \in [Thread -> {"out"} \cup Acquiring \cup Releasing]
    BY <1>1, <1>3 DEF LockTypes, Releasing
  <2>2. ptr' \in [Thread -> Thread \cup Lock \cup {NULL}]
    <3>1. w \in Thread \cup {NULL}
      BY <1>4
    <3> QED BY <1>1, <1>3, <3>1 DEF LockTypes
  <2> QED BY <1>1, <1>3, <1>5, <2>1, <2>2 DEF LockTypes
<1>8. LockPlaces'
  <2>1. ASSUME NEW u \in Thread
        PROVE  /\ at'[u] # "out" => pc'[u] \in {"run", "waiting"}
               /\ pc'[u] = "waiting" => at'[u] = "recheck"
               /\ at'[u] = "out" <=> on'[u] = NULL
               /\ on'[u] \notin owns'[u]
    <3>1. CASE u = t
      BY <1>1, <1>2, <1>3, <1>6, <3>1
    <3>2. CASE u # t
      <4>1. /\ at[u] # "out" => pc[u] \in {"run", "waiting"}
            /\ pc[u] = "waiting" => at[u] = "recheck"
            /\ at[u] = "out" <=> on[u] = NULL
            /\ on[u] \notin owns[u]
        BY <1>1 DEF LockPlaces
      <4> QED BY <1>3, <1>6, <3>2, <4>1
    <3> QED BY <3>1, <3>2
  <2> QED BY <2>1 DEF LockPlaces
<1>9. LockLists'
  <2>1. \A r \in Lock \ {l} : Waiters(r)' = Waiters(r)
    BY <1>5 DEF Waiters
  <2>2. \A r \in Lock : Waiters(r) \subseteq Thread
    BY <1>1, SemaFacts
  <2>4. (\A r \in Lock : IsInjective(lsema[r].waiters))'
    BY <1>1, <1>5 DEF LockLists
  <2>5. ASSUME NEW u \in Thread, pc'[u] = "waiting"
        PROVE  (u \in Waiters(on[u]))'
    <3>1. u # w /\ pc[u] = "waiting"
      BY <1>6, <2>5
    <3>2. u \in Waiters(on[u]) /\ on[u] \in Lock
      BY <1>1, <3>1 DEF LockLists, LockPlaces, LockTypes
    <3>3. \A r \in Lock : u \in Waiters(r) => u \in Waiters(r)'
      BY <1>5, <2>1, <3>1
    <3> QED BY <1>3, <3>2, <3>3 DEF Waiters
  <2>6. ASSUME NEW r \in Lock, NEW u \in Waiters(r)'
        PROVE  pc'[u] = "waiting" /\ on'[u] = r
    <3>1. u \in Waiters(r)
      BY <1>5, <2>1, <2>6
    <3>2. pc[u] = "waiting" /\ on[u] = r /\ u \in Thread
      BY <1>1, <2>2, <3>1 DEF LockLists
    <3>3. u # w
      <4>1. CASE r = l
        BY <1>5, <2>6, <4>1
      <4>2. CASE r # l
        BY <1>1, <1>4, <3>2, <4>2
      <4> QED BY <4>1, <4>2
    <3> QED BY <1>3, <1>6, <3>2, <3>3
  <2>7. \A u \in Thread : pc'[u] = "waiting" => (u \in Waiters(on[u]))'
    BY <2>5
  <2> QED BY <2>4, <2>6, <2>7 DEF LockLists
<1>10. Pointers'
  <2>1. \A r \in Lock : holder'[r] \in {holder[r], NULL}
    BY <1>3
  <2>2. w \in Thread \cup {NULL}
    BY <1>4
  <2> QED BY <1>2, <1>3, <2>1, <2>2, WalkPointers
<1>11. Exclusive'
  <2>1. t \in Inside(l)
    BY <1>2 DEF Inside
  <2>2. Inside(l) = {t} /\ lsema[l].value = 0
    <3>1. \A u \in Inside(l) : u = t
      BY <1>1, <2>1 DEF Exclusive
    <3> QED BY <1>1, <2>1, <3>1 DEF Exclusive
  <2>3. ASSUME NEW r \in Lock
        PROVE  /\ t \in Inside(r)' <=> r \in owns[t]
               /\ \A u \in Thread \ {t} : u \in Inside(r)' <=> u \in Inside(r)
    BY <1>2, <1>3, <1>6 DEF Inside
  <2>4. \A r \in Lock : Inside(r)' \subseteq Thread /\ Inside(r) \subseteq Thread
    BY DEF Inside
  <2>5. Inside(l)' = {}
    BY <1>2, <2>2, <2>3, <2>4
  <2>6. \A r \in Lock \ {l} : Inside(r)' = Inside(r)
    <3>1. \A r \in Lock \ {l} : t \in Inside(r) <=> r \in owns[t]
      BY <1>2 DEF Inside
    <3> QED BY <2>3, <2>4, <3>1
  <2>7. lsema'[l].value = 1
    BY <1>5, <2>2
  <2>8. ASSUME NEW r \in Lock
        PROVE  /\ \A x, u \in Inside(r)' : x = u
               /\ lsema'[r].value = IF Inside(r)' = {} THEN 1 ELSE 0
               /\ \A x \in Thread : r \in owns'[x] => holder'[r] = x
    <3>1. CASE r = l
      BY <1>1, <1>3, <2>5, <2>7, <3>1 DEF Exclusive
    <3>2. CASE r # l
      BY <1>1, <1>3, <1>5, <2>6, <3>2 DEF Exclusive
    <3> QED BY <3>1, <3>2
  <2> QED BY <2>8 DEF Exclusive
<1>12. HolderOwns'
  <2>1. \A r \in Lock : holder[r] # NULL => holder[r] \in Thread
    BY <1>1 DEF LockTypes
  <2> QED BY <1>1, <1>2, <1>3, <1>6, <2>1 DEF HolderOwns
<1>13. WaitingSet'
  <2>1. waiting_lock[t] = NULL /\ "yield" \notin Walking \cup {"push"}
    BY <1>1, <1>2 DEF WaitingSet, Waits, Walking
  <2> QED BY <1>3, <2>1, WalkWaiting
<1> QED BY <1>7, <1>8, <1>9, <1>10, <1>11, <1>12, <1>13 DEF LockCore

\* lock_release returns, after a yield or without.
LEMMA LockYieldStep ==
  ASSUME IInv, LockInv, [LocksNext]_allVars, NEW t \in Thread, UpYield(t)
  PROVE  LockCore'
<1>1. /\ LockTypes /\ LockPlaces /\ LockLists /\ Exclusive /\ HolderOwns /\ WaitingSet
      /\ NULL \notin Lock /\ NULL \notin Thread
  BY LockParts, LocksAssumption, SchedAssumption
<1>2. at[t] = "yield" /\ pc[t] = "run" /\ ~fault
  BY AtFacts DEF UpYield
<1>3. /\ waiting_lock' = waiting_lock /\ holder' = holder /\ lsema' = lsema
      /\ donations' = donations /\ new_priority' = new_priority /\ fault' = fault
      /\ owns' = owns /\ pc' = pc
      /\ ptr' = [ptr EXCEPT ![t] = NULL]
      /\ at' = [at EXCEPT ![t] = "out"] /\ on' = [on EXCEPT ![t] = NULL]
  BY DEF UpYield, To, Point
<1>4. /\ at'[t] = "out" /\ on'[t] = NULL
      /\ \A u \in Thread \ {t} : at'[u] = at[u] /\ on'[u] = on[u]
  BY <1>1, <1>3 DEF LockTypes
<1>5. LockTypes'
  BY <1>1, <1>3 DEF LockTypes
<1>6. LockPlaces'
  <2>1. NULL \notin owns[t]
    BY <1>1 DEF LockTypes
  <2> QED BY <1>1, <1>2, <1>3, <1>4, <2>1 DEF LockPlaces
<1>7. LockLists'
  BY <1>2, <1>3, <1>4, ListsFrame
<1>8. Pointers'
  <2>1. \A r \in Lock : holder'[r] \in {holder[r], NULL}
    BY <1>3
  <2> QED BY <1>2, <1>3, <2>1, WalkPointers
<1>9. Exclusive'
  <2>1. \A r \in Lock : Inside(r)' = Inside(r)
    BY <1>1, <1>2, <1>3, <1>4 DEF Inside
  <2> QED BY <1>1, <1>3, <2>1 DEF Exclusive
<1>10. HolderOwns'
  <2>1. \A r \in Lock : holder[r] # NULL => holder[r] \in Thread
    BY <1>1 DEF LockTypes
  <2> QED BY <1>1, <1>2, <1>3, <1>4, <2>1 DEF HolderOwns
<1>11. WaitingSet'
  BY <1>1, <1>2, <1>3, <1>4 DEF WaitingSet, Waits, Walking
<1> QED BY <1>5, <1>6, <1>7, <1>8, <1>9, <1>10, <1>11 DEF LockCore

\* A step that leaves the locks alone.
LEMMA LockQuietStep ==
  ASSUME IInv, LockInv, [LocksNext]_allVars, UNCHANGED lockVars,
         \A u \in Thread : /\ pc'[u] = "waiting" <=> pc[u] = "waiting"
                           /\ at[u] # "out" => pc'[u] = pc[u]
  PROVE  LockCore'
<1>1. /\ LockTypes /\ LockPlaces /\ LockLists /\ Exclusive /\ HolderOwns /\ WaitingSet
      /\ Pointers /\ NULL \notin Lock /\ NULL \notin Thread
  BY LockParts, LocksAssumption, SchedAssumption
<1>2. /\ waiting_lock' = waiting_lock /\ holder' = holder /\ lsema' = lsema
      /\ donations' = donations /\ new_priority' = new_priority /\ fault' = fault
      /\ owns' = owns /\ ptr' = ptr /\ at' = at /\ on' = on
  BY DEF lockVars
<1>3. LockTypes' /\ HolderOwns' /\ WaitingSet'
  BY <1>1, <1>2 DEF LockTypes, HolderOwns, WaitingSet
<1>4. LockPlaces'
  BY <1>1, <1>2 DEF LockPlaces
<1>5. LockLists'
  <2>1. \A r \in Lock : Waiters(r)' = Waiters(r)
    BY <1>2 DEF Waiters
  <2>2. \A r \in Lock : Waiters(r) \subseteq Thread
    BY <1>1, SemaFacts
  <2>3. (\A r \in Lock : IsInjective(lsema[r].waiters))'
    BY <1>1, <1>2 DEF LockLists
  <2>4. (\A u \in Thread : pc[u] = "waiting" => u \in Waiters(on[u]))'
    BY <1>1, <1>2 DEF LockLists, Waiters
  <2>5. (\A r \in Lock : \A u \in Waiters(r) : pc[u] = "waiting" /\ on[u] = r)'
    BY <1>1, <1>2, <2>1, <2>2 DEF LockLists
  <2> QED BY <2>3, <2>4, <2>5 DEF LockLists
<1>6. Pointers'
  <2>1. \A h \in Thread : Alive(h) => Alive(h)'
    BY AliveStep
  <2>2. \A u \in Thread : /\ at[u] = "loop" => ptr[u] \in Lock \cup {NULL}
                          /\ at[u] \in {"holder", "yield"} => ptr[u] \in Thread \cup {NULL}
                          /\ at[u] = "chain" => ptr[u] \in Thread
                          /\ at[u] = "follow" => fault \/ ptr[u] \in Thread
    BY <1>1 DEF Pointers
  <2>3. \A u \in Thread : at'[u] \in {"holder", "chain"} /\ ptr'[u] # NULL => Alive(ptr[u])'
    <3>1. TAKE u \in Thread
    <3>2. HAVE at'[u] \in {"holder", "chain"} /\ ptr'[u] # NULL
    <3>3. ptr[u] \in Thread /\ Alive(ptr[u])
      BY <1>1, <1>2, <3>2 DEF Pointers
    <3> QED BY <1>2, <2>1, <3>3 DEF Alive
  <2>4. \A l \in Lock : holder'[l] # NULL => Alive(holder[l])'
    <3>1. \A l \in Lock : holder[l] # NULL => holder[l] \in Thread /\ Alive(holder[l])
      BY <1>1 DEF Pointers, LockTypes
    <3> QED BY <1>2, <2>1, <3>1 DEF Alive
  <2> QED BY <1>2, <2>2, <2>3, <2>4 DEF Pointers
<1>7. Exclusive'
  <2>1. \A r \in Lock : Inside(r)' = Inside(r)
    BY <1>2 DEF Inside
  <2> QED BY <1>1, <1>2, <2>1 DEF Exclusive
<1> QED BY <1>3, <1>4, <1>5, <1>6, <1>7 DEF LockCore

\* A thread in synch.c does not move when the rest of the system does.
LEMMA OtherMoves ==
  ASSUME IInv, LockInv, OtherStep, NEW u \in Thread
  PROVE  /\ pc'[u] = "waiting" <=> pc[u] = "waiting"
         /\ at[u] # "out" => pc'[u] = pc[u]
<1>1. /\ pc'[u] = "waiting" <=> pc[u] = "waiting"
      /\ pc'[u] # pc[u] /\ pc[u] = "run" => thread_create(u) \/ thread_set_priority(u)
  BY OtherIsThreads, PlainMoves
<1>2. at[u] # "out" => pc[u] \in {"run", "waiting"}
  BY LockParts DEF LockPlaces
<1>3. pc'[u] # pc[u] /\ pc[u] = "run" => at[u] = "out"
  <2> SUFFICES ASSUME pc'[u] # pc[u], pc[u] = "run" PROVE at[u] = "out"
    OBVIOUS
  <2>1. k.current = u /\ ~k.in_external_intr
    BY <1>1 DEF thread_create, thread_set_priority, CreateThread, StartThread,
                YieldToArg, ChangePriority, YieldIfHigher, Runs
  <2>2. pc \in [Thread -> Location] /\ initial_thread \in Thread
    BY SchedAssumption DEF IInv, PcInv
  <2>3. CASE Boot
    BY <2>1, <2>3
       DEF Boot, thread_start, CreateThread, StartThread, YieldToArg, WaitForIdle, Runs
  <2>4. ASSUME NEW t \in Thread, idle(t) PROVE FALSE
    BY <2>1, <2>4 DEF idle, IdleBegins, IdleUps, YieldToArg, IdleBlocks, Runs
  <2>5. ASSUME NEW t \in Thread, Elsewhere(t) PROVE at[u] = "out"
    <3>1. t = u
      BY <2>1, <2>5, <2>2
         DEF Elsewhere, thread_create, SetOwnPriority, YieldIfHigher, Yield,
             CreateThread, StartThread, YieldToArg, Runs
    <3> QED BY <2>5, <3>1 DEF Elsewhere
  <2>6. CASE LockInterrupt
    BY <2>1, <2>2, <2>6
       DEF LockInterrupt, IntrEnter, DeviceReturn, TimerReturn, InHandler, AfterHalt
  <2> QED BY <2>3, <2>4, <2>5, <2>6 DEF OtherStep
<1> QED BY <1>1, <1>2, <1>3

\* The invariant holds at boot.
LEMMA LockInitInv == LocksInit => IInv /\ LockInv
<1> SUFFICES ASSUME LocksInit PROVE IInv /\ LockInv
  OBVIOUS
<1>1. IInv
  BY InitIInv DEF LocksInit
<1>2. sema_init(1) \in Semaphore /\ sema_init(1).value = 1 /\ sema_init(1).waiters = << >>
  BY EmptyList DEF sema_init, Semaphore
<1>3. 0 \in Priority /\ MaxCuts \in Nat /\ 0 \in 0 .. MaxCuts
  BY SchedAssumption, LocksAssumption DEF Priority
<1>4. LockTypes
  BY <1>2, <1>3 DEF LocksInit, LockTypes
<1>5. LockPlaces
  BY DEF LocksInit, Init, LockPlaces
<1>6. Pointers
  BY DEF LocksInit, Pointers
<1>7. LockLists
  <2>1. \A l \in Lock : lsema[l].waiters = << >> /\ Waiters(l) = {}
    BY <1>2, EmptyList DEF LocksInit, Waiters
  <2>2. \A t \in Thread : pc[t] # "waiting"
    BY DEF LocksInit, Init
  <2> QED BY <2>1, <2>2, EmptyList DEF LockLists
<1>8. Exclusive
  <2>1. \A l \in Lock : Inside(l) = {}
    BY DEF LocksInit, Inside
  <2> QED BY <1>2, <2>1 DEF LocksInit, Exclusive
<1>9. HolderOwns /\ WaitingSet
  BY DEF LocksInit, HolderOwns, WaitingSet, Walking
<1>10. cuts \in 0 .. MaxCuts
  BY <1>3 DEF LocksInit
<1> QED BY <1>1, <1>4, <1>5, <1>6, <1>7, <1>8, <1>9, <1>10 DEF LockInv, LockCore

\* And every step keeps it.
LEMMA LockNextInv ==
  ASSUME IInv, LockInv, [LocksNext]_allVars
  PROVE  /\ [Next]_vars
         /\ IInv'
         /\ LockInv'
<1>1. [Next]_vars
  BY LocksStepIsThreads
<1>2. IInv'
  BY <1>1, NextIInv
<1>3. cuts' \in 0 .. MaxCuts
  <2>1. cuts \in 0 .. MaxCuts /\ MaxCuts \in Nat
    BY LockParts, LocksAssumption
  <2>2. cuts' = cuts \/ (cuts < MaxCuts /\ cuts' = cuts + 1)
    BY DEF LocksNext, Halted, LockInterrupt, allVars
  <2> QED BY <2>1, <2>2
<1>4. CASE Halted \/ UNCHANGED allVars
  <2>1. UNCHANGED lockVars /\ pc' = pc
    BY <1>4 DEF Halted, allVars, vars
  <2> QED BY <1>1, <1>2, <1>3, <2>1, LockQuietStep DEF LockInv
<1>5. CASE OtherStep
  <2>1. UNCHANGED lockVars
    BY <1>5 DEF OtherStep
  <2> QED BY <1>1, <1>2, <1>3, <1>5, <2>1, OtherMoves, LockQuietStep DEF LockInv
<1>6. ASSUME NEW t \in Thread, lock_acquire(t)
      PROVE  LockCore'
  BY <1>6, BeginStep, ChainStep, TakeStep, LockSleepStep, HolderStep DEF lock_acquire
<1>7. ASSUME NEW t \in Thread, lock_release(t)
      PROVE  LockCore'
  BY <1>7, ReleaseStep, RefreshStep, ClearStep, LockUpStep, LockYieldStep DEF lock_release
<1>8. ASSUME NEW t \in Thread, NEW l \in Lock, TryTake(t, l)
      PROVE  LockCore'
  BY <1>8, TakeStep
<1>9. LocksNext =>
        \/ Halted \/ OtherStep
        \/ \E t \in Thread : \/ lock_acquire(t) \/ lock_release(t)
                             \/ \E l \in Lock : TryTake(t, l)
  BY DEF LocksNext, LocksStep, OtherStep, Elsewhere, LockInterrupt
<1> QED BY <1>1, <1>2, <1>3, <1>4, <1>5, <1>6, <1>7, <1>8, <1>9 DEF LockInv

-----------------------------------------------------------------------------
(* The theorems that hold wherever the interrupts fall.                    *)

\* The invariant of Threads and that of the locks hold in every state, wherever
\* the interrupts cut into lock_acquire and lock_release.
THEOREM LocksInvariance == LocksSpec => [](IInv /\ LockInv)
<1>1. IInv /\ LockInv /\ [LocksNext]_allVars => (IInv /\ LockInv)'
  BY LockNextInv
<1> QED BY <1>1, LockInitInv, PTL DEF LocksSpec

\* Every step of lock_acquire, lock_try_acquire and lock_release does to the
\* kernel what Threads allows, so every theorem of Threads holds of threads
\* that take locks and donate priorities.
THEOREM LocksRefineThreads == LocksSpec => LocksImplementThreads
<1>1. LocksInit => Init
  BY DEF LocksInit
<1>2. IInv /\ LockInv /\ [LocksNext]_allVars => [Next]_vars
  BY LockNextInv
<1> QED BY <1>1, <1>2, LocksInvariance, PTL DEF LocksSpec, Spec, LocksImplementThreads

\* At most one thread is between sema_down and sema_up of a lock (the assertion
\* of synch.c:222), the semaphore says whether one is, and the owner finds
\* itself in lock->holder.
THEOREM LocksExclude == LocksSpec => []MutualExclusion
<1>1. ASSUME IInv, LockInv
      PROVE  MutualExclusion
  <2>1. LockTypes /\ Exclusive /\ cuts \in 0 .. MaxCuts
    BY <1>1, LockParts
  <2>2. TypeOK
    BY <1>1 DEF IInv, Sound, PcInv, TypeOK
  <2>3. LocksTypeOK
    BY <2>1, <2>2 DEF LocksTypeOK, LockTypes
  <2> QED BY <2>1, <2>3 DEF MutualExclusion, Exclusive
<1> QED BY <1>1, LocksInvariance, PTL

-----------------------------------------------------------------------------
(* Without interrupts inside a lock function.                              *)

\* What setting a priority does to a kernel state.
LEMMA UpdateFields ==
  ASSUME NEW kk \in KernelState, NEW u \in Thread, NEW p \in Priority
  PROVE  LET k2 == thread_update_priority(kk, u, p) IN
         /\ k2.priority = [kk.priority EXCEPT ![u] = p]
         /\ k2.base_priority = kk.base_priority
         /\ k2.current = kk.current
         /\ k2.in_external_intr = kk.in_external_intr
<1> DEFINE q == IF kk.status[u] = "ready"
                THEN list_push_back(list_remove(kk, kk.priority[u], u), p, u) ELSE kk
<1>1. q = kk \/ \E f : q = [kk EXCEPT !.ready_queues = f]
  <2>1. \E f : list_remove(kk, kk.priority[u], u) = [kk EXCEPT !.ready_queues = f]
    BY DEF list_remove
  <2>2. PICK f : list_remove(kk, kk.priority[u], u) = [kk EXCEPT !.ready_queues = f]
    BY <2>1
  <2> DEFINE g == [kk EXCEPT !.ready_queues = f]
  <2>3. \E h : list_push_back(g, p, u) = [g EXCEPT !.ready_queues = h]
    BY DEF list_push_back
  <2>4. \A h : [g EXCEPT !.ready_queues = h] = [kk EXCEPT !.ready_queues = h]
    BY DEF KernelState
  <2> QED BY <2>2, <2>3, <2>4
<1>2. /\ q.priority = kk.priority /\ q.base_priority = kk.base_priority
      /\ q.current = kk.current /\ q.in_external_intr = kk.in_external_intr
      /\ DOMAIN q = DOMAIN kk
  BY <1>1 DEF KernelState
<1>3. thread_update_priority(kk, u, p) = [q EXCEPT !.priority = [q.priority EXCEPT ![u] = p]]
  BY DEF thread_update_priority
<1> HIDE DEF q
<1>4. {"priority", "base_priority", "current", "in_external_intr"} \subseteq DOMAIN q
  BY <1>2 DEF KernelState
<1> QED BY <1>2, <1>3, <1>4

\* And thread_set_priority.
LEMMA SetPriorityFields ==
  ASSUME NEW kk \in KernelState, NEW donated \in BOOLEAN, NEW p \in Priority
  PROVE  LET k2 == SetPriority(kk, donated, p)
             c  == kk.current
         IN  /\ k2.base_priority = [kk.base_priority EXCEPT ![c] = p]
             /\ k2.priority = IF donated /\ p <= kk.priority[c] THEN kk.priority
                              ELSE [kk.priority EXCEPT ![c] = p]
             /\ k2.current = c
             /\ k2.in_external_intr = kk.in_external_intr
<1> DEFINE c == kk.current
           b == [kk EXCEPT !.base_priority[c] = p]
<1>1. c \in Thread /\ kk.base_priority \in [Thread -> Priority]
  BY KernelTypes
<1>2. /\ b \in KernelState /\ b.base_priority = [kk.base_priority EXCEPT ![c] = p]
      /\ b.priority = kk.priority /\ b.current = c
      /\ b.in_external_intr = kk.in_external_intr
  BY <1>1 DEF KernelState
<1>3. SetPriority(kk, donated, p) = IF donated /\ p <= kk.priority[c] THEN b
                                    ELSE thread_update_priority(b, c, p)
  BY DEF SetPriority
<1> HIDE DEF b
<1> QED BY <1>1, <1>2, <1>3, UpdateFields

\* And init_thread.
LEMMA InitThreadFields ==
  ASSUME NEW kk \in KernelState, NEW u \in Thread, NEW p \in Priority
  PROVE  LET k2 == init_thread(kk, u, p) IN
         /\ k2.priority = [kk.priority EXCEPT ![u] = p]
         /\ k2.base_priority = [kk.base_priority EXCEPT ![u] = p]
BY DEF init_thread, KernelState

\* What the steps outside the lock functions do to the priorities.
LEMMA OtherPriorities ==
  ASSUME IInv, LockInv, OtherStep
  PROVE  \/ SamePriorities(k, k')
         \/ \E u \in Thread, p \in Priority : k.status[u] = "free" /\ k' = init_thread(k, u, p)
         \/ /\ at[k.current] = "out"
            /\ \E p \in Priority : k' = SetPriority(k, donations[k.current] # {}, p)
<1>1. Sound(k) /\ k \in KernelState /\ 0 \in Priority
  BY SchedAssumption DEF IInv, Sound, Priority
<1>2. /\ SamePriorities(k, k)
      /\ SamePriorities(k, thread_block(k)) /\ SamePriorities(k, thread_yield(k))
      /\ \A u : SamePriorities(k, thread_unblock(k, u))
      /\ SamePriorities(k, intr_enter(k)) /\ SamePriorities(k, intr_return(k))
      /\ SamePriorities(k, intr_return(thread_tick(k)))
  <2>1. SamePriorities(thread_tick(k), intr_return(thread_tick(k)))
    BY <1>1, InterruptSound, PrioritiesKept
  <2> QED BY <1>1, <2>1, PrioritiesKept DEF SamePriorities
<1>3. \A from, to, t : StartThread(t, from, to) \/ YieldToArg(t, from, to) => SamePriorities(k, k')
  BY <1>2 DEF StartThread, YieldToArg, YieldTo
<1>4. ASSUME NEW t, NEW from, NEW to, NEW entry, NEW p \in Priority,
             CreateThread(t, from, to, p, entry)
      PROVE  \E u \in Thread, q \in Priority : k.status[u] = "free" /\ k' = init_thread(k, u, q)
  BY <1>4 DEF CreateThread
<1>5. ASSUME Boot
      PROVE  SamePriorities(k, k') \/
             \E u \in Thread, p \in Priority : k.status[u] = "free" /\ k' = init_thread(k, u, p)
  <2>1. CASE thread_start
    BY <1>1, <1>3, <1>4, <2>1 DEF thread_start
  <2>2. ASSUME NEW from, WaitForIdle(from)
        PROVE  SamePriorities(k, k')
    BY <1>2, <2>2 DEF WaitForIdle, sema_wait
  <2> QED BY <1>5, <2>1, <2>2 DEF Boot
<1>6. ASSUME NEW t \in Thread, idle(t)
      PROVE  SamePriorities(k, k')
  <2>1. CASE IdleBegins(t)
    BY <1>1, <2>1 DEF IdleBegins, KernelState, SamePriorities
  <2>2. CASE IdleUps(t)
    <3>1. k' = k \/ k' = thread_unblock(k, initial_thread)
      BY <2>2, WakeMain DEF IdleUps
    <3> QED BY <1>2, <3>1
  <2>3. CASE IdleBlocks(t)
    BY <1>2, <2>3 DEF IdleBlocks
  <2> QED BY <1>3, <1>6, <2>1, <2>2, <2>3 DEF idle
<1>7. ASSUME NEW t \in Thread, Elsewhere(t)
      PROVE  \/ SamePriorities(k, k')
             \/ \E u \in Thread, p \in Priority :
                  k.status[u] = "free" /\ k' = init_thread(k, u, p)
             \/ /\ at[k.current] = "out"
                /\ \E p \in Priority : k' = SetPriority(k, donations[k.current] # {}, p)
  <2>1. CASE thread_create(t)
    BY <1>3, <1>4, <2>1, ThreadsAssumption DEF thread_create
  <2>2. CASE Yield(t) \/ YieldIfHigher(t)
    BY <1>2, <2>2 DEF Yield, YieldIfHigher
  <2>3. CASE SetOwnPriority(t) /\ ~YieldIfHigher(t)
    BY <2>3, ThreadsAssumption DEF SetOwnPriority, Runs
  <2> QED BY <1>7, <2>1, <2>2, <2>3 DEF Elsewhere
<1>8. CASE LockInterrupt
  BY <1>2, <1>8 DEF LockInterrupt, IntrEnter, DeviceReturn, TimerReturn
<1> QED BY <1>5, <1>6, <1>7, <1>8 DEF OtherStep

\* Outside a handler interrupts from devices are over after any other step.
LEMMA OtherIntr ==
  ASSUME IInv, LockInv, OtherStep, ~IntrEnter
  PROVE  ~k'.in_external_intr
<1>1. Sound(k) /\ k \in KernelState /\ 0 \in Priority /\ k.current \in Thread
  BY IInvFacts, SchedAssumption DEF IInv, Sound, Priority
<1>2. thread_yield(k).in_external_intr = k.in_external_intr
  BY <1>1, YieldSound
<1>3. \A u : thread_unblock(k, u).in_external_intr = k.in_external_intr
  BY <1>1 DEF thread_unblock, list_push_back, Panic, KernelState
<1>4. Runnable(k) => thread_block(k).in_external_intr = k.in_external_intr
  BY <1>1, BlockSound
<1>5. ASSUME NEW t, NEW from, NEW to, StartThread(t, from, to) \/ YieldToArg(t, from, to)
      PROVE  ~k'.in_external_intr
  BY <1>2, <1>3, <1>5 DEF StartThread, YieldToArg, YieldTo, Runs
<1>6. ASSUME NEW t, NEW from, NEW to, NEW entry, NEW p \in Priority,
             CreateThread(t, from, to, p, entry)
      PROVE  ~k'.in_external_intr
  <2>1. PICK u \in Thread : k.status[u] = "free" /\ k' = init_thread(k, u, p)
    BY <1>6 DEF CreateThread
  <2>2. init_thread(k, u, p).in_external_intr = k.in_external_intr
    BY <1>1, <2>1, InitThreadSound
  <2> QED BY <1>6, <2>1, <2>2 DEF CreateThread, Runs
<1>7. CASE Boot
  <2>1. CASE thread_start
    BY <1>1, <1>5, <1>6, <2>1 DEF thread_start
  <2>2. ASSUME NEW from \in {"boot_down", "boot_recheck"}, WaitForIdle(from)
        PROVE  ~k'.in_external_intr
    <3>1. Runs(initial_thread, from) /\ Runnable(k)
      BY <2>2, BootRunnable DEF WaitForIdle
    <3> QED BY <1>4, <2>2, <3>1 DEF WaitForIdle, sema_wait, Runs
  <2> QED BY <1>7, <2>1, <2>2 DEF Boot
<1>8. ASSUME NEW t \in Thread, idle(t)
      PROVE  ~k'.in_external_intr
  <2>1. CASE IdleBegins(t)
    BY <1>1, <2>1 DEF IdleBegins, KernelState, Runs
  <2>2. CASE IdleUps(t)
    <3>1. k' = k \/ k' = thread_unblock(k, initial_thread)
      BY <2>2, WakeMain DEF IdleUps
    <3> QED BY <1>3, <2>2, <3>1 DEF IdleUps, Runs
  <2>3. CASE IdleBlocks(t)
    <3>1. Runnable(k)
      BY <2>3, PlaceFacts DEF IdleBlocks, Runs, Runnable, BootPc
    <3> QED BY <1>4, <2>3, <3>1 DEF IdleBlocks, Runs
  <2> QED BY <1>5, <1>8, <2>1, <2>2, <2>3 DEF idle
<1>9. ASSUME NEW t \in Thread, Elsewhere(t)
      PROVE  ~k'.in_external_intr
  <2>1. CASE thread_create(t)
    BY <1>5, <1>6, <2>1, ThreadsAssumption DEF thread_create
  <2>2. CASE Yield(t) \/ YieldIfHigher(t)
    BY <1>2, <2>2 DEF Yield, YieldIfHigher, Runs
  <2>3. CASE SetOwnPriority(t) /\ ~YieldIfHigher(t)
    <3>1. PICK p \in Priority : k' = SetPriority(k, donations[t] # {}, p)
      BY <2>3, ThreadsAssumption DEF SetOwnPriority
    <3> QED BY <1>1, <2>3, <3>1, SetPriorityFields DEF SetOwnPriority, Runs
  <2> QED BY <1>9, <2>1, <2>2, <2>3 DEF Elsewhere
<1>10. CASE LockInterrupt
  BY <1>1, <1>10, InterruptSound, ReturnSound DEF LockInterrupt, DeviceReturn, TimerReturn
<1> QED BY <1>7, <1>8, <1>9, <1>10 DEF OtherStep

\* The lock functions run outside handlers, and only two of their steps give
\* up the CPU.
LEMMA LockKernel ==
  ASSUME IInv, LockInv, NEW t \in Thread,
         lock_acquire(t) \/ lock_release(t) \/ \E l \in Lock : TryTake(t, l)
  PROVE  /\ t = k.current
         /\ ~k'.in_external_intr
         /\ ~DownSleep(t) /\ ~UpYield(t) => k'.current = t
         /\ \E a : at' = [at EXCEPT ![t] = a]
         /\ DownSleep(t) \/ UpYield(t) => at'[t] \in {"out", "recheck"}
<1>1. Sound(k) /\ k \in KernelState /\ LockTypes /\ Pointers
  BY LockParts DEF IInv, Sound
<1>2. t = k.current /\ ~k.in_external_intr /\ pc[t] = "run"
  BY DEF lock_acquire, lock_release, AcquireBegin, SetWaiting, PushDonation,
         CompareHolder, DonateHolder, NextLock, ChainLoop, ChainCompare,
         ChainDonate, ChainFollow, DownTake, DownSleep, ClearWaiting, SetHolder, TryTake,
         RemoveDonations, RefreshPriority, UpdateOwn, ClearHolder, LockUp, UpYield, IsAt, Runs
<1>3. \E a : at' = [at EXCEPT ![t] = a]
  <2>1. CASE ChainLoop(t)
    BY <2>1 DEF ChainLoop, To
  <2>2. CASE ~ChainLoop(t)
    BY <2>2
       DEF lock_acquire, lock_release, AcquireBegin, SetWaiting, PushDonation,
           CompareHolder, DonateHolder, NextLock, ChainCompare,
           ChainDonate, ChainFollow, DownTake, DownSleep, ClearWaiting, SetHolder, TryTake,
           RemoveDonations, RefreshPriority, UpdateOwn, ClearHolder, LockUp, UpYield, To
  <2> QED BY <2>1, <2>2
<1>4. DownSleep(t) \/ UpYield(t) => at'[t] \in {"out", "recheck"}
  BY <1>1 DEF DownSleep, UpYield, To, LockTypes
<1>5. (k'.current = t /\ ~k'.in_external_intr) \/ DownSleep(t) \/ UpYield(t)
  <2>1. ASSUME NEW h \in Thread \cup {NULL}, Donate(t, h)
        PROVE  k'.current = t /\ ~k'.in_external_intr
    <3>1. k' = k \/ (h \in Thread /\ k' = thread_update_priority(k, h, priority(t)))
      BY <2>1 DEF Donate
    <3>2. priority(t) \in Priority
      BY <1>1, KernelTypes DEF priority
    <3>3. h \in Thread => /\ thread_update_priority(k, h, priority(t)).current = k.current
                          /\ thread_update_priority(k, h, priority(t)).in_external_intr
                               = k.in_external_intr
      BY <1>1, <3>2, UpdateFields
    <3> QED BY <1>2, <3>1, <3>3
  <2>2. CASE DonateHolder(t)
    <3>1. on[t] \in Lock
      BY <2>2, AtFacts DEF DonateHolder
    <3>2. holder[on[t]] \in Thread \cup {NULL}
      BY <1>1, <3>1 DEF LockTypes
    <3> QED BY <2>1, <2>2, <3>2 DEF DonateHolder
  <2>3. CASE ChainDonate(t)
    <3>1. ptr[t] \in Thread
      BY <1>1, <2>3 DEF ChainDonate, IsAt, Pointers
    <3> QED BY <2>1, <2>3, <3>1 DEF ChainDonate
  <2>4. CASE UpdateOwn(t)
    <3>1. new_priority[t] \in Priority
      BY <1>1 DEF LockTypes
    <3>2. /\ thread_update_priority(k, t, new_priority[t]).current = k.current
          /\ thread_update_priority(k, t, new_priority[t]).in_external_intr = k.in_external_intr
      BY <1>1, <3>1, UpdateFields
    <3> QED BY <1>2, <2>4, <3>2 DEF UpdateOwn
  <2>5. CASE LockUp(t)
    <3>1. k' = k \/ \E u : k' = thread_unblock(k, u)
      BY <2>5 DEF LockUp, sema_up
    <3>2. \A u : /\ thread_unblock(k, u).in_external_intr = k.in_external_intr
                 /\ thread_unblock(k, u).current = k.current
      BY <1>1 DEF thread_unblock, list_push_back, Panic, KernelState
    <3> QED BY <1>2, <3>1, <3>2
  <2>6. k' = k => k'.current = t /\ ~k'.in_external_intr
    BY <1>2
  <2> QED BY <2>2, <2>3, <2>4, <2>5, <2>6
          DEF lock_acquire, lock_release, AcquireBegin, SetWaiting, PushDonation,
              CompareHolder, NextLock, ChainLoop, ChainCompare,
              ChainFollow, DownTake, ClearWaiting, SetHolder, TryTake,
              RemoveDonations, RefreshPriority, ClearHolder, vars
<1>6. DownSleep(t) \/ UpYield(t) => ~k'.in_external_intr
  <2>1. Runnable(k)
    BY <1>2, PlaceFacts DEF Runnable, BootPc
  <2>2. k' \in {k, thread_block(k), thread_yield(k)} \/ ~(DownSleep(t) \/ UpYield(t))
    BY DEF DownSleep, Block, UpYield, YieldTo
  <2> QED BY <1>1, <1>2, <2>1, <2>2, BlockSound, YieldSound
<1> QED BY <1>2, <1>3, <1>4, <1>5, <1>6

\* A lock that names a holder is held by it.
LEMMA HolderFacts ==
  ASSUME LockInv, OneInside, at[k.current] \notin Clearing,
         NEW l \in Lock, holder[l] # NULL
  PROVE  holder[l] \in Thread /\ l \in owns[holder[l]]
<1>1. holder[l] \in Thread /\ HolderOwns
  BY LockParts DEF LockTypes
<1> QED BY <1>1 DEF HolderOwns, OneInside, Clearing

\* A donor is in lock_acquire of a lock that the thread it donates to holds.
LEMMA DonorFacts ==
  ASSUME LockInv, DonorsWait, NEW t \in Thread, NEW d \in donations[t]
  PROVE  /\ d \in Thread
         /\ waiting_lock[d] \in owns[t] /\ waiting_lock[d] \in Lock
         /\ waiting_lock[d] = on[d] /\ at[d] \in Waits
         /\ holder[waiting_lock[d]] = t
<1>1. LockTypes /\ WaitingSet /\ Exclusive /\ NULL \notin Lock
  BY LockParts, LocksAssumption
<1>2. d \in Thread
  BY <1>1 DEF LockTypes
<1>3. waiting_lock[d] \in owns[t] /\ waiting_lock[d] \in Lock
  BY <1>1, <1>2 DEF DonorsWait, LockTypes
<1> QED BY <1>1, <1>2, <1>3 DEF WaitingSet, Exclusive

\* The rest of the system runs only while every thread is out of the lock
\* functions or asleep there.
LEMMA OtherOutside ==
  ASSUME IInv, LockInv, OneInside, OtherStep, cuts = 0, cuts' = 0
  PROVE  /\ at[k.current] = "out"
         /\ \A t \in Thread : at[t] \in {"out", "recheck"}
<1>1. LockPlaces /\ k.current \in Thread /\ initial_thread \in Thread
  BY LockParts, IInvFacts
<1>2. at[k.current] = "out"
  <2>1. CASE Boot
    <3>1. k.current = initial_thread /\ pc[initial_thread] \notin {"run", "waiting"}
      BY <2>1 DEF Boot, thread_start, CreateThread, StartThread, YieldToArg, WaitForIdle, Runs
    <3> QED BY <1>1, <3>1 DEF LockPlaces
  <2>2. ASSUME NEW t \in Thread, idle(t)
        PROVE  at[k.current] = "out"
    <3>1. k.current = t /\ pc[t] \notin {"run", "waiting"}
      BY <2>2 DEF idle, IdleBegins, IdleUps, YieldToArg, IdleBlocks, Runs
    <3> QED BY <1>1, <3>1 DEF LockPlaces
  <2>3. ASSUME NEW t \in Thread, Elsewhere(t)
        PROVE  at[k.current] = "out"
    BY <2>3 DEF Elsewhere, thread_create, SetOwnPriority, YieldIfHigher, Yield,
                CreateThread, StartThread, YieldToArg, Runs
  <2>4. CASE LockInterrupt
    <3>1. CASE DeviceReturn \/ TimerReturn
      BY <3>1 DEF DeviceReturn, TimerReturn, InHandler, OneInside
    <3>2. CASE ~(DeviceReturn \/ TimerReturn)
      BY <2>4, <3>2 DEF LockInterrupt, InSynch
    <3> QED BY <3>1, <3>2
  <2> QED BY <2>1, <2>2, <2>3, <2>4 DEF OtherStep
<1> QED BY <1>1, <1>2 DEF OneInside

\* Only the running thread is in the middle of a lock function.
LEMMA OneInsideStep ==
  ASSUME IInv, LockInv, OneInside, LocksNext, cuts = 0, cuts' = 0
  PROVE  OneInside'
<1>1. LockTypes
  BY LockParts
<1>2. CASE Halted
  BY <1>2 DEF Halted, allVars, vars, lockVars, OneInside
<1>3. CASE OtherStep
  <2>1. at' = at /\ \A t \in Thread : at[t] \in {"out", "recheck"}
    BY <1>3, OtherOutside DEF OtherStep, lockVars
  <2>2. k'.in_external_intr => k'.current = k.current
    <3>1. ~IntrEnter => ~k'.in_external_intr
      BY <1>3, OtherIntr
    <3>2. IntrEnter => k'.current = k.current
      BY InterruptSound DEF IntrEnter, IInv
    <3> QED BY <3>1, <3>2
  <2>3. at[k.current] = "out"
    BY <1>3, OtherOutside
  <2> QED BY <2>1, <2>2, <2>3 DEF OneInside
<1>4. ASSUME NEW t \in Thread,
             lock_acquire(t) \/ lock_release(t) \/ \E l \in Lock : TryTake(t, l)
      PROVE  OneInside'
  <2>1. /\ t = k.current /\ ~k'.in_external_intr
        /\ ~DownSleep(t) /\ ~UpYield(t) => k'.current = t
        /\ DownSleep(t) \/ UpYield(t) => at'[t] \in {"out", "recheck"}
    BY <1>4, LockKernel
  <2>2. \A u \in Thread \ {t} : at'[u] = at[u]
    <3>1. PICK a : at' = [at EXCEPT ![t] = a]
      BY <1>4, LockKernel
    <3> QED BY <1>1, <3>1 DEF LockTypes
  <2> QED BY <2>1, <2>2 DEF OneInside
<1>5. \/ Halted \/ OtherStep
      \/ \E t \in Thread : \/ lock_acquire(t) \/ lock_release(t)
                           \/ \E l \in Lock : TryTake(t, l)
  BY DEF LocksNext, LocksStep, OtherStep, Elsewhere, LockInterrupt
<1> QED BY <1>2, <1>3, <1>4, <1>5

\* A thread that goes inside, or on to another place there, leaves the donors
\* as they are, and so does the rest of the system.
LEMMA DonorsWaitStep ==
  ASSUME IInv, LockInv, OneInside, DonorsWait, LocksNext
  PROVE  DonorsWait'
<1>1. /\ LockTypes /\ LockPlaces /\ WaitingSet /\ Exclusive
      /\ NULL \notin Lock /\ NULL \notin Thread
  BY LockParts, LocksAssumption, SchedAssumption
<1>2. CASE UNCHANGED <<donations, waiting_lock, owns>>
  BY <1>2 DEF DonorsWait
<1>3. ASSUME NEW t \in Thread, SetWaiting(t)
      PROVE  DonorsWait'
  <2>1. /\ at[t] = "wait" /\ waiting_lock' = [waiting_lock EXCEPT ![t] = on[t]]
        /\ donations' = donations /\ owns' = owns
    BY <1>3 DEF SetWaiting, IsAt
  <2>2. \A x \in Thread : t \notin donations[x]
    BY <1>1, <2>1, DonorFacts DEF Waits, Walking
  <2> QED BY <1>1, <2>1, <2>2 DEF DonorsWait, LockTypes
<1>4. ASSUME NEW t \in Thread, PushDonation(t)
      PROVE  DonorsWait'
  <2> DEFINE h == holder[on[t]]
  <2>1. /\ at[t] = "push" /\ t = k.current /\ on[t] \in Lock
        /\ waiting_lock' = waiting_lock /\ owns' = owns
        /\ donations' = IF h = NULL THEN donations ELSE [donations EXCEPT ![h] = @ \cup {t}]
    BY <1>4, AtFacts DEF PushDonation
  <2>2. waiting_lock[t] = on[t]
    BY <1>1, <2>1 DEF WaitingSet
  <2>3. CASE h = NULL
    BY <2>1, <2>3 DEF DonorsWait
  <2>4. CASE h # NULL
    <3>1. h \in Thread /\ on[t] \in owns[h]
      BY <2>1, <2>4, HolderFacts DEF Clearing
    <3>2. \A x, d \in Thread : d \in donations'[x] => d \in donations[x] \/ (x = h /\ d = t)
      BY <1>1, <2>1, <2>4, <3>1 DEF LockTypes
    <3> QED BY <2>1, <2>2, <3>1, <3>2 DEF DonorsWait
  <2> QED BY <2>3, <2>4
<1>5. ASSUME NEW t \in Thread, ClearWaiting(t)
      PROVE  DonorsWait'
  <2>1. /\ at[t] = "got" /\ waiting_lock' = [waiting_lock EXCEPT ![t] = NULL]
        /\ donations' = donations /\ owns' = owns
    BY <1>5 DEF ClearWaiting, IsAt
  <2>2. ASSUME NEW x \in Thread, t \in donations[x]
        PROVE  FALSE
    <3>1. on[t] \in owns[x] /\ on[t] \in Lock
      BY <2>2, DonorFacts
    <3>2. x \in Inside(on[t]) /\ t \in Inside(on[t])
      BY <2>1, <3>1 DEF Inside
    <3>3. x = t
      BY <1>1, <3>1, <3>2 DEF Exclusive
    <3> QED BY <1>1, <3>1, <3>3 DEF LockPlaces
  <2> QED BY <1>1, <2>1, <2>2 DEF DonorsWait, LockTypes
<1>6. ASSUME NEW t \in Thread, SetHolder(t)
      PROVE  DonorsWait'
  <2>1. /\ owns' = [owns EXCEPT ![t] = @ \cup {on[t]}]
        /\ waiting_lock' = waiting_lock /\ donations' = donations
    BY <1>6 DEF SetHolder
  <2> QED BY <1>1, <2>1 DEF DonorsWait, LockTypes
<1>7. ASSUME NEW t \in Thread, NEW l \in Lock, RemoveDonations(t, l)
      PROVE  DonorsWait'
  <2>1. /\ owns' = [owns EXCEPT ![t] = @ \ {l}]
        /\ waiting_lock' = waiting_lock
        /\ donations' = [donations EXCEPT ![t] = {d \in @ : waiting_lock[d] # l}]
    BY <1>7 DEF RemoveDonations
  <2>2. /\ owns'[t] = owns[t] \ {l}
        /\ donations'[t] = {d \in donations[t] : waiting_lock[d] # l}
        /\ \A x \in Thread \ {t} : owns'[x] = owns[x] /\ donations'[x] = donations[x]
    BY <1>1, <2>1 DEF LockTypes
  <2> QED BY <2>1, <2>2 DEF DonorsWait
<1> QED BY <1>2, <1>3, <1>4, <1>5, <1>6, <1>7
        DEF LocksNext, LocksStep, LockInterrupt, Halted, Elsewhere, lock_acquire, lock_release,
            AcquireBegin, CompareHolder, DonateHolder, NextLock, ChainLoop, ChainCompare,
            ChainDonate, ChainFollow, DownTake, DownSleep, TryTake, RefreshPriority,
            UpdateOwn, ClearHolder, LockUp, UpYield, lockVars, allVars

\* Every thread has at least the priority of its donors.
AllHeard == \A t, d \in Thread : d \in donations[t] => priority(d) <= priority(t)

\* Nothing is owed while the running thread does not walk along the chain.
LEMMA HeardAtRest ==
  ASSUME Heard, at[k.current] \notin Walking
  PROVE  AllHeard
BY DEF Heard, AllHeard, Owed, Walking

\* And that is enough at a place where it does not.
LEMMA RestIsHeard ==
  ASSUME OneInside', AllHeard', at'[k'.current] \notin {"donate", "chain", "update"}
  PROVE  Heard'
BY DEF OneInside, AllHeard, Heard

\* Heard, after a step of the running thread t along the chain.
LEMMA HeardFrom ==
  ASSUME NEW t \in Thread, k'.current = t, OneInside', at'[t] # "update",
         \A x, d \in Thread : d \in donations'[x] =>
           \/ k'.priority[d] <= k'.priority[x]
           \/ Owed(x, d)' /\ k'.priority[d] <= k'.priority[t],
         at'[t] = "donate" /\ holder'[on'[t]] # NULL =>
           k'.priority[holder'[on'[t]]] < k'.priority[t],
         at'[t] = "chain" => k'.priority[ptr'[t]] < k'.priority[t]
  PROVE  Heard'
BY DEF OneInside, Heard, priority

\* What a thread that walks along the chain knows.
LEMMA WalkFacts ==
  ASSUME IInv, LockInv, NEW t \in Thread, NEW place, place # "out", IsAt(t, place)
  PROVE  /\ t = k.current /\ at[t] = place /\ on[t] \in Lock
         /\ holder[on[t]] \in Thread \cup {NULL}
         /\ \A u \in Thread : k.priority[u] \in Nat
         /\ NULL \notin Thread /\ NULL \notin Lock
         /\ LockTypes /\ Pointers
<1>1. t = k.current /\ at[t] = place /\ on[t] \in Lock
  BY AtFacts
<1>2. LockTypes /\ Pointers
  BY LockParts
<1>3. \A u \in Thread : k.priority[u] \in Nat
  BY IInvFacts, KernelTypes, SchedAssumption DEF Priority
<1> QED BY <1>1, <1>2, <1>3, SchedAssumption, LocksAssumption DEF LockTypes

\* The thread that raises a holder's priority still owes the holder's own
\* donation, and that one only.
LEMMA HeardDonate ==
  ASSUME IInv, LockInv, OneInside', NEW t \in Thread, Heard,
         NEW h \in Thread, k.priority[h] < k.priority[t], Donate(t, h),
         t = k.current, at'[t] \in {"next", "follow"},
         \A x, d \in Thread : Owed(x, d) => x = h,
         \A x \in Thread : Owed(x, h)',
         donations' = donations
  PROVE  Heard'
<1>1. k \in KernelState /\ \A u \in Thread : k.priority[u] \in Nat
  BY IInvFacts, KernelTypes, SchedAssumption DEF Priority
<1>2. /\ k'.priority = [k.priority EXCEPT ![h] = k.priority[t]]
      /\ k'.current = t
  <2>1. k' = thread_update_priority(k, h, k.priority[t])
    BY SchedAssumption DEF Donate, priority
  <2>2. k.priority[t] \in Priority
    BY <1>1, KernelTypes
  <2> QED BY <1>1, <2>1, <2>2, UpdateFields
<1>3. /\ k'.priority[h] = k.priority[t]
      /\ \A u \in Thread \ {h} : k'.priority[u] = k.priority[u]
      /\ k'.priority[t] = k.priority[t] /\ t # h
  BY <1>1, <1>2, KernelTypes
<1>4. ASSUME NEW x \in Thread, NEW d \in Thread, d \in donations'[x]
      PROVE  \/ k'.priority[d] <= k'.priority[x]
             \/ Owed(x, d)' /\ k'.priority[d] <= k'.priority[t]
  <2>1. CASE d = h
    BY <1>1, <1>3, <2>1
  <2>2. CASE d # h
    <3>1. \/ k.priority[d] <= k.priority[x]
          \/ x = h /\ k.priority[d] <= k.priority[t]
      BY <1>4 DEF Heard, priority
    <3>2. k'.priority[d] = k.priority[d]
      BY <1>3, <2>2
    <3>3. k'.priority[x] >= k.priority[x] /\ (x = h => k'.priority[x] = k.priority[t])
      BY <1>1, <1>3
    <3>4. k'.priority[d] \in Nat /\ k'.priority[x] \in Nat /\ k.priority[x] \in Nat
          /\ k.priority[t] \in Nat
      BY <1>1, <1>3
    <3> QED BY <3>1, <3>2, <3>3, <3>4
  <2> QED BY <2>1, <2>2
<1>5. at'[t] \notin {"update", "donate", "chain"}
  OBVIOUS
<1> QED BY <1>2, <1>4, <1>5, HeardFrom

\* The steps along the chain of holders.
LEMMA HeardWalk ==
  ASSUME IInv, LockInv, OneInside', DonorsWait, Heard, NEW t \in Thread,
         \/ PushDonation(t) \/ CompareHolder(t) \/ DonateHolder(t) \/ NextLock(t)
         \/ ChainLoop(t) \/ ChainCompare(t) \/ ChainDonate(t) \/ ChainFollow(t)
  PROVE  Heard'
<1> DEFINE h == holder[on[t]]
           Pair(x, d) == \/ k'.priority[d] <= k'.priority[x]
                         \/ Owed(x, d)' /\ k'.priority[d] <= k'.priority[t]
<1>1. CASE PushDonation(t)
  <2>1. /\ t = k.current /\ at[t] = "push" /\ h \in Thread \cup {NULL} /\ LockTypes
        /\ \A u \in Thread : k.priority[u] \in Nat
        /\ NULL \notin Thread
    BY <1>1, WalkFacts DEF PushDonation
  <2>2. /\ k' = k /\ at'[t] = "compare" /\ on' = on /\ holder' = holder
        /\ donations' = IF h = NULL THEN donations ELSE [donations EXCEPT ![h] = @ \cup {t}]
    BY <1>1, <2>1 DEF PushDonation, To, vars, LockTypes
  <2>3. AllHeard
    BY <2>1, HeardAtRest DEF Walking
  <2>4. ASSUME NEW x \in Thread, NEW d \in Thread, d \in donations'[x]
        PROVE  Pair(x, d)
    <3>1. d \in donations[x] \/ (x = h /\ d = t)
      BY <2>1, <2>2, <2>4 DEF LockTypes
    <3>2. CASE d \in donations[x]
      BY <2>2, <2>3, <3>2 DEF AllHeard, priority
    <3>3. CASE x = h /\ d = t
      BY <2>1, <2>2, <3>3 DEF Owed
    <3> QED BY <3>1, <3>2, <3>3
  <2> QED BY <2>1, <2>2, <2>4, HeardFrom
<1>2. CASE CompareHolder(t)
  <2> DEFINE b == IF h # NULL /\ priority(h) < priority(t) THEN "donate" ELSE "next"
  <2>1. /\ t = k.current /\ at[t] = "compare" /\ h \in Thread \cup {NULL} /\ LockTypes
        /\ \A u \in Thread : k.priority[u] \in Nat
        /\ NULL \notin Thread
    BY <1>2, WalkFacts DEF CompareHolder
  <2>2. /\ k' = k /\ on' = on /\ holder' = holder /\ donations' = donations
        /\ at' = [at EXCEPT ![t] = b]
    BY <1>2 DEF CompareHolder, To, vars
  <2>3. at'[t] = b
    BY <2>1, <2>2 DEF LockTypes
  <2>4. \/ b = "donate" /\ h # NULL /\ priority(h) < priority(t)
        \/ b = "next" /\ (h # NULL => ~(priority(h) < priority(t)))
    OBVIOUS
  <2> HIDE DEF b
  <2>5. ASSUME NEW x \in Thread, NEW d \in Thread, d \in donations'[x]
        PROVE  Pair(x, d)
    <3>1. \/ k.priority[d] <= k.priority[x]
          \/ d = t /\ x = h /\ k.priority[d] <= k.priority[t]
      BY <2>1, <2>2, <2>5 DEF Heard, Owed, priority
    <3>2. CASE k.priority[d] <= k.priority[x]
      BY <2>2, <3>2
    <3>3. CASE d = t /\ x = h /\ b = "donate"
      BY <2>1, <2>2, <2>3, <3>3 DEF Owed
    <3>4. CASE d = t /\ x = h /\ b # "donate"
      BY <2>1, <2>2, <2>4, <3>4 DEF priority
    <3> QED BY <3>1, <3>2, <3>3, <3>4
  <2> QED BY <2>1, <2>2, <2>3, <2>4, <2>5, HeardFrom DEF priority
<1>3. CASE DonateHolder(t)
  <2>1. /\ t = k.current /\ at[t] = "donate" /\ h \in Thread \cup {NULL} /\ LockTypes
        /\ \A u \in Thread : k.priority[u] \in Nat
        /\ NULL \notin Thread
    BY <1>3, WalkFacts DEF DonateHolder
  <2>2. /\ Donate(t, h) /\ on' = on /\ holder' = holder /\ donations' = donations
        /\ at'[t] = "next"
    BY <1>3, <2>1 DEF DonateHolder, To, LockTypes
  <2>3. CASE h = NULL
    <3>1. k' = k
      BY <2>2, <2>3 DEF Donate
    <3>2. \A x, d \in Thread : d \in donations'[x] => Pair(x, d)
      BY <2>1, <2>2, <2>3, <3>1 DEF Heard, Owed, priority
    <3> QED BY <2>1, <2>2, <3>1, <3>2, HeardFrom
  <2>4. CASE h # NULL
    <3>1. k.priority[h] < k.priority[t] /\ h \in Thread
      BY <2>1, <2>4 DEF Heard, priority
    <3>2. \A x, d \in Thread : Owed(x, d) => x = h
      BY <2>1 DEF Owed
    <3>3. k'.current = t
      <4>1. k' = thread_update_priority(k, h, k.priority[t])
        BY <2>2, <2>4 DEF Donate, priority
      <4>2. k \in KernelState /\ k.priority[t] \in Priority
        BY IInvFacts, KernelTypes
      <4> QED BY <2>1, <3>1, <4>1, <4>2, UpdateFields
    <3>4. \A x \in Thread : Owed(x, h)'
      BY <2>2, <3>3 DEF Owed
    <3> QED BY <2>1, <2>2, <3>1, <3>2, <3>4, HeardDonate
  <2> QED BY <2>3, <2>4
<1>4. CASE NextLock(t)
  <2>1. /\ t = k.current /\ at[t] = "next" /\ h \in Thread \cup {NULL} /\ LockTypes
        /\ NULL \notin Thread
    BY <1>4, WalkFacts DEF NextLock
  <2>2. /\ k' = k /\ donations' = donations /\ waiting_lock' = waiting_lock
        /\ at'[t] = "loop" /\ ptr'[t] = IF h = NULL THEN NULL ELSE waiting_lock[h]
    BY <1>4, <2>1 DEF NextLock, To, Point, vars, LockTypes
  <2>3. \A x, d \in Thread : d \in donations'[x] => Pair(x, d)
    BY <2>1, <2>2 DEF Heard, Owed, priority
  <2> QED BY <2>1, <2>2, <2>3, HeardFrom
<1>5. CASE ChainLoop(t)
  <2>1. /\ t = k.current /\ at[t] = "loop" /\ LockTypes /\ ptr[t] \in Lock \cup {NULL}
        /\ NULL \notin Thread /\ NULL \notin Lock
    <3>1. IsAt(t, "loop")
      BY <1>5 DEF ChainLoop
    <3> QED BY <3>1, WalkFacts DEF Pointers
  <2>2. /\ k' = k /\ donations' = donations /\ waiting_lock' = waiting_lock
        /\ IF ptr[t] = NULL THEN at'[t] = "down"
           ELSE at'[t] = "holder" /\ ptr'[t] = holder[ptr[t]]
    BY <1>5, <2>1 DEF ChainLoop, To, Point, vars, LockTypes
  <2>3. ASSUME NEW x \in Thread, NEW d \in Thread, d \in donations'[x]
        PROVE  Pair(x, d)
    <3>1. \/ k.priority[d] <= k.priority[x]
          \/ waiting_lock[d] = ptr[t] /\ k.priority[d] <= k.priority[t]
      BY <2>1, <2>2, <2>3 DEF Heard, Owed, priority
    <3>2. waiting_lock[d] \in Lock /\ holder[waiting_lock[d]] = x
      BY <2>2, <2>3, DonorFacts
    <3> QED BY <2>1, <2>2, <3>1, <3>2 DEF Owed
  <2>4. at'[t] \notin {"update", "donate", "chain"}
    BY <2>2
  <2> QED BY <2>1, <2>2, <2>3, <2>4, HeardFrom
<1>6. CASE ChainCompare(t)
  <2> DEFINE b == IF ptr[t] # NULL /\ priority(ptr[t]) < priority(t) THEN "chain" ELSE "follow"
  <2>1. /\ t = k.current /\ at[t] = "holder" /\ LockTypes
        /\ ptr[t] \in Thread \cup {NULL}
        /\ \A u \in Thread : k.priority[u] \in Nat
        /\ NULL \notin Thread
    <3>1. IsAt(t, "holder")
      BY <1>6 DEF ChainCompare
    <3> QED BY <3>1, WalkFacts DEF Pointers
  <2>2. /\ k' = k /\ ptr' = ptr /\ donations' = donations
        /\ at' = [at EXCEPT ![t] = b]
    BY <1>6 DEF ChainCompare, To, vars
  <2>3. at'[t] = b
    BY <2>1, <2>2 DEF LockTypes
  <2>4. \/ b = "chain" /\ ptr[t] # NULL /\ priority(ptr[t]) < priority(t)
        \/ b = "follow" /\ (ptr[t] # NULL => ~(priority(ptr[t]) < priority(t)))
    OBVIOUS
  <2> HIDE DEF b
  <2>5. ASSUME NEW x \in Thread, NEW d \in Thread, d \in donations'[x]
        PROVE  Pair(x, d)
    <3>1. \/ k.priority[d] <= k.priority[x]
          \/ x = ptr[t] /\ k.priority[d] <= k.priority[t]
      BY <2>1, <2>2, <2>5 DEF Heard, Owed, priority
    <3>2. CASE k.priority[d] <= k.priority[x]
      BY <2>2, <3>2
    <3>3. CASE x = ptr[t] /\ b = "chain" /\ k.priority[d] <= k.priority[t]
      BY <2>1, <2>2, <2>3, <3>3 DEF Owed
    <3>4. CASE x = ptr[t] /\ b # "chain" /\ k.priority[d] <= k.priority[t]
      BY <2>1, <2>2, <2>4, <3>4 DEF priority
    <3> QED BY <3>1, <3>2, <3>3, <3>4
  <2>6. at'[t] \notin {"update", "donate"}
    BY <2>3, <2>4
  <2> QED BY <2>1, <2>2, <2>3, <2>4, <2>5, <2>6, HeardFrom DEF priority
<1>7. CASE ChainDonate(t)
  <2>1. /\ t = k.current /\ at[t] = "chain" /\ LockTypes /\ ptr[t] \in Thread
    <3>1. IsAt(t, "chain")
      BY <1>7 DEF ChainDonate
    <3> QED BY <3>1, WalkFacts DEF Pointers
  <2>2. /\ Donate(t, ptr[t]) /\ ptr' = ptr /\ donations' = donations
        /\ at'[t] = "follow"
    BY <1>7, <2>1 DEF ChainDonate, To, LockTypes
  <2>3. k.priority[ptr[t]] < k.priority[t]
    BY <2>1 DEF Heard, priority
  <2>4. \A x, d \in Thread : Owed(x, d) => x = ptr[t]
    BY <2>1 DEF Owed
  <2>5. k'.current = t
    <3>1. k' = thread_update_priority(k, ptr[t], k.priority[t])
      BY <2>1, <2>2, SchedAssumption DEF Donate, priority
    <3>2. k \in KernelState /\ k.priority[t] \in Priority
      BY IInvFacts, KernelTypes
    <3> QED BY <2>1, <3>1, <3>2, UpdateFields
  <2>6. \A x \in Thread : Owed(x, ptr[t])'
    <3>1. ptr'[t] = ptr[t]
      BY <2>2
    <3> QED BY <2>2, <2>5, <3>1 DEF Owed
  <2> QED BY <2>1, <2>2, <2>3, <2>4, <2>6, HeardDonate
<1>8. CASE ChainFollow(t)
  <2>1. /\ t = k.current /\ at[t] = "follow" /\ LockTypes
    BY <1>8, WalkFacts DEF ChainFollow
  <2>2. /\ k' = k /\ donations' = donations /\ waiting_lock' = waiting_lock
        /\ at'[t] = "loop" /\ ptr'[t] = waiting_lock[ptr[t]]
    BY <1>8, <2>1 DEF ChainFollow, To, Point, vars, LockTypes
  <2>3. \A x, d \in Thread : d \in donations'[x] => Pair(x, d)
    BY <2>1, <2>2 DEF Heard, Owed, priority
  <2> QED BY <2>1, <2>2, <2>3, HeardFrom
<1> QED BY <1>1, <1>2, <1>3, <1>4, <1>5, <1>6, <1>7, <1>8

\* The steps that change no priority and give nobody a new donor.
LEMMA HeardQuiet ==
  ASSUME IInv, LockInv, OneInside, OneInside', Heard, NEW t \in Thread,
         \/ \E l \in Lock : AcquireBegin(t, l) \/ TryTake(t, l) \/ RemoveDonations(t, l)
         \/ SetWaiting(t) \/ DownTake(t) \/ DownSleep(t) \/ ClearWaiting(t)
         \/ SetHolder(t) \/ ClearHolder(t) \/ LockUp(t) \/ UpYield(t)
  PROVE  Heard'
<1>1. Sound(k) /\ LockTypes
  BY LockParts DEF IInv
<1>2. t = k.current /\ at[t] \notin Walking
  BY DEF AcquireBegin, TryTake, RemoveDonations, SetWaiting, DownTake, DownSleep,
         ClearWaiting, SetHolder, ClearHolder, LockUp, UpYield, IsAt, Runs, Walking
<1>3. k'.priority = k.priority
  <2>1. \/ k' \in {k, thread_block(k), thread_yield(k)} \/ \E u : k' = thread_unblock(k, u)
    BY DEF AcquireBegin, TryTake, RemoveDonations, SetWaiting, DownTake, DownSleep, Block,
           ClearWaiting, SetHolder, ClearHolder, LockUp, sema_up, UpYield, YieldTo, vars
  <2> QED BY <1>1, <2>1, PrioritiesKept DEF SamePriorities
<1>4. \A x, d \in Thread : d \in donations'[x] => d \in donations[x]
  <2>1. \/ donations' = donations
        \/ \E l : donations' = [donations EXCEPT ![t] = {d \in @ : waiting_lock[d] # l}]
    BY DEF AcquireBegin, TryTake, RemoveDonations, SetWaiting, DownTake, DownSleep,
           ClearWaiting, SetHolder, ClearHolder, LockUp, UpYield
  <2> QED BY <1>1, <2>1 DEF LockTypes
<1>5. AllHeard'
  BY <1>2, <1>3, <1>4, HeardAtRest DEF AllHeard, priority
<1>6. at'[k'.current] \notin {"donate", "chain", "update"}
  <2>1. at'[t] \notin {"donate", "chain", "update"}
    BY <1>1 DEF AcquireBegin, TryTake, RemoveDonations, SetWaiting, DownTake, DownSleep,
                ClearWaiting, SetHolder, ClearHolder, LockUp, UpYield, To, LockTypes
  <2>2. \A u \in Thread \ {t} : at'[u] = at[u]
    BY <1>1 DEF AcquireBegin, TryTake, RemoveDonations, SetWaiting, DownTake, DownSleep,
                ClearWaiting, SetHolder, ClearHolder, LockUp, UpYield, To, LockTypes
  <2>3. k'.current \in Thread
    <3>1. lock_acquire(t) \/ lock_release(t) \/ \E l \in Lock : TryTake(t, l)
      BY DEF lock_acquire, lock_release
    <3>2. Next \/ UNCHANGED vars
      BY <3>1, AcquireIsThreads, ReleaseIsThreads DEF TryTake
    <3>3. IInv'
      BY <3>2, NextIInv
    <3> QED BY <3>3 DEF IInv, Sound, KernelState
  <2> QED BY <1>2, <2>1, <2>2, <2>3 DEF OneInside
<1> QED BY <1>5, <1>6, RestIsHeard

\* refresh_priority: the new priority is at least that of every donor, and
\* the thread that takes it is a donor to nobody.
LEMMA HeardRefresh ==
  ASSUME IInv, LockInv, OneInside', DonorsWait, Heard, NEW t \in Thread,
         RefreshPriority(t) \/ UpdateOwn(t)
  PROVE  Heard'
<1>1. /\ LockTypes /\ k \in KernelState
      /\ \A u \in Thread : k.priority[u] \in Nat
  BY LockParts, IInvFacts, KernelTypes, SchedAssumption DEF Priority
<1>2. t = k.current /\ at[t] \in {"refresh", "update"}
  BY DEF RefreshPriority, UpdateOwn, IsAt, Runs
<1>3. AllHeard /\ donations' = donations
  BY <1>2, HeardAtRest DEF Walking, RefreshPriority, UpdateOwn
<1>4. CASE RefreshPriority(t)
  <2>1. k' = k /\ at'[t] = "update" /\ new_priority'[t] = Effective(t)
    BY <1>1, <1>4 DEF RefreshPriority, To, vars, LockTypes
  <2>2. AllHeard'
    BY <1>3, <2>1 DEF AllHeard, priority
  <2>3. \A d \in donations[t] : priority(d) <= Effective(t)
    BY <1>1, EffectiveFacts
  <2>4. \A u \in Thread : at'[u] = "update" => u = t
    BY <1>2, <2>1 DEF OneInside
  <2>5. (\A u \in Thread : at[u] = "update" =>
           \A d \in donations[u] : priority(d) <= new_priority[u])'
    BY <1>3, <2>1, <2>3, <2>4 DEF priority
  <2> QED BY <1>2, <2>1, <2>2, <2>5 DEF Heard, AllHeard
<1>5. CASE UpdateOwn(t)
  <2>1. at[t] = "update" /\ at'[t] = "clear" /\ new_priority[t] \in Priority
        /\ k' = thread_update_priority(k, t, new_priority[t])
    BY <1>1, <1>5 DEF UpdateOwn, To, IsAt, LockTypes
  <2>2. k'.priority = [k.priority EXCEPT ![t] = new_priority[t]] /\ k'.current = t
    BY <1>1, <1>2, <2>1, UpdateFields
  <2>3. /\ k'.priority[t] = new_priority[t]
        /\ \A u \in Thread \ {t} : k'.priority[u] = k.priority[u]
    BY <1>1, <2>2, KernelTypes
  <2>4. \A x \in Thread : t \notin donations[x]
    BY <2>1, DonorFacts DEF Waits, Walking
  <2>5. AllHeard'
    <3>1. ASSUME NEW x \in Thread, NEW d \in Thread, d \in donations[x]
          PROVE  k'.priority[d] <= k'.priority[x]
      <4>1. d # t
        BY <2>4, <3>1
      <4>2. CASE x = t
        BY <2>1, <2>3, <3>1, <4>1, <4>2 DEF Heard, priority
      <4>3. CASE x # t
        BY <1>3, <2>3, <3>1, <4>1, <4>3 DEF AllHeard, priority
      <4> QED BY <4>2, <4>3
    <3> QED BY <1>3, <3>1 DEF AllHeard, priority
  <2> QED BY <2>1, <2>2, <2>5, RestIsHeard
<1> QED BY <1>4, <1>5

\* A page that is free has neither donors nor a donation.
LEMMA FreeIsNoDonor ==
  ASSUME IInv, LockInv, DonorsWait, NEW u \in Thread, k.status[u] = "free"
  PROVE  /\ donations[u] = {}
         /\ \A x \in Thread : u \notin donations[x]
         /\ at[u] = "out" /\ owns[u] = {}
<1>1. /\ LockTypes /\ Pointers /\ Exclusive /\ LockPlaces
      /\ NULL \notin Thread
  BY LockParts, SchedAssumption
<1>2. pc[u] = "none"
  BY DEF IInv, PcInv, PlacesInv
<1>3. at[u] = "out"
  BY <1>1, <1>2 DEF LockPlaces
<1>4. owns[u] = {}
  <2> SUFFICES ASSUME NEW l \in owns[u] PROVE FALSE
    OBVIOUS
  <2>1. l \in Lock /\ holder[l] = u
    BY <1>1 DEF LockTypes, Exclusive
  <2>2. Alive(u)
    BY <1>1, <2>1 DEF Pointers
  <2> QED BY <1>2, <2>2 DEF Alive
<1>5. donations[u] = {}
  BY <1>4, DonorFacts
<1>6. \A x \in Thread : u \notin donations[x]
  BY <1>3, DonorFacts DEF Waits, Walking
<1> QED BY <1>3, <1>4, <1>5, <1>6

\* Outside the lock functions a priority changes when a thread is created, and
\* in thread_set_priority, which does not go below a donation.
LEMMA HeardOther ==
  ASSUME IInv, LockInv, OneInside, OneInside', DonorsWait, Heard, OtherStep,
         cuts = 0, cuts' = 0
  PROVE  Heard'
<1>1. /\ LockTypes /\ k \in KernelState /\ k.current \in Thread
      /\ \A u \in Thread : k.priority[u] \in Nat
  BY LockParts, IInvFacts, KernelTypes, SchedAssumption DEF Priority
<1>2. /\ at[k.current] = "out" /\ at' = at /\ donations' = donations
      /\ \A t \in Thread : at[t] \in {"out", "recheck"}
  BY OtherOutside DEF OtherStep, lockVars
<1>3. AllHeard
  BY <1>2, HeardAtRest DEF Walking
<1>4. AllHeard'
  <2>1. CASE SamePriorities(k, k')
    BY <1>2, <1>3, <2>1 DEF SamePriorities, AllHeard, priority
  <2>2. ASSUME NEW u \in Thread, NEW p \in Priority, k.status[u] = "free",
               k' = init_thread(k, u, p)
        PROVE  AllHeard'
    <3>1. k'.priority = [k.priority EXCEPT ![u] = p]
      <4>1. init_thread(k, u, p).priority = [k.priority EXCEPT ![u] = p]
        BY <1>1 DEF init_thread, KernelState
      <4> QED BY <2>2, <4>1
    <3>2. \A x \in Thread \ {u} : k'.priority[x] = k.priority[x]
      BY <1>1, <3>1, KernelTypes
    <3>3. donations[u] = {} /\ \A x \in Thread : u \notin donations[x]
      BY <2>2, FreeIsNoDonor
    <3> QED BY <1>2, <1>3, <3>2, <3>3 DEF AllHeard, priority
  <2>3. ASSUME NEW p \in Priority, k' = SetPriority(k, donations[k.current] # {}, p)
        PROVE  AllHeard'
    <3> DEFINE c == k.current
    <3>1. /\ p \in Nat
          /\ k'.priority = IF donations[c] # {} /\ p <= k.priority[c] THEN k.priority
                           ELSE [k.priority EXCEPT ![c] = p]
      <4>1. (donations[c] # {}) \in BOOLEAN /\ p \in Nat
        BY SchedAssumption DEF Priority
      <4>2. SetPriority(k, donations[c] # {}, p).priority =
              IF donations[c] # {} /\ p <= k.priority[c] THEN k.priority
              ELSE [k.priority EXCEPT ![c] = p]
        BY <1>1, <4>1, SetPriorityFields
      <4> QED BY <2>3, <4>1, <4>2
    <3>2. \A x \in Thread \ {c} : k'.priority[x] = k.priority[x]
      BY <1>1, <3>1, KernelTypes
    <3>3. donations[c] # {} => k'.priority[c] >= k.priority[c]
      BY <1>1, <3>1, KernelTypes
    <3>4. \A x \in Thread : c \notin donations[x]
      BY <1>2, DonorFacts DEF Waits, Walking
    <3>5. k'.priority[c] \in Nat
      BY <1>1, <3>1, KernelTypes
    <3> HIDE DEF c
    <3>6. ASSUME NEW x \in Thread, NEW d \in Thread, d \in donations[x]
          PROVE  k'.priority[d] <= k'.priority[x]
      <4>1. k'.priority[d] = k.priority[d] /\ k.priority[d] <= k.priority[x]
        BY <1>3, <3>2, <3>4, <3>6 DEF AllHeard, priority
      <4>2. CASE x = c
        <5>1. k'.priority[c] >= k.priority[c]
          BY <3>3, <3>6, <4>2
        <5> QED BY <1>1, <3>5, <4>1, <4>2, <5>1
      <4>3. CASE x # c
        BY <3>2, <4>1, <4>3
      <4> QED BY <4>2, <4>3
    <3> QED BY <1>2, <3>6 DEF AllHeard, priority
  <2> QED BY <2>1, <2>2, <2>3, OtherPriorities
<1>5. k'.current \in Thread
  <2>1. IInv'
    BY OtherIsThreads, NextIInv
  <2> QED BY <2>1 DEF IInv, Sound, KernelState
<1> QED BY <1>2, <1>4, <1>5, RestIsHeard

\* Every donation counts, or the thread on the CPU is about to see to it.
LEMMA HeardStep ==
  ASSUME IInv, LockInv, OneInside, OneInside', DonorsWait, Heard, LocksNext,
         cuts = 0, cuts' = 0
  PROVE  Heard'
<1>1. CASE Halted
  BY <1>1 DEF Halted, allVars, vars, lockVars, Heard, Owed, priority
<1>2. CASE OtherStep
  BY <1>2, HeardOther
<1>3. ASSUME NEW t \in Thread, lock_acquire(t)
      PROVE  Heard'
  BY <1>3, HeardWalk, HeardQuiet DEF lock_acquire
<1>4. ASSUME NEW t \in Thread, lock_release(t)
      PROVE  Heard'
  BY <1>4, HeardRefresh, HeardQuiet DEF lock_release
<1>5. ASSUME NEW t \in Thread, NEW l \in Lock, TryTake(t, l)
      PROVE  Heard'
  BY <1>5, HeardQuiet
<1>6. \/ Halted \/ OtherStep
      \/ \E t \in Thread : \/ lock_acquire(t) \/ lock_release(t)
                           \/ \E l \in Lock : TryTake(t, l)
  BY DEF LocksNext, LocksStep, OtherStep, Elsewhere, LockInterrupt
<1> QED BY <1>1, <1>2, <1>3, <1>4, <1>5, <1>6

\* A thread without a lock has its own priority: the steps of the lock
\* functions.
LEMMA ReturnedSynch ==
  ASSUME IInv, LockInv, OneInside, OneInside', DonorsWait, Returned, NEW t \in Thread,
         lock_acquire(t) \/ lock_release(t) \/ \E l \in Lock : TryTake(t, l)
  PROVE  Returned'
<1>1. /\ LockTypes /\ Pointers /\ Sound(k) /\ k \in KernelState
      /\ t = k.current /\ NULL \notin Thread /\ NULL \notin Lock
  BY LockParts, LockKernel, SchedAssumption, LocksAssumption DEF IInv, Sound
<1>2. PICK a : at' = [at EXCEPT ![t] = a]
  BY LockKernel
<1>3. at'[t] = a /\ \A u \in Thread \ {t} : at'[u] = at[u] /\ at[u] \in {"out", "recheck"}
  BY <1>1, <1>2 DEF LockTypes, OneInside
<1>4. k'.current \in Thread
  <2>1. Next \/ UNCHANGED vars
    BY AcquireIsThreads, ReleaseIsThreads DEF TryTake
  <2>2. IInv'
    BY <2>1, NextIInv
  <2> QED BY <2>2 DEF IInv, Sound, KernelState
\* The holder that is found along the chain holds a lock.
<1>5. at'[k'.current] \in {"holder", "chain"} /\ ptr'[k'.current] # NULL =>
        owns'[ptr'[k'.current]] # {}
  <2> SUFFICES ASSUME at'[k'.current] \in {"holder", "chain"}, ptr'[k'.current] # NULL
               PROVE  owns'[ptr'[k'.current]] # {}
    OBVIOUS
  <2>1. k'.current = t /\ a \in {"holder", "chain"}
    BY <1>3, <1>4
  <2>2. ChainLoop(t) \/ ChainCompare(t)
    BY <1>1, <1>3, <2>1
       DEF lock_acquire, lock_release, AcquireBegin, SetWaiting, PushDonation,
           CompareHolder, DonateHolder, NextLock, ChainDonate, ChainFollow, DownTake,
           DownSleep, ClearWaiting, SetHolder, TryTake, RemoveDonations, RefreshPriority,
           UpdateOwn, ClearHolder, LockUp, UpYield, To, LockTypes
  <2>3. CASE ChainLoop(t)
    <3>1. /\ at[t] = "loop" /\ ptr[t] \in Lock \cup {NULL} /\ owns' = owns
      BY <1>1, <2>3 DEF ChainLoop, IsAt, Pointers
    <3>2. ptr[t] # NULL /\ ptr'[t] = holder[ptr[t]]
      BY <1>1, <1>3, <2>1, <2>3 DEF ChainLoop, To, Point, LockTypes
    <3>3. ptr[t] \in Lock /\ holder[ptr[t]] # NULL /\ at[k.current] \notin Clearing
      BY <1>1, <2>1, <3>1, <3>2 DEF Clearing
    <3>4. ptr[t] \in owns[holder[ptr[t]]]
      BY <3>3, HolderFacts
    <3> QED BY <2>1, <3>1, <3>2, <3>4
  <2>4. CASE ChainCompare(t)
    BY <1>1, <2>1, <2>4 DEF ChainCompare, IsAt, Returned
  <2> QED BY <2>2, <2>3, <2>4
\* Only the thread itself, or one that donates to it, changes its priority.
<1>6. CASE SamePriorities(k, k') /\ ~RefreshPriority(t) /\ ~UpdateOwn(t)
  <2>1. new_priority' = new_priority
    BY <1>6 DEF lock_acquire, lock_release, AcquireBegin, SetWaiting, PushDonation,
           CompareHolder, DonateHolder, NextLock, ChainLoop, ChainCompare, ChainDonate,
           ChainFollow, DownTake, DownSleep, ClearWaiting, SetHolder, TryTake,
           RemoveDonations, ClearHolder, LockUp, UpYield
  <2>2. a \notin {"update"}
    BY <1>1, <1>3, <1>6
       DEF lock_acquire, lock_release, AcquireBegin, SetWaiting, PushDonation,
           CompareHolder, DonateHolder, NextLock, ChainLoop, ChainCompare, ChainDonate,
           ChainFollow, DownTake, DownSleep, ClearWaiting, SetHolder, TryTake,
           RemoveDonations, ClearHolder, LockUp, UpYield, To, LockTypes
  <2>3. \/ owns' = owns
        \/ SetHolder(t)
        \/ \E l \in Lock : RemoveDonations(t, l)
    BY <1>6 DEF lock_acquire, lock_release, AcquireBegin, SetWaiting, PushDonation,
           CompareHolder, DonateHolder, NextLock, ChainLoop, ChainCompare, ChainDonate,
           ChainFollow, DownTake, DownSleep, ClearWaiting, SetHolder, TryTake,
           ClearHolder, LockUp, UpYield
  <2>4. \A u \in Thread \ {t} : owns'[u] = owns[u]
    BY <1>1, <2>3 DEF SetHolder, RemoveDonations, LockTypes
  <2>5. owns'[t] = {} /\ a # "refresh" =>
          owns[t] = {} /\ at[t] \notin {"refresh", "update"}
    <3>1. SetHolder(t) => owns'[t] # {}
      <4> SUFFICES ASSUME SetHolder(t)
                   PROVE  owns'[t] # {}
        OBVIOUS
      <4>1. owns \in [Thread -> SUBSET Lock] /\ t \in Thread
        BY <1>1 DEF LockTypes
      <4>2. owns' = [owns EXCEPT ![t] = owns[t] \cup {on[t]}]
        BY DEF SetHolder
      <4>3. on[t] \in owns'[t]
        BY <4>1, <4>2
      <4> QED BY <4>3
    <3>2. \A l \in Lock : RemoveDonations(t, l) => a = "refresh"
      BY <1>1, <1>3 DEF RemoveDonations, To, LockTypes
    <3>3. at[t] \notin {"refresh", "update"}
      BY <1>6 DEF lock_acquire, lock_release, AcquireBegin, SetWaiting, PushDonation,
           CompareHolder, DonateHolder, NextLock, ChainLoop, ChainCompare, ChainDonate,
           ChainFollow, DownTake, DownSleep, ClearWaiting, SetHolder, TryTake,
           RemoveDonations, ClearHolder, LockUp, UpYield, IsAt
    <3> QED BY <2>3, <3>1, <3>2, <3>3
  <2>6. (\A u \in Thread : owns[u] = {} /\ at[u] \notin {"refresh", "update"} =>
           priority(u) = k.base_priority[u])'
    BY <1>3, <1>6, <2>2, <2>4, <2>5 DEF SamePriorities, Returned, priority
  <2>7. (\A u \in Thread : owns[u] = {} /\ at[u] = "update" =>
           new_priority[u] = k.base_priority[u])'
    BY <1>3, <2>2
  <2> QED BY <1>5, <2>6, <2>7 DEF Returned
<1>7. CASE RefreshPriority(t)
  <2>1. /\ k' = k /\ owns' = owns /\ a = "update"
        /\ new_priority' = [new_priority EXCEPT ![t] = Effective(t)]
    BY <1>1, <1>3, <1>7 DEF RefreshPriority, To, vars, LockTypes
  <2>2. owns[t] = {} => donations[t] = {}
    BY DonorFacts
  <2>3. owns[t] = {} => new_priority'[t] = k.base_priority[t]
    BY <1>1, <2>1, <2>2, EffectiveFacts DEF LockTypes
  <2> QED BY <1>3, <1>5, <2>1, <2>3 DEF Returned, priority
<1>8. CASE UpdateOwn(t)
  <2>1. /\ k' = thread_update_priority(k, t, new_priority[t]) /\ owns' = owns /\ a = "clear"
        /\ at[t] = "update" /\ new_priority[t] \in Priority
    BY <1>1, <1>3, <1>8 DEF UpdateOwn, To, IsAt, LockTypes
  <2>2. /\ k'.priority = [k.priority EXCEPT ![t] = new_priority[t]]
        /\ k'.base_priority = k.base_priority
    BY <1>1, <2>1, UpdateFields
  <2>3. /\ k'.priority[t] = new_priority[t]
        /\ \A u \in Thread \ {t} : k'.priority[u] = k.priority[u]
    BY <1>1, <2>2, KernelTypes
  <2>4. owns[t] = {} => new_priority[t] = k.base_priority[t]
    BY <2>1 DEF Returned
  <2> QED BY <1>3, <1>5, <2>1, <2>2, <2>3, <2>4 DEF Returned, priority
<1>9. ASSUME NEW h \in Thread, owns[h] # {}, Donate(t, h), owns' = owns,
             a \in {"next", "follow"}
      PROVE  Returned'
  <2>1. k' = thread_update_priority(k, h, k.priority[t]) /\ k.priority[t] \in Priority
    BY <1>1, <1>9, KernelTypes DEF Donate, priority
  <2>2. /\ k'.priority = [k.priority EXCEPT ![h] = k.priority[t]]
        /\ k'.base_priority = k.base_priority
    BY <1>1, <2>1, UpdateFields
  <2>3. \A u \in Thread \ {h} : k'.priority[u] = k.priority[u]
    BY <1>1, <2>2, KernelTypes
  <2>4. at[t] \notin {"refresh", "update"}
    <3>1. ~RefreshPriority(t) /\ ~UpdateOwn(t)
      BY <1>1, <1>3, <1>9 DEF RefreshPriority, UpdateOwn, To, LockTypes
    <3> QED BY <3>1
       DEF lock_acquire, lock_release, AcquireBegin, SetWaiting, PushDonation,
           CompareHolder, DonateHolder, NextLock, ChainLoop, ChainCompare, ChainDonate,
           ChainFollow, DownTake, DownSleep, ClearWaiting, SetHolder, TryTake,
           RemoveDonations, ClearHolder, LockUp, UpYield, IsAt
  <2> QED BY <1>3, <1>5, <1>9, <2>2, <2>3, <2>4 DEF Returned, priority
<1>10. CASE DonateHolder(t)
  <2> DEFINE h == holder[on[t]]
  <2>1. on[t] \in Lock /\ at[t] = "donate" /\ a = "next" /\ owns' = owns /\ Donate(t, h)
    BY <1>1, <1>3, <1>10, AtFacts DEF DonateHolder, To, LockTypes
  <2>2. CASE h = NULL
    <3>1. k' = k
      BY <2>1, <2>2 DEF Donate
    <3> QED BY <1>6, <1>10, <2>1, <3>1
            DEF SamePriorities, RefreshPriority, UpdateOwn, IsAt
  <2>3. CASE h # NULL
    BY <1>1, <1>9, <2>1, <2>3, HolderFacts DEF Clearing
  <2> QED BY <2>2, <2>3
<1>11. CASE ChainDonate(t)
  <2>1. /\ at[t] = "chain" /\ a = "follow" /\ owns' = owns /\ Donate(t, ptr[t])
        /\ ptr[t] \in Thread
    BY <1>1, <1>3, <1>11 DEF ChainDonate, To, IsAt, Pointers, LockTypes
  <2>2. owns[ptr[t]] # {}
    BY <1>1, <2>1 DEF Returned
  <2> QED BY <1>9, <2>1, <2>2
<1>12. SamePriorities(k, k') \/ UpdateOwn(t) \/ DonateHolder(t) \/ ChainDonate(t)
  <2>1. \/ k' \in {k, thread_block(k), thread_yield(k)} \/ (\E u : k' = thread_unblock(k, u))
        \/ UpdateOwn(t) \/ DonateHolder(t) \/ ChainDonate(t)
    BY DEF lock_acquire, lock_release, AcquireBegin, TryTake, RemoveDonations, SetWaiting,
           PushDonation, CompareHolder, NextLock, ChainLoop, ChainCompare, ChainFollow,
           DownTake, DownSleep, Block, ClearWaiting, SetHolder, RefreshPriority, ClearHolder,
           LockUp, sema_up, UpYield, YieldTo, vars
  <2>2. SamePriorities(k, k)
    BY DEF SamePriorities
  <2> QED BY <1>1, <2>1, <2>2, PrioritiesKept
<1> QED BY <1>6, <1>7, <1>8, <1>10, <1>11, <1>12

\* And those of the rest of the system.
LEMMA ReturnedOther ==
  ASSUME IInv, LockInv, OneInside, OneInside', DonorsWait, Returned, OtherStep,
         cuts = 0, cuts' = 0
  PROVE  Returned'
<1>1. /\ k \in KernelState /\ k.current \in Thread /\ LockTypes
  BY LockParts, IInvFacts
<1>2. /\ at[k.current] = "out" /\ at' = at /\ owns' = owns
      /\ \A t \in Thread : at[t] \in {"out", "recheck"}
  BY OtherOutside DEF OtherStep, lockVars
<1>3. k'.current \in Thread
  <2>1. IInv'
    BY OtherIsThreads, NextIInv
  <2> QED BY <2>1 DEF IInv, Sound, KernelState
<1>4. ASSUME NEW u \in Thread, owns[u] = {}
      PROVE  k'.priority[u] = k'.base_priority[u]
  <2>1. k.priority[u] = k.base_priority[u]
    BY <1>2, <1>4 DEF Returned, priority
  <2>2. CASE SamePriorities(k, k')
    BY <2>1, <2>2 DEF SamePriorities
  <2>3. ASSUME NEW v \in Thread, NEW p \in Priority, k' = init_thread(k, v, p)
        PROVE  k'.priority[u] = k'.base_priority[u]
    <3>1. /\ init_thread(k, v, p).priority = [k.priority EXCEPT ![v] = p]
          /\ init_thread(k, v, p).base_priority = [k.base_priority EXCEPT ![v] = p]
      BY <1>1 DEF init_thread, KernelState
    <3> QED BY <1>1, <2>1, <2>3, <3>1, KernelTypes
  <2>4. ASSUME NEW p \in Priority, k' = SetPriority(k, donations[k.current] # {}, p)
        PROVE  k'.priority[u] = k'.base_priority[u]
    <3> DEFINE c == k.current
    <3>1. (donations[c] # {}) \in BOOLEAN
      OBVIOUS
    <3>2. /\ SetPriority(k, donations[c] # {}, p).base_priority = [k.base_priority EXCEPT ![c] = p]
          /\ SetPriority(k, donations[c] # {}, p).priority =
               IF donations[c] # {} /\ p <= k.priority[c] THEN k.priority
               ELSE [k.priority EXCEPT ![c] = p]
      BY <1>1, <3>1, SetPriorityFields
    <3>3. u = c => donations[c] = {}
      BY <1>4, DonorFacts
    <3>4. k'.base_priority = [k.base_priority EXCEPT ![c] = p]
      BY <2>4, <3>2
    <3>5. CASE u = c
      <4>1. k'.priority = [k.priority EXCEPT ![c] = p]
        BY <2>4, <3>2, <3>3, <3>5
      <4> QED BY <1>1, <3>4, <3>5, <4>1, KernelTypes
    <3>6. CASE u # c
      <4>1. k'.priority = k.priority \/ k'.priority = [k.priority EXCEPT ![c] = p]
        BY <2>4, <3>2
      <4> QED BY <1>1, <2>1, <3>4, <3>6, <4>1, KernelTypes
    <3> QED BY <3>5, <3>6
  <2> QED BY <2>2, <2>3, <2>4, OtherPriorities
<1> QED BY <1>2, <1>3, <1>4 DEF Returned, priority

\* No step of a run without cuts leaves a thread with a priority it should have
\* given back.
LEMMA ReturnedStep ==
  ASSUME IInv, LockInv, OneInside, OneInside', DonorsWait, Returned, LocksNext,
         cuts = 0, cuts' = 0
  PROVE  Returned'
<1>1. CASE Halted
  BY <1>1 DEF Halted, allVars, vars, lockVars, Returned, priority
<1>2. \/ Halted \/ OtherStep
      \/ \E t \in Thread : \/ lock_acquire(t) \/ lock_release(t)
                           \/ \E l \in Lock : TryTake(t, l)
  BY DEF LocksNext, LocksStep, OtherStep, Elsewhere, LockInterrupt
<1> QED BY <1>1, <1>2, ReturnedSynch, ReturnedOther

-----------------------------------------------------------------------------
(* The theorems about runs in which no interrupt cuts in.                  *)

\* The second invariant holds at boot and is kept.
LEMMA UncutInitInv == LocksInit => UncutInv
<1> SUFFICES ASSUME LocksInit PROVE OneInside /\ DonorsWait /\ Heard /\ Returned
  BY DEF UncutInv
<1>1. /\ k = thread_init /\ k.current = initial_thread /\ initial_thread \in Thread
      /\ ~k.in_external_intr
  BY SchedAssumption DEF LocksInit, Init, thread_init
<1>2. \A t \in Thread : k.priority[t] = k.base_priority[t]
  BY <1>1 DEF thread_init
<1>3. at[k.current] = "out" /\ \A t \in Thread : at[t] = "out" /\ donations[t] = {}
  BY <1>1 DEF LocksInit
<1> QED BY <1>1, <1>2, <1>3 DEF OneInside, DonorsWait, Heard, Returned, priority

\* Every step preserves what holds without cuts; after a cut it says nothing.
LEMMA UncutNextInv ==
  ASSUME IInv, LockInv, UncutInv, [LocksNext]_allVars
  PROVE  UncutInv'
<1>1. CASE UNCHANGED allVars
  BY <1>1 DEF allVars, vars, lockVars, UncutInv, OneInside, DonorsWait, Heard, Owed,
              Returned, priority
<1>2. CASE LocksNext
  <2> SUFFICES ASSUME cuts' = 0
               PROVE  OneInside' /\ DonorsWait' /\ Heard' /\ Returned'
    BY DEF UncutInv
  <2>1. cuts = 0
    <3>1. cuts \in Nat
      BY LockParts, LocksAssumption
    <3> QED BY <1>2, <3>1 DEF LocksNext, Halted, LockInterrupt, allVars
  <2>2. OneInside /\ DonorsWait /\ Heard /\ Returned
    BY <2>1 DEF UncutInv
  <2>3. OneInside' /\ DonorsWait'
    BY <1>2, <2>1, <2>2, OneInsideStep, DonorsWaitStep
  <2> QED BY <1>2, <2>1, <2>2, <2>3, HeardStep, ReturnedStep
<1> QED BY <1>1, <1>2

\* As long as no interrupt has cut into a lock function, at most one thread is
\* in the middle of one, every donor waits for a lock of the thread it donates
\* to, every donation counts or is owed by the thread on the CPU, and a thread
\* without a lock is back at its own priority.
THEOREM UncutInvariance == LocksSpec => []UncutInv
<1>1. IInv /\ LockInv /\ UncutInv /\ [LocksNext]_allVars => UncutInv'
  BY UncutNextInv
<1> QED BY <1>1, UncutInitInv, LocksInvariance, PTL DEF LocksSpec

\* As long as no interrupt has cut in, a donor waits for a lock that the thread
\* it donates to holds, and that thread has at least the donor's priority: the
\* walk along the chain in lock_acquire reaches everybody it has to.
THEOREM DonationsReachHolders == LocksSpec => []DonorsHeard
<1>1. ASSUME IInv, UncutInv
      PROVE  DonorsHeard
  <2> SUFFICES ASSUME cuts = 0, NEW t \in Thread, NEW d \in Thread, d \in donations[t]
               PROVE  /\ waiting_lock[d] \in owns[t]
                      /\ Settled => priority(d) <= priority(t)
    BY DEF DonorsHeard
  <2>1. DonorsWait /\ Heard
    BY <1>1 DEF UncutInv
  <2>2. Settled => at[k.current] \notin Walking
    BY <1>1, IInvFacts DEF Settled, Walking
  <2> QED BY <2>1, <2>2, HeardAtRest DEF DonorsWait, AllHeard
<1> QED BY <1>1, LocksInvariance, UncutInvariance, PTL

\* As long as no interrupt has cut in, a thread that holds no lock and is not in
\* the lock functions is back at its own priority.
THEOREM DonationsAreReturned == LocksSpec => []DonationReturned
<1>1. ASSUME UncutInv
      PROVE  DonationReturned
  BY <1>1 DEF UncutInv, Returned, DonationReturned
<1> QED BY <1>1, UncutInvariance, PTL
=============================================================================
