------------------------------- MODULE Locks -------------------------------
(***************************************************************************)
(* The locks of threads/synch.c, with priority donation, as used by the    *)
(* threads of Threads.  lock_acquire and lock_release run with interrupts  *)
(* on except inside sema_down, sema_up and thread_update_priority: every   *)
(* read or write of a lock or of another thread is a step of its own, and  *)
(* a timer interrupt may fall between any two of them.                     *)
(*                                                                         *)
(* The compiler keeps every access (the Makefile builds with -O0), so      *)
(* lock->holder is read again wherever the source names it.  Reading       *)
(* through a null holder is a page fault in the kernel, which stops it.    *)
(*                                                                         *)
(* A thread's list donations is a set here: the code sorts it before it    *)
(* looks at its front, so its order is never observed.                     *)
(***************************************************************************)
EXTENDS Threads

CONSTANTS Lock,   \* numbers: threads take locks in increasing order
          Setter, \* the threads that call thread_set_priority
          MaxCuts \* bound of the model: interrupts inside the lock functions

\* A donation passes on whatever priority the donor has.
ASSUME LocksAssumption ==
  /\ NULL \notin Lock
  /\ Donated = Priority
  /\ Lock \subseteq Nat
  /\ Setter \subseteq Thread
  /\ MaxCuts \in Nat

VARIABLES holder,       \* lock->holder
          lsema,        \* lock->semaphore
          donations, waiting_lock,
          owns,         \* the locks a thread holds, as its caller sees it
          at,           \* where a thread is in synch.c
          on,           \* the lock it works on there
          ptr,          \* its next_lock, next_holder_thread or unblocked
          new_priority, \* of refresh_priority
          fault,        \* the kernel has read through a null pointer
          cuts          \* interrupts that have fallen inside the lock functions

lockVars == <<holder, lsema, donations, waiting_lock, owns,
              at, on, ptr, new_priority, fault>>
allVars == <<vars, lockVars, cuts>>

Acquiring == {"wait", "push", "compare", "donate", "next", "loop", "holder",
              "chain", "follow", "down", "recheck", "got", "own", "try"}
Releasing == {"refresh", "update", "clear", "up", "yield"}

LocksTypeOK ==
  /\ TypeOK
  /\ holder \in [Lock -> Thread \cup {NULL}]
  /\ lsema \in [Lock -> Semaphore]
  /\ donations \in [Thread -> SUBSET Thread]
  /\ waiting_lock \in [Thread -> Lock \cup {NULL}]
  /\ owns \in [Thread -> SUBSET Lock]
  /\ at \in [Thread -> {"out"} \cup Acquiring \cup Releasing]
  /\ on \in [Thread -> Lock \cup {NULL}]
  /\ ptr \in [Thread -> Thread \cup Lock \cup {NULL}]
  /\ new_priority \in [Thread -> Priority]
  /\ fault \in BOOLEAN
  /\ cuts \in 0 .. MaxCuts

\* lock_init, and the lock fields of init_thread.
LocksInit ==
  /\ Init
  /\ holder = [l \in Lock |-> NULL]
  /\ lsema = [l \in Lock |-> sema_init(1)]
  /\ donations = [t \in Thread |-> {}]
  /\ waiting_lock = [t \in Thread |-> NULL]
  /\ owns = [t \in Thread |-> {}]
  /\ at = [t \in Thread |-> "out"]
  /\ on = [t \in Thread |-> NULL]
  /\ ptr = [t \in Thread |-> NULL]
  /\ new_priority = [t \in Thread |-> 0]
  /\ fault = FALSE
  /\ cuts = 0

\* Thread t has the CPU and is at a place in synch.c.
IsAt(t, place) == ~fault /\ Runs(t, "run") /\ at[t] = place

To(t, place) == at' = [at EXCEPT ![t] = place]
Point(t, p) == ptr' = [ptr EXCEPT ![t] = p]

\* The step reads through pointer p: it goes on, or the kernel stops.
Deref(p) == fault' = (p = NULL)

priority(t) == k.priority[t]

-----------------------------------------------------------------------------
(* lock_acquire.                                                           *)

\* Clients do not take a lock they hold, and take locks in order.
MayAcquire(t, l) == at[t] = "out" /\ \A h \in owns[t] : h < l

AcquireBegin(t, l) ==
  /\ MayAcquire(t, l)
  /\ IsAt(t, "out")
  /\ To(t, IF holder[l] = NULL THEN "down" ELSE "wait")
  /\ on' = [on EXCEPT ![t] = l]
  /\ UNCHANGED <<vars, holder, lsema, donations, waiting_lock, owns, ptr,
                 new_priority, fault>>

SetWaiting(t) ==
  /\ IsAt(t, "wait")
  /\ waiting_lock' = [waiting_lock EXCEPT ![t] = on[t]]
  /\ To(t, "push")
  /\ UNCHANGED <<vars, holder, lsema, donations, owns, on, ptr,
                 new_priority, fault>>

PushDonation(t) ==
  LET h == holder[on[t]] IN
  /\ IsAt(t, "push")
  /\ Deref(h)
  /\ donations' = IF h = NULL THEN donations
                  ELSE [donations EXCEPT ![h] = @ \cup {t}]
  /\ To(t, "compare")
  /\ UNCHANGED <<vars, holder, lsema, waiting_lock, owns, on, ptr, new_priority>>

CompareHolder(t) ==
  LET h == holder[on[t]] IN
  /\ IsAt(t, "compare")
  /\ Deref(h)
  /\ To(t, IF h # NULL /\ priority(h) < priority(t) THEN "donate" ELSE "next")
  /\ UNCHANGED <<vars, holder, lsema, donations, waiting_lock, owns, on, ptr,
                 new_priority>>

\* Mutant: a ready holder stays in the queue of its old priority.
DonateInPlace(t, h) ==
  /\ k' = IF h = NULL THEN k ELSE [k EXCEPT !.priority[h] = priority(t)]
  /\ UNCHANGED <<idle_started, pc, arg>>

\* thread_update_priority, called for thread h by thread t.
Donate(t, h) ==
  /\ k' = IF h = NULL THEN k ELSE thread_update_priority(k, h, priority(t))
  /\ UNCHANGED <<idle_started, pc, arg>>

DonateHolder(t) ==
  LET h == holder[on[t]] IN
  /\ IsAt(t, "donate")
  /\ Deref(h)
  /\ Donate(t, h)
  /\ To(t, "next")
  /\ UNCHANGED <<holder, lsema, donations, waiting_lock, owns, on, ptr,
                 new_priority>>

NextLock(t) ==
  LET h == holder[on[t]] IN
  /\ IsAt(t, "next")
  /\ Deref(h)
  /\ Point(t, IF h = NULL THEN NULL ELSE waiting_lock[h])
  /\ To(t, "loop")
  /\ UNCHANGED <<vars, holder, lsema, donations, waiting_lock, owns, on,
                 new_priority>>

\* The chain of holders: ptr is next_lock, then next_holder_thread.
ChainLoop(t) ==
  /\ IsAt(t, "loop")
  /\ IF ptr[t] = NULL
     THEN To(t, "down") /\ UNCHANGED ptr
     ELSE To(t, "holder") /\ Point(t, holder[ptr[t]])
  /\ UNCHANGED <<vars, holder, lsema, donations, waiting_lock, owns, on,
                 new_priority, fault>>

ChainCompare(t) ==
  LET h == ptr[t] IN
  /\ IsAt(t, "holder")
  /\ Deref(h)
  /\ To(t, IF h # NULL /\ priority(h) < priority(t) THEN "chain" ELSE "follow")
  /\ UNCHANGED <<vars, holder, lsema, donations, waiting_lock, owns, on, ptr,
                 new_priority>>

ChainDonate(t) ==
  /\ IsAt(t, "chain")
  /\ Donate(t, ptr[t])
  /\ To(t, "follow")
  /\ UNCHANGED <<holder, lsema, donations, waiting_lock, owns, on, ptr,
                 new_priority, fault>>

ChainFollow(t) ==
  /\ IsAt(t, "follow")
  /\ Point(t, waiting_lock[ptr[t]])
  /\ To(t, "loop")
  /\ UNCHANGED <<vars, holder, lsema, donations, waiting_lock, owns, on,
                 new_priority, fault>>

\* Mutant: a woken thread does not look at the semaphore again.
TakeOnceWoken(t) ==
  /\ \/ IsAt(t, "down") /\ Available(lsema[on[t]])
     \/ IsAt(t, "recheck")
  /\ lsema' = [lsema EXCEPT ![on[t]] = sema_take(@)]
  /\ To(t, "got")
  /\ UNCHANGED <<vars, holder, donations, waiting_lock, owns, on, ptr,
                 new_priority, fault>>

\* sema_down: take the semaphore, or sleep and look again when woken.
DownTake(t) ==
  /\ IsAt(t, "down") \/ IsAt(t, "recheck")
  /\ Available(lsema[on[t]])
  /\ lsema' = [lsema EXCEPT ![on[t]] = sema_take(@)]
  /\ To(t, "got")
  /\ UNCHANGED <<vars, holder, donations, waiting_lock, owns, on, ptr,
                 new_priority, fault>>

DownSleep(t) ==
  /\ IsAt(t, "down") \/ IsAt(t, "recheck")
  /\ ~Available(lsema[on[t]])
  /\ Block(t)
  /\ lsema' = [lsema EXCEPT ![on[t]] = sema_wait(k, @).sema]
  /\ To(t, "recheck")
  /\ UNCHANGED <<holder, donations, waiting_lock, owns, on, ptr,
                 new_priority, fault>>

ClearWaiting(t) ==
  /\ IsAt(t, "got")
  /\ waiting_lock' = [waiting_lock EXCEPT ![t] = NULL]
  /\ To(t, "own")
  /\ UNCHANGED <<vars, holder, lsema, donations, owns, on, ptr,
                 new_priority, fault>>

\* lock->holder = cur, the last line of lock_acquire and lock_try_acquire.
SetHolder(t) ==
  /\ IsAt(t, "own") \/ IsAt(t, "try")
  /\ holder' = [holder EXCEPT ![on[t]] = t]
  /\ owns' = [owns EXCEPT ![t] = @ \cup {on[t]}]
  /\ To(t, "out")
  /\ on' = [on EXCEPT ![t] = NULL]
  /\ UNCHANGED <<vars, lsema, donations, waiting_lock, ptr, new_priority, fault>>

lock_acquire(t) ==
  \/ \E l \in Lock : AcquireBegin(t, l)
  \/ SetWaiting(t) \/ PushDonation(t) \/ CompareHolder(t) \/ DonateHolder(t)
  \/ NextLock(t) \/ ChainLoop(t) \/ ChainCompare(t) \/ ChainDonate(t)
  \/ ChainFollow(t)
  \/ DownTake(t) \/ DownSleep(t) \/ ClearWaiting(t)
  \/ SetHolder(t)

\* lock_try_acquire; on failure it returns without a step.
TryTake(t, l) ==
  /\ l \notin owns[t]
  /\ IsAt(t, "out")
  /\ Available(lsema[l])
  /\ lsema' = [lsema EXCEPT ![l] = sema_take(@)]
  /\ on' = [on EXCEPT ![t] = l]
  /\ To(t, "try")
  /\ UNCHANGED <<vars, holder, donations, waiting_lock, owns, ptr,
                 new_priority, fault>>

-----------------------------------------------------------------------------
(* lock_release.                                                           *)

\* Mutant: the donations stay.
KeepDonations(t, l) ==
  /\ l \in owns[t]
  /\ IsAt(t, "out")
  /\ owns' = [owns EXCEPT ![t] = @ \ {l}]
  /\ on' = [on EXCEPT ![t] = l]
  /\ To(t, "refresh")
  /\ UNCHANGED <<vars, holder, lsema, donations, waiting_lock, ptr,
                 new_priority, fault>>

\* remove_donation_by_lock, its loop taken as one step.
RemoveDonations(t, l) ==
  /\ l \in owns[t]
  /\ IsAt(t, "out")
  /\ owns' = [owns EXCEPT ![t] = @ \ {l}]
  /\ donations' = [donations EXCEPT
                     ![t] = {d \in @ : waiting_lock[d] # l}]
  /\ on' = [on EXCEPT ![t] = l]
  /\ To(t, "refresh")
  /\ UNCHANGED <<vars, holder, lsema, waiting_lock, ptr, new_priority, fault>>

\* Mutant: a donated priority is kept.
NeverLower(t) == Max({priority(t)} \cup {priority(d) : d \in donations[t]})

\* The highest priority among its own and its donors'.
Effective(t) ==
  Max({k.base_priority[t]} \cup {priority(d) : d \in donations[t]})

RefreshPriority(t) ==
  /\ IsAt(t, "refresh")
  /\ new_priority' = [new_priority EXCEPT ![t] = Effective(t)]
  /\ To(t, "update")
  /\ UNCHANGED <<vars, holder, lsema, donations, waiting_lock, owns, on, ptr,
                 fault>>

UpdateOwn(t) ==
  /\ IsAt(t, "update")
  /\ k' = thread_update_priority(k, t, new_priority[t])
  /\ new_priority' = [new_priority EXCEPT ![t] = 0]
  /\ To(t, "clear")
  /\ UNCHANGED <<idle_started, pc, arg, holder, lsema, donations, waiting_lock,
                 owns, on, ptr, fault>>

ClearHolder(t) ==
  /\ IsAt(t, "clear")
  /\ holder' = [holder EXCEPT ![on[t]] = NULL]
  /\ To(t, "up")
  /\ UNCHANGED <<vars, lsema, donations, waiting_lock, owns, on, ptr,
                 new_priority, fault>>

LockUp(t) ==
  LET s == lsema[on[t]]
      u == Unblocked(k, s)
  IN
  /\ IsAt(t, "up")
  /\ lsema' = [lsema EXCEPT ![on[t]] = sema_up(k, s).sema]
  /\ k' = sema_up(k, s).kernel
  /\ IF u = NULL THEN UNCHANGED pc ELSE Goto(u, "run")
  /\ Point(t, u)
  /\ To(t, "yield")
  /\ UNCHANGED <<idle_started, arg, holder, donations, waiting_lock, owns, on,
                 new_priority, fault>>

UpYield(t) ==
  /\ IsAt(t, "yield")
  /\ k' = YieldTo(k, ptr[t])
  /\ Point(t, NULL)
  /\ on' = [on EXCEPT ![t] = NULL]
  /\ To(t, "out")
  /\ UNCHANGED <<idle_started, pc, arg, holder, lsema, donations, waiting_lock,
                 owns, new_priority, fault>>

lock_release(t) ==
  \/ \E l \in Lock : RemoveDonations(t, l)
  \/ RefreshPriority(t) \/ UpdateOwn(t) \/ ClearHolder(t)
  \/ LockUp(t) \/ UpYield(t)

-----------------------------------------------------------------------------

\* thread_set_priority, which looks at the donations of the caller.
SetOwnPriority(t) ==
  \/ /\ t \in Setter
     /\ at[t] = "out"
     /\ Runs(t, "run")
     /\ \E p \in SetPriorities : k' = SetPriority(k, donations[t] # {}, p)
     /\ Goto(t, "set_priority")
     /\ UNCHANGED <<idle_started, arg>>
  \/ YieldIfHigher(t)

Elsewhere(t) ==
  /\ ~fault
  /\ at[t] = "out"
  /\ thread_create(t) \/ SetOwnPriority(t) \/ Yield(t)
  /\ UNCHANGED lockVars

InSynch(t) == at[t] # "out"

\* Interrupts are off while a woken thread looks at the semaphore again.
LockInterrupt ==
  /\ ~fault
  /\ \/ /\ at[k.current] # "recheck"
        /\ IntrEnter
        /\ IF InSynch(k.current) THEN cuts < MaxCuts /\ cuts' = cuts + 1
           ELSE UNCHANGED cuts
     \/ (DeviceReturn \/ TimerReturn) /\ UNCHANGED cuts
  /\ UNCHANGED lockVars

\* A page fault in the kernel is the end: the machine stays as it is.
Halted == fault /\ UNCHANGED allVars

LocksStep ==
  \/ ~fault /\ (Boot \/ \E t \in Thread : idle(t)) /\ UNCHANGED lockVars
  \/ \E t \in Thread :
       \/ lock_acquire(t)
       \/ \E l \in Lock : TryTake(t, l)
       \/ lock_release(t)
       \/ Elsewhere(t)

LocksNext ==
  \/ Halted
  \/ LocksStep /\ UNCHANGED cuts
  \/ LockInterrupt

LocksSpec == LocksInit /\ [][LocksNext]_allVars

-----------------------------------------------------------------------------
(* Properties.                                                             *)

\* The thread that is between sema_down and sema_up of lock l.
Inside(l) ==
  {t \in Thread : \/ l \in owns[t]
                  \/ on[t] = l /\ at[t] \in {"got", "own", "try", "refresh",
                                             "update", "clear", "up"}}

\* A lock is held by at most one thread (synch.c:222), and its semaphore says
\* whether it is: the value is 1 exactly when nobody is inside.  The owner finds
\* itself in holder, so that the assertions of lock_release and of cond_wait
\* hold, and nobody else does.
MutualExclusion ==
  /\ LocksTypeOK
  /\ \A l \in Lock :
       /\ \A t, u \in Inside(l) : t = u
       /\ lsema[l].value = IF Inside(l) = {} THEN 1 ELSE 0
       /\ \A t \in Thread : l \in owns[t] => holder[l] = t

\* Whatever the lock functions do to the kernel, Threads allows: its
\* invariants hold for threads that use locks and donate priorities.
LocksImplementThreads == Spec

\* No thread is between two steps of lock_acquire or lock_release that
\* change priorities.
Settled == \A t \in Thread : at[t] \in {"out", "down", "recheck", "yield"}

\* As long as no interrupt has cut into a lock function, a donor is waiting for
\* a lock that the thread it donates to holds (remove_donation_by_lock takes
\* all the others out), and a donation counts: a thread has at least the
\* priority of each of its donors, also of one whose own priority a donation
\* has raised meanwhile (the chain of lock_acquire).
DonorsHeard ==
  cuts = 0 =>
    \A t, d \in Thread : d \in donations[t] =>
      /\ waiting_lock[d] \in owns[t]
      /\ Settled => priority(d) <= priority(t)

\* As long as no interrupt has cut into a lock function, a thread that holds no
\* lock and is not in the lock functions is back at its own priority
\* (lock_release takes the lock's donations back).
DonationReturned ==
  cuts = 0 =>
    \A t \in Thread :
      k.status[t] # "free" /\ at[t] = "out" /\ owns[t] = {} =>
        priority(t) = k.base_priority[t]
=============================================================================
