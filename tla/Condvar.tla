------------------------------- MODULE Condvar -------------------------------
(***************************************************************************)
(* A lock and a condition variable (cond_init to cond_broadcast in         *)
(* threads/synch.c).  The lock is taken as Locks shows it: held by one     *)
(* thread or by none.  Every waiter has a semaphore of its own, on which   *)
(* it alone sleeps.  Interrupts are on between the steps, so that other    *)
(* threads run there.                                                      *)
(***************************************************************************)
EXTENDS Naturals

CONSTANTS Thread, Priorities, NULL

ASSUME CondAssumption == NULL \notin Thread /\ Priorities \subseteq Nat

VARIABLES holder,   \* who holds the lock
          waiters,  \* the threads with an entry on cond->waiters
          pc,       \* where a thread is
          value,    \* the value of its private semaphore
          priority, \* changed by donation and by the thread itself
          panic     \* an assertion failed

vars == <<holder, waiters, pc, value, priority, panic>>

Where == {"out", "in", "queued", "released", "asleep", "reacquire", "broadcast"}

CondTypeOK ==
  /\ holder \in Thread \cup {NULL}
  /\ waiters \subseteq Thread
  /\ pc \in [Thread -> Where]
  /\ value \in [Thread -> Nat]
  /\ priority \in [Thread -> Priorities]
  /\ panic \in BOOLEAN

cond_init ==
  /\ holder = NULL
  /\ waiters = {}
  /\ pc = [t \in Thread |-> "out"]
  /\ value = [t \in Thread |-> 0]
  /\ priority \in [Thread -> Priorities]
  /\ panic = FALSE

Goto(t, where) == pc' = [pc EXCEPT ![t] = where]

-----------------------------------------------------------------------------

\* At the start and at the end of a wait.
lock_acquire(t) ==
  /\ pc[t] \in {"out", "reacquire"} /\ holder = NULL
  /\ holder' = t
  /\ Goto(t, "in")
  /\ UNCHANGED <<waiters, value, priority, panic>>

\* The end of the critical section, or the release inside cond_wait.
lock_release(t) ==
  /\ pc[t] \in {"in", "queued"} /\ holder = t
  /\ holder' = NULL
  /\ Goto(t, IF pc[t] = "in" THEN "out" ELSE "released")
  /\ UNCHANGED <<waiters, value, priority, panic>>

\* cond_wait up to its lock_release.
cond_wait(t) ==
  /\ pc[t] = "in"
  /\ value' = [value EXCEPT ![t] = 0]
  /\ waiters' = waiters \cup {t}
  /\ Goto(t, "queued")
  /\ UNCHANGED <<holder, priority, panic>>

\* One turn of the loop of sema_down on the private semaphore.
sema_down(t) ==
  /\ pc[t] = "released"
  /\ IF value[t] > 0
     THEN value' = [value EXCEPT ![t] = @ - 1] /\ Goto(t, "reacquire")
     ELSE Goto(t, "asleep") /\ UNCHANGED value
  /\ UNCHANGED <<holder, waiters, priority, panic>>

-----------------------------------------------------------------------------

\* Mutant: the waiter of lowest priority comes first.
Hindmost(w) == \A v \in waiters : ~(priority[v] < priority[w])

\* cond_priority_more compares the threads asleep on two private semaphores:
\* no waiter comes before w.
Foremost(w) == \A v \in waiters : ~(priority[v] > priority[w])

\* Mutant: the signal is lost on a waiter that is not asleep yet.
UpSleeper(w) ==
  /\ waiters' = waiters \ {w}
  /\ value' = [value EXCEPT ![w] = IF pc[w] = "asleep" THEN 1 ELSE 0]

\* list_pop_front and sema_up of its semaphore.
PopAndUp(w) ==
  /\ waiters' = waiters \ {w}
  /\ value' = [value EXCEPT ![w] = @ + 1]

\* With two or more waiters list_sort compares them all, and list_front
\* asserts that each has gone to sleep.  The sort and the sema_up are one
\* step here: nobody else changes the list while the lock is held.
SortPanics ==
  /\ \E v, w \in waiters : v # w
  /\ \E w \in waiters : pc[w] # "asleep"

cond_signal(t) ==
  /\ holder = t /\ pc[t] \in {"in", "broadcast"} /\ waiters # {}
  /\ \/ /\ SortPanics
        /\ panic' = TRUE
        /\ UNCHANGED <<waiters, value, pc>>
     \/ /\ ~SortPanics
        /\ \E w \in waiters :
             /\ Foremost(w)
             /\ PopAndUp(w)
             /\ pc' = [pc EXCEPT ![w] = "released"]
        /\ UNCHANGED panic
  /\ UNCHANGED <<holder, priority>>

\* Mutant: a broadcast signals once.
SignalOnce(t) ==
  /\ holder = t
  /\ \/ pc[t] = "in" /\ Goto(t, "broadcast")
     \/ pc[t] = "broadcast" /\ Goto(t, "in")
  /\ UNCHANGED <<holder, waiters, value, priority, panic>>

\* cond_broadcast signals until nobody is left.
cond_broadcast(t) ==
  /\ holder = t
  /\ \/ pc[t] = "in" /\ Goto(t, "broadcast")
     \/ pc[t] = "broadcast" /\ waiters = {} /\ Goto(t, "in")
  /\ UNCHANGED <<holder, waiters, value, priority, panic>>

\* A donation, or its end (thread_update_priority).
SetPriority(t) ==
  /\ \E p \in Priorities : priority' = [priority EXCEPT ![t] = p]
  /\ UNCHANGED <<holder, waiters, pc, value, panic>>

-----------------------------------------------------------------------------

CondNext ==
  /\ ~panic
  /\ \E t \in Thread :
       \/ lock_acquire(t) \/ lock_release(t)
       \/ cond_wait(t) \/ sema_down(t)
       \/ cond_signal(t) \/ cond_broadcast(t)
       \/ SetPriority(t)

CondSpec == cond_init /\ [][CondNext]_vars

\* A call that has begun goes on.
InCall(t) ==
  \/ pc[t] = "queued" /\ lock_release(t)
  \/ sema_down(t)
  \/ pc[t] = "broadcast" /\ (cond_signal(t) \/ cond_broadcast(t))

CondFairSpec == CondSpec /\ \A t \in Thread : WF_vars(~panic /\ InCall(t))

-----------------------------------------------------------------------------
(* Properties.                                                             *)

Waiting == {t \in waiters : pc[t] # "queued"}

\* cond_wait gives up the lock and begins to wait in one step, although it
\* pushes its entry, releases and sleeps in three; a signal ends the wait of
\* the thread that has the highest priority now, not when it was queued.
Abstract == INSTANCE Monitor WITH waiting <- Waiting
ImplementsMonitor == Abstract!Spec

\* A signal sent between the release and the sleep is not lost: who sleeps is
\* still on the list of the condition, with its semaphore down, and who has
\* left the list finds its semaphore up.
NoLostSignal ==
  \A t \in Thread :
    /\ pc[t] = "asleep" => t \in waiters /\ value[t] = 0
    /\ pc[t] = "released" => (t \in waiters <=> value[t] = 0)

\* cond_broadcast ends the wait of every thread on the list, unless list_sort
\* panics on a waiter that is not asleep yet.
BroadcastReachesAll ==
  \A t, w \in Thread :
    (pc[t] = "broadcast" /\ w \in waiters) ~> (pc[w] = "reacquire" \/ panic)
=============================================================================
