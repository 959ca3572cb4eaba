------------------------------- MODULE Synch -------------------------------
(***************************************************************************)
(* The semaphore of threads/synch.c: a value and the list of the threads   *)
(* asleep on it.  sema_down and sema_up run with interrupts off, so each   *)
(* is one step on the kernel state and on the semaphore; the yield at the  *)
(* end of sema_up runs with interrupts on again and is a step of its own.  *)
(***************************************************************************)
EXTENDS Sched

Semaphore == [value : Nat, waiters : Seq(Thread)]

sema_init(value) == [value |-> value, waiters |-> << >>]

\* list_max with thread_priority_less: the first waiter of highest priority.
MaxWaiter(k, q) ==
  q[CHOOSE i \in DOMAIN q :
      /\ \A j \in DOMAIN q : k.priority[q[j]] <= k.priority[q[i]]
      /\ \A j \in 1..i-1 : k.priority[q[j]] < k.priority[q[i]]]

\* The thread sema_up wakes, if any.
Unblocked(k, s) == IF s.waiters = << >> THEN NULL ELSE MaxWaiter(k, s.waiters)

sema_up(k, s) ==
  IF s.waiters = << >>
  THEN [kernel |-> k, sema |-> [s EXCEPT !.value = @ + 1]]
  ELSE [kernel |-> thread_unblock(k, Unblocked(k, s)),
        sema   |-> [value   |-> s.value + 1,
                    waiters |-> RemoveFirst(s.waiters, Unblocked(k, s))]]

\* After sema_up: does the woken thread u deserve the CPU?  A page that has
\* been freed meanwhile is filled with 0xcc, a negative priority.
Outranks(k, u) ==
  /\ u # NULL
  /\ k.status[u] # "free"
  /\ k.priority[u] > k.priority[k.current]

YieldTo(k, u) == IF Outranks(k, u) THEN thread_yield(k) ELSE k

\* One turn of the loop of sema_down: take the semaphore or fall asleep.
Available(s) == s.value > 0
sema_take(s) == [s EXCEPT !.value = @ - 1]
sema_wait(k, s) ==
  [kernel |-> thread_block(k),
   sema   |-> [s EXCEPT !.waiters = Append(@, k.current)]]
=============================================================================
