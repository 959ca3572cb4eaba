----------------------------- MODULE Semaphores -----------------------------
(***************************************************************************)
(* Threads that call sema_down, sema_try_down and sema_up on shared        *)
(* semaphores, and interrupt handlers that call sema_up.  Every step is a  *)
(* step of Threads, or leaves its variables alone.                         *)
(***************************************************************************)
EXTENDS Threads

CONSTANTS Sema,      \* the semaphores
          InitValue, \* the value each is initialised with
          MaxValue   \* bound of the model: no sema_up above this value

ASSUME SemaphoresAssumption ==
  /\ NULL \notin Sema
  /\ InitValue \in [Sema -> Nat]
  /\ MaxValue \in Nat

VARIABLES sema,  \* the semaphores themselves
          at,    \* where a thread is in synch.c
          on,    \* the semaphore it works on there
          woken  \* unblocked of sema_up

semaVars == <<sema, at, on, woken>>
allVars == <<vars, semaVars>>

SemaTypeOK ==
  /\ TypeOK
  /\ sema \in [Sema -> Semaphore]
  /\ at \in [Thread -> {"out", "down", "up"}]
  /\ on \in [Thread -> Sema \cup {NULL}]
  /\ woken \in [Thread -> Thread \cup {NULL}]

SemaInit ==
  /\ Init
  /\ sema = [s \in Sema |-> sema_init(InitValue[s])]
  /\ at = [t \in Thread |-> "out"]
  /\ on = [t \in Thread |-> NULL]
  /\ woken = [t \in Thread |-> NULL]

-----------------------------------------------------------------------------
(* sema_down.  A thread that finds the value 0 sleeps; when it runs again  *)
(* it is still in the loop, with interrupts off, and looks again.          *)

Take(t, s) ==
  /\ Runs(t, "run")
  /\ Available(sema[s])
  /\ sema' = [sema EXCEPT ![s] = sema_take(@)]
  /\ at' = [at EXCEPT ![t] = "out"]
  /\ on' = [on EXCEPT ![t] = NULL]
  /\ UNCHANGED <<vars, woken>>

Sleep(t, s) ==
  /\ ~Available(sema[s])
  /\ Block(t)
  /\ sema' = [sema EXCEPT ![s] = sema_wait(k, @).sema]
  /\ at' = [at EXCEPT ![t] = "down"]
  /\ on' = [on EXCEPT ![t] = s]
  /\ UNCHANGED woken

sema_down(t, s) ==
  /\ at[t] = "out" \/ (at[t] = "down" /\ on[t] = s)
  /\ Take(t, s) \/ Sleep(t, s)

sema_try_down(t, s) ==
  /\ at[t] = "out"
  /\ Take(t, s)

-----------------------------------------------------------------------------
(* sema_up.                                                                *)

\* Mutant: a waiter is woken only if the value was 0.
Stingy(s) == IF sema[s].value = 0 THEN Unblocked(k, sema[s]) ELSE NULL

\* Mutant: the first waiter is woken.
FirstWaiter(s) == IF sema[s].waiters = << >> THEN NULL ELSE Head(sema[s].waiters)

\* The waiter a sema_up of s would wake now.
Waiter(s) == Unblocked(k, sema[s])

\* Mutant: the woken waiter stays on the list.
RaiseOnly(s) ==
  /\ sema[s].value < MaxValue
  /\ sema' = [sema EXCEPT ![s].value = @ + 1]

Raise(s) ==
  /\ sema[s].value < MaxValue
  /\ sema' = [sema EXCEPT ![s] =
                [value   |-> @.value + 1,
                 waiters |-> RemoveFirst(@.waiters, Waiter(s))]]

SemaUp(t, s) ==
  /\ at[t] = "out"
  /\ Runs(t, "run")
  /\ Raise(s)
  /\ IF Waiter(s) = NULL THEN UNCHANGED vars
     ELSE /\ k' = thread_unblock(k, Waiter(s))
          /\ Goto(Waiter(s), "run")
          /\ UNCHANGED <<idle_started, arg>>
  /\ at' = [at EXCEPT ![t] = "up"]
  /\ woken' = [woken EXCEPT ![t] = Waiter(s)]
  /\ UNCHANGED on

SemaUpYield(t) ==
  /\ at[t] = "up"
  /\ Runs(t, "run")
  /\ k' = YieldTo(k, woken[t])
  /\ at' = [at EXCEPT ![t] = "out"]
  /\ woken' = [woken EXCEPT ![t] = NULL]
  /\ UNCHANGED <<idle_started, pc, arg, sema, on>>

\* Mutant: intr_context () is not asked, and the handler itself yields.
YieldInHandler(s) ==
  /\ InHandler
  /\ Raise(s)
  /\ IF Waiter(s) = NULL THEN UNCHANGED vars
     ELSE LET u == Waiter(s) IN
          /\ k' = YieldTo(thread_unblock(k, u), u)
          /\ Goto(u, "run")
          /\ UNCHANGED <<idle_started, arg>>
  /\ UNCHANGED <<at, on, woken>>

\* Called by an interrupt handler, which yields on return if it must.
IntrSemaUp(s) ==
  /\ InHandler
  /\ Raise(s)
  /\ IF Waiter(s) = NULL THEN UNCHANGED vars
     ELSE LET u == Waiter(s) IN
          /\ k' = IF Outranks(k, u) THEN intr_yield_on_return(thread_unblock(k, u))
                  ELSE thread_unblock(k, u)
          /\ Goto(u, "run")
          /\ UNCHANGED <<idle_started, arg>>
  /\ UNCHANGED <<at, on, woken>>

-----------------------------------------------------------------------------

\* What a thread does outside synch.c.
Elsewhere(t) ==
  /\ at[t] = "out"
  /\ thread_create(t) \/ UpdatePriority(t) \/ thread_set_priority(t) \/ Yield(t)
  /\ UNCHANGED semaVars

\* Interrupts are off while a thread looks at the value again.
SemaInterrupt ==
  /\ \/ at[k.current] # "down" /\ IntrEnter
     \/ DeviceReturn
     \/ TimerReturn
  /\ UNCHANGED semaVars

SemaNext ==
  \/ (Boot \/ \E t \in Thread : idle(t)) /\ UNCHANGED semaVars
  \/ \E t \in Thread :
       \/ \E s \in Sema :
            sema_down(t, s) \/ sema_try_down(t, s) \/ SemaUp(t, s)
       \/ SemaUpYield(t)
       \/ Elsewhere(t)
  \/ \E s \in Sema : IntrSemaUp(s)
  \/ SemaInterrupt

SemaSpec == SemaInit /\ [][SemaNext]_allVars

\* The timer keeps ticking and a call that has begun goes on.
SemaFairSpec ==
  /\ SemaSpec
  /\ WF_allVars(IntrEnter /\ SemaInterrupt)
  /\ SF_allVars(TimerReturn /\ UNCHANGED semaVars)
  /\ WF_allVars(Boot /\ UNCHANGED semaVars)
  /\ \A t \in Thread :
       /\ WF_allVars(idle(t) /\ UNCHANGED semaVars)
       /\ WF_allVars(Finish(t) /\ UNCHANGED semaVars)
       /\ WF_allVars(SemaUpYield(t))
       /\ \A s \in Sema : WF_allVars(at[t] = "down" /\ sema_down(t, s))

-----------------------------------------------------------------------------
(* Properties.                                                             *)

Asleep(s) == ToSet(sema[s].waiters)
OnTheWay(s) == {t \in Thread : on[t] = s /\ k.status[t] # "blocked"}

\* No lost wake-up: as long as a thread sleeps on s, every unit of its value
\* is owed to a woken thread that has not looked yet (sema_up, sema_down).
NoLostWakeup ==
  \A s \in Sema :
    sema[s].waiters # << >> => Cardinality(OnTheWay(s)) >= sema[s].value

\* struct thread has one elem for the run queue and the wait lists.  It can
\* serve both because they exclude each other (thread.h:82): the threads
\* asleep on s are blocked, on no other wait list, and not in a ready queue.
ElemOnOneList ==
  /\ SemaTypeOK
  /\ \A s \in Sema :
       /\ IsInjective(sema[s].waiters)
       /\ \A t \in Asleep(s) :
            /\ k.status[t] = "blocked"
            /\ ~Queued(k, t)
            /\ on[t] = s
            /\ \A r \in Sema \ {s} : t \notin Asleep(r)

\* sema_up never wakes a thread while one of higher priority stays asleep,
\* even if the priorities have changed since they went to sleep.
WakesHighest ==
  [][\A s \in Sema : \A t \in Asleep(s) \ Asleep(s)' :
       \A u \in Asleep(s)' : k.priority[u] <= k.priority[t]]_allVars

\* A unit that nobody has taken does not leave threads asleep for ever.
UnitsGetUsed ==
  \A s \in Sema :
    (sema[s].value > 0 /\ sema[s].waiters # << >>)
      ~> (sema[s].value = 0 \/ sema[s].waiters = << >>)

\* Threads of higher priority than t that could use the CPU.
Above(t) ==
  {u \in Thread : k.status[u] \in {"ready", "running"} /\ k.priority[u] > k.priority[t]}

\* Round robin: a ready thread gets the CPU, or has to give way to a thread of
\* higher priority, however long the others of its priority keep running,
\* because the timer ends their slice (thread_tick, thread_yield).
ReadyRuns ==
  \A t \in Thread \ {initial_thread} :
    (k.status[t] = "ready" /\ pc[t] = "run")
      ~> (k.status[t] = "running" \/ Above(t) # {})

\* Sleeping on a semaphore is a block, being woken an unblock, and nothing
\* else in synch.c touches the scheduler but its yield.
SemaImplementsThreads == Spec
=============================================================================
