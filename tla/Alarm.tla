------------------------------- MODULE Alarm -------------------------------
(***************************************************************************)
(* The alarm clock of devices/timer.c over the threads of Threads: a       *)
(* thread that calls timer_sleep joins sleep_list, ordered by wake-up      *)
(* tick, and blocks; the timer interrupt wakes every thread that is due.   *)
(* Every step is a step of Threads (AlarmSpec => Spec), with sleep_list    *)
(* as the reason why a thread waits.                                       *)
(***************************************************************************)
EXTENDS Threads

CONSTANTS Sleeps,   \* arguments passed to timer_sleep
          MaxTicks  \* bound of the model: later only other devices interrupt

ASSUME AlarmAssumption ==
  /\ Sleeps \subseteq Int
  /\ MaxTicks \in Nat

VARIABLES ticks, sleep_list, wakeup_tick,
          in_timer  \* the handler that runs is timer_interrupt

timerVars == <<ticks, sleep_list, wakeup_tick, in_timer>>
alarmVars == <<vars, timerVars>>

AlarmTypeOK ==
  /\ TypeOK
  /\ ticks \in 0..MaxTicks
  /\ sleep_list \in Seq(Thread)
  /\ wakeup_tick \in [Thread -> Nat]
  /\ in_timer \in BOOLEAN

\* timer_init.
AlarmInit ==
  /\ Init
  /\ ticks = 0
  /\ sleep_list = << >>
  /\ wakeup_tick = [t \in Thread |-> 0]
  /\ in_timer = FALSE

\* list_insert_ordered with sleep_less: before the first later thread.
InsertOrdered(q, t, w) ==
  InsertAt(q,
           Min({i \in 1..Len(q) + 1 : i = Len(q) + 1 \/ w[t] < w[q[i]]}),
           t)

\* Mutant: list_push_back.
InsertLast(q, t, w) == Append(q, t)

SleepInsert(q, t, w) == InsertOrdered(q, t, w)

\* A call with n <= 0 returns at once, without a step.
timer_sleep(t) ==
  /\ Block(t)
  /\ \E n \in Sleeps :
       /\ n > 0
       /\ wakeup_tick' = [wakeup_tick EXCEPT ![t] = ticks + n]
  /\ sleep_list' = SleepInsert(sleep_list, t, wakeup_tick')
  /\ UNCHANGED <<ticks, in_timer>>

-----------------------------------------------------------------------------
(* timer_interrupt: its loop wakes one thread a step, then it ends.        *)

TimerEnter ==
  /\ ticks < MaxTicks
  /\ IntrEnter
  /\ ticks' = ticks + 1
  /\ in_timer' = TRUE
  /\ UNCHANGED <<sleep_list, wakeup_tick>>

SomeoneDue == sleep_list # << >> /\ wakeup_tick[Head(sleep_list)] <= ticks

\* Mutant: the woken thread does not preempt a thread of lower priority.
WakeQuietly ==
  LET u == Head(sleep_list) IN
  /\ in_timer /\ SomeoneDue /\ InHandler
  /\ k' = thread_unblock(k, u)
  /\ Goto(u, "run")
  /\ sleep_list' = Tail(sleep_list)
  /\ UNCHANGED <<ticks, wakeup_tick, in_timer, idle_started, arg>>

\* Mutant: the thread leaves the list but is not unblocked.
WakeLost ==
  LET u == Head(sleep_list) IN
  /\ in_timer /\ SomeoneDue /\ InHandler
  /\ Goto(u, "run")
  /\ sleep_list' = Tail(sleep_list)
  /\ UNCHANGED <<k, ticks, wakeup_tick, in_timer, idle_started, arg>>

WakeFirst ==
  LET u == Head(sleep_list) IN
  /\ in_timer /\ SomeoneDue /\ InHandler
  /\ k' = IF k.priority[u] > k.priority[k.current]
          THEN intr_yield_on_return(thread_unblock(k, u))
          ELSE thread_unblock(k, u)
  /\ Goto(u, "run")
  /\ sleep_list' = Tail(sleep_list)
  /\ UNCHANGED <<ticks, wakeup_tick, in_timer, idle_started, arg>>

\* Mutant: at most one thread is woken a tick.
EndAtOnce ==
  /\ in_timer
  /\ TimerReturn
  /\ in_timer' = FALSE
  /\ UNCHANGED <<ticks, sleep_list, wakeup_tick>>

TimerEnd ==
  /\ in_timer /\ ~SomeoneDue
  /\ TimerReturn
  /\ in_timer' = FALSE
  /\ UNCHANGED <<ticks, sleep_list, wakeup_tick>>

timer_interrupt == TimerEnter \/ WakeFirst \/ TimerEnd

\* The interrupt of another device, whose handler wakes no sleeper.
OtherInterrupt ==
  /\ IntrEnter \/ (~in_timer /\ DeviceReturn)
  /\ UNCHANGED timerVars

-----------------------------------------------------------------------------

OtherStep(t) ==
  \/ thread_create(t)
  \/ idle(t)
  \/ Yield(t)
  \/ thread_set_priority(t)
  \/ Exit(t)

AlarmNext ==
  \/ Boot /\ UNCHANGED timerVars
  \/ \E t \in Thread : OtherStep(t) /\ UNCHANGED timerVars
  \/ \E t \in Thread : timer_sleep(t)
  \/ timer_interrupt
  \/ OtherInterrupt

AlarmSpec == AlarmInit /\ [][AlarmNext]_alarmVars

-----------------------------------------------------------------------------
(* Properties.                                                             *)

\* The sleeping threads are exactly the blocked ones on sleep_list, each once
\* and in the order of their wake-up ticks, and outside the handler none of
\* them is overdue: the handler may stop at the first that is not due
\* (timer.c:148).
SleepListExact ==
  /\ AlarmTypeOK
  /\ \A i \in DOMAIN sleep_list : k.status[sleep_list[i]] = "blocked"
  /\ IsInjective(sleep_list)
  /\ {t \in Thread : pc[t] = "waiting"} = ToSet(sleep_list)
  /\ \A i, j \in DOMAIN sleep_list :
       i < j => wakeup_tick[sleep_list[i]] <= wakeup_tick[sleep_list[j]]
  /\ ~k.in_external_intr =>
       \A i \in DOMAIN sleep_list : wakeup_tick[sleep_list[i]] > ticks

\* A sleeper is woken at the tick it asked for, neither early nor late,
\* whatever the others asked for (timer_sleep, timer_interrupt).
WokenOnTime ==
  [][\A t \in Thread :
       pc[t] = "waiting" /\ pc'[t] # "waiting" => wakeup_tick[t] = ticks]_alarmVars

\* Priority scheduling: a thread that is not about to yield never runs while
\* a thread of higher priority is ready; wake-ups, creations, priority
\* changes, exits and the end of a slice all hand the CPU over.
HighestRuns ==
  ~k.in_external_intr /\ pc[k.current] = "run" => ~has_higher_ready_thread(k)

\* The alarm clock only makes threads wait and wakes them as Threads allows:
\* one list insertion goes with one block, one removal with one unblock, and
\* each tick with one thread_tick.
AlarmImplementsThreads == Spec
=============================================================================
