------------------------------ MODULE Threads ------------------------------
(***************************************************************************)
(* The life of kernel threads: thread_start brings up the idle thread,     *)
(* threads create others, sleep, are woken, change their priority, yield   *)
(* and exit, and their pages are freed and used again.  A timer interrupt  *)
(* may fall wherever the code runs with interrupts on.                     *)
(*                                                                         *)
(* pc[t] says where thread t is, arg[t] is the one pointer it holds there. *)
(* What a sleeping thread waits for is left open: any code may wake it.    *)
(***************************************************************************)
EXTENDS Synch

CONSTANTS NewPriority,   \* priorities passed to thread_create
          SetPriorities, \* priorities passed to thread_set_priority
          Donated        \* priorities passed to thread_update_priority

ASSUME ThreadsAssumption ==
  /\ NewPriority \subseteq Priority
  /\ SetPriorities \subseteq Priority
  /\ Donated \subseteq Priority

VARIABLES k,            \* the kernel state
          idle_started, \* the semaphore of thread_start
          pc, arg

vars == <<k, idle_started, pc, arg>>

\* Where the kernel runs with interrupts off between two steps of the model.
IntrOff == {"boot", "boot_create", "boot_created", "boot_recheck"}

Location ==
  IntrOff \cup {"none", "boot_down", "run", "create", "created",
                "set_priority", "waiting",
                "idle", "idle_up", "idle_yield", "idle_loop", "idle_halt"}

TypeOK ==
  /\ k \in KernelState
  /\ idle_started \in Semaphore
  /\ pc \in [Thread -> Location]
  /\ arg \in [Thread -> Thread \cup {NULL}]

Init ==
  /\ k = thread_init
  /\ idle_started = sema_init(0)
  /\ pc = [t \in Thread |-> IF t = initial_thread THEN "boot" ELSE "none"]
  /\ arg = [t \in Thread |-> NULL]

\* Thread t has the CPU, is at a given place, and the kernel has not stopped.
Runs(t, at) ==
  ~k.panic /\ ~k.in_external_intr /\ k.current = t /\ pc[t] = at

Goto(t, to) == pc' = [pc EXCEPT ![t] = to]

-----------------------------------------------------------------------------
(* thread_create, in three steps: the page is allocated and filled in; the *)
(* new thread becomes ready; the creator makes way for a higher priority.  *)

CreateThread(t, from, to, p, entry) ==
  /\ Runs(t, from)
  /\ \E u \in Thread :
       /\ k.status[u] = "free"
       /\ k' = init_thread(k, u, p)
       /\ pc' = [pc EXCEPT ![t] = to, ![u] = entry]
       /\ arg' = [arg EXCEPT ![t] = u, ![u] = NULL]
  /\ UNCHANGED idle_started

StartThread(t, from, to) ==
  /\ Runs(t, from)
  /\ k' = thread_unblock(k, arg[t])
  /\ Goto(t, to)
  /\ UNCHANGED <<idle_started, arg>>

YieldToArg(t, from, to) ==
  /\ Runs(t, from)
  /\ k' = YieldTo(k, arg[t])
  /\ Goto(t, to)
  /\ arg' = [arg EXCEPT ![t] = NULL]
  /\ UNCHANGED idle_started

thread_create(t) ==
  \/ \E p \in NewPriority : CreateThread(t, "run", "create", p, "run")
  \/ StartThread(t, "create", "created")
  \/ YieldToArg(t, "created", "run")

-----------------------------------------------------------------------------
(* thread_start: main creates the idle thread and waits until it has run.  *)

thread_start ==
  LET t == initial_thread IN
  \/ CreateThread(t, "boot", "boot_create", 0, "idle")
  \/ StartThread(t, "boot_create", "boot_created")
  \/ YieldToArg(t, "boot_created", "boot_down")

\* sema_down (&idle_started), its loop entered again when main is woken.
WaitForIdle(from) ==
  LET t == initial_thread IN
  /\ Runs(t, from)
  /\ IF Available(idle_started)
     THEN /\ idle_started' = sema_take(idle_started)
          /\ Goto(t, "run")
          /\ UNCHANGED k
     ELSE /\ k' = sema_wait(k, idle_started).kernel
          /\ idle_started' = sema_wait(k, idle_started).sema
          /\ Goto(t, "boot_recheck")
  /\ UNCHANGED arg

-----------------------------------------------------------------------------
(* idle.                                                                   *)

\* Mutant: idle_thread is not set.
IdleForgets(t) ==
  /\ Runs(t, "idle")
  /\ Goto(t, "idle_up")
  /\ UNCHANGED <<k, idle_started, arg>>

IdleBegins(t) ==
  /\ Runs(t, "idle")
  /\ k' = [k EXCEPT !.idle_thread = t]
  /\ Goto(t, "idle_up")
  /\ UNCHANGED <<idle_started, arg>>

IdleUps(t) ==
  /\ Runs(t, "idle_up")
  /\ k' = sema_up(k, idle_started).kernel
  /\ idle_started' = sema_up(k, idle_started).sema
  /\ arg' = [arg EXCEPT ![t] = Unblocked(k, idle_started)]
  /\ Goto(t, "idle_yield")

\* The scheduler gives the CPU to idle only when nothing else is ready; it
\* then halts until the next interrupt and blocks again.
IdleBlocks(t) ==
  /\ Runs(t, "idle_loop")
  /\ k' = thread_block(k)
  /\ Goto(t, "idle_halt")
  /\ UNCHANGED <<idle_started, arg>>

idle(t) ==
  \/ IdleBegins(t)
  \/ IdleUps(t)
  \/ YieldToArg(t, "idle_yield", "idle_loop")
  \/ IdleBlocks(t)

-----------------------------------------------------------------------------
(* The other calls a running thread makes.                                 *)

Yield(t) ==
  /\ Runs(t, "run")
  /\ k' = thread_yield(k)
  /\ UNCHANGED <<idle_started, pc, arg>>

Block(t) ==
  /\ Runs(t, "run")
  /\ k' = thread_block(k)
  /\ Goto(t, "waiting")
  /\ UNCHANGED <<idle_started, arg>>

Unblock(t) ==
  /\ Runs(t, "run")
  /\ \E u \in Thread :
       /\ pc[u] = "waiting"
       /\ k' = thread_unblock(k, u)
       /\ Goto(u, "run")
  /\ UNCHANGED <<idle_started, arg>>

\* Whether t has donations is left open here.
ChangePriority(t) ==
  /\ Runs(t, "run")
  /\ \E p \in SetPriorities, donated \in BOOLEAN : k' = SetPriority(k, donated, p)
  /\ Goto(t, "set_priority")
  /\ UNCHANGED <<idle_started, arg>>

YieldIfHigher(t) ==
  /\ Runs(t, "set_priority")
  /\ k' = IF has_higher_ready_thread(k) THEN thread_yield(k) ELSE k
  /\ Goto(t, "run")
  /\ UNCHANGED <<idle_started, arg>>

thread_set_priority(t) == ChangePriority(t) \/ YieldIfHigher(t)

\* A donation: t changes the priority of another thread.  The idle thread
\* holds no lock, so nobody donates to it.
UpdatePriority(t) ==
  /\ Runs(t, "run")
  /\ \E u \in Thread, p \in Donated :
       /\ k.status[u] # "free" /\ u # k.idle_thread
       /\ k' = thread_update_priority(k, u, p)
  /\ UNCHANGED <<idle_started, pc, arg>>

Exit(t) ==
  /\ Runs(t, "run")
  /\ k' = thread_exit(k)
  /\ Goto(t, "none")
  /\ UNCHANGED <<idle_started, arg>>

-----------------------------------------------------------------------------
(* External interrupts.  A handler runs to its end before any thread goes  *)
(* on; it wakes threads that wait for its device, and may ask for a yield. *)
(* One that finds the idle thread halted lets it go round its loop.        *)

Interruptible ==
  ~k.panic /\ ~k.in_external_intr /\ pc[k.current] \notin IntrOff

IntrEnter ==
  /\ Interruptible
  /\ k' = intr_enter(k)
  /\ UNCHANGED <<idle_started, pc, arg>>

InHandler == ~k.panic /\ k.in_external_intr

IntrUnblock(u) ==
  /\ InHandler
  /\ pc[u] = "waiting"
  /\ \/ k' = thread_unblock(k, u)
     \/ k' = intr_yield_on_return(thread_unblock(k, u))
  /\ Goto(u, "run")
  /\ UNCHANGED <<idle_started, arg>>

AfterHalt ==
  IF pc[k.current] = "idle_halt" THEN [pc EXCEPT ![k.current] = "idle_loop"]
  ELSE pc

DeviceReturn ==
  /\ InHandler
  /\ k' = intr_return(k)
  /\ pc' = AfterHalt
  /\ UNCHANGED <<idle_started, arg>>

\* timer_interrupt ends with thread_tick.
TimerReturn ==
  /\ InHandler
  /\ k' = intr_return(thread_tick(k))
  /\ pc' = AfterHalt
  /\ UNCHANGED <<idle_started, arg>>

Interrupt ==
  \/ IntrEnter
  \/ \E u \in Thread : IntrUnblock(u)
  \/ DeviceReturn
  \/ TimerReturn

-----------------------------------------------------------------------------

ThreadStep(t) ==
  \/ thread_create(t)
  \/ idle(t)
  \/ Yield(t)
  \/ Block(t)
  \/ Unblock(t)
  \/ thread_set_priority(t)
  \/ UpdatePriority(t)
  \/ Exit(t)

Boot == thread_start \/ WaitForIdle("boot_down") \/ WaitForIdle("boot_recheck")

Next ==
  \/ Boot
  \/ \E t \in Thread : ThreadStep(t)
  \/ Interrupt

Spec == Init /\ [][Next]_vars

\* The steps that complete a call which has begun.
Finish(t) ==
  \/ StartThread(t, "create", "created")
  \/ YieldToArg(t, "created", "run")
  \/ YieldIfHigher(t)

-----------------------------------------------------------------------------
(* Properties.                                                             *)

\* The assertions of the scheduler hold: thread_unblock (thread.c:249) is
\* only called on a blocked thread, and schedule (thread.c:609) always finds
\* a thread to run, the idle thread included, from the first switch on.
NoPanic == ~k.panic

\* A thread is in the ready queues exactly when it is ready, once, and in the
\* queue of the priority it has now: update_priority moves it with its
\* priority (thread.c:337).  The idle thread is never in them once
\* idle_thread is set, as the comment on idle() says (thread.c:392).
ReadyQueuesExact ==
  /\ \A p \in Priority :
       LET q == k.ready_queues[p] IN
       /\ \A i \in DOMAIN q : /\ k.status[q[i]] = "ready"
                             /\ k.priority[q[i]] = p
                             /\ q[i] # k.idle_thread
       /\ IsInjective(q)
  /\ \A t \in Thread :
       k.status[t] = "ready" /\ t # k.idle_thread =>
         Contains(k.ready_queues[k.priority[t]], t)

\* The CPU never runs on memory that palloc owns or is about to be given:
\* exactly the current thread is running (idle may have it too), a page
\* waits for its destruction once, is dying, and is not the current one.
DestructionSafe ==
  LET d == k.destruction_req IN
  /\ k.status[k.current] = "running"
  /\ \A t \in Thread : k.status[t] = "running" => t = k.current
  /\ \A i \in DOMAIN d : k.status[d[i]] = "dying" /\ d[i] # initial_thread
  /\ IsInjective(d)

\* A time slice is at most TIME_SLICE ticks: whenever interrupts can be
\* taken, the running thread has used fewer (thread_tick, schedule).
SliceBound == k.thread_ticks < TIME_SLICE

\* A switch never leaves a thread of higher priority behind in the queues
\* (next_thread_to_run), and the idle thread runs only if they are empty.
SwitchToHighest ==
  [][k'.current # k.current =>
       \A t \in Thread :
         Queued(k', t) => /\ k'.priority[t] <= k'.priority[k'.current]
                          /\ k'.current # k'.idle_thread]_vars
=============================================================================
