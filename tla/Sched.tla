------------------------------- MODULE Sched -------------------------------
(***************************************************************************)
(* The thread scheduler of threads/thread.c as operations on one value,    *)
(* the kernel state k.  The kernel runs on one CPU and every function here *)
(* runs with interrupts off, so a call is one indivisible step; a handler  *)
(* that makes several calls with interrupts off is their composition.      *)
(* Modules that run threads keep k in a VARIABLE and choose where a timer  *)
(* interrupt may fall between two such sections.                           *)
(*                                                                         *)
(* A member of Thread is a page that can hold a struct thread: it is       *)
(* "free" while palloc owns it.  list_* are the operations of the external *)
(* list library on the queues k holds.                                     *)
(***************************************************************************)
EXTENDS SequencesExt

CONSTANTS Thread,         \* pages that can hold a struct thread
          NULL,           \* the null pointer
          initial_thread, \* the page of the thread that runs main()
          PRI_MAX,        \* priorities are 0..PRI_MAX (63 in the code)
          PRI_DEFAULT,    \* the priority of main
          TIME_SLICE      \* timer ticks in a time slice (4 in the code)

ASSUME SchedAssumption ==
  /\ NULL \notin Thread
  /\ initial_thread \in Thread
  /\ PRI_MAX \in Nat
  /\ PRI_DEFAULT \in 0..PRI_MAX
  /\ TIME_SLICE \in Nat \ {0}

Priority == 0..PRI_MAX
Status == {"free", "blocked", "ready", "running", "dying"}

KernelState ==
  [current         : Thread,                   \* running_thread ()
   idle_thread     : Thread \cup {NULL},
   status          : [Thread -> Status],
   priority        : [Thread -> Priority],
   base_priority   : [Thread -> Priority],
   ready_queues    : [Priority -> Seq(Thread)],
   destruction_req : Seq(Thread),
   thread_ticks    : Nat,
   in_external_intr : BOOLEAN,                 \* interrupt.c: in a handler
   yield_on_return  : BOOLEAN,
   panic           : BOOLEAN]                  \* an ASSERT has failed

\* thread_init: the code that is running becomes the thread "main".
thread_init ==
  [current         |-> initial_thread,
   idle_thread     |-> NULL,
   status          |-> [t \in Thread |->
                         IF t = initial_thread THEN "running" ELSE "free"],
   priority        |-> [t \in Thread |-> PRI_DEFAULT],
   base_priority   |-> [t \in Thread |-> PRI_DEFAULT],
   ready_queues    |-> [p \in Priority |-> << >>],
   destruction_req |-> << >>,
   thread_ticks    |-> 0,
   in_external_intr |-> FALSE,
   yield_on_return |-> FALSE,
   panic           |-> FALSE]

Panic(k) == [k EXCEPT !.panic = TRUE]

-----------------------------------------------------------------------------
(* Choosing the next thread.                                               *)

list_push_back(k, p, t) == [k EXCEPT !.ready_queues[p] = Append(@, t)]
list_remove(k, p, t) == [k EXCEPT !.ready_queues[p] = RemoveFirst(@, t)]

NonEmpty(k) == {p \in Priority : k.ready_queues[p] # << >>}

\* The queues are scanned from PRI_MAX down; none ready means idle_thread.
LowestPriority(k) == Min(NonEmpty(k))   \* mutant: scanned from PRI_MIN up
TopPriority(k) == Max(NonEmpty(k))

next_thread_to_run(k) ==
  IF NonEmpty(k) = {} THEN k.idle_thread
  ELSE Head(k.ready_queues[TopPriority(k)])

PopNext(k) ==
  IF NonEmpty(k) = {} THEN k
  ELSE [k EXCEPT !.ready_queues[TopPriority(k)] = Tail(@)]

has_higher_ready_thread(k) ==
  \E p \in NonEmpty(k) : p > k.priority[k.current]

\* The status of the current thread has already been changed by the caller.
schedule(k) ==
  LET next == next_thread_to_run(k)
      \* a dying thread still runs on its page: freeing it is only requested
      doomed == /\ k.current # next
                /\ k.status[k.current] = "dying"
                /\ k.current # initial_thread
  IN  IF next = NULL THEN Panic(k)
      ELSE [PopNext(k) EXCEPT
              !.current = next,
              !.status[next] = "running",
              !.thread_ticks = 0,
              !.destruction_req = IF doomed THEN Append(@, k.current) ELSE @]

\* Mutant: the pages are freed but stay on the list.
FreeAgain(k) ==
  [k EXCEPT
     !.status = [t \in Thread |->
                   IF Contains(k.destruction_req, t) THEN "free" ELSE @[t]]]

\* palloc_free_page of every page on destruction_req.
FreePages(k) ==
  [k EXCEPT
     !.status = [t \in Thread |->
                   IF Contains(k.destruction_req, t) THEN "free" ELSE @[t]],
     !.destruction_req = << >>]

do_schedule(k, status) ==
  schedule([FreePages(k) EXCEPT !.status[k.current] = status])

-----------------------------------------------------------------------------
(* The operations other code calls.                                        *)

init_thread(k, t, p) ==
  [k EXCEPT !.status[t] = "blocked",
            !.priority[t] = p,
            !.base_priority[t] = p]

thread_block(k) == schedule([k EXCEPT !.status[k.current] = "blocked"])

\* Does not preempt the running thread.
thread_unblock(k, t) ==
  IF k.status[t] # "blocked" THEN Panic(k)
  ELSE [list_push_back(k, k.priority[t], t) EXCEPT !.status[t] = "ready"]

\* Mutants: the idle thread is queued like any other; a thread that yields
\* goes to the front of its queue.
YieldIdleToo(k) ==
  do_schedule(list_push_back(k, k.priority[k.current], k.current), "ready")

YieldToFront(k) ==
  LET curr == k.current
  IN  do_schedule(IF curr = k.idle_thread THEN k
                  ELSE [k EXCEPT !.ready_queues[k.priority[curr]] =
                                   <<curr>> \o @],
                  "ready")

thread_yield(k) ==
  LET curr == k.current
  IN  do_schedule(IF curr = k.idle_thread THEN k
                  ELSE list_push_back(k, k.priority[curr], curr),
                  "ready")

thread_exit(k) == do_schedule(k, "dying")

thread_update_priority(k, t, new_priority) ==
  [IF k.status[t] = "ready"
   THEN list_push_back(list_remove(k, k.priority[t], t), new_priority, t)
   ELSE k
   EXCEPT !.priority[t] = new_priority]

\* What thread_set_priority does before it asks has_higher_ready_thread;
\* donated says that the list donations of the current thread is not empty.
SetPriority(k, donated, new_priority) ==
  LET cur  == k.current
      base == [k EXCEPT !.base_priority[cur] = new_priority]
  IN  IF donated /\ new_priority <= k.priority[cur]
      THEN base
      ELSE thread_update_priority(base, cur, new_priority)

-----------------------------------------------------------------------------
(* External interrupts.  intr_handler clears yield_on_return, runs the      *)
(* handler, and yields if the handler has asked for it; nothing reads the  *)
(* flag outside, so it is cleared on the way out already.                  *)

intr_enter(k) == [k EXCEPT !.in_external_intr = TRUE, !.yield_on_return = FALSE]

intr_yield_on_return(k) == [k EXCEPT !.yield_on_return = TRUE]

intr_return(k) ==
  LET done == [k EXCEPT !.in_external_intr = FALSE, !.yield_on_return = FALSE]
  IN  IF k.yield_on_return THEN thread_yield(done) ELSE done

\* Mutant: a slice lasts one tick too long.
thread_tick_late(k) ==
  [k EXCEPT !.thread_ticks = @ + 1,
            !.yield_on_return = @ \/ k.thread_ticks + 1 > TIME_SLICE]

\* One more tick for the running thread; preemption at the end of its slice.
thread_tick(k) ==
  [k EXCEPT !.thread_ticks = @ + 1,
            !.yield_on_return = @ \/ k.thread_ticks + 1 >= TIME_SLICE]

-----------------------------------------------------------------------------
(* Reading the queues.                                                     *)

Queued(k, t) == \E p \in Priority : Contains(k.ready_queues[p], t)
=============================================================================
