------------------------------ MODULE Processes ------------------------------
(***************************************************************************)
(* Processes that fork, exec, exit and wait (userprog/process.c).  A       *)
(* parent and a child share one child_info in kernel memory; the child     *)
(* also reaches its parent's thread page through it.  One step is one      *)
(* access to that shared memory, or one semaphore operation, and a timer   *)
(* interrupt may come between any two.  An access to memory that has been  *)
(* freed ends the model with a fault: free and palloc_free_page fill what  *)
(* they free with 0xcc.                                                    *)
(***************************************************************************)
EXTENDS Integers, FiniteSets

CONSTANTS Page,           \* pages that can hold a struct thread
          initial_thread, \* the thread that starts the first process
          MaxTid,         \* bound of the model: processes ever created
          Status,         \* what processes pass to exit
          MaxLoad,        \* bound of the model: execs of one process
          NULL

Tid == 1 .. MaxTid
TID_ERROR == -1

ASSUME ProcessesAssumption ==
  /\ MaxTid \in Nat
  /\ MaxLoad \in Nat
  /\ Status \subseteq Int
  /\ initial_thread \in Page
  /\ NULL \notin Page \cup Int

VARIABLES info,            \* the struct child_info of each process
          memory,          \* is that block unused, live or freed
          child_info,      \* the thread's own
          children,        \* the list of its children's
          child_wait_sema, \* the value of its semaphore
          pc,              \* where the thread is; "free": no thread there
          child,           \* the child it has just created or waits for
          verdict,         \* history: how the process really ended
          fault            \* freed memory was touched

links == <<child_info, children, child>>
vars == <<info, memory, links, child_wait_sema, pc, verdict, fault>>

Info == [parent : Page, exit_status : Int, exited : BOOLEAN, waited : BOOLEAN,
         load_success : BOOLEAN, load_sema : Nat]

Where == {"free", "boot", "booted", "initd", "fork", "user", "failed",
          "loading", "looking", "sleeping", "exiting", "exited", "dying"}

\* Where a thread has not yet read its child_info for the last time.
UsesInfo == Where \ {"free", "dying"}

ProcTypeOK ==
  /\ info \in [Tid -> Info]
  /\ memory \in [Tid -> {"unused", "live", "freed"}]
  /\ child_info \in [Page -> Tid \cup {NULL}]
  /\ children \in [Page -> SUBSET Tid]
  /\ child_wait_sema \in [Page -> Nat]
  /\ pc \in [Page -> Where]
  /\ child \in [Page -> Tid \cup {NULL}]
  /\ verdict \in [Tid -> Int \cup {NULL}]
  /\ fault \in BOOLEAN

NewInfo(p) == [parent |-> p, exit_status |-> -1, exited |-> FALSE,
               waited |-> FALSE, load_success |-> FALSE, load_sema |-> 0]

ProcInit ==
  /\ info = [c \in Tid |-> NewInfo(initial_thread)]
  /\ memory = [c \in Tid |-> "unused"]
  /\ child_info = [p \in Page |-> NULL]
  /\ children = [p \in Page |-> {}]
  /\ child_wait_sema = [p \in Page |-> 0]
  /\ pc = [p \in Page |-> IF p = initial_thread THEN "boot" ELSE "free"]
  /\ child = [p \in Page |-> NULL]
  /\ verdict = [c \in Tid |-> NULL]
  /\ fault = FALSE

Goto(p, where) == pc' = [pc EXCEPT ![p] = where]

\* The thread at p still owns a child_info that nobody has freed.
Owns(p) == child_info[p] # NULL /\ memory[child_info[p]] = "live"
Mine(p) == info[child_info[p]]

\* The child_info of p has been freed and p is about to use it.
Stale(p) ==
  pc[p] \in UsesInfo /\ child_info[p] # NULL /\ memory[child_info[p]] = "freed"

-----------------------------------------------------------------------------
(* Creation.  A call that runs out of memory changes nothing that is       *)
(* modelled, and is not an action.                                         *)

\* allocate_tid counts up.
NextTid(c) ==
  memory[c] = "unused" /\ \A d \in Tid : d < c => memory[d] # "unused"

\* malloc and thread_create: p makes a child c, whose thread gets page q and
\* starts at start; p sleeps until the child has reported.
Create(p, c, q, start) ==
  /\ NextTid(c) /\ pc[q] = "free"
  /\ info' = [info EXCEPT ![c] = NewInfo(p)]
  /\ memory' = [memory EXCEPT ![c] = "live"]
  /\ child_info' = [child_info EXCEPT ![q] = c]
  /\ children' = [children EXCEPT ![q] = {}, ![p] = @ \cup {c}]
  /\ child_wait_sema' = [child_wait_sema EXCEPT ![q] = 0]
  /\ pc' = [pc EXCEPT ![q] = start, ![p] = "loading"]
  /\ child' = [child EXCEPT ![p] = c]
  /\ UNCHANGED <<verdict, fault>>

process_create_initd(p, c, q) == pc[p] = "boot" /\ Create(p, c, q, "initd")
process_fork(p, c, q) == pc[p] = "user" /\ Create(p, c, q, "fork")

\* Mutant: the parent is woken before load_success is written.
ReportEarly(p, ok) ==
  /\ info' = [info EXCEPT ![child_info[p]].load_sema = @ + 1]
  /\ UNCHANGED <<memory, links, child_wait_sema, fault>>

\* load_success and sema_up (load_sema), by __do_fork and process_exec.
Report(p, ok) ==
  /\ info' = [info EXCEPT ![child_info[p]].load_success = ok,
                          ![child_info[p]].load_sema = @ + 1]
  /\ UNCHANGED <<memory, links, child_wait_sema, fault>>

\* The copy of the parent is complete, or some allocation failed.
__do_fork(q) ==
  /\ pc[q] = "fork" /\ Owns(q)
  /\ \/ Report(q, TRUE) /\ Goto(q, "user") /\ UNCHANGED verdict
     \/ /\ Report(q, FALSE) /\ Goto(q, "exiting")
        /\ verdict' = [verdict EXCEPT ![child_info[q]] = -1]

\* initd has no syscall_exit around process_exec: exit_status stays -1.
process_exec(q) ==
  /\ pc[q] \in {"initd", "user"} /\ Owns(q)
  /\ Mine(q).load_sema < MaxLoad
  /\ \/ Report(q, TRUE) /\ Goto(q, "user") /\ UNCHANGED verdict
     \/ /\ Report(q, FALSE)
        /\ Goto(q, IF pc[q] = "initd" THEN "exiting" ELSE "failed")
        /\ verdict' = [verdict EXCEPT ![child_info[q]] = -1]

\* list_remove and free, which overwrites the block.
RemoveAndFree(p, c) ==
  /\ children' = [children EXCEPT ![p] = @ \ {c}]
  /\ memory' = [memory EXCEPT ![c] = "freed"]
  /\ info' = [info EXCEPT ![c] = NewInfo(initial_thread)]
  /\ verdict' = [verdict EXCEPT ![c] = NULL]

\* The parent wakes.  A failed fork takes the child off the list and frees it;
\* a failed initd stays on the list, and main waits for TID_ERROR in vain.
Loaded(p) ==
  LET c == child[p] IN
  /\ pc[p] = "loading" /\ info[c].load_sema > 0
  /\ child' = [child EXCEPT ![p] = NULL]
  /\ IF info[c].load_success \/ p = initial_thread
     THEN /\ Goto(p, IF p # initial_thread THEN "user"
                     ELSE IF info[c].load_success THEN "booted" ELSE "exiting")
          /\ info' = [info EXCEPT ![c].load_sema = @ - 1]
          /\ UNCHANGED <<memory, children, verdict>>
     ELSE /\ Goto(p, "user")
          /\ RemoveAndFree(p, c)
  /\ UNCHANGED <<child_info, child_wait_sema, fault>>

-----------------------------------------------------------------------------
(* Exit.                                                                   *)

\* Mutant: the status is not stored.
ExitInSilence(p) ==
  /\ pc[p] \in {"user", "failed"} /\ Owns(p)
  /\ \E s \in IF pc[p] = "user" THEN Status \cup {-1} ELSE {-1} :
       verdict' = [verdict EXCEPT ![child_info[p]] = s]
  /\ Goto(p, "exiting")
  /\ UNCHANGED <<info, memory, links, child_wait_sema, fault>>

\* syscall_exit, and kill for a process that page faults.
syscall_exit(p) ==
  /\ pc[p] \in {"user", "failed"} /\ Owns(p)
  /\ \E s \in IF pc[p] = "user" THEN Status \cup {-1} ELSE {-1} :
       /\ info' = [info EXCEPT ![child_info[p]].exit_status = s]
       /\ verdict' = [verdict EXCEPT ![child_info[p]] = s]
  /\ Goto(p, "exiting")
  /\ UNCHANGED <<memory, links, child_wait_sema, fault>>

\* process_exit, first the flag and then the parent's semaphore.
SetExited(p) ==
  /\ pc[p] = "exiting" /\ Owns(p)
  /\ info' = [info EXCEPT ![child_info[p]].exited = TRUE]
  /\ Goto(p, "exited")
  /\ UNCHANGED <<memory, links, child_wait_sema, verdict, fault>>

WakeParent(p) ==
  /\ pc[p] = "exited" /\ Owns(p)
  /\ pc[Mine(p).parent] # "free"
  /\ child_wait_sema' = [child_wait_sema EXCEPT ![Mine(p).parent] = @ + 1]
  /\ Goto(p, "dying")
  /\ UNCHANGED <<info, memory, links, verdict, fault>>

\* A thread without a child_info, which is main, only leaves.
LeaveQuietly(p) ==
  /\ pc[p] = "exiting" /\ child_info[p] = NULL
  /\ Goto(p, "dying")
  /\ UNCHANGED <<info, memory, links, child_wait_sema, verdict, fault>>

\* Mutant: the parent is woken before the flag is set.
WakeFirst(p) ==
  /\ pc[p] = "exiting" /\ Owns(p)
  /\ pc[Mine(p).parent] # "free"
  /\ child_wait_sema' = [child_wait_sema EXCEPT ![Mine(p).parent] = @ + 1]
  /\ Goto(p, "exited")
  /\ UNCHANGED <<info, memory, links, verdict, fault>>

FlagLast(p) ==
  /\ pc[p] = "exited" /\ Owns(p)
  /\ info' = [info EXCEPT ![child_info[p]].exited = TRUE]
  /\ Goto(p, "dying")
  /\ UNCHANGED <<memory, links, child_wait_sema, verdict, fault>>

FlagLater(p) == WakeFirst(p) \/ FlagLast(p) \/ LeaveQuietly(p)

process_exit(p) == SetExited(p) \/ WakeParent(p) \/ LeaveQuietly(p)

\* A later do_schedule frees the page, but never that of the first thread.
\* The blocks of children it did not wait for are never freed.
Destroy(p) ==
  /\ pc[p] = "dying" /\ p # initial_thread
  /\ Goto(p, "free")
  /\ child_info' = [child_info EXCEPT ![p] = NULL]
  /\ children' = [children EXCEPT ![p] = {}]
  /\ child_wait_sema' = [child_wait_sema EXCEPT ![p] = 0]
  /\ UNCHANGED <<info, memory, child, verdict, fault>>

-----------------------------------------------------------------------------
(* process_wait.                                                           *)

\* A tid that is on no list, or waited for already, returns -1 at once and
\* changes nothing.  main waits for initd, which it has just started.
BeginWait(p, c) ==
  /\ pc[p] \in {"user", "booted"}
  /\ c \in children[p] /\ ~info[c].waited
  /\ info' = [info EXCEPT ![c].waited = TRUE]
  /\ child' = [child EXCEPT ![p] = c]
  /\ Goto(p, "looking")
  /\ UNCHANGED <<memory, child_info, children, child_wait_sema, verdict, fault>>

\* The condition of the loop.
LookAgain(p) ==
  /\ pc[p] = "looking" /\ ~info[child[p]].exited
  /\ Goto(p, "sleeping")
  /\ UNCHANGED <<info, memory, links, child_wait_sema, verdict, fault>>

\* sema_down (&curr->child_wait_sema), which other children may also raise.
Wake(p) ==
  /\ pc[p] = "sleeping" /\ child_wait_sema[p] > 0
  /\ child_wait_sema' = [child_wait_sema EXCEPT ![p] = @ - 1]
  /\ Goto(p, "looking")
  /\ UNCHANGED <<info, memory, links, verdict, fault>>

Collect(p) ==
  LET c == child[p] IN
  /\ pc[p] = "looking" /\ info[c].exited
  /\ RemoveAndFree(p, c)
  /\ child' = [child EXCEPT ![p] = NULL]
  /\ Goto(p, IF p = initial_thread THEN "exiting" ELSE "user")
  /\ UNCHANGED <<child_info, child_wait_sema, fault>>

process_wait(p) == LookAgain(p) \/ Wake(p) \/ Collect(p)

-----------------------------------------------------------------------------

\* The child's own child_info was freed under it.
UseFreedInfo(p) ==
  /\ Stale(p)
  /\ fault' = TRUE
  /\ UNCHANGED <<info, memory, links, child_wait_sema, pc, verdict>>

\* The parent that child_info names has gone, and its page with it.
UpFreedPage(p) ==
  /\ pc[p] = "exited" /\ Owns(p) /\ pc[Mine(p).parent] = "free"
  /\ fault' = TRUE
  /\ UNCHANGED <<info, memory, links, child_wait_sema, pc, verdict>>

\* A call that has begun goes on.
Step(p) ==
  \/ __do_fork(p) \/ (pc[p] # "user" /\ process_exec(p)) \/ Loaded(p)
  \/ (pc[p] = "failed" /\ syscall_exit(p))
  \/ (pc[p] = "booted" /\ \E c \in Tid : BeginWait(p, c))
  \/ process_exit(p) \/ process_wait(p) \/ UseFreedInfo(p) \/ UpFreedPage(p)

ProcNext ==
  /\ ~fault
  /\ \E p \in Page :
       \/ \E c \in Tid, q \in Page \ {p} :
            process_create_initd(p, c, q) \/ process_fork(p, c, q)
       \/ \E c \in Tid : BeginWait(p, c)
       \/ process_exec(p) \/ syscall_exit(p)
       \/ Step(p)
       \/ Destroy(p)

ProcSpec == ProcInit /\ [][ProcNext]_vars

ProcFairSpec == ProcSpec /\ \A p \in Page : WF_vars(~fault /\ Step(p))

-----------------------------------------------------------------------------
(* Properties.                                                             *)

\* A parent that sleeps in process_wait with nothing left to wake it is
\* waiting for a child that has yet to make its sema_up: exits of other
\* children, which raise the same semaphore, use up nobody's wake-up.
NoLostExit ==
  \A p \in Page :
    pc[p] = "sleeping" /\ child_wait_sema[p] = 0 =>
      \E q \in Page : child_info[q] = child[p] /\ pc[q] \in UsesInfo

Waiting(p) == pc[p] \in {"looking", "sleeping"}

\* What wait will return is what the child really ended with, whether it
\* called exit, was killed or failed in exec.
ReportsVerdict ==
  \A c \in Tid :
    memory[c] = "live" /\ info[c].exited => info[c].exit_status = verdict[c]

\* Nobody frees the child_info of a process that has not begun to end: a
\* parent frees only what exit, a failed fork or a failed exec has released.
RunningOwnsInfo ==
  \A p \in Page \ {initial_thread} :
    pc[p] \in {"initd", "fork", "user", "loading", "looking", "sleeping"} => Owns(p)

\* A wait for a child that has exited returns, however many other children
\* exit meanwhile, unless the kernel has faulted.
WaitReturns ==
  \A p \in Page :
    (Waiting(p) /\ info[child[p]].exited) ~> (~Waiting(p) \/ fault)

\* process_fork returns TID_ERROR only if no new process runs.
ErrorMeansNoChild ==
  \A p \in Page : pc[p] = "failed" => Owns(p)
=============================================================================
