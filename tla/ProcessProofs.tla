---------------------------- MODULE ProcessProofs ----------------------------
(***************************************************************************)
(* What Processes guarantees for any number of pages and processes.        *)
(***************************************************************************)
EXTENDS Processes, TLAPS

\* Where a process is whose fork or exec has succeeded and not failed since.
Running == {"user", "loading", "looking", "sleeping"}

\* A page holds a thread exactly when it has a child_info; only main has none.
PagesOK ==
  /\ child_info[initial_thread] = NULL
  /\ pc[initial_thread] \in {"boot", "booted", "loading", "looking",
                             "sleeping", "exiting", "dying"}
  /\ \A p \in Page \ {initial_thread} :
       /\ pc[p] \notin {"boot", "booted"}
       /\ pc[p] = "free" => child_info[p] = NULL /\ children[p] = {}
       /\ child_info[p] = NULL => pc[p] = "free"

OneOwner ==
  \A p, q \in Page : child_info[p] # NULL /\ child_info[p] = child_info[q] => p = q

Known == \A p \in Page : child_info[p] # NULL => memory[child_info[p]] # "unused"

\* Every block on a list is live and names the thread whose list it is.
ListsOK ==
  \A p \in Page : \A c \in children[p] : memory[c] = "live" /\ info[c].parent = p

WaitsOK ==
  \A p \in Page : pc[p] \in {"loading", "looking", "sleeping"} => child[p] \in children[p]

\* What a thread has written to its child_info by the time it is at pc.
OwnerOK ==
  \A p \in Page : Owns(p) =>
    /\ pc[p] \in {"initd", "fork"} => Mine(p).load_sema = 0
    /\ pc[p] \in Running => Mine(p).load_success
    /\ pc[p] \in Running \cup {"initd", "fork", "failed"} => Mine(p).exit_status = -1
    /\ pc[p] = "exiting" => Mine(p).exit_status = verdict[child_info[p]]
    /\ pc[p] \in UsesInfo \ {"exited"} => ~Mine(p).exited
    /\ pc[p] = "exited" => Mine(p).exited

\* A live block whose flag is not set still has a thread that will set it.
Kept ==
  \A c \in Tid : memory[c] = "live" /\ ~info[c].exited =>
    \E q \in Page : child_info[q] = c /\ pc[q] \in UsesInfo

ProcInv ==
  /\ ProcTypeOK /\ PagesOK /\ OneOwner /\ Known /\ ListsOK /\ WaitsOK
  /\ OwnerOK /\ Kept /\ NoLostExit /\ ReportsVerdict /\ RunningOwnsInfo

LEMMA NullNotTid == NULL \notin Tid
BY ProcessesAssumption DEF Tid

LEMMA CreateStep ==
  ASSUME ProcInv, NEW p \in Page, NEW c \in Tid, NEW q \in Page \ {p}, NEW start \in {"initd", "fork"},
         pc[p] \in {"boot", "user"}, Create(p, c, q, start)
  PROVE  ProcInv'
<1>1. /\ memory[c] = "unused" /\ q # initial_thread /\ child_info[q] = NULL /\ c # NULL
      /\ p = initial_thread \/ (pc[p] = "user" /\ Owns(p))
  BY ProcessesAssumption DEF ProcInv, Create, NextTid, PagesOK, RunningOwnsInfo,
     Tid
<1>2. /\ \A r \in Page : c \notin children[r] /\ child_info[r] # c /\ (pc[r] \in {"loading", "looking", "sleeping"} => child[r] # c)
  BY <1>1, NullNotTid DEF ProcInv, Known, ListsOK, WaitsOK
<1>3. ProcTypeOK'
  <2>1. info' \in [Tid -> Info]
    BY ProcessesAssumption, NullNotTid, <1>1, <1>2 DEF ProcInv, ProcTypeOK,
       Create, NewInfo, Info
  <2>2. memory' \in [Tid -> {"unused", "live", "freed"}]
    BY ProcessesAssumption, NullNotTid, <1>1 DEF ProcInv, ProcTypeOK, Create
  <2>3. child_info' \in [Page -> Tid \cup {NULL}]
    BY ProcessesAssumption, NullNotTid, <1>1 DEF ProcInv, ProcTypeOK, Create
  <2>4. children' \in [Page -> SUBSET Tid]
    BY ProcessesAssumption, NullNotTid, <1>1 DEF ProcInv, ProcTypeOK, Create
  <2>5. child_wait_sema' \in [Page -> Nat]
    BY ProcessesAssumption, NullNotTid, <1>1 DEF ProcInv, ProcTypeOK, Create
  <2>6. pc' \in [Page -> Where]
    BY ProcessesAssumption, NullNotTid, <1>1, <1>2 DEF ProcInv, ProcTypeOK,
       Create, Where
  <2>7. child' \in [Page -> Tid \cup {NULL}]
    BY ProcessesAssumption, NullNotTid, <1>1 DEF ProcInv, ProcTypeOK, Create
  <2>8. verdict' \in [Tid -> Int \cup {NULL}]
    BY ProcessesAssumption, NullNotTid, <1>1 DEF ProcInv, ProcTypeOK, Create
  <2>9. fault' \in BOOLEAN
    BY ProcessesAssumption, NullNotTid, <1>1 DEF ProcInv, ProcTypeOK, Create
  <2> QED BY <2>1, <2>2, <2>3, <2>4, <2>5, <2>6, <2>7, <2>8, <2>9 DEF ProcTypeOK
<1>4. PagesOK'
  BY ProcessesAssumption, NullNotTid, <1>1, <1>2, <1>3 DEF ProcInv, Create,
     ProcTypeOK, PagesOK
<1>5. OneOwner'
  BY ProcessesAssumption, NullNotTid, <1>1, <1>2, <1>3 DEF ProcInv, Create,
     OneOwner
<1>6. Known'
  BY ProcessesAssumption, NullNotTid, <1>1, <1>2, <1>3 DEF ProcInv, Create,
     ProcTypeOK, Known
<1>7. ListsOK'
  BY ProcessesAssumption, NullNotTid, <1>1, <1>2, <1>3 DEF ProcInv, Create,
     ProcTypeOK, PagesOK, OneOwner, Known, ListsOK, WaitsOK, OwnerOK, Kept,
     NoLostExit, NewInfo
<1>8. WaitsOK'
  BY ProcessesAssumption, NullNotTid, <1>1, <1>2, <1>3 DEF ProcInv, Create,
     ProcTypeOK, WaitsOK
<1>9. OwnerOK'
  BY ProcessesAssumption, NullNotTid, <1>1, <1>2, <1>3 DEF ProcInv, Create,
     ProcTypeOK, PagesOK, OneOwner, Known, ListsOK, WaitsOK, OwnerOK, Kept,
     NoLostExit, ReportsVerdict, RunningOwnsInfo, NextTid, Owns, Mine, NewInfo,
     UsesInfo, Running
<1>10. Kept'
  BY ProcessesAssumption, NullNotTid, <1>1, <1>2, <1>3 DEF ProcInv, Create,
     ProcTypeOK, PagesOK, OneOwner, Known, ListsOK, WaitsOK, OwnerOK, Kept,
     NoLostExit, RunningOwnsInfo, UsesInfo
<1>11. NoLostExit'
  BY ProcessesAssumption, NullNotTid, <1>1, <1>2, <1>3 DEF ProcInv, Create,
     ProcTypeOK, PagesOK, OneOwner, Known, ListsOK, WaitsOK, OwnerOK, Kept,
     NoLostExit, ReportsVerdict, RunningOwnsInfo, UsesInfo
<1>12. ReportsVerdict'
  BY ProcessesAssumption, NullNotTid, <1>1, <1>2, <1>3 DEF ProcInv, Create,
     ProcTypeOK, PagesOK, OneOwner, Known, ListsOK, WaitsOK, OwnerOK, Kept,
     NoLostExit, ReportsVerdict, NewInfo
<1>13. RunningOwnsInfo'
  BY ProcessesAssumption, NullNotTid, <1>1, <1>2, <1>3 DEF ProcInv, Create,
     ProcTypeOK, RunningOwnsInfo, Owns
<1> QED BY <1>3, <1>4, <1>5, <1>6, <1>7, <1>8, <1>9, <1>10, <1>11, <1>12, <1>13
           DEF ProcInv

LEMMA BeginWaitStep ==
  ASSUME ProcInv, NEW p \in Page, NEW c \in Tid, BeginWait(p, c)
  PROVE  ProcInv'
<1>1. [info[c] EXCEPT !.waited = TRUE] \in Info
  BY DEF ProcInv, ProcTypeOK, Info
<1>2. ProcTypeOK'
  <2>1. info' \in [Tid -> Info]
    BY ProcessesAssumption, NullNotTid, <1>1 DEF ProcInv, ProcTypeOK, BeginWait
  <2>2. memory' \in [Tid -> {"unused", "live", "freed"}]
    BY ProcessesAssumption, NullNotTid DEF ProcInv, ProcTypeOK, BeginWait
  <2>3. child_info' \in [Page -> Tid \cup {NULL}]
    BY ProcessesAssumption, NullNotTid DEF ProcInv, ProcTypeOK, BeginWait
  <2>4. children' \in [Page -> SUBSET Tid]
    BY ProcessesAssumption, NullNotTid DEF ProcInv, ProcTypeOK, BeginWait
  <2>5. child_wait_sema' \in [Page -> Nat]
    BY ProcessesAssumption, NullNotTid DEF ProcInv, ProcTypeOK, BeginWait
  <2>6. pc' \in [Page -> Where]
    BY ProcessesAssumption, NullNotTid, <1>1 DEF ProcInv, ProcTypeOK, BeginWait,
       Goto, Where
  <2>7. child' \in [Page -> Tid \cup {NULL}]
    BY ProcessesAssumption, NullNotTid DEF ProcInv, ProcTypeOK, BeginWait
  <2>8. verdict' \in [Tid -> Int \cup {NULL}]
    BY ProcessesAssumption, NullNotTid DEF ProcInv, ProcTypeOK, BeginWait
  <2>9. fault' \in BOOLEAN
    BY ProcessesAssumption, NullNotTid DEF ProcInv, ProcTypeOK, BeginWait
  <2> QED BY <2>1, <2>2, <2>3, <2>4, <2>5, <2>6, <2>7, <2>8, <2>9 DEF ProcTypeOK
<1>3. PagesOK'
  BY ProcessesAssumption, NullNotTid, <1>1, <1>2 DEF ProcInv, BeginWait,
     ProcTypeOK, PagesOK, Goto
<1>4. OneOwner'
  BY ProcessesAssumption, NullNotTid, <1>1, <1>2 DEF ProcInv, BeginWait,
     OneOwner
<1>5. Known'
  BY ProcessesAssumption, NullNotTid, <1>1, <1>2 DEF ProcInv, BeginWait, Known
<1>6. ListsOK'
  BY ProcessesAssumption, NullNotTid, <1>1, <1>2 DEF ProcInv, BeginWait, ListsOK
<1>7. WaitsOK'
  BY ProcessesAssumption, NullNotTid, <1>1, <1>2 DEF ProcInv, BeginWait,
     ProcTypeOK, WaitsOK, Goto
<1>8. OwnerOK'
  BY ProcessesAssumption, NullNotTid, <1>1, <1>2 DEF ProcInv, BeginWait,
     ProcTypeOK, PagesOK, OneOwner, Known, ListsOK, WaitsOK, OwnerOK, Kept,
     NoLostExit, ReportsVerdict, RunningOwnsInfo, NextTid, Goto, Owns, Mine,
     NewInfo, Info, UsesInfo, Running
<1>9. Kept'
  BY ProcessesAssumption, NullNotTid, <1>1, <1>2 DEF ProcInv, BeginWait,
     ProcTypeOK, PagesOK, OneOwner, Known, ListsOK, WaitsOK, OwnerOK, Kept,
     NoLostExit, ReportsVerdict, RunningOwnsInfo, NextTid, Goto, Owns, Mine,
     NewInfo, Info, UsesInfo
<1>10. NoLostExit'
  BY ProcessesAssumption, NullNotTid, <1>1, <1>2 DEF ProcInv, BeginWait,
     ProcTypeOK, PagesOK, OneOwner, Known, ListsOK, WaitsOK, OwnerOK, Kept,
     NoLostExit, ReportsVerdict, RunningOwnsInfo, NextTid, Goto, Owns, Mine,
     NewInfo, Info, UsesInfo
<1>11. ReportsVerdict'
  BY ProcessesAssumption, NullNotTid, <1>1, <1>2 DEF ProcInv, BeginWait,
     ReportsVerdict
<1>12. RunningOwnsInfo'
  BY ProcessesAssumption, NullNotTid, <1>1, <1>2 DEF ProcInv, BeginWait,
     ProcTypeOK, PagesOK, OneOwner, Known, ListsOK, WaitsOK, OwnerOK, Kept,
     NoLostExit, ReportsVerdict, RunningOwnsInfo, NextTid, Goto, Owns, Mine,
     NewInfo, Info
<1> QED BY <1>2, <1>3, <1>4, <1>5, <1>6, <1>7, <1>8, <1>9, <1>10, <1>11, <1>12
           DEF ProcInv

LEMMA DoForkStep ==
  ASSUME ProcInv, NEW p \in Page, __do_fork(p)
  PROVE  ProcInv'
<1>1. child_info[p] \in Tid /\ memory[child_info[p]] = "live" /\ pc[p] = "fork"
  BY DEF ProcInv, ProcTypeOK, __do_fork, Owns
<1>2. /\ info' \in [Tid -> Info]
      /\ \A d \in Tid \ {child_info[p]} : info'[d] = info[d]
      /\ info'[child_info[p]].parent = Mine(p).parent
      /\ info'[child_info[p]].exit_status = Mine(p).exit_status
      /\ info'[child_info[p]].exited = Mine(p).exited
      /\ pc'[p] = "user" => info'[child_info[p]].load_success
      /\ \/ pc'[p] \in {"exiting", "failed"} /\ verdict' = [verdict EXCEPT ![child_info[p]] = -1]
         \/ pc'[p] = "user" /\ verdict' = verdict
      /\ \E w \in {"user", "failed", "exiting"} : pc' = [pc EXCEPT ![p] = w] /\ (w = "failed" => pc[p] = "user")
      /\ UNCHANGED <<memory, child_info, children, child_wait_sema, child, fault>>
  BY <1>1 DEF ProcInv, ProcTypeOK, __do_fork, Report, Info
<1>3. ~Mine(p).exited
  BY <1>1, NullNotTid DEF ProcInv, OwnerOK, Owns, UsesInfo, Where
<1>4. ProcTypeOK'
  <2>1. info' \in [Tid -> Info]
    BY ProcessesAssumption, <1>2
  <2>2. memory' \in [Tid -> {"unused", "live", "freed"}]
    BY ProcessesAssumption, NullNotTid, <1>1, <1>2 DEF ProcInv, ProcTypeOK
  <2>3. child_info' \in [Page -> Tid \cup {NULL}]
    BY ProcessesAssumption, NullNotTid, <1>1, <1>2 DEF ProcInv, ProcTypeOK
  <2>4. children' \in [Page -> SUBSET Tid]
    BY ProcessesAssumption, NullNotTid, <1>1, <1>2 DEF ProcInv, ProcTypeOK
  <2>5. child_wait_sema' \in [Page -> Nat]
    BY ProcessesAssumption, NullNotTid, <1>1, <1>2 DEF ProcInv, ProcTypeOK
  <2>6. pc' \in [Page -> Where]
    BY ProcessesAssumption, NullNotTid, <1>1, <1>2 DEF ProcInv, ProcTypeOK,
       Where
  <2>7. child' \in [Page -> Tid \cup {NULL}]
    BY ProcessesAssumption, NullNotTid, <1>1, <1>2 DEF ProcInv, ProcTypeOK
  <2>8. verdict' \in [Tid -> Int \cup {NULL}]
    BY ProcessesAssumption, NullNotTid, <1>1, <1>2 DEF ProcInv, ProcTypeOK
  <2>9. fault' \in BOOLEAN
    BY ProcessesAssumption, NullNotTid, <1>1, <1>2 DEF ProcInv, ProcTypeOK
  <2> QED BY <2>1, <2>2, <2>3, <2>4, <2>5, <2>6, <2>7, <2>8, <2>9 DEF ProcTypeOK
<1>5. PagesOK'
  BY ProcessesAssumption, NullNotTid, <1>1, <1>2, <1>3 DEF ProcInv, PagesOK
<1>6. OneOwner'
  BY ProcessesAssumption, NullNotTid, <1>1, <1>2, <1>3 DEF ProcInv, OneOwner
<1>7. Known'
  BY ProcessesAssumption, NullNotTid, <1>1, <1>2, <1>3 DEF ProcInv, Known
<1>8. ListsOK'
  BY ProcessesAssumption, NullNotTid, <1>1, <1>2, <1>3, <1>4 DEF ProcInv,
     ProcTypeOK, ListsOK, Mine
<1>9. WaitsOK'
  BY ProcessesAssumption, NullNotTid, <1>1, <1>2, <1>3 DEF ProcInv, WaitsOK
<1>10. OwnerOK'
  BY ProcessesAssumption, NullNotTid, <1>1, <1>2, <1>3, <1>4 DEF ProcInv,
     ProcTypeOK, PagesOK, OneOwner, Known, ListsOK, WaitsOK, OwnerOK, Kept,
     NoLostExit, ReportsVerdict, RunningOwnsInfo, Owns, Mine, Running
<1>11. Kept'
  BY ProcessesAssumption, NullNotTid, <1>1, <1>2, <1>3, <1>4 DEF ProcInv,
     ProcTypeOK, PagesOK, OneOwner, Known, ListsOK, WaitsOK, OwnerOK, Kept,
     NoLostExit, UsesInfo
<1>12. NoLostExit'
  BY ProcessesAssumption, NullNotTid, <1>1, <1>2, <1>3, <1>4 DEF ProcInv,
     ProcTypeOK, PagesOK, OneOwner, Known, ListsOK, WaitsOK, OwnerOK, Kept,
     NoLostExit, UsesInfo
<1>13. ReportsVerdict'
  BY ProcessesAssumption, NullNotTid, <1>1, <1>2, <1>3 DEF ProcInv, ProcTypeOK,
     ReportsVerdict
<1>14. RunningOwnsInfo'
  BY ProcessesAssumption, NullNotTid, <1>1, <1>2, <1>3, <1>4 DEF ProcInv,
     RunningOwnsInfo, Owns
<1> QED BY <1>4, <1>5, <1>6, <1>7, <1>8, <1>9, <1>10, <1>11, <1>12, <1>13, <1>14
           DEF ProcInv

LEMMA ExecStep ==
  ASSUME ProcInv, NEW p \in Page, process_exec(p)
  PROVE  ProcInv'
<1>1. child_info[p] \in Tid /\ memory[child_info[p]] = "live" /\ pc[p] \in {"initd", "user"}
  BY DEF ProcInv, ProcTypeOK, process_exec, Owns
<1>2. /\ info' \in [Tid -> Info]
      /\ \A d \in Tid \ {child_info[p]} : info'[d] = info[d]
      /\ info'[child_info[p]].parent = Mine(p).parent
      /\ info'[child_info[p]].exit_status = Mine(p).exit_status
      /\ info'[child_info[p]].exited = Mine(p).exited
      /\ pc'[p] = "user" => info'[child_info[p]].load_success
      /\ \/ pc'[p] \in {"exiting", "failed"} /\ verdict' = [verdict EXCEPT ![child_info[p]] = -1]
         \/ pc'[p] = "user" /\ verdict' = verdict
      /\ \E w \in {"user", "failed", "exiting"} : pc' = [pc EXCEPT ![p] = w] /\ (w = "failed" => pc[p] = "user")
      /\ UNCHANGED <<memory, child_info, children, child_wait_sema, child, fault>>
  BY <1>1 DEF ProcInv, ProcTypeOK, process_exec, Report, Info
<1>3. ~Mine(p).exited
  BY <1>1, NullNotTid DEF ProcInv, OwnerOK, Owns, UsesInfo, Where
<1>4. ProcTypeOK'
  <2>1. info' \in [Tid -> Info]
    BY ProcessesAssumption, <1>2
  <2>2. memory' \in [Tid -> {"unused", "live", "freed"}]
    BY ProcessesAssumption, NullNotTid, <1>1, <1>2 DEF ProcInv, ProcTypeOK
  <2>3. child_info' \in [Page -> Tid \cup {NULL}]
    BY ProcessesAssumption, NullNotTid, <1>1, <1>2 DEF ProcInv, ProcTypeOK
  <2>4. children' \in [Page -> SUBSET Tid]
    BY ProcessesAssumption, NullNotTid, <1>1, <1>2 DEF ProcInv, ProcTypeOK
  <2>5. child_wait_sema' \in [Page -> Nat]
    BY ProcessesAssumption, NullNotTid, <1>1, <1>2 DEF ProcInv, ProcTypeOK
  <2>6. pc' \in [Page -> Where]
    BY ProcessesAssumption, NullNotTid, <1>1, <1>2 DEF ProcInv, ProcTypeOK,
       Where
  <2>7. child' \in [Page -> Tid \cup {NULL}]
    BY ProcessesAssumption, NullNotTid, <1>1, <1>2 DEF ProcInv, ProcTypeOK
  <2>8. verdict' \in [Tid -> Int \cup {NULL}]
    BY ProcessesAssumption, NullNotTid, <1>1, <1>2 DEF ProcInv, ProcTypeOK
  <2>9. fault' \in BOOLEAN
    BY ProcessesAssumption, NullNotTid, <1>1, <1>2 DEF ProcInv, ProcTypeOK
  <2> QED BY <2>1, <2>2, <2>3, <2>4, <2>5, <2>6, <2>7, <2>8, <2>9 DEF ProcTypeOK
<1>5. PagesOK'
  BY ProcessesAssumption, NullNotTid, <1>1, <1>2, <1>3 DEF ProcInv, PagesOK
<1>6. OneOwner'
  BY ProcessesAssumption, NullNotTid, <1>1, <1>2, <1>3 DEF ProcInv, OneOwner
<1>7. Known'
  BY ProcessesAssumption, NullNotTid, <1>1, <1>2, <1>3 DEF ProcInv, Known
<1>8. ListsOK'
  BY ProcessesAssumption, NullNotTid, <1>1, <1>2, <1>3, <1>4 DEF ProcInv,
     ProcTypeOK, ListsOK, Mine
<1>9. WaitsOK'
  BY ProcessesAssumption, NullNotTid, <1>1, <1>2, <1>3 DEF ProcInv, WaitsOK
<1>10. OwnerOK'
  BY ProcessesAssumption, NullNotTid, <1>1, <1>2, <1>3, <1>4 DEF ProcInv,
     ProcTypeOK, PagesOK, OneOwner, Known, ListsOK, WaitsOK, OwnerOK, Kept,
     NoLostExit, ReportsVerdict, RunningOwnsInfo, Owns, Mine, Running
<1>11. Kept'
  BY ProcessesAssumption, NullNotTid, <1>1, <1>2, <1>3, <1>4 DEF ProcInv,
     ProcTypeOK, PagesOK, OneOwner, Known, ListsOK, WaitsOK, OwnerOK, Kept,
     NoLostExit, UsesInfo
<1>12. NoLostExit'
  BY ProcessesAssumption, NullNotTid, <1>1, <1>2, <1>3, <1>4 DEF ProcInv,
     ProcTypeOK, PagesOK, OneOwner, Known, ListsOK, WaitsOK, OwnerOK, Kept,
     NoLostExit, UsesInfo
<1>13. ReportsVerdict'
  BY ProcessesAssumption, NullNotTid, <1>1, <1>2, <1>3 DEF ProcInv, ProcTypeOK,
     ReportsVerdict
<1>14. RunningOwnsInfo'
  BY ProcessesAssumption, NullNotTid, <1>1, <1>2, <1>3, <1>4 DEF ProcInv,
     RunningOwnsInfo, Owns
<1> QED BY <1>4, <1>5, <1>6, <1>7, <1>8, <1>9, <1>10, <1>11, <1>12, <1>13, <1>14
           DEF ProcInv

LEMMA ExitStep ==
  ASSUME ProcInv, NEW p \in Page, syscall_exit(p)
  PROVE  ProcInv'
<1>1. child_info[p] \in Tid /\ memory[child_info[p]] = "live" /\ pc[p] \in {"user", "failed"}
  BY DEF ProcInv, ProcTypeOK, syscall_exit, Owns
<1>2. \A s \in Int : [Mine(p) EXCEPT !.exit_status = s] \in Info
  BY <1>1 DEF ProcInv, ProcTypeOK, Info, Mine
<1>3. ProcTypeOK'
  <2>1. info' \in [Tid -> Info]
    BY ProcessesAssumption, NullNotTid, <1>1, <1>2 DEF ProcInv, ProcTypeOK,
       syscall_exit, Mine
  <2>2. memory' \in [Tid -> {"unused", "live", "freed"}]
    BY ProcessesAssumption, NullNotTid, <1>1 DEF ProcInv, ProcTypeOK,
       syscall_exit
  <2>3. child_info' \in [Page -> Tid \cup {NULL}]
    BY ProcessesAssumption, NullNotTid, <1>1, <1>2 DEF ProcInv, ProcTypeOK,
       syscall_exit, links
  <2>4. children' \in [Page -> SUBSET Tid]
    BY ProcessesAssumption, NullNotTid, <1>1, <1>2 DEF ProcInv, ProcTypeOK,
       syscall_exit, links
  <2>5. child_wait_sema' \in [Page -> Nat]
    BY ProcessesAssumption, NullNotTid, <1>1 DEF ProcInv, ProcTypeOK,
       syscall_exit
  <2>6. pc' \in [Page -> Where]
    BY ProcessesAssumption, NullNotTid, <1>1, <1>2 DEF ProcInv, ProcTypeOK,
       syscall_exit, Goto, Where
  <2>7. child' \in [Page -> Tid \cup {NULL}]
    BY ProcessesAssumption, NullNotTid, <1>1, <1>2 DEF ProcInv, ProcTypeOK,
       syscall_exit, links
  <2>8. verdict' \in [Tid -> Int \cup {NULL}]
    BY ProcessesAssumption, NullNotTid, <1>1 DEF ProcInv, ProcTypeOK,
       syscall_exit
  <2>9. fault' \in BOOLEAN
    BY ProcessesAssumption, NullNotTid, <1>1 DEF ProcInv, ProcTypeOK,
       syscall_exit
  <2> QED BY <2>1, <2>2, <2>3, <2>4, <2>5, <2>6, <2>7, <2>8, <2>9 DEF ProcTypeOK
<1>4. PagesOK'
  BY ProcessesAssumption, NullNotTid, <1>1, <1>2, <1>3 DEF ProcInv,
     syscall_exit, ProcTypeOK, PagesOK, Goto, links
<1>5. OneOwner'
  BY ProcessesAssumption, NullNotTid, <1>1, <1>2, <1>3 DEF ProcInv,
     syscall_exit, OneOwner, links
<1>6. Known'
  BY ProcessesAssumption, NullNotTid, <1>1, <1>2, <1>3 DEF ProcInv,
     syscall_exit, Known, links
<1>7. ListsOK'
  BY ProcessesAssumption, NullNotTid, <1>1, <1>2, <1>3 DEF ProcInv,
     syscall_exit, ListsOK, links
<1>8. WaitsOK'
  BY ProcessesAssumption, NullNotTid, <1>1, <1>2, <1>3 DEF ProcInv,
     syscall_exit, ProcTypeOK, WaitsOK, Goto, links
<1>9. OwnerOK'
  BY ProcessesAssumption, NullNotTid, <1>1, <1>2, <1>3 DEF ProcInv,
     syscall_exit, ProcTypeOK, PagesOK, OneOwner, Known, ListsOK, WaitsOK, OwnerOK,
     Kept, NoLostExit, ReportsVerdict, RunningOwnsInfo, NextTid, Goto, Owns, Mine,
     NewInfo, Info, UsesInfo, links, Running
<1>10. Kept'
  BY ProcessesAssumption, NullNotTid, <1>1, <1>2, <1>3 DEF ProcInv,
     syscall_exit, ProcTypeOK, PagesOK, OneOwner, Known, ListsOK, WaitsOK, OwnerOK,
     Kept, NoLostExit, ReportsVerdict, RunningOwnsInfo, NextTid, Goto, Owns, Mine,
     NewInfo, Info, UsesInfo, links
<1>11. NoLostExit'
  BY ProcessesAssumption, NullNotTid, <1>1, <1>2, <1>3 DEF ProcInv,
     syscall_exit, ProcTypeOK, PagesOK, OneOwner, Known, ListsOK, WaitsOK, OwnerOK,
     Kept, NoLostExit, ReportsVerdict, RunningOwnsInfo, NextTid, Goto, Owns, Mine,
     NewInfo, Info, UsesInfo, links
<1>12. ReportsVerdict'
  BY ProcessesAssumption, NullNotTid, <1>1, <1>2, <1>3 DEF ProcInv,
     syscall_exit, ProcTypeOK, ReportsVerdict
<1>13. RunningOwnsInfo'
  BY ProcessesAssumption, NullNotTid, <1>1, <1>2, <1>3 DEF ProcInv,
     syscall_exit, ProcTypeOK, RunningOwnsInfo, Goto, Owns, links
<1> QED BY <1>3, <1>4, <1>5, <1>6, <1>7, <1>8, <1>9, <1>10, <1>11, <1>12, <1>13
           DEF ProcInv

LEMMA FreeStep ==
  ASSUME ProcInv, NEW p \in Page, NEW c, c = child[p], pc[p] \in {"loading", "looking"},
         \A q \in Page : child_info[q] = c => pc[q] \notin Running \cup {"initd", "fork"},
         RemoveAndFree(p, c), child' = [child EXCEPT ![p] = NULL],
         Goto(p, IF p = initial_thread THEN "exiting" ELSE "user"),
         UNCHANGED <<child_info, child_wait_sema, fault>>
  PROVE  ProcInv'
<1>1. c \in Tid /\ c \in children[p] /\ memory[c] = "live" /\ info[c].parent = p
  BY DEF ProcInv, ProcTypeOK, WaitsOK, ListsOK
<1>2. p # initial_thread => Owns(p) /\ child_info[p] # c
  BY DEF ProcInv, RunningOwnsInfo, Running
<1>3. \A q \in Page \ {p} : c \notin children[q] /\ (pc[q] \in {"loading", "looking", "sleeping"} => child[q] # c)
  BY DEF ProcInv, ListsOK, WaitsOK
<1>4. ProcTypeOK'
  <2>1. info' \in [Tid -> Info]
    BY ProcessesAssumption, NullNotTid, <1>1, <1>2, <1>3 DEF ProcInv,
       ProcTypeOK, RemoveAndFree, NewInfo, Info
  <2>2. memory' \in [Tid -> {"unused", "live", "freed"}]
    BY ProcessesAssumption, NullNotTid, <1>1, <1>2 DEF ProcInv, ProcTypeOK,
       RemoveAndFree
  <2>3. child_info' \in [Page -> Tid \cup {NULL}]
    BY ProcessesAssumption, NullNotTid, <1>1 DEF ProcInv, ProcTypeOK
  <2>4. children' \in [Page -> SUBSET Tid]
    BY ProcessesAssumption, NullNotTid, <1>1, <1>2 DEF ProcInv, ProcTypeOK,
       RemoveAndFree
  <2>5. child_wait_sema' \in [Page -> Nat]
    BY ProcessesAssumption, NullNotTid, <1>1 DEF ProcInv, ProcTypeOK
  <2>6. pc' \in [Page -> Where]
    BY ProcessesAssumption, NullNotTid, <1>1, <1>2, <1>3 DEF ProcInv,
       ProcTypeOK, Goto, Where
  <2>7. child' \in [Page -> Tid \cup {NULL}]
    BY ProcessesAssumption, NullNotTid, <1>1 DEF ProcInv, ProcTypeOK
  <2>8. verdict' \in [Tid -> Int \cup {NULL}]
    BY ProcessesAssumption, NullNotTid, <1>1, <1>2 DEF ProcInv, ProcTypeOK,
       RemoveAndFree
  <2>9. fault' \in BOOLEAN
    BY ProcessesAssumption, NullNotTid, <1>1 DEF ProcInv, ProcTypeOK
  <2> QED BY <2>1, <2>2, <2>3, <2>4, <2>5, <2>6, <2>7, <2>8, <2>9 DEF ProcTypeOK
<1>5. PagesOK'
  BY ProcessesAssumption, NullNotTid, <1>1, <1>2, <1>3, <1>4 DEF ProcInv,
     RemoveAndFree, ProcTypeOK, PagesOK, Goto
<1>6. OneOwner'
  BY ProcessesAssumption, NullNotTid, <1>1, <1>2, <1>3, <1>4 DEF ProcInv,
     OneOwner
<1>7. Known'
  BY ProcessesAssumption, NullNotTid, <1>1, <1>2, <1>3, <1>4 DEF ProcInv,
     RemoveAndFree, Known
<1>8. ListsOK'
  BY ProcessesAssumption, NullNotTid, <1>1, <1>2, <1>3, <1>4 DEF ProcInv,
     RemoveAndFree, ProcTypeOK, ListsOK
<1>9. WaitsOK'
  BY ProcessesAssumption, NullNotTid, <1>1, <1>2, <1>3, <1>4 DEF ProcInv,
     RemoveAndFree, ProcTypeOK, WaitsOK, Goto
<1>10. OwnerOK'
  BY ProcessesAssumption, NullNotTid, <1>1, <1>2, <1>3, <1>4 DEF ProcInv,
     RemoveAndFree, ProcTypeOK, PagesOK, OneOwner, Known, ListsOK, WaitsOK,
     OwnerOK, Kept, NoLostExit, ReportsVerdict, RunningOwnsInfo, NextTid, Goto,
     Owns, Mine, NewInfo, Info, UsesInfo, Running
<1>11. Kept'
  BY ProcessesAssumption, NullNotTid, <1>1, <1>2, <1>3, <1>4 DEF ProcInv,
     RemoveAndFree, ProcTypeOK, PagesOK, OneOwner, Known, ListsOK, WaitsOK,
     OwnerOK, Kept, NoLostExit, ReportsVerdict, RunningOwnsInfo, NextTid, Goto,
     Owns, Mine, NewInfo, Info, UsesInfo
<1>12. NoLostExit'
  BY ProcessesAssumption, NullNotTid, <1>1, <1>2, <1>3, <1>4 DEF ProcInv,
     RemoveAndFree, ProcTypeOK, PagesOK, OneOwner, Known, ListsOK, WaitsOK,
     OwnerOK, Kept, NoLostExit, ReportsVerdict, RunningOwnsInfo, NextTid, Goto,
     Owns, Mine, NewInfo, Info, UsesInfo
<1>13. ReportsVerdict'
  BY ProcessesAssumption, NullNotTid, <1>1, <1>2, <1>3, <1>4 DEF ProcInv,
     RemoveAndFree, ProcTypeOK, ReportsVerdict
<1>14. RunningOwnsInfo'
  BY ProcessesAssumption, NullNotTid, <1>1, <1>2, <1>3, <1>4 DEF ProcInv,
     RemoveAndFree, ProcTypeOK, PagesOK, OneOwner, Known, ListsOK, WaitsOK,
     OwnerOK, Kept, NoLostExit, ReportsVerdict, RunningOwnsInfo, NextTid, Goto,
     Owns, Mine, NewInfo, Info, Running
<1> QED BY <1>4, <1>5, <1>6, <1>7, <1>8, <1>9, <1>10, <1>11, <1>12, <1>13, <1>14
           DEF ProcInv

LEMMA SetExitedStep ==
  ASSUME ProcInv, NEW p \in Page, SetExited(p)
  PROVE  ProcInv'
<1>1. child_info[p] \in Tid /\ memory[child_info[p]] = "live"
  BY DEF ProcInv, ProcTypeOK, SetExited, Owns
<1>2. Mine(p) \in Info
  BY <1>1 DEF ProcInv, ProcTypeOK, Mine
<1>3. Mine(p).parent \in Page /\ [Mine(p) EXCEPT !.exited = TRUE] \in Info
  BY <1>2 DEF Info
<1>4. ProcTypeOK'
  <2>1. info' \in [Tid -> Info]
    BY ProcessesAssumption, NullNotTid, <1>1, <1>2, <1>3 DEF ProcInv,
       ProcTypeOK, SetExited, Info
  <2>2. memory' \in [Tid -> {"unused", "live", "freed"}]
    BY ProcessesAssumption, NullNotTid, <1>1, <1>2 DEF ProcInv, ProcTypeOK,
       SetExited
  <2>3. child_info' \in [Page -> Tid \cup {NULL}]
    BY ProcessesAssumption, NullNotTid, <1>1, <1>2, <1>3 DEF ProcInv,
       ProcTypeOK, SetExited, links
  <2>4. children' \in [Page -> SUBSET Tid]
    BY ProcessesAssumption, NullNotTid, <1>1, <1>2, <1>3 DEF ProcInv,
       ProcTypeOK, SetExited, links
  <2>5. child_wait_sema' \in [Page -> Nat]
    BY ProcessesAssumption, NullNotTid, <1>1, <1>2 DEF ProcInv, ProcTypeOK,
       SetExited
  <2>6. pc' \in [Page -> Where]
    BY ProcessesAssumption, NullNotTid, <1>1, <1>2, <1>3 DEF ProcInv,
       ProcTypeOK, SetExited, Goto, Where
  <2>7. child' \in [Page -> Tid \cup {NULL}]
    BY ProcessesAssumption, NullNotTid, <1>1, <1>2, <1>3 DEF ProcInv,
       ProcTypeOK, SetExited, links
  <2>8. verdict' \in [Tid -> Int \cup {NULL}]
    BY ProcessesAssumption, NullNotTid, <1>1, <1>2 DEF ProcInv, ProcTypeOK,
       SetExited
  <2>9. fault' \in BOOLEAN
    BY ProcessesAssumption, NullNotTid, <1>1, <1>2 DEF ProcInv, ProcTypeOK,
       SetExited
  <2> QED BY <2>1, <2>2, <2>3, <2>4, <2>5, <2>6, <2>7, <2>8, <2>9 DEF ProcTypeOK
<1>5. PagesOK'
  BY ProcessesAssumption, NullNotTid, <1>1, <1>2, <1>3, <1>4 DEF ProcInv,
     SetExited, ProcTypeOK, PagesOK, Goto, links
<1>6. OneOwner'
  BY ProcessesAssumption, NullNotTid, <1>1, <1>2, <1>3, <1>4 DEF ProcInv,
     SetExited, OneOwner, links
<1>7. Known'
  BY ProcessesAssumption, NullNotTid, <1>1, <1>2, <1>3, <1>4 DEF ProcInv,
     SetExited, Known, links
<1>8. ListsOK'
  BY ProcessesAssumption, NullNotTid, <1>1, <1>2, <1>3, <1>4 DEF ProcInv,
     SetExited, ListsOK, links
<1>9. WaitsOK'
  BY ProcessesAssumption, NullNotTid, <1>1, <1>2, <1>3, <1>4 DEF ProcInv,
     SetExited, ProcTypeOK, WaitsOK, Goto, links
<1>10. OwnerOK'
  BY ProcessesAssumption, NullNotTid, <1>1, <1>2, <1>3, <1>4 DEF ProcInv,
     SetExited, ProcTypeOK, PagesOK, OneOwner, Known, ListsOK, WaitsOK, OwnerOK,
     Kept, NoLostExit, ReportsVerdict, RunningOwnsInfo, NextTid, Goto, Owns, Mine,
     NewInfo, Info, links, Running
<1>11. Kept'
  BY ProcessesAssumption, NullNotTid, <1>1, <1>2, <1>3, <1>4 DEF ProcInv,
     SetExited, ProcTypeOK, Kept, Goto, links
<1>12. NoLostExit'
  BY ProcessesAssumption, NullNotTid, <1>1, <1>2, <1>3, <1>4 DEF ProcInv,
     SetExited, ProcTypeOK, PagesOK, OneOwner, Known, ListsOK, WaitsOK, OwnerOK,
     Kept, NoLostExit, ReportsVerdict, RunningOwnsInfo, NextTid, Goto, Owns, Mine,
     NewInfo, Info, UsesInfo, links
<1>13. ReportsVerdict'
  BY ProcessesAssumption, NullNotTid, <1>1, <1>2, <1>3, <1>4 DEF ProcInv,
     SetExited, ProcTypeOK, PagesOK, OneOwner, Known, ListsOK, WaitsOK, OwnerOK,
     Kept, NoLostExit, ReportsVerdict, Mine
<1>14. RunningOwnsInfo'
  BY ProcessesAssumption, NullNotTid, <1>1, <1>2, <1>3, <1>4 DEF ProcInv,
     SetExited, ProcTypeOK, RunningOwnsInfo, Goto, Owns, links
<1> QED BY <1>4, <1>5, <1>6, <1>7, <1>8, <1>9, <1>10, <1>11, <1>12, <1>13, <1>14
           DEF ProcInv

LEMMA WakeParentStep ==
  ASSUME ProcInv, NEW p \in Page, WakeParent(p)
  PROVE  ProcInv'
<1>1. child_info[p] \in Tid /\ memory[child_info[p]] = "live"
  BY DEF ProcInv, ProcTypeOK, WakeParent, Owns
<1>2. Mine(p) \in Info
  BY <1>1 DEF ProcInv, ProcTypeOK, Mine
<1>3. Mine(p).parent \in Page /\ [Mine(p) EXCEPT !.exited = TRUE] \in Info
  BY <1>2 DEF Info
<1>4. ProcTypeOK'
  <2>1. info' \in [Tid -> Info]
    BY ProcessesAssumption, NullNotTid, <1>1, <1>2 DEF ProcInv, ProcTypeOK,
       WakeParent
  <2>2. memory' \in [Tid -> {"unused", "live", "freed"}]
    BY ProcessesAssumption, NullNotTid, <1>1, <1>2 DEF ProcInv, ProcTypeOK,
       WakeParent
  <2>3. child_info' \in [Page -> Tid \cup {NULL}]
    BY ProcessesAssumption, NullNotTid, <1>1, <1>2, <1>3 DEF ProcInv,
       ProcTypeOK, WakeParent, links
  <2>4. children' \in [Page -> SUBSET Tid]
    BY ProcessesAssumption, NullNotTid, <1>1, <1>2, <1>3 DEF ProcInv,
       ProcTypeOK, WakeParent, links
  <2>5. child_wait_sema' \in [Page -> Nat]
    BY ProcessesAssumption, NullNotTid, <1>1, <1>2, <1>3 DEF ProcInv,
       ProcTypeOK, WakeParent
  <2>6. pc' \in [Page -> Where]
    BY ProcessesAssumption, NullNotTid, <1>1, <1>2, <1>3 DEF ProcInv,
       ProcTypeOK, WakeParent, Goto, Where
  <2>7. child' \in [Page -> Tid \cup {NULL}]
    BY ProcessesAssumption, NullNotTid, <1>1, <1>2, <1>3 DEF ProcInv,
       ProcTypeOK, WakeParent, links
  <2>8. verdict' \in [Tid -> Int \cup {NULL}]
    BY ProcessesAssumption, NullNotTid, <1>1, <1>2 DEF ProcInv, ProcTypeOK,
       WakeParent
  <2>9. fault' \in BOOLEAN
    BY ProcessesAssumption, NullNotTid, <1>1, <1>2 DEF ProcInv, ProcTypeOK,
       WakeParent
  <2> QED BY <2>1, <2>2, <2>3, <2>4, <2>5, <2>6, <2>7, <2>8, <2>9 DEF ProcTypeOK
<1>5. PagesOK'
  BY ProcessesAssumption, NullNotTid, <1>1, <1>2, <1>3, <1>4 DEF ProcInv,
     WakeParent, ProcTypeOK, PagesOK, Goto, links
<1>6. OneOwner'
  BY ProcessesAssumption, NullNotTid, <1>1, <1>2, <1>3, <1>4 DEF ProcInv,
     WakeParent, OneOwner, links
<1>7. Known'
  BY ProcessesAssumption, NullNotTid, <1>1, <1>2, <1>3, <1>4 DEF ProcInv,
     WakeParent, Known, links
<1>8. ListsOK'
  BY ProcessesAssumption, NullNotTid, <1>1, <1>2, <1>3, <1>4 DEF ProcInv,
     WakeParent, ListsOK, links
<1>9. WaitsOK'
  BY ProcessesAssumption, NullNotTid, <1>1, <1>2, <1>3, <1>4 DEF ProcInv,
     WakeParent, ProcTypeOK, WaitsOK, Goto, links
<1>10. OwnerOK'
  BY ProcessesAssumption, NullNotTid, <1>1, <1>2, <1>3, <1>4 DEF ProcInv,
     WakeParent, ProcTypeOK, PagesOK, OneOwner, Known, ListsOK, WaitsOK, OwnerOK,
     Kept, NoLostExit, ReportsVerdict, RunningOwnsInfo, NextTid, Goto, Owns, Mine,
     NewInfo, Info, UsesInfo, links, Running
<1>11. Kept'
  BY ProcessesAssumption, NullNotTid, <1>1, <1>2, <1>3, <1>4 DEF ProcInv,
     WakeParent, ProcTypeOK, PagesOK, OneOwner, Known, ListsOK, WaitsOK, OwnerOK,
     Kept, NoLostExit, ReportsVerdict, RunningOwnsInfo, NextTid, Goto, Owns, Mine,
     NewInfo, Info, links
<1>12. NoLostExit'
  BY ProcessesAssumption, NullNotTid, <1>1, <1>2, <1>3, <1>4 DEF ProcInv,
     WakeParent, ProcTypeOK, PagesOK, OneOwner, Known, ListsOK, WaitsOK, OwnerOK,
     Kept, NoLostExit, ReportsVerdict, RunningOwnsInfo, NextTid, Goto, Owns, Mine,
     NewInfo, Info, links
<1>13. ReportsVerdict'
  BY ProcessesAssumption, NullNotTid, <1>1, <1>2, <1>3, <1>4 DEF ProcInv,
     WakeParent, ReportsVerdict
<1>14. RunningOwnsInfo'
  BY ProcessesAssumption, NullNotTid, <1>1, <1>2, <1>3, <1>4 DEF ProcInv,
     WakeParent, ProcTypeOK, RunningOwnsInfo, Goto, Owns, links
<1> QED BY <1>4, <1>5, <1>6, <1>7, <1>8, <1>9, <1>10, <1>11, <1>12, <1>13, <1>14
           DEF ProcInv

LEMMA LeaveQuietlyStep ==
  ASSUME ProcInv, NEW p \in Page, LeaveQuietly(p)
  PROVE  ProcInv'
<1>1. p = initial_thread
  BY DEF ProcInv, PagesOK, LeaveQuietly
<1>2. ProcTypeOK'
  <2>1. info' \in [Tid -> Info]
    BY ProcessesAssumption, NullNotTid DEF ProcInv, ProcTypeOK, LeaveQuietly
  <2>2. memory' \in [Tid -> {"unused", "live", "freed"}]
    BY ProcessesAssumption, NullNotTid DEF ProcInv, ProcTypeOK, LeaveQuietly
  <2>3. child_info' \in [Page -> Tid \cup {NULL}]
    BY ProcessesAssumption, NullNotTid, <1>1 DEF ProcInv, ProcTypeOK,
       LeaveQuietly, links
  <2>4. children' \in [Page -> SUBSET Tid]
    BY ProcessesAssumption, NullNotTid, <1>1 DEF ProcInv, ProcTypeOK,
       LeaveQuietly, links
  <2>5. child_wait_sema' \in [Page -> Nat]
    BY ProcessesAssumption, NullNotTid DEF ProcInv, ProcTypeOK, LeaveQuietly
  <2>6. pc' \in [Page -> Where]
    BY ProcessesAssumption, NullNotTid, <1>1 DEF ProcInv, ProcTypeOK,
       LeaveQuietly, Goto, Where
  <2>7. child' \in [Page -> Tid \cup {NULL}]
    BY ProcessesAssumption, NullNotTid, <1>1 DEF ProcInv, ProcTypeOK,
       LeaveQuietly, links
  <2>8. verdict' \in [Tid -> Int \cup {NULL}]
    BY ProcessesAssumption, NullNotTid DEF ProcInv, ProcTypeOK, LeaveQuietly
  <2>9. fault' \in BOOLEAN
    BY ProcessesAssumption, NullNotTid DEF ProcInv, ProcTypeOK, LeaveQuietly
  <2> QED BY <2>1, <2>2, <2>3, <2>4, <2>5, <2>6, <2>7, <2>8, <2>9 DEF ProcTypeOK
<1>3. PagesOK'
  BY ProcessesAssumption, NullNotTid, <1>1, <1>2 DEF ProcInv, LeaveQuietly,
     ProcTypeOK, PagesOK, Goto, links
<1>4. OneOwner'
  BY ProcessesAssumption, NullNotTid, <1>1, <1>2 DEF ProcInv, LeaveQuietly,
     OneOwner, links
<1>5. Known'
  BY ProcessesAssumption, NullNotTid, <1>1, <1>2 DEF ProcInv, LeaveQuietly,
     Known, links
<1>6. ListsOK'
  BY ProcessesAssumption, NullNotTid, <1>1, <1>2 DEF ProcInv, LeaveQuietly,
     ListsOK, links
<1>7. WaitsOK'
  BY ProcessesAssumption, NullNotTid, <1>1, <1>2 DEF ProcInv, LeaveQuietly,
     ProcTypeOK, WaitsOK, Goto, links
<1>8. OwnerOK'
  BY ProcessesAssumption, NullNotTid, <1>1, <1>2 DEF ProcInv, LeaveQuietly,
     ProcTypeOK, OwnerOK, Goto, Owns, Mine, links
<1>9. Kept'
  BY ProcessesAssumption, NullNotTid, <1>1, <1>2 DEF ProcInv, LeaveQuietly,
     ProcTypeOK, Kept, Goto, links
<1>10. NoLostExit'
  BY ProcessesAssumption, NullNotTid, <1>1, <1>2 DEF ProcInv, LeaveQuietly,
     ProcTypeOK, PagesOK, OneOwner, Known, ListsOK, WaitsOK, OwnerOK, Kept,
     NoLostExit, ReportsVerdict, RunningOwnsInfo, NextTid, Goto, Owns, Mine,
     NewInfo, Info, links
<1>11. ReportsVerdict'
  BY ProcessesAssumption, NullNotTid, <1>1, <1>2 DEF ProcInv, LeaveQuietly,
     ReportsVerdict
<1>12. RunningOwnsInfo'
  BY ProcessesAssumption, NullNotTid, <1>1, <1>2 DEF ProcInv, LeaveQuietly,
     ProcTypeOK, RunningOwnsInfo, Goto, Owns, links
<1> QED BY <1>2, <1>3, <1>4, <1>5, <1>6, <1>7, <1>8, <1>9, <1>10, <1>11, <1>12
           DEF ProcInv

LEMMA DestroyStep ==
  ASSUME ProcInv, NEW p \in Page, Destroy(p)
  PROVE  ProcInv'
<1>1. ProcTypeOK'
  <2>1. info' \in [Tid -> Info]
    BY ProcessesAssumption DEF ProcInv, ProcTypeOK, Destroy
  <2>2. memory' \in [Tid -> {"unused", "live", "freed"}]
    BY ProcessesAssumption DEF ProcInv, ProcTypeOK, Destroy
  <2>3. child_info' \in [Page -> Tid \cup {NULL}]
    BY ProcessesAssumption DEF ProcInv, ProcTypeOK, Destroy
  <2>4. children' \in [Page -> SUBSET Tid]
    BY ProcessesAssumption DEF ProcInv, ProcTypeOK, Destroy
  <2>5. child_wait_sema' \in [Page -> Nat]
    BY ProcessesAssumption DEF ProcInv, ProcTypeOK, Destroy
  <2>6. pc' \in [Page -> Where]
    BY ProcessesAssumption, NullNotTid DEF ProcInv, ProcTypeOK, Destroy, Goto,
       Where
  <2>7. child' \in [Page -> Tid \cup {NULL}]
    BY ProcessesAssumption DEF ProcInv, ProcTypeOK, Destroy
  <2>8. verdict' \in [Tid -> Int \cup {NULL}]
    BY ProcessesAssumption DEF ProcInv, ProcTypeOK, Destroy
  <2>9. fault' \in BOOLEAN
    BY ProcessesAssumption DEF ProcInv, ProcTypeOK, Destroy
  <2> QED BY <2>1, <2>2, <2>3, <2>4, <2>5, <2>6, <2>7, <2>8, <2>9 DEF ProcTypeOK
<1>2. PagesOK'
  BY ProcessesAssumption, NullNotTid, <1>1 DEF ProcInv, Destroy, ProcTypeOK,
     PagesOK, Goto
<1>3. OneOwner'
  BY ProcessesAssumption, NullNotTid, <1>1 DEF ProcInv, Destroy, OneOwner
<1>4. Known'
  BY ProcessesAssumption, NullNotTid, <1>1 DEF ProcInv, Destroy, Known
<1>5. ListsOK'
  BY ProcessesAssumption, NullNotTid, <1>1 DEF ProcInv, Destroy, ListsOK
<1>6. WaitsOK'
  BY ProcessesAssumption, NullNotTid, <1>1 DEF ProcInv, Destroy, ProcTypeOK,
     WaitsOK, Goto
<1>7. OwnerOK'
  BY ProcessesAssumption, NullNotTid, <1>1 DEF ProcInv, Destroy, ProcTypeOK,
     OwnerOK, Goto, Owns, Mine
<1>8. Kept'
  BY ProcessesAssumption, NullNotTid, <1>1 DEF ProcInv, Destroy, ProcTypeOK,
     PagesOK, OneOwner, Known, ListsOK, WaitsOK, OwnerOK, Kept, NoLostExit,
     ReportsVerdict, RunningOwnsInfo, NextTid, Goto, Owns, Mine, NewInfo, Info,
     UsesInfo
<1>9. NoLostExit'
  BY ProcessesAssumption, NullNotTid, <1>1 DEF ProcInv, Destroy, ProcTypeOK,
     PagesOK, OneOwner, Known, ListsOK, WaitsOK, OwnerOK, Kept, NoLostExit,
     ReportsVerdict, RunningOwnsInfo, NextTid, Goto, Owns, Mine, NewInfo, Info,
     UsesInfo
<1>10. ReportsVerdict'
  BY ProcessesAssumption, NullNotTid, <1>1 DEF ProcInv, Destroy, ReportsVerdict
<1>11. RunningOwnsInfo'
  BY ProcessesAssumption, NullNotTid, <1>1 DEF ProcInv, Destroy, ProcTypeOK,
     RunningOwnsInfo, Goto, Owns
<1> QED BY <1>1, <1>2, <1>3, <1>4, <1>5, <1>6, <1>7, <1>8, <1>9, <1>10, <1>11
           DEF ProcInv

LEMMA LookAgainStep ==
  ASSUME ProcInv, NEW p \in Page, LookAgain(p)
  PROVE  ProcInv'
<1>1. ProcTypeOK'
  <2>1. info' \in [Tid -> Info]
    BY ProcessesAssumption DEF ProcInv, ProcTypeOK, LookAgain
  <2>2. memory' \in [Tid -> {"unused", "live", "freed"}]
    BY ProcessesAssumption DEF ProcInv, ProcTypeOK, LookAgain
  <2>3. child_info' \in [Page -> Tid \cup {NULL}]
    BY ProcessesAssumption, NullNotTid DEF ProcInv, ProcTypeOK, LookAgain, links
  <2>4. children' \in [Page -> SUBSET Tid]
    BY ProcessesAssumption, NullNotTid DEF ProcInv, ProcTypeOK, LookAgain, links
  <2>5. child_wait_sema' \in [Page -> Nat]
    BY ProcessesAssumption DEF ProcInv, ProcTypeOK, LookAgain
  <2>6. pc' \in [Page -> Where]
    BY ProcessesAssumption, NullNotTid DEF ProcInv, ProcTypeOK, LookAgain, Goto,
       Where
  <2>7. child' \in [Page -> Tid \cup {NULL}]
    BY ProcessesAssumption, NullNotTid DEF ProcInv, ProcTypeOK, LookAgain, links
  <2>8. verdict' \in [Tid -> Int \cup {NULL}]
    BY ProcessesAssumption DEF ProcInv, ProcTypeOK, LookAgain
  <2>9. fault' \in BOOLEAN
    BY ProcessesAssumption DEF ProcInv, ProcTypeOK, LookAgain
  <2> QED BY <2>1, <2>2, <2>3, <2>4, <2>5, <2>6, <2>7, <2>8, <2>9 DEF ProcTypeOK
<1>2. PagesOK'
  BY ProcessesAssumption, NullNotTid, <1>1 DEF ProcInv, LookAgain, ProcTypeOK,
     PagesOK, Goto, links
<1>3. OneOwner'
  BY ProcessesAssumption, NullNotTid, <1>1 DEF ProcInv, LookAgain, OneOwner,
     links
<1>4. Known'
  BY ProcessesAssumption, NullNotTid, <1>1 DEF ProcInv, LookAgain, Known, links
<1>5. ListsOK'
  BY ProcessesAssumption, NullNotTid, <1>1 DEF ProcInv, LookAgain, ListsOK,
     links
<1>6. WaitsOK'
  BY ProcessesAssumption, NullNotTid, <1>1 DEF ProcInv, LookAgain, ProcTypeOK,
     WaitsOK, Goto, links
<1>7. OwnerOK'
  BY ProcessesAssumption, NullNotTid, <1>1 DEF ProcInv, LookAgain, ProcTypeOK,
     PagesOK, OneOwner, Known, ListsOK, WaitsOK, OwnerOK, Kept, NoLostExit,
     ReportsVerdict, RunningOwnsInfo, NextTid, Goto, Owns, Mine, NewInfo, Info,
     UsesInfo, links, Running
<1>8. Kept'
  BY ProcessesAssumption, NullNotTid, <1>1 DEF ProcInv, LookAgain, ProcTypeOK,
     PagesOK, OneOwner, Known, ListsOK, WaitsOK, OwnerOK, Kept, NoLostExit,
     ReportsVerdict, RunningOwnsInfo, NextTid, Goto, Owns, Mine, NewInfo, Info,
     UsesInfo, links
<1>9. NoLostExit'
  BY ProcessesAssumption, NullNotTid, <1>1 DEF ProcInv, LookAgain, ProcTypeOK,
     PagesOK, OneOwner, Known, ListsOK, WaitsOK, OwnerOK, Kept, NoLostExit,
     ReportsVerdict, RunningOwnsInfo, NextTid, Goto, Owns, Mine, NewInfo, Info,
     UsesInfo, links
<1>10. ReportsVerdict'
  BY ProcessesAssumption, NullNotTid, <1>1 DEF ProcInv, LookAgain,
     ReportsVerdict
<1>11. RunningOwnsInfo'
  BY ProcessesAssumption, NullNotTid, <1>1 DEF ProcInv, LookAgain, ProcTypeOK,
     RunningOwnsInfo, Goto, Owns, links
<1> QED BY <1>1, <1>2, <1>3, <1>4, <1>5, <1>6, <1>7, <1>8, <1>9, <1>10, <1>11
           DEF ProcInv

LEMMA WakeStep ==
  ASSUME ProcInv, NEW p \in Page, Wake(p)
  PROVE  ProcInv'
<1>1. ProcTypeOK'
  <2>1. info' \in [Tid -> Info]
    BY ProcessesAssumption DEF ProcInv, ProcTypeOK, Wake
  <2>2. memory' \in [Tid -> {"unused", "live", "freed"}]
    BY ProcessesAssumption DEF ProcInv, ProcTypeOK, Wake
  <2>3. child_info' \in [Page -> Tid \cup {NULL}]
    BY ProcessesAssumption, NullNotTid DEF ProcInv, ProcTypeOK, Wake, links
  <2>4. children' \in [Page -> SUBSET Tid]
    BY ProcessesAssumption, NullNotTid DEF ProcInv, ProcTypeOK, Wake, links
  <2>5. child_wait_sema' \in [Page -> Nat]
    BY ProcessesAssumption DEF ProcInv, ProcTypeOK, Wake
  <2>6. pc' \in [Page -> Where]
    BY ProcessesAssumption, NullNotTid DEF ProcInv, ProcTypeOK, Wake, Goto,
       Where
  <2>7. child' \in [Page -> Tid \cup {NULL}]
    BY ProcessesAssumption, NullNotTid DEF ProcInv, ProcTypeOK, Wake, links
  <2>8. verdict' \in [Tid -> Int \cup {NULL}]
    BY ProcessesAssumption DEF ProcInv, ProcTypeOK, Wake
  <2>9. fault' \in BOOLEAN
    BY ProcessesAssumption DEF ProcInv, ProcTypeOK, Wake
  <2> QED BY <2>1, <2>2, <2>3, <2>4, <2>5, <2>6, <2>7, <2>8, <2>9 DEF ProcTypeOK
<1>2. PagesOK'
  BY ProcessesAssumption, NullNotTid, <1>1 DEF ProcInv, Wake, ProcTypeOK,
     PagesOK, Goto, links
<1>3. OneOwner'
  BY ProcessesAssumption, NullNotTid, <1>1 DEF ProcInv, Wake, OneOwner, links
<1>4. Known'
  BY ProcessesAssumption, NullNotTid, <1>1 DEF ProcInv, Wake, Known, links
<1>5. ListsOK'
  BY ProcessesAssumption, NullNotTid, <1>1 DEF ProcInv, Wake, ListsOK, links
<1>6. WaitsOK'
  BY ProcessesAssumption, NullNotTid, <1>1 DEF ProcInv, Wake, ProcTypeOK,
     WaitsOK, Goto, links
<1>7. OwnerOK'
  BY ProcessesAssumption, NullNotTid, <1>1 DEF ProcInv, Wake, ProcTypeOK,
     PagesOK, OneOwner, Known, ListsOK, WaitsOK, OwnerOK, Kept, NoLostExit,
     ReportsVerdict, RunningOwnsInfo, NextTid, Goto, Owns, Mine, NewInfo, Info,
     UsesInfo, links, Running
<1>8. Kept'
  BY ProcessesAssumption, NullNotTid, <1>1 DEF ProcInv, Wake, ProcTypeOK,
     PagesOK, OneOwner, Known, ListsOK, WaitsOK, OwnerOK, Kept, NoLostExit,
     ReportsVerdict, RunningOwnsInfo, NextTid, Goto, Owns, Mine, NewInfo, Info,
     UsesInfo, links
<1>9. NoLostExit'
  BY ProcessesAssumption, NullNotTid, <1>1 DEF ProcInv, Wake, ProcTypeOK,
     PagesOK, OneOwner, Known, ListsOK, WaitsOK, OwnerOK, Kept, NoLostExit,
     ReportsVerdict, RunningOwnsInfo, NextTid, Goto, Owns, Mine, NewInfo, Info,
     UsesInfo, links
<1>10. ReportsVerdict'
  BY ProcessesAssumption, NullNotTid, <1>1 DEF ProcInv, Wake, ReportsVerdict
<1>11. RunningOwnsInfo'
  BY ProcessesAssumption, NullNotTid, <1>1 DEF ProcInv, Wake, ProcTypeOK,
     RunningOwnsInfo, Goto, Owns, links
<1> QED BY <1>1, <1>2, <1>3, <1>4, <1>5, <1>6, <1>7, <1>8, <1>9, <1>10, <1>11
           DEF ProcInv

LEMMA UseFreedInfoStep ==
  ASSUME ProcInv, NEW p \in Page, UseFreedInfo(p)
  PROVE  ProcInv'
<1>1. ProcTypeOK'
  <2>1. info' \in [Tid -> Info]
    BY ProcessesAssumption DEF ProcInv, ProcTypeOK, UseFreedInfo
  <2>2. memory' \in [Tid -> {"unused", "live", "freed"}]
    BY ProcessesAssumption DEF ProcInv, ProcTypeOK, UseFreedInfo
  <2>3. child_info' \in [Page -> Tid \cup {NULL}]
    BY ProcessesAssumption, NullNotTid DEF ProcInv, ProcTypeOK, UseFreedInfo,
       links
  <2>4. children' \in [Page -> SUBSET Tid]
    BY ProcessesAssumption, NullNotTid DEF ProcInv, ProcTypeOK, UseFreedInfo,
       links
  <2>5. child_wait_sema' \in [Page -> Nat]
    BY ProcessesAssumption DEF ProcInv, ProcTypeOK, UseFreedInfo
  <2>6. pc' \in [Page -> Where]
    BY ProcessesAssumption DEF ProcInv, ProcTypeOK, UseFreedInfo
  <2>7. child' \in [Page -> Tid \cup {NULL}]
    BY ProcessesAssumption, NullNotTid DEF ProcInv, ProcTypeOK, UseFreedInfo,
       links
  <2>8. verdict' \in [Tid -> Int \cup {NULL}]
    BY ProcessesAssumption DEF ProcInv, ProcTypeOK, UseFreedInfo
  <2>9. fault' \in BOOLEAN
    BY DEF UseFreedInfo
  <2> QED BY <2>1, <2>2, <2>3, <2>4, <2>5, <2>6, <2>7, <2>8, <2>9 DEF ProcTypeOK
<1>2. PagesOK'
  BY ProcessesAssumption, NullNotTid, <1>1 DEF ProcInv, UseFreedInfo, PagesOK,
     links
<1>3. OneOwner'
  BY ProcessesAssumption, NullNotTid, <1>1 DEF ProcInv, UseFreedInfo, OneOwner,
     links
<1>4. Known'
  BY ProcessesAssumption, NullNotTid, <1>1 DEF ProcInv, UseFreedInfo, Known,
     links
<1>5. ListsOK'
  BY ProcessesAssumption, NullNotTid, <1>1 DEF ProcInv, UseFreedInfo, ListsOK,
     links
<1>6. WaitsOK'
  BY ProcessesAssumption, NullNotTid, <1>1 DEF ProcInv, UseFreedInfo, WaitsOK,
     links
<1>7. OwnerOK'
  BY ProcessesAssumption, NullNotTid, <1>1 DEF ProcInv, UseFreedInfo,
     ProcTypeOK, OwnerOK, Owns, Mine, links
<1>8. Kept'
  BY ProcessesAssumption, NullNotTid, <1>1 DEF ProcInv, UseFreedInfo, Kept,
     links
<1>9. NoLostExit'
  BY ProcessesAssumption, NullNotTid, <1>1 DEF ProcInv, UseFreedInfo,
     NoLostExit, links
<1>10. ReportsVerdict'
  BY ProcessesAssumption, NullNotTid, <1>1 DEF ProcInv, UseFreedInfo,
     ReportsVerdict
<1>11. RunningOwnsInfo'
  BY ProcessesAssumption, NullNotTid, <1>1 DEF ProcInv, UseFreedInfo,
     RunningOwnsInfo, Owns, links
<1> QED BY <1>1, <1>2, <1>3, <1>4, <1>5, <1>6, <1>7, <1>8, <1>9, <1>10, <1>11
           DEF ProcInv

LEMMA UpFreedPageStep ==
  ASSUME ProcInv, NEW p \in Page, UpFreedPage(p)
  PROVE  ProcInv'
<1>1. ProcTypeOK'
  <2>1. info' \in [Tid -> Info]
    BY ProcessesAssumption DEF ProcInv, ProcTypeOK, UpFreedPage
  <2>2. memory' \in [Tid -> {"unused", "live", "freed"}]
    BY ProcessesAssumption DEF ProcInv, ProcTypeOK, UpFreedPage
  <2>3. child_info' \in [Page -> Tid \cup {NULL}]
    BY ProcessesAssumption, NullNotTid DEF ProcInv, ProcTypeOK, UpFreedPage,
       links
  <2>4. children' \in [Page -> SUBSET Tid]
    BY ProcessesAssumption, NullNotTid DEF ProcInv, ProcTypeOK, UpFreedPage,
       links
  <2>5. child_wait_sema' \in [Page -> Nat]
    BY ProcessesAssumption DEF ProcInv, ProcTypeOK, UpFreedPage
  <2>6. pc' \in [Page -> Where]
    BY ProcessesAssumption DEF ProcInv, ProcTypeOK, UpFreedPage
  <2>7. child' \in [Page -> Tid \cup {NULL}]
    BY ProcessesAssumption, NullNotTid DEF ProcInv, ProcTypeOK, UpFreedPage,
       links
  <2>8. verdict' \in [Tid -> Int \cup {NULL}]
    BY ProcessesAssumption DEF ProcInv, ProcTypeOK, UpFreedPage
  <2>9. fault' \in BOOLEAN
    BY DEF UpFreedPage
  <2> QED BY <2>1, <2>2, <2>3, <2>4, <2>5, <2>6, <2>7, <2>8, <2>9 DEF ProcTypeOK
<1>2. PagesOK'
  BY ProcessesAssumption, NullNotTid, <1>1 DEF ProcInv, UpFreedPage, PagesOK,
     links
<1>3. OneOwner'
  BY ProcessesAssumption, NullNotTid, <1>1 DEF ProcInv, UpFreedPage, OneOwner,
     links
<1>4. Known'
  BY ProcessesAssumption, NullNotTid, <1>1 DEF ProcInv, UpFreedPage, Known,
     links
<1>5. ListsOK'
  BY ProcessesAssumption, NullNotTid, <1>1 DEF ProcInv, UpFreedPage, ListsOK,
     links
<1>6. WaitsOK'
  BY ProcessesAssumption, NullNotTid, <1>1 DEF ProcInv, UpFreedPage, WaitsOK,
     links
<1>7. OwnerOK'
  BY ProcessesAssumption, NullNotTid, <1>1 DEF ProcInv, UpFreedPage, ProcTypeOK,
     OwnerOK, Owns, Mine, links
<1>8. Kept'
  BY ProcessesAssumption, NullNotTid, <1>1 DEF ProcInv, UpFreedPage, Kept, links
<1>9. NoLostExit'
  BY ProcessesAssumption, NullNotTid, <1>1 DEF ProcInv, UpFreedPage, NoLostExit,
     links
<1>10. ReportsVerdict'
  BY ProcessesAssumption, NullNotTid, <1>1 DEF ProcInv, UpFreedPage,
     ReportsVerdict
<1>11. RunningOwnsInfo'
  BY ProcessesAssumption, NullNotTid, <1>1 DEF ProcInv, UpFreedPage,
     RunningOwnsInfo, Owns, links
<1> QED BY <1>1, <1>2, <1>3, <1>4, <1>5, <1>6, <1>7, <1>8, <1>9, <1>10, <1>11
           DEF ProcInv

LEMMA LoadedStep ==
  ASSUME ProcInv, NEW p \in Page, Loaded(p)
  PROVE  ProcInv'
<1>1. child[p] \in Tid /\ memory[child[p]] = "live" /\ child[p] \in children[p]
  BY DEF ProcInv, ProcTypeOK, Loaded, WaitsOK, ListsOK
<1>2. CASE info[child[p]].load_success \/ p = initial_thread
  <2>1. /\ info' \in [Tid -> Info]
        /\ \A d \in Tid \ {child[p]} : info'[d] = info[d]
        /\ info'[child[p]].parent = info[child[p]].parent
        /\ info'[child[p]].exit_status = info[child[p]].exit_status
        /\ info'[child[p]].exited = info[child[p]].exited
        /\ info'[child[p]].load_success = info[child[p]].load_success
        /\ info[child[p]].load_sema # 0
        /\ pc[p] = "loading" /\ child' = [child EXCEPT ![p] = NULL]
        /\ \E w \in {"user", "booted", "exiting"} : pc' = [pc EXCEPT ![p] = w] /\ (p = initial_thread <=> w # "user")
        /\ UNCHANGED <<memory, child_info, children, child_wait_sema, verdict, fault>>
    BY <1>1, <1>2 DEF ProcInv, ProcTypeOK, Loaded, Info, Goto
  <2>2. ProcTypeOK'
    BY ProcessesAssumption, NullNotTid, <1>1, <2>1 DEF ProcInv, ProcTypeOK,
       PagesOK, OneOwner, Known, Where
  <2>3. PagesOK'
    BY ProcessesAssumption, NullNotTid, <1>1, <2>1 DEF ProcInv, PagesOK
  <2>4. OneOwner'
    BY ProcessesAssumption, NullNotTid, <1>1, <2>1 DEF ProcInv, OneOwner
  <2>5. Known'
    BY ProcessesAssumption, NullNotTid, <1>1, <2>1 DEF ProcInv, Known
  <2>6. ListsOK'
    BY ProcessesAssumption, NullNotTid, <1>1, <2>1 DEF ProcInv, ProcTypeOK,
       ListsOK
  <2>7. WaitsOK'
    BY ProcessesAssumption, NullNotTid, <1>1, <2>1 DEF ProcInv, ProcTypeOK,
       WaitsOK
  <2>8. OwnerOK'
    BY ProcessesAssumption, NullNotTid, <1>1, <2>1 DEF ProcInv, ProcTypeOK,
       PagesOK, OneOwner, Known, ListsOK, WaitsOK, OwnerOK, Owns, Mine, UsesInfo,
       Running
  <2>9. Kept'
    BY ProcessesAssumption, NullNotTid, <1>1, <2>1 DEF ProcInv, ProcTypeOK,
       PagesOK, OneOwner, Known, ListsOK, WaitsOK, OwnerOK, Kept, NoLostExit,
       ReportsVerdict, RunningOwnsInfo, Owns, Where, UsesInfo
  <2>10. NoLostExit'
    BY ProcessesAssumption, NullNotTid, <1>1, <2>1 DEF ProcInv, ProcTypeOK,
       PagesOK, OneOwner, Known, ListsOK, WaitsOK, NoLostExit, Where, UsesInfo
  <2>11. ReportsVerdict'
    BY ProcessesAssumption, NullNotTid, <1>1, <2>1 DEF ProcInv, ReportsVerdict
  <2>12. RunningOwnsInfo'
    BY ProcessesAssumption, NullNotTid, <1>1, <2>1 DEF ProcInv, RunningOwnsInfo,
       Owns
  <2> QED BY <2>2, <2>3, <2>4, <2>5, <2>6, <2>7, <2>8, <2>9, <2>10, <2>11, <2>12
             DEF ProcInv
<1>3. CASE ~(info[child[p]].load_success \/ p = initial_thread)
  <2>1. \A q \in Page : child_info[q] = child[p] => pc[q] \notin Running \cup {"initd", "fork"}
    BY <1>1, <1>3, NullNotTid DEF ProcInv, OwnerOK, Owns, Mine, Loaded
  <2> QED BY <1>1, <1>3, <2>1, FreeStep DEF Loaded
<1> QED BY <1>2, <1>3

LEMMA CollectStep ==
  ASSUME ProcInv, NEW p \in Page, Collect(p)
  PROVE  ProcInv'
<1>1. child[p] \in Tid /\ memory[child[p]] = "live"
  BY DEF ProcInv, ProcTypeOK, Collect, WaitsOK, ListsOK
<1>2. \A q \in Page : child_info[q] = child[p] => pc[q] \notin Running \cup {"initd", "fork"}
  BY <1>1, NullNotTid DEF ProcInv, OwnerOK, Owns, Mine, Collect, ProcTypeOK,
     Running, UsesInfo
<1> QED BY <1>2, FreeStep DEF Collect

LEMMA InitStep == ProcInit => ProcInv
<1> SUFFICES ASSUME ProcInit PROVE ProcInv
  OBVIOUS
<1>1. ProcTypeOK
  <2>1. NewInfo(initial_thread) \in Info
    BY ProcessesAssumption DEF NewInfo, Info
  <2> QED BY <2>1 DEF ProcInit, ProcTypeOK, Where
<1>2. PagesOK /\ OneOwner /\ Known /\ ListsOK /\ WaitsOK
  BY ProcessesAssumption DEF ProcInit, PagesOK, OneOwner, Known, ListsOK,
     WaitsOK
<1>3. OwnerOK /\ Kept
  BY DEF ProcInit, OwnerOK, Kept, Owns
<1>4. NoLostExit /\ ReportsVerdict /\ RunningOwnsInfo
  BY ProcessesAssumption DEF ProcInit, NoLostExit, ReportsVerdict,
     RunningOwnsInfo
<1> QED BY <1>1, <1>2, <1>3, <1>4 DEF ProcInv

LEMMA NextStep == ProcInv /\ [ProcNext]_vars => ProcInv'
<1> SUFFICES ASSUME ProcInv, [ProcNext]_vars
             PROVE  ProcInv'
  OBVIOUS
<1>1. CASE UNCHANGED vars
  BY <1>1 DEF vars, links, ProcInv, ProcTypeOK, PagesOK, OneOwner, Known,
     ListsOK, WaitsOK, OwnerOK, Kept, NoLostExit, ReportsVerdict, RunningOwnsInfo,
     Owns, Mine
<1>2. ASSUME NEW p \in Page, NEW c \in Tid, NEW q \in Page \ {p},
             process_create_initd(p, c, q) \/ process_fork(p, c, q)
      PROVE  ProcInv'
  BY <1>2, CreateStep DEF process_create_initd, process_fork
<1>3. ASSUME NEW p \in Page, Step(p)
      PROVE  ProcInv'
  BY <1>3, DoForkStep, ExecStep, LoadedStep, ExitStep, SetExitedStep,
     WakeParentStep, LeaveQuietlyStep, LookAgainStep, WakeStep, CollectStep,
     UseFreedInfoStep, UpFreedPageStep, BeginWaitStep DEF Step, process_exit,
     process_wait
<1> QED BY <1>1, <1>2, <1>3, BeginWaitStep, ExecStep, ExitStep, DestroyStep DEF
           ProcNext

THEOREM ProcInvariant == ProcSpec => []ProcInv
BY InitStep, NextStep, PTL DEF ProcSpec

\* Type correctness.
THEOREM ProcTypeCorrect == ProcSpec => []ProcTypeOK
BY ProcInvariant, PTL DEF ProcInv

\* No exit is lost on a parent that waits, whatever its other children do
\* (process_exit, process_wait).
THEOREM ExitNeverLost == ProcSpec => []NoLostExit
BY ProcInvariant, PTL DEF ProcInv

\* The status a parent finds in an exited child's block is the one the child
\* ended with (syscall_exit, kill, process_exec, process_wait).
THEOREM StatusIsTrue == ProcSpec => []ReportsVerdict
BY ProcInvariant, PTL DEF ProcInv

\* The block a running process shares with its parent is not freed under it
\* (process_fork, process_wait).
THEOREM InfoOutlivesRun == ProcSpec => []RunningOwnsInfo
BY ProcInvariant, PTL DEF ProcInv
=============================================================================
