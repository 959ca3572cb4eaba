------------------------------- MODULE Monitor -------------------------------
(***************************************************************************)
(* What the comment of cond_wait (synch.c:363) promises of a lock with a   *)
(* condition variable: waiting gives the lock up and begins to wait in one *)
(* step, a signal ends the wait of one thread of the highest priority that *)
(* was waiting, and the thread takes the lock again like any other (Mesa). *)
(***************************************************************************)
EXTENDS Naturals

CONSTANTS Thread, Priorities, NULL

VARIABLES holder, waiting, priority

vars == <<holder, waiting, priority>>

Init ==
  /\ holder = NULL
  /\ waiting = {}
  /\ priority \in [Thread -> Priorities]

Acquire(t) ==
  /\ holder = NULL /\ t \notin waiting
  /\ holder' = t
  /\ UNCHANGED <<waiting, priority>>

Release(t) ==
  /\ holder = t
  /\ holder' = NULL
  /\ UNCHANGED <<waiting, priority>>

Wait(t) ==
  /\ holder = t
  /\ holder' = NULL
  /\ waiting' = waiting \cup {t}
  /\ UNCHANGED priority

Signal(w) ==
  /\ holder # NULL /\ w \in waiting
  /\ \A v \in waiting : ~(priority[v] > priority[w])
  /\ waiting' = waiting \ {w}
  /\ UNCHANGED <<holder, priority>>

SetPriority(t) ==
  /\ \E p \in Priorities : priority' = [priority EXCEPT ![t] = p]
  /\ UNCHANGED <<holder, waiting>>

Next == \E t \in Thread :
  Acquire(t) \/ Release(t) \/ Wait(t) \/ Signal(t) \/ SetPriority(t)

Spec == Init /\ [][Next]_vars
=============================================================================
