---------------------------- MODULE CondvarProofs ----------------------------
(***************************************************************************)
(* Condvar implements Monitor, for any threads and priorities.             *)
(***************************************************************************)
EXTENDS Condvar, TLAPS

\* A thread holds the lock exactly where it should, and is on the list only
\* from its push to the signal that takes it off.
PlacesOK ==
  \A t \in Thread :
    /\ pc[t] \in {"in", "queued", "broadcast"} <=> holder = t
    /\ t \in waiters => pc[t] \in {"queued", "released", "asleep"}
    /\ pc[t] = "queued" => t \in waiters /\ value[t] = 0

CondInv == CondTypeOK /\ PlacesOK /\ NoLostSignal

LEMMA CondInitStep == cond_init => CondInv
<1> SUFFICES ASSUME cond_init PROVE CondInv
  OBVIOUS
<1>1. CondTypeOK
  BY DEF cond_init, CondTypeOK, Where
<1>2. PlacesOK /\ NoLostSignal
  BY CondAssumption DEF cond_init, PlacesOK, NoLostSignal
<1> QED BY <1>1, <1>2 DEF CondInv

LEMMA CondNextStep == CondInv /\ [CondNext]_vars => CondInv'
<1> SUFFICES ASSUME CondInv, [CondNext]_vars
             PROVE  CondInv'
  OBVIOUS
<1> USE CondAssumption DEF CondInv, CondTypeOK, PlacesOK, NoLostSignal, Where, Goto
<1>1. CASE UNCHANGED vars
  BY <1>1 DEF vars
<1>2. ASSUME NEW t \in Thread, lock_acquire(t)
      PROVE  CondInv'
  BY <1>2 DEF lock_acquire
<1>3. ASSUME NEW t \in Thread, lock_release(t)
      PROVE  CondInv'
  BY <1>3 DEF lock_release
<1>4. ASSUME NEW t \in Thread, cond_wait(t)
      PROVE  CondInv'
  BY <1>4 DEF cond_wait
<1>5. ASSUME NEW t \in Thread, sema_down(t)
      PROVE  CondInv'
  BY <1>5 DEF sema_down
<1>6. ASSUME NEW t \in Thread, cond_signal(t)
      PROVE  CondInv'
  <2>1. CASE SortPanics
    BY <1>6, <2>1 DEF cond_signal
  <2>2. CASE ~SortPanics
    <3>1. PICK w \in waiters : PopAndUp(w) /\ pc' = [pc EXCEPT ![w] = "released"]
      BY <1>6, <2>2 DEF cond_signal
    <3>2. value[w] = 0 /\ holder # w
      BY <1>6 DEF cond_signal
    <3> QED BY <1>6, <2>2, <3>1, <3>2 DEF cond_signal, PopAndUp
  <2> QED BY <2>1, <2>2
<1>7. ASSUME NEW t \in Thread, cond_broadcast(t)
      PROVE  CondInv'
  BY <1>7 DEF cond_broadcast
<1>8. ASSUME NEW t \in Thread, SetPriority(t)
      PROVE  CondInv'
  BY <1>8 DEF SetPriority
<1> QED BY <1>1, <1>2, <1>3, <1>4, <1>5, <1>6, <1>7, <1>8 DEF CondNext

THEOREM CondInvariant == CondSpec => []CondInv
BY CondInitStep, CondNextStep, PTL DEF CondSpec

\* Type correctness.
THEOREM CondTypeCorrect == CondSpec => []CondTypeOK
BY CondInvariant, PTL DEF CondInv

\* A signal between the release and the sleep of cond_wait is not lost.
THEOREM SignalNotLost == CondSpec => []NoLostSignal
BY CondInvariant, PTL DEF CondInv

-----------------------------------------------------------------------------

\* Every step of the code is a step of the monitor, or leaves it alone.
LEMMA MonitorStep == CondInv /\ [CondNext]_vars => [Abstract!Next]_Abstract!vars
<1> SUFFICES ASSUME CondInv, [CondNext]_vars
             PROVE  [Abstract!Next]_Abstract!vars
  OBVIOUS
<1> USE CondAssumption DEF CondInv, CondTypeOK, PlacesOK, Where, Goto, Waiting
<1>1. CASE UNCHANGED vars
  BY <1>1 DEF vars, Abstract!vars
<1>2. ASSUME NEW t \in Thread, lock_acquire(t)
      PROVE  Abstract!Acquire(t)
  BY <1>2 DEF lock_acquire, Abstract!Acquire
<1>3. ASSUME NEW t \in Thread, lock_release(t)
      PROVE  Abstract!Release(t) \/ Abstract!Wait(t)
  BY <1>3 DEF lock_release, Abstract!Release, Abstract!Wait
<1>4. ASSUME NEW t \in Thread, cond_wait(t)
      PROVE  UNCHANGED Abstract!vars
  BY <1>4 DEF cond_wait, Abstract!vars
<1>5. ASSUME NEW t \in Thread, sema_down(t)
      PROVE  UNCHANGED Abstract!vars
  BY <1>5 DEF sema_down, Abstract!vars
<1>6. ASSUME NEW t \in Thread, cond_signal(t)
      PROVE  UNCHANGED Abstract!vars \/ \E w \in Thread : Abstract!Signal(w)
  <2>1. CASE SortPanics
    BY <1>6, <2>1 DEF cond_signal, Abstract!vars
  <2>2. CASE ~SortPanics
    <3>1. PICK w \in waiters : /\ Foremost(w) /\ PopAndUp(w)
                               /\ pc' = [pc EXCEPT ![w] = "released"]
      BY <1>6, <2>2 DEF cond_signal
    <3>2. Waiting = waiters
      BY <1>6 DEF cond_signal
    <3> QED BY <1>6, <2>2, <3>1, <3>2 DEF cond_signal, PopAndUp, Foremost, Abstract!Signal
  <2> QED BY <2>1, <2>2
<1>7. ASSUME NEW t \in Thread, cond_broadcast(t)
      PROVE  UNCHANGED Abstract!vars
  BY <1>7 DEF cond_broadcast, Abstract!vars
<1>8. ASSUME NEW t \in Thread, SetPriority(t)
      PROVE  Abstract!SetPriority(t)
  BY <1>8 DEF SetPriority, Abstract!SetPriority
<1> QED BY <1>1, <1>2, <1>3, <1>4, <1>5, <1>6, <1>7, <1>8 DEF CondNext, Abstract!Next

\* cond_wait, cond_signal and cond_broadcast are a monitor: waiting is atomic
\* with the release, and the highest waiter is signalled.
THEOREM CondImplementsMonitor == CondSpec => ImplementsMonitor
<1>1. cond_init => Abstract!Init
  BY DEF cond_init, Abstract!Init, Waiting
<1> QED BY <1>1, MonitorStep, CondInvariant, PTL DEF CondSpec, ImplementsMonitor, Abstract!Spec
=============================================================================
