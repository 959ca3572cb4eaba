-------------------------------- MODULE Intq --------------------------------
(***************************************************************************)
(* An interrupt queue (devices/intq.c) as the console uses it: the input   *)
(* buffer, which interrupt handlers fill and threads read (input.c), or    *)
(* the transmit queue, which threads fill and the serial port empties      *)
(* (serial.c).  Threads call it with interrupts off, so a call is one step *)
(* up to where it blocks or lets another thread run.                       *)
(***************************************************************************)
EXTENDS Integers

CONSTANTS Thread, Byte, INTQ_BUFSIZE, NULL

ASSUME IntqAssumption ==
  /\ NULL \notin Thread
  /\ INTQ_BUFSIZE \in Nat /\ INTQ_BUFSIZE > 1

VARIABLES role,   \* "buffer" or "txq": which of the two queues this is
          buf, head, tail,
          waiter, \* q->not_empty of the buffer, q->not_full of the txq
          lock,   \* the holder of q->lock
          pc,     \* where a thread is in intq_getc or intq_putc
          byte,   \* what a thread wants to put
          got,    \* the byte returned last
          ier,    \* the interrupt of the port is enabled for this queue
          panic   \* an assertion failed

ring == <<buf, head, tail, got>>
vars == <<role, ring, waiter, lock, pc, byte, ier, panic>>

Where == {"out", "lockwait", "asleep", "woken", "retry"}

IntqTypeOK ==
  /\ role \in {"buffer", "txq"}
  /\ buf \in [0 .. INTQ_BUFSIZE - 1 -> Byte]
  /\ head \in 0 .. INTQ_BUFSIZE - 1
  /\ tail \in 0 .. INTQ_BUFSIZE - 1
  /\ waiter \in Thread \cup {NULL}
  /\ lock \in Thread \cup {NULL}
  /\ pc \in [Thread -> Where]
  /\ byte \in [Thread -> Byte]
  /\ got \in Byte
  /\ ier \in BOOLEAN
  /\ panic \in BOOLEAN

next(pos) == (pos + 1) % INTQ_BUFSIZE

intq_empty == head = tail
intq_full == next(head) = tail

\* What write_ier will find the next time: input has room, output has bytes.
CanGoOn(h, t) == IF role = "buffer" THEN (h + 1) % INTQ_BUFSIZE # t ELSE h # t

\* The condition a thread waits out here.
MustWait == IF role = "buffer" THEN intq_empty ELSE intq_full

intq_init ==
  /\ role \in {"buffer", "txq"}
  /\ buf \in {[i \in 0 .. INTQ_BUFSIZE - 1 |-> b] : b \in Byte}
  /\ head = 0 /\ tail = 0
  /\ waiter = NULL /\ lock = NULL
  /\ pc = [t \in Thread |-> "out"]
  /\ byte = [t \in Thread |-> buf[0]]
  /\ got = buf[0]
  /\ ier = (role = "buffer")
  /\ panic = FALSE

-----------------------------------------------------------------------------
(* The ring itself.                                                        *)

PutByte(b) ==
  /\ buf' = [buf EXCEPT ![head] = b]
  /\ head' = next(head)
  /\ UNCHANGED <<tail, got>>

GetByte ==
  /\ got' = buf[tail]
  /\ tail' = next(tail)
  /\ UNCHANGED <<buf, head>>

\* serial_putc with interrupts off on a full queue polls one byte out first.
PassByte(b) ==
  /\ got' = buf[tail]
  /\ tail' = next(tail)
  /\ buf' = [buf EXCEPT ![head] = b]
  /\ head' = next(head)

\* Mutant: the waiter is woken only when the queue was at its limit.
WakeAtLimit(places) ==
  IF waiter # NULL /\ MustWait /\ intq_full
  THEN waiter' = NULL /\ pc' = [places EXCEPT ![waiter] = "woken"]
  ELSE waiter' = waiter /\ pc' = places

\* signal, for the threads of this queue.
signal(places) ==
  IF waiter # NULL THEN waiter' = NULL /\ pc' = [places EXCEPT ![waiter] = "woken"]
  ELSE waiter' = waiter /\ pc' = places

\* write_ier, after the queue has changed.
write_ier == ier' = CanGoOn(head', tail')

-----------------------------------------------------------------------------
(* Threads: input_getc, or serial_putc with interrupts on.                 *)

\* wait: *waiter = thread_current () and thread_block, with the lock held.
wait(t) ==
  /\ waiter' = t /\ lock' = t
  /\ pc' = [pc EXCEPT ![t] = "asleep"]
  /\ UNCHANGED <<ring, ier, panic>>

\* The loop of intq_getc and of intq_putc (b), entered with l holding the lock.
Loop(t, b, l) ==
  /\ byte' = [byte EXCEPT ![t] = b]
  /\ \/ /\ ~MustWait
        /\ IF role = "buffer" THEN GetByte ELSE PutByte(b)
        /\ pc' = [pc EXCEPT ![t] = "out"]
        /\ lock' = l
        /\ write_ier
        /\ UNCHANGED <<waiter, panic>>
     \/ MustWait /\ l = NULL /\ wait(t)
     \/ /\ MustWait /\ l # NULL
        /\ pc' = [pc EXCEPT ![t] = "lockwait"]
        /\ lock' = l
        /\ UNCHANGED <<ring, waiter, ier, panic>>

\* Mutant: the console does not keep other writers out.
BeginUnlocked(t) ==
  /\ pc[t] = "out"
  /\ \E b \in Byte : Loop(t, IF role = "buffer" THEN byte[t] ELSE b, lock)

\* The lock of the console admits one thread at a time to serial_putc.
Begin(t) ==
  /\ pc[t] = "out"
  /\ \/ role = "buffer" /\ Loop(t, byte[t], lock)
     \/ /\ role = "txq" /\ \A u \in Thread : pc[u] = "out"
        /\ \E b \in Byte : Loop(t, b, lock)

\* lock_acquire returns to a thread that had to wait for it; wait asserts that
\* the condition still holds, without a second look.
LockGranted(t) ==
  /\ pc[t] = "lockwait" /\ lock = NULL
  /\ \/ MustWait /\ wait(t)
     \/ /\ ~MustWait
        /\ panic' = TRUE
        /\ UNCHANGED <<ring, waiter, lock, pc, ier>>
  /\ UNCHANGED byte

\* lock_release after the sleep, and the loop again.  If a thread waits for
\* the lock, lock_release may yield to it before the loop goes on.
Awake(t) ==
  /\ pc[t] = "woken"
  /\ IF \E u \in Thread : pc[u] = "lockwait"
     THEN /\ lock' = NULL
          /\ pc' = [pc EXCEPT ![t] = "retry"]
          /\ UNCHANGED <<ring, waiter, byte, ier, panic>>
     ELSE Loop(t, byte[t], NULL)

Retry(t) == pc[t] = "retry" /\ Loop(t, byte[t], lock)

ThreadStep(t) == Begin(t) \/ LockGranted(t) \/ Awake(t) \/ Retry(t)

-----------------------------------------------------------------------------
(* Interrupt handlers, and callers with interrupts off.                    *)

\* Mutant: the handler does not look whether there is room.
PutAnyway(b) ==
  /\ role = "buffer"
  /\ PutByte(b) /\ signal(pc) /\ write_ier

\* input_putc, by the keyboard handler or the receive loop of the port.
input_putc(b) ==
  /\ role = "buffer" /\ ~intq_full
  /\ PutByte(b) /\ signal(pc) /\ write_ier

\* The transmit loop of serial_interrupt, and serial_flush.
Transmit ==
  /\ role = "txq" /\ ier /\ ~intq_empty
  /\ GetByte /\ signal(pc) /\ write_ier

\* Mutant: the interrupt stays as it was.
PutUnarmed(b) ==
  /\ role = "txq"
  /\ IF intq_full THEN PassByte(b) /\ signal(pc)
     ELSE PutByte(b) /\ UNCHANGED <<waiter, pc>>
  /\ UNCHANGED ier

\* serial_putc with interrupts off.
PutInterruptsOff(b) ==
  /\ role = "txq"
  /\ IF intq_full THEN PassByte(b) /\ signal(pc)
     ELSE PutByte(b) /\ UNCHANGED <<waiter, pc>>
  /\ write_ier

DeviceStep ==
  /\ Transmit \/ \E b \in Byte : input_putc(b) \/ PutInterruptsOff(b)
  /\ UNCHANGED <<lock, byte, panic>>

IntqNext ==
  /\ ~panic
  /\ (\E t \in Thread : ThreadStep(t)) \/ DeviceStep
  /\ UNCHANGED role

IntqSpec == intq_init /\ [][IntqNext]_vars

\* The port goes on sending what it is given while its interrupt is enabled.
IntqFairSpec ==
  /\ IntqSpec
  /\ WF_vars(~panic /\ Transmit /\ UNCHANGED <<role, lock, byte, panic>>)

-----------------------------------------------------------------------------
(* Properties.                                                             *)

Used == IF tail <= head THEN head - tail ELSE head + INTQ_BUFSIZE - tail

Contents == [i \in 1 .. Used |-> buf[(tail + i - 1) % INTQ_BUFSIZE]]

\* Bytes come out once each, in order, across the wrap of the ring, and a put
\* never runs over bytes that are still in it, whoever puts.
Abstract == INSTANCE ByteQueue
              WITH queue <- Contents, Capacity <- INTQ_BUFSIZE - 1
ImplementsByteQueue == Abstract!Spec

\* A thread asleep in wait is the one in the slot, holds the lock, and the
\* condition it waits out holds: no signal has passed it by.  A thread that
\* waits for the lock waits for one that somebody holds, or is about to get.
NobodySleepsInVain ==
  /\ \A t \in Thread :
       pc[t] = "asleep" => waiter = t /\ lock = t /\ MustWait
  /\ lock # NULL => pc[lock] \in {"asleep", "woken"}

\* The assertion of wait can only fail when two threads read the input: the
\* one writer of the transmit queue never finds its condition changed.
WriterNeverPanics == panic => role = "buffer"

\* A writer that sleeps on a full transmit queue is woken: every path that
\* leaves bytes in the queue leaves the interrupt enabled.
WriterWoken ==
  \A t \in Thread : (role = "txq" /\ pc[t] = "asleep") ~> (pc[t] = "woken")
=============================================================================
