----------------------------- MODULE IntqProofs -----------------------------
(***************************************************************************)
(* Intq for any threads, bytes and size of the ring.                       *)
(***************************************************************************)
EXTENDS Intq, Sequences, TLAPS

\* Where threads are, and who holds the lock and the slot there.
PlacesOK ==
  /\ \A t \in Thread :
       /\ pc[t] = "asleep" <=> waiter = t
       /\ pc[t] \in {"asleep", "woken"} => lock = t
       /\ role = "txq" => pc[t] \notin {"lockwait", "retry"}
  /\ role = "txq" =>
       \A t, u \in Thread : pc[t] # "out" /\ pc[u] # "out" => t = u

IntqInv == IntqTypeOK /\ PlacesOK /\ NobodySleepsInVain /\ WriterNeverPanics

\* What the remainder is for the sums of two indices that next and Contents form.
LEMMA Wrap ==
  ASSUME NEW i \in Nat, i < 2 * INTQ_BUFSIZE
  PROVE  i % INTQ_BUFSIZE = IF i < INTQ_BUFSIZE THEN i ELSE i - INTQ_BUFSIZE
<1>1. CASE i < INTQ_BUFSIZE
  BY <1>1, IntqAssumption
<1>2. CASE ~(i < INTQ_BUFSIZE)
  BY <1>2, IntqAssumption
<1> QED BY <1>1, <1>2

LEMMA NextIs ==
  ASSUME NEW pos \in 0 .. INTQ_BUFSIZE - 1
  PROVE  /\ next(pos) \in 0 .. INTQ_BUFSIZE - 1
         /\ next(pos) = IF pos + 1 = INTQ_BUFSIZE THEN 0 ELSE pos + 1
BY Wrap, IntqAssumption DEF next

-----------------------------------------------------------------------------
(* The threads.                                                            *)

LEMMA InitStep == intq_init => IntqInv
<1> SUFFICES ASSUME intq_init PROVE IntqInv
  OBVIOUS
<1> USE IntqAssumption DEF intq_init
<1>1. buf[0] \in Byte /\ buf \in [0 .. INTQ_BUFSIZE - 1 -> Byte]
  OBVIOUS
<1>2. IntqTypeOK
  <2>1. 0 \in 0 .. INTQ_BUFSIZE - 1
    OBVIOUS
  <2>2. byte \in [Thread -> Byte] /\ pc \in [Thread -> Where]
    BY <1>1 DEF Where
  <2> QED BY <1>1, <2>1, <2>2, Zenon DEF IntqTypeOK
<1>3. PlacesOK /\ NobodySleepsInVain /\ WriterNeverPanics
  BY DEF PlacesOK, NobodySleepsInVain, WriterNeverPanics
<1> QED BY <1>2, <1>3 DEF IntqInv

\* What a turn of the ring does to the types.
LEMMA RingTyped ==
  ASSUME IntqTypeOK, NEW b \in Byte, PutByte(b) \/ GetByte \/ PassByte(b)
  PROVE  /\ buf' \in [0 .. INTQ_BUFSIZE - 1 -> Byte]
         /\ head' \in 0 .. INTQ_BUFSIZE - 1
         /\ tail' \in 0 .. INTQ_BUFSIZE - 1
         /\ got' \in Byte
<1>1. next(head) \in 0 .. INTQ_BUFSIZE - 1 /\ next(tail) \in 0 .. INTQ_BUFSIZE - 1
  BY NextIs DEF IntqTypeOK
<1>2. buf[tail] \in Byte /\ [buf EXCEPT ![head] = b] \in [0 .. INTQ_BUFSIZE - 1 -> Byte]
  BY DEF IntqTypeOK
<1>3. CASE PutByte(b)
  BY <1>1, <1>2, <1>3 DEF IntqTypeOK, PutByte
<1>4. CASE GetByte
  BY <1>1, <1>2, <1>4 DEF IntqTypeOK, GetByte
<1>5. CASE PassByte(b)
  BY <1>1, <1>2, <1>5 DEF IntqTypeOK, PassByte
<1> QED BY <1>3, <1>4, <1>5

\* A thread that enters the loop with the lock free, or held by another.
LEMMA LoopStep ==
  ASSUME IntqInv, role' = role, NEW t \in Thread, NEW b \in Byte, NEW l \in Thread \cup {NULL},
         Loop(t, b, l), pc[t] \in {"out", "woken", "retry"},
         IF pc[t] = "woken" THEN l = NULL ELSE l = lock,
         l # NULL => l # t,
         role = "txq" => l = NULL /\ \A u \in Thread \ {t} : pc[u] = "out"
  PROVE  IntqInv'
<1> USE DEF IntqInv
<1>1. CASE ~MustWait /\ pc' = [pc EXCEPT ![t] = "out"]
  <2>1. lock' = l /\ UNCHANGED <<waiter, panic>> /\ (PutByte(b) \/ GetByte) /\ write_ier
    BY <1>1 DEF Loop, wait, IntqTypeOK
  <2>2. IntqTypeOK'
    BY <1>1, <2>1, RingTyped DEF IntqTypeOK, Loop, write_ier, CanGoOn, Where
  <2>3. \A u \in Thread : pc[u] # "asleep"
    BY <1>1 DEF NobodySleepsInVain
  <2>4. PlacesOK' /\ WriterNeverPanics'
    BY <1>1, <2>1, <2>3 DEF PlacesOK, IntqTypeOK, WriterNeverPanics, NobodySleepsInVain
  <2>5. NobodySleepsInVain'
    BY <1>1, <2>1, <2>3 DEF NobodySleepsInVain, IntqTypeOK
  <2> QED BY <2>2, <2>4, <2>5
<1>2. CASE MustWait /\ l = NULL /\ wait(t)
  <2>1. IntqTypeOK'
    BY <1>2 DEF IntqTypeOK, Loop, wait, ring, Where
  <2>2. \A u \in Thread \ {t} : pc[u] \notin {"asleep", "woken"}
    <3>1. CASE pc[t] = "woken"
      BY <3>1 DEF PlacesOK
    <3>2. CASE pc[t] # "woken"
      BY <1>2, <3>2, IntqAssumption DEF PlacesOK
    <3> QED BY <3>1, <3>2
  <2>3. PlacesOK' /\ WriterNeverPanics'
    BY <1>2, <2>2, IntqAssumption DEF PlacesOK, IntqTypeOK, WriterNeverPanics, wait
  <2>4. NobodySleepsInVain'
    BY <1>2, <2>2 DEF NobodySleepsInVain, IntqTypeOK, wait, ring, MustWait, intq_empty, intq_full
  <2> QED BY <2>1, <2>3, <2>4
<1>3. CASE MustWait /\ l # NULL /\ pc' = [pc EXCEPT ![t] = "lockwait"] /\ lock' = l
           /\ UNCHANGED <<ring, waiter, ier, panic>>
  <2>1. IntqTypeOK'
    BY <1>3 DEF IntqTypeOK, Loop, ring, Where
  <2>2. PlacesOK' /\ WriterNeverPanics'
    BY <1>3 DEF PlacesOK, IntqTypeOK, WriterNeverPanics
  <2>3. NobodySleepsInVain'
    BY <1>3 DEF NobodySleepsInVain, IntqTypeOK, ring, MustWait, intq_empty, intq_full
  <2> QED BY <2>1, <2>2, <2>3
<1> QED BY <1>1, <1>2, <1>3 DEF Loop

LEMMA ThreadKeeps ==
  ASSUME IntqInv, role' = role, NEW t \in Thread, ThreadStep(t)
  PROVE  IntqInv'
<1> USE DEF IntqInv
<1>1. CASE Begin(t)
  <2>1. lock # t
    BY <1>1, IntqAssumption DEF Begin, NobodySleepsInVain
  <2>2. role = "txq" => lock = NULL
    BY <1>1 DEF Begin, NobodySleepsInVain, IntqTypeOK
  <2>3. byte[t] \in Byte /\ lock \in Thread \cup {NULL}
    BY DEF IntqTypeOK
  <2>4. CASE role = "buffer" /\ Loop(t, byte[t], lock)
    BY <1>1, <2>1, <2>3, <2>4, LoopStep DEF Begin
  <2>5. CASE role = "txq" /\ \E b \in Byte : Loop(t, b, lock)
    BY <1>1, <2>1, <2>2, <2>3, <2>5, LoopStep DEF Begin
  <2> QED BY <1>1, <2>4, <2>5 DEF Begin
<1>2. CASE Retry(t)
  <2>1. lock # t /\ role # "txq"
    BY <1>2, IntqAssumption DEF Retry, NobodySleepsInVain, PlacesOK
  <2>2. byte[t] \in Byte /\ lock \in Thread \cup {NULL}
    BY DEF IntqTypeOK
  <2> QED BY <1>2, <2>1, <2>2, LoopStep DEF Retry
<1>3. CASE LockGranted(t)
  <2>1. \A u \in Thread : pc[u] \notin {"asleep", "woken"}
    BY <1>3, IntqAssumption DEF LockGranted, PlacesOK
  <2>2. role = "buffer"
    BY <1>3 DEF LockGranted, PlacesOK, IntqTypeOK
  <2>3. IntqTypeOK'
    BY <1>3 DEF LockGranted, IntqTypeOK, wait, ring, Where
  <2>4. PlacesOK' /\ WriterNeverPanics'
    BY <1>3, <2>1, <2>2, IntqAssumption
    DEF LockGranted, PlacesOK, IntqTypeOK, WriterNeverPanics, wait, ring
  <2>5. NobodySleepsInVain'
    BY <1>3, <2>1, <2>2
    DEF LockGranted, NobodySleepsInVain, IntqTypeOK, wait, ring, MustWait, intq_empty, intq_full
  <2> QED BY <2>3, <2>4, <2>5
<1>4. CASE Awake(t)
  <2>1. lock = t /\ role = "txq" => \A u \in Thread \ {t} : pc[u] = "out"
    BY <1>4 DEF Awake, PlacesOK
  <2>2. CASE \E u \in Thread : pc[u] = "lockwait"
    <3>1. /\ lock' = NULL /\ pc' = [pc EXCEPT ![t] = "retry"]
          /\ UNCHANGED <<ring, waiter, byte, ier, panic>>
      BY <1>4, <2>2 DEF Awake
    <3>2. IntqTypeOK'
      BY <3>1 DEF IntqTypeOK, ring, Where
    <3>3. PlacesOK' /\ WriterNeverPanics'
      BY <1>4, <2>2, <3>1 DEF Awake, PlacesOK, IntqTypeOK, WriterNeverPanics
    <3>4. NobodySleepsInVain'
      BY <1>4, <3>1 DEF Awake, NobodySleepsInVain, IntqTypeOK, PlacesOK
    <3> QED BY <3>2, <3>3, <3>4
  <2>3. CASE ~\E u \in Thread : pc[u] = "lockwait"
    <3>1. byte[t] \in Byte /\ NULL \in Thread \cup {NULL}
      BY DEF IntqTypeOK
    <3>2. role = "txq" => \A u \in Thread \ {t} : pc[u] = "out"
      BY <1>4 DEF Awake, PlacesOK
    <3> QED BY <1>4, <2>3, <3>1, <3>2, LoopStep DEF Awake
  <2> QED BY <2>2, <2>3
<1> QED BY <1>1, <1>2, <1>3, <1>4 DEF ThreadStep

LEMMA DeviceKeeps ==
  ASSUME IntqInv, role' = role, DeviceStep
  PROVE  IntqInv'
<1> USE DEF IntqInv
<1>1. IntqTypeOK'
  BY RingTyped
  DEF DeviceStep, Transmit, input_putc, PutInterruptsOff, signal, write_ier, CanGoOn, IntqTypeOK, Where
<1>2. WriterNeverPanics'
  BY DEF DeviceStep, WriterNeverPanics
<1>3. CASE signal(pc)
  <2>1. waiter' = NULL /\ \A u \in Thread : pc'[u] = IF u = waiter THEN "woken" ELSE pc[u]
    BY <1>3, IntqAssumption DEF signal, IntqTypeOK
  <2>2. PlacesOK' /\ NobodySleepsInVain'
    BY <2>1, IntqAssumption DEF DeviceStep, PlacesOK, NobodySleepsInVain, IntqTypeOK
  <2> QED BY <1>1, <1>2, <2>2
<1>4. CASE ~intq_full /\ role = "txq" /\ UNCHANGED <<waiter, pc>>
  <2>1. \A u \in Thread : pc[u] # "asleep"
    BY <1>4 DEF NobodySleepsInVain, MustWait
  <2>2. PlacesOK' /\ NobodySleepsInVain'
    BY <1>4, <2>1 DEF DeviceStep, PlacesOK, NobodySleepsInVain, IntqTypeOK
  <2> QED BY <1>1, <1>2, <2>2
<1> QED BY <1>3, <1>4 DEF DeviceStep, Transmit, input_putc, PutInterruptsOff

LEMMA NextStep == IntqInv /\ [IntqNext]_vars => IntqInv'
<1>1. ASSUME IntqInv, UNCHANGED vars
      PROVE  IntqInv'
  BY <1>1
  DEF vars, ring, IntqInv, IntqTypeOK, PlacesOK, NobodySleepsInVain, WriterNeverPanics,
      MustWait, intq_empty, intq_full
<1> QED BY <1>1, ThreadKeeps, DeviceKeeps DEF IntqNext

THEOREM IntqInvariant == IntqSpec => []IntqInv
BY InitStep, NextStep, PTL DEF IntqSpec

\* Type correctness.
THEOREM IntqTypeCorrect == IntqSpec => []IntqTypeOK
BY IntqInvariant, PTL DEF IntqInv

\* Nobody sleeps in an interrupt queue while the condition it waits for is
\* there (wait, signal).
THEOREM NoVainSleep == IntqSpec => []NobodySleepsInVain
BY IntqInvariant, PTL DEF IntqInv

\* Only readers of the input can fail the assertion of wait.
THEOREM WriterSafe == IntqSpec => []WriterNeverPanics
BY IntqInvariant, PTL DEF IntqInv
-----------------------------------------------------------------------------
(* The ring is a queue.                                                    *)

\* The place in the ring of the i-th byte of the queue that starts at p.
Slot(p, i) == IF p + i - 1 < INTQ_BUFSIZE THEN p + i - 1 ELSE p + i - 1 - INTQ_BUFSIZE

LEMMA ContentsIs ==
  ASSUME IntqTypeOK
  PROVE  /\ Used \in 0 .. INTQ_BUFSIZE - 1
         /\ Contents = [i \in 1 .. Used |-> buf[Slot(tail, i)]]
         /\ Contents \in Seq(Byte) /\ Len(Contents) = Used
         /\ \A i \in 1 .. Used : Slot(tail, i) \in 0 .. INTQ_BUFSIZE - 1 /\ Slot(tail, i) # head
         /\ Used = 0 <=> intq_empty
         /\ Used = INTQ_BUFSIZE - 1 <=> intq_full
<1> USE IntqAssumption
<1>1. Used \in 0 .. INTQ_BUFSIZE - 1
  BY DEF Used, IntqTypeOK
<1>2. \A i \in 1 .. Used :
        /\ Slot(tail, i) \in 0 .. INTQ_BUFSIZE - 1 /\ Slot(tail, i) # head
        /\ (tail + i - 1) % INTQ_BUFSIZE = Slot(tail, i)
  <2> SUFFICES ASSUME NEW i \in 1 .. Used
               PROVE  /\ Slot(tail, i) \in 0 .. INTQ_BUFSIZE - 1 /\ Slot(tail, i) # head
                      /\ (tail + i - 1) % INTQ_BUFSIZE = Slot(tail, i)
    OBVIOUS
  <2>1. tail + i - 1 \in Nat /\ tail + i - 1 < 2 * INTQ_BUFSIZE
    BY <1>1 DEF IntqTypeOK
  <2>2. (tail + i - 1) % INTQ_BUFSIZE = Slot(tail, i)
    <3>1. \A j \in Nat : j < 2 * INTQ_BUFSIZE =>
            j % INTQ_BUFSIZE = IF j < INTQ_BUFSIZE THEN j ELSE j - INTQ_BUFSIZE
      BY Wrap
    <3>2. PICK j \in Nat : j = tail + i - 1
      BY <2>1
    <3>3. j % INTQ_BUFSIZE = IF j < INTQ_BUFSIZE THEN j ELSE j - INTQ_BUFSIZE
      BY <2>1, <3>1, <3>2
    <3>4. Slot(tail, i) = IF j < INTQ_BUFSIZE THEN j ELSE j - INTQ_BUFSIZE
      BY <1>1, <3>2 DEF Slot, IntqTypeOK
    <3> QED BY <3>2, <3>3, <3>4, Zenon
  <2>3. Slot(tail, i) \in 0 .. INTQ_BUFSIZE - 1 /\ Slot(tail, i) # head
    BY <1>1, <2>1 DEF Slot, Used, IntqTypeOK
  <2> QED BY <2>2, <2>3
<1>3. Contents = [i \in 1 .. Used |-> buf[Slot(tail, i)]]
  BY <1>2 DEF Contents
<1>4. \A i \in 1 .. Used : buf[Slot(tail, i)] \in Byte
  BY <1>2 DEF IntqTypeOK
<1>5. Contents \in [1 .. Used -> Byte]
  BY <1>3, <1>4
<1>6. Contents \in Seq(Byte) /\ Len(Contents) = Used
  BY <1>1, <1>5
<1>7. Used = 0 <=> intq_empty
  BY DEF Used, intq_empty, IntqTypeOK
<1>8. Used = INTQ_BUFSIZE - 1 <=> intq_full
  BY NextIs DEF Used, intq_full, IntqTypeOK
<1> QED BY <1>1, <1>2, <1>3, <1>6, <1>7, <1>8

LEMMA SameSeq ==
  ASSUME NEW S, NEW q \in Seq(S), NEW r \in Seq(S), Len(q) = Len(r),
         \A i \in 1 .. Len(q) : q[i] = r[i]
  PROVE  q = r
OBVIOUS

LEMMA ContentsFact ==
  IntqTypeOK => /\ Contents \in Seq(Byte) /\ Len(Contents) = Used /\ Used \in Nat
                /\ \A i \in 1 .. Used : Contents[i] = buf[Slot(tail, i)]
BY ContentsIs

LEMMA ContentsNext ==
  ASSUME IntqTypeOK'
  PROVE  /\ Contents' \in Seq(Byte) /\ Len(Contents') = Used' /\ Used' \in Nat
         /\ \A i \in 1 .. Used' : Contents'[i] = buf'[Slot(tail', i)]
<1>1. (IntqTypeOK => /\ Contents \in Seq(Byte) /\ Len(Contents) = Used /\ Used \in Nat
                     /\ \A i \in 1 .. Used : Contents[i] = buf[Slot(tail, i)])'
  BY ContentsFact, PTL
<1> QED BY <1>1 DEF Slot

LEMMA PutMaps ==
  ASSUME IntqTypeOK, IntqTypeOK', NEW b \in Byte, ~intq_full, PutByte(b)
  PROVE  Abstract!Put(b)
<1> USE IntqAssumption
<1>1. Used < INTQ_BUFSIZE - 1 /\ Used' = Used + 1 /\ Used \in Nat
  <2>1. head' = IF head + 1 = INTQ_BUFSIZE THEN 0 ELSE head + 1
    BY NextIs DEF PutByte, IntqTypeOK
  <2>2. Used < INTQ_BUFSIZE - 1 /\ Used \in Nat
    BY ContentsIs
  <2> QED BY <2>1, <2>2 DEF PutByte, Used, IntqTypeOK
<1>2. \A i \in 1 .. Used : buf'[Slot(tail', i)] = Contents[i]
  BY ContentsIs DEF PutByte, IntqTypeOK
<1>3. buf'[Slot(tail', Used + 1)] = b
  BY <1>1 DEF Slot, Used, PutByte, IntqTypeOK
<1>4. \A i \in 1 .. Used + 1 : Contents'[i] = Append(Contents, b)[i]
  BY <1>1, <1>2, <1>3, ContentsIs, ContentsNext
<1>5. Contents' = Append(Contents, b)
  <2>1. /\ Contents' \in Seq(Byte) /\ Append(Contents, b) \in Seq(Byte)
        /\ Len(Contents') = Used + 1 /\ Len(Append(Contents, b)) = Used + 1
    BY <1>1, ContentsIs, ContentsNext
  <2> QED BY <1>4, <2>1, SameSeq, Zenon
<1>6. Len(Contents) < INTQ_BUFSIZE - 1
  BY <1>1, ContentsIs
<1> QED BY <1>5, <1>6 DEF Abstract!Put, PutByte

LEMMA GetMaps ==
  ASSUME IntqTypeOK, IntqTypeOK', ~intq_empty, GetByte
  PROVE  Abstract!Get
<1> USE IntqAssumption
<1>1. Used > 0 /\ Used' = Used - 1 /\ Used \in Nat
  <2>1. tail' = IF tail + 1 = INTQ_BUFSIZE THEN 0 ELSE tail + 1
    BY NextIs DEF GetByte, IntqTypeOK
  <2>2. Used > 0 /\ Used \in Nat
    BY ContentsIs
  <2> QED BY <2>1, <2>2 DEF GetByte, Used, IntqTypeOK
<1>2. Contents \in Seq(Byte) /\ Len(Contents) = Used /\ Contents # << >>
  BY <1>1, ContentsIs
<1>3. Contents[1] = buf[tail]
  BY <1>1, ContentsIs DEF Slot, IntqTypeOK
<1>4. \A i \in 1 .. Used - 1 : Slot(tail', i) = Slot(tail, i + 1)
  <2>1. tail' = IF tail + 1 = INTQ_BUFSIZE THEN 0 ELSE tail + 1
    BY NextIs DEF GetByte, IntqTypeOK
  <2> QED BY <1>1, <2>1, ContentsIs DEF Slot, IntqTypeOK
<1>5. \A i \in 1 .. Used - 1 : Contents'[i] = Tail(Contents)[i]
  <2>1. \A i \in 1 .. Used - 1 : Contents'[i] = buf[Slot(tail, i + 1)]
    BY <1>1, <1>4, ContentsNext DEF GetByte
  <2>2. \A i \in 1 .. Used - 1 : Contents[i + 1] = buf[Slot(tail, i + 1)]
    BY <1>1, ContentsIs
  <2> QED BY <1>1, <1>2, <2>1, <2>2
<1>6. Contents' = Tail(Contents)
  <2>1. /\ Contents' \in Seq(Byte) /\ Tail(Contents) \in Seq(Byte)
        /\ Len(Contents') = Used - 1 /\ Len(Tail(Contents)) = Used - 1
    BY <1>1, <1>2, ContentsNext
  <2> QED BY <1>5, <2>1, SameSeq, Zenon
<1> QED BY <1>2, <1>3, <1>6 DEF Abstract!Get, GetByte

LEMMA PassMaps ==
  ASSUME IntqTypeOK, IntqTypeOK', NEW b \in Byte, intq_full, PassByte(b)
  PROVE  Abstract!Pass(b)
<1> USE IntqAssumption
<1>1. Used = INTQ_BUFSIZE - 1 /\ Used' = Used /\ Used \in Nat \ {0}
  <2>1. /\ tail' = IF tail + 1 = INTQ_BUFSIZE THEN 0 ELSE tail + 1
        /\ head' = IF head + 1 = INTQ_BUFSIZE THEN 0 ELSE head + 1
    BY NextIs DEF PassByte, IntqTypeOK
  <2>2. Used = INTQ_BUFSIZE - 1
    BY ContentsIs
  <2> QED BY <2>1, <2>2 DEF PassByte, Used, IntqTypeOK
<1>2. Contents \in Seq(Byte) /\ Len(Contents) = Used /\ Contents # << >>
  BY <1>1, ContentsIs
<1>3. Contents[1] = buf[tail]
  BY <1>1, ContentsIs DEF Slot, IntqTypeOK
<1>4. /\ \A i \in 1 .. Used - 1 : Slot(tail', i) = Slot(tail, i + 1)
      /\ Slot(tail', Used) = head
  <2>1. tail' = IF tail + 1 = INTQ_BUFSIZE THEN 0 ELSE tail + 1
    BY NextIs DEF PassByte, IntqTypeOK
  <2>2. head + 1 = tail \/ (head + 1 = INTQ_BUFSIZE /\ tail = 0)
    BY NextIs DEF intq_full, IntqTypeOK
  <2> QED BY <1>1, <2>1, <2>2 DEF Slot, IntqTypeOK
<1>5. \A i \in 1 .. Used : Contents'[i] = Append(Tail(Contents), b)[i]
  <2>1. \A i \in 1 .. Used - 1 : Contents'[i] = Contents[i + 1]
    <3>1. \A i \in 1 .. Used - 1 : buf'[Slot(tail', i)] = buf[Slot(tail, i + 1)]
      BY <1>1, <1>4, ContentsIs DEF PassByte, IntqTypeOK
    <3> QED BY <1>1, <3>1, ContentsIs, ContentsNext
  <2>2. Contents'[Used] = b
    BY <1>1, <1>4, ContentsNext DEF PassByte, IntqTypeOK
  <2>3. \A i \in 1 .. Used - 1 : Append(Tail(Contents), b)[i] = Contents[i + 1]
    BY <1>1, <1>2
  <2>4. Append(Tail(Contents), b)[Used] = b
    BY <1>1, <1>2
  <2>5. \A i \in 1 .. Used : i \in 1 .. Used - 1 \/ i = Used
    BY <1>1
  <2> QED BY <2>1, <2>2, <2>3, <2>4, <2>5, Zenon
<1>6. Contents' = Append(Tail(Contents), b)
  <2>1. /\ Contents' \in Seq(Byte) /\ Append(Tail(Contents), b) \in Seq(Byte)
        /\ Len(Contents') = Used /\ Len(Append(Tail(Contents), b)) = Used
    BY <1>1, <1>2, ContentsNext
  <2> QED BY <1>5, <2>1, SameSeq, Zenon
<1> QED BY <1>2, <1>3, <1>6 DEF Abstract!Pass, PassByte

\* A step of the model is a step of the queue, or leaves it alone.
LEMMA QueueStep ==
  ASSUME IntqTypeOK, IntqTypeOK', IntqNext
  PROVE  [Abstract!Next]_(Abstract!vars)
<1>1. ASSUME UNCHANGED ring
      PROVE  UNCHANGED Abstract!vars
  BY <1>1 DEF ring, Abstract!vars, Contents, Used
<1>2. ASSUME NEW t \in Thread, NEW b \in Byte, NEW l, Loop(t, b, l)
      PROVE  [Abstract!Next]_(Abstract!vars)
  <2>1. CASE ~MustWait /\ role = "buffer" /\ GetByte
    BY <2>1, GetMaps DEF MustWait, Abstract!Next
  <2>2. CASE ~MustWait /\ role # "buffer" /\ PutByte(b)
    BY <2>2, PutMaps DEF MustWait, Abstract!Next
  <2>3. CASE UNCHANGED ring
    BY <1>1, <2>3
  <2> QED BY <1>2, <2>1, <2>2, <2>3 DEF Loop, wait
<1>3. ASSUME NEW t \in Thread, ThreadStep(t)
      PROVE  [Abstract!Next]_(Abstract!vars)
  <2>1. byte[t] \in Byte
    BY DEF IntqTypeOK
  <2>2. CASE LockGranted(t)
    BY <1>1, <2>2 DEF LockGranted, wait
  <2>3. CASE Begin(t)
    BY <1>2, <2>1, <2>3 DEF Begin
  <2>4. CASE Awake(t)
    BY <1>1, <1>2, <2>1, <2>4 DEF Awake
  <2>5. CASE Retry(t)
    BY <1>2, <2>1, <2>5 DEF Retry
  <2> QED BY <1>3, <2>2, <2>3, <2>4, <2>5 DEF ThreadStep
<1>4. ASSUME DeviceStep
      PROVE  [Abstract!Next]_(Abstract!vars)
  <2>1. CASE Transmit
    BY <2>1, GetMaps DEF Transmit, Abstract!Next
  <2>2. ASSUME NEW b \in Byte, input_putc(b)
        PROVE  [Abstract!Next]_(Abstract!vars)
    BY <2>2, PutMaps DEF input_putc, Abstract!Next
  <2>3. ASSUME NEW b \in Byte, PutInterruptsOff(b)
        PROVE  [Abstract!Next]_(Abstract!vars)
    BY <2>3, PutMaps, PassMaps DEF PutInterruptsOff, Abstract!Next
  <2> QED BY <1>4, <2>1, <2>2, <2>3 DEF DeviceStep
<1> QED BY <1>3, <1>4 DEF IntqNext

\* The ring is a first-in first-out queue of at most INTQ_BUFSIZE - 1 bytes:
\* whoever puts or gets, no byte is lost, doubled or overtaken, also where the
\* indices wrap (intq_getc, intq_putc, next).
THEOREM IntqIsQueue == IntqSpec => ImplementsByteQueue
<1>1. intq_init => Abstract!Init
  <2> SUFFICES ASSUME intq_init PROVE Abstract!Init
    OBVIOUS
  <2>1. IntqTypeOK /\ intq_empty
    BY InitStep DEF IntqInv, intq_init, intq_empty
  <2>2. Contents = << >>
    BY <2>1, ContentsIs
  <2>3. got \in Byte
    BY <2>1 DEF IntqTypeOK
  <2> QED BY <2>2, <2>3 DEF Abstract!Init
<1>2. IntqTypeOK /\ IntqTypeOK' /\ [IntqNext]_vars => [Abstract!Next]_(Abstract!vars)
  <2>1. ASSUME UNCHANGED vars PROVE UNCHANGED Abstract!vars
    BY <2>1 DEF vars, ring, Abstract!vars, Contents, Used
  <2> QED BY <2>1, QueueStep
<1> QED BY <1>1, <1>2, IntqTypeCorrect, PTL DEF IntqSpec, ImplementsByteQueue, Abstract!Spec
=============================================================================
