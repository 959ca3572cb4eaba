------------------------------ MODULE ByteQueue ------------------------------
(***************************************************************************)
(* What an interrupt queue promises (devices/intq.h): every byte that is   *)
(* added is returned once, in the order of addition, and at most Capacity  *)
(* bytes are in the queue.                                                 *)
(***************************************************************************)
EXTENDS Naturals, Sequences

CONSTANTS Byte, Capacity

VARIABLES queue, got

vars == <<queue, got>>

Init == queue = << >> /\ got \in Byte

Put(b) ==
  /\ Len(queue) < Capacity
  /\ queue' = Append(queue, b)
  /\ UNCHANGED got

Get ==
  /\ queue # << >>
  /\ got' = Head(queue)
  /\ queue' = Tail(queue)

\* A full queue passes its first byte on and takes another.
Pass(b) ==
  /\ queue # << >>
  /\ got' = Head(queue)
  /\ queue' = Append(Tail(queue), b)

Next == Get \/ \E b \in Byte : Put(b) \/ Pass(b)

Spec == Init /\ [][Next]_vars
=============================================================================
