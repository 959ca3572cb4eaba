---------------------------- MODULE MCSemaphores ----------------------------
(* Main, the idle thread and one more share two semaphores with an interrupt *)
(* handler; donations raise priorities to the highest.                       *)
EXTENDS Semaphores

CONSTANTS main, a, b, x, y

Pages3 == {main, a, b}
Two == {x, y}
TwoZero == [s \in Two |-> 0]

Default == {1}
Highest == {2}
None    == {}
=============================================================================
