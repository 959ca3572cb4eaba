------------------------------- MODULE MCIntq -------------------------------
(* Three threads on a ring of four places, one of them never used.         *)
EXTENDS Intq

CONSTANTS a, b, c

MCThread == {a, b, c}
MCByte == {0, 1}
=============================================================================
