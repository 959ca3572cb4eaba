------------------------------ MODULE MCCondvar ------------------------------
(* Three threads, two of which can wait while the third signals.           *)
EXTENDS Condvar

CONSTANTS a, b, c

MCThread == {a, b, c}
MCPriorities == {0, 1}
=============================================================================
