------------------------------ MODULE MCAlarm ------------------------------
(* Main, the idle thread and two more threads, and a clock of three ticks.  *)
EXTENDS Alarm

CONSTANTS main, a, b, c

MCThread == {main, a, b, c}
Pages == Permutations({a, b, c})

MCSleeps == {-1, 1, 2}
Higher   == {2}
Lowest   == {0}
None     == {}
=============================================================================
