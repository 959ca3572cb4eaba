------------------------------ MODULE MCLocks ------------------------------
(* Three threads and the idle thread, two locks, one interrupt inside the   *)
(* lock functions, and one thread that lowers its own priority.             *)
EXTENDS Locks

CONSTANTS main, a, b, c

Pages == {main, a, b, c}
Sym == Permutations({a, b, c})

TwoLocks == {1, 2}
MainOnly == {main}

Lowest   == {0}
Highest  == {2}
AllThree == {0, 1, 2}
=============================================================================
