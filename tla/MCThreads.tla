----------------------------- MODULE MCThreads -----------------------------
(* Main and three pages: the idle thread and two threads at a time.         *)
EXTENDS Threads

CONSTANTS main, a, b, c

MCThread == {main, a, b, c}
Pages == Permutations({a, b, c})

Lowest  == {0}
Default == {1}
Highest == {2}
=============================================================================
