-------------------------------- MODULE MCHeap --------------------------------
(* Four blocks of two, three or five units; the heap can grow once.          *)
EXTENDS Heap, TLC

CONSTANTS n1, n2, n3, n4

MCName == {n1, n2, n3, n4}
MCSizes == {8, 16, 28}
Sym == Permutations(MCName)
=============================================================================
