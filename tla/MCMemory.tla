------------------------------- MODULE MCMemory -------------------------------
(* Two threads, two descriptors and a pool of two pages.                    *)
EXTENDS Memory, TLC

CONSTANTS s, t, small, large

MCThread == {s, t}
MCDesc == {small, large}
MCBlocks == small :> 3 @@ large :> 1
Sym == Permutations(MCThread)
=============================================================================
