------------------------------ MODULE Allocator ------------------------------
(***************************************************************************)
(* What malloc and free promise (threads/malloc.c): a block that is handed *)
(* out lies clear of every block that is in use.                           *)
(***************************************************************************)
CONSTANTS Block, Overlap(_, _)

VARIABLE inuse

Init == inuse = {}

Alloc(b) ==
  /\ \A x \in inuse : ~Overlap(b, x)
  /\ inuse' = inuse \cup {b}

Free(b) ==
  /\ b \in inuse
  /\ inuse' = inuse \ {b}

Next == \E b \in Block : Alloc(b) \/ Free(b)

Spec == Init /\ [][Next]_inuse
=============================================================================
