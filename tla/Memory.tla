-------------------------------- MODULE Memory --------------------------------
(***************************************************************************)
(* The block allocator (threads/malloc.c) on top of the pool of kernel     *)
(* pages (threads/palloc.c).  A size is the descriptor that serves it, or  *)
(* a number of pages.  What a thread does to the list and the arenas of a  *)
(* descriptor under its lock is one step; calls of the page allocator are  *)
(* steps of their own, and palloc_free_multiple takes no lock.             *)
(***************************************************************************)
EXTENDS Integers, FiniteSets

CONSTANTS Thread, Desc, NULL,
          NONE,             \* what a page without the magic number shows
          blocks_per_arena, \* for each descriptor
          PageCnt,          \* pages of the pool
          MaxPages          \* of a big block

Page == 0 .. PageCnt - 1

\* Block i of an arena of descriptor c; with NULL for c, a big block of i pages.
arena_to_block(p, c, i) == [page |-> p, desc |-> c, idx |-> i]

BlocksOf(p, c) == {arena_to_block(p, c, i) : i \in 1 .. blocks_per_arena[c]}

BigBlock == {arena_to_block(p, NULL, k) : p \in Page, k \in 1 .. MaxPages}

Block == BigBlock \cup (UNION {BlocksOf(p, c) : p \in Page, c \in Desc})

ASSUME MemAssumption ==
  /\ NULL \notin Thread \cup Desc \cup Block /\ NONE \notin Desc \cup {NULL}
  /\ blocks_per_arena \in [Desc -> Nat \ {0}]
  /\ PageCnt \in Nat \ {0} /\ MaxPages \in Nat \ {0}

VARIABLES used,       \* the pages marked in used_map
          desc,       \* a->desc of the arena at the start of a page
          free_cnt,   \* a->free_cnt
          free_list,  \* the blocks on the list of a descriptor
          lock,       \* who holds the lock of a descriptor
          pc,         \* where a thread is
          d, n, a,    \* its descriptor (NULL: big), page count and arena
          blk,        \* the block it frees or reallocates
          live,       \* blocks that callers have and use
          panic       \* an assertion failed

header == <<desc, free_cnt>>
mem == <<used, desc, free_cnt, free_list>>
vars == <<used, desc, free_cnt, free_list, lock, pc, d, n, a, blk, live, panic>>

Where == {"out", "malloc", "look", "getpage", "newarena", "getbig", "newbig",
          "moved", "free", "push", "wipe", "unmark"}

MemTypeOK ==
  /\ used \subseteq Page
  /\ desc \in [Page -> Desc \cup {NULL, NONE}]
  /\ free_cnt \in [Page -> Nat]
  /\ free_list \in [Desc -> SUBSET Block]
  /\ lock \in [Desc -> Thread \cup {NULL}]
  /\ pc \in [Thread -> Where]
  /\ d \in [Thread -> Desc \cup {NULL}]
  /\ n \in [Thread -> Nat]
  /\ a \in [Thread -> Page]
  /\ blk \in [Thread -> Block \cup {NULL}]
  /\ live \subseteq Block
  /\ panic \in BOOLEAN

Group(p, k) == p .. p + k - 1

PagesOf(b) == IF b.desc = NULL THEN Group(b.page, b.idx) ELSE {b.page}

malloc_init ==
  /\ used = {}
  /\ desc = [p \in Page |-> NONE] /\ free_cnt = [p \in Page |-> 0]
  /\ free_list = [c \in Desc |-> {}]
  /\ lock = [c \in Desc |-> NULL]
  /\ pc = [t \in Thread |-> "out"]
  /\ d = [t \in Thread |-> NULL] /\ n = [t \in Thread |-> 0]
  /\ a = [t \in Thread |-> 0]
  /\ blk = [t \in Thread |-> NULL]
  /\ live = {}
  /\ panic = FALSE

Goto(t, where) == pc' = [pc EXCEPT ![t] = where]

lock_acquire(t) == lock[d[t]] = NULL /\ lock' = [lock EXCEPT ![d[t]] = t]
lock_release(t) == lock' = [lock EXCEPT ![d[t]] = NULL]

-----------------------------------------------------------------------------
(* malloc, calloc and realloc.                                             *)

\* A call for a block of a descriptor or of k pages; realloc brings the old
\* block, which its caller does not use meanwhile.
malloc(t) ==
  /\ pc[t] = "out"
  /\ \E old \in live \cup {NULL} :
       blk' = [blk EXCEPT ![t] = old] /\ live' = live \ {old}
  /\ \/ /\ \E c \in Desc : d' = [d EXCEPT ![t] = c]
        /\ n' = [n EXCEPT ![t] = 1]
        /\ Goto(t, "malloc")
     \/ /\ d' = [d EXCEPT ![t] = NULL]
        /\ \E k \in 1 .. MaxPages : n' = [n EXCEPT ![t] = k]
        /\ Goto(t, "getbig")
  /\ UNCHANGED <<mem, lock, a, panic>>

Enter(t) ==
  /\ pc[t] = "malloc" /\ lock_acquire(t)
  /\ Goto(t, "look")
  /\ UNCHANGED <<mem, d, n, a, blk, live, panic>>

\* Block b to the caller; realloc goes on to free the old one.
Return(t, b) ==
  /\ live' = live \cup {b}
  /\ Goto(t, IF blk[t] = NULL THEN "out" ELSE "moved")
  /\ UNCHANGED blk

\* A null pointer to the caller, who keeps the old block.
ReturnNull(t) ==
  /\ live' = live \cup ({blk[t]} \ {NULL})
  /\ Goto(t, "out")
  /\ blk' = [blk EXCEPT ![t] = NULL]

\* The front of the free list, or a new arena when the list is empty.
TakeBlock(t) ==
  /\ pc[t] = "look"
  /\ \/ /\ \E b \in free_list[d[t]] :
             /\ free_list' = [free_list EXCEPT ![d[t]] = @ \ {b}]
             /\ free_cnt' = [free_cnt EXCEPT ![b.page] = @ - 1]
             /\ Return(t, b)
        /\ lock_release(t)
     \/ /\ free_list[d[t]] = {}
        /\ Goto(t, "getpage")
        /\ UNCHANGED <<free_list, free_cnt, lock, blk, live>>
  /\ UNCHANGED <<used, desc, d, n, a, panic>>

\* Mutant: used_map is scanned for a group that starts with a free page.
ScanOnePage(p, k) == Group(p, k) \subseteq Page /\ p \notin used

\* A group of k free pages at p.
Scan(p, k) == Group(p, k) \subseteq Page /\ Group(p, k) \cap used = {}

\* bitmap_scan_and_flip under the lock of the pool; without a group, malloc
\* returns a null pointer.
palloc_get_multiple(t) ==
  /\ pc[t] \in {"getpage", "getbig"}
  /\ \/ /\ \E p \in Page :
             /\ Scan(p, n[t])
             /\ used' = used \cup Group(p, n[t])
             /\ a' = [a EXCEPT ![t] = p]
        /\ Goto(t, IF pc[t] = "getpage" THEN "newarena" ELSE "newbig")
        /\ UNCHANGED <<lock, blk, live>>
     \/ /\ ~\E p \in Page : Scan(p, n[t])
        /\ ReturnNull(t)
        /\ IF pc[t] = "getpage" THEN lock_release(t) ELSE UNCHANGED lock
        /\ UNCHANGED <<used, a>>
  /\ UNCHANGED <<desc, free_cnt, free_list, d, n, panic>>

\* The header and the free list of a new arena, and its first block.
NewArena(t) ==
  /\ pc[t] = "newarena"
  /\ desc' = [desc EXCEPT ![a[t]] = d[t]]
  /\ free_cnt' = [free_cnt EXCEPT ![a[t]] = blocks_per_arena[d[t]] - 1]
  /\ \E b \in BlocksOf(a[t], d[t]) :
       /\ free_list' = [free_list EXCEPT ![d[t]] = @ \cup (BlocksOf(a[t], d[t]) \ {b})]
       /\ Return(t, b)
  /\ lock_release(t)
  /\ UNCHANGED <<used, d, n, a, panic>>

NewBig(t) ==
  /\ pc[t] = "newbig"
  /\ desc' = [desc EXCEPT ![a[t]] = NULL]
  /\ free_cnt' = [free_cnt EXCEPT ![a[t]] = n[t]]
  /\ Return(t, arena_to_block(a[t], NULL, n[t]))
  /\ UNCHANGED <<used, free_list, lock, d, n, a, panic>>

-----------------------------------------------------------------------------
(* free.                                                                   *)

\* The header of the arena is read without the lock; block_to_arena asserts
\* that it is one and that the block fits it.
free(t) ==
  /\ \/ pc[t] = "out" /\ \E b \in live :
          blk' = [blk EXCEPT ![t] = b] /\ live' = live \ {b}
     \/ pc[t] = "moved" /\ UNCHANGED <<blk, live>>
  /\ LET p == blk'[t].page
         c == desc[p]
     IN  \/ /\ c = NONE \/ blk'[t].desc # c
            /\ panic' = TRUE
            /\ UNCHANGED <<d, n, a, pc>>
         \/ /\ c # NONE /\ blk'[t].desc = c
            /\ d' = [d EXCEPT ![t] = c]
            /\ a' = [a EXCEPT ![t] = p]
            /\ n' = [n EXCEPT ![t] = IF c = NULL THEN free_cnt[p] ELSE 1]
            /\ Goto(t, IF c = NULL THEN "wipe" ELSE "free")
            /\ UNCHANGED panic
  /\ UNCHANGED <<mem, lock>>

EnterFree(t) ==
  /\ pc[t] = "free" /\ lock_acquire(t)
  /\ Goto(t, "push")
  /\ UNCHANGED <<mem, d, n, a, blk, live, panic>>

\* Mutant: the blocks of an arena that is given up stay on the free list.
PushAndKeep(t) ==
  /\ pc[t] = "push"
  /\ free_list' = [free_list EXCEPT ![d[t]] = @ \cup {blk[t]}]
  /\ free_cnt' = [free_cnt EXCEPT ![a[t]] = @ + 1]
  /\ IF free_cnt'[a[t]] >= blocks_per_arena[d[t]]
     THEN Goto(t, "wipe") /\ UNCHANGED lock
     ELSE Goto(t, "out") /\ lock_release(t)
  /\ blk' = [blk EXCEPT ![t] = NULL]
  /\ UNCHANGED <<used, desc, d, n, a, live, panic>>

\* Mutant: an arena is given up one block too late.
PushTooLate(t) ==
  /\ pc[t] = "push"
  /\ free_list' = [free_list EXCEPT ![d[t]] = @ \cup {blk[t]}]
  /\ free_cnt' = [free_cnt EXCEPT ![a[t]] = @ + 1]
  /\ lock_release(t)
  /\ Goto(t, "out")
  /\ blk' = [blk EXCEPT ![t] = NULL]
  /\ UNCHANGED <<used, desc, d, n, a, live, panic>>

\* The block joins the free list; an arena without blocks in use loses all its
\* blocks and is given up with the lock still held.
PushBlock(t) ==
  LET p == a[t]
      c == d[t]
  IN  /\ pc[t] = "push"
      /\ free_cnt' = [free_cnt EXCEPT ![p] = @ + 1]
      /\ \/ /\ free_cnt[p] + 1 < blocks_per_arena[c]
            /\ free_list' = [free_list EXCEPT ![c] = @ \cup {blk[t]}]
            /\ lock_release(t)
            /\ Goto(t, "out")
            /\ UNCHANGED panic
         \/ /\ free_cnt[p] + 1 >= blocks_per_arena[c]
            /\ panic' = (free_cnt[p] + 1 # blocks_per_arena[c])
            /\ free_list' = [free_list EXCEPT ![c] = (@ \cup {blk[t]}) \ BlocksOf(p, c)]
            /\ Goto(t, "wipe")
            /\ UNCHANGED lock
      /\ blk' = [blk EXCEPT ![t] = NULL]
      /\ UNCHANGED <<used, desc, d, n, a, live>>

\* palloc_free_multiple fills the pages with 0xcc ...
Wipe(t) ==
  /\ pc[t] = "wipe"
  /\ desc' = [p \in Page |-> IF p \in Group(a[t], n[t]) THEN NONE ELSE desc[p]]
  /\ free_cnt' = [p \in Page |-> IF p \in Group(a[t], n[t]) THEN 0 ELSE free_cnt[p]]
  /\ panic' = ~(Group(a[t], n[t]) \subseteq used)
  /\ blk' = [blk EXCEPT ![t] = NULL]
  /\ Goto(t, "unmark")
  /\ UNCHANGED <<used, free_list, lock, d, n, a, live>>

\* ... and clears their marks.
Unmark(t) ==
  /\ pc[t] = "unmark"
  /\ used' = used \ Group(a[t], n[t])
  /\ IF d[t] = NULL THEN UNCHANGED lock ELSE lock_release(t)
  /\ Goto(t, "out")
  /\ UNCHANGED <<header, free_list, d, n, a, blk, live, panic>>

-----------------------------------------------------------------------------

MemNext ==
  /\ ~panic
  /\ \E t \in Thread :
       \/ malloc(t) \/ Enter(t) \/ TakeBlock(t) \/ palloc_get_multiple(t)
       \/ NewArena(t) \/ NewBig(t)
       \/ free(t) \/ EnterFree(t) \/ PushBlock(t) \/ Wipe(t) \/ Unmark(t)

MemSpec == malloc_init /\ [][MemNext]_vars

-----------------------------------------------------------------------------
(* Properties.                                                             *)

\* Blocks of different arenas share no page; blocks of one arena have numbers
\* of their own.
Overlap(x, y) ==
  /\ PagesOf(x) \cap PagesOf(y) # {}
  /\ ~(x.desc = y.desc /\ x.desc # NULL /\ x.idx # y.idx)

\* The block that realloc is to free when it has a new one.
HasOld(t) ==
  /\ pc[t] \in {"malloc", "look", "getpage", "newarena", "getbig", "newbig", "moved"}
  /\ blk[t] # NULL

\* The blocks that callers use, or that realloc has not freed yet.
InUse == live \cup {blk[t] : t \in {u \in Thread : HasOld(u)}}

\* No block is handed out that overlaps one in use, although arenas are given
\* up and made anew from pages that other descriptors and big blocks had, and
\* pages come back without the lock of the pool.
Abstract == INSTANCE Allocator WITH inuse <- InUse
ImplementsAllocator == Abstract!Spec

\* free finds the header of its arena although it reads it without the lock:
\* no assertion fails for callers that free what they were given, once.
MallocNeverPanics == ~panic

\* A thread that has pages which no header accounts for.
Busy(t) == pc[t] \in {"newarena", "newbig", "wipe", "unmark"}

HeadersExact ==
  \A p \in Page : desc[p] \in Desc /\ lock[desc[p]] = NULL =>
    /\ free_cnt[p] = Cardinality({b \in free_list[desc[p]] : b.page = p})
    /\ free_cnt[p] < blocks_per_arena[desc[p]]

MarksExact ==
  used = {p \in Page : desc[p] \in Desc}
         \cup (UNION {PagesOf(b) : b \in {x \in InUse : x.desc = NULL}})
         \cup (UNION {Group(a[t], n[t]) : t \in {u \in Thread : Busy(u)}})

\* While no thread changes a descriptor, every arena of it has as many blocks
\* on the free list as its header says, and is not wholly free; a page is
\* marked exactly if it belongs to an arena, to a big block or to a thread
\* that gets or gives it just now.
ArenasExact == HeadersExact /\ MarksExact
=============================================================================
