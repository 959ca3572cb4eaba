---------------------------- MODULE MemoryProofs ----------------------------
(***************************************************************************)
(* Memory for any threads, descriptors, arenas and size of the pool.       *)
(***************************************************************************)
EXTENDS Memory, FiniteSetTheorems, TLAPS

\* The blocks that are neither on a free list nor given back: in use, or on
\* their way through free to the list.
Owns(t) ==
  /\ pc[t] \in {"malloc", "look", "getpage", "newarena", "getbig", "newbig", "moved",
                "free", "push"}
  /\ blk[t] # NULL
Held == live \cup {blk[t] : t \in {u \in Thread : Owns(u)}}

\* Arenas that have lost their blocks and still have their header.
Dying == {a[t] : t \in {u \in Thread : pc[u] = "wipe" /\ d[u] \in Desc}}

\* The pages a thread gets or gives just now.
Moved == [t \in Thread |-> IF Busy(t) THEN Group(a[t], n[t]) ELSE {}]

FreeIn(list, c, p) == {b \in list[c] : b.page = p}

\* Where a thread is, what it has there.
PlacesOK ==
  \A t \in Thread :
    /\ pc[t] \in {"malloc", "look", "getpage", "newarena", "free", "push"} => d[t] \in Desc
    /\ pc[t] \in {"getbig", "newbig"} => d[t] = NULL
    /\ pc[t] # "out" => n[t] > 0 /\ n[t] <= MaxPages
    /\ d[t] \in Desc => n[t] = 1
    /\ pc[t] \in {"free", "push"} => blk[t] \in BlocksOf(a[t], d[t])
    /\ pc[t] = "moved" => blk[t] # NULL
    /\ pc[t] \in {"look", "getpage", "newarena", "push"} => lock[d[t]] = t
    /\ pc[t] \in {"wipe", "unmark"} /\ d[t] \in Desc => lock[d[t]] = t

\* Nobody has a block that another has too.
Exclusive ==
  \A t \in Thread : Owns(t) =>
    /\ blk[t] \notin live
    /\ \A u \in Thread : u # t /\ Owns(u) => blk[u] # blk[t]

\* A small block that is held is off the list of a living arena.
SmallOK ==
  \A b \in Held : b.desc \in Desc =>
    desc[b.page] = b.desc /\ b \notin free_list[b.desc] /\ b.page \notin Dying

\* A big block has its header, and its pages have no other.
BigOK ==
  \A b \in Held : b.desc = NULL =>
    /\ desc[b.page] = NULL /\ free_cnt[b.page] = b.idx
    /\ Group(b.page, b.idx) \subseteq used
    /\ \A q \in Group(b.page, b.idx) : q # b.page => desc[q] = NONE

\* A free block belongs to a living arena of its list.
FreeOK ==
  \A c \in Desc : \A b \in free_list[c] :
    b \in BlocksOf(b.page, c) /\ desc[b.page] = c /\ b.page \notin Dying

\* The header of a living arena knows its free blocks.
CountOK ==
  \A p \in Page : desc[p] \in Desc /\ p \notin Dying =>
    /\ free_cnt[p] = Cardinality(FreeIn(free_list, desc[p], p))
    /\ free_cnt[p] < blocks_per_arena[desc[p]]

\* Pages on the move have no header, except the one that is wiped.
HeadersOK ==
  \A t \in Thread : \A q \in Moved[t] :
    desc[q] = IF pc[t] = "wipe" /\ q = a[t] THEN d[t] ELSE NONE

\* Nobody else has them.
MovedOK ==
  \A t \in Thread :
    /\ Moved[t] \subseteq used
    /\ \A u \in Thread : u # t => Moved[t] \cap Moved[u] = {}
    /\ \A b \in Held : b.desc = NULL => Moved[t] \cap Group(b.page, b.idx) = {}

\* Every page with a header is marked, and every marked page has an owner.
MarksOK ==
  /\ \A p \in Page : desc[p] # NONE => p \in used
  /\ \A p \in used :
       \/ desc[p] \in Desc
       \/ \E b \in Held : b.desc = NULL /\ p \in Group(b.page, b.idx)
       \/ \E t \in Thread : p \in Moved[t]

OwnersOK ==
  SmallOK /\ BigOK /\ FreeOK /\ CountOK /\ HeadersOK /\ MovedOK /\ MarksOK

MemInv == MemTypeOK /\ PlacesOK /\ Exclusive /\ OwnersOK /\ MallocNeverPanics

-----------------------------------------------------------------------------
(* Blocks.                                                                 *)

LEMMA BlocksFacts ==
  ASSUME NEW p \in Page, NEW c \in Desc
  PROVE  /\ BlocksOf(p, c) \subseteq Block
         /\ \A b \in BlocksOf(p, c) : b.page = p /\ b.desc = c
         /\ IsFiniteSet(BlocksOf(p, c)) /\ Cardinality(BlocksOf(p, c)) = blocks_per_arena[c]
         /\ BlocksOf(p, c) # {}
<1>1. \A b \in BlocksOf(p, c) : b.page = p /\ b.desc = c
  BY DEF BlocksOf, arena_to_block
<1>2. BlocksOf(p, c) \subseteq Block
  BY DEF Block
<1>3. blocks_per_arena[c] \in Nat \ {0}
  BY MemAssumption
<1>4. IsFiniteSet(BlocksOf(p, c)) /\ Cardinality(BlocksOf(p, c)) = blocks_per_arena[c]
  <2> DEFINE num == [i \in 1 .. blocks_per_arena[c] |-> arena_to_block(p, c, i)]
  <2>1. num \in Bijection(1 .. blocks_per_arena[c], BlocksOf(p, c))
    BY DEF Bijection, Injection, Surjection, IsInjective, BlocksOf, arena_to_block
  <2>2. IsFiniteSet(1 .. blocks_per_arena[c])
        /\ Cardinality(1 .. blocks_per_arena[c]) = blocks_per_arena[c]
    BY <1>3, FS_Interval
  <2>3. ExistsBijection(1 .. blocks_per_arena[c], BlocksOf(p, c))
    BY <2>1 DEF ExistsBijection
  <2> QED BY <2>2, <2>3, FS_Bijection
<1>5. arena_to_block(p, c, 1) \in BlocksOf(p, c)
  BY <1>3 DEF BlocksOf
<1> QED BY <1>1, <1>2, <1>4, <1>5

LEMMA BlockTyped ==
  ASSUME NEW b \in Block
  PROVE  /\ b.page \in Page /\ b.desc \in Desc \cup {NULL}
         /\ b.desc = NULL => b.idx \in Nat \ {0}
         /\ b.desc \in Desc => b \in BlocksOf(b.page, b.desc)
<1>1. CASE b \in BigBlock
  BY <1>1, MemAssumption DEF BigBlock, arena_to_block
<1>2. CASE \E p \in Page, c \in Desc : b \in BlocksOf(p, c)
  BY <1>2, BlocksFacts, MemAssumption
<1> QED BY <1>1, <1>2 DEF Block

LEMMA HeldIs ==
  \A b : b \in Held <=> b \in live \/ \E t \in Thread : Owns(t) /\ b = blk[t]
BY DEF Held

LEMMA HeldTyped ==
  ASSUME MemTypeOK
  PROVE  Held \subseteq Block
BY DEF Held, Owns, MemTypeOK

\* Big blocks that are held share no page: the header of one would be inside
\* the other.
LEMMA BigDisjoint ==
  ASSUME MemTypeOK, BigOK, NEW x \in Held, NEW y \in Held, x.desc = NULL, y.desc = NULL, x # y
  PROVE  Group(x.page, x.idx) \cap Group(y.page, y.idx) = {}
<1> USE MemAssumption
<1>1. /\ x \in Block /\ y \in Block
      /\ x.page \in Nat /\ y.page \in Nat /\ x.idx \in Nat \ {0} /\ y.idx \in Nat \ {0}
  BY HeldTyped, BlockTyped DEF Page
<1>2. x.page # y.page
  <2> SUFFICES ASSUME x.page = y.page PROVE x = y
    OBVIOUS
  <2>1. x.idx = y.idx
    BY DEF BigOK
  <2>2. x \in BigBlock /\ y \in BigBlock
    BY <1>1, BlocksFacts DEF Block
  <2> QED BY <2>1, <2>2 DEF BigBlock, arena_to_block
<1>3. y.page \notin Group(x.page, x.idx) /\ x.page \notin Group(y.page, y.idx)
  BY <1>2 DEF BigOK
<1> QED BY <1>1, <1>3 DEF Group

\* A step that leaves the memory and its owners alone.
LEMMA Frame ==
  ASSUME OwnersOK, UNCHANGED mem, Held' = Held, Dying' = Dying, Moved' = Moved,
         \A u \in Thread : Moved[u] # {} =>
           pc'[u] = pc[u] /\ a'[u] = a[u] /\ d'[u] = d[u]
  PROVE  OwnersOK'
<1>1. SmallOK' /\ BigOK' /\ FreeOK' /\ CountOK'
  BY DEF OwnersOK, SmallOK, BigOK, FreeOK, CountOK, mem
<1>2. HeadersOK' /\ MovedOK' /\ MarksOK'
  BY DEF OwnersOK, HeadersOK, MovedOK, MarksOK, mem
<1> QED BY <1>1, <1>2 DEF OwnersOK

LEMMA MallocStep ==
  ASSUME MemInv, ~panic, NEW t \in Thread, malloc(t)
  PROVE  MemInv'
<1> USE MemAssumption DEF MemInv
<1>1. MemTypeOK'
  BY DEF malloc, Goto, mem, MemTypeOK, Where
<1>2. PlacesOK' /\ Exclusive'
  BY DEF malloc, Goto, mem, MemTypeOK, PlacesOK, Exclusive, Owns
<1>3. Held' = Held /\ Dying' = Dying
  <2>1. PICK old \in live \cup {NULL} : blk' = [blk EXCEPT ![t] = old] /\ live' = live \ {old}
    BY DEF malloc
  <2>2. \A u \in Thread : u # t => (Owns(u)' <=> Owns(u)) /\ blk'[u] = blk[u]
    BY <2>1 DEF malloc, Goto, MemTypeOK, Owns
  <2>3. ~Owns(t) /\ (Owns(t)' <=> old # NULL) /\ blk'[t] = old /\ NULL \notin live
    BY <2>1 DEF malloc, Goto, MemTypeOK, Owns
  <2>4. \A x : x \in Held' <=> x \in Held
    BY <2>1, <2>2, <2>3 DEF Held
  <2>5. Dying' = Dying
    BY DEF malloc, Goto, MemTypeOK, Dying
  <2> QED BY <2>4, <2>5
<1>4. Moved' = Moved /\ Moved[t] = {}
  BY DEF malloc, Goto, mem, MemTypeOK, Moved, Busy
<1>5. OwnersOK'
  BY <1>3, <1>4, Frame DEF malloc, Goto, mem, MemTypeOK
<1> QED BY <1>1, <1>2, <1>5 DEF MallocNeverPanics, malloc, Goto, mem

LEMMA EnterStep ==
  ASSUME MemInv, ~panic, NEW t \in Thread, Enter(t)
  PROVE  MemInv'
<1> USE MemAssumption DEF MemInv
<1>1. MemTypeOK'
  BY DEF Enter, lock_acquire, Goto, mem, MemTypeOK, Where
<1>2. PlacesOK' /\ Exclusive'
  BY DEF Enter, lock_acquire, Goto, mem, MemTypeOK, PlacesOK, Exclusive, Owns
<1>3. Held' = Held /\ Dying' = Dying
  <2>1. \A x : x \in Held' <=> x \in Held
    BY DEF Enter, lock_acquire, Goto, mem, MemTypeOK, Held, Owns
  <2>2. Dying' = Dying
    BY DEF Enter, lock_acquire, Goto, mem, MemTypeOK, Dying
  <2> QED BY <2>1, <2>2
<1>4. Moved' = Moved /\ Moved[t] = {}
  BY DEF Enter, lock_acquire, Goto, mem, MemTypeOK, Moved, Busy
<1>5. OwnersOK'
  BY <1>3, <1>4, Frame DEF Enter, lock_acquire, Goto, mem, MemTypeOK
<1> QED BY <1>1, <1>2, <1>5 DEF MallocNeverPanics, Enter, lock_acquire, Goto, mem

LEMMA EnterFreeStep ==
  ASSUME MemInv, ~panic, NEW t \in Thread, EnterFree(t)
  PROVE  MemInv'
<1> USE MemAssumption DEF MemInv
<1>1. MemTypeOK'
  BY DEF EnterFree, lock_acquire, Goto, mem, MemTypeOK, Where
<1>2. PlacesOK' /\ Exclusive'
  BY DEF EnterFree, lock_acquire, Goto, mem, MemTypeOK, PlacesOK, Exclusive, Owns
<1>3. Held' = Held /\ Dying' = Dying
  <2>1. \A x : x \in Held' <=> x \in Held
    BY DEF EnterFree, lock_acquire, Goto, mem, MemTypeOK, Held, Owns
  <2>2. Dying' = Dying
    BY DEF EnterFree, lock_acquire, Goto, mem, MemTypeOK, Dying
  <2> QED BY <2>1, <2>2
<1>4. Moved' = Moved /\ Moved[t] = {}
  BY DEF EnterFree, lock_acquire, Goto, mem, MemTypeOK, Moved, Busy
<1>5. OwnersOK'
  BY <1>3, <1>4, Frame DEF EnterFree, lock_acquire, Goto, mem, MemTypeOK
<1> QED BY <1>1, <1>2, <1>5 DEF MallocNeverPanics, EnterFree, lock_acquire, Goto, mem

LEMMA TakeBlockStep ==
  ASSUME MemInv, ~panic, NEW t \in Thread, TakeBlock(t)
  PROVE  MemInv'
<1> USE MemAssumption DEF MemInv
<1>1. PlacesOK'
  BY DEF TakeBlock, Return, Goto, lock_release, MemTypeOK, PlacesOK
<1>2. Dying' = Dying /\ Moved' = Moved /\ Moved[t] = {}
  BY DEF TakeBlock, Return, Goto, MemTypeOK, Moved, Busy, Dying
<1>3. CASE free_list[d[t]] = {} /\ Goto(t, "getpage") /\ UNCHANGED <<mem, lock, blk, live>>
  <2>1. MemTypeOK' /\ Exclusive'
    BY <1>3 DEF TakeBlock, Goto, mem, MemTypeOK, Where, Exclusive, Owns
  <2>2. Held' = Held
    BY <1>3 DEF TakeBlock, Goto, MemTypeOK, Held, Owns
  <2>3. OwnersOK'
    BY <1>2, <1>3, <2>2, Frame DEF TakeBlock, Goto, MemTypeOK
  <2> QED BY <1>1, <2>1, <2>3 DEF MallocNeverPanics, TakeBlock
<1>4. ASSUME NEW b \in free_list[d[t]],
             free_list' = [free_list EXCEPT ![d[t]] = @ \ {b}],
             free_cnt' = [free_cnt EXCEPT ![b.page] = @ - 1],
             Return(t, b), lock_release(t)
      PROVE  MemInv'
  <2> DEFINE c == d[t]
             p == b.page
  <2>1. /\ c \in Desc /\ p \in Page /\ b \in BlocksOf(p, c) /\ b \in Block /\ b.desc = c
        /\ desc[p] = c /\ p \notin Dying
    <3>1. c \in Desc
      BY DEF TakeBlock, PlacesOK
    <3>2. b \in Block /\ b \in BlocksOf(p, c) /\ desc[p] = c /\ p \notin Dying
      BY <3>1 DEF OwnersOK, FreeOK, MemTypeOK
    <3> QED BY <3>1, <3>2, BlockTyped, BlocksFacts
  <2>2. /\ b \notin Held
        /\ UNCHANGED <<used, desc, d, a, blk>>
        /\ \A u \in Thread : u # t => pc'[u] = pc[u]
    BY <1>4, <2>1 DEF OwnersOK, SmallOK, TakeBlock, Return, Goto, MemTypeOK
  <2>3. Held' = Held \cup {b}
    <3>1. \A u \in Thread : Owns(u)' <=> Owns(u)
      BY <1>4 DEF TakeBlock, Return, Goto, MemTypeOK, Owns
    <3> QED BY <1>4, <2>2, <3>1 DEF Held, Return
  <2>4. Exclusive'
    <3>1. \A u \in Thread : (Owns(u)' <=> Owns(u)) /\ (Owns(u) => blk[u] # b)
      BY <1>4, <2>2 DEF TakeBlock, Return, Goto, MemTypeOK, Owns, Held
    <3> QED BY <1>4, <2>2, <3>1 DEF Exclusive, Return
  <2>5. FreeIn(free_list', c, p) = FreeIn(free_list, c, p) \ {b} /\ b \in FreeIn(free_list, c, p)
    BY <1>4, <2>1 DEF FreeIn, MemTypeOK
  <2>6. FreeIn(free_list, c, p) \subseteq BlocksOf(p, c)
    BY <2>1 DEF FreeIn, OwnersOK, FreeOK
  <2>7. /\ Cardinality(FreeIn(free_list', c, p)) = Cardinality(FreeIn(free_list, c, p)) - 1
        /\ Cardinality(FreeIn(free_list', c, p)) \in Nat
    <3>1. IsFiniteSet(FreeIn(free_list, c, p))
      BY <2>1, <2>6, BlocksFacts, FS_Subset
    <3>2. IsFiniteSet(FreeIn(free_list', c, p))
      BY <2>5, <3>1, FS_RemoveElement
    <3> QED BY <2>5, <3>1, <3>2, FS_RemoveElement, FS_CardinalityType
  <2>8. free_cnt[p] = Cardinality(FreeIn(free_list, c, p)) /\ free_cnt[p] < blocks_per_arena[c]
    BY <2>1 DEF OwnersOK, CountOK
  <2>9. MemTypeOK'
    <3>1. free_cnt[p] - 1 \in Nat
      BY <2>7, <2>8
    <3> QED BY <1>4, <2>1, <3>1 DEF TakeBlock, Return, Goto, lock_release, MemTypeOK, Where
  <2>10. CountOK'
    <3>1. ASSUME NEW q \in Page, desc[q] \in Desc, q \notin Dying
          PROVE  /\ free_cnt'[q] = Cardinality(FreeIn(free_list', desc[q], q))
                 /\ free_cnt'[q] < blocks_per_arena[desc[q]]
      <4>1. CASE q = p
        BY <1>4, <2>1, <2>7, <2>8, <4>1 DEF MemTypeOK
      <4>2. CASE q # p
        <5>1. FreeIn(free_list', desc[q], q) = FreeIn(free_list, desc[q], q)
          BY <1>4, <2>1, <3>1, <4>2 DEF FreeIn, MemTypeOK
        <5> QED BY <1>4, <2>1, <3>1, <4>2, <5>1 DEF OwnersOK, CountOK, MemTypeOK
      <4> QED BY <4>1, <4>2
    <3> QED BY <1>2, <2>2, <3>1 DEF CountOK
  <2>11. FreeOK' /\ SmallOK'
    BY <1>2, <1>4, <2>1, <2>2, <2>3 DEF OwnersOK, FreeOK, SmallOK, MemTypeOK
  <2>12. BigOK'
    BY <1>4, <2>1, <2>2, <2>3 DEF OwnersOK, BigOK, MemTypeOK
  <2>13. HeadersOK' /\ MovedOK' /\ MarksOK'
    BY <1>2, <2>1, <2>2, <2>3 DEF OwnersOK, HeadersOK, MovedOK, MarksOK
  <2> QED BY <1>1, <2>4, <2>9, <2>10, <2>11, <2>12, <2>13 DEF OwnersOK, MallocNeverPanics, TakeBlock
<1> QED BY <1>3, <1>4 DEF TakeBlock, mem

LEMMA PallocStep ==
  ASSUME MemInv, ~panic, NEW t \in Thread, palloc_get_multiple(t)
  PROVE  MemInv'
<1> USE MemAssumption DEF MemInv
<1>1. PlacesOK'
  BY DEF palloc_get_multiple, ReturnNull, Goto, lock_release, MemTypeOK, PlacesOK
<1>2. CASE Goto(t, "out") /\ ReturnNull(t) /\ UNCHANGED <<used, a>>
  <2>1. MemTypeOK' /\ Exclusive'
    BY <1>2 DEF palloc_get_multiple, ReturnNull, Goto, lock_release, MemTypeOK, PlacesOK,
                Where, Exclusive, Owns
  <2>2. \A x : x \in Held' <=> x \in Held
    <3>1. \A u \in Thread : u # t => (Owns(u)' <=> Owns(u)) /\ blk'[u] = blk[u]
      BY <1>2 DEF palloc_get_multiple, ReturnNull, Goto, MemTypeOK, Owns
    <3>2. ~Owns(t)' /\ (Owns(t) <=> blk[t] # NULL) /\ live' = live \cup ({blk[t]} \ {NULL})
      BY <1>2 DEF palloc_get_multiple, ReturnNull, Goto, MemTypeOK, Owns
    <3> QED BY <3>1, <3>2 DEF Held
  <2>3. Dying' = Dying /\ Moved' = Moved /\ Moved[t] = {}
    BY <1>2 DEF palloc_get_multiple, ReturnNull, Goto, MemTypeOK, Moved, Busy, Dying
  <2>4. OwnersOK'
    BY <1>2, <2>2, <2>3, Frame DEF palloc_get_multiple, Goto, MemTypeOK, mem
  <2> QED BY <1>1, <2>1, <2>4 DEF MallocNeverPanics, palloc_get_multiple
<1>3. ASSUME NEW p \in Page, Scan(p, n[t]), used' = used \cup Group(p, n[t]),
             a' = [a EXCEPT ![t] = p],
             Goto(t, IF pc[t] = "getpage" THEN "newarena" ELSE "newbig"),
             UNCHANGED <<lock, blk, live>>
      PROVE  MemInv'
  <2> DEFINE G == Group(p, n[t])
  <2>1. /\ pc[t] \in {"getpage", "getbig"} /\ pc'[t] \in {"newarena", "newbig"}
        /\ \A u \in Thread : u # t => pc'[u] = pc[u]
        /\ UNCHANGED <<desc, free_cnt, free_list, d, n, panic>>
    BY <1>3 DEF palloc_get_multiple, Goto, MemTypeOK
  <2>2. MemTypeOK' /\ Exclusive'
    BY <1>3, <2>1 DEF palloc_get_multiple, Scan, Goto, MemTypeOK, Where, Exclusive, Owns
  <2>3. Held' = Held /\ Dying' = Dying
    BY <1>3, <2>1 DEF MemTypeOK, Held, Owns, Dying
  <2>4. Moved' = [Moved EXCEPT ![t] = G] /\ Moved[t] = {} /\ DOMAIN Moved = Thread
    BY <1>3, <2>1 DEF MemTypeOK, Moved, Busy
  <2>5. G \subseteq Page /\ G \cap used = {} /\ \A q \in G : desc[q] = NONE
    BY <1>3 DEF Scan, OwnersOK, MarksOK
  <2>6. SmallOK' /\ FreeOK' /\ CountOK' /\ BigOK'
    BY <1>3, <2>1, <2>3 DEF OwnersOK, SmallOK, FreeOK, CountOK, BigOK
  <2>7. HeadersOK'
    BY <1>3, <2>1, <2>4, <2>5 DEF OwnersOK, HeadersOK, MemTypeOK
  <2>8. MovedOK'
    <3>1. \A b \in Held : b.desc = NULL => G \cap Group(b.page, b.idx) = {}
      BY <2>5 DEF OwnersOK, BigOK
    <3>2. \A u \in Thread : G \cap Moved[u] = {}
      BY <2>5 DEF OwnersOK, MovedOK
    <3> QED BY <1>3, <2>3, <2>4, <3>1, <3>2 DEF OwnersOK, MovedOK
  <2>9. MarksOK'
    <3>1. \A q \in used : \A u \in Thread : q \in Moved[u] => q \in Moved'[u]
      BY <2>4
    <3> QED BY <1>3, <2>1, <2>3, <2>4, <3>1 DEF OwnersOK, MarksOK
  <2> QED BY <1>1, <2>1, <2>2, <2>6, <2>7, <2>8, <2>9 DEF OwnersOK, MallocNeverPanics
<1> QED BY <1>2, <1>3 DEF palloc_get_multiple, ReturnNull

LEMMA NewArenaStep ==
  ASSUME MemInv, ~panic, NEW t \in Thread, NewArena(t)
  PROVE  MemInv'
<1> USE MemAssumption DEF MemInv
<1> DEFINE c == d[t]
           p == a[t]
<1>1. PICK b \in BlocksOf(p, c) :
        /\ free_list' = [free_list EXCEPT ![c] = @ \cup (BlocksOf(p, c) \ {b})]
        /\ Return(t, b)
  BY DEF NewArena
<1>2. /\ pc[t] = "newarena" /\ c \in Desc /\ p \in Page /\ n[t] = 1
      /\ desc' = [desc EXCEPT ![p] = c]
      /\ free_cnt' = [free_cnt EXCEPT ![p] = blocks_per_arena[c] - 1]
      /\ blocks_per_arena[c] \in Nat \ {0}
      /\ lock_release(t) /\ UNCHANGED <<used, d, n, a, panic>>
  BY DEF NewArena, PlacesOK, MemTypeOK
<1>3. /\ b \in Block /\ b.page = p /\ b.desc = c
      /\ \A x \in BlocksOf(p, c) : x \in Block /\ x.page = p /\ x.desc = c
  BY <1>2, BlocksFacts
<1>4. /\ Moved[t] = {p} /\ Moved' = [Moved EXCEPT ![t] = {}] /\ DOMAIN Moved = Thread
      /\ Dying' = Dying /\ p \notin Dying
  <2>1. Moved[t] = {p}
    BY <1>2 DEF Moved, Busy, Group, Page
  <2>2. Moved' = [Moved EXCEPT ![t] = {}] /\ DOMAIN Moved = Thread /\ Dying' = Dying
    <3>1. pc'[t] \in {"out", "moved"} /\ \A u \in Thread : u # t => pc'[u] = pc[u]
      BY <1>1 DEF Return, Goto, MemTypeOK
    <3>2. Moved' = [u \in Thread |-> IF u = t THEN {} ELSE Moved[u]]
      BY <1>2, <3>1 DEF Moved, Busy
    <3>3. DOMAIN Moved = Thread
      BY DEF Moved
    <3>4. Dying' = Dying
      BY <1>2, <3>1 DEF Dying
    <3> QED BY <3>2, <3>3, <3>4
  <2>3. \A u \in Thread : pc[u] = "wipe" /\ d[u] \in Desc => a[u] \in Moved[u]
    BY DEF Moved, Busy, Group, Page, MemTypeOK, PlacesOK
  <2>4. p \notin Dying
    BY <1>2, <2>1, <2>3 DEF Dying, OwnersOK, MovedOK
  <2> QED BY <2>1, <2>2, <2>4
<1>5. desc[p] = NONE
  BY <1>2, <1>4 DEF OwnersOK, HeadersOK
<1>6. /\ \A x \in Held : x.desc \in Desc => x.page # p
      /\ \A e \in Desc : \A x \in free_list[e] : x.page # p
  BY <1>5 DEF OwnersOK, SmallOK, FreeOK
<1>7. b \notin Held
  BY <1>2, <1>3, <1>6
<1>8. /\ UNCHANGED blk /\ live' = live \cup {b}
      /\ \A u \in Thread : Owns(u)' <=> Owns(u)
      /\ \A u \in Thread : u # t => pc'[u] = pc[u]
  BY <1>1, <1>2 DEF Return, Goto, MemTypeOK, Owns
<1>9. Held' = Held \cup {b}
  BY <1>8 DEF Held
<1>10. Exclusive'
  BY <1>7, <1>8 DEF Exclusive, Held
<1>11. MemTypeOK' /\ PlacesOK'
  <2>1. blocks_per_arena[c] - 1 \in Nat
    BY <1>2
  <2>2. \A e \in Desc : free_list'[e] \subseteq Block
    BY <1>1, <1>2, <1>3 DEF MemTypeOK
  <2>3. free_list' \in [Desc -> SUBSET Block]
    BY <1>1, <2>2 DEF MemTypeOK
  <2> QED BY <1>1, <1>2, <1>3, <2>1, <2>3
          DEF Return, Goto, lock_release, MemTypeOK, Where, PlacesOK
<1>12. SmallOK' /\ FreeOK'
  BY <1>1, <1>2, <1>3, <1>4, <1>6, <1>9 DEF OwnersOK, SmallOK, FreeOK, MemTypeOK
<1>13. BigOK'
  <2>1. \A x \in Held : x.desc = NULL => x.page # p /\ p \notin Group(x.page, x.idx)
    BY <1>4, <1>5 DEF OwnersOK, BigOK, MovedOK
  <2> QED BY <1>2, <1>3, <1>9, <2>1 DEF OwnersOK, BigOK, MemTypeOK
<1>14. CountOK'
  <2>1. FreeIn(free_list', c, p) = BlocksOf(p, c) \ {b}
    BY <1>1, <1>2, <1>3, <1>6 DEF FreeIn, MemTypeOK
  <2>2. Cardinality(FreeIn(free_list', c, p)) = blocks_per_arena[c] - 1
    <3>1. IsFiniteSet(BlocksOf(p, c)) /\ Cardinality(BlocksOf(p, c)) = blocks_per_arena[c]
      BY <1>2, BlocksFacts
    <3>2. Cardinality(BlocksOf(p, c) \ {b}) = Cardinality(BlocksOf(p, c)) - 1
      BY <1>1, <3>1, FS_RemoveElement
    <3> QED BY <2>1, <3>1, <3>2
  <2>3. ASSUME NEW q \in Page, q # p, desc[q] \in Desc
        PROVE  FreeIn(free_list', desc[q], q) = FreeIn(free_list, desc[q], q)
    BY <1>1, <1>2, <1>3, <2>3 DEF FreeIn, MemTypeOK
  <2> QED BY <1>2, <1>4, <2>2, <2>3 DEF OwnersOK, CountOK, MemTypeOK
<1>15. HeadersOK' /\ MovedOK'
  <2>1. \A u \in Thread : u # t => p \notin Moved[u]
    BY <1>4 DEF OwnersOK, MovedOK
  <2> QED BY <1>2, <1>3, <1>4, <1>8, <1>9, <2>1 DEF OwnersOK, HeadersOK, MovedOK, MemTypeOK
<1>16. MarksOK'
  <2>1. p \in used
    BY <1>4 DEF OwnersOK, MovedOK
  <2>2. \A q \in used : q # p => \A u \in Thread : q \in Moved[u] => q \in Moved'[u]
    BY <1>4
  <2> QED BY <1>2, <1>9, <2>1, <2>2 DEF OwnersOK, MarksOK, MemTypeOK
<1> QED BY <1>2, <1>10, <1>11, <1>12, <1>13, <1>14, <1>15, <1>16 DEF OwnersOK, MallocNeverPanics

LEMMA NewBigStep ==
  ASSUME MemInv, ~panic, NEW t \in Thread, NewBig(t)
  PROVE  MemInv'
<1> USE MemAssumption DEF MemInv
<1> DEFINE p == a[t]
           b == arena_to_block(p, NULL, n[t])
<1>1. /\ pc[t] = "newbig" /\ p \in Page /\ n[t] \in 1 .. MaxPages
      /\ desc' = [desc EXCEPT ![p] = NULL] /\ free_cnt' = [free_cnt EXCEPT ![p] = n[t]]
      /\ Return(t, b)
      /\ UNCHANGED <<used, free_list, lock, d, n, a, panic>>
  BY DEF NewBig, PlacesOK, MemTypeOK
<1>2. b.page = p /\ b.desc = NULL /\ b.idx = n[t] /\ b \in Block
  BY <1>1 DEF arena_to_block, Block, BigBlock
<1>3. /\ UNCHANGED blk /\ live' = live \cup {b} /\ pc'[t] \in {"out", "moved"}
      /\ pc'[t] = "moved" => blk[t] # NULL
      /\ \A u \in Thread : Owns(u)' <=> Owns(u)
      /\ \A u \in Thread : u # t => pc'[u] = pc[u]
      /\ pc' \in [Thread -> Where]
  BY <1>1 DEF Return, Goto, MemTypeOK, Owns, Where
<1>4. /\ Moved[t] = Group(p, n[t]) /\ Moved' = [Moved EXCEPT ![t] = {}]
      /\ DOMAIN Moved = Thread /\ p \in Moved[t] /\ Dying' = Dying
  <2>1. Moved' = [u \in Thread |-> IF u = t THEN {} ELSE Moved[u]]
    BY <1>1, <1>3 DEF Moved, Busy
  <2>2. Moved[t] = Group(p, n[t]) /\ DOMAIN Moved = Thread
    BY <1>1 DEF Moved, Busy
  <2>3. p \in Group(p, n[t])
    BY <1>1 DEF Group, Page
  <2>4. Dying' = Dying
    BY <1>1, <1>3 DEF Dying
  <2> QED BY <2>1, <2>2, <2>3, <2>4
<1>5. \A q \in Moved[t] : desc[q] = NONE
  BY <1>1 DEF OwnersOK, HeadersOK
<1>6. Held' = Held \cup {b} /\ b \notin Held
  <2>1. b \notin Held
    BY <1>2, <1>4, <1>5 DEF OwnersOK, BigOK
  <2> QED BY <1>3, <2>1 DEF Held
<1>7. Exclusive'
  BY <1>3, <1>6 DEF Exclusive, Held
<1>8. MemTypeOK'
  BY <1>1, <1>2, <1>3 DEF MemTypeOK
<1>9. PlacesOK'
  BY <1>1, <1>3 DEF PlacesOK
<1>10. SmallOK' /\ FreeOK'
  BY <1>1, <1>2, <1>4, <1>5, <1>6 DEF OwnersOK, SmallOK, FreeOK, MemTypeOK
<1>11. CountOK'
  BY <1>1, <1>4 DEF OwnersOK, CountOK, MemTypeOK
<1>12. BigOK'
  <2>1. \A x \in Held : x.desc = NULL => x.page # p /\ p \notin Group(x.page, x.idx)
    BY <1>4, <1>5 DEF OwnersOK, BigOK, MovedOK
  <2>2. \A x \in Held : x.page \in Page
    BY HeldTyped, BlockTyped
  <2>3. /\ desc'[p] = NULL /\ free_cnt'[p] = n[t] /\ Group(p, n[t]) \subseteq used
        /\ \A q \in Group(p, n[t]) : q # p => desc'[q] = NONE
    BY <1>1, <1>4, <1>5 DEF OwnersOK, MovedOK, MemTypeOK
  <2> QED BY <1>1, <1>2, <1>6, <2>1, <2>2, <2>3 DEF OwnersOK, BigOK, MemTypeOK
<1>13. HeadersOK' /\ MovedOK'
  <2>1. \A u \in Thread : u # t => Moved[t] \cap Moved[u] = {} /\ p \notin Moved[u]
    BY <1>4 DEF OwnersOK, MovedOK
  <2>2. HeadersOK'
    BY <1>1, <1>3, <1>4, <2>1 DEF OwnersOK, HeadersOK, MemTypeOK
  <2>3. MovedOK'
    BY <1>1, <1>2, <1>4, <1>6, <2>1 DEF OwnersOK, MovedOK
  <2> QED BY <2>2, <2>3
<1>14. MarksOK'
  <2>1. Moved[t] \subseteq used
    BY DEF OwnersOK, MovedOK
  <2>2. \A q \in Page : desc'[q] # NONE => q \in used
    BY <1>1, <1>4, <2>1 DEF OwnersOK, MarksOK, MemTypeOK
  <2>3. \A q \in used : desc[q] \in Desc => desc'[q] \in Desc
    BY <1>1, <1>4, <1>5 DEF MemTypeOK
  <2>4. \A q \in used : (\E u \in Thread : q \in Moved[u]) =>
          q \in Group(b.page, b.idx) \/ \E u \in Thread : q \in Moved'[u]
    BY <1>2, <1>4
  <2> QED BY <1>1, <1>2, <1>6, <2>2, <2>3, <2>4 DEF OwnersOK, MarksOK
<1> QED BY <1>1, <1>7, <1>8, <1>9, <1>10, <1>11, <1>12, <1>13, <1>14
        DEF OwnersOK, MallocNeverPanics

LEMMA FreeStep ==
  ASSUME MemInv, ~panic, NEW t \in Thread, free(t)
  PROVE  MemInv'
<1> USE MemAssumption DEF MemInv
<1> DEFINE b == blk'[t]
           p == b.page
           c == desc[p]
<1>1. /\ b \in Held /\ b \in Block /\ UNCHANGED <<mem, lock>>
      /\ \A u \in Thread : u # t => blk'[u] = blk[u]
      /\ \/ pc[t] = "out" /\ b \in live /\ live' = live \ {b}
         \/ pc[t] = "moved" /\ b = blk[t] /\ blk[t] # NULL /\ live' = live
      /\ blk' \in [Thread -> Block \cup {NULL}]
  <2>1. CASE pc[t] = "out" /\ \E x \in live : blk' = [blk EXCEPT ![t] = x] /\ live' = live \ {x}
    BY <2>1 DEF free, Held, MemTypeOK
  <2>2. CASE pc[t] = "moved" /\ UNCHANGED <<blk, live>>
    BY <2>2 DEF free, Held, Owns, PlacesOK, MemTypeOK
  <2> QED BY <2>1, <2>2 DEF free
<1>2. p \in Page /\ b.desc = c /\ c # NONE /\ c \in Desc \cup {NULL}
  BY <1>1, BlockTyped DEF OwnersOK, SmallOK, BigOK
<1>3. /\ UNCHANGED panic
      /\ d' = [d EXCEPT ![t] = c] /\ a' = [a EXCEPT ![t] = p]
      /\ n' = [n EXCEPT ![t] = IF c = NULL THEN free_cnt[p] ELSE 1]
      /\ pc' = [pc EXCEPT ![t] = IF c = NULL THEN "wipe" ELSE "free"]
  BY <1>2 DEF free, Goto
<1>4. /\ \A u \in Thread : u # t /\ Owns(u) => blk[u] # b
      /\ \A u \in Thread : u # t => (Owns(u)' <=> Owns(u))
  <2>1. \A u \in Thread : u # t => (Owns(u)' <=> Owns(u))
    BY <1>1, <1>3 DEF Owns, MemTypeOK
  <2>2. \A u \in Thread : u # t /\ Owns(u) => blk[u] # b
    BY <1>1 DEF Exclusive, Owns
  <2> QED BY <2>1, <2>2
<1>5. b \notin live'
  BY <1>1 DEF Exclusive, Owns
<1>6. n'[t] \in 1 .. MaxPages /\ (c = NULL => n'[t] = b.idx)
  <2>1. CASE c = NULL
    <3>1. free_cnt[p] = b.idx
      BY <1>1, <1>2, <2>1 DEF OwnersOK, BigOK
    <3>2. b \in BigBlock
      BY <1>1, <1>2, <2>1, BlocksFacts DEF Block
    <3>3. b.idx \in 1 .. MaxPages
      BY <3>2 DEF BigBlock, arena_to_block
    <3> QED BY <1>3, <2>1, <3>1, <3>3 DEF MemTypeOK
  <2>2. CASE c # NULL
    BY <1>3, <2>2 DEF MemTypeOK
  <2> QED BY <2>1, <2>2
<1>7. MemTypeOK'
  BY <1>1, <1>2, <1>3, <1>6 DEF MemTypeOK, Where, mem
<1>8. PlacesOK'
  <2>1. c # NULL => b \in BlocksOf(p, c)
    BY <1>1, <1>2, BlockTyped
  <2> QED BY <1>1, <1>2, <1>3, <1>6, <2>1 DEF PlacesOK, MemTypeOK
<1>9. Exclusive'
  BY <1>1, <1>4, <1>5 DEF Exclusive
<1>10. CASE c = NULL
  <2>1. ~Owns(t)' /\ Held' = Held \ {b}
    <3>1. ~Owns(t)'
      BY <1>3, <1>10 DEF Owns, MemTypeOK
    <3>2. \A x : x \in Held' <=> x \in Held /\ x # b
      BY <1>1, <1>4, <1>5, <3>1 DEF Held, Owns
    <3> QED BY <3>1, <3>2
  <2>2. /\ Moved[t] = {} /\ DOMAIN Moved = Thread
        /\ Moved' = [Moved EXCEPT ![t] = Group(p, b.idx)] /\ Dying' = Dying
    <3>1. Dying' = Dying
      BY <1>1, <1>3, <1>10 DEF Dying, MemTypeOK
    <3>2. Moved' = [u \in Thread |-> IF u = t THEN Group(p, b.idx) ELSE Moved[u]]
      BY <1>1, <1>3, <1>6, <1>10 DEF Moved, Busy, MemTypeOK
    <3>3. Moved[t] = {} /\ DOMAIN Moved = Thread
      BY <1>1 DEF Moved, Busy
    <3> QED BY <3>1, <3>2, <3>3
  <2>3. SmallOK' /\ BigOK' /\ FreeOK' /\ CountOK'
    BY <1>1, <2>1, <2>2 DEF OwnersOK, SmallOK, BigOK, FreeOK, CountOK, mem
  <2>4. /\ desc[p] = NULL /\ Group(p, b.idx) \subseteq used
        /\ \A q \in Group(p, b.idx) : q # p => desc[q] = NONE
    BY <1>1, <1>2, <1>10 DEF OwnersOK, BigOK
  <2>5. HeadersOK'
    BY <1>1, <1>3, <1>10, <2>2, <2>4 DEF OwnersOK, HeadersOK, mem, MemTypeOK
  <2>6. MovedOK'
    <3>1. \A x \in Held : x.desc = NULL /\ x # b => Group(p, b.idx) \cap Group(x.page, x.idx) = {}
      BY <1>1, <1>2, <1>10, BigDisjoint DEF OwnersOK
    <3>2. \A u \in Thread : Group(p, b.idx) \cap Moved[u] = {}
      BY <1>1, <1>2, <1>10 DEF OwnersOK, MovedOK
    <3> QED BY <1>1, <2>1, <2>2, <2>4, <3>1, <3>2 DEF OwnersOK, MovedOK, mem
  <2>7. MarksOK'
    <3>1. \A q \in used : (\E u \in Thread : q \in Moved[u]) => \E u \in Thread : q \in Moved'[u]
      BY <2>2
    <3>2. \A q \in Group(p, b.idx) : q \in Moved'[t]
      BY <2>2
    <3> QED BY <1>1, <2>1, <3>1, <3>2 DEF OwnersOK, MarksOK, mem
  <2> QED BY <1>3, <1>7, <1>8, <1>9, <2>3, <2>5, <2>6, <2>7 DEF OwnersOK, MallocNeverPanics
<1>11. CASE c # NULL
  <2>1. Held' = Held
    <3>1. Owns(t)' /\ (Owns(t) => blk[t] = b) /\ (b \in live \/ Owns(t))
      BY <1>1, <1>3, <1>11 DEF Owns, MemTypeOK
    <3>2. \A x : x \in Held' <=> x \in Held
      BY <1>1, <1>4, <1>5, <3>1 DEF Held
    <3> QED BY <3>2
  <2>2. Moved' = Moved /\ Moved[t] = {} /\ Dying' = Dying
    BY <1>1, <1>3, <1>11 DEF Moved, Busy, Dying, MemTypeOK
  <2>3. OwnersOK'
    BY <1>1, <1>3, <2>1, <2>2, Frame DEF MemTypeOK
  <2> QED BY <1>3, <1>7, <1>8, <1>9, <2>3 DEF MallocNeverPanics
<1> QED BY <1>10, <1>11

LEMMA PushStep ==
  ASSUME MemInv, ~panic, NEW t \in Thread, PushBlock(t)
  PROVE  MemInv'
<1> USE MemAssumption DEF MemInv
<1> DEFINE p == a[t]
           c == d[t]
           b == blk[t]
           S == FreeIn(free_list, c, p)
<1>1. /\ pc[t] = "push" /\ c \in Desc /\ p \in Page /\ n[t] = 1
      /\ b \in BlocksOf(p, c) /\ b \in Block /\ b.page = p /\ b.desc = c /\ b \in Held
      /\ blocks_per_arena[c] \in Nat \ {0}
  <2>1. /\ pc[t] = "push" /\ c \in Desc /\ p \in Page /\ n[t] = 1 /\ b \in BlocksOf(p, c)
        /\ blocks_per_arena[c] \in Nat \ {0}
    BY DEF PushBlock, PlacesOK, MemTypeOK
  <2>2. b \in Block /\ b.page = p /\ b.desc = c
    BY <2>1, BlocksFacts
  <2>3. b \in Held
    BY <2>1, <2>2 DEF Held, Owns
  <2> QED BY <2>1, <2>2, <2>3
<1>2. desc[p] = c /\ b \notin free_list[c] /\ p \notin Dying
  BY <1>1 DEF OwnersOK, SmallOK
<1>3. /\ free_cnt[p] = Cardinality(S) /\ free_cnt[p] < blocks_per_arena[c]
      /\ free_cnt[p] \in Nat
  BY <1>1, <1>2 DEF OwnersOK, CountOK, MemTypeOK
<1>4. S \subseteq BlocksOf(p, c) /\ b \notin S /\ S \cup {b} \subseteq BlocksOf(p, c)
  BY <1>1, <1>2 DEF FreeIn, OwnersOK, FreeOK
<1>5. /\ IsFiniteSet(S \cup {b}) /\ Cardinality(S \cup {b}) = free_cnt[p] + 1
      /\ free_cnt[p] + 1 >= blocks_per_arena[c] => S \cup {b} = BlocksOf(p, c)
  <2>1. IsFiniteSet(BlocksOf(p, c)) /\ Cardinality(BlocksOf(p, c)) = blocks_per_arena[c]
    BY <1>1, BlocksFacts
  <2>2. IsFiniteSet(S)
    BY <1>4, <2>1, FS_Subset
  <2>3. IsFiniteSet(S \cup {b}) /\ Cardinality(S \cup {b}) = free_cnt[p] + 1
    BY <1>3, <1>4, <2>2, FS_AddElement
  <2>4. Cardinality(BlocksOf(p, c)) = Cardinality(S \cup {b}) => S \cup {b} = BlocksOf(p, c)
    BY <1>4, <2>1, FS_Subset
  <2> QED BY <1>1, <1>3, <2>1, <2>3, <2>4
<1>6. /\ UNCHANGED <<used, desc, d, n, a, live>>
      /\ free_cnt' = [free_cnt EXCEPT ![p] = @ + 1]
      /\ blk' = [blk EXCEPT ![t] = NULL]
  BY DEF PushBlock
<1>7. /\ ~Owns(t)' /\ \A u \in Thread : u # t => (Owns(u)' <=> Owns(u)) /\ blk'[u] = blk[u]
      /\ pc'[t] \in {"out", "wipe"} /\ pc' \in [Thread -> Where]
      /\ \A u \in Thread : u # t => pc'[u] = pc[u]
  BY <1>6 DEF PushBlock, Goto, Owns, MemTypeOK, Where
<1>8. Held' = Held \ {b}
  <2>1. \A u \in Thread : u # t /\ Owns(u) => blk[u] # b
    BY <1>1 DEF Exclusive, Owns
  <2>2. b \notin live
    BY <1>1 DEF Exclusive, Owns
  <2>3. \A x : x \in Held' <=> x \in Held /\ x # b
    BY <1>6, <1>7, <2>1, <2>2 DEF Held
  <2> QED BY <2>3
<1>9. Exclusive'
  BY <1>6, <1>7 DEF Exclusive
<1>10. \A u \in Thread : u # t => p \notin Moved[u]
  <2>1. ASSUME NEW u \in Thread, u # t, p \in Moved[u]
        PROVE  FALSE
    <3>1. pc[u] = "wipe" /\ p = a[u] /\ d[u] = c
      BY <1>1, <1>2, <2>1 DEF OwnersOK, HeadersOK
    <3> QED BY <1>1, <1>2, <3>1 DEF Dying
  <2> QED BY <2>1
<1>11. \A x \in Held : x.desc = NULL => p \notin Group(x.page, x.idx)
  BY <1>1, <1>2 DEF OwnersOK, BigOK
<1>12. BigOK'
  BY <1>1, <1>6, <1>8, <1>11, <1>2 DEF OwnersOK, BigOK, MemTypeOK
<1>13. CASE free_cnt[p] + 1 < blocks_per_arena[c]
  <2>1. /\ free_list' = [free_list EXCEPT ![c] = @ \cup {b}]
        /\ lock_release(t) /\ pc'[t] = "out" /\ UNCHANGED panic
    BY <1>1, <1>3, <1>13 DEF PushBlock, Goto, MemTypeOK
  <2>2. MemTypeOK' /\ PlacesOK'
    <3>1. free_list' \in [Desc -> SUBSET Block]
      BY <1>1, <2>1 DEF MemTypeOK
    <3>2. free_cnt' \in [Page -> Nat] /\ blk' \in [Thread -> Block \cup {NULL}]
      BY <1>3, <1>6 DEF MemTypeOK
    <3>3. MemTypeOK'
      BY <1>6, <1>7, <2>1, <3>1, <3>2 DEF MemTypeOK, lock_release
    <3>4. PlacesOK'
      BY <1>1, <1>6, <1>7, <2>1 DEF PlacesOK, MemTypeOK, lock_release
    <3> QED BY <3>3, <3>4
  <2>3. Dying' = Dying /\ Moved' = Moved /\ Moved[t] = {}
    BY <1>1, <1>6, <1>7, <2>1 DEF Dying, Moved, Busy
  <2>4. SmallOK' /\ FreeOK'
    BY <1>1, <1>2, <1>6, <1>8, <2>1, <2>3 DEF OwnersOK, SmallOK, FreeOK, MemTypeOK
  <2>5. CountOK'
    <3>1. FreeIn(free_list', c, p) = S \cup {b}
      BY <1>1, <2>1 DEF FreeIn, MemTypeOK
    <3>2. ASSUME NEW q \in Page, q # p, desc[q] \in Desc
          PROVE  FreeIn(free_list', desc[q], q) = FreeIn(free_list, desc[q], q)
      BY <1>1, <2>1, <3>2 DEF FreeIn, MemTypeOK
    <3> QED BY <1>2, <1>5, <1>6, <1>13, <2>3, <3>1, <3>2 DEF OwnersOK, CountOK, MemTypeOK
  <2>6. HeadersOK' /\ MovedOK' /\ MarksOK'
    BY <1>1, <1>6, <1>7, <1>8, <2>3 DEF OwnersOK, HeadersOK, MovedOK, MarksOK
  <2> QED BY <1>9, <1>12, <2>1, <2>2, <2>4, <2>5, <2>6 DEF OwnersOK, MallocNeverPanics
<1>14. CASE free_cnt[p] + 1 >= blocks_per_arena[c]
  <2>1. S \cup {b} = BlocksOf(p, c) /\ free_cnt[p] + 1 = blocks_per_arena[c]
    BY <1>1, <1>3, <1>5, <1>14
  <2>2. /\ free_list' = [free_list EXCEPT ![c] = (@ \cup {b}) \ BlocksOf(p, c)]
        /\ UNCHANGED <<lock, panic>> /\ pc'[t] = "wipe"
    BY <1>1, <1>3, <1>14, <2>1 DEF PushBlock, Goto, MemTypeOK, MallocNeverPanics
  <2>3. MemTypeOK'
    <3>1. free_list' \in [Desc -> SUBSET Block]
      BY <1>1, <2>2 DEF MemTypeOK
    <3>2. free_cnt' \in [Page -> Nat] /\ blk' \in [Thread -> Block \cup {NULL}]
      BY <1>3, <1>6 DEF MemTypeOK
    <3> QED BY <1>6, <1>7, <2>2, <3>1, <3>2 DEF MemTypeOK
  <2>4. PlacesOK'
    BY <1>1, <1>6, <1>7, <2>2 DEF PlacesOK
  <2>5. Dying' = Dying \cup {p}
    BY <1>1, <1>6, <1>7, <2>2 DEF Dying
  <2>6. Moved' = [Moved EXCEPT ![t] = {p}] /\ Moved[t] = {} /\ DOMAIN Moved = Thread
    <3>1. Group(p, 1) = {p}
      BY <1>1 DEF Group, Page
    <3>2. Moved' = [u \in Thread |-> IF u = t THEN {p} ELSE Moved[u]]
      BY <1>1, <1>6, <1>7, <2>2, <3>1 DEF Moved, Busy
    <3>3. Moved[t] = {} /\ DOMAIN Moved = Thread
      BY <1>1 DEF Moved, Busy
    <3> QED BY <3>2, <3>3
  <2>7. \A x \in Held' : x.desc \in Desc => x.page # p
    <3>1. ASSUME NEW x \in Held, x # b, x.desc \in Desc, x.page = p
          PROVE  FALSE
      <4>1. x.desc = c /\ x \notin free_list[c]
        BY <1>2, <3>1 DEF OwnersOK, SmallOK
      <4>2. x \in BlocksOf(p, c)
        BY <1>1, <3>1, <4>1, HeldTyped, BlockTyped
      <4> QED BY <2>1, <3>1, <4>1, <4>2 DEF FreeIn
    <3> QED BY <1>8, <3>1
  <2>8. \A e \in Desc : \A x \in free_list'[e] :
          x \in free_list[e] /\ x.page # p
    <3>1. ASSUME NEW e \in Desc, NEW x \in free_list'[e], x.page = p
          PROVE  FALSE
      <4>1. e # c => x \in free_list[e] /\ desc[p] = e
        BY <2>2, <3>1 DEF OwnersOK, FreeOK, MemTypeOK
      <4>2. e = c => (x \in free_list[c] \/ x = b) /\ x \notin BlocksOf(p, c)
        BY <2>2, <3>1 DEF MemTypeOK
      <4>3. x \in free_list[c] => x \in BlocksOf(p, c)
        BY <1>1, <3>1 DEF OwnersOK, FreeOK
      <4> QED BY <1>1, <1>2, <4>1, <4>2, <4>3
    <3>2. \A e \in Desc : \A x \in free_list'[e] : x \in free_list[e] \/ x = b
      BY <2>2 DEF MemTypeOK
    <3> QED BY <1>1, <3>1, <3>2
  <2>9. SmallOK' /\ FreeOK'
    <3>1. SmallOK'
      BY <1>6, <1>8, <2>5, <2>7, <2>8 DEF OwnersOK, SmallOK
    <3>2. FreeOK'
      BY <1>6, <2>5, <2>8 DEF OwnersOK, FreeOK
    <3> QED BY <3>1, <3>2
  <2>10. CountOK'
    <3>1. ASSUME NEW q \in Page, q # p, desc[q] \in Desc
          PROVE  FreeIn(free_list', desc[q], q) = FreeIn(free_list, desc[q], q)
      BY <1>1, <2>2, <3>1, BlocksFacts DEF FreeIn, MemTypeOK
    <3> QED BY <1>6, <2>5, <3>1 DEF OwnersOK, CountOK, MemTypeOK
  <2>11. HeadersOK'
    BY <1>1, <1>2, <1>6, <1>7, <2>2, <2>6 DEF OwnersOK, HeadersOK
  <2>12. MovedOK'
    <3>1. p \in used
      BY <1>1, <1>2 DEF OwnersOK, MarksOK
    <3> QED BY <1>6, <1>8, <1>10, <1>11, <2>6, <3>1 DEF OwnersOK, MovedOK
  <2>13. MarksOK'
    <3>1. \A q \in used : (\E u \in Thread : q \in Moved[u]) => \E u \in Thread : q \in Moved'[u]
      BY <2>6
    <3> QED BY <1>1, <1>6, <1>8, <3>1 DEF OwnersOK, MarksOK
  <2> QED BY <1>9, <1>12, <2>2, <2>3, <2>4, <2>9, <2>10, <2>11, <2>12, <2>13
          DEF OwnersOK, MallocNeverPanics
<1> QED BY <1>1, <1>3, <1>13, <1>14

LEMMA WipeStep ==
  ASSUME MemInv, ~panic, NEW t \in Thread, Wipe(t)
  PROVE  MemInv'
<1> USE MemAssumption DEF MemInv
<1> DEFINE G == Group(a[t], n[t])
<1>1. /\ pc[t] = "wipe" /\ a[t] \in Page /\ n[t] \in Nat \ {0}
      /\ pc' = [pc EXCEPT ![t] = "unmark"] /\ blk' = [blk EXCEPT ![t] = NULL]
      /\ desc' = [q \in Page |-> IF q \in G THEN NONE ELSE desc[q]]
      /\ free_cnt' = [q \in Page |-> IF q \in G THEN 0 ELSE free_cnt[q]]
      /\ UNCHANGED <<used, free_list, lock, d, n, a, live>>
  BY DEF Wipe, Goto, PlacesOK, MemTypeOK
<1>2. /\ Moved[t] = G /\ Moved' = Moved /\ G \subseteq used /\ G \subseteq Page
      /\ a[t] \in G
  <2>1. Moved[t] = G /\ Moved' = Moved
    BY <1>1 DEF Moved, Busy, MemTypeOK
  <2>2. G \subseteq used /\ G \subseteq Page
    BY <2>1 DEF OwnersOK, MovedOK, MemTypeOK
  <2> QED BY <1>1, <2>1, <2>2 DEF Group, Page
<1>3. ~panic'
  BY <1>2 DEF Wipe
<1>4. MemTypeOK' /\ PlacesOK' /\ Exclusive'
  <2>1. MemTypeOK'
    BY <1>1 DEF Wipe, MemTypeOK, Where
  <2>2. PlacesOK'
    BY <1>1 DEF PlacesOK, MemTypeOK
  <2>3. Exclusive'
    BY <1>1 DEF Exclusive, Owns, MemTypeOK
  <2> QED BY <2>1, <2>2, <2>3
<1>5. Held' = Held
  <2>1. ~Owns(t) /\ \A u \in Thread : (Owns(u)' <=> Owns(u)) /\ (u # t => blk'[u] = blk[u])
    BY <1>1 DEF Owns, MemTypeOK
  <2> QED BY <1>1, <2>1 DEF Held
<1>6. \A u \in Thread : u # t => G \cap Moved[u] = {}
  BY <1>2 DEF OwnersOK, MovedOK
<1>7. Dying' \subseteq Dying /\ Dying \subseteq Dying' \cup G
  BY <1>1, <1>2 DEF Dying, MemTypeOK
<1>8. \A q \in G : desc[q] \in Desc => q \in Dying
  BY <1>1, <1>2 DEF OwnersOK, HeadersOK, Dying
<1>9. /\ \A x \in Held : x.desc \in Desc => x.page \notin G
      /\ \A e \in Desc : \A x \in free_list[e] : x.page \notin G
      /\ \A x \in Held : x.desc = NULL => Group(x.page, x.idx) \cap G = {}
  BY <1>2, <1>8 DEF OwnersOK, SmallOK, FreeOK, MovedOK
<1>10. /\ \A x \in Held : x.page \in Page
       /\ \A e \in Desc : \A x \in free_list[e] : x.page \in Page
  BY HeldTyped, BlockTyped DEF MemTypeOK
<1>11. SmallOK' /\ FreeOK'
  BY <1>1, <1>5, <1>7, <1>9, <1>10 DEF OwnersOK, SmallOK, FreeOK
<1>12. BigOK'
  <2>1. \A x \in Held : x.desc = NULL => x.page \in Group(x.page, x.idx)
    BY HeldTyped, BlockTyped DEF Group, Page
  <2>2. \A x \in Held : x.desc = NULL => Group(x.page, x.idx) \subseteq Page
    BY DEF OwnersOK, BigOK, MemTypeOK
  <2> QED BY <1>1, <1>5, <1>9, <2>1, <2>2 DEF OwnersOK, BigOK
<1>13. CountOK'
  BY <1>1, <1>7, <1>8 DEF OwnersOK, CountOK
<1>14. HeadersOK'
  <2>1. \A u \in Thread : Moved[u] \subseteq Page
    BY DEF OwnersOK, MovedOK, MemTypeOK
  <2> QED BY <1>1, <1>2, <1>6, <2>1 DEF OwnersOK, HeadersOK, MemTypeOK
<1>15. MovedOK'
  BY <1>1, <1>2, <1>5 DEF OwnersOK, MovedOK
<1>16. MarksOK'
  BY <1>1, <1>2, <1>5 DEF OwnersOK, MarksOK, MemTypeOK
<1> QED BY <1>3, <1>4, <1>11, <1>12, <1>13, <1>14, <1>15, <1>16 DEF OwnersOK, MallocNeverPanics

LEMMA UnmarkStep ==
  ASSUME MemInv, ~panic, NEW t \in Thread, Unmark(t)
  PROVE  MemInv'
<1> USE MemAssumption DEF MemInv
<1> DEFINE G == Group(a[t], n[t])
<1>1. /\ pc[t] = "unmark" /\ pc' = [pc EXCEPT ![t] = "out"] /\ used' = used \ G
      /\ UNCHANGED <<desc, free_cnt, free_list, d, n, a, blk, live, panic>>
  BY DEF Unmark, Goto, header
<1>2. MemTypeOK'
  BY <1>1 DEF Unmark, lock_release, MemTypeOK, Where
<1>3. PlacesOK'
  BY <1>1 DEF Unmark, lock_release, MemTypeOK, PlacesOK
<1>4. Exclusive' /\ Held' = Held /\ Dying' = Dying
  BY <1>1 DEF Exclusive, Owns, Held, Dying, MemTypeOK
<1>5. Moved[t] = G /\ Moved' = [Moved EXCEPT ![t] = {}] /\ DOMAIN Moved = Thread
  <2>1. Moved' = [u \in Thread |-> IF u = t THEN {} ELSE Moved[u]]
    BY <1>1 DEF Moved, Busy, MemTypeOK
  <2>2. Moved[t] = G /\ DOMAIN Moved = Thread
    BY <1>1 DEF Moved, Busy
  <2> QED BY <2>1, <2>2
<1>6. /\ \A q \in G : desc[q] = NONE
      /\ \A u \in Thread : u # t => G \cap Moved[u] = {}
      /\ \A x \in Held : x.desc = NULL => Group(x.page, x.idx) \cap G = {}
  BY <1>1, <1>5 DEF OwnersOK, HeadersOK, MovedOK
<1>7. SmallOK' /\ FreeOK' /\ CountOK'
  BY <1>1, <1>4 DEF OwnersOK, SmallOK, FreeOK, CountOK
<1>8. BigOK'
  BY <1>1, <1>4, <1>6 DEF OwnersOK, BigOK
<1>9. HeadersOK'
  BY <1>1, <1>5 DEF OwnersOK, HeadersOK, MemTypeOK
<1>10. MovedOK'
  BY <1>1, <1>4, <1>5, <1>6 DEF OwnersOK, MovedOK
<1>11. MarksOK'
  <2>1. \A q \in used \ G : (\E u \in Thread : q \in Moved[u]) => \E u \in Thread : q \in Moved'[u]
    BY <1>5
  <2> QED BY <1>1, <1>4, <1>6, <2>1 DEF OwnersOK, MarksOK
<1> QED BY <1>1, <1>2, <1>3, <1>4, <1>7, <1>8, <1>9, <1>10, <1>11 DEF OwnersOK, MallocNeverPanics

-----------------------------------------------------------------------------
(* The specification.                                                      *)

LEMMA InitStep == malloc_init => MemInv
<1> SUFFICES ASSUME malloc_init PROVE MemInv
  OBVIOUS
<1> USE MemAssumption DEF malloc_init
<1>1. MemTypeOK /\ PlacesOK /\ Exclusive /\ MallocNeverPanics
  <2>1. 0 \in Page
    BY DEF Page
  <2>2. MemTypeOK
    BY <2>1 DEF MemTypeOK, Where
  <2> QED BY <2>2 DEF PlacesOK, Exclusive, Owns, MallocNeverPanics
<1>2. Held = {} /\ Dying = {} /\ \A t \in Thread : Moved[t] = {}
  BY DEF Held, Owns, Dying, Moved, Busy
<1>3. OwnersOK
  BY <1>2 DEF OwnersOK, SmallOK, BigOK, FreeOK, CountOK, HeadersOK, MovedOK, MarksOK
<1> QED BY <1>1, <1>3 DEF MemInv

LEMMA NextStep == MemInv /\ [MemNext]_vars => MemInv'
<1>1. ASSUME MemInv, UNCHANGED vars
      PROVE  MemInv'
  <2>1. Held' = Held /\ Dying' = Dying /\ Moved' = Moved
    BY <1>1 DEF vars, Held, Owns, Dying, Moved, Busy
  <2>2. OwnersOK'
    BY <1>1, <2>1, Frame DEF vars, mem, MemInv
  <2>3. MemTypeOK' /\ PlacesOK' /\ Exclusive' /\ MallocNeverPanics'
    BY <1>1 DEF vars, MemInv, MemTypeOK, PlacesOK, Exclusive, Owns, MallocNeverPanics
  <2> QED BY <2>2, <2>3 DEF MemInv
<1>2. ASSUME MemInv, MemNext
      PROVE  MemInv'
  BY <1>2, MallocStep, EnterStep, TakeBlockStep, PallocStep, NewArenaStep, NewBigStep,
     FreeStep, EnterFreeStep, PushStep, WipeStep, UnmarkStep DEF MemNext
<1> QED BY <1>1, <1>2

THEOREM MemInvariant == MemSpec => []MemInv
BY InitStep, NextStep, PTL DEF MemSpec

\* Type correctness.
THEOREM MemTypeCorrect == MemSpec => []MemTypeOK
BY MemInvariant, PTL DEF MemInv

\* The assertions of block_to_arena, of free and of palloc_free_multiple hold,
\* although free reads the header without a lock.
THEOREM AssertionsHold == MemSpec => []MallocNeverPanics
BY MemInvariant, PTL DEF MemInv

\* Between the critical sections of a descriptor the headers count the free
\* blocks, no arena is kept without need, and no page is lost.
THEOREM ArenasAreExact == MemSpec => []ArenasExact
<1>1. MemInv => ArenasExact
  <2> SUFFICES ASSUME MemInv PROVE ArenasExact
    OBVIOUS
  <2> USE MemAssumption DEF MemInv
  <2>1. ASSUME NEW p \in Page, desc[p] \in Desc, lock[desc[p]] = NULL
        PROVE  /\ free_cnt[p] = Cardinality({b \in free_list[desc[p]] : b.page = p})
               /\ free_cnt[p] < blocks_per_arena[desc[p]]
    <3>1. p \notin Dying
      <4> SUFFICES ASSUME NEW t \in Thread, pc[t] = "wipe", d[t] \in Desc, a[t] = p
                   PROVE  FALSE
        BY DEF Dying
      <4>1. a[t] \in Moved[t]
        BY DEF Moved, Busy, Group, Page, MemTypeOK, PlacesOK
      <4>2. desc[p] = d[t]
        BY <4>1 DEF OwnersOK, HeadersOK
      <4> QED BY <2>1, <4>2 DEF PlacesOK
    <3> QED BY <2>1, <3>1 DEF OwnersOK, CountOK, FreeIn
  <2>2. \A b : b \in InUse /\ b.desc = NULL <=> b \in Held /\ b.desc = NULL
    <3>1. \A t \in Thread : HasOld(t) => Owns(t)
      BY DEF HasOld, Owns
    <3>2. \A t \in Thread : Owns(t) /\ ~HasOld(t) => blk[t].desc \in Desc
      BY BlocksFacts DEF HasOld, Owns, PlacesOK, MemTypeOK
    <3> QED BY <3>1, <3>2 DEF InUse, Held
  <2> DEFINE bigs == UNION {PagesOf(b) : b \in {x \in InUse : x.desc = NULL}}
             moves == UNION {Group(a[t], n[t]) : t \in {u \in Thread : Busy(u)}}
  <2>3. \A q : q \in bigs <=> \E b \in Held : b.desc = NULL /\ q \in Group(b.page, b.idx)
    BY <2>2 DEF PagesOf
  <2>4. \A q : q \in moves <=> \E t \in Thread : q \in Moved[t]
    BY DEF Moved
  <2>5. used = {p \in Page : desc[p] \in Desc} \cup bigs \cup moves
    <3>1. \A q \in used : q \in Page /\ (desc[q] \in Desc \/ q \in bigs \/ q \in moves)
      BY <2>3, <2>4 DEF OwnersOK, MarksOK, MemTypeOK
    <3>2. \A q \in Page : desc[q] \in Desc => q \in used
      BY DEF OwnersOK, MarksOK
    <3>3. \A q \in bigs : q \in used
      BY <2>3 DEF OwnersOK, BigOK
    <3>4. \A q \in moves : q \in used
      BY <2>4 DEF OwnersOK, MovedOK
    <3> QED BY <3>1, <3>2, <3>3, <3>4
  <2>6. HeadersExact
    BY <2>1 DEF HeadersExact
  <2>7. MarksExact
    BY <2>5 DEF MarksExact
  <2> QED BY <2>6, <2>7 DEF ArenasExact
<1> QED BY <1>1, MemInvariant, PTL

-----------------------------------------------------------------------------
(* The blocks in use.                                                      *)

LEMMA InUseHeld == InUse \subseteq Held
BY DEF InUse, Held, HasOld, Owns

\* A block off the free list, and a block on fresh pages.
LEMMA ListedIsClear ==
  ASSUME MemInv, NEW b \in Block, b.desc \in Desc, desc[b.page] = b.desc, b \notin Held,
         NEW x \in Held
  PROVE  ~Overlap(b, x)
<1> USE MemAssumption DEF MemInv
<1>1. x \in Block /\ b \in BlocksOf(b.page, b.desc)
  BY HeldTyped, BlockTyped
<1>2. CASE x.desc = NULL
  BY <1>2 DEF OwnersOK, BigOK, Overlap, PagesOf
<1>3. CASE x.desc \in Desc
  <2>1. x \in BlocksOf(x.page, x.desc) /\ desc[x.page] = x.desc
    BY <1>1, <1>3, BlockTyped DEF OwnersOK, SmallOK
  <2>2. x.page = b.page => x.idx # b.idx
    BY <1>1, <2>1 DEF BlocksOf, arena_to_block
  <2> QED BY <1>3, <2>1, <2>2 DEF Overlap, PagesOf
<1> QED BY <1>1, <1>2, <1>3, BlockTyped

LEMMA FreshIsClear ==
  ASSUME MemInv, NEW t \in Thread, pc[t] \in {"newarena", "newbig"},
         NEW b, PagesOf(b) = Moved[t], NEW x \in Held
  PROVE  ~Overlap(b, x)
<1> USE MemAssumption DEF MemInv
<1>1. \A q \in Moved[t] : desc[q] = NONE
  BY DEF OwnersOK, HeadersOK
<1>2. CASE x.desc = NULL
  BY <1>2 DEF OwnersOK, MovedOK, Overlap, PagesOf
<1>3. CASE x.desc \in Desc
  BY <1>1, <1>3 DEF OwnersOK, SmallOK, Overlap, PagesOf
<1> QED BY <1>2, <1>3, HeldTyped, BlockTyped

\* A block is returned to the caller: the abstract step.
LEMMA ReturnMaps ==
  ASSUME MemInv, NEW t \in Thread, NEW b \in Block, Return(t, b),
         pc[t] \in {"look", "newarena", "newbig"}, \A x \in Held : ~Overlap(b, x)
  PROVE  Abstract!Next
<1>1. \A u \in Thread : (HasOld(u)' <=> HasOld(u)) /\ blk'[u] = blk[u]
  BY DEF Return, Goto, HasOld, MemInv, MemTypeOK
<1>2. InUse' = InUse \cup {b}
  BY <1>1 DEF InUse, Return
<1> QED BY <1>2, InUseHeld DEF Abstract!Next, Abstract!Alloc

LEMMA FreeMaps ==
  ASSUME MemInv, NEW t \in Thread, free(t)
  PROVE  [Abstract!Next]_InUse
<1> USE MemAssumption DEF MemInv
<1> DEFINE b == blk'[t]
<1>1. /\ \A u \in Thread : u # t => blk'[u] = blk[u] /\ (HasOld(u)' <=> HasOld(u))
      /\ b \in Block
      /\ \/ b \in live /\ ~HasOld(t) /\ live' = live \ {b}
         \/ b = blk[t] /\ HasOld(t) /\ live' = live
  <2>1. \A u \in Thread : u # t => pc'[u] = pc[u]
    BY DEF free, Goto, MemTypeOK
  <2> QED BY <2>1 DEF free, HasOld, PlacesOK, MemTypeOK
<1>2. b \in Held /\ (\A u \in Thread : u # t /\ HasOld(u) => blk[u] # b) /\ b \notin live'
  BY <1>1 DEF Held, HasOld, Owns, Exclusive
<1>3. CASE UNCHANGED pc
  \* block_to_arena would have to fail
  <2>1. b.desc = desc[b.page] /\ desc[b.page] # NONE
    BY <1>1, <1>2, BlockTyped DEF OwnersOK, SmallOK, BigOK
  <2>2. pc'[t] \in {"wipe", "free"} /\ pc[t] \in {"out", "moved"}
    BY <2>1 DEF free, Goto, MemTypeOK
  <2> QED BY <1>3, <2>2
<1>4. CASE pc'[t] \in {"wipe", "free"}
  <2>1. InUse' = InUse \ {b} /\ b \in InUse
    <3>1. ~HasOld(t)'
      BY <1>4 DEF HasOld
    <3>2. \A x : x \in InUse' <=> x \in InUse /\ x # b
      BY <1>1, <1>2, <3>1 DEF InUse
    <3> QED BY <1>1, <3>2 DEF InUse
  <2> QED BY <1>1, <2>1 DEF Abstract!Next, Abstract!Free
<1> QED BY <1>3, <1>4 DEF free, Goto, MemTypeOK

\* malloc hands out blocks that are clear of all in use: over arenas made and
\* given up, big blocks and pages of either kind, and any number of threads.
THEOREM MallocIsAllocator == MemSpec => ImplementsAllocator
<1>1. malloc_init => Abstract!Init
  BY DEF malloc_init, Abstract!Init, InUse, HasOld
<1>2. MemInv /\ [MemNext]_vars => [Abstract!Next]_InUse
  <2> SUFFICES ASSUME MemInv, [MemNext]_vars PROVE [Abstract!Next]_InUse
    OBVIOUS
  <2> USE MemAssumption DEF MemInv
  <2>1. ASSUME UNCHANGED vars PROVE UNCHANGED InUse
    BY <2>1 DEF vars, InUse, HasOld
  <2>2. ASSUME NEW t \in Thread, malloc(t) PROVE UNCHANGED InUse
    <3>1. PICK old \in live \cup {NULL} :
            blk' = [blk EXCEPT ![t] = old] /\ live' = live \ {old}
      BY <2>2 DEF malloc
    <3>2. \A u \in Thread : u # t => (HasOld(u)' <=> HasOld(u)) /\ blk'[u] = blk[u]
      BY <2>2, <3>1 DEF malloc, Goto, MemTypeOK, HasOld
    <3>3. ~HasOld(t) /\ (HasOld(t)' <=> old # NULL) /\ blk'[t] = old /\ NULL \notin live
      BY <2>2, <3>1 DEF malloc, Goto, MemTypeOK, HasOld
    <3>4. \A x : x \in InUse' <=> x \in InUse
      BY <3>1, <3>2, <3>3 DEF InUse
    <3> QED BY <3>4
  <2>3. ASSUME NEW t \in Thread,
               Enter(t) \/ EnterFree(t) \/ PushBlock(t) \/ Wipe(t) \/ Unmark(t)
        PROVE  UNCHANGED InUse
    <3>1. /\ live' = live
          /\ \A u \in Thread : (HasOld(u)' <=> HasOld(u)) /\ (HasOld(u) => blk'[u] = blk[u])
      BY <2>3 DEF Enter, EnterFree, PushBlock, Wipe, Unmark, Goto, MemTypeOK, HasOld
    <3> QED BY <3>1 DEF InUse
  <2>4. ASSUME NEW t \in Thread, palloc_get_multiple(t) PROVE UNCHANGED InUse
    <3>1. CASE Goto(t, "out") /\ ReturnNull(t)
      <4>1. \A u \in Thread : u # t => (HasOld(u)' <=> HasOld(u)) /\ blk'[u] = blk[u]
        BY <3>1 DEF ReturnNull, Goto, MemTypeOK, HasOld
      <4>2. ~HasOld(t)' /\ (HasOld(t) <=> blk[t] # NULL)
        BY <2>4, <3>1 DEF palloc_get_multiple, Goto, MemTypeOK, HasOld
      <4>3. \A x : x \in InUse' <=> x \in InUse
        BY <3>1, <4>1, <4>2 DEF InUse, ReturnNull
      <4> QED BY <4>3
    <3>2. CASE pc'[t] \in {"newarena", "newbig"} /\ UNCHANGED <<blk, live>>
      BY <2>4, <3>2 DEF palloc_get_multiple, ReturnNull, Goto, MemTypeOK, HasOld, InUse
    <3> QED BY <2>4, <3>1, <3>2 DEF palloc_get_multiple, ReturnNull, Goto, MemTypeOK
  <2>5. ASSUME NEW t \in Thread, TakeBlock(t) PROVE [Abstract!Next]_InUse
    <3>1. ASSUME NEW b \in free_list[d[t]], Return(t, b) PROVE Abstract!Next
      <4>1. /\ d[t] \in Desc /\ b \in Block /\ b.desc = d[t] /\ desc[b.page] = b.desc
            /\ b \notin Held
        <5>1. d[t] \in Desc
          BY <2>5 DEF TakeBlock, PlacesOK
        <5>2. b \in Block /\ b \in BlocksOf(b.page, d[t]) /\ desc[b.page] = d[t]
          BY <5>1 DEF OwnersOK, FreeOK, MemTypeOK
        <5>3. b.desc = d[t]
          BY <5>1, <5>2, BlockTyped, BlocksFacts
        <5> QED BY <5>1, <5>2, <5>3 DEF OwnersOK, SmallOK
      <4> QED BY <2>5, <3>1, <4>1, ListedIsClear, ReturnMaps DEF TakeBlock
    <3>2. CASE Goto(t, "getpage") /\ UNCHANGED <<blk, live>>
      BY <2>5, <3>2 DEF TakeBlock, Goto, MemTypeOK, HasOld, InUse
    <3> QED BY <2>5, <3>1, <3>2 DEF TakeBlock
  <2>6. ASSUME NEW t \in Thread, NewArena(t) PROVE Abstract!Next
    <3>1. PICK b \in BlocksOf(a[t], d[t]) : Return(t, b)
      BY <2>6 DEF NewArena
    <3>2. /\ pc[t] = "newarena" /\ b \in Block /\ b.page = a[t] /\ b.desc \in Desc
          /\ a[t] \in Page /\ n[t] = 1
      BY <2>6, <3>1, BlocksFacts DEF NewArena, PlacesOK, MemTypeOK
    <3>3. PagesOf(b) = Moved[t]
      <4>1. Group(a[t], n[t]) = {a[t]}
        BY <3>2 DEF Group, Page
      <4> QED BY <3>2, <4>1 DEF PagesOf, Moved, Busy
    <3> QED BY <3>1, <3>2, <3>3, FreshIsClear, ReturnMaps
  <2>7. ASSUME NEW t \in Thread, NewBig(t) PROVE Abstract!Next
    <3> DEFINE b == arena_to_block(a[t], NULL, n[t])
    <3>1. /\ pc[t] = "newbig" /\ Return(t, b) /\ b \in Block
          /\ b.page = a[t] /\ b.desc = NULL /\ b.idx = n[t]
      <4>1. pc[t] = "newbig" /\ Return(t, b) /\ a[t] \in Page /\ n[t] \in 1 .. MaxPages
        BY <2>7 DEF NewBig, PlacesOK, MemTypeOK
      <4> QED BY <4>1 DEF Block, BigBlock, arena_to_block
    <3>2. PagesOf(b) = Moved[t]
      BY <3>1 DEF PagesOf, Moved, Busy
    <3> QED BY <3>1, <3>2, FreshIsClear, ReturnMaps
  <2> QED BY <2>1, <2>2, <2>3, <2>4, <2>5, <2>6, <2>7, FreeMaps DEF MemNext
<1> QED BY <1>1, <1>2, MemInvariant, PTL DEF MemSpec, ImplementsAllocator, Abstract!Spec
=============================================================================
