-------------------------------- MODULE Heap --------------------------------
(***************************************************************************)
(* The allocator of the malloc lab (mm.c): boundary tags, next fit with a  *)
(* bounded search for a better one, splitting, merging and mm_realloc in   *)
(* place, driven by a client like mdriver.c, which fills what it is given. *)
(*                                                                         *)
(* Memory is counted in units of 8 bytes.  Between unit p - 1 and unit p   *)
(* lie two words: tail[p], the footer of a block that ends there, and      *)
(* head[p], the header of a block whose payload starts at p.  Where no     *)
(* block ends or starts, the two words are part of some payload.           *)
(***************************************************************************)
EXTENDS Integers

CONSTANTS Name,       \* the names under which the client keeps its blocks
          NoBlock,
          Sizes,      \* the sizes it asks for, in bytes
          InitUnits,  \* size4096 of mm_init
          ChunkUnits, \* 1 << 12 of mm_malloc
          MaxUnits,   \* MAX_HEAP of the driver
          SmallAsize, FarLook, NearLook, \* 48 bytes, 15 and 7 in find_fit
          AfterDamage \* does the client go on when the heap is damaged?

Unit == 1 .. MaxUnits

\* A header or a footer.
Tag == [size : 0 .. MaxUnits, alloc : BOOLEAN]
Word == Tag \cup Name

ASSUME HeapAssumption ==
  /\ Sizes \subseteq Nat \ {0}
  /\ NoBlock \notin Unit \cup [ptr : Unit, size : Sizes]
  /\ \A c \in Name : c \notin Tag
  /\ InitUnits \in Nat \ {0, 1} /\ ChunkUnits \in Nat \ {0, 1} /\ MaxUnits \in Nat
  /\ InitUnits + 2 <= MaxUnits
  /\ SmallAsize \in Nat /\ FarLook \in Nat /\ NearLook \in Nat
  /\ AfterDamage \in BOOLEAN

VARIABLES heap,   \* head, tail, brk and rover
          live,   \* what the client keeps: where and how many bytes
          damaged \* a word, or the rover, is not what the code takes it for

heapVars == <<heap, live, damaged>>

content(size, alloc) == [size |-> size, alloc |-> alloc]

HeapTypeOK ==
  /\ heap \in [head : [Unit -> Word], tail : [Unit -> Word], brk : Unit, rover : Unit]
  /\ live \in [Name -> [ptr : Unit, size : Sizes] \cup {NoBlock}]
  /\ damaged \in BOOLEAN

heap_listp == 1

NEXT_BLKP(m, bp) == bp + m.head[bp].size
PREV_BLKP(m, bp) == bp - m.tail[bp].size
Footer(m, bp) == m.tail[NEXT_BLKP(m, bp)]
Free(m, bp) == ~m.head[bp].alloc

PutHeader(m, bp, w) == [m EXCEPT !.head[bp] = w]
PutFooter(m, bp, w) == [m EXCEPT !.tail[NEXT_BLKP(m, bp)] = w]
PutBlock(m, bp, w) == PutFooter(PutHeader(m, bp, w), bp, w)

-----------------------------------------------------------------------------
(* coalesce and extend_heap.                                               *)

\* Mutant: the rover stays where it is.
LeaveRover(m, bp) == m

\* A rover inside the merged block goes back to its start.
MoveRover(m, bp) ==
  [m EXCEPT !.rover = IF bp < @ /\ @ < NEXT_BLKP(m, bp) THEN bp ELSE @]

\* The block at bp, merged with its free neighbours.
coalesce(m, bp) ==
  LET prev == PREV_BLKP(m, bp)
      next == NEXT_BLKP(m, bp)
      prev_alloc == Footer(m, prev).alloc
      next_alloc == ~Free(m, next)
      first == IF prev_alloc THEN bp ELSE prev
      last == IF next_alloc THEN bp ELSE next
      size(b) == IF b = bp THEN 0 ELSE m.head[b].size
      w == content(size(first) + m.head[bp].size + size(last), FALSE)
      merged == IF prev_alloc /\ next_alloc THEN m
                ELSE PutHeader(PutFooter(m, last, w), first, w)
  IN  MoveRover(merged, first)

\* The block that coalesce returns.
Merged(m, bp) == IF Footer(m, PREV_BLKP(m, bp)).alloc THEN bp ELSE PREV_BLKP(m, bp)

CanExtend(m, units) == m.brk + units <= MaxUnits

\* The new block takes the word of the old epilogue as its header.
extend_heap(m, units) ==
  LET bp == m.brk
      grown == PutBlock([m EXCEPT !.brk = @ + units], bp, content(units, FALSE))
  IN  coalesce(PutHeader(grown, bp + units, content(0, TRUE)), bp)

mm_init ==
  LET blank == [u \in Unit |-> content(0, FALSE)]
      bare == [head |-> [blank EXCEPT ![1] = content(1, TRUE), ![2] = content(0, TRUE)],
               tail |-> [blank EXCEPT ![2] = content(1, TRUE)],
               brk |-> 2, rover |-> heap_listp]
  IN  /\ heap = extend_heap(bare, InitUnits)
      /\ live = [c \in Name |-> NoBlock]
      /\ damaged = FALSE

-----------------------------------------------------------------------------
(* find_fit and place.                                                     *)

Fits(m, bp, asize) == Free(m, bp) /\ asize <= m.head[bp].size

\* Mutant: the search ends at the end of the heap.
NoWrap(m, bp) == IF m.head[NEXT_BLKP(m, bp)].size = 0 THEN m.rover
                 ELSE NEXT_BLKP(m, bp)

\* The block after bp, around the end of the heap.
Successor(m, bp) == IF m.head[NEXT_BLKP(m, bp)].size = 0 THEN heap_listp
                    ELSE NEXT_BLKP(m, bp)

\* One round of the loop: it ends at an exact fit, or with the smallest of the
\* first fit and of the blocks soon after it.
Round(m, asize, s) ==
  LET first == s.best = NoBlock
      better == /\ Fits(m, s.bp, asize)
                /\ first \/ m.head[s.bp].size < m.head[s.best].size
      best_bp == IF better THEN s.bp ELSE s.best
      look == IF first /\ better THEN IF asize <= SmallAsize THEN FarLook ELSE NearLook
              ELSE s.lookahead
      next == Successor(m, s.bp)
      exact == Fits(m, s.bp, asize) /\ m.head[s.bp].size = asize
  IN  IF s.done THEN s
      ELSE IF exact THEN [s EXCEPT !.best = s.bp, !.done = TRUE]
      ELSE [bp |-> next, best |-> best_bp,
            lookahead |-> IF best_bp = NoBlock THEN look ELSE look - 1,
            done |-> (best_bp # NoBlock /\ look = 0) \/ next = m.rover]

\* A round for each block there may be.
Search(m, asize) ==
  LET s[n \in 0 .. MaxUnits] ==
        IF n = 0
        THEN [bp |-> m.rover, best |-> NoBlock, lookahead |-> -1, done |-> FALSE]
        ELSE Round(m, asize, s[n - 1])
  IN  s

find_fit(m, asize) == Search(m, asize)[MaxUnits].best

\* Block bp gets asize units; what is left becomes a block, and is merged with
\* a free block behind it.
Split(m, bp, asize, csize) ==
  LET rest == bp + asize
      w == content(csize - asize, FALSE)
      cut == PutBlock(PutBlock(m, bp, content(asize, TRUE)), rest, w)
      next == NEXT_BLKP(cut, rest)
      both == content(csize - asize + cut.head[next].size, FALSE)
  IN  IF Free(cut, next) THEN PutHeader(PutFooter(cut, next, both), rest, both)
      ELSE cut

\* Too little is left for a block, but a free block seems to follow.  The
\* footer goes to the block behind the merged one, because NEXT_BLKP reads the
\* header that has just been written.
Squeeze(m, bp, asize, csize) ==
  LET rest == bp + asize
      cut == PutBlock(PutBlock(m, bp, content(asize, TRUE)), rest,
                      content(csize - asize, FALSE))
      both == content(cut.head[rest].size + cut.head[NEXT_BLKP(cut, rest)].size, FALSE)
      joined == PutHeader(cut, rest, both)
  IN  PutFooter(joined, NEXT_BLKP(joined, rest), both)

place(m, bp, asize) ==
  LET csize == m.head[bp].size IN
  IF csize - asize >= 2 THEN Split(m, bp, asize, csize)
  ELSE IF Free(m, NEXT_BLKP(m, bp)) THEN Squeeze(m, bp, asize, csize)
  ELSE PutBlock(m, bp, content(csize, TRUE))

\* place takes the branch that damages the heap.
PlaceDamages(m, bp, asize) ==
  m.head[bp].size - asize < 2 /\ Free(m, NEXT_BLKP(m, bp))

-----------------------------------------------------------------------------
(* The client.                                                             *)

AlignedUnits(size) == IF size <= 8 THEN 2 ELSE (size + 15) \div 8

\* The units inside a block that its first n bytes fill.
Payload(bp, n) == bp + 1 .. bp + ((n + 7) \div 8)

\* The client fills a block of its with its name.
Fill(m, c, units) ==
  [m EXCEPT !.head = [u \in Unit |-> IF u \in units THEN c ELSE @[u]],
            !.tail = [u \in Unit |-> IF u \in units THEN c ELSE @[u]]]

\* The walk from the prologue, by the headers, to the epilogue.
Onward(m, bp) ==
  IF bp > m.brk \/ m.head[bp] \in Name \/ m.head[bp].size = 0 THEN bp
  ELSE NEXT_BLKP(m, bp)

Walk(m) ==
  LET w[n \in 0 .. MaxUnits] ==
        IF n = 0 THEN heap_listp ELSE Onward(m, w[n - 1])
  IN  w

Visited(m) == LET w == Walk(m) IN {w[n] : n \in 0 .. MaxUnits}

Blocks(m) == Visited(m) \ {m.brk}

\* A word that is neither a tag nor the data of a client is not read before it
\* is written, unless the heap is damaged: the model clears it.
Settle(m, kept) ==
  LET data == UNION {Payload(kept[c].ptr, kept[c].size) : c \in {x \in Name : kept[x] # NoBlock}}
      tags == Blocks(m) \cup {m.brk}
      clear(words) == [u \in Unit |-> IF u \in tags \cup data THEN words[u]
                                     ELSE content(0, FALSE)]
  IN  IF damaged' THEN m ELSE [m EXCEPT !.head = clear(@), !.tail = clear(@)]

\* The rover can go round.
Walkable(m) == m.brk \in Visited(m) /\ m.rover \in Blocks(m)

\* mm_malloc as far as the heap goes: the heap and where the block is.
Allocated(m, asize) ==
  LET fit == find_fit(m, asize)
      units == IF asize > ChunkUnits THEN asize ELSE ChunkUnits
      bp == Merged(m, m.brk)
      grown == extend_heap(m, units)
  IN  IF fit # NoBlock
      THEN [heap |-> place([m EXCEPT !.rover = fit], fit, asize), bp |-> fit,
            damages |-> PlaceDamages(m, fit, asize)]
      ELSE [heap |-> place(coalesce(grown, bp), bp, asize), bp |-> bp,
            damages |-> Merged(grown, bp) # bp]

\* There is a block, or room for one.
CanAllocate(m, asize) ==
  \/ find_fit(m, asize) # NoBlock
  \/ CanExtend(m, IF asize > ChunkUnits THEN asize ELSE ChunkUnits)

Keep(c, bp, size) == live' = [live EXCEPT ![c] = [ptr |-> bp, size |-> size]]

-----------------------------------------------------------------------------
(* The calls.                                                              *)

\* Where the heap is damaged, the model goes on only while the headers still
\* lead mm_malloc to a block.
Usable(asize) ==
  damaged => AfterDamage /\ Walkable(heap) /\ find_fit(heap, asize) # NoBlock

\* A call that finds no memory returns a null pointer and changes nothing.
mm_malloc(c) ==
  /\ live[c] = NoBlock
  /\ \E size \in Sizes :
       LET asize == AlignedUnits(size)
           got == Allocated(heap, asize)
       IN  /\ Usable(asize)
           /\ CanAllocate(heap, asize)
           /\ damaged' = (damaged \/ got.damages)
           /\ Keep(c, got.bp, size)
           /\ heap' = Settle(Fill(got.heap, c, Payload(got.bp, size)), live')

Released(m, bp) == coalesce(PutBlock(m, bp, content(m.head[bp].size, FALSE)), bp)

mm_free(c) ==
  /\ ~damaged
  /\ live[c] # NoBlock
  /\ UNCHANGED damaged
  /\ live' = [live EXCEPT ![c] = NoBlock]
  /\ heap' = Settle(Released(heap, live[c].ptr), live')

\* mm_realloc of block c, which has too few units, to size bytes.
OldSize(c) == heap.head[live[c].ptr].size
Next(c) == NEXT_BLKP(heap, live[c].ptr)
Prev(c) == PREV_BLKP(heap, live[c].ptr)

\* The heap is m now and the block at bp: the client fills what is new.
Resized(m, c, bp, size) ==
  LET old == Payload(live[c].ptr, live[c].size)
      kept == {u + bp - live[c].ptr : u \in old}
  IN  /\ Keep(c, bp, size)
      /\ heap' = Settle(Fill(m, c, Payload(bp, size) \ kept), live')

InPlace(c, size) ==
  /\ AlignedUnits(size) <= OldSize(c)
  /\ UNCHANGED damaged
  /\ Resized(heap, c, live[c].ptr, size)

NextWillDo(c, asize) ==
  Free(heap, Next(c)) /\ OldSize(c) + heap.head[Next(c)].size >= asize

\* Into the free block behind.  The rover may stand at a block that is now
\* part of this one or of the rest.
GrowForward(c, size) ==
  LET bp == live[c].ptr
      asize == AlignedUnits(size)
      csize == OldSize(c) + heap.head[Next(c)].size
      m == IF csize - asize >= 2 THEN Split(heap, bp, asize, csize)
           ELSE Squeeze(heap, bp, asize, csize)
      swallowed == bp + 1 .. NEXT_BLKP(m, bp + asize) - 1
  IN  /\ NextWillDo(c, asize)
      /\ damaged' = (csize - asize < 2 \/ heap.rover \in swallowed \ {bp + asize})
      /\ Resized(m, c, bp, size)

PrevWillDo(c, asize) ==
  Free(heap, Prev(c)) /\ OldSize(c) + heap.head[Prev(c)].size >= asize

\* Mutant: the contents stay behind.
LeaveBehind(m, from, to, units) == m

\* memmove and memcpy of the words inside a block.
Copied(m, from, to, units) ==
  LET copy(words) == [u \in Unit |-> IF u \in to + 1 .. to + units - 1
                                    THEN words[u - to + from] ELSE words[u]]
  IN  [m EXCEPT !.head = copy(@), !.tail = copy(@)]

\* Into the free block in front, with the contents.  What is left is not merged
\* with a free block behind it.
GrowBackward(c, size) ==
  LET bp == live[c].ptr
      prev == Prev(c)
      asize == AlignedUnits(size)
      csize == OldSize(c) + heap.head[prev].size
      moved == Copied(heap, bp, prev, OldSize(c))
      rest == prev + asize
      m == IF csize - asize >= 2
           THEN PutBlock(PutBlock(moved, prev, content(asize, TRUE)),
                         rest, content(csize - asize, FALSE))
           ELSE PutBlock(moved, prev, content(csize, TRUE))
  IN  /\ ~NextWillDo(c, asize)
      /\ PrevWillDo(c, asize)
      /\ damaged' = (heap.rover = bp /\ rest # bp)
      /\ Resized(m, c, prev, size)

\* To a new block; mm_free is not followed when mm_malloc has done damage.
Move(c, size) ==
  LET asize == AlignedUnits(size)
      got == Allocated(heap, asize)
      copied == Copied(got.heap, live[c].ptr, got.bp, OldSize(c))
  IN  /\ ~NextWillDo(c, asize)
      /\ ~PrevWillDo(c, asize)
      /\ CanAllocate(heap, asize)
      /\ damaged' = got.damages
      /\ Resized(IF got.damages THEN copied ELSE Released(copied, live[c].ptr),
                 c, got.bp, size)

\* For a null pointer it is mm_malloc, for size 0 mm_free.
mm_realloc(c) ==
  \/ mm_malloc(c)
  \/ mm_free(c)
  \/ /\ ~damaged
     /\ live[c] # NoBlock
     /\ \E size \in Sizes :
          \/ InPlace(c, size)
          \/ /\ AlignedUnits(size) > OldSize(c)
             /\ GrowForward(c, size) \/ GrowBackward(c, size) \/ Move(c, size)

HeapNext == \E c \in Name : mm_malloc(c) \/ mm_free(c) \/ mm_realloc(c)

HeapSpec == mm_init /\ [][HeapNext]_heapVars

-----------------------------------------------------------------------------
(* Properties.                                                             *)

Live == {c \in Name : live[c] # NoBlock}

\* As long as no step has done damage, the headers lead from the prologue to
\* the epilogue over blocks whose footers agree with them, the rover stands at
\* one of them, and the blocks in use are those the client has: splitting,
\* merging and resizing keep the boundary tags of mm.c consistent.
BlocksTile ==
  ~damaged =>
    /\ HeapTypeOK
    /\ Walkable(heap)
    /\ \A bp \in Blocks(heap) : Footer(heap, bp) = heap.head[bp]
    /\ {bp \in Blocks(heap) : ~Free(heap, bp)} = {heap_listp} \cup {live[c].ptr : c \in Live}
    /\ \A b, c \in Live : live[b].ptr = live[c].ptr => b = c

\* As long as no step has done damage, every block holds what its client wrote
\* there, across mm_realloc too, and the tags around it are not in it.
PayloadKept ==
  ~damaged =>
    \A c \in Live : \A u \in Payload(live[c].ptr, live[c].size) :
      heap.head[u] = c /\ heap.tail[u] = c

\* The search finds a block if one is large enough, wherever the rover stands
\* and however far it looks for a better one, so that the heap grows only when
\* it must.
FitFound ==
  ~damaged =>
    \A size \in Sizes :
      LET asize == AlignedUnits(size)
          fit == find_fit(heap, asize)
          fitting == {bp \in Blocks(heap) : Fits(heap, bp, asize)}
      IN  IF fit = NoBlock THEN fitting = {} ELSE fit \in fitting

\* The payload of a block does not overlap any other payload (mdriver.c:439).
PayloadsDisjoint ==
  \A b, c \in Live :
    b # c => Payload(live[b].ptr, live[b].size) \cap Payload(live[c].ptr, live[c].size) = {}
=============================================================================
