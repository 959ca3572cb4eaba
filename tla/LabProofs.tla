------------------------------ MODULE LabProofs ------------------------------
(***************************************************************************)
(* The two programs outside the kernel: the proxy and the allocator of the *)
(* malloc lab.                                                             *)
(*                                                                         *)
(* The proxy's cache, for any number of connections, URIs and blocks, has  *)
(* one block per URI, serves nobody another URI's object, and its two      *)
(* scans under the mutex implement the cache of LruCache, which answers at *)
(* one instant and evicts the object used least recently.                  *)
(*                                                                         *)
(* The heap, for any size of it and any sizes of requests, is tiled by     *)
(* blocks whose tags agree, the blocks in use are the clients', with what  *)
(* these wrote in them, and the search finds a free block that is large    *)
(* enough if there is one, until a step takes one of the branches that do  *)
(* damage.                                                                 *)
(***************************************************************************)
EXTENDS ProxyCache, Heap, FiniteSetTheorems, NaturalsInduction,
        WellFoundedInduction, TLAPS

-----------------------------------------------------------------------------
(* The inductive invariant.                                                *)

Locked(c) == pc[c] \in InFind \cup InInsert

\* One connection at most is between P and V.
MutexInv ==
  /\ \A c, d \in Conn : Locked(c) /\ Locked(d) => c = d
  /\ \A c \in Conn : Locked(c) => cache_mutex = 0

\* What a connection carries is for its own URI.
CarriesInv ==
  \A c \in Conn :
    /\ pc[c] \notin {"closed", "start"} => uri_key[c] \in Uri
    /\ pc[c] \in {"hit", "serve", "to_insert"} \cup InInsert =>
         object[c] \in Origin[uri_key[c]]

\* Blocks are taken in order and never given back, so that the scan of
\* cache_insert may stop at the first free one.
PrefixInv ==
  \A a, b \in Block : a < b /\ cache[b].valid => cache[a].valid

\* What the scan of cache_insert has seen, and what it has found.
ScanInv ==
  \A c \in Conn :
    /\ pc[c] = "insert" =>
         \A b \in Block : b < i[c] => cache[b].valid /\ cache[b].uri # uri_key[c]
    /\ pc[c] = "fill" =>
         /\ \A b \in Block : b < target[c] => cache[b].valid
         /\ \A b \in Block : Holds(b, uri_key[c]) => b = target[c]
    /\ pc[c] = "copy" =>
         cache[target[c]].valid /\ cache[target[c]].uri = uri_key[c]

\* A valid block holds an object of its URI, or is about to get one.
ContentInv ==
  \A b \in Block :
    cache[b].valid =>
      /\ cache[b].uri \in Uri
      /\ \/ cache[b].object \in Origin[cache[b].uri]
         \/ \E c \in Conn : pc[c] = "copy" /\ target[c] = b

ProxyIInv ==
  /\ ProxyTypeOK
  /\ MutexInv
  /\ CarriesInv
  /\ PrefixInv
  /\ OneBlockPerUri
  /\ ScanInv
  /\ ContentInv


-----------------------------------------------------------------------------
(* One lemma per action: it preserves each part of the invariant.          *)

\* The variables of a thread that returns keep their types.
LEMMA CloseType ==
  ASSUME ProxyTypeOK, NEW c \in Conn, Close(c)
  PROVE  /\ pc' \in [Conn -> Place]
         /\ uri_key' \in [Conn -> Uri \cup {NULL}]
         /\ object' \in [Conn -> Object \cup {NULL}]
         /\ i' \in [Conn -> 1..CACHE_OBJS_COUNT + 1]
         /\ target' \in [Conn -> Block]
BY ProxyAssumption DEF Close, To, ProxyTypeOK, Place, Block

\* V comes from inside the critical section, where the mutex is 0.
LEMMA VcacheType ==
  ASSUME ProxyTypeOK, MutexInv, NEW c \in Conn, Locked(c), Vcache
  PROVE  cache_mutex' = 1
BY DEF MutexInv, Vcache

\* A new connection holds nothing yet.
LEMMA AcceptStep ==
  ASSUME ProxyIInv, NEW c \in Conn, Accept(c)
  PROVE  ProxyIInv'
<1>1. ProxyTypeOK'
  BY ProxyAssumption DEF ProxyIInv, Accept, To, ProxyTypeOK, Place
<1>2. MutexInv'
  BY DEF ProxyIInv, Accept, To, MutexInv, Locked, InFind, InInsert
<1>3. CarriesInv'
  BY DEF ProxyIInv, Accept, To, CarriesInv, InInsert
<1>4. PrefixInv' /\ OneBlockPerUri'
  BY DEF ProxyIInv, Accept, PrefixInv, OneBlockPerUri
<1>5. ScanInv'
  BY DEF ProxyIInv, Accept, To, ScanInv, Holds
<1>6. ContentInv'
  BY DEF ProxyIInv, Accept, IsAt, To, ContentInv
<1> QED BY <1>1, <1>2, <1>3, <1>4, <1>5, <1>6 DEF ProxyIInv

\* A request names a URI, or the thread ends.
LEMMA ReadRequestStep ==
  ASSUME ProxyIInv, NEW c \in Conn, ReadRequest(c)
  PROVE  ProxyIInv'
<1>1. ProxyTypeOK'
  <2>1. CASE Close(c)
    BY <2>1, CloseType DEF ProxyIInv, ReadRequest, ProxyTypeOK
  <2>2. CASE ~Close(c)
    BY <2>2 DEF ProxyIInv, ReadRequest, To, ProxyTypeOK, Place
  <2> QED BY <2>1, <2>2
<1>2. MutexInv'
  BY DEF ProxyIInv, ReadRequest, To, Close, MutexInv, Locked, InFind, InInsert,
     ProxyTypeOK
<1>3. CarriesInv'
  BY DEF ProxyIInv, ReadRequest, IsAt, To, Close, CarriesInv, InInsert,
     ProxyTypeOK
<1>4. PrefixInv' /\ OneBlockPerUri'
  BY DEF ProxyIInv, ReadRequest, PrefixInv, OneBlockPerUri
<1>5. ScanInv'
  <2>1. CASE Close(c)
    BY <2>1 DEF ProxyIInv, ReadRequest, Close, To, ScanInv, Holds, ProxyTypeOK
  <2>2. CASE ~Close(c)
    BY <2>2 DEF ProxyIInv, ReadRequest, To, ScanInv, Holds, ProxyTypeOK
  <2> QED BY <2>1, <2>2
<1>6. ContentInv'
  <2>1. ASSUME NEW d \in Conn, pc[d] = "copy"
        PROVE  pc'[d] = "copy" /\ target'[d] = target[d]
    BY <2>1 DEF ProxyIInv, ReadRequest, IsAt, To, Close, ProxyTypeOK
  <2> QED BY <2>1 DEF ProxyIInv, ReadRequest, ContentInv
<1> QED BY <1>1, <1>2, <1>3, <1>4, <1>5, <1>6 DEF ProxyIInv

\* P: nobody else is inside, for the mutex was 1.
LEMMA LockToFindStep ==
  ASSUME ProxyIInv, NEW c \in Conn, Lock(c, "to_find", "find")
  PROVE  ProxyIInv'
<1>1. ProxyTypeOK'
  BY ProxyAssumption DEF ProxyIInv, Lock, To, ProxyTypeOK, Place, InFind
<1>2. MutexInv'
  BY DEF ProxyIInv, Lock, To, MutexInv, Locked, ProxyTypeOK
<1>3. CarriesInv'
  BY DEF ProxyIInv, Lock, IsAt, To, CarriesInv, InInsert
<1>4. PrefixInv' /\ OneBlockPerUri'
  BY DEF ProxyIInv, Lock, PrefixInv, OneBlockPerUri
<1>5. ScanInv'
  BY DEF ProxyIInv, Lock, IsAt, To, ScanInv, Holds
<1>6. ContentInv'
  BY DEF ProxyIInv, Lock, IsAt, To, ContentInv
<1> QED BY <1>1, <1>2, <1>3, <1>4, <1>5, <1>6 DEF ProxyIInv

\* P again, before the scan of cache_insert.
LEMMA LockToInsertStep ==
  ASSUME ProxyIInv, NEW c \in Conn, Lock(c, "to_insert", "insert")
  PROVE  ProxyIInv'
<1>1. ProxyTypeOK'
  BY ProxyAssumption DEF ProxyIInv, Lock, To, ProxyTypeOK, Place, InInsert
<1>2. MutexInv'
  BY DEF ProxyIInv, Lock, To, MutexInv, Locked, ProxyTypeOK
<1>3. CarriesInv'
  BY DEF ProxyIInv, Lock, IsAt, To, CarriesInv
<1>4. PrefixInv' /\ OneBlockPerUri'
  BY DEF ProxyIInv, Lock, PrefixInv, OneBlockPerUri
<1>5. ScanInv'
  BY DEF ProxyIInv, Lock, To, ScanInv, Holds, ProxyTypeOK, Block
<1>6. ContentInv'
  BY DEF ProxyIInv, Lock, IsAt, To, ContentInv
<1> QED BY <1>1, <1>2, <1>3, <1>4, <1>5, <1>6 DEF ProxyIInv

\* The object copied is of the URI asked for, as no block is half filled while
\* another connection holds the mutex.
LEMMA FindHitStep ==
  ASSUME ProxyIInv, NEW c \in Conn, FindHit(c)
  PROVE  ProxyIInv'
<1>1. ProxyTypeOK'
  <2> DEFINE Blk == [valid : BOOLEAN, lru : Nat, uri : Uri \cup {NULL},
                     object : Object \cup {NULL}]
             used == [cache[i[c]] EXCEPT !.lru = cache_time + 1]
  <2>1. i[c] \in Block /\ cache[i[c]] \in Blk /\ cache_time + 1 \in Nat
    BY DEF ProxyIInv, FindHit, ProxyTypeOK
  <2>2. used \in Blk
    BY <2>1
  <2>3. cache' = [cache EXCEPT ![i[c]] = used]
    BY DEF FindHit
  <2>4. cache' \in [Block -> Blk]
    BY <2>1, <2>2, <2>3 DEF ProxyIInv, ProxyTypeOK
  <2> QED BY <2>1, <2>4 DEF ProxyIInv, FindHit, To, ProxyTypeOK, Place, InFind
<1>2. MutexInv'
  BY DEF ProxyIInv, FindHit, IsAt, To, MutexInv, Locked, InFind
<1>3. CarriesInv'
  <2>1. cache[i[c]].object \in Origin[uri_key[c]]
    BY DEF ProxyIInv, FindHit, IsAt, Holds, ContentInv, MutexInv, Locked,
       InFind, InInsert
  <2> QED BY <2>1 DEF ProxyIInv, FindHit, IsAt, To, CarriesInv, ProxyTypeOK
<1>4. PrefixInv'
  BY DEF ProxyIInv, FindHit, PrefixInv
<1>5. OneBlockPerUri'
  BY DEF ProxyIInv, FindHit, OneBlockPerUri
<1>6. ScanInv'
  BY DEF ProxyIInv, FindHit, To, Holds, ScanInv
<1>7. ContentInv'
  <2>1. ASSUME NEW b \in Block
        PROVE  /\ cache'[b].valid = cache[b].valid
               /\ cache'[b].uri = cache[b].uri
               /\ cache'[b].object = cache[b].object
    BY DEF FindHit
  <2>2. ASSUME NEW d \in Conn, pc[d] = "copy"
        PROVE  pc'[d] = "copy" /\ target'[d] = target[d]
    BY <2>2 DEF FindHit, IsAt, To
  <2> QED BY <2>1, <2>2 DEF ProxyIInv, ContentInv
<1> QED BY <1>1, <1>2, <1>3, <1>4, <1>5, <1>6, <1>7 DEF ProxyIInv

\* The look-up goes to the next block.
LEMMA FindNextStep ==
  ASSUME ProxyIInv, NEW c \in Conn, FindNext(c)
  PROVE  ProxyIInv'
<1>1. ProxyTypeOK'
  BY ProxyAssumption DEF ProxyIInv, FindNext, ProxyTypeOK, Block
<1>2. MutexInv'
  BY DEF ProxyIInv, FindNext, MutexInv, Locked
<1>3. CarriesInv'
  BY DEF ProxyIInv, FindNext, CarriesInv
<1>4. PrefixInv' /\ OneBlockPerUri'
  BY DEF ProxyIInv, FindNext, PrefixInv, OneBlockPerUri
<1>5. ScanInv'
  BY DEF ProxyIInv, FindNext, IsAt, ScanInv, Holds
<1>6. ContentInv'
  BY DEF ProxyIInv, FindNext, ContentInv
<1> QED BY <1>1, <1>2, <1>3, <1>4, <1>5, <1>6 DEF ProxyIInv

\* The look-up has failed.
LEMMA FindMissStep ==
  ASSUME ProxyIInv, NEW c \in Conn, FindMiss(c)
  PROVE  ProxyIInv'
<1>1. ProxyTypeOK'
  <2>1. cache_mutex' = 1
    BY VcacheType DEF ProxyIInv, FindMiss, IsAt, Locked, InFind
  <2> QED BY <2>1 DEF ProxyIInv, FindMiss, To, ProxyTypeOK, Place
<1>2. MutexInv'
  BY DEF ProxyIInv, FindMiss, IsAt, To, MutexInv, Locked, InFind, InInsert,
     ProxyTypeOK
<1>3. CarriesInv'
  BY DEF ProxyIInv, FindMiss, IsAt, To, CarriesInv, InInsert
<1>4. PrefixInv' /\ OneBlockPerUri'
  BY DEF ProxyIInv, FindMiss, PrefixInv, OneBlockPerUri
<1>5. ScanInv'
  BY DEF ProxyIInv, FindMiss, To, ScanInv, Holds
<1>6. ContentInv'
  BY DEF ProxyIInv, FindMiss, IsAt, To, ContentInv
<1> QED BY <1>1, <1>2, <1>3, <1>4, <1>5, <1>6 DEF ProxyIInv

\* V on the way out of a hit.
LEMMA HitUnlockStep ==
  ASSUME ProxyIInv, NEW c \in Conn, HitUnlock(c)
  PROVE  ProxyIInv'
<1>1. ProxyTypeOK'
  <2>1. cache_mutex' = 1
    BY VcacheType DEF ProxyIInv, HitUnlock, IsAt, Locked, InFind
  <2> QED BY <2>1 DEF ProxyIInv, HitUnlock, To, ProxyTypeOK, Place
<1>2. MutexInv'
  BY DEF ProxyIInv, HitUnlock, IsAt, To, MutexInv, Locked, InFind, InInsert,
     ProxyTypeOK
<1>3. CarriesInv'
  BY DEF ProxyIInv, HitUnlock, IsAt, To, CarriesInv
<1>4. PrefixInv' /\ OneBlockPerUri'
  BY DEF ProxyIInv, HitUnlock, PrefixInv, OneBlockPerUri
<1>5. ScanInv'
  BY DEF ProxyIInv, HitUnlock, To, ScanInv, Holds
<1>6. ContentInv'
  BY DEF ProxyIInv, HitUnlock, IsAt, To, ContentInv
<1> QED BY <1>1, <1>2, <1>3, <1>4, <1>5, <1>6 DEF ProxyIInv

\* The client is answered from the copy.
LEMMA ServeStep ==
  ASSUME ProxyIInv, NEW c \in Conn, Serve(c)
  PROVE  ProxyIInv'
<1>1. ProxyTypeOK'
  BY ProxyAssumption DEF ProxyIInv, Serve, To, Close, ProxyTypeOK, Place, Block
<1>2. MutexInv'
  BY DEF ProxyIInv, Serve, To, Close, MutexInv, Locked, InFind, InInsert
<1>3. CarriesInv'
  BY DEF ProxyIInv, Serve, To, Close, CarriesInv, InInsert, ProxyTypeOK
<1>4. PrefixInv' /\ OneBlockPerUri'
  BY DEF ProxyIInv, Serve, PrefixInv, OneBlockPerUri
<1>5. ScanInv'
  BY DEF ProxyIInv, Serve, IsAt, To, Close, ScanInv, Holds
<1>6. ContentInv'
  BY DEF ProxyIInv, Serve, IsAt, To, Close, ContentInv
<1> QED BY <1>1, <1>2, <1>3, <1>4, <1>5, <1>6 DEF ProxyIInv

\* The object comes from the server of its URI.
LEMMA FetchStep ==
  ASSUME ProxyIInv, NEW c \in Conn, Fetch(c)
  PROVE  ProxyIInv'
<1>1. ProxyTypeOK'
  <2>1. CASE Close(c)
    BY <2>1, CloseType DEF ProxyIInv, Fetch, ProxyTypeOK
  <2>2. CASE ~Close(c)
    <3>1. Origin[uri_key[c]] \subseteq Object
      BY ProxyAssumption DEF ProxyIInv, CarriesInv, Fetch, IsAt
    <3> QED BY <2>2, <3>1 DEF ProxyIInv, Fetch, To, ProxyTypeOK, Place
  <2> QED BY <2>1, <2>2
<1>2. MutexInv'
  BY DEF ProxyIInv, Fetch, To, Close, MutexInv, Locked, InFind, InInsert,
     ProxyTypeOK
<1>3. CarriesInv'
  BY DEF ProxyIInv, Fetch, IsAt, To, Close, CarriesInv, InInsert, ProxyTypeOK
<1>4. PrefixInv' /\ OneBlockPerUri'
  BY DEF ProxyIInv, Fetch, PrefixInv, OneBlockPerUri
<1>5. ScanInv'
  <2>1. CASE Close(c)
    BY <2>1 DEF ProxyIInv, Fetch, Close, To, ScanInv, Holds, ProxyTypeOK
  <2>2. CASE ~Close(c)
    BY <2>2 DEF ProxyIInv, Fetch, To, ScanInv, Holds, ProxyTypeOK
  <2> QED BY <2>1, <2>2
<1>6. ContentInv'
  <2>1. ASSUME NEW d \in Conn, pc[d] = "copy"
        PROVE  pc'[d] = "copy" /\ target'[d] = target[d]
    BY <2>1 DEF ProxyIInv, Fetch, IsAt, To, Close, ProxyTypeOK
  <2> QED BY <2>1 DEF ProxyIInv, Fetch, ContentInv
<1> QED BY <1>1, <1>2, <1>3, <1>4, <1>5, <1>6 DEF ProxyIInv

\* The scan stops at the only block that can hold the URI, or at the first
\* free one.
LEMMA InsertScanStep ==
  ASSUME ProxyIInv, NEW c \in Conn, InsertScan(c)
  PROVE  ProxyIInv'
<1>1. ProxyTypeOK'
  <2>1. CASE Suits(c)
    BY <2>1 DEF ProxyIInv, InsertScan, To, ProxyTypeOK, Place, InInsert
  <2>2. CASE ~Suits(c)
    <3>1. i[c] + 1 \in 1..CACHE_OBJS_COUNT + 1
      BY ProxyAssumption DEF InsertScan, Block
    <3> QED BY <2>2, <3>1 DEF ProxyIInv, InsertScan, ProxyTypeOK
  <2> QED BY <2>1, <2>2
<1>2. MutexInv'
  BY DEF ProxyIInv, InsertScan, IsAt, To, MutexInv, Locked, InInsert,
     ProxyTypeOK
<1>3. CarriesInv'
  BY DEF ProxyIInv, InsertScan, IsAt, To, CarriesInv, InInsert, ProxyTypeOK
<1>4. PrefixInv' /\ OneBlockPerUri'
  BY DEF ProxyIInv, InsertScan, PrefixInv, OneBlockPerUri
<1>5. ScanInv'
  <2> USE DEF ProxyIInv
  <2>1. ASSUME NEW d \in Conn, d # c
        PROVE  pc'[d] = pc[d] /\ i'[d] = i[d] /\ target'[d] = target[d]
    BY <2>1 DEF InsertScan, To, ProxyTypeOK
  <2>2. CASE Suits(c)
    <3>1. /\ pc'[c] = "fill" /\ target'[c] = i[c] /\ i[c] \in Block
          /\ UNCHANGED <<cache, uri_key>>
      BY <2>2 DEF InsertScan, To, ProxyTypeOK
    <3>2. \A b \in Block : b < i[c] => cache[b].valid /\ cache[b].uri # uri_key[c]
      BY DEF ScanInv, InsertScan, IsAt
    <3>3. ASSUME NEW b \in Block, Holds(b, uri_key[c])
          PROVE  b = i[c]
      <4>1. ~(b < i[c])
        BY <3>2, <3>3 DEF Holds
      <4>2. CASE Holds(i[c], uri_key[c])
        BY <3>1, <3>3, <4>2 DEF OneBlockPerUri, Holds
      <4>3. CASE ~cache[i[c]].valid
        BY <3>1, <3>3, <4>1, <4>3 DEF PrefixInv, Holds, Block
      <4> QED BY <2>2, <4>2, <4>3 DEF Suits
    <3> QED BY <2>1, <3>1, <3>2, <3>3 DEF ScanInv, Holds
  <2>3. CASE ~Suits(c)
    <3>1. /\ pc' = pc /\ i'[c] = i[c] + 1 /\ i[c] \in Block
          /\ pc[c] = "insert" /\ UNCHANGED <<cache, uri_key>>
      BY <2>3 DEF InsertScan, IsAt, ProxyTypeOK
    <3>2. \A b \in Block : b < i[c] + 1 => cache[b].valid /\ cache[b].uri # uri_key[c]
      BY <2>3, <3>1 DEF ScanInv, Suits, Holds, Block
    <3> QED BY <2>1, <3>1, <3>2 DEF ScanInv, Holds
  <2> QED BY <2>2, <2>3
<1>6. ContentInv'
  <2>1. ASSUME NEW d \in Conn, pc[d] = "copy"
        PROVE  pc'[d] = "copy" /\ target'[d] = target[d]
    BY <2>1 DEF ProxyIInv, InsertScan, IsAt, To, ProxyTypeOK
  <2> QED BY <2>1 DEF ProxyIInv, InsertScan, ContentInv
<1> QED BY <1>1, <1>2, <1>3, <1>4, <1>5, <1>6 DEF ProxyIInv

\* All blocks are taken and none is for the URI: any may be overwritten.
LEMMA InsertFullStep ==
  ASSUME ProxyIInv, NEW c \in Conn, InsertFull(c)
  PROVE  ProxyIInv'
<1>1. ProxyTypeOK'
  BY ProxyAssumption DEF ProxyIInv, InsertFull, To, ProxyTypeOK, Place, InInsert
<1>2. MutexInv'
  BY DEF ProxyIInv, InsertFull, IsAt, To, MutexInv, Locked, InInsert
<1>3. CarriesInv'
  BY DEF ProxyIInv, InsertFull, IsAt, To, CarriesInv, InInsert
<1>4. PrefixInv' /\ OneBlockPerUri'
  BY DEF ProxyIInv, InsertFull, PrefixInv, OneBlockPerUri
<1>5. ScanInv'
  <2>1. ASSUME NEW b \in Block
        PROVE  cache[b].valid /\ cache[b].uri # uri_key[c]
    <3>1. i[c] \in 1..CACHE_OBJS_COUNT + 1 /\ i[c] \notin Block
      BY DEF ProxyIInv, InsertFull, ProxyTypeOK
    <3>2. b < i[c]
      BY <3>1, ProxyAssumption DEF Block
    <3> QED BY <3>2 DEF ProxyIInv, InsertFull, IsAt, ScanInv
  <2>2. ASSUME NEW d \in Conn, d # c
        PROVE  pc'[d] = pc[d]
    BY <2>2 DEF InsertFull, To
  <2>3. /\ pc'[c] = "fill" /\ target[c] \in Block
        /\ UNCHANGED <<cache, uri_key, i, target>>
    BY DEF ProxyIInv, InsertFull, To, ProxyTypeOK
  <2> QED BY <2>1, <2>2, <2>3 DEF ProxyIInv, ScanInv, Holds
<1>6. ContentInv'
  BY DEF ProxyIInv, InsertFull, IsAt, To, ContentInv
<1> QED BY <1>1, <1>2, <1>3, <1>4, <1>5, <1>6 DEF ProxyIInv

\* The block is given to the URI; no other block is for it.
LEMMA InsertFillStep ==
  ASSUME ProxyIInv, NEW c \in Conn, InsertFill(c)
  PROVE  ProxyIInv'
<1>1. ProxyTypeOK'
  BY ProxyAssumption DEF ProxyIInv, InsertFill, To, ProxyTypeOK, Place, InInsert
<1>2. MutexInv'
  BY DEF ProxyIInv, InsertFill, IsAt, To, MutexInv, Locked, InInsert
<1>3. CarriesInv'
  BY DEF ProxyIInv, InsertFill, IsAt, To, CarriesInv, InInsert
<1>4. PrefixInv'
  <2>1. ASSUME NEW b \in Block, b # target[c]
        PROVE  cache'[b] = cache[b]
    BY <2>1 DEF InsertFill
  <2>2. /\ cache'[target[c]].valid /\ cache'[target[c]].uri = uri_key[c]
        /\ target[c] \in Block
    BY DEF ProxyIInv, InsertFill, ProxyTypeOK
  <2>3. /\ \A b \in Block : b < target[c] => cache[b].valid
        /\ \A b \in Block : Holds(b, uri_key[c]) => b = target[c]
    BY DEF ProxyIInv, InsertFill, IsAt, ScanInv
  <2> QED BY <2>1, <2>2, <2>3 DEF ProxyIInv, PrefixInv
<1>5. OneBlockPerUri'
  <2>1. ASSUME NEW b \in Block, b # target[c]
        PROVE  cache'[b] = cache[b]
    BY <2>1 DEF InsertFill
  <2>2. /\ cache'[target[c]].valid /\ cache'[target[c]].uri = uri_key[c]
        /\ target[c] \in Block
    BY DEF ProxyIInv, InsertFill, ProxyTypeOK
  <2>3. /\ \A b \in Block : b < target[c] => cache[b].valid
        /\ \A b \in Block : Holds(b, uri_key[c]) => b = target[c]
    BY DEF ProxyIInv, InsertFill, IsAt, ScanInv
  <2> QED BY <2>1, <2>2, <2>3 DEF ProxyIInv, OneBlockPerUri, Holds
<1>6. ScanInv'
  <2>1. ASSUME NEW b \in Block, b # target[c]
        PROVE  cache'[b] = cache[b]
    BY <2>1 DEF InsertFill
  <2>2. /\ cache'[target[c]].valid /\ cache'[target[c]].uri = uri_key[c]
        /\ target[c] \in Block
    BY DEF ProxyIInv, InsertFill, ProxyTypeOK
  <2>3. ASSUME NEW d \in Conn, d # c
        PROVE  pc'[d] = pc[d] /\ ~Locked(d)
    BY <2>3 DEF ProxyIInv, InsertFill, IsAt, To, MutexInv, Locked, InInsert
  <2>4. pc'[c] = "copy" /\ UNCHANGED <<uri_key, target>>
    BY DEF ProxyIInv, InsertFill, To, ProxyTypeOK
  <2> QED BY <2>2, <2>3, <2>4 DEF ScanInv, Locked, InInsert
<1>7. ContentInv'
  <2>1. ASSUME NEW b \in Block, b # target[c]
        PROVE  cache'[b] = cache[b]
    BY <2>1 DEF InsertFill
  <2>2. /\ cache'[target[c]].valid /\ cache'[target[c]].uri = uri_key[c]
        /\ target[c] \in Block
    BY DEF ProxyIInv, InsertFill, ProxyTypeOK
  <2>3. pc'[c] = "copy" /\ uri_key[c] \in Uri /\ target' = target
    BY DEF ProxyIInv, InsertFill, IsAt, To, CarriesInv, ProxyTypeOK
  <2>4. ASSUME NEW d \in Conn, pc[d] = "copy"
        PROVE  pc'[d] = "copy"
    BY <2>4 DEF InsertFill, To
  <2> QED BY <2>1, <2>2, <2>3, <2>4 DEF ProxyIInv, ContentInv
<1> QED BY <1>1, <1>2, <1>3, <1>4, <1>5, <1>6, <1>7 DEF ProxyIInv

\* The block gets an object of its URI.
LEMMA InsertCopyStep ==
  ASSUME ProxyIInv, NEW c \in Conn, InsertCopy(c)
  PROVE  ProxyIInv'
<1>1. ProxyTypeOK'
  <2> DEFINE Blk == [valid : BOOLEAN, lru : Nat, uri : Uri \cup {NULL},
                     object : Object \cup {NULL}]
             copied == [cache[target[c]] EXCEPT !.object = object[c]]
  <2>1. target[c] \in Block /\ cache[target[c]] \in Blk
    BY DEF ProxyIInv, ProxyTypeOK
  <2>2. copied \in Blk
    BY <2>1 DEF ProxyIInv, ProxyTypeOK
  <2>3. cache' = [cache EXCEPT ![target[c]] = copied]
    BY DEF InsertCopy
  <2>4. cache' \in [Block -> Blk]
    BY <2>1, <2>2, <2>3 DEF ProxyIInv, ProxyTypeOK
  <2> QED BY <2>4 DEF ProxyIInv, InsertCopy, To, ProxyTypeOK, Place, InInsert
<1>2. MutexInv'
  BY DEF ProxyIInv, InsertCopy, IsAt, To, MutexInv, Locked, InInsert
<1>3. CarriesInv'
  BY DEF ProxyIInv, InsertCopy, IsAt, To, CarriesInv, InInsert
<1>4. PrefixInv'
  BY DEF ProxyIInv, InsertCopy, PrefixInv
<1>5. OneBlockPerUri'
  BY DEF ProxyIInv, InsertCopy, OneBlockPerUri
<1>6. ScanInv'
  BY DEF ProxyIInv, InsertCopy, To, ScanInv, Holds
<1>7. ContentInv'
  <2>1. ASSUME NEW b \in Block
        PROVE  cache'[b].valid = cache[b].valid /\ cache'[b].uri = cache[b].uri
    BY DEF InsertCopy
  <2>2. ASSUME NEW b \in Block, b # target[c]
        PROVE  cache'[b] = cache[b]
    BY <2>2 DEF InsertCopy
  <2>3. /\ cache'[target[c]].object = object[c] /\ target[c] \in Block
        /\ cache[target[c]].uri = uri_key[c]
        /\ object[c] \in Origin[uri_key[c]]
    BY DEF ProxyIInv, InsertCopy, IsAt, ScanInv, CarriesInv, InInsert,
       ProxyTypeOK
  <2>4. ASSUME NEW d \in Conn, d # c
        PROVE  pc'[d] = pc[d] /\ target'[d] = target[d]
    BY <2>4 DEF InsertCopy, To
  <2> QED BY <2>1, <2>2, <2>3, <2>4 DEF ProxyIInv, ContentInv
<1> QED BY <1>1, <1>2, <1>3, <1>4, <1>5, <1>6, <1>7 DEF ProxyIInv

\* V at the end of cache_insert, and the thread returns.
LEMMA InsertUnlockStep ==
  ASSUME ProxyIInv, NEW c \in Conn, InsertUnlock(c)
  PROVE  ProxyIInv'
<1>1. ProxyTypeOK'
  <2>1. cache_mutex' = 1
    BY VcacheType DEF ProxyIInv, InsertUnlock, IsAt, Locked, InInsert
  <2> QED BY <2>1, CloseType DEF ProxyIInv, InsertUnlock, ProxyTypeOK
<1>2. MutexInv'
  BY DEF ProxyIInv, InsertUnlock, IsAt, To, Close, MutexInv, Locked, InFind,
     InInsert, ProxyTypeOK
<1>3. CarriesInv'
  BY DEF ProxyIInv, InsertUnlock, To, Close, CarriesInv, InInsert, ProxyTypeOK
<1>4. PrefixInv' /\ OneBlockPerUri'
  BY DEF ProxyIInv, InsertUnlock, PrefixInv, OneBlockPerUri
<1>5. ScanInv'
  BY DEF ProxyIInv, InsertUnlock, IsAt, To, Close, ScanInv, Holds
<1>6. ContentInv'
  BY DEF ProxyIInv, InsertUnlock, IsAt, To, Close, ContentInv
<1> QED BY <1>1, <1>2, <1>3, <1>4, <1>5, <1>6 DEF ProxyIInv

\* The process ends and nothing else changes.
LEMMA FailStep ==
  ASSUME ProxyIInv, NEW c \in Conn, Fail(c)
  PROVE  ProxyIInv'
<1>1. ProxyTypeOK'
  BY ProxyAssumption DEF ProxyIInv, Fail, ProxyTypeOK
<1>2. MutexInv'
  BY DEF ProxyIInv, Fail, MutexInv, Locked
<1>3. CarriesInv'
  BY DEF ProxyIInv, Fail, CarriesInv
<1>4. PrefixInv' /\ OneBlockPerUri'
  BY DEF ProxyIInv, Fail, PrefixInv, OneBlockPerUri
<1>5. ScanInv'
  BY DEF ProxyIInv, Fail, ScanInv, Holds
<1>6. ContentInv'
  BY DEF ProxyIInv, Fail, ContentInv
<1> QED BY <1>1, <1>2, <1>3, <1>4, <1>5, <1>6 DEF ProxyIInv

-----------------------------------------------------------------------------
(* The theorems.                                                           *)

\* A cache of free blocks and no connection.
LEMMA InitProxy == ProxyInit => ProxyIInv
<1> SUFFICES ASSUME ProxyInit PROVE ProxyIInv
  OBVIOUS
<1>1. ProxyTypeOK
  <2>1. 1 \in Block /\ 1 \in 1..CACHE_OBJS_COUNT + 1
    BY ProxyAssumption DEF Block
  <2>2. cache \in [Block -> [valid : BOOLEAN, lru : Nat, uri : Uri \cup {NULL},
                           object : Object \cup {NULL}]]
    BY DEF ProxyInit
  <2>3. pc \in [Conn -> Place]
    BY DEF ProxyInit, Place
  <2>4. i \in [Conn -> 1..CACHE_OBJS_COUNT + 1] /\ target \in [Conn -> Block]
    BY <2>1 DEF ProxyInit
  <2>5. /\ uri_key \in [Conn -> Uri \cup {NULL}]
        /\ object \in [Conn -> Object \cup {NULL}]
    BY DEF ProxyInit
  <2>6. cache_time \in Nat /\ cache_mutex \in 0..1
    BY DEF ProxyInit
  <2>7. exited \in BOOLEAN
    BY DEF ProxyInit
  <2> QED BY <2>2, <2>3, <2>4, <2>5, <2>6, <2>7 DEF ProxyTypeOK
<1>2. MutexInv /\ CarriesInv
  BY DEF ProxyInit, MutexInv, Locked, CarriesInv, InFind, InInsert
<1>3. PrefixInv /\ OneBlockPerUri /\ ContentInv
  BY DEF ProxyInit, PrefixInv, OneBlockPerUri, ContentInv
<1>4. ScanInv
  BY DEF ProxyInit, ScanInv
<1> QED BY <1>1, <1>2, <1>3, <1>4 DEF ProxyIInv

\* No step of any connection breaks the invariant, nor does a stutter.
LEMMA NextProxy == ProxyIInv /\ [ProxyNext]_vars => ProxyIInv'
<1> SUFFICES ASSUME ProxyIInv, [ProxyNext]_vars PROVE ProxyIInv'
  OBVIOUS
<1>1. CASE ProxyNext
  <2> PICK c \in Conn : Accept(c) \/ doit(c) \/ Fail(c)
    BY <1>1 DEF ProxyNext
  <2>1. CASE Accept(c)
    BY <2>1, AcceptStep
  <2>2. CASE doit(c)
    <3>1. CASE ReadRequest(c) \/ Serve(c) \/ Fetch(c)
      BY <3>1, ReadRequestStep, ServeStep, FetchStep
    <3>2. CASE cache_find(c)
      BY <3>2, LockToFindStep, FindHitStep, FindNextStep, FindMissStep,
         HitUnlockStep DEF cache_find
    <3>3. CASE cache_insert(c)
      BY <3>3, LockToInsertStep, InsertScanStep, InsertFullStep, InsertFillStep,
         InsertCopyStep, InsertUnlockStep DEF cache_insert
    <3> QED BY <2>2, <3>1, <3>2, <3>3 DEF doit
  <2>3. CASE Fail(c)
    BY <2>3, FailStep
  <2> QED BY <2>1, <2>2, <2>3
<1>2. CASE UNCHANGED vars
  <2>1. ProxyTypeOK' /\ MutexInv' /\ CarriesInv' /\ PrefixInv' /\ OneBlockPerUri'
    BY <1>2 DEF ProxyIInv, vars, ProxyTypeOK, MutexInv, Locked, CarriesInv,
       PrefixInv, OneBlockPerUri
  <2>2. ScanInv' /\ ContentInv'
    BY <1>2 DEF ProxyIInv, vars, ScanInv, Holds, ContentInv
  <2> QED BY <2>1, <2>2 DEF ProxyIInv
<1> QED BY <1>1, <1>2

\* The inductive invariant holds in every state of proxy.c's threads.
THEOREM ProxyInvariance == ProxySpec => []ProxyIInv
<1>1. ProxyInit => ProxyIInv
  BY InitProxy
<1>2. ProxyIInv /\ [ProxyNext]_vars => ProxyIInv'
  BY NextProxy
<1> QED BY <1>1, <1>2, PTL DEF ProxySpec

\* cache_mutex is never above 1, and no index leaves the blocks.
THEOREM ProxyTypeSafe == ProxySpec => []ProxyTypeOK
<1>1. ProxyIInv => ProxyTypeOK
  BY DEF ProxyIInv
<1> QED BY <1>1, ProxyInvariance, PTL

\* However many connections miss on a URI at a time, cache_insert never
\* gives it a second block.
THEOREM OneBlockSafe == ProxySpec => []OneBlockPerUri
<1>1. ProxyIInv => OneBlockPerUri
  BY DEF ProxyIInv
<1> QED BY <1>1, ProxyInvariance, PTL

\* cache_find hands out only objects of the URI asked for.
THEOREM ServesSafe == ProxySpec => []ServesRequested
<1>1. ProxyIInv => ServesRequested
  BY DEF ProxyIInv, CarriesInv, ServesRequested
<1> QED BY <1>1, ProxyInvariance, PTL

-----------------------------------------------------------------------------
(* What the scans find out, beside the invariant above.                    *)

\* The stamps of the valid blocks are distinct and not ahead of cache_time.
StampInv ==
  \A a, b \in Valid :
    /\ cache[a].lru <= cache_time
    /\ cache[a].lru = cache[b].lru => a = b

\* What the scan of a connection knows of the blocks behind it: none is the one
\* cache_find looks for, and target is the least recent one.
Sought(c) ==
  /\ pc[c] = "find" => \A b \in Block : b < i[c] => ~Holds(b, uri_key[c])
  /\ pc[c] \notin InInsert => target[c] = 1
  /\ pc[c] = "insert" =>
       \A b \in Block : b < i[c] => cache[target[c]].lru <= cache[b].lru
  /\ pc[c] = "fill" =>
       \/ Holds(target[c], uri_key[c])
       \/ ~cache[target[c]].valid
       \/ \A b \in Block : cache[b].valid /\ cache[target[c]].lru <= cache[b].lru

LruInv == StampInv /\ \A c \in Conn : Sought(c)

\* A step of another connection leaves what a scan knows: it changes no block
\* while the scan goes on.
LEMMA SoughtFrame ==
  ASSUME NEW d \in Conn, Sought(d),
         pc'[d] = pc[d], i'[d] = i[d], target'[d] = target[d], uri_key'[d] = uri_key[d],
         cache' = cache \/ ~Locked(d)
  PROVE  Sought(d)'
<1>1. CASE cache' = cache
  BY <1>1 DEF Sought, Holds
<1>2. CASE ~Locked(d)
  BY <1>2 DEF Sought, Locked, InFind, InInsert
<1> QED BY <1>1, <1>2

\* A step is that of one connection.
LEMMA OtherConns ==
  ASSUME ProxyIInv, NEW c \in Conn, Accept(c) \/ doit(c) \/ Fail(c), NEW d \in Conn \ {c}
  PROVE  /\ pc'[d] = pc[d] /\ uri_key'[d] = uri_key[d] /\ object'[d] = object[d]
         /\ i'[d] = i[d] /\ target'[d] = target[d]
         /\ cache' = cache \/ ~Locked(d)
<1>1. \A f, x : f' = [f EXCEPT ![c] = x] => f'[d] = f[d]
  OBVIOUS
<1>2. CASE Accept(c) \/ Fail(c) \/ ReadRequest(c) \/ Serve(c) \/ Fetch(c)
  BY <1>2 DEF Accept, Fail, ReadRequest, Serve, Fetch, Close, To, ProxyIInv, ProxyTypeOK
<1>3. CASE cache_find(c)
  BY <1>3 DEF cache_find, Lock, FindHit, FindNext, FindMiss, HitUnlock, To, IsAt,
              ProxyIInv, ProxyTypeOK, MutexInv, Locked, InFind
<1>4. CASE cache_insert(c)
  BY <1>4 DEF cache_insert, Lock, InsertScan, InsertFull, InsertFill, InsertCopy,
              InsertUnlock, Close, To, IsAt,
              ProxyIInv, ProxyTypeOK, MutexInv, Locked, InInsert
<1> QED BY <1>2, <1>3, <1>4 DEF doit

\* The step of a connection keeps what its own scan knows.
LEMMA SoughtStep ==
  ASSUME ProxyIInv, NEW c \in Conn, Sought(c), Accept(c) \/ doit(c) \/ Fail(c)
  PROVE  Sought(c)'
<1>1. /\ pc \in [Conn -> Place] /\ uri_key \in [Conn -> Uri \cup {NULL}]
      /\ i \in [Conn -> 1..CACHE_OBJS_COUNT + 1] /\ target \in [Conn -> Block]
      /\ \A b \in Block : cache[b].lru \in Nat
      /\ CACHE_OBJS_COUNT \in Nat
  BY ProxyAssumption DEF ProxyIInv, ProxyTypeOK
<1>2. CASE Accept(c) \/ Fail(c) \/ ReadRequest(c) \/ Serve(c) \/ Fetch(c)
  <2>1. pc'[c] \notin {"find"} \cup InInsert /\ pc[c] \notin InInsert
    BY <1>1, <1>2 DEF Accept, Fail, ReadRequest, Serve, Fetch, Close, To, IsAt, InInsert
  <2>2. target'[c] = 1
    BY <1>1, <1>2, <2>1 DEF Accept, Fail, ReadRequest, Serve, Fetch, Close, Sought
  <2> QED BY <2>1, <2>2 DEF Sought, InInsert
<1>3. CASE \/ Lock(c, "to_find", "find") \/ FindHit(c) \/ FindMiss(c) \/ HitUnlock(c)
           \/ Lock(c, "to_insert", "insert") \/ FindNext(c)
  <2>1. pc[c] \notin InInsert /\ target'[c] = target[c]
    BY <1>3 DEF Lock, FindHit, FindMiss, HitUnlock, FindNext, IsAt, InInsert
  <2>2. target'[c] = 1
    BY <2>1 DEF Sought
  <2>3. pc'[c] = "find" => \A b \in Block : b < i'[c] => ~Holds(b, uri_key[c])'
    <3>1. CASE FindNext(c)
      <4>1. /\ pc[c] = "find" /\ i'[c] = i[c] + 1 /\ ~Holds(i[c], uri_key[c])
            /\ cache' = cache /\ uri_key' = uri_key
        BY <1>1, <3>1 DEF FindNext, IsAt
      <4>2. \A b \in Block : b < i[c] => ~Holds(b, uri_key[c])
        BY <4>1 DEF Sought
      <4>3. \A b \in Block : b < i[c] + 1 => b < i[c] \/ b = i[c]
        <5> SUFFICES ASSUME NEW b \in Block, b < i[c] + 1
                     PROVE  b < i[c] \/ b = i[c]
          OBVIOUS
        <5>1. b \in Nat /\ i[c] \in Nat
          BY <1>1 DEF Block
        <5> QED BY <5>1
      <4>4. \A b \in Block : b < i[c] + 1 => ~Holds(b, uri_key[c])
        BY <4>1, <4>2, <4>3
      <4> QED BY <4>1, <4>4 DEF Holds
    <3>2. CASE Lock(c, "to_find", "find")
      BY <1>1, <3>2 DEF Lock, Block
    <3> QED BY <1>1, <1>3, <3>1, <3>2 DEF Lock, FindHit, FindMiss, HitUnlock, To
  <2>4. pc'[c] = "insert" => i'[c] = 1
    BY <1>1, <1>3 DEF Lock, FindHit, FindMiss, HitUnlock, FindNext, IsAt, To
  <2>5. pc'[c] # "fill"
    BY <1>1, <1>3 DEF Lock, FindHit, FindMiss, HitUnlock, FindNext, IsAt, To
  <2>6. \A b \in Block : ~(b < 1)
    BY <1>1 DEF Block
  <2> QED BY <2>2, <2>3, <2>4, <2>5, <2>6 DEF Sought
<1>4. CASE InsertScan(c)
  <2>1. /\ pc[c] = "insert" /\ i[c] \in Block
        /\ cache' = cache /\ uri_key' = uri_key
        /\ \A b \in Block : b < i[c] => cache[target[c]].lru <= cache[b].lru
    BY <1>4 DEF InsertScan, IsAt, Sought
  <2>2. CASE Suits(c)
    <3>1. pc'[c] = "fill" /\ target'[c] = i[c]
      BY <1>1, <1>4, <2>2 DEF InsertScan, To
    <3> QED BY <2>1, <2>2, <3>1 DEF Suits, Sought, Holds, InInsert
  <2>3. CASE ~Suits(c)
    <3>1. pc'[c] = "insert" /\ i'[c] = i[c] + 1
      BY <1>1, <1>4, <2>1, <2>3 DEF InsertScan
    <3>2. target'[c] = IF cache[i[c]].lru < cache[target[c]].lru THEN i[c] ELSE target[c]
      BY <1>1, <1>4, <2>3 DEF InsertScan
    <3>3. target'[c] \in Block /\ target[c] \in Block
      BY <1>1, <2>1, <3>2
    <3>4. /\ cache[target'[c]].lru <= cache[target[c]].lru
          /\ cache[target'[c]].lru <= cache[i[c]].lru
      BY <1>1, <2>1, <3>2, <3>3
    <3>5. ASSUME NEW b \in Block, b < i[c] + 1
          PROVE  cache[target'[c]].lru <= cache[b].lru
      <4>1. b < i[c] \/ b = i[c]
        <5>1. b \in Int /\ i[c] \in Int
          BY <1>1, <2>1 DEF Block
        <5> QED BY <3>5, <5>1
      <4>2. CASE b < i[c]
        <5>1. cache[target[c]].lru <= cache[b].lru
          BY <2>1, <4>2
        <5>2. /\ cache[b].lru \in Nat /\ cache[target[c]].lru \in Nat
              /\ cache[target'[c]].lru \in Nat
          BY <1>1, <3>3
        <5> QED BY <3>4, <5>1, <5>2
      <4> QED BY <3>4, <4>1, <4>2
    <3> QED BY <2>1, <3>1, <3>5 DEF Sought, InInsert
  <2> QED BY <2>2, <2>3
<1>5. CASE InsertFull(c)
  <2>1. /\ pc[c] = "insert" /\ i[c] \notin Block /\ pc'[c] = "fill"
        /\ cache' = cache /\ target' = target
    BY <1>1, <1>5 DEF InsertFull, IsAt, To
  <2>2. \A b \in Block : b < i[c]
    BY <1>1, <2>1 DEF Block
  <2>3. \A b \in Block : cache[b].valid
    BY <2>1, <2>2 DEF ProxyIInv, ScanInv
  <2>4. \A b \in Block : cache[target[c]].lru <= cache[b].lru
    BY <2>1, <2>2 DEF Sought
  <2> QED BY <2>1, <2>3, <2>4 DEF Sought, InInsert
<1>6. CASE InsertFill(c) \/ InsertCopy(c)
  <2>1. pc'[c] \in {"copy", "stored"}
    BY <1>1, <1>6 DEF InsertFill, InsertCopy, To
  <2> QED BY <2>1 DEF Sought, InInsert
<1>7. CASE InsertUnlock(c)
  <2>1. pc'[c] = "closed" /\ target'[c] = 1
    BY <1>1, <1>7 DEF InsertUnlock, Close, To
  <2> QED BY <2>1 DEF Sought, InInsert
<1> QED BY <1>2, <1>3, <1>4, <1>5, <1>6, <1>7 DEF doit, cache_find, cache_insert

\* The stamp of a hit or of a fill is later than all the others.
LEMMA StampStep ==
  ASSUME ProxyIInv, StampInv, NEW c \in Conn, Accept(c) \/ doit(c) \/ Fail(c)
  PROVE  StampInv'
<1>1. /\ cache \in [Block -> [valid : BOOLEAN, lru : Nat, uri : Uri \cup {NULL},
                              object : Object \cup {NULL}]]
      /\ cache_time \in Nat /\ target \in [Conn -> Block]
  BY DEF ProxyIInv, ProxyTypeOK
<1>2. CASE \A b \in Block : cache'[b].valid = cache[b].valid /\ cache'[b].lru = cache[b].lru
  <2>1. cache_time' = cache_time \/ cache_time' = cache_time + 1
    BY DEF Accept, Fail, doit, ReadRequest, Serve, Fetch, cache_find, cache_insert, Lock,
           FindHit, FindMiss, HitUnlock, FindNext, InsertScan, InsertFull, InsertFill,
           InsertCopy, InsertUnlock
  <2>2. Valid' = Valid
    BY <1>2 DEF Valid
  <2>3. \A a \in Valid : cache[a].lru \in Nat /\ a \in Block
    BY <1>1 DEF Valid
  <2> QED BY <1>1, <1>2, <2>1, <2>2, <2>3 DEF StampInv
<1>3. CASE \E x \in Block : /\ cache'[x].lru = cache_time + 1
                            /\ \A b \in Block \ {x} : cache'[b] = cache[b]
                            /\ cache_time' = cache_time + 1
  <2>1. PICK x \in Block : /\ cache'[x].lru = cache_time + 1
                           /\ \A b \in Block \ {x} : cache'[b] = cache[b]
                           /\ cache_time' = cache_time + 1
    BY <1>3
  <2>2. \A a \in Valid' : a \in Block /\ (a # x => a \in Valid)
    BY <2>1 DEF Valid
  <2>3. \A a \in Valid : cache[a].lru \in Nat /\ cache[a].lru <= cache_time
    BY <1>1 DEF Valid, StampInv
  <2>4. \A a \in Valid' \ {x} : cache'[a].lru = cache[a].lru /\ cache[a].lru < cache_time + 1
    BY <1>1, <2>1, <2>2, <2>3
  <2> SUFFICES ASSUME NEW a \in Valid', NEW b \in Valid'
               PROVE  /\ cache'[a].lru <= cache_time'
                      /\ cache'[a].lru = cache'[b].lru => a = b
    BY DEF StampInv
  <2>5. cache'[a].lru <= cache_time'
    BY <1>1, <2>1, <2>2, <2>3, <2>4
  <2>6. CASE a # x /\ b # x
    <3>1. a \in Valid /\ b \in Valid
      BY <2>2, <2>6
    <3>2. cache'[a].lru = cache[a].lru /\ cache'[b].lru = cache[b].lru
      BY <2>4, <2>6
    <3> QED BY <2>5, <3>1, <3>2 DEF StampInv
  <2>7. CASE a = x \/ b = x
    BY <1>1, <2>1, <2>2, <2>3, <2>4, <2>7
  <2> QED BY <2>5, <2>6, <2>7
<1>4. CASE FindHit(c)
  <2>1. i[c] \in Block /\ cache' = [cache EXCEPT ![i[c]].lru = cache_time + 1]
        /\ cache_time' = cache_time + 1
    BY <1>4 DEF FindHit
  <2> QED BY <1>1, <1>3, <2>1
<1>5. CASE InsertFill(c)
  <2>1. /\ target[c] \in Block /\ cache_time' = cache_time + 1
        /\ cache'[target[c]].lru = cache_time + 1
        /\ \A b \in Block \ {target[c]} : cache'[b] = cache[b]
    BY <1>1, <1>5 DEF InsertFill
  <2> QED BY <1>3, <2>1
<1>6. CASE InsertCopy(c)
  BY <1>1, <1>2, <1>6 DEF InsertCopy
<1>7. CASE cache' = cache
  BY <1>2, <1>7
<1> QED BY <1>4, <1>5, <1>6, <1>7
        DEF Accept, Fail, doit, ReadRequest, Serve, Fetch, cache_find, cache_insert, Lock,
            FindMiss, HitUnlock, FindNext, InsertScan, InsertFull, InsertUnlock

\* The second invariant is inductive, given the first.
LEMMA LruInvNext == ProxyIInv /\ LruInv /\ [ProxyNext]_vars => LruInv'
<1> SUFFICES ASSUME ProxyIInv, LruInv, [ProxyNext]_vars PROVE LruInv'
  OBVIOUS
<1>1. CASE ProxyNext
  <2>1. PICK c \in Conn : Accept(c) \/ doit(c) \/ Fail(c)
    BY <1>1 DEF ProxyNext
  <2>2. StampInv'
    BY <2>1, StampStep DEF LruInv
  <2>3. Sought(c)'
    BY <2>1, SoughtStep DEF LruInv
  <2>4. \A d \in Conn \ {c} : Sought(d)'
    BY <2>1, SoughtFrame, OtherConns DEF LruInv
  <2> QED BY <2>2, <2>3, <2>4 DEF LruInv
<1>2. CASE UNCHANGED vars
  BY <1>2 DEF vars, LruInv, StampInv, Valid, Sought, Holds
<1> QED BY <1>1, <1>2

\* It holds at first, when nothing is valid.
LEMMA LruInvInit == ProxyInit => LruInv
BY DEF ProxyInit, LruInv, StampInv, Valid, Sought, InInsert

\* The second invariant holds in every state of proxy.c's threads.
THEOREM LruInvariance == ProxySpec => []LruInv
<1> QED BY LruInvInit, LruInvNext, ProxyInvariance, PTL DEF ProxySpec

-----------------------------------------------------------------------------
(* The refinement.                                                         *)

\* What is cached, block by block.
LEMMA ContentsFacts ==
  ASSUME ProxyIInv
  PROVE  /\ DOMAIN Contents = {cache[b].uri : b \in Valid}
         /\ \A b \in Valid : Contents[cache[b].uri] = Stored(b)
<1>1. ASSUME NEW b \in Valid
      PROVE  (CHOOSE a \in Valid : cache[a].uri = cache[b].uri) = b
  BY <1>1 DEF ProxyIInv, OneBlockPerUri, Valid
<1> QED BY <1>1 DEF Contents

\* The same in the next state.
LEMMA ContentsFactsNext ==
  ASSUME ProxyIInv'
  PROVE  /\ DOMAIN Contents' = {cache'[b].uri : b \in Valid'}
         /\ \A b \in Valid' : Contents'[cache'[b].uri] = Stored(b)'
<1>1. ASSUME NEW b \in Valid'
      PROVE  (CHOOSE a \in Valid' : cache'[a].uri = cache'[b].uri) = b
  BY <1>1 DEF ProxyIInv, OneBlockPerUri, Valid
<1> QED BY <1>1 DEF Contents

\* There is room exactly while there is a free block.
LEMMA RoomFacts ==
  ASSUME ProxyIInv
  PROVE  Cardinality(DOMAIN Contents) < CACHE_OBJS_COUNT <=> Valid # Block
<1> DEFINE D == {cache[b].uri : b \in Valid}
           f == [b \in Valid |-> cache[b].uri]
<1>1. IsFiniteSet(Block) /\ Cardinality(Block) = CACHE_OBJS_COUNT
  <2>1. CACHE_OBJS_COUNT \in Nat \ {0}
    BY ProxyAssumption
  <2> QED BY <2>1, FS_Interval DEF Block
<1>2. /\ IsFiniteSet(Valid) /\ Cardinality(Valid) <= Cardinality(Block)
      /\ Cardinality(Valid) = Cardinality(Block) <=> Valid = Block
  <2>1. Valid \in SUBSET Block
    BY DEF Valid
  <2> QED BY <1>1, <2>1, FS_Subset
<1>3. f \in Surjection(Valid, D) /\ f \in Injection(Valid, D)
  <2>1. f \in [Valid -> D]
    OBVIOUS
  <2>2. \A a, b \in Valid : f[a] = f[b] => a = b
    BY DEF ProxyIInv, OneBlockPerUri, Valid
  <2>3. \A u \in D : \E b \in Valid : f[b] = u
    OBVIOUS
  <2> HIDE DEF f, D
  <2>4. f \in Injection(Valid, D)
    BY <2>1, <2>2 DEF Injection, IsInjective
  <2>5. f \in Surjection(Valid, D)
    BY <2>1, <2>3 DEF Surjection
  <2> QED BY <2>4, <2>5
<1>4. Cardinality(D) = Cardinality(Valid)
  <2> HIDE DEF f, D
  <2> QED BY <1>2, <1>3, FS_Surjection
<1>5. Cardinality(Valid) \in Nat /\ CACHE_OBJS_COUNT \in Nat
  BY <1>2, FS_CardinalityType, ProxyAssumption
<1> QED BY <1>1, <1>2, <1>4, <1>5, ContentsFacts

\* A step that changes no block, and no copy under way, leaves the contents
\* and their order.
LEMMA ContentsFrame ==
  ASSUME cache' = cache,
         \A d \in Conn : /\ pc'[d] = "copy" <=> pc[d] = "copy"
                         /\ pc[d] = "copy" => /\ target'[d] = target[d]
                                              /\ object'[d] = object[d]
  PROVE  Contents' = Contents /\ Newer' = Newer
<1>1. Valid' = Valid
  BY DEF Valid
<1>2. ASSUME NEW b
      PROVE  Stored(b)' = Stored(b)
  <2> DEFINE w == {d \in Conn : pc[d] = "copy" /\ target[d] = b}
  <2>1. {d \in Conn : pc'[d] = "copy" /\ target'[d] = b} = w
    OBVIOUS
  <2>2. w # {} => (CHOOSE d \in w : TRUE) \in w
    OBVIOUS
  <2>3. w # {} => object'[CHOOSE d \in w : TRUE] = object[CHOOSE d \in w : TRUE]
    BY <2>2
  <2> HIDE DEF w
  <2>4. Stored(b)' = IF w = {} THEN cache'[b].object ELSE object'[CHOOSE d \in w : TRUE]
    BY <2>1 DEF Stored
  <2>5. Stored(b) = IF w = {} THEN cache[b].object ELSE object[CHOOSE d \in w : TRUE]
    BY DEF Stored, w
  <2> QED BY <2>3, <2>4, <2>5
<1>3. Newer' = Newer
  BY <1>1 DEF Newer
<1>4. Contents' = Contents
  BY <1>1, <1>2 DEF Contents
<1> QED BY <1>3, <1>4

\* A block x gets the URI u and the latest stamp: u is used, and the URIs of the
\* other blocks keep their order.
LEMMA TouchFacts ==
  ASSUME ProxyIInv, ProxyIInv', StampInv, NEW x \in Block, NEW u \in Uri,
         cache'[x].valid, cache'[x].uri = u, cache'[x].lru = cache_time + 1,
         \A b \in Block \ {x} : cache'[b] = cache[b],
         \A b \in Valid \ {x} : cache[b].uri # u
  PROVE  LET others == {cache[b].uri : b \in Valid \ {x}}
         IN  Newer' = ({u} \X others) \cup (Newer \cap (others \X others))
<1> DEFINE others == {cache[b].uri : b \in Valid \ {x}}
<1>1. /\ \A b \in Valid : b \in Block /\ cache[b].lru \in Nat /\ cache[b].uri \in Uri
      /\ \A b \in Valid : cache[b].lru <= cache_time
      /\ cache_time \in Nat
  BY DEF ProxyIInv, ProxyTypeOK, ContentInv, Valid, StampInv
<1>2. Valid' = (Valid \ {x}) \cup {x}
  BY DEF Valid
<1>3. \A b \in Valid \ {x} : cache'[b] = cache[b]
  BY <1>1
<1>4. ASSUME NEW v \in Uri, NEW w \in Uri
      PROVE  <<v, w>> \in Newer' <=>
               \/ v = u /\ w \in others
               \/ v \in others /\ w \in others /\ <<v, w>> \in Newer
  <2>1. <<v, w>> \in Newer' <=>
          \E a, b \in Valid' : v = cache'[a].uri /\ w = cache'[b].uri
                               /\ cache'[a].lru > cache'[b].lru
    BY DEF Newer
  <2>2. <<v, w>> \in Newer <=>
          \E a, b \in Valid : v = cache[a].uri /\ w = cache[b].uri
                              /\ cache[a].lru > cache[b].lru
    BY DEF Newer
  <2>3. ASSUME v = u, w \in others
        PROVE  <<v, w>> \in Newer'
    <3>1. PICK b \in Valid \ {x} : w = cache[b].uri
      BY <2>3
    <3>2. /\ cache'[b] = cache[b] /\ b \in Valid' /\ x \in Valid'
          /\ cache[b].lru \in Nat /\ cache[b].lru <= cache_time
      BY <1>1, <1>2, <1>3
    <3>3. cache'[x].lru > cache'[b].lru
      BY <1>1, <3>2
    <3> QED BY <2>1, <2>3, <3>1, <3>2, <3>3
  <2>4. ASSUME v \in others, w \in others, <<v, w>> \in Newer
        PROVE  <<v, w>> \in Newer'
    <3>1. PICK a \in Valid, b \in Valid : /\ v = cache[a].uri /\ w = cache[b].uri
                                          /\ cache[a].lru > cache[b].lru
      BY <2>2, <2>4
    <3>2. a # x /\ b # x
      BY <2>4, <3>1 DEF ProxyIInv, OneBlockPerUri, Valid
    <3> QED BY <1>2, <1>3, <2>1, <3>1, <3>2
  <2>5. ASSUME <<v, w>> \in Newer'
        PROVE  \/ v = u /\ w \in others
               \/ v \in others /\ w \in others /\ <<v, w>> \in Newer
    <3>1. PICK a \in Valid', b \in Valid' : /\ v = cache'[a].uri /\ w = cache'[b].uri
                                            /\ cache'[a].lru > cache'[b].lru
      BY <2>1, <2>5
    <3>2. b # x
      BY <1>1, <1>2, <1>3, <3>1
    <3>3. b \in Valid \ {x} /\ w \in others
      BY <1>2, <1>3, <3>1, <3>2
    <3>4. CASE a = x
      BY <3>1, <3>3, <3>4
    <3>5. CASE a # x
      BY <1>2, <1>3, <2>2, <3>1, <3>3, <3>5
    <3> QED BY <3>4, <3>5
  <2> QED BY <2>3, <2>4, <2>5
<1>5. Newer' \subseteq Uri \X Uri /\ others \subseteq Uri
  BY <1>1 DEF Newer
<1> HIDE DEF others
<1>6. \A p : p \in Newer' <=> p \in ({u} \X others) \cup (Newer \cap (others \X others))
  BY <1>4, <1>5
<1>7. Newer' = ({u} \X others) \cup (Newer \cap (others \X others))
  BY <1>6
<1> QED BY <1>7 DEF others

\* The object of a block is the one it holds, unless it is still to be copied.
LEMMA StoredFacts ==
  ASSUME ProxyIInv, NEW b
  PROVE  /\ (\A d \in Conn : ~(pc[d] = "copy" /\ target[d] = b)) => Stored(b) = cache[b].object
         /\ \A d \in Conn : pc[d] = "copy" /\ target[d] = b => Stored(b) = object[d]
<1> DEFINE w == {d \in Conn : pc[d] = "copy" /\ target[d] = b}
<1>1. ASSUME NEW d \in w
      PROVE  (CHOOSE e \in w : TRUE) = d
  <2>1. (CHOOSE e \in w : TRUE) \in w
    BY <1>1
  <2>2. \A e \in w : e = d
    BY <1>1 DEF ProxyIInv, MutexInv, Locked, InInsert
  <2> HIDE DEF w
  <2> QED BY <2>1, <2>2
<1>2. Stored(b) = IF w = {} THEN cache[b].object ELSE object[CHOOSE d \in w : TRUE]
  BY DEF Stored
<1>3. \A d \in Conn : pc[d] = "copy" /\ target[d] = b => d \in w
  OBVIOUS
<1>4. (\A d \in Conn : ~(pc[d] = "copy" /\ target[d] = b)) => w = {}
  OBVIOUS
<1> HIDE DEF w
<1>5. ASSUME NEW d \in Conn, pc[d] = "copy" /\ target[d] = b
      PROVE  Stored(b) = object[d]
  BY <1>1, <1>2, <1>3, <1>5
<1> QED BY <1>2, <1>4, <1>5

\* The same in the next state.
LEMMA StoredFactsNext ==
  ASSUME ProxyIInv', NEW b
  PROVE  /\ (\A d \in Conn : ~(pc'[d] = "copy" /\ target'[d] = b)) =>
              Stored(b)' = cache'[b].object
         /\ \A d \in Conn : pc'[d] = "copy" /\ target'[d] = b => Stored(b)' = object'[d]
<1> DEFINE w == {d \in Conn : pc'[d] = "copy" /\ target'[d] = b}
<1>1. ASSUME NEW d \in w
      PROVE  (CHOOSE e \in w : TRUE) = d
  <2>1. (CHOOSE e \in w : TRUE) \in w
    BY <1>1
  <2>2. \A e \in w : e = d
    BY <1>1 DEF ProxyIInv, MutexInv, Locked, InInsert
  <2> HIDE DEF w
  <2> QED BY <2>1, <2>2
<1>2. Stored(b)' = IF w = {} THEN cache'[b].object ELSE object'[CHOOSE d \in w : TRUE]
  BY DEF Stored
<1>3. \A d \in Conn : pc'[d] = "copy" /\ target'[d] = b => d \in w
  OBVIOUS
<1>4. (\A d \in Conn : ~(pc'[d] = "copy" /\ target'[d] = b)) => w = {}
  OBVIOUS
<1> HIDE DEF w
<1>5. ASSUME NEW d \in Conn, pc'[d] = "copy" /\ target'[d] = b
      PROVE  Stored(b)' = object'[d]
  BY <1>1, <1>2, <1>3, <1>5
<1> QED BY <1>2, <1>4, <1>5

\* Blocks that keep their URIs and their objects keep the contents.
LEMMA SameContents ==
  ASSUME ProxyIInv, ProxyIInv', Valid' = Valid,
         \A b \in Valid : cache'[b].uri = cache[b].uri /\ Stored(b)' = Stored(b)
  PROVE  Contents' = Contents
<1>1. DOMAIN Contents' = DOMAIN Contents
  BY ContentsFacts, ContentsFactsNext
<1>2. ASSUME NEW u \in DOMAIN Contents
      PROVE  Contents'[u] = Contents[u]
  <2>1. PICK b \in Valid : u = cache[b].uri
    BY ContentsFacts
  <2> QED BY <2>1, ContentsFacts, ContentsFactsNext
<1>3. /\ Contents = [u \in DOMAIN Contents |-> Contents[u]]
      /\ Contents' = [u \in DOMAIN Contents' |-> Contents'[u]]
  BY DEF Contents
<1> QED BY <1>1, <1>2, <1>3

\* A step changes the answer of its connection only.
LEMMA AnswerStep ==
  ASSUME ProxyIInv, NEW c \in Conn, Accept(c) \/ doit(c) \/ Fail(c)
  PROVE  Answer' = [Answer EXCEPT ![c] = Answer'[c]]
<1>1. \A d \in Conn \ {c} : Answer'[d] = Answer[d]
  BY OtherConns DEF Answer
<1>2. /\ Answer = [d \in Conn |-> Answer[d]]
      /\ Answer' = [d \in Conn |-> Answer'[d]]
  BY DEF Answer
<1> QED BY <1>1, <1>2

\* A step that leaves its answer, the blocks and the copies is a stutter.
LEMMA LruStutter ==
  ASSUME ProxyIInv, NEW c \in Conn, Accept(c) \/ doit(c) \/ Fail(c),
         Answer'[c] = Answer[c], Contents' = Contents, Newer' = Newer
  PROVE  UNCHANGED Lru!lruVars
<1>1. Answer = [d \in Conn |-> Answer[d]]
  BY DEF Answer
<1>2. Answer' = Answer
  BY <1>1, AnswerStep
<1> QED BY <1>2 DEF Lru!lruVars

\* The other URIs, when block x is the only one that may be of URI u.
LEMMA OtherUris ==
  ASSUME ProxyIInv, NEW x \in Block, NEW u, \A b \in Block : Holds(b, u) => b = x
  PROVE  /\ \A b \in Valid \ {x} : cache[b].uri # u
         /\ Holds(x, u) => {cache[b].uri : b \in Valid \ {x}} = DOMAIN Contents \ {u}
         /\ ~cache[x].valid => {cache[b].uri : b \in Valid \ {x}} = DOMAIN Contents \ {u}
<1>1. \A b \in Valid \ {x} : cache[b].uri # u
  BY DEF Holds, Valid
<1>2. DOMAIN Contents = {cache[b].uri : b \in Valid}
  BY ContentsFacts
<1>3. Holds(x, u) => x \in Valid /\ cache[x].uri = u
  BY DEF Holds, Valid
<1>4. ~cache[x].valid => x \notin Valid
  BY DEF Valid
<1> QED BY <1>1, <1>2, <1>3, <1>4

\* cache_find answers with the object cached for the URI, which is now the
\* latest used.
LEMMA HitRefines ==
  ASSUME ProxyIInv, ProxyIInv', StampInv, NEW c \in Conn, FindHit(c)
  PROVE  Lru!Hit(c, uri_key[c])
<1> DEFINE x == i[c]
           u == uri_key[c]
           others == {cache[b].uri : b \in Valid \ {x}}
<1>1. /\ x \in Block /\ u \in Uri /\ Holds(x, u) /\ pc[c] = "find"
      /\ cache' = [cache EXCEPT ![x].lru = cache_time + 1]
      /\ object' = [object EXCEPT ![c] = cache[x].object]
      /\ pc' = [pc EXCEPT ![c] = "hit"]
  BY DEF FindHit, IsAt, To, ProxyIInv, CarriesInv
<1>2. /\ cache \in [Block -> [valid : BOOLEAN, lru : Nat, uri : Uri \cup {NULL},
                              object : Object \cup {NULL}]]
      /\ pc \in [Conn -> Place] /\ object \in [Conn -> Object \cup {NULL}]
  BY DEF ProxyIInv, ProxyTypeOK
<1>3. \A b \in Block : Holds(b, u) => b = x
  BY <1>1 DEF Holds, ProxyIInv, OneBlockPerUri
<1>4. \A d \in Conn : pc[d] # "copy" /\ pc'[d] # "copy"
  BY <1>1, <1>2 DEF ProxyIInv, MutexInv, Locked, InFind, InInsert
<1>5. /\ x \in Valid /\ cache[x].uri = u
      /\ \A b \in Valid : b \in Block
  BY <1>1 DEF Holds, Valid
<1>6. \A b \in Block : /\ cache'[b].valid = cache[b].valid /\ cache'[b].uri = cache[b].uri
                       /\ cache'[b].object = cache[b].object
                       /\ b # x => cache'[b] = cache[b]
  BY <1>1, <1>2
<1>7. cache'[x].lru = cache_time + 1
  BY <1>1, <1>2
<1>8. Contents' = Contents
  <2>1. Valid' = Valid
    BY <1>6 DEF Valid
  <2>2. \A b \in Valid : Stored(b)' = Stored(b)
    BY <1>4, <1>5, <1>6, StoredFacts, StoredFactsNext
  <2> QED BY <1>5, <1>6, <2>1, <2>2, SameContents
<1>9. others = DOMAIN Contents \ {u} /\ \A b \in Valid \ {x} : cache[b].uri # u
  BY <1>1, <1>3, OtherUris
<1>10. Newer' = ({u} \X others) \cup (Newer \cap (others \X others))
  <2>1. cache'[x].valid /\ cache'[x].uri = u
    BY <1>1, <1>6 DEF Holds
  <2> QED BY <1>1, <1>6, <1>7, <1>9, <2>1, TouchFacts
<1>11. u \in DOMAIN Contents /\ Contents[u] = cache[x].object
  BY <1>4, <1>5, ContentsFacts, StoredFacts
<1>12. Answer[c] = "none" /\ Answer'[c] = cache[x].object
  BY <1>1, <1>2 DEF Answer, InInsert
<1>13. Answer' = [Answer EXCEPT ![c] = Contents[u]]
  BY <1>11, <1>12, AnswerStep DEF doit, cache_find
<1> QED BY <1>8, <1>9, <1>10, <1>11, <1>12, <1>13 DEF Lru!Hit, Lru!Touch, Lru!Cached

\* It answers with a miss after no block has been of the URI.
LEMMA MissRefines ==
  ASSUME ProxyIInv, NEW c \in Conn, Sought(c), FindMiss(c)
  PROVE  Lru!Miss(c, uri_key[c])
<1>1. /\ pc[c] = "find" /\ i[c] \notin Block /\ pc' = [pc EXCEPT ![c] = "fetch"]
      /\ UNCHANGED <<cache, object, target>>
  BY DEF FindMiss, IsAt, To
<1>2. /\ pc \in [Conn -> Place] /\ i \in [Conn -> 1..CACHE_OBJS_COUNT + 1]
      /\ CACHE_OBJS_COUNT \in Nat
  BY ProxyAssumption DEF ProxyIInv, ProxyTypeOK
<1>3. \A b \in Block : b < i[c]
  BY <1>1, <1>2 DEF Block
<1>4. uri_key[c] \notin DOMAIN Contents
  <2>1. \A b \in Block : ~Holds(b, uri_key[c])
    BY <1>1, <1>3 DEF Sought
  <2> QED BY <2>1, ContentsFacts DEF Holds, Valid
<1>5. Contents' = Contents /\ Newer' = Newer
  BY <1>1, <1>2, ContentsFrame
<1>6. Answer[c] = "none" /\ Answer'[c] = "miss"
  BY <1>1, <1>2 DEF Answer, InInsert
<1>7. Answer' = [Answer EXCEPT ![c] = "miss"]
  BY <1>6, AnswerStep DEF doit, cache_find
<1> QED BY <1>4, <1>5, <1>6, <1>7 DEF Lru!Miss, Lru!Cached

\* The abstract specification counts with the same operator.
LEMMA SameCardinality == \A S : Lru!Cardinality(S) = Cardinality(S)
BY DEF Lru!Cardinality, Cardinality

\* The scan of cache_insert has chosen the block that the URI has, a free one,
\* or the one of the URI used after no other.
LEMMA KeptFacts ==
  ASSUME ProxyIInv, StampInv, NEW c \in Conn, Sought(c), pc[c] = "fill"
  PROVE  Lru!Kept(uri_key[c]) = {cache[b].uri : b \in Valid \ {target[c]}}
<1> DEFINE x == target[c]
           u == uri_key[c]
           others == {cache[b].uri : b \in Valid \ {x}}
<1>1. x \in Block /\ \A b \in Block : Holds(b, u) => b = x
  BY DEF ProxyIInv, ProxyTypeOK, ScanInv
<1>2. DOMAIN Contents = {cache[b].uri : b \in Valid}
  BY ContentsFacts
<1>3. CASE Holds(x, u)
  <2>1. u \in DOMAIN Contents
    BY <1>1, <1>2, <1>3 DEF Holds, Valid
  <2>2. others = DOMAIN Contents \ {u}
    BY <1>1, <1>3, OtherUris
  <2> QED BY <2>1, <2>2 DEF Lru!Kept, Lru!Cached
<1>4. CASE ~cache[x].valid
  <2>1. Valid # Block
    BY <1>1, <1>4 DEF Valid
  <2>2. Cardinality(DOMAIN Contents) < CACHE_OBJS_COUNT
    BY <2>1, RoomFacts
  <2>3. others = DOMAIN Contents \ {u}
    BY <1>1, <1>4, OtherUris
  <2> QED BY <2>2, <2>3, SameCardinality DEF Lru!Kept, Lru!Cached
<1>5. CASE /\ ~Holds(x, u)
           /\ \A b \in Block : cache[b].valid /\ cache[x].lru <= cache[b].lru
  <2>1. Valid = Block
    BY <1>5 DEF Valid
  <2>2. ~(Cardinality(DOMAIN Contents) < CACHE_OBJS_COUNT)
    BY <2>1, RoomFacts
  <2>3. u \notin DOMAIN Contents
    BY <1>1, <1>2, <1>5 DEF Holds, Valid
  <2>4. Lru!Kept(u) = {v \in DOMAIN Contents : \E w \in DOMAIN Contents : <<v, w>> \in Newer}
    BY <2>2, <2>3, SameCardinality DEF Lru!Kept, Lru!Cached
  <2>5. \A b \in Block : cache[b].lru \in Nat /\ cache[b].uri \in Uri
    BY <1>5 DEF ProxyIInv, ProxyTypeOK, ContentInv
  <2>6. \A b \in Block : (cache[b].lru > cache[x].lru) <=> b # x
    <3>1. \A b \in Block : cache[b].lru = cache[x].lru => b = x
      BY <1>1, <2>1 DEF StampInv
    <3> QED BY <1>1, <1>5, <2>5, <3>1
  <2>7. ASSUME NEW b \in Block
        PROVE  (\E w \in DOMAIN Contents : <<cache[b].uri, w>> \in Newer) <=> b # x
    <3>1. ASSUME b # x
          PROVE  \E w \in DOMAIN Contents : <<cache[b].uri, w>> \in Newer
      <4>1. <<cache[b].uri, cache[x].uri>> \in Newer
        BY <1>1, <2>1, <2>5, <2>6, <3>1 DEF Newer
      <4> QED BY <1>1, <1>2, <2>1, <4>1
    <3>2. ASSUME NEW w \in DOMAIN Contents, <<cache[b].uri, w>> \in Newer
          PROVE  b # x
      <4>1. PICK a \in Valid, e \in Valid : /\ <<cache[b].uri, w>> = <<cache[a].uri, cache[e].uri>>
                                            /\ cache[a].lru > cache[e].lru
        BY <3>2 DEF Newer
      <4>2. a = b
        BY <2>1, <4>1 DEF ProxyIInv, OneBlockPerUri, Valid
      <4>3. /\ cache[x].lru <= cache[e].lru /\ cache[x].lru \in Nat
            /\ cache[e].lru \in Nat /\ cache[b].lru \in Nat
        BY <1>1, <1>5, <2>1, <2>5
      <4> QED BY <4>1, <4>2, <4>3
    <3> QED BY <3>1, <3>2
  <2>8. others = {v \in DOMAIN Contents : \E w \in DOMAIN Contents : <<v, w>> \in Newer}
    BY <1>2, <2>1, <2>7
  <2> QED BY <2>4, <2>8
<1> QED BY <1>3, <1>4, <1>5 DEF Sought

\* cache_insert puts the object in before it is copied: the block is chosen,
\* and nobody looks until the mutex is free.
LEMMA FillRefines ==
  ASSUME ProxyIInv, ProxyIInv', StampInv, NEW c \in Conn, Sought(c), InsertFill(c)
  PROVE  Lru!Insert(c, uri_key[c], object[c])
<1> DEFINE x == target[c]
           u == uri_key[c]
           others == {cache[b].uri : b \in Valid \ {x}}
<1>1. /\ x \in Block /\ u \in Uri /\ pc[c] = "fill"
      /\ pc' = [pc EXCEPT ![c] = "copy"] /\ UNCHANGED <<uri_key, object, target>>
      /\ \A b \in Block : Holds(b, u) => b = x
  BY DEF InsertFill, IsAt, To, ProxyIInv, ProxyTypeOK, CarriesInv, InInsert, ScanInv
<1>2. /\ pc \in [Conn -> Place] /\ cache_time' = cache_time + 1
      /\ cache'[x].valid /\ cache'[x].uri = u /\ cache'[x].lru = cache_time + 1
      /\ \A b \in Block \ {x} : cache'[b] = cache[b]
  BY <1>1 DEF InsertFill, ProxyIInv, ProxyTypeOK
<1>3. /\ \A d \in Conn : pc[d] # "copy"
      /\ \A d \in Conn : pc'[d] = "copy" => d = c
      /\ pc'[c] = "copy" /\ target'[c] = x /\ object'[c] = object[c]
  BY <1>1, <1>2 DEF ProxyIInv, MutexInv, Locked, InInsert
<1>4. Lru!Kept(u) = others /\ \A b \in Valid \ {x} : cache[b].uri # u
  BY <1>1, KeptFacts, OtherUris
<1>5. Newer' = ({u} \X others) \cup (Newer \cap (others \X others))
  BY <1>1, <1>2, <1>4, TouchFacts
<1>6. Valid' = (Valid \ {x}) \cup {x}
  BY <1>1, <1>2 DEF Valid
<1>7. \A b \in Valid \ {x} : cache'[b] = cache[b]
  BY <1>2 DEF Valid
<1>8. DOMAIN Contents' = others \cup {u}
  <2>1. {cache'[b].uri : b \in Valid'} = {cache'[b].uri : b \in Valid \ {x}} \cup {cache'[x].uri}
    BY <1>6
  <2>2. {cache'[b].uri : b \in Valid \ {x}} = others
    BY <1>7
  <2> QED BY <1>2, <2>1, <2>2, ContentsFactsNext
<1>9. Contents'[u] = object[c]
  BY <1>1, <1>2, <1>3, <1>6, ContentsFactsNext, StoredFactsNext
<1>10. ASSUME NEW v \in others
       PROVE  Contents'[v] = Contents[v] /\ v # u
  <2>1. PICK b \in Valid \ {x} : v = cache[b].uri
    BY <1>10
  <2>2. b \in Valid' /\ cache'[b] = cache[b]
    BY <1>6, <1>7
  <2>3. Contents'[v] = cache[b].object
    BY <1>3, <2>1, <2>2, ContentsFactsNext, StoredFactsNext
  <2>4. Contents[v] = cache[b].object
    BY <1>3, <2>1, ContentsFacts, StoredFacts
  <2> QED BY <1>4, <2>1, <2>3, <2>4
<1>11. Contents' = [v \in others \cup {u} |-> IF v = u THEN object[c] ELSE Contents[v]]
  <2>1. Contents' = [v \in DOMAIN Contents' |-> Contents'[v]]
    BY DEF Contents
  <2> HIDE DEF others
  <2> QED BY <1>8, <1>9, <1>10, <2>1
<1>12. Answer[c] = "miss" /\ Answer'[c] = "miss"
  BY <1>1, <1>2 DEF Answer, InInsert
<1>13. Answer' = Answer
  <2>1. Answer = [d \in Conn |-> Answer[d]]
    BY DEF Answer
  <2> QED BY <1>12, <2>1, AnswerStep DEF doit, cache_insert
<1> QED BY <1>4, <1>5, <1>11, <1>12, <1>13 DEF Lru!Insert, Lru!Touch

\* The copy changes nothing that can be seen.
LEMMA CopyRefines ==
  ASSUME ProxyIInv, ProxyIInv', NEW c \in Conn, InsertCopy(c)
  PROVE  UNCHANGED Lru!lruVars
<1> DEFINE x == target[c]
<1>1. /\ x \in Block /\ pc[c] = "copy" /\ pc' = [pc EXCEPT ![c] = "stored"]
      /\ cache' = [cache EXCEPT ![x].object = object[c]]
      /\ UNCHANGED <<object, target>>
  BY DEF InsertCopy, IsAt, To, ProxyIInv, ProxyTypeOK
<1>2. /\ pc \in [Conn -> Place]
      /\ cache \in [Block -> [valid : BOOLEAN, lru : Nat, uri : Uri \cup {NULL},
                              object : Object \cup {NULL}]]
  BY DEF ProxyIInv, ProxyTypeOK
<1>3. \A b \in Block : /\ cache'[b].valid = cache[b].valid /\ cache'[b].uri = cache[b].uri
                       /\ cache'[b].lru = cache[b].lru
                       /\ cache'[b].object = IF b = x THEN object[c] ELSE cache[b].object
  BY <1>1, <1>2
<1>4. Valid' = Valid /\ \A b \in Valid : b \in Block
  BY <1>3 DEF Valid
<1>5. /\ \A d \in Conn : pc[d] = "copy" => d = c
      /\ \A d \in Conn : pc'[d] # "copy"
  BY <1>1, <1>2 DEF ProxyIInv, MutexInv, Locked, InInsert
<1>6. ASSUME NEW b \in Valid
      PROVE  Stored(b)' = Stored(b)
  <2>1. Stored(b)' = IF b = x THEN object[c] ELSE cache[b].object
    BY <1>3, <1>4, <1>5, StoredFactsNext
  <2>2. Stored(b) = IF b = x THEN object[c] ELSE cache[b].object
    BY <1>1, <1>5, StoredFacts
  <2> QED BY <2>1, <2>2
<1>7. Contents' = Contents
  BY <1>3, <1>4, <1>6, SameContents
<1>8. Newer' = Newer
  BY <1>3, <1>4 DEF Newer
<1>9. Answer'[c] = Answer[c]
  BY <1>1, <1>2 DEF Answer, InInsert
<1> QED BY <1>7, <1>8, <1>9, LruStutter DEF doit, cache_insert

\* A thread that returns forgets its answer.
LEMMA CloseRefines ==
  ASSUME ProxyIInv, NEW c \in Conn, doit(c), Close(c), pc[c] # "copy", cache' = cache
  PROVE  Lru!Leave(c)
<1>1. /\ pc' = [pc EXCEPT ![c] = "closed"]
      /\ target' = [target EXCEPT ![c] = 1] /\ object' = [object EXCEPT ![c] = NULL]
      /\ pc \in [Conn -> Place]
  BY DEF Close, To, ProxyIInv, ProxyTypeOK
<1>2. Contents' = Contents /\ Newer' = Newer
  <2>1. \A d \in Conn : /\ pc'[d] = "copy" <=> pc[d] = "copy"
                        /\ pc[d] = "copy" => /\ target'[d] = target[d]
                                             /\ object'[d] = object[d]
    BY <1>1
  <2> QED BY <2>1, ContentsFrame
<1>3. Answer'[c] = "none"
  BY <1>1 DEF Answer, InInsert
<1> QED BY <1>2, <1>3, AnswerStep DEF Lru!Leave

\* The other steps are stutters.
LEMMA QuietRefines ==
  ASSUME ProxyIInv, NEW c \in Conn,
         \/ Accept(c) \/ Fail(c)
         \/ (ReadRequest(c) /\ ~Close(c))
         \/ (Fetch(c) /\ ~Close(c))
         \/ Lock(c, "to_find", "find") \/ FindNext(c) \/ HitUnlock(c)
         \/ Lock(c, "to_insert", "insert") \/ InsertScan(c) \/ InsertFull(c)
  PROVE  UNCHANGED Lru!lruVars
<1>1. Accept(c) \/ doit(c) \/ Fail(c)
  BY DEF doit, cache_find, cache_insert
<1>2. pc \in [Conn -> Place] /\ object \in [Conn -> Object \cup {NULL}]
  BY DEF ProxyIInv, ProxyTypeOK
<1>3. cache' = cache /\ pc'[c] # "copy" /\ pc[c] # "copy"
  BY <1>2 DEF Accept, Fail, ReadRequest, Fetch, Lock, FindNext, HitUnlock, InsertScan,
              InsertFull, IsAt, To
<1>4. \A d \in Conn \ {c} : /\ pc'[d] = pc[d] /\ target'[d] = target[d]
                            /\ object'[d] = object[d]
  BY <1>1, OtherConns
<1>5. Contents' = Contents /\ Newer' = Newer
  BY <1>3, <1>4, ContentsFrame
<1>6. Answer'[c] = Answer[c]
  <2>1. CASE Accept(c) \/ Fail(c) \/ (ReadRequest(c) /\ ~Close(c))
    BY <1>2, <2>1 DEF Accept, Fail, ReadRequest, IsAt, To, Answer, InInsert
  <2>2. CASE (Fetch(c) /\ ~Close(c)) \/ Lock(c, "to_find", "find") \/ FindNext(c)
    BY <1>2, <2>2 DEF Fetch, Lock, FindNext, IsAt, To, Answer, InInsert
  <2>3. CASE HitUnlock(c) \/ Lock(c, "to_insert", "insert")
    BY <1>2, <2>3 DEF HitUnlock, Lock, IsAt, To, Answer, InInsert
  <2>4. CASE InsertScan(c) \/ InsertFull(c)
    <3>1. pc[c] = "insert" /\ pc'[c] \in {"insert", "fill"}
      BY <1>2, <2>4 DEF InsertScan, InsertFull, IsAt, To
    <3> QED BY <3>1 DEF Answer, InInsert
  <2> QED BY <2>1, <2>2, <2>3, <2>4
<1> QED BY <1>1, <1>5, <1>6, LruStutter

\* Every step of the proxy's threads is one of the cache it promises, or none.
LEMMA LruStep ==
  ProxyIInv /\ ProxyIInv' /\ LruInv /\ [ProxyNext]_vars => [Lru!LruNext]_Lru!lruVars
<1> SUFFICES ASSUME ProxyIInv, ProxyIInv', LruInv, [ProxyNext]_vars
             PROVE  [Lru!LruNext]_Lru!lruVars
  OBVIOUS
<1>1. CASE ProxyNext
  <2>1. PICK c \in Conn : Accept(c) \/ doit(c) \/ Fail(c)
    BY <1>1 DEF ProxyNext
  <2>2. StampInv /\ Sought(c)
    BY DEF LruInv
  <2>3. CASE FindHit(c)
    <3>1. uri_key[c] \in Uri
      BY <2>3 DEF FindHit, IsAt, ProxyIInv, CarriesInv
    <3> QED BY <2>2, <2>3, <3>1, HitRefines DEF Lru!LruNext
  <2>4. CASE FindMiss(c)
    <3>1. uri_key[c] \in Uri
      BY <2>4 DEF FindMiss, IsAt, ProxyIInv, CarriesInv
    <3> QED BY <2>2, <2>4, <3>1, MissRefines DEF Lru!LruNext
  <2>5. CASE InsertFill(c)
    <3>1. uri_key[c] \in Uri /\ object[c] \in Origin[uri_key[c]]
      BY <2>5 DEF InsertFill, IsAt, ProxyIInv, CarriesInv, InInsert
    <3>2. object[c] \in Object
      BY <3>1, ProxyAssumption
    <3> QED BY <2>2, <2>5, <3>1, <3>2, FillRefines DEF Lru!LruNext
  <2>6. CASE InsertCopy(c)
    BY <2>6, CopyRefines
  <2>7. CASE Serve(c) \/ InsertUnlock(c) \/ (Close(c) /\ (ReadRequest(c) \/ Fetch(c)))
    <3>1. doit(c) /\ Close(c) /\ pc[c] # "copy" /\ cache' = cache
      BY <2>7 DEF doit, cache_insert, Serve, InsertUnlock, ReadRequest, Fetch, IsAt
    <3> QED BY <3>1, CloseRefines DEF Lru!LruNext
  <2>8. CASE \/ Accept(c) \/ Fail(c)
             \/ (ReadRequest(c) /\ ~Close(c))
             \/ (Fetch(c) /\ ~Close(c))
             \/ Lock(c, "to_find", "find") \/ FindNext(c) \/ HitUnlock(c)
             \/ Lock(c, "to_insert", "insert") \/ InsertScan(c) \/ InsertFull(c)
    BY <2>8, QuietRefines
  <2> QED BY <2>1, <2>3, <2>4, <2>5, <2>6, <2>7, <2>8 DEF doit, cache_find, cache_insert
<1>2. CASE UNCHANGED vars
  <2>1. Contents' = Contents /\ Newer' = Newer
    BY <1>2, ContentsFrame DEF vars
  <2>2. Answer' = Answer
    BY <1>2 DEF vars, Answer
  <2> QED BY <2>1, <2>2 DEF Lru!lruVars
<1> QED BY <1>1, <1>2

\* At first nothing is cached, and nobody knows anything.
LEMMA LruInitRefines == ProxyInit => Lru!LruInit
<1> SUFFICES ASSUME ProxyInit PROVE Lru!LruInit
  OBVIOUS
<1>1. Valid = {}
  BY DEF ProxyInit, Valid
<1>2. Contents = [u \in {} |-> u]
  BY <1>1 DEF Contents
<1>3. Newer = {}
  BY <1>1 DEF Newer
<1>4. Answer = [c \in Conn |-> "none"]
  BY DEF ProxyInit, Answer, InInsert
<1> QED BY <1>2, <1>3, <1>4 DEF Lru!LruInit

\* For any number of connections and blocks, the scans of proxy.c under the
\* mutex answer at one instant and evict the object used least recently.
THEOREM ProxyImplementsLru == ProxySpec => ImplementsLru
<1> QED BY LruInitRefines, LruStep, ProxyInvariance, LruInvariance, PTL
        DEF ProxySpec, ImplementsLru, Lru!LruSpec

-----------------------------------------------------------------------------
(* The heap.  Induction, as a fact about sets of numbers.                  *)

\* A set of natural numbers has a least element.
LEMMA LeastNumber ==
  ASSUME NEW T \in SUBSET Nat, T # {}
  PROVE  \E x \in T : \A y \in T : x <= y
<1> DEFINE R == OpToRel(<, Nat)
<1>1. IsWellFoundedOn(R, Nat)
  BY NatLessThanWellFounded
<1>2. PICK x \in T : \A y \in T : ~(<<y, x>> \in R)
  <2> HIDE DEF R
  <2> QED BY <1>1, WFMin
<1>3. \A y \in T : ~(y < x)
  BY <1>2 DEF OpToRel
<1> QED BY <1>3

\* A set of numbers up to N that holds 0 and, with a number, the next, is 0 .. N.
LEMMA CountUp ==
  ASSUME NEW N \in Nat, NEW T, 0 \in T,
         \A n \in 0 .. N : n \in T /\ n < N => n + 1 \in T
  PROVE  \A n \in 0 .. N : n \in T
<1> SUFFICES ASSUME NEW k \in 0 .. N, k \notin T PROVE FALSE
  OBVIOUS
<1> DEFINE U == (0 .. N) \ T
<1>1. PICK x \in U : \A y \in U : x <= y
  <2>1. U \in SUBSET Nat /\ U # {}
    OBVIOUS
  <2> HIDE DEF U
  <2> QED BY <2>1, LeastNumber
<1>2. x - 1 \in 0 .. N /\ x - 1 < N
  BY <1>1
<1>3. x - 1 \in T
  BY <1>1, <1>2
<1>4. (x - 1) + 1 \in T
  BY <1>2, <1>3
<1> QED BY <1>1, <1>4

-----------------------------------------------------------------------------
(* The walk and the search are well defined.                               *)

Mem == [head : [Unit -> Word], tail : [Unit -> Word], brk : Unit, rover : Unit]

\* The equations of the walk.
LEMMA WalkDef ==
  ASSUME MaxUnits \in Nat, NEW m
  PROVE  Walk(m) = [n \in 0 .. MaxUnits |->
                      IF n = 0 THEN heap_listp ELSE Onward(m, Walk(m)[n - 1])]
<1> DEFINE Is(f, k) == f = [n \in 0 .. k |->
                              IF n = 0 THEN heap_listp ELSE Onward(m, f[n - 1])]
           T == {k \in Nat : \E f : Is(f, k)}
<1>1. 0 \in T
  <2>1. Is([n \in 0 .. 0 |-> heap_listp], 0)
    OBVIOUS
  <2> QED BY <2>1
<1>2. ASSUME NEW k \in 0 .. MaxUnits, k \in T
      PROVE  k + 1 \in T
  <2>1. PICK f : Is(f, k)
    BY <1>2
  <2> DEFINE g == [n \in 0 .. k + 1 |-> IF n <= k THEN f[n] ELSE Onward(m, f[k])]
  <2>2. \A n \in 0 .. k + 1 : g[n] = IF n = 0 THEN heap_listp ELSE Onward(m, g[n - 1])
    <3>1. ASSUME NEW n \in 0 .. k
          PROVE  f[n] = IF n = 0 THEN heap_listp ELSE Onward(m, f[n - 1])
      BY <2>1, <3>1
    <3> HIDE DEF Is
    <3>2. ASSUME NEW n \in 0 .. k, n # 0
          PROVE  n - 1 \in 0 .. k /\ n - 1 \in 0 .. k + 1 /\ n \in 0 .. k + 1
      BY <3>2
    <3>3. ASSUME NEW n \in 0 .. k
          PROVE  g[n] = f[n]
      OBVIOUS
    <3>4. g[k + 1] = Onward(m, f[k]) /\ (k + 1) - 1 = k /\ k \in 0 .. k /\ k + 1 # 0
      OBVIOUS
    <3>5. \A n \in 0 .. k + 1 : n \in 0 .. k \/ n = k + 1
      OBVIOUS
    <3> HIDE DEF g
    <3> QED BY <3>1, <3>2, <3>3, <3>4, <3>5
  <2>3. Is(g, k + 1)
    <3>1. g = [n \in 0 .. k + 1 |-> g[n]]
      OBVIOUS
    <3> HIDE DEF g
    <3> QED BY <2>2, <3>1
  <2>4. k + 1 \in Nat
    OBVIOUS
  <2> QED BY <2>3, <2>4
<1>3. MaxUnits \in T
  <2> HIDE DEF T
  <2>1. \A n \in 0 .. MaxUnits : n \in T
    BY <1>1, <1>2, CountUp
  <2> QED BY <2>1
<1>4. \E f : Is(f, MaxUnits)
  BY <1>3
<1> QED BY <1>4 DEF Walk

-----------------------------------------------------------------------------
(* Tilings.                                                                *)

\* The blocks at B lie one behind the other from the prologue to the epilogue,
\* and the words around them agree.
Tiled(m, B) ==
  /\ B \subseteq Unit /\ heap_listp \in B
  /\ m.head[heap_listp] = content(1, TRUE)
  /\ m.head[m.brk] = content(0, TRUE)
  /\ \A b \in B :
       /\ m.head[b] \in Tag /\ m.head[b].size > 0
       /\ b # heap_listp => m.head[b].size >= 2
       /\ NEXT_BLKP(m, b) \in B \cup {m.brk}
       /\ Footer(m, b) = m.head[b]
       /\ \A a \in B : a <= b \/ NEXT_BLKP(m, b) <= a
       /\ b < m.brk
  /\ \A b \in (B \cup {m.brk}) \ {heap_listp} : \E a \in B : NEXT_BLKP(m, a) = b

\* The walk goes from block to block and stays at the epilogue.
LEMMA OnwardFacts ==
  ASSUME NEW m \in Mem, NEW B, Tiled(m, B)
  PROVE  /\ \A b \in B : Onward(m, b) = NEXT_BLKP(m, b)
         /\ Onward(m, m.brk) = m.brk
<1>1. ASSUME NEW b \in B
      PROVE  Onward(m, b) = NEXT_BLKP(m, b)
  <2>1. m.head[b] \in Tag /\ m.head[b].size > 0 /\ b < m.brk
    BY DEF Tiled
  <2>2. m.head[b] \notin Name
    BY <2>1, HeapAssumption
  <2>3. b \in Int /\ m.brk \in Int /\ m.head[b].size \in Int
    BY <2>1 DEF Tiled, Mem, Unit, Tag
  <2> QED BY <2>1, <2>2, <2>3 DEF Onward
<1>2. Onward(m, m.brk) = m.brk
  BY DEF Tiled, Onward, content
<1> QED BY <1>1, <1>2

\* The walk finds the tiling, which is therefore the only one.
LEMMA WalkTiles ==
  ASSUME NEW m \in Mem, NEW B, Tiled(m, B)
  PROVE  /\ Visited(m) = B \cup {m.brk}
         /\ Blocks(m) = B
         /\ m.brk \in Visited(m)
<1> DEFINE w == Walk(m)
<1>1. /\ MaxUnits \in Nat /\ m.brk \in 1 .. MaxUnits
      /\ \A b \in B : b \in 1 .. MaxUnits /\ b < m.brk /\ m.head[b].size \in Nat \ {0}
      /\ heap_listp = 1 /\ 1 \in B
  BY HeapAssumption DEF Tiled, Mem, Unit, Tag, heap_listp
<1>2. /\ w[0] = 1
      /\ \A n \in 0 .. MaxUnits : n < MaxUnits => w[n + 1] = Onward(m, w[n])
  <2>1. w = [n \in 0 .. MaxUnits |-> IF n = 0 THEN heap_listp ELSE Onward(m, w[n - 1])]
    BY <1>1, WalkDef
  <2> HIDE DEF w
  <2>2. w[0] = 1
    BY <1>1, <2>1
  <2>3. ASSUME NEW n \in 0 .. MaxUnits, n < MaxUnits
        PROVE  w[n + 1] = Onward(m, w[n])
    <3>1. n + 1 \in 0 .. MaxUnits /\ n + 1 # 0 /\ (n + 1) - 1 = n
      BY <1>1, <2>3
    <3> QED BY <2>1, <3>1
  <2> QED BY <2>2, <2>3
<1> HIDE DEF w
<1>3. \A n \in 0 .. MaxUnits : w[n] \in B \cup {m.brk} /\ (w[n] = m.brk \/ w[n] >= n + 1)
  <2> DEFINE T == {n \in 0 .. MaxUnits : w[n] \in B \cup {m.brk}
                                         /\ (w[n] = m.brk \/ w[n] >= n + 1)}
  <2>1. 0 \in T
    BY <1>1, <1>2
  <2>2. ASSUME NEW n \in 0 .. MaxUnits, n \in T, n < MaxUnits
        PROVE  n + 1 \in T
    <3>1. n + 1 \in 0 .. MaxUnits /\ w[n + 1] = Onward(m, w[n])
      BY <1>1, <1>2, <2>2
    <3>2. CASE w[n] = m.brk
      BY <3>1, <3>2, OnwardFacts
    <3>3. CASE w[n] \in B /\ w[n] >= n + 1
      <4>1. w[n + 1] = w[n] + m.head[w[n]].size /\ w[n + 1] \in B \cup {m.brk}
        <5>1. w[n + 1] = NEXT_BLKP(m, w[n])
          BY <3>1, <3>3, OnwardFacts
        <5>2. NEXT_BLKP(m, w[n]) \in B \cup {m.brk}
          BY <3>3 DEF Tiled
        <5> QED BY <5>1, <5>2 DEF NEXT_BLKP
      <4>2. m.head[w[n]].size \in Nat \ {0} /\ w[n] \in Int
        BY <1>1, <3>3
      <4>3. w[n + 1] >= (n + 1) + 1
        BY <1>1, <3>3, <4>1, <4>2
      <4> QED BY <3>1, <4>1, <4>3
    <3> QED BY <2>2, <3>2, <3>3
  <2> HIDE DEF T
  <2>3. \A n \in 0 .. MaxUnits : n \in T
    BY <1>1, <2>1, <2>2, CountUp
  <2> QED BY <2>3 DEF T
<1>4. Visited(m) = {w[n] : n \in 0 .. MaxUnits}
  BY DEF Visited, w
<1>5. B \cup {m.brk} \subseteq Visited(m)
  <2> DEFINE U == (B \cup {m.brk}) \ Visited(m)
  <2> SUFFICES ASSUME U # {} PROVE FALSE
    OBVIOUS
  <2>1. PICK b \in U : \A y \in U : b <= y
    <3>1. U \in SUBSET Nat
      BY <1>1
    <3> HIDE DEF U
    <3> QED BY <3>1, LeastNumber
  <2>2. b # 1
    BY <1>1, <1>2, <1>4
  <2>3. PICK a \in B : NEXT_BLKP(m, a) = b
    BY <1>1, <2>2 DEF Tiled
  <2>4. a < b /\ a < m.brk
    BY <1>1, <2>3 DEF NEXT_BLKP
  <2>5. a \in Visited(m)
    BY <1>1, <2>1, <2>4
  <2>6. PICK n \in 0 .. MaxUnits : w[n] = a
    BY <1>4, <2>5
  <2>7. n + 1 \in 0 .. MaxUnits /\ n < MaxUnits
    BY <1>1, <1>3, <2>4, <2>6
  <2>8. w[n + 1] = b
    BY <1>2, <2>3, <2>6, <2>7, OnwardFacts
  <2> QED BY <1>4, <2>7, <2>8
<1>6. Visited(m) = B \cup {m.brk}
  BY <1>3, <1>4, <1>5
<1>7. m.brk \notin B
  BY <1>1
<1> QED BY <1>6, <1>7 DEF Blocks

\* The equations of the search.
LEMMA SearchDef ==
  ASSUME MaxUnits \in Nat, NEW m, NEW asize
  PROVE  Search(m, asize) =
           [n \in 0 .. MaxUnits |->
              IF n = 0
              THEN [bp |-> m.rover, best |-> NoBlock, lookahead |-> -1, done |-> FALSE]
              ELSE Round(m, asize, Search(m, asize)[n - 1])]
<1> DEFINE start == [bp |-> m.rover, best |-> NoBlock, lookahead |-> -1, done |-> FALSE]
           Is(f, k) == f = [n \in 0 .. k |->
                              IF n = 0 THEN start ELSE Round(m, asize, f[n - 1])]
           T == {k \in Nat : \E f : Is(f, k)}
<1>1. 0 \in T
  <2>1. Is([n \in 0 .. 0 |-> start], 0)
    OBVIOUS
  <2> QED BY <2>1
<1>2. ASSUME NEW k \in 0 .. MaxUnits, k \in T
      PROVE  k + 1 \in T
  <2> HIDE DEF start
  <2>1. PICK f : Is(f, k)
    BY <1>2
  <2> DEFINE g == [n \in 0 .. k + 1 |-> IF n <= k THEN f[n] ELSE Round(m, asize, f[k])]
  <2>2. \A n \in 0 .. k + 1 : g[n] = IF n = 0 THEN start ELSE Round(m, asize, g[n - 1])
    <3>1. ASSUME NEW n \in 0 .. k
          PROVE  f[n] = IF n = 0 THEN start ELSE Round(m, asize, f[n - 1])
      BY <2>1, <3>1
    <3> HIDE DEF Is
    <3>2. ASSUME NEW n \in 0 .. k, n # 0
          PROVE  n - 1 \in 0 .. k /\ n - 1 \in 0 .. k + 1 /\ n \in 0 .. k + 1
      BY <3>2
    <3>3. ASSUME NEW n \in 0 .. k
          PROVE  g[n] = f[n]
      OBVIOUS
    <3>4. g[k + 1] = Round(m, asize, f[k]) /\ (k + 1) - 1 = k /\ k \in 0 .. k /\ k + 1 # 0
      OBVIOUS
    <3>5. \A n \in 0 .. k + 1 : n \in 0 .. k \/ n = k + 1
      OBVIOUS
    <3> HIDE DEF g
    <3> QED BY <3>1, <3>2, <3>3, <3>4, <3>5
  <2>3. Is(g, k + 1)
    <3>1. g = [n \in 0 .. k + 1 |-> g[n]]
      OBVIOUS
    <3> HIDE DEF g
    <3> QED BY <2>2, <3>1
  <2>4. k + 1 \in Nat
    OBVIOUS
  <2> QED BY <2>3, <2>4
<1>3. MaxUnits \in T
  <2> HIDE DEF T
  <2>1. \A n \in 0 .. MaxUnits : n \in T
    BY <1>1, <1>2, CountUp
  <2> QED BY <2>1
<1>4. \E f : Is(f, MaxUnits)
  BY <1>3
<1> QED BY <1>4 DEF Search

\* How far behind the rover a block is, around the end of the heap.
Behind(m, b) == IF b >= m.rover THEN b - m.rover ELSE b - m.rover + m.brk

\* The search goes to the block that is next behind the rover, until it is back.
LEMMA SuccessorFacts ==
  ASSUME NEW m \in Mem, NEW B, Tiled(m, B), m.rover \in B, NEW b \in B
  PROVE  /\ Successor(m, b) \in B
         /\ Successor(m, b) # m.rover =>
              /\ Behind(m, Successor(m, b)) > Behind(m, b)
              /\ \A c \in B : Behind(m, c) < Behind(m, Successor(m, b)) =>
                                Behind(m, c) < Behind(m, b) \/ c = b
         /\ Successor(m, b) = m.rover =>
              \A c \in B : Behind(m, c) < Behind(m, b) \/ c = b
<1> DEFINE nx == NEXT_BLKP(m, b)
<1>1. /\ m.brk \in Nat /\ 1 \in B
      /\ \A c \in B : c \in Nat /\ 1 <= c /\ c < m.brk
  BY DEF Tiled, Mem, Unit, heap_listp
<1>2. /\ nx \in B \cup {m.brk} /\ b < nx
      /\ \A c \in B : c <= b \/ nx <= c
  <2>1. m.head[b].size \in Nat /\ m.head[b].size > 0 /\ b \in Nat
    BY <1>1 DEF Tiled, Tag
  <2>2. b < nx
    BY <2>1 DEF NEXT_BLKP
  <2> QED BY <2>2 DEF Tiled
<1>3. Successor(m, b) = IF nx = m.brk THEN 1 ELSE nx
  <2>1. nx = m.brk => m.head[nx].size = 0
    BY DEF Tiled, content
  <2>2. nx # m.brk => m.head[nx].size # 0
    BY <1>2 DEF Tiled, Tag
  <2> QED BY <2>1, <2>2 DEF Successor, heap_listp
<1> HIDE DEF nx
<1>4. \A c \in B : Behind(m, c) = IF c >= m.rover THEN c - m.rover ELSE c - m.rover + m.brk
  BY DEF Behind
<1>5. CASE nx = m.brk
  BY <1>1, <1>2, <1>3, <1>4, <1>5
<1>6. CASE nx # m.brk
  <2>1. nx \in B /\ Successor(m, b) = nx
    BY <1>2, <1>3, <1>6
  <2>2. CASE b >= m.rover
    BY <1>1, <1>2, <1>4, <2>1, <2>2
  <2>3. CASE b < m.rover
    BY <1>1, <1>2, <1>4, <2>1, <2>3
  <2> QED BY <1>1, <2>2, <2>3
<1> QED BY <1>5, <1>6

\* No block is the null pointer.
LEMMA NoBlockFacts == \A u \in Unit : u # NoBlock
BY HeapAssumption

\* How far a block is behind the rover is a number below the end of the heap.
LEMMA BehindFacts ==
  ASSUME NEW m \in Mem, NEW B, Tiled(m, B), m.rover \in B, NEW b \in B
  PROVE  Behind(m, b) \in 0 .. m.brk - 1
<1>1. /\ b \in Int /\ m.rover \in Int /\ m.brk \in Int
      /\ 1 <= b /\ b < m.brk /\ 1 <= m.rover /\ m.rover < m.brk
  BY DEF Tiled, Mem, Unit
<1>2. CASE b >= m.rover
  BY <1>1, <1>2 DEF Behind
<1>3. CASE ~(b >= m.rover)
  BY <1>1, <1>3 DEF Behind
<1> QED BY <1>2, <1>3

\* What the search knows after n rounds.
Searched(m, B, asize, n, s) ==
  /\ s.bp \in B
  /\ s.done \in BOOLEAN
  /\ s.best \in B \cup {NoBlock}
  /\ s.best # NoBlock => Fits(m, s.best, asize)
  /\ ~s.done => /\ Behind(m, s.bp) >= n
                /\ s.best = NoBlock =>
                     \A b \in B : Behind(m, b) < Behind(m, s.bp) => ~Fits(m, b, asize)
  /\ s.done /\ s.best = NoBlock => \A b \in B : ~Fits(m, b, asize)

\* A round goes one block further.
LEMMA RoundFacts ==
  ASSUME NEW m \in Mem, NEW B, Tiled(m, B), m.rover \in B, NEW asize,
         NEW n \in Nat, NEW s, Searched(m, B, asize, n, s)
  PROVE  Searched(m, B, asize, n + 1, Round(m, asize, s))
<1> DEFINE nx == Successor(m, s.bp)
           r == Round(m, asize, s)
           first == s.best = NoBlock
           better == /\ Fits(m, s.bp, asize)
                     /\ first \/ m.head[s.bp].size < m.head[s.best].size
           best_bp == IF better THEN s.bp ELSE s.best
           look == IF first /\ better THEN IF asize <= SmallAsize THEN FarLook ELSE NearLook
                   ELSE s.lookahead
           exact == Fits(m, s.bp, asize) /\ m.head[s.bp].size = asize
<1>1. r = IF s.done THEN s
          ELSE IF exact THEN [s EXCEPT !.best = s.bp, !.done = TRUE]
          ELSE [bp |-> nx, best |-> best_bp,
                lookahead |-> IF best_bp = NoBlock THEN look ELSE look - 1,
                done |-> (best_bp # NoBlock /\ look = 0) \/ nx = m.rover]
  BY DEF Round
<1>2. s.bp \in B /\ nx \in B /\ \A b \in B : b # NoBlock
  <2>1. s.bp \in B
    BY DEF Searched
  <2>2. nx \in B
    BY <2>1, SuccessorFacts
  <2>3. \A b \in B : b \in Unit
    BY DEF Tiled
  <2> QED BY <2>1, <2>2, <2>3, NoBlockFacts
<1>3. CASE s.done
  BY <1>1, <1>3 DEF Searched
<1>4. CASE ~s.done /\ exact
  <2>1. r = [s EXCEPT !.best = s.bp, !.done = TRUE]
    BY <1>1, <1>4
  <2>2. r.bp = s.bp /\ (r.best = s.bp \/ r.best = s.best)
    BY <2>1
  <2> QED BY <1>1, <1>2, <1>4, <2>1 DEF Searched
<1>5. CASE ~s.done /\ ~exact
  <2>1. /\ r.bp = nx /\ r.best = best_bp
        /\ r.done <=> ((best_bp # NoBlock /\ look = 0) \/ nx = m.rover)
        /\ r.done \in BOOLEAN
    <3> HIDE DEF r, nx, best_bp, look, exact
    <3>1. r = [bp |-> nx, best |-> best_bp,
               lookahead |-> IF best_bp = NoBlock THEN look ELSE look - 1,
               done |-> (best_bp # NoBlock /\ look = 0) \/ nx = m.rover]
      BY <1>1, <1>5
    <3> QED BY <3>1
  <2>2. best_bp \in B \cup {NoBlock} /\ (best_bp # NoBlock => Fits(m, best_bp, asize))
    BY <1>2 DEF Searched
  <2>3. best_bp = NoBlock =>
          /\ ~Fits(m, s.bp, asize)
          /\ \A b \in B : Behind(m, b) < Behind(m, s.bp) => ~Fits(m, b, asize)
    BY <1>2, <1>5 DEF Searched
  <2>4. r.done \in BOOLEAN
    BY <2>1
  <2> HIDE DEF nx, r, best_bp, look
  <2>5. ASSUME ~r.done
        PROVE  /\ Behind(m, nx) >= n + 1
               /\ best_bp = NoBlock =>
                    \A b \in B : Behind(m, b) < Behind(m, nx) => ~Fits(m, b, asize)
    <3>1. nx # m.rover
      BY <2>1, <2>5
    <3>2. /\ Behind(m, nx) > Behind(m, s.bp)
          /\ \A c \in B : Behind(m, c) < Behind(m, nx) =>
                            Behind(m, c) < Behind(m, s.bp) \/ c = s.bp
      BY <1>2, <3>1, SuccessorFacts DEF nx
    <3>3. Behind(m, nx) \in Int /\ Behind(m, s.bp) \in Int /\ Behind(m, s.bp) >= n
      <4>1. m.brk \in Int
        BY DEF Mem, Unit
      <4>2. Behind(m, nx) \in 0 .. m.brk - 1 /\ Behind(m, s.bp) \in 0 .. m.brk - 1
        BY <1>2, BehindFacts
      <4> QED BY <1>5, <4>1, <4>2 DEF Searched
    <3> QED BY <2>3, <3>2, <3>3
  <2>6. ASSUME r.done, best_bp = NoBlock
        PROVE  \A b \in B : ~Fits(m, b, asize)
    <3>1. nx = m.rover
      BY <2>1, <2>6
    <3>2. \A c \in B : Behind(m, c) < Behind(m, s.bp) \/ c = s.bp
      BY <1>2, <3>1, SuccessorFacts DEF nx
    <3> QED BY <2>3, <2>6, <3>2
  <2>7. Searched(m, B, asize, n + 1, r)
    BY <1>2, <2>1, <2>2, <2>4, <2>5, <2>6 DEF Searched
  <2> QED BY <2>7 DEF r
<1> QED BY <1>3, <1>4, <1>5 DEF Searched

\* find_fit finds a block that is large enough if there is one.
LEMMA FitFacts ==
  ASSUME NEW m \in Mem, NEW B, Tiled(m, B), m.rover \in B, NEW asize
  PROVE  LET fit == find_fit(m, asize)
         IN  IF fit = NoBlock THEN \A b \in B : ~Fits(m, b, asize)
             ELSE fit \in B /\ Fits(m, fit, asize)
<1> DEFINE s == Search(m, asize)
           start == [bp |-> m.rover, best |-> NoBlock, lookahead |-> -1, done |-> FALSE]
<1>1. MaxUnits \in Nat
  BY HeapAssumption
<1>2. s = [n \in 0 .. MaxUnits |-> IF n = 0 THEN start ELSE Round(m, asize, s[n - 1])]
  BY <1>1, SearchDef
<1>3. Searched(m, B, asize, 0, start)
  <2>1. m.rover \in Int /\ m.brk \in Int
    BY DEF Mem, Unit
  <2>2. Behind(m, m.rover) = 0
    BY <2>1 DEF Behind
  <2>3. \A b \in B : Behind(m, b) \in 0 .. m.brk - 1
    BY BehindFacts
  <2>4. \A b \in B : ~(Behind(m, b) < 0)
    BY <2>1, <2>3
  <2> QED BY <2>2, <2>4 DEF Searched
<1> HIDE DEF s, start
<1>4. \A n \in 0 .. MaxUnits : Searched(m, B, asize, n, s[n])
  <2> DEFINE T == {n \in 0 .. MaxUnits : Searched(m, B, asize, n, s[n])}
  <2>1. 0 \in T
    BY <1>1, <1>2, <1>3
  <2>2. ASSUME NEW n \in 0 .. MaxUnits, n \in T, n < MaxUnits
        PROVE  n + 1 \in T
    <3>1. n + 1 \in 0 .. MaxUnits /\ n + 1 # 0 /\ (n + 1) - 1 = n /\ n \in Nat
      BY <1>1, <2>2
    <3>2. s[n + 1] = Round(m, asize, s[n])
      BY <1>2, <3>1
    <3>3. Searched(m, B, asize, n + 1, Round(m, asize, s[n]))
      BY <2>2, <3>1, RoundFacts
    <3> QED BY <3>1, <3>2, <3>3
  <2> HIDE DEF T
  <2>3. \A n \in 0 .. MaxUnits : n \in T
    BY <1>1, <2>1, <2>2, CountUp
  <2> QED BY <2>3 DEF T
<1>5. Searched(m, B, asize, MaxUnits, s[MaxUnits])
  BY <1>1, <1>4
<1>6. s[MaxUnits].done
  <2> SUFFICES ASSUME ~s[MaxUnits].done PROVE FALSE
    OBVIOUS
  <2>1. s[MaxUnits].bp \in B /\ Behind(m, s[MaxUnits].bp) >= MaxUnits
    BY <1>5 DEF Searched
  <2>2. Behind(m, s[MaxUnits].bp) \in 0 .. m.brk - 1
    BY <2>1, BehindFacts
  <2>3. m.brk \in 1 .. MaxUnits
    BY DEF Mem, Unit
  <2> QED BY <1>1, <2>1, <2>2, <2>3
<1>7. find_fit(m, asize) = s[MaxUnits].best
  BY DEF find_fit, s
<1>8. \A b \in B : b # NoBlock
  BY NoBlockFacts DEF Tiled
<1> QED BY <1>5, <1>6, <1>7, <1>8 DEF Searched

-----------------------------------------------------------------------------
(* Writing tags.                                                           *)

\* A word outside the heap is not written.
LEMMA PutHeaderFacts ==
  ASSUME NEW m \in Mem, NEW b, NEW w \in Word
  PROVE  /\ PutHeader(m, b, w) \in Mem
         /\ \A u \in Unit : PutHeader(m, b, w).head[u] = IF u = b THEN w ELSE m.head[u]
         /\ PutHeader(m, b, w).tail = m.tail
         /\ PutHeader(m, b, w).brk = m.brk
         /\ PutHeader(m, b, w).rover = m.rover
BY DEF PutHeader, Mem

\* Nor is a footer whose place is outside the heap.
LEMMA PutFooterFacts ==
  ASSUME NEW m \in Mem, NEW b, NEW w \in Word
  PROVE  /\ PutFooter(m, b, w) \in Mem
         /\ \A u \in Unit : PutFooter(m, b, w).tail[u] =
                               IF u = NEXT_BLKP(m, b) THEN w ELSE m.tail[u]
         /\ PutFooter(m, b, w).head = m.head
         /\ PutFooter(m, b, w).brk = m.brk
         /\ PutFooter(m, b, w).rover = m.rover
BY DEF PutFooter, Mem

\* Headers and footers of a block.
LEMMA PutBlockFacts ==
  ASSUME NEW m \in Mem, NEW b \in Unit, NEW w \in Tag
  PROVE  /\ PutBlock(m, b, w) \in Mem
         /\ \A u \in Unit : PutBlock(m, b, w).head[u] = IF u = b THEN w ELSE m.head[u]
         /\ \A u \in Unit : PutBlock(m, b, w).tail[u] =
                               IF u = b + w.size THEN w ELSE m.tail[u]
         /\ PutBlock(m, b, w).brk = m.brk
         /\ PutBlock(m, b, w).rover = m.rover
<1> DEFINE h == PutHeader(m, b, w)
<1>1. w \in Word
  BY DEF Word
<1>2. /\ h \in Mem /\ h.tail = m.tail
      /\ \A u \in Unit : h.head[u] = IF u = b THEN w ELSE m.head[u]
      /\ h.brk = m.brk /\ h.rover = m.rover
  BY <1>1, PutHeaderFacts
<1>3. h.head[b] = w
  BY <1>2
<1>4. PutBlock(m, b, w) = PutFooter(h, b, w)
  BY DEF PutBlock
<1> HIDE DEF h
<1>5. NEXT_BLKP(h, b) = b + w.size
  BY <1>3 DEF NEXT_BLKP
<1> QED BY <1>1, <1>2, <1>4, <1>5, PutFooterFacts

\* What a tiling says of a block, as numbers.
LEMMA TiledFacts ==
  ASSUME NEW m \in Mem, NEW B, Tiled(m, B), NEW b \in B
  PROVE  /\ b \in Unit /\ b \in Nat /\ m.brk \in Unit /\ m.brk \in Nat
         /\ 1 <= b /\ b < m.brk /\ 1 \in B
         /\ m.head[b] \in Tag /\ m.head[b].size \in Nat /\ m.head[b].size > 0
         /\ m.head[b].alloc \in BOOLEAN
         /\ b # 1 => m.head[b].size >= 2
         /\ NEXT_BLKP(m, b) = b + m.head[b].size
         /\ NEXT_BLKP(m, b) \in B \cup {m.brk}
         /\ NEXT_BLKP(m, b) \in Unit /\ NEXT_BLKP(m, b) \in Nat
         /\ b < NEXT_BLKP(m, b) /\ NEXT_BLKP(m, b) <= m.brk
         /\ m.tail[NEXT_BLKP(m, b)] = m.head[b]
         /\ \A a \in B : a <= b \/ NEXT_BLKP(m, b) <= a
         /\ \A a \in B : NEXT_BLKP(m, a) = NEXT_BLKP(m, b) => a = b
<1>1. /\ b \in Unit /\ b \in Nat /\ m.brk \in Unit /\ m.brk \in Nat
      /\ 1 <= b /\ b < m.brk /\ 1 \in B
  BY HeapAssumption DEF Tiled, Mem, Unit, heap_listp
<1>2. /\ m.head[b] \in Tag /\ m.head[b].size \in Nat /\ m.head[b].size > 0
      /\ m.head[b].alloc \in BOOLEAN
      /\ b # 1 => m.head[b].size >= 2
  BY HeapAssumption DEF Tiled, Tag, heap_listp
<1>3. /\ NEXT_BLKP(m, b) = b + m.head[b].size
      /\ NEXT_BLKP(m, b) \in B \cup {m.brk}
      /\ m.tail[NEXT_BLKP(m, b)] = m.head[b]
      /\ \A a \in B : a <= b \/ NEXT_BLKP(m, b) <= a
  BY DEF Tiled, NEXT_BLKP, Footer
<1>4. \A a \in B : a \in Unit /\ a \in Nat /\ a < m.brk /\ m.head[a].size \in Nat /\ m.head[a].size > 0
  BY HeapAssumption DEF Tiled, Unit, Tag
<1>5. /\ NEXT_BLKP(m, b) \in Unit /\ NEXT_BLKP(m, b) \in Nat
      /\ b < NEXT_BLKP(m, b) /\ NEXT_BLKP(m, b) <= m.brk
  BY <1>1, <1>2, <1>3, <1>4
<1>6. ASSUME NEW a \in B, NEXT_BLKP(m, a) = NEXT_BLKP(m, b)
      PROVE  a = b
  <2>1. (b <= a \/ NEXT_BLKP(m, a) <= b) /\ (a <= b \/ NEXT_BLKP(m, b) <= a)
    BY DEF Tiled
  <2>2. a < NEXT_BLKP(m, a) /\ a \in Nat
    BY <1>4 DEF NEXT_BLKP
  <2> QED BY <1>1, <1>5, <1>6, <2>1, <2>2
<1> QED BY <1>1, <1>2, <1>3, <1>5, <1>6

\* The blocks outside a region, and those in front of it.
Outside(B, a, z) == {b \in B : b <= a \/ z <= b}

\* Several blocks become one: its outer tags are written.
LEMMA MergeTiled ==
  ASSUME NEW m \in Mem, NEW B, Tiled(m, B),
         NEW a \in B, NEW last \in B, a # 1, a <= last,
         NEW m2 \in Mem, NEW w \in Tag, w.size = NEXT_BLKP(m, last) - a,
         m2.brk = m.brk,
         m2.head[a] = w, m2.tail[NEXT_BLKP(m, last)] = w,
         \A u \in (B \cup {m.brk}) \ {a} : m2.head[u] = m.head[u],
         \A u \in (B \cup {m.brk}) \ {NEXT_BLKP(m, last)} : m2.tail[u] = m.tail[u]
  PROVE  Tiled(m2, Outside(B, a, NEXT_BLKP(m, last)))
<1> DEFINE z == NEXT_BLKP(m, last)
           B2 == Outside(B, a, z)
<1>1. /\ z \in B \cup {m.brk} /\ z \in Nat /\ last < z /\ z <= m.brk /\ m.brk \in Nat
      /\ a \in Nat /\ last \in Nat
  BY TiledFacts
<1>2. a < z /\ z - a >= 2
  <2>1. a <= last /\ (last <= a \/ NEXT_BLKP(m, a) <= last)
    BY TiledFacts
  <2>2. /\ NEXT_BLKP(m, a) = a + m.head[a].size /\ m.head[a].size \in Nat
        /\ m.head[a].size >= 2
    BY TiledFacts
  <2>3. CASE last = a
    BY <1>1, <2>2, <2>3
  <2>4. CASE last # a
    BY <1>1, <2>1, <2>2, <2>4
  <2> QED BY <2>3, <2>4
<1> HIDE DEF z
<1>3. B2 \subseteq Unit /\ heap_listp \in B2
  <2>1. 1 \in B
    BY TiledFacts
  <2>2. 1 <= a
    BY TiledFacts
  <2> QED BY <2>1, <2>2 DEF Outside, Tiled, heap_listp
<1>4. m2.head[heap_listp] = content(1, TRUE) /\ m2.head[m2.brk] = content(0, TRUE)
  <2>1. heap_listp \in B /\ heap_listp # a /\ m.brk # a
    BY <1>1, <1>2 DEF Tiled, heap_listp
  <2> QED BY <2>1 DEF Tiled
<1>5. NEXT_BLKP(m2, a) = z
  BY <1>1 DEF NEXT_BLKP, z
<1>6. ASSUME NEW b \in B2, b # a
      PROVE  /\ m2.head[b] = m.head[b] /\ NEXT_BLKP(m2, b) = NEXT_BLKP(m, b)
             /\ NEXT_BLKP(m, b) \in B2 \cup {m.brk} /\ NEXT_BLKP(m, b) # z
             /\ m2.tail[NEXT_BLKP(m, b)] = m.tail[NEXT_BLKP(m, b)]
  <2>1. b \in B /\ (b < a \/ z <= b)
    BY <1>1, <1>6, TiledFacts DEF Outside
  <2>2. m2.head[b] = m.head[b] /\ NEXT_BLKP(m2, b) = NEXT_BLKP(m, b)
    BY <1>6, <2>1 DEF NEXT_BLKP
  <2>3. /\ NEXT_BLKP(m, b) \in B \cup {m.brk} /\ b < NEXT_BLKP(m, b)
        /\ NEXT_BLKP(m, b) \in Nat /\ b \in Nat
        /\ a <= b \/ NEXT_BLKP(m, b) <= a
    BY <2>1, TiledFacts
  <2>4. NEXT_BLKP(m, b) # z /\ (NEXT_BLKP(m, b) <= a \/ z <= NEXT_BLKP(m, b))
    BY <1>1, <1>2, <2>1, <2>3
  <2>5. NEXT_BLKP(m, b) \in B2 \cup {m.brk}
    BY <2>3, <2>4 DEF Outside
  <2>6. m2.tail[NEXT_BLKP(m, b)] = m.tail[NEXT_BLKP(m, b)]
    BY <2>3, <2>4 DEF z
  <2> QED BY <2>2, <2>4, <2>5, <2>6
<1>7. ASSUME NEW b \in B2
      PROVE  /\ m2.head[b] \in Tag /\ m2.head[b].size > 0
             /\ b # heap_listp => m2.head[b].size >= 2
             /\ NEXT_BLKP(m2, b) \in B2 \cup {m2.brk}
             /\ Footer(m2, b) = m2.head[b]
             /\ \A c \in B2 : c <= b \/ NEXT_BLKP(m2, b) <= c
             /\ b < m2.brk
  <2>1. CASE b = a
    <3>1. z \in B2 \cup {m2.brk}
      BY <1>1 DEF Outside
    <3>2. \A c \in B2 : c <= a \/ z <= c
      BY DEF Outside
    <3>3. m2.tail[z] = w /\ a < m.brk /\ w.size = z - a
      BY TiledFacts DEF z
    <3>4. w.size > 0 /\ w.size >= 2
      BY <1>1, <1>2, <3>3
    <3> QED BY <1>5, <2>1, <3>1, <3>2, <3>3, <3>4 DEF Footer
  <2>2. CASE b # a
    <3>1. b \in B /\ \A c \in B2 : c \in B
      BY DEF Outside
    <3>2. /\ m.head[b] \in Tag /\ m.head[b].size > 0
          /\ b # heap_listp => m.head[b].size >= 2
          /\ Footer(m, b) = m.head[b]
          /\ \A c \in B2 : c <= b \/ NEXT_BLKP(m, b) <= c
          /\ b < m.brk
      BY <3>1 DEF Tiled
    <3> QED BY <1>6, <2>2, <3>2 DEF Footer
  <2> QED BY <2>1, <2>2
<1>8. ASSUME NEW b \in (B2 \cup {m2.brk}) \ {heap_listp}
      PROVE  \E c \in B2 : NEXT_BLKP(m2, c) = b
  <2>1. PICK c \in B : NEXT_BLKP(m, c) = b
    BY DEF Tiled, Outside
  <2>2. /\ c < b /\ c \in Nat /\ b \in Nat /\ b <= m.brk
        /\ z \in B => z <= c \/ NEXT_BLKP(m, c) <= z
    BY <2>1, TiledFacts
  <2>3. CASE b <= a
    <3>1. c \in B2 /\ c # a
      BY <1>1, <2>2, <2>3 DEF Outside
    <3> QED BY <1>6, <2>1, <3>1
  <2>4. CASE b = z
    <3>1. a \in B2
      BY <1>1 DEF Outside
    <3> QED BY <1>5, <2>4, <3>1
  <2>5. CASE ~(b <= a) /\ b # z
    <3>1. z <= b
      BY <1>1, <2>2, <2>5 DEF Outside
    <3>2. z <= c
      BY <1>1, <2>1, <2>2, <2>5, <3>1
    <3>3. c \in B2 /\ c # a
      BY <1>1, <1>2, <2>2, <3>2 DEF Outside
    <3> QED BY <1>6, <2>1, <3>3
  <2> QED BY <2>3, <2>4, <2>5
<1>9. Tiled(m2, B2)
  BY <1>3, <1>4, <1>7, <1>8 DEF Tiled
<1> QED BY <1>9 DEF z

\* The tags of a block at a, with w1 units, and of a block behind it, at r, are
\* written where there was one block.
Cut(m, B, a, r, w1, w2, m2) ==
  /\ a \in B /\ a # 1 /\ m2 \in Mem /\ m2.brk = m.brk
  /\ w1 \in Tag /\ w2 \in Tag /\ w1.size >= 2 /\ w2.size >= 2
  /\ r = a + w1.size /\ m.head[a].size = w1.size + w2.size
  /\ m2.head[a] = w1 /\ m2.tail[r] = w1
  /\ m2.head[r] = w2 /\ m2.tail[NEXT_BLKP(m, a)] = w2
  /\ \A u \in (B \cup {m.brk}) \ {a} : m2.head[u] = m.head[u]
  /\ \A u \in (B \cup {m.brk}) \ {NEXT_BLKP(m, a)} : m2.tail[u] = m.tail[u]

\* A block becomes two.
LEMMA CutTiled ==
  ASSUME NEW m \in Mem, NEW B, Tiled(m, B), NEW a, NEW r, NEW w1, NEW w2, NEW m2,
         Cut(m, B, a, r, w1, w2, m2)
  PROVE  Tiled(m2, B \cup {r}) /\ r \notin B
<1>0. /\ a \in B /\ a # 1 /\ m2 \in Mem /\ m2.brk = m.brk
      /\ w1 \in Tag /\ w2 \in Tag /\ w1.size >= 2 /\ w2.size >= 2
      /\ r = a + w1.size /\ m.head[a].size = w1.size + w2.size
      /\ m2.head[a] = w1 /\ m2.tail[a + w1.size] = w1
      /\ m2.head[a + w1.size] = w2 /\ m2.tail[NEXT_BLKP(m, a)] = w2
      /\ \A u \in (B \cup {m.brk}) \ {a} : m2.head[u] = m.head[u]
      /\ \A u \in (B \cup {m.brk}) \ {NEXT_BLKP(m, a)} : m2.tail[u] = m.tail[u]
  BY DEF Cut
<1> USE <1>0
<1> DEFINE z == NEXT_BLKP(m, a)
           k == w1.size
           B2 == B \cup {a + k}
<1>1. /\ z \in B \cup {m.brk} /\ z \in Nat /\ z <= m.brk /\ m.brk \in Nat /\ a \in Nat
      /\ a < z /\ z = a + m.head[a].size /\ m.brk \in Unit /\ 1 \in B
      /\ \A c \in B : c <= a \/ z <= c
  BY TiledFacts
<1>2. k \in Nat /\ w2.size \in Nat /\ k >= 2 /\ w2.size >= 2 /\ (a + k) + w2.size = z
  <2>1. k \in Nat /\ w2.size \in Nat
    BY HeapAssumption DEF Tag
  <2> HIDE DEF k
  <2>2. w1.size = k
    BY DEF k
  <2> QED BY <1>1, <2>1, <2>2
<1> HIDE DEF z, k
<1>3. a < a + k /\ a + k < z /\ a + k \in Nat
  BY <1>1, <1>2
<1>4. a + k \in Unit /\ \A c \in B : c # a + k /\ c \in Nat
  <2>1. \A c \in B : c \in Nat
    BY TiledFacts
  <2>2. a + k \in Unit
    BY <1>1, <1>3, HeapAssumption DEF Unit
  <2> QED BY <1>1, <1>3, <2>1, <2>2
<1>5. B2 \subseteq Unit /\ heap_listp \in B2
  BY <1>4 DEF Tiled
<1>6. m2.head[heap_listp] = content(1, TRUE) /\ m2.head[m2.brk] = content(0, TRUE)
  <2>1. heap_listp \in B /\ heap_listp # a /\ m.brk # a
    BY <1>1 DEF Tiled, heap_listp
  <2> QED BY <2>1 DEF Tiled
<1>7. NEXT_BLKP(m2, a) = a + k /\ NEXT_BLKP(m2, a + k) = z
  BY <1>2 DEF NEXT_BLKP, k
<1>8. ASSUME NEW b \in B, b # a
      PROVE  /\ m2.head[b] = m.head[b] /\ NEXT_BLKP(m2, b) = NEXT_BLKP(m, b)
             /\ NEXT_BLKP(m, b) \in B \cup {m.brk} /\ NEXT_BLKP(m, b) # z
             /\ m2.tail[NEXT_BLKP(m, b)] = m.tail[NEXT_BLKP(m, b)]
             /\ a + k <= b \/ NEXT_BLKP(m, b) <= a + k
             /\ b < a \/ z <= b
  <2>1. m2.head[b] = m.head[b] /\ NEXT_BLKP(m2, b) = NEXT_BLKP(m, b)
    BY <1>8 DEF NEXT_BLKP
  <2>2. /\ NEXT_BLKP(m, b) \in B \cup {m.brk} /\ NEXT_BLKP(m, b) # z
    BY <1>8, TiledFacts DEF z
  <2>3. m2.tail[NEXT_BLKP(m, b)] = m.tail[NEXT_BLKP(m, b)]
    BY <2>2 DEF z
  <2>4. /\ a <= b \/ NEXT_BLKP(m, b) <= a
        /\ NEXT_BLKP(m, b) \in Nat /\ b \in Nat /\ (b <= a \/ z <= b)
    BY <1>1, TiledFacts
  <2>5. (a + k <= b \/ NEXT_BLKP(m, b) <= a + k) /\ (b < a \/ z <= b)
    BY <1>1, <1>3, <1>8, <2>4
  <2> QED BY <2>1, <2>2, <2>3, <2>5
<1>9. ASSUME NEW b \in B2
      PROVE  /\ m2.head[b] \in Tag /\ m2.head[b].size > 0
             /\ b # heap_listp => m2.head[b].size >= 2
             /\ NEXT_BLKP(m2, b) \in B2 \cup {m2.brk}
             /\ Footer(m2, b) = m2.head[b]
             /\ \A c \in B2 : c <= b \/ NEXT_BLKP(m2, b) <= c
             /\ b < m2.brk
  <2>1. CASE b = a
    <3>1. m2.head[a] = w1 /\ Footer(m2, a) = w1 /\ NEXT_BLKP(m2, a) = a + k
      BY <1>7 DEF Footer, k
    <3>2. \A c \in B2 : c <= a \/ a + k <= c
      BY <1>1, <1>2, <1>3, <1>4
    <3>3. a < m.brk /\ w1.size >= 2 /\ w1.size > 0
      BY <1>1, <1>2 DEF k
    <3> QED BY <2>1, <3>1, <3>2, <3>3
  <2>2. CASE b = a + k
    <3>1. m2.head[b] = w2 /\ Footer(m2, b) = w2 /\ NEXT_BLKP(m2, b) = z
      BY <1>7, <2>2 DEF Footer, k, z
    <3>2. \A c \in B2 : c <= a + k \/ z <= c
      BY <1>1, <1>2, <1>3, <1>4
    <3>3. a + k < m.brk /\ w2.size >= 2 /\ w2.size > 0
      BY <1>1, <1>2, <1>3
    <3> QED BY <1>1, <2>2, <3>1, <3>2, <3>3
  <2>3. CASE b # a /\ b # a + k
    <3>1. b \in B
      BY <2>3
    <3>2. /\ m.head[b] \in Tag /\ m.head[b].size > 0
          /\ b # heap_listp => m.head[b].size >= 2
          /\ Footer(m, b) = m.head[b]
          /\ \A c \in B : c <= b \/ NEXT_BLKP(m, b) <= c
          /\ b < m.brk
      BY <3>1 DEF Tiled
    <3>3. a + k <= b \/ NEXT_BLKP(m, b) <= a + k
      BY <1>8, <2>3, <3>1
    <3> QED BY <1>8, <2>3, <3>1, <3>2, <3>3 DEF Footer
  <2> QED BY <2>1, <2>2, <2>3
<1>10. ASSUME NEW b \in (B2 \cup {m2.brk}) \ {heap_listp}
       PROVE  \E c \in B2 : NEXT_BLKP(m2, c) = b
  <2>1. CASE b = a + k
    BY <1>7, <2>1
  <2>2. CASE b = z
    BY <1>7, <2>2
  <2>3. CASE b # a + k /\ b # z
    <3>1. PICK c \in B : NEXT_BLKP(m, c) = b
      BY <2>3 DEF Tiled
    <3>2. c # a
      BY <2>3, <3>1 DEF z
    <3> QED BY <1>8, <3>1, <3>2
  <2> QED BY <2>1, <2>2, <2>3
<1>11. Tiled(m2, B2)
  BY <1>5, <1>6, <1>9, <1>10 DEF Tiled
<1> QED BY <1>4, <1>11 DEF k

\* Only the tags count.
LEMMA SameTags ==
  ASSUME NEW m \in Mem, NEW B, Tiled(m, B), NEW m2, m2.brk = m.brk,
         \A u \in B \cup {m.brk} : m2.head[u] = m.head[u] /\ m2.tail[u] = m.tail[u]
  PROVE  Tiled(m2, B)
<1>1. \A b \in B : /\ m2.head[b] = m.head[b] /\ NEXT_BLKP(m2, b) = NEXT_BLKP(m, b)
                   /\ Footer(m2, b) = Footer(m, b)
  <2>1. \A b \in B : NEXT_BLKP(m, b) \in B \cup {m.brk}
    BY DEF Tiled
  <2> QED BY <2>1 DEF NEXT_BLKP, Footer
<1>2. m2.head[heap_listp] = content(1, TRUE) /\ m2.head[m2.brk] = content(0, TRUE)
  BY <1>1 DEF Tiled
<1>3. \A b \in (B \cup {m2.brk}) \ {heap_listp} : \E a \in B : NEXT_BLKP(m2, a) = b
  BY <1>1 DEF Tiled
<1> QED BY <1>1, <1>2, <1>3 DEF Tiled

\* A block behind the last one, over the old epilogue.
LEMMA GrowTiled ==
  ASSUME NEW m \in Mem, NEW B, Tiled(m, B),
         NEW m2 \in Mem, NEW w \in Tag, w.size >= 2, m2.brk = m.brk + w.size,
         m2.head[m.brk] = w, m2.tail[m2.brk] = w, m2.head[m2.brk] = content(0, TRUE),
         \A u \in B : m2.head[u] = m.head[u],
         \A u \in B \cup {m.brk} : m2.tail[u] = m.tail[u]
  PROVE  Tiled(m2, B \cup {m.brk})
<1> DEFINE B2 == B \cup {m.brk}
<1>1. /\ m.brk \in Unit /\ m.brk \in Nat /\ 1 \in B /\ m.brk # heap_listp /\ w.size \in Nat
      /\ \A c \in B : c \in Nat /\ c < m.brk
  <2>1. 1 \in B
    BY DEF Tiled, heap_listp
  <2>2. m.brk \in Unit /\ m.brk \in Nat /\ \A c \in B : c \in Nat /\ c < m.brk
    BY <2>1, TiledFacts
  <2>3. w.size \in Nat
    BY HeapAssumption DEF Tag
  <2> QED BY <2>1, <2>2, <2>3 DEF heap_listp
<1>2. B2 \subseteq Unit /\ heap_listp \in B2
  BY <1>1 DEF Tiled
<1>3. m2.head[heap_listp] = content(1, TRUE) /\ m2.head[m2.brk] = content(0, TRUE)
  BY DEF Tiled
<1>4. NEXT_BLKP(m2, m.brk) = m2.brk
  BY DEF NEXT_BLKP
<1>5. m.brk < m2.brk /\ m2.brk \in Nat
  BY <1>1
<1>6. ASSUME NEW b \in B
      PROVE  /\ m2.head[b] = m.head[b] /\ NEXT_BLKP(m2, b) = NEXT_BLKP(m, b)
             /\ NEXT_BLKP(m, b) \in B2 /\ NEXT_BLKP(m, b) <= m.brk
             /\ Footer(m2, b) = Footer(m, b)
  <2>1. m2.head[b] = m.head[b] /\ NEXT_BLKP(m2, b) = NEXT_BLKP(m, b)
    BY DEF NEXT_BLKP
  <2>2. NEXT_BLKP(m, b) \in B2 /\ NEXT_BLKP(m, b) <= m.brk
    BY TiledFacts
  <2> QED BY <2>1, <2>2 DEF Footer
<1>7. ASSUME NEW b \in B2
      PROVE  /\ m2.head[b] \in Tag /\ m2.head[b].size > 0
             /\ b # heap_listp => m2.head[b].size >= 2
             /\ NEXT_BLKP(m2, b) \in B2 \cup {m2.brk}
             /\ Footer(m2, b) = m2.head[b]
             /\ \A c \in B2 : c <= b \/ NEXT_BLKP(m2, b) <= c
             /\ b < m2.brk
  <2>1. CASE b = m.brk
    <3>1. Footer(m2, b) = w /\ m2.head[b] = w
      BY <1>4, <2>1 DEF Footer
    <3>2. \A c \in B2 : c <= m.brk
      BY <1>1
    <3> QED BY <1>1, <1>4, <1>5, <2>1, <3>1, <3>2
  <2>2. CASE b \in B
    <3>1. /\ m.head[b] \in Tag /\ m.head[b].size > 0
          /\ b # heap_listp => m.head[b].size >= 2
          /\ Footer(m, b) = m.head[b]
          /\ \A c \in B : c <= b \/ NEXT_BLKP(m, b) <= c
      BY <2>2 DEF Tiled
    <3>2. b < m2.brk
      BY <1>1, <1>5, <2>2
    <3> QED BY <1>6, <2>2, <3>1, <3>2
  <2> QED BY <2>1, <2>2
<1>8. ASSUME NEW b \in (B2 \cup {m2.brk}) \ {heap_listp}
      PROVE  \E c \in B2 : NEXT_BLKP(m2, c) = b
  <2>1. CASE b = m2.brk
    BY <1>4, <2>1
  <2>2. CASE b # m2.brk
    <3>1. PICK c \in B : NEXT_BLKP(m, c) = b
      BY <2>2 DEF Tiled
    <3> QED BY <1>6, <3>1
  <2> QED BY <2>1, <2>2
<1> QED BY <1>2, <1>3, <1>7, <1>8 DEF Tiled

-----------------------------------------------------------------------------
(* coalesce, extend_heap and place.                                        *)

\* A tag is what content makes of it.
LEMMA TagFacts ==
  /\ \A w \in Tag : w.size \in Nat /\ w.alloc \in BOOLEAN /\ w = content(w.size, w.alloc)
  /\ \A n \in 0 .. MaxUnits, x \in BOOLEAN :
       content(n, x) \in Tag /\ content(n, x).size = n /\ content(n, x).alloc = x
BY HeapAssumption DEF Tag, content

\* What coalesce does with the blocks from first to z, bp among them: they were
\* free, and are one block.
Coalesced(m, B, bp, first, z, m2, B2) ==
  /\ m2 \in Mem /\ m2.brk = m.brk /\ Tiled(m2, B2) /\ m2.rover \in B2
  /\ B2 = Outside(B, first, z)
  /\ first \in B \ {1} /\ first <= bp /\ NEXT_BLKP(m, bp) <= z
  /\ z \in B \cup {m.brk} /\ z = NEXT_BLKP(m2, first)
  /\ ~m2.head[first].alloc
  /\ \A b \in B : first <= b /\ b < z => ~m.head[b].alloc
  /\ \A u \in Unit \ {first} : m2.head[u] = m.head[u]
  /\ \A u \in Unit \ {z} : m2.tail[u] = m.tail[u]

\* coalesce makes one free block of bp and its free neighbours, the one in front
\* first where there is one.
LEMMA CoalesceFacts ==
  ASSUME NEW m \in Mem, NEW B, Tiled(m, B), m.rover \in B,
         NEW bp \in B, bp # 1, ~m.head[bp].alloc
  PROVE  /\ Merged(m, bp) \in B
         /\ \E z \in Nat : \E B2 :
              Coalesced(m, B, bp, Merged(m, bp), z, coalesce(m, bp), B2)
<1> DEFINE prev == PREV_BLKP(m, bp)
           nx == NEXT_BLKP(m, bp)
           prev_alloc == Footer(m, prev).alloc
           next_alloc == ~Free(m, nx)
           first == IF prev_alloc THEN bp ELSE prev
           last == IF next_alloc THEN bp ELSE nx
           size(b) == IF b = bp THEN 0 ELSE m.head[b].size
           w == content(size(first) + m.head[bp].size + size(last), FALSE)
           merged == IF prev_alloc /\ next_alloc THEN m
                     ELSE PutHeader(PutFooter(m, last, w), first, w)
           z == NEXT_BLKP(m, last)
           B2 == Outside(B, first, z)
<1>1. Merged(m, bp) = first /\ coalesce(m, bp) = MoveRover(merged, first)
  BY DEF Merged, coalesce
<1>2. PICK a \in B : NEXT_BLKP(m, a) = bp
  BY DEF Tiled, heap_listp
<1>3. /\ a \in Nat /\ a < bp /\ m.head[a].size \in Nat /\ a + m.head[a].size = bp
      /\ m.tail[bp] = m.head[a] /\ bp \in Nat /\ m.head[a].alloc \in BOOLEAN
      /\ m.head[bp].size \in Nat /\ nx = bp + m.head[bp].size /\ bp < nx
      /\ nx \in B \cup {m.brk} /\ \A b \in B : b <= bp \/ nx <= b
      /\ \A b \in B : (b <= a \/ bp <= b) /\ b \in Nat /\ b < m.brk
      /\ m.head[bp] \in Tag /\ m.brk \in Nat /\ m.brk \in Unit
  BY <1>2, TiledFacts
<1>4. prev = a
  BY <1>3 DEF PREV_BLKP
<1>5. prev_alloc = m.head[a].alloc
  BY <1>2, <1>3, <1>4 DEF Footer
<1>0. m.head[m.brk].alloc = TRUE /\ m.head[1].alloc = TRUE
  BY DEF Tiled, content, heap_listp
<1>6. next_alloc = m.head[nx].alloc /\ next_alloc \in BOOLEAN
  <2>1. m.head[nx].alloc \in BOOLEAN
    <3>1. CASE nx = m.brk
      BY <1>0, <3>1
    <3>2. CASE nx \in B
      BY <3>2, TiledFacts
    <3> QED BY <1>3, <3>1, <3>2
  <2> HIDE DEF nx
  <2> QED BY <2>1 DEF Free
<1>7. nx = m.brk => next_alloc
  BY <1>0, <1>6
<1> HIDE DEF prev, nx, prev_alloc, next_alloc
<1>8. /\ first \in {a, bp} /\ (first = a <=> ~prev_alloc)
      /\ last \in {bp, nx} /\ (last = nx <=> ~next_alloc) /\ last \in B
  BY <1>3, <1>4, <1>6, <1>7
<1>9. first \in B \ {1}
  BY <1>0, <1>2, <1>5, <1>8
<1>10. /\ z \in Nat /\ z \in B \cup {m.brk} /\ z <= m.brk /\ last < z /\ z \in Unit
       /\ m.head[last].size \in Nat /\ z = last + m.head[last].size
       /\ \A b \in B : b <= last \/ z <= b
  BY <1>8, TiledFacts
<1>11. size(first) + m.head[bp].size + size(last) = z - first
  BY <1>3, <1>8, <1>10
<1>12. first <= bp /\ bp <= last /\ nx <= z /\ first < z /\ first \in Unit
  BY <1>3, <1>8, <1>9, <1>10 DEF Tiled
<1>13. w \in Tag /\ w.size = z - first /\ ~w.alloc
  <2>1. z - first \in 0 .. MaxUnits
    BY <1>10, <1>12, HeapAssumption DEF Unit
  <2> QED BY <1>11, <2>1, TagFacts
<1>14. \A b \in B : first <= b /\ b < z => ~m.head[b].alloc
  <2>1. ASSUME NEW b \in B, first <= b, b < z
        PROVE  b = bp \/ (b = a /\ first = a) \/ (b = nx /\ last = nx)
    BY <1>3, <1>8, <1>10, <2>1
  <2> QED BY <1>5, <1>6, <1>8, <2>1
<1>15. /\ merged \in Mem /\ merged.brk = m.brk /\ merged.rover = m.rover
       /\ merged.head[first] = w /\ merged.tail[z] = w
       /\ \A u \in Unit \ {first} : merged.head[u] = m.head[u]
       /\ \A u \in Unit \ {z} : merged.tail[u] = m.tail[u]
  <2>1. CASE prev_alloc /\ next_alloc
    <3>1. first = bp /\ last = bp /\ z = nx /\ merged = m
      BY <1>8, <2>1 DEF nx
    <3>2. w = m.head[bp]
      <4>1. size(first) = 0 /\ size(last) = 0
        BY <3>1
      <4>2. size(first) + m.head[bp].size + size(last) = m.head[bp].size
        BY <1>3, <4>1
      <4>3. m.head[bp].alloc = FALSE
        BY <1>3, TagFacts
      <4>4. m.head[bp] = content(m.head[bp].size, FALSE)
        <5>1. m.head[bp] \in Tag
          BY <1>3
        <5>2. m.head[bp] = content(m.head[bp].size, m.head[bp].alloc)
          BY <5>1, TagFacts
        <5> QED BY <4>3, <5>2
      <4> QED BY <4>2, <4>4
    <3>3. m.tail[z] = m.head[bp]
      BY <3>1, TiledFacts
    <3> QED BY <3>1, <3>2, <3>3
  <2>2. CASE ~(prev_alloc /\ next_alloc)
    <3> HIDE DEF first, last, w, z
    <3> DEFINE f == PutFooter(m, last, w)
    <3>1. merged = PutHeader(f, first, w)
      BY <2>2
    <3>2. w \in Word
      BY <1>13 DEF Word
    <3>3. /\ f \in Mem /\ f.head = m.head /\ f.brk = m.brk /\ f.rover = m.rover
          /\ \A u \in Unit : f.tail[u] = IF u = z THEN w ELSE m.tail[u]
      BY <3>2, PutFooterFacts DEF z
    <3> HIDE DEF f, merged
    <3> QED BY <1>10, <1>12, <3>1, <3>2, <3>3, PutHeaderFacts
  <2> QED BY <2>1, <2>2
<1> HIDE DEF first, last, w, merged
<1>16. Tiled(merged, B2)
  <2>1. B \cup {m.brk} \subseteq Unit
    BY DEF Tiled, Mem
  <2>2. first # 1 /\ first <= last /\ first \in B
    BY <1>3, <1>8, <1>9, <1>12
  <2> QED BY <1>8, <1>13, <1>15, <2>1, <2>2, MergeTiled
<1>17. NEXT_BLKP(merged, first) = z
  BY <1>3, <1>8, <1>10, <1>13, <1>15 DEF NEXT_BLKP
<1>18. coalesce(m, bp) = [merged EXCEPT !.rover = IF first < m.rover /\ m.rover < z
                                                 THEN first ELSE m.rover]
  BY <1>1, <1>15, <1>17 DEF MoveRover
<1> DEFINE m2 == coalesce(m, bp)
<1>19. /\ m2 \in Mem /\ m2.head = merged.head /\ m2.tail = merged.tail /\ m2.brk = m.brk
       /\ m2.rover = IF first < m.rover /\ m.rover < z THEN first ELSE m.rover
  BY <1>12, <1>15, <1>18 DEF Mem
<1> HIDE DEF m2, z
<1>20. m2.rover \in B2
  <2>1. first \in B2
    BY <1>3, <1>8, <1>9 DEF Outside
  <2>2. m.rover \in Nat /\ first \in Nat
    BY <1>3, <1>8
  <2> QED BY <1>10, <1>19, <2>1, <2>2 DEF Outside
<1>21. Tiled(m2, B2)
  BY <1>15, <1>16, <1>19, SameTags
<1>22. NEXT_BLKP(m2, first) = z
  BY <1>17, <1>19 DEF NEXT_BLKP
<1>23. Coalesced(m, B, bp, first, z, m2, B2)
  BY <1>9, <1>10, <1>12, <1>13, <1>14, <1>15, <1>19, <1>20, <1>21, <1>22 DEF Coalesced, nx
<1> QED BY <1>1, <1>9, <1>10, <1>23 DEF m2

-----------------------------------------------------------------------------
(* Steps that rewrite the heap.                                            *)

\* Block b of m is in m2, with all that is in it.
Intact(m, m2, B2, b) ==
  /\ b \in B2 /\ m2.head[b] = m.head[b]
  /\ \A u \in Unit : b < u /\ u < NEXT_BLKP(m, b) =>
       m2.head[u] = m.head[u] /\ m2.tail[u] = m.tail[u]

\* But for the blocks of X, those in use stay what they are, and no other is
\* in use afterwards.
Rewritten(m, B, m2, B2, X) ==
  /\ m2 \in Mem /\ Tiled(m2, B2) /\ m2.rover \in B2
  /\ \A b \in B \ X : m.head[b].alloc => Intact(m, m2, B2, b)
  /\ \A b \in B2 \ X : m2.head[b].alloc => b \in B /\ m.head[b].alloc

\* Steps that rewrite the heap compose.
LEMMA RewrittenTwice ==
  ASSUME NEW m1, NEW m2, NEW m3, NEW B1, NEW B2, NEW B3, NEW X, NEW Y,
         Rewritten(m1, B1, m2, B2, X), Rewritten(m2, B2, m3, B3, Y)
  PROVE  Rewritten(m1, B1, m3, B3, X \cup Y)
<1>1. m3 \in Mem /\ Tiled(m3, B3) /\ m3.rover \in B3
  BY DEF Rewritten
<1>2. ASSUME NEW b \in B1 \ (X \cup Y), m1.head[b].alloc
      PROVE  Intact(m1, m3, B3, b)
  <2>1. Intact(m1, m2, B2, b)
    BY <1>2 DEF Rewritten
  <2>2. b \in B2 \ Y /\ m2.head[b] = m1.head[b]
    BY <1>2, <2>1 DEF Intact
  <2>3. Intact(m2, m3, B3, b)
    BY <1>2, <2>2 DEF Rewritten
  <2>4. NEXT_BLKP(m2, b) = NEXT_BLKP(m1, b)
    BY <2>2 DEF NEXT_BLKP
  <2> QED BY <2>1, <2>3, <2>4 DEF Intact
<1>3. ASSUME NEW b \in B3 \ (X \cup Y), m3.head[b].alloc
      PROVE  b \in B1 /\ m1.head[b].alloc
  BY <1>3 DEF Rewritten
<1> QED BY <1>1, <1>2, <1>3 DEF Rewritten

\* The blocks from bp to z become a block in use at bp, of asize units at
\* least, and perhaps a free rest.
Carved(m, B, bp, asize, z, m2, B2) ==
  /\ m2 \in Mem /\ m2.brk = m.brk /\ m2.rover = m.rover /\ Tiled(m2, B2)
  /\ Outside(B, bp, z) \subseteq B2
  /\ \A b \in B2 \ Outside(B, bp, z) : ~m2.head[b].alloc /\ b = bp + asize
  /\ bp \in B \ {1} /\ z \in B \cup {m.brk} /\ bp < z
  /\ m2.head[bp].alloc /\ asize <= m2.head[bp].size
  /\ \A b \in B : bp < b /\ b < z => ~m.head[b].alloc
  /\ \A u \in Unit \ {bp} : u < bp + asize \/ z <= u => m2.head[u] = m.head[u]
  /\ \A u \in Unit : u < bp + asize \/ z < u => m2.tail[u] = m.tail[u]

\* Such a step rewrites the block at bp only.
LEMMA CarvedRewritten ==
  ASSUME NEW m \in Mem, NEW B, Tiled(m, B), NEW bp, NEW asize, NEW z, NEW m2, NEW B2,
         Carved(m, B, bp, asize, z, m2, B2), m.rover \in B2, asize \in Nat, asize > 0
  PROVE  Rewritten(m, B, m2, B2, {bp})
<1>1. /\ m2 \in Mem /\ Tiled(m2, B2) /\ m2.rover \in B2 /\ bp \in B /\ bp \in Nat
      /\ z \in Nat /\ bp < z /\ m.brk \in Nat
  BY TiledFacts DEF Carved, Mem, Unit
<1>2. ASSUME NEW b \in B \ {bp}, m.head[b].alloc
      PROVE  Intact(m, m2, B2, b)
  <2> DEFINE nx == NEXT_BLKP(m, b)
  <2>1. /\ b \in Nat /\ nx \in Nat /\ b < nx /\ b \in Unit
        /\ \A a \in B : a <= b \/ nx <= a
    BY TiledFacts
  <2>2. b < bp \/ z <= b
    BY <1>1, <1>2, <2>1 DEF Carved
  <2>3. b \in B2
    BY <1>1, <1>2, <2>1, <2>2 DEF Carved, Outside
  <2>4. b < bp => nx <= bp
    BY <1>1, <2>1
  <2> HIDE DEF nx
  <2>5. m2.head[b] = m.head[b]
    BY <1>1, <2>1, <2>2 DEF Carved
  <2>6. ASSUME NEW u \in Unit, b < u, u < nx
        PROVE  m2.head[u] = m.head[u] /\ m2.tail[u] = m.tail[u]
    <3>1. u \in Nat /\ u # bp
      BY <1>1, <2>1, <2>6 DEF Unit
    <3>2. u < bp + asize \/ z < u
      BY <1>1, <2>1, <2>2, <2>4, <2>6, <3>1
    <3> QED BY <1>1, <3>1, <3>2 DEF Carved
  <2> QED BY <2>3, <2>5, <2>6 DEF Intact, nx
<1>3. ASSUME NEW b \in B2 \ {bp}, m2.head[b].alloc
      PROVE  b \in B /\ m.head[b].alloc
  <2>1. b \in Outside(B, bp, z)
    BY <1>3 DEF Carved
  <2>2. b \in B /\ (b <= bp \/ z <= b)
    BY <2>1 DEF Outside
  <2>3. b \in Unit /\ b \in Nat
    BY <2>2, TiledFacts
  <2>4. m2.head[b] = m.head[b]
    BY <1>1, <1>3, <2>2, <2>3 DEF Carved
  <2> QED BY <1>3, <2>2, <2>4
<1> QED BY <1>1, <1>2, <1>3 DEF Rewritten

\* So does merging, of no block in use.
LEMMA CoalescedRewritten ==
  ASSUME NEW m \in Mem, NEW B, Tiled(m, B), NEW bp \in B, NEW first, NEW z, NEW m2, NEW B2,
         Coalesced(m, B, bp, first, z, m2, B2)
  PROVE  Rewritten(m, B, m2, B2, {})
<1>1. /\ m2 \in Mem /\ Tiled(m2, B2) /\ m2.rover \in B2 /\ first \in B /\ first \in Nat
      /\ z \in Nat /\ m.brk \in Nat /\ B2 = Outside(B, first, z) /\ z \in Unit /\ first < z
  <2>1. first \in B /\ z \in B \cup {m.brk} /\ first <= bp /\ NEXT_BLKP(m, bp) <= z
    BY DEF Coalesced
  <2> QED BY <2>1, TiledFacts DEF Coalesced
<1>2. ASSUME NEW b \in B, m.head[b].alloc
      PROVE  Intact(m, m2, B2, b)
  <2> DEFINE nx == NEXT_BLKP(m, b)
  <2>1. /\ b \in Nat /\ nx \in Nat /\ b < nx /\ b \in Unit /\ nx <= m.brk
        /\ \A a \in B : a <= b \/ nx <= a
    BY TiledFacts
  <2>2. b < first \/ z <= b
    BY <1>1, <1>2, <2>1 DEF Coalesced
  <2>3. b \in B2
    BY <1>1, <1>2, <2>1, <2>2 DEF Outside
  <2>4. m2.head[b] = m.head[b]
    BY <1>1, <2>1, <2>2 DEF Coalesced
  <2>5. ASSUME NEW u \in Unit, b < u, u < nx
        PROVE  m2.head[u] = m.head[u] /\ m2.tail[u] = m.tail[u]
    <3>1. u # first /\ u # z
      <4>1. z \in B \cup {m.brk}
        BY DEF Coalesced
      <4>2. u \in Nat
        BY DEF Unit
      <4> QED BY <1>1, <2>1, <2>5, <4>1, <4>2
    <3> QED BY <3>1 DEF Coalesced
  <2> QED BY <2>3, <2>4, <2>5 DEF Intact
<1>3. ASSUME NEW b \in B2, m2.head[b].alloc
      PROVE  b \in B /\ m.head[b].alloc
  <2>1. b \in B /\ b # first
    BY <1>1, <1>3 DEF Outside, Coalesced
  <2>2. b \in Unit
    BY <2>1, TiledFacts
  <2>3. m2.head[b] = m.head[b]
    BY <2>1, <2>2 DEF Coalesced
  <2> QED BY <1>3, <2>1, <2>3
<1> QED BY <1>1, <1>2, <1>3 DEF Rewritten

\* What is left over is cut off, and merged with a free block behind it.
LEMMA SplitFacts ==
  ASSUME NEW m \in Mem, NEW B, Tiled(m, B), NEW bp \in B, NEW last \in B,
         bp # 1, bp <= last, NEW asize \in Nat, asize >= 2,
         NEW csize \in Nat, csize = NEXT_BLKP(m, last) - bp, csize - asize >= 2,
         \A b \in B : bp < b /\ b <= last => ~m.head[b].alloc
  PROVE  LET m2 == Split(m, bp, asize, csize)
         IN  \E z \in Nat : \E B2 :
               /\ Carved(m, B, bp, asize, z, m2, B2)
               /\ bp + asize \in B2 /\ bp + asize < z
               /\ NEXT_BLKP(m2, bp + asize) = z
<1> DEFINE z0 == NEXT_BLKP(m, last)
           rest == bp + asize
           c == content(csize, TRUE)
           c1 == content(asize, TRUE)
           w == content(csize - asize, FALSE)
           v == PutBlock(m, bp, c)
           p1 == PutBlock(m, bp, c1)
           cut == PutBlock(p1, rest, w)
           Bv == Outside(B, bp, z0)
           Bc == Bv \cup {rest}
           next == NEXT_BLKP(cut, rest)
           both == content(csize - asize + cut.head[next].size, FALSE)
           joined == PutHeader(PutFooter(cut, next, both), rest, both)
           m2 == Split(m, bp, asize, csize)
<1>1. /\ z0 \in B \cup {m.brk} /\ z0 \in Nat /\ z0 \in Unit /\ last < z0 /\ z0 <= m.brk
      /\ m.brk \in Nat /\ m.brk \in Unit /\ bp \in Nat /\ bp \in Unit /\ last \in Nat
      /\ 1 < bp /\ 1 \in B
      /\ \A b \in B : b \in Nat /\ b \in Unit /\ b < m.brk /\ (b <= last \/ z0 <= b)
  BY TiledFacts
<1>2. z0 = bp + csize /\ rest \in Nat /\ bp < rest /\ rest < z0 /\ rest \in Unit
      /\ z0 - rest = csize - asize /\ z0 - rest >= 2
  <2>1. z0 = bp + csize
    BY <1>1
  <2> HIDE DEF z0
  <2>2. rest \in Nat /\ bp < rest /\ rest < z0
    BY <1>1, <2>1
  <2>3. rest \in Unit
    BY <1>1, <2>2, HeapAssumption DEF Unit
  <2> QED BY <1>1, <2>1, <2>2, <2>3
<1>3. /\ c \in Tag /\ c1 \in Tag /\ w \in Tag
      /\ c.size = csize /\ c1.size = asize /\ w.size = csize - asize
      /\ c1.alloc = TRUE /\ w.alloc = FALSE
  <2>1. csize \in 0 .. MaxUnits /\ asize \in 0 .. MaxUnits /\ csize - asize \in 0 .. MaxUnits
    BY <1>1, <1>2, HeapAssumption DEF Unit
  <2> QED BY <2>1, TagFacts
<1> HIDE DEF z0, rest, c, c1, w
<1>4. /\ v \in Mem /\ v.brk = m.brk /\ v.rover = m.rover
      /\ \A u \in Unit : v.head[u] = IF u = bp THEN c ELSE m.head[u]
      /\ \A u \in Unit : v.tail[u] = IF u = z0 THEN c ELSE m.tail[u]
  <2>1. z0 = bp + c.size
    BY <1>2, <1>3
  <2>2. /\ v \in Mem /\ v.brk = m.brk /\ v.rover = m.rover
        /\ \A u \in Unit : v.head[u] = IF u = bp THEN c ELSE m.head[u]
        /\ \A u \in Unit : v.tail[u] = IF u = bp + c.size THEN c ELSE m.tail[u]
    <3>1. bp \in Unit /\ c \in Tag
      BY <1>1, <1>3
    <3> QED BY <3>1, PutBlockFacts
  <2> HIDE DEF v
  <2> QED BY <2>1, <2>2
<1>5. /\ p1 \in Mem /\ p1.brk = m.brk /\ p1.rover = m.rover
      /\ \A u \in Unit : p1.head[u] = IF u = bp THEN c1 ELSE m.head[u]
      /\ \A u \in Unit : p1.tail[u] = IF u = rest THEN c1 ELSE m.tail[u]
  <2>1. rest = bp + c1.size
    BY <1>3 DEF rest
  <2>2. /\ p1 \in Mem /\ p1.brk = m.brk /\ p1.rover = m.rover
        /\ \A u \in Unit : p1.head[u] = IF u = bp THEN c1 ELSE m.head[u]
        /\ \A u \in Unit : p1.tail[u] = IF u = bp + c1.size THEN c1 ELSE m.tail[u]
    <3>1. bp \in Unit /\ c1 \in Tag
      BY <1>1, <1>3
    <3> QED BY <3>1, PutBlockFacts
  <2> HIDE DEF p1
  <2> QED BY <2>1, <2>2
<1> HIDE DEF v, p1
<1>6. /\ cut \in Mem /\ cut.brk = m.brk /\ cut.rover = m.rover
      /\ \A u \in Unit : cut.head[u] = IF u = rest THEN w ELSE IF u = bp THEN c1 ELSE m.head[u]
      /\ \A u \in Unit : cut.tail[u] = IF u = z0 THEN w ELSE IF u = rest THEN c1 ELSE m.tail[u]
  <2>1. z0 = rest + w.size
    BY <1>1, <1>2, <1>3
  <2>2. /\ cut \in Mem /\ cut.brk = p1.brk /\ cut.rover = p1.rover
        /\ \A u \in Unit : cut.head[u] = IF u = rest THEN w ELSE p1.head[u]
        /\ \A u \in Unit : cut.tail[u] = IF u = rest + w.size THEN w ELSE p1.tail[u]
    <3>1. p1 \in Mem /\ rest \in Unit /\ w \in Tag
      BY <1>2, <1>3, <1>5
    <3> QED BY <3>1, PutBlockFacts
  <2> HIDE DEF cut
  <2> QED BY <1>5, <2>1, <2>2
<1> HIDE DEF cut
<1>7. Tiled(v, Bv)
  <2>1. c.size = z0 - bp
    BY <1>1, <1>2, <1>3
  <2>2. v.head[bp] = c /\ v.tail[z0] = c
    BY <1>1, <1>4
  <2>3. /\ \A u \in (B \cup {m.brk}) \ {bp} : v.head[u] = m.head[u]
        /\ \A u \in (B \cup {m.brk}) \ {z0} : v.tail[u] = m.tail[u]
    BY <1>1, <1>4
  <2>4. v \in Mem /\ v.brk = m.brk /\ c \in Tag
    BY <1>3, <1>4
  <2> HIDE DEF Bv
  <2>5. Tiled(v, Outside(B, bp, z0))
    BY <1>1, <2>1, <2>2, <2>3, <2>4, MergeTiled DEF z0
  <2> QED BY <2>5 DEF Bv
<1>8. bp \in Bv /\ NEXT_BLKP(v, bp) = z0 /\ v.head[bp] = c /\ v.tail[z0] = c
  BY <1>1, <1>2, <1>3, <1>4 DEF Outside, NEXT_BLKP
<1>9. Bv \cup {m.brk} \subseteq Unit /\ v.brk = m.brk
  BY <1>1, <1>4 DEF Outside
<1>10. Tiled(cut, Bc) /\ rest \notin Bv
  <2>1. /\ cut.head[bp] = c1 /\ cut.tail[rest] = c1 /\ cut.head[rest] = w
        /\ cut.tail[z0] = w
    BY <1>1, <1>2, <1>6
  <2>2. \A u \in Bv \cup {v.brk} : u # rest
    BY <1>1, <1>2, <1>4 DEF Outside
  <2>3. /\ \A u \in (Bv \cup {v.brk}) \ {bp} : cut.head[u] = v.head[u]
        /\ \A u \in (Bv \cup {v.brk}) \ {z0} : cut.tail[u] = v.tail[u]
    BY <1>4, <1>6, <1>9, <2>2
  <2>4. v.head[bp].size = c1.size + w.size /\ c1.size >= 2 /\ w.size >= 2
    BY <1>3, <1>8
  <2>5. rest = bp + c1.size
    BY <1>3 DEF rest
  <2>6. /\ v \in Mem /\ bp # 1 /\ cut \in Mem /\ cut.brk = v.brk /\ bp \in Bv
        /\ c1 \in Tag /\ w \in Tag
    BY <1>1, <1>3, <1>4, <1>6, <1>8
  <2> HIDE DEF Bv
  <2>7. Cut(v, Bv, bp, rest, c1, w, cut)
    BY <1>8, <2>1, <2>3, <2>4, <2>5, <2>6 DEF Cut
  <2> QED BY <1>7, <2>6, <2>7, CutTiled
<1>11. next = z0
  <2>1. cut.head[rest] = w
    BY <1>2, <1>6
  <2>2. next = rest + w.size
    BY <2>1 DEF NEXT_BLKP
  <2> HIDE DEF next
  <2> QED BY <1>1, <1>2, <1>3, <2>2
<1>12. m2 = IF Free(cut, next) THEN joined ELSE cut
  BY DEF Split, cut, p1, c1, w, rest
<1>13. /\ Outside(B, bp, z0) \subseteq Bc
       /\ \A b \in Bc \ Outside(B, bp, z0) : ~cut.head[b].alloc /\ b = rest
       /\ cut.head[bp].alloc /\ asize <= cut.head[bp].size /\ rest \in Bc
  BY <1>1, <1>2, <1>3, <1>6
<1>14. /\ \A u \in Unit \ {bp} : u < rest \/ z0 <= u => cut.head[u] = m.head[u]
       /\ \A u \in Unit : u < rest \/ z0 < u => cut.tail[u] = m.tail[u]
  <2>1. \A u \in Unit : u \in Int
    BY DEF Unit
  <2> QED BY <1>1, <1>2, <1>6, <2>1
<1>15. \A b \in B : bp < b /\ b < z0 => ~m.head[b].alloc
  <2> SUFFICES ASSUME NEW b \in B, bp < b, b < z0
               PROVE  ~m.head[b].alloc
    OBVIOUS
  <2>1. b \in Nat /\ z0 \in Nat /\ (b <= last \/ z0 <= b)
    BY <1>1
  <2>2. b <= last
    BY <2>1
  <2> QED BY <2>2
<1>16. CASE ~Free(cut, z0)
  <2>1. m2 = cut
    BY <1>11, <1>12, <1>16
  <2>2. Carved(m, B, bp, asize, z0, cut, Bc)
    BY <1>1, <1>2, <1>6, <1>10, <1>13, <1>14, <1>15 DEF Carved, rest
  <2> HIDE DEF m2, Bc
  <2> QED BY <1>1, <1>2, <1>11, <1>13, <2>1, <2>2 DEF rest, m2
<1>17. CASE Free(cut, z0)
  <2> DEFINE z == NEXT_BLKP(cut, z0)
             B2 == Outside(Bc, rest, z)
  <2>1. m2 = PutHeader(PutFooter(cut, z0, both), rest, both)
    BY <1>11, <1>12, <1>17
  <2>2. z0 \in B /\ cut.head[z0] = m.head[z0] /\ ~m.head[z0].alloc
    <3>1. cut.head[z0] = m.head[z0]
      BY <1>1, <1>2, <1>6
    <3>2. m.head[m.brk].alloc = TRUE
      BY DEF Tiled, content
    <3> QED BY <1>1, <1>17, <3>1, <3>2 DEF Free
  <2>3. z0 \in Bc
    BY <1>1, <1>2, <2>2 DEF Outside
  <2>4. /\ z \in Bc \cup {m.brk} /\ z \in Nat /\ z \in Unit /\ z0 < z /\ z <= m.brk
        /\ z = z0 + m.head[z0].size /\ m.head[z0].size \in Nat
        /\ \A b \in Bc : b <= z0 \/ z <= b
    <3> HIDE DEF Bc
    <3> QED BY <1>6, <1>10, <2>2, <2>3, TiledFacts
  <2>5. both = content(z - rest, FALSE)
    <3>1. cut.head[next].size = m.head[z0].size
      BY <1>11, <2>2
    <3>2. csize - asize + cut.head[next].size = z - rest
      BY <1>1, <1>2, <2>4, <3>1
    <3> QED BY <3>2
  <2>6. both \in Tag /\ both.size = z - rest /\ both.alloc = FALSE
    <3>1. z - rest \in 0 .. MaxUnits
      BY <1>2, <2>4, HeapAssumption DEF Unit
    <3> QED BY <2>5, <3>1, TagFacts
  <2> HIDE DEF both, z, m2
  <2> DEFINE f == PutFooter(cut, z0, both)
  <2>7. both \in Word
    BY <2>6 DEF Word
  <2>8. /\ f \in Mem /\ f.head = cut.head /\ f.brk = m.brk /\ f.rover = m.rover
        /\ \A u \in Unit : f.tail[u] = IF u = z THEN both ELSE cut.tail[u]
    BY <1>6, <2>7, PutFooterFacts DEF z
  <2> HIDE DEF f
  <2>9. /\ m2 \in Mem /\ m2.brk = m.brk /\ m2.rover = m.rover
        /\ \A u \in Unit : m2.head[u] = IF u = rest THEN both ELSE cut.head[u]
        /\ \A u \in Unit : m2.tail[u] = IF u = z THEN both ELSE cut.tail[u]
    <3>1. m2 = PutHeader(f, rest, both)
      BY <2>1 DEF f
    <3> QED BY <2>7, <2>8, <3>1, PutHeaderFacts
  <2>10. Tiled(m2, B2)
    <3>1. m2.head[rest] = both /\ m2.tail[z] = both
      BY <1>2, <2>4, <2>9
    <3>2. Bc \cup {m.brk} \subseteq Unit
      BY <1>1, <1>2, <1>9
    <3>3. /\ \A u \in (Bc \cup {cut.brk}) \ {rest} : m2.head[u] = cut.head[u]
          /\ \A u \in (Bc \cup {cut.brk}) \ {z} : m2.tail[u] = cut.tail[u]
      BY <1>6, <2>9, <3>2
    <3>4. m2.brk = cut.brk /\ rest \in Bc /\ rest # 1 /\ rest <= z0
      BY <1>1, <1>2, <1>6, <2>9
    <3> HIDE DEF Bc
    <3> QED BY <1>6, <1>10, <2>3, <2>6, <2>9, <3>1, <3>3, <3>4, MergeTiled DEF z
  <2>11. z \in B \cup {m.brk}
    BY <1>1, <1>2, <2>4 DEF Outside
  <2>12. bp < z /\ rest < z
    BY <1>1, <1>2, <2>4
  <2>13. /\ Outside(B, bp, z) \subseteq B2
         /\ rest \in B2
    <3>1. rest \in B2
      BY <1>2 DEF Outside
    <3>2. ASSUME NEW b \in Outside(B, bp, z)
          PROVE  b \in B2
      <4>1. b \in B /\ b \in Nat /\ (b <= bp \/ z <= b)
        BY <1>1 DEF Outside
      <4>2. b <= bp \/ z0 <= b
        BY <1>1, <2>4, <4>1
      <4>3. b <= rest \/ z <= b
        BY <1>1, <1>2, <4>1
      <4> QED BY <4>1, <4>2, <4>3 DEF Outside
    <3> QED BY <3>1, <3>2
  <2>14. \A b \in B2 \ Outside(B, bp, z) : ~m2.head[b].alloc /\ b = rest
    <3>1. ASSUME NEW b \in B2 \ Outside(B, bp, z)
          PROVE  b = rest
      <4>1. b \in Bc /\ (b <= rest \/ z <= b)
        BY DEF Outside
      <4>2. CASE b \in Bv
        <5>1. b \in B /\ (b <= bp \/ z0 <= b) /\ b \in Nat
          BY <1>1, <4>2 DEF Outside
        <5>2. b \notin Outside(B, bp, z) /\ (b <= rest \/ z <= b)
          BY <3>1, <4>1
        <5>3. ~(b <= bp \/ z <= b)
          BY <5>1, <5>2 DEF Outside
        <5> QED BY <1>1, <1>2, <5>1, <5>2, <5>3
      <4> QED BY <4>1, <4>2
    <3> QED BY <1>2, <2>6, <2>9, <3>1
  <2>15. m2.head[bp].alloc /\ asize <= m2.head[bp].size
    BY <1>1, <1>2, <1>13, <2>9
  <2>16. \A b \in B : bp < b /\ b < z => ~m.head[b].alloc
    <3>1. ASSUME NEW b \in B, bp < b, b < z
          PROVE  ~m.head[b].alloc
      <4>1. CASE b < z0
        BY <1>15, <3>1, <4>1
      <4>2. CASE ~(b < z0)
        <5>1. b \in Bc /\ b \in Nat
          BY <1>1, <4>2 DEF Outside
        <5>2. b = z0
          BY <1>1, <2>4, <3>1, <4>2, <5>1
        <5> QED BY <2>2, <5>2
      <4> QED BY <4>1, <4>2
    <3> QED BY <3>1
  <2>17. /\ \A u \in Unit \ {bp} : u < rest \/ z <= u => m2.head[u] = m.head[u]
         /\ \A u \in Unit : u < rest \/ z < u => m2.tail[u] = m.tail[u]
    <3>1. \A u \in Unit : u \in Int
      BY DEF Unit
    <3>2. \A u \in Unit \ {bp} : u < rest \/ z <= u => m2.head[u] = m.head[u]
      BY <1>2, <1>14, <2>4, <2>9, <3>1
    <3>3. ASSUME NEW u \in Unit, u < rest \/ z < u
          PROVE  m2.tail[u] = m.tail[u]
      <4>1. u # z /\ (u < rest \/ z0 < u)
        BY <1>1, <1>2, <2>4, <2>12, <3>1, <3>3
      <4> QED BY <1>14, <2>9, <4>1
    <3> QED BY <3>2, <3>3
  <2>18. NEXT_BLKP(m2, rest) = z
    BY <1>2, <2>4, <2>6, <2>9 DEF NEXT_BLKP
  <2> HIDE DEF B2
  <2>19. Carved(m, B, bp, asize, z, m2, B2)
    BY <1>1, <2>9, <2>10, <2>11, <2>12, <2>13, <2>14, <2>15, <2>16, <2>17 DEF Carved, rest
  <2> QED BY <2>4, <2>12, <2>13, <2>18, <2>19 DEF rest, m2
<1> QED BY <1>16, <1>17

\* New tags of a block, of the same size.
LEMMA RetagTiled ==
  ASSUME NEW m \in Mem, NEW B, Tiled(m, B), NEW b \in B, b # 1,
         NEW w \in Tag, w.size = m.head[b].size,
         NEW m2, m2 = PutBlock(m, b, w)
  PROVE  /\ m2 \in Mem /\ m2.brk = m.brk /\ m2.rover = m.rover
         /\ Tiled(m2, B)
         /\ m2.head[b] = w
         /\ \A u \in Unit \ {b} : m2.head[u] = m.head[u]
         /\ \A u \in Unit \ {NEXT_BLKP(m, b)} : m2.tail[u] = m.tail[u]
<1> DEFINE z == NEXT_BLKP(m, b)
<1>1. /\ b \in Unit /\ b \in Nat /\ m.head[b] \in Tag /\ m.head[b].size \in Nat
      /\ z = b + m.head[b].size /\ z \in Unit /\ m.brk \in Unit /\ b < z
      /\ \A a \in B : a \in Unit /\ a \in Nat /\ (a <= b \/ z <= a)
  BY TiledFacts
<1> HIDE DEF z
<1>3. /\ m2 \in Mem /\ m2.brk = m.brk /\ m2.rover = m.rover
      /\ \A u \in Unit : m2.head[u] = IF u = b THEN w ELSE m.head[u]
      /\ \A u \in Unit : m2.tail[u] = IF u = z THEN w ELSE m.tail[u]
  <2>1. z = b + w.size
    BY <1>1
  <2>2. /\ m2 \in Mem /\ m2.brk = m.brk /\ m2.rover = m.rover
        /\ \A u \in Unit : m2.head[u] = IF u = b THEN w ELSE m.head[u]
        /\ \A u \in Unit : m2.tail[u] = IF u = b + w.size THEN w ELSE m.tail[u]
    <3>1. b \in Unit
      BY <1>1
    <3> QED BY <3>1, PutBlockFacts
  <2> QED BY <2>1, <2>2
<1>4. Tiled(m2, Outside(B, b, z))
  <2>1. m2.head[b] = w /\ m2.tail[z] = w /\ w.size = z - b
    BY <1>1, <1>3
  <2>2. /\ \A u \in (B \cup {m.brk}) \ {b} : m2.head[u] = m.head[u]
        /\ \A u \in (B \cup {m.brk}) \ {z} : m2.tail[u] = m.tail[u]
    BY <1>1, <1>3
  <2>3. b <= b
    BY <1>1
  <2> QED BY <1>3, <2>1, <2>2, <2>3, MergeTiled DEF z
<1>5. Outside(B, b, z) = B
  BY <1>1 DEF Outside
<1>6. m2.head[b] = w
  BY <1>1, <1>3
<1>7. /\ \A u \in Unit \ {b} : m2.head[u] = m.head[u]
      /\ \A u \in Unit \ {z} : m2.tail[u] = m.tail[u]
  BY <1>3
<1> QED BY <1>3, <1>4, <1>5, <1>6, <1>7 DEF z

\* A block that is taken whole.
LEMMA WholeFacts ==
  ASSUME NEW m \in Mem, NEW B, Tiled(m, B), NEW bp \in B, bp # 1,
         NEW asize \in Nat, asize <= m.head[bp].size
  PROVE  LET m2 == PutBlock(m, bp, content(m.head[bp].size, TRUE))
         IN  Carved(m, B, bp, asize, NEXT_BLKP(m, bp), m2, B)
<1> DEFINE m2 == PutBlock(m, bp, content(m.head[bp].size, TRUE))
           z == NEXT_BLKP(m, bp)
<1>1. /\ m2 \in Mem /\ m2.brk = m.brk /\ m2.rover = m.rover
      /\ Tiled(m2, B)
      /\ m2.head[bp].size = m.head[bp].size /\ m2.head[bp].alloc = TRUE
      /\ \A u \in Unit \ {bp} : m2.head[u] = m.head[u]
      /\ \A u \in Unit \ {z} : m2.tail[u] = m.tail[u]
  <2> DEFINE w == content(m.head[bp].size, TRUE)
  <2>1. w \in Tag /\ w.size = m.head[bp].size /\ w.alloc = TRUE
    <3>1. m.head[bp].size \in 0 .. MaxUnits
      <4>1. m.head[bp] \in Tag
        BY TiledFacts
      <4> QED BY <4>1 DEF Tag
    <3> QED BY <3>1, TagFacts
  <2>2. m2 = PutBlock(m, bp, w)
    OBVIOUS
  <2> HIDE DEF m2, w
  <2>3. m2.head[bp] = w
    BY <2>1, <2>2, RetagTiled
  <2> QED BY <2>1, <2>2, <2>3, RetagTiled
<1> HIDE DEF m2
<1>2. /\ bp \in Nat /\ z = bp + m.head[bp].size /\ z \in B \cup {m.brk} /\ bp < z
      /\ z \in Nat /\ m.head[bp].size \in Nat
      /\ \A a \in B : a \in Nat /\ (a <= bp \/ z <= a)
  BY TiledFacts
<1> HIDE DEF z
<1>3. Outside(B, bp, z) = B
  BY <1>2 DEF Outside
<1>4. \A u \in Unit : u < bp + asize \/ z < u => u # z
  BY <1>2 DEF Unit
<1>5. \A b \in B : ~(bp < b /\ b < z)
  BY <1>2
<1>6. Carved(m, B, bp, asize, z, m2, B)
  BY <1>1, <1>2, <1>3, <1>4, <1>5 DEF Carved
<1> QED BY <1>6 DEF z, m2

\* place, where it does no damage.
LEMMA PlaceFacts ==
  ASSUME NEW m \in Mem, NEW B, Tiled(m, B), NEW bp \in B, bp # 1,
         NEW asize \in Nat, asize >= 2, asize <= m.head[bp].size,
         ~PlaceDamages(m, bp, asize), m.rover = bp \/ Free(m, NEXT_BLKP(m, bp)) = FALSE,
         m.rover \in B
  PROVE  \E B2 :
           /\ Rewritten(m, B, place(m, bp, asize), B2, {bp})
           /\ bp \in B2 \ {1} /\ place(m, bp, asize).head[bp].alloc
           /\ asize <= place(m, bp, asize).head[bp].size
<1> DEFINE csize == m.head[bp].size
           m2 == place(m, bp, asize)
<1>1. /\ csize \in Nat /\ bp \in Nat /\ NEXT_BLKP(m, bp) = bp + csize
      /\ NEXT_BLKP(m, bp) \in B \cup {m.brk} /\ NEXT_BLKP(m, bp) \in Nat
      /\ m.rover \in Nat /\ bp < NEXT_BLKP(m, bp)
      /\ \A b \in B : b <= bp \/ NEXT_BLKP(m, bp) <= b
  BY TiledFacts
<1>2. ASSUME NEW z \in Nat, NEW B2, Carved(m, B, bp, asize, z, m2, B2), m.rover \in B2
      PROVE  /\ Rewritten(m, B, m2, B2, {bp})
             /\ bp \in B2 \ {1} /\ m2.head[bp].alloc /\ asize <= m2.head[bp].size
  <2> HIDE DEF m2
  <2>1. m2.rover \in B2
    BY <1>2 DEF Carved
  <2>2. Rewritten(m, B, m2, B2, {bp})
    BY <1>2, CarvedRewritten
  <2>3. bp \in B2
    BY <1>1, <1>2 DEF Carved, Outside
  <2> QED BY <1>2, <2>2, <2>3 DEF Carved
<1>3. CASE csize - asize >= 2
  <2>1. m2 = Split(m, bp, asize, csize)
    BY <1>3 DEF place
  <2>2. csize = NEXT_BLKP(m, bp) - bp /\ bp <= bp /\ \A b \in B : ~(bp < b /\ b <= bp)
    <3>1. \A b \in B : b \in Nat
      BY TiledFacts
    <3>2. \A b \in B : ~(bp < b /\ b <= bp)
      <4> SUFFICES ASSUME NEW b \in B, bp < b, b <= bp
                   PROVE  FALSE
        OBVIOUS
      <4>1. b \in Nat /\ bp \in Nat
        BY <1>1, <3>1
      <4> QED BY <4>1
    <3> HIDE DEF csize
    <3>3. csize = NEXT_BLKP(m, bp) - bp /\ bp <= bp
      BY <1>1
    <3> QED BY <3>2, <3>3
  <2> HIDE DEF csize
  <2>3. PICK z, B2 : z \in Nat /\ Carved(m, B, bp, asize, z, Split(m, bp, asize, csize), B2)
    BY <1>1, <1>3, <2>2, SplitFacts
  <2>4. m.rover \in B2
    <3>1. z \in Nat /\ z \in B \cup {m.brk} /\ bp < z /\ Outside(B, bp, z) \subseteq B2
      BY <2>3 DEF Carved
    <3>2. CASE m.rover = bp
      BY <1>1, <3>1, <3>2 DEF Outside
    <3>3. CASE Free(m, NEXT_BLKP(m, bp)) = FALSE
      <4>1. ~(NEXT_BLKP(m, bp) < z)
        <5>1. SUFFICES ASSUME NEXT_BLKP(m, bp) < z PROVE FALSE
          OBVIOUS
        <5>2. NEXT_BLKP(m, bp) # m.brk
          <6>1. z <= m.brk /\ m.brk \in Nat
            BY <3>1, TiledFacts
          <6> QED BY <1>1, <3>1, <5>1, <6>1
        <5>3. NEXT_BLKP(m, bp) \in B /\ bp < NEXT_BLKP(m, bp)
          BY <1>1, <5>2
        <5>4. ~m.head[NEXT_BLKP(m, bp)].alloc
          BY <2>3, <5>1, <5>3 DEF Carved
        <5> QED BY <3>3, <5>4 DEF Free
      <4>2. m.rover <= bp \/ z <= m.rover
        BY <1>1, <3>1, <4>1
      <4> QED BY <3>1, <4>2 DEF Outside
    <3> QED BY <3>2, <3>3
  <2> HIDE DEF m2
  <2> QED BY <1>2, <2>1, <2>3, <2>4 DEF m2
<1>4. CASE ~(csize - asize >= 2)
  <2>1. csize - asize < 2
    BY <1>1, <1>4
  <2>2. m2 = PutBlock(m, bp, content(csize, TRUE))
    BY <1>4, <2>1 DEF place, PlaceDamages
  <2>3. Carved(m, B, bp, asize, NEXT_BLKP(m, bp), m2, B)
    BY <2>2, WholeFacts
  <2> HIDE DEF m2
  <2> QED BY <1>1, <1>2, <2>3 DEF m2
<1> QED BY <1>3, <1>4

\* extend_heap adds a free block at the end, with the free block that was there.
LEMMA ExtendFacts ==
  ASSUME NEW m \in Mem, NEW B, Tiled(m, B), m.rover \in B,
         NEW units \in Nat, units >= 2, m.brk + units <= MaxUnits
  PROVE  LET m2 == extend_heap(m, units)
             bp == Merged(m, m.brk)
         IN  \E B2 :
               /\ Rewritten(m, B, m2, B2, {})
               /\ bp \in B2 \ {1} /\ ~m2.head[bp].alloc
               /\ NEXT_BLKP(m2, bp) = m2.brk /\ units <= m2.head[bp].size
<1> DEFINE e == m.brk
           w == content(units, FALSE)
           epilogue == content(0, TRUE)
           longer == [m EXCEPT !.brk = @ + units]
           grown == PutBlock(longer, e, w)
           g == PutHeader(grown, e + units, epilogue)
           Bg == B \cup {e}
           bp == Merged(m, e)
           m2 == extend_heap(m, units)
<1>1. m2 = coalesce(g, e)
  BY DEF extend_heap
<1>2. /\ e \in Unit /\ e \in Nat /\ e + units \in Unit /\ 1 \in B /\ MaxUnits \in Nat
      /\ \A b \in B : b \in Unit /\ b \in Nat /\ 1 <= b /\ b < e
  <2>1. e \in Unit /\ MaxUnits \in Nat
    BY HeapAssumption DEF Mem
  <2>2. e \in Nat /\ e + units \in Unit
    BY <2>1 DEF Unit
  <2>3. 1 \in B
    BY DEF Tiled, heap_listp
  <2> QED BY <2>1, <2>2, <2>3, TiledFacts
<1>3. w \in Tag /\ w.size = units /\ w.alloc = FALSE /\ epilogue \in Tag
  <2>1. units \in 0 .. MaxUnits /\ 0 \in 0 .. MaxUnits
    BY <1>2 DEF Unit
  <2> QED BY <2>1, TagFacts
<1>4. /\ longer \in Mem /\ longer.brk = e + units /\ longer.rover = m.rover
      /\ longer.head = m.head /\ longer.tail = m.tail
  BY <1>2 DEF Mem
<1> HIDE DEF w, epilogue, longer
<1>5. /\ grown \in Mem /\ grown.brk = e + units /\ grown.rover = m.rover
      /\ \A u \in Unit : grown.head[u] = IF u = e THEN w ELSE m.head[u]
      /\ \A u \in Unit : grown.tail[u] = IF u = e + units THEN w ELSE m.tail[u]
  <2>1. /\ grown \in Mem /\ grown.brk = longer.brk /\ grown.rover = longer.rover
        /\ \A u \in Unit : grown.head[u] = IF u = e THEN w ELSE longer.head[u]
        /\ \A u \in Unit : grown.tail[u] = IF u = e + w.size THEN w ELSE longer.tail[u]
    <3>1. longer \in Mem /\ e \in Unit /\ w \in Tag
      BY <1>2, <1>3, <1>4
    <3> HIDE DEF e
    <3> QED BY <3>1, PutBlockFacts
  <2> HIDE DEF grown
  <2> QED BY <1>3, <1>4, <2>1
<1> HIDE DEF grown
<1>6. /\ g \in Mem /\ g.brk = e + units /\ g.rover = m.rover
      /\ \A u \in Unit : g.head[u] = IF u = e + units THEN epilogue
                                     ELSE IF u = e THEN w ELSE m.head[u]
      /\ \A u \in Unit : g.tail[u] = IF u = e + units THEN w ELSE m.tail[u]
  <2>1. epilogue \in Word
    BY <1>3 DEF Word
  <2>2. /\ g \in Mem /\ g.brk = grown.brk /\ g.rover = grown.rover
        /\ \A u \in Unit : g.head[u] = IF u = e + units THEN epilogue ELSE grown.head[u]
        /\ g.tail = grown.tail
    BY <1>5, <2>1, PutHeaderFacts
  <2> HIDE DEF g
  <2> QED BY <1>5, <2>2
<1> HIDE DEF g
<1>7. Tiled(g, Bg)
  <2>1. /\ w.size >= 2 /\ g.brk = m.brk + w.size
        /\ g.head[m.brk] = w /\ g.tail[g.brk] = w
        /\ g.head[g.brk] = content(0, TRUE)
    <3>1. w.size >= 2 /\ g.brk = m.brk + w.size
      BY <1>3, <1>6
    <3>2. g.head[g.brk] = epilogue /\ g.tail[g.brk] = w
      BY <1>2, <1>6
    <3>3. g.head[e] = w
      BY <1>2, <1>6
    <3> QED BY <3>1, <3>2, <3>3 DEF epilogue
  <2>2. \A u \in B : g.head[u] = m.head[u]
    BY <1>2, <1>6
  <2>3. \A u \in B \cup {m.brk} : g.tail[u] = m.tail[u]
    BY <1>2, <1>6
  <2> QED BY <1>3, <1>6, <2>1, <2>2, <2>3, GrowTiled
<1>8. Rewritten(m, B, g, Bg, {})
  <2>1. ASSUME NEW b \in B, m.head[b].alloc
        PROVE  Intact(m, g, Bg, b)
    <3>1. NEXT_BLKP(m, b) <= e /\ NEXT_BLKP(m, b) \in Nat
      BY TiledFacts
    <3>2. \A u \in Unit : u < NEXT_BLKP(m, b) => u # e /\ u # e + units
      BY <1>2, <3>1 DEF Unit
    <3> QED BY <1>2, <1>6, <3>2 DEF Intact
  <2>2. ASSUME NEW b \in Bg, g.head[b].alloc
        PROVE  b \in B /\ m.head[b].alloc
    BY <1>2, <1>3, <1>6, <2>2
  <2> QED BY <1>6, <1>7, <2>1, <2>2 DEF Rewritten
<1>9. bp = Merged(g, e)
  <2>1. PICK a \in B : NEXT_BLKP(m, a) = e
    <3>1. e \in (B \cup {m.brk}) \ {heap_listp}
      BY <1>2 DEF heap_listp
    <3> QED BY <3>1 DEF Tiled
  <2>2. m.tail[e] = m.head[a] /\ a \in Nat /\ m.head[a].size \in Nat /\ e = a + m.head[a].size
    BY <2>1, TiledFacts
  <2>3. g.tail[e] = m.tail[e] /\ g.head[a] = m.head[a]
    BY <1>2, <1>6
  <2>4. PREV_BLKP(m, e) = a /\ PREV_BLKP(g, e) = a
    BY <1>2, <2>2, <2>3 DEF PREV_BLKP
  <2>5. Footer(m, a) = m.tail[e] /\ Footer(g, a) = m.tail[e]
    BY <2>2, <2>3 DEF Footer, NEXT_BLKP
  <2> QED BY <2>4, <2>5 DEF Merged
<1>10. PICK z, B2 : z \in Nat /\ Coalesced(g, Bg, e, bp, z, m2, B2)
  <2>1. g.rover \in Bg /\ e \in Bg /\ e # 1 /\ ~g.head[e].alloc
    BY <1>2, <1>3, <1>6
  <2>2. \E z \in Nat : \E B2 : Coalesced(g, Bg, e, Merged(g, e), z, coalesce(g, e), B2)
    BY <1>6, <1>7, <2>1, CoalesceFacts
  <2> QED BY <1>1, <1>9, <2>2
<1> HIDE DEF m2, bp
<1>11. z = e + units /\ m2.brk = e + units
  <2>1. NEXT_BLKP(g, e) = e + units
    BY <1>2, <1>3, <1>6 DEF NEXT_BLKP
  <2>2. z \in Bg \cup {e + units} /\ e + units <= z
    BY <1>6, <1>10, <2>1 DEF Coalesced
  <2> QED BY <1>2, <1>6, <1>10, <2>2 DEF Coalesced
<1>12. Rewritten(g, Bg, m2, B2, {})
  BY <1>6, <1>7, <1>10, CoalescedRewritten
<1>13. Rewritten(m, B, m2, B2, {})
  <2>1. {} \cup {} = {}
    OBVIOUS
  <2> QED BY <1>8, <1>12, <2>1, RewrittenTwice
<1>14. /\ bp \in Bg \ {1} /\ bp <= e /\ bp \in Nat /\ z = NEXT_BLKP(m2, bp) /\ bp \in Unit
       /\ ~m2.head[bp].alloc /\ m2 \in Mem /\ B2 = Outside(Bg, bp, z) /\ Tiled(m2, B2)
  BY <1>2, <1>10 DEF Coalesced
<1>15. bp \in B2
  BY <1>14 DEF Outside
<1>16. m2.head[bp].size \in Nat /\ z = bp + m2.head[bp].size
  BY <1>14, <1>15, TiledFacts
<1>17. units <= m2.head[bp].size
  BY <1>2, <1>11, <1>14, <1>16
<1> QED BY <1>11, <1>13, <1>14, <1>15, <1>17 DEF m2, bp

\* mm_malloc finds or makes a free block and takes it.
LEMMA AllocatedFacts ==
  ASSUME NEW m \in Mem, NEW B, Tiled(m, B), m.rover \in B,
         NEW asize \in Nat, asize >= 2, CanAllocate(m, asize),
         ~Allocated(m, asize).damages
  PROVE  LET got == Allocated(m, asize)
         IN  \E B2 :
               /\ Rewritten(m, B, got.heap, B2, {got.bp})
               /\ got.bp \in B2 \ {1} /\ got.heap.head[got.bp].alloc
               /\ asize <= got.heap.head[got.bp].size
               /\ got.bp \in B => ~m.head[got.bp].alloc
<1> DEFINE fit == find_fit(m, asize)
           units == IF asize > ChunkUnits THEN asize ELSE ChunkUnits
           bp == Merged(m, m.brk)
           grown == extend_heap(m, units)
           got == Allocated(m, asize)
<1>1. m.head[1].alloc = TRUE /\ \A b \in B : m.head[b].size \in Nat
  <2>1. m.head[1].alloc = TRUE
    BY DEF Tiled, heap_listp, content
  <2> QED BY <2>1, TiledFacts
<1>2. CASE fit # NoBlock
  <2> DEFINE m1 == [m EXCEPT !.rover = fit]
             m2 == place(m1, fit, asize)
  <2>1. fit \in B /\ Fits(m, fit, asize)
    BY <1>2, FitFacts
  <2>2. fit \in Unit /\ fit # 1 /\ ~m.head[fit].alloc /\ asize <= m.head[fit].size
    BY <1>1, <2>1, TiledFacts DEF Fits, Free
  <2>3. got = [heap |-> m2, bp |-> fit, damages |-> PlaceDamages(m, fit, asize)]
    BY <1>2 DEF Allocated
  <2> HIDE DEF fit, m2, got
  <2>4. got.heap = m2 /\ got.bp = fit /\ ~PlaceDamages(m, fit, asize)
    BY <2>3 DEF got
  <2>5. /\ m1 \in Mem /\ m1.brk = m.brk /\ m1.rover = fit
        /\ m1.head = m.head /\ m1.tail = m.tail
    BY <2>2 DEF Mem
  <2> HIDE DEF m1
  <2>6. Tiled(m1, B)
    BY <2>5, SameTags
  <2>7. Rewritten(m, B, m1, B, {})
    BY <2>1, <2>5, <2>6 DEF Rewritten, Intact
  <2>8. ~PlaceDamages(m1, fit, asize)
    BY <2>4, <2>5 DEF PlaceDamages, Free, NEXT_BLKP
  <2>9. PICK B2 : /\ Rewritten(m1, B, m2, B2, {fit})
                  /\ fit \in B2 \ {1} /\ m2.head[fit].alloc
                  /\ asize <= m2.head[fit].size
    <3>1. m1.rover = fit /\ m1.rover \in B /\ asize <= m1.head[fit].size
      BY <2>1, <2>2, <2>5
    <3> QED BY <2>1, <2>2, <2>5, <2>6, <2>8, <3>1, PlaceFacts DEF m2
  <2>10. Rewritten(m, B, m2, B2, {fit})
    <3>1. {} \cup {fit} = {fit}
      OBVIOUS
    <3> QED BY <2>7, <2>9, <3>1, RewrittenTwice
  <2> QED BY <2>2, <2>4, <2>9, <2>10 DEF got
<1>3. CASE fit = NoBlock
  <2> DEFINE g2 == coalesce(grown, bp)
             m2 == place(g2, bp, asize)
  <2>1. got = [heap |-> m2, bp |-> bp, damages |-> Merged(grown, bp) # bp]
    BY <1>3 DEF Allocated
  <2>2. /\ units \in Nat /\ units >= 2 /\ asize <= units /\ m.brk + units <= MaxUnits
    <3>1. CanExtend(m, units)
      BY <1>3 DEF CanAllocate
    <3> HIDE DEF fit
    <3> QED BY <3>1, HeapAssumption DEF CanExtend
  <2> HIDE DEF units, m2, got, bp
  <2>3. got.heap = m2 /\ got.bp = bp /\ Merged(grown, bp) = bp
    <3> DEFINE d == Merged(grown, bp) # bp
    <3>1. got = [heap |-> m2, bp |-> bp, damages |-> d]
      BY <2>1
    <3> HIDE DEF d
    <3>2. ~got.damages
      BY DEF got
    <3>3. got.heap = m2 /\ got.bp = bp /\ ~d
      BY <3>1, <3>2
    <3> QED BY <3>3 DEF d
  <2>4. PICK B1 : /\ Rewritten(m, B, grown, B1, {})
                  /\ bp \in B1 \ {1} /\ ~grown.head[bp].alloc
                  /\ NEXT_BLKP(grown, bp) = grown.brk /\ units <= grown.head[bp].size
    BY <2>2, ExtendFacts DEF bp
  <2> HIDE DEF grown, g2
  <2>5. grown \in Mem /\ Tiled(grown, B1) /\ grown.rover \in B1
    BY <2>4 DEF Rewritten
  <2>6. PICK z, B2 : z \in Nat /\ Coalesced(grown, B1, bp, bp, z, g2, B2)
    <3>1. \E z \in Nat : \E B2 :
            Coalesced(grown, B1, bp, Merged(grown, bp), z, coalesce(grown, bp), B2)
      BY <2>4, <2>5, CoalesceFacts
    <3> QED BY <2>3, <3>1 DEF g2
  <2>7. Rewritten(grown, B1, g2, B2, {})
    BY <2>4, <2>5, <2>6, CoalescedRewritten
  <2>8. /\ bp \in B2 /\ bp # 1 /\ ~g2.head[bp].alloc /\ NEXT_BLKP(g2, bp) = g2.brk
        /\ asize <= g2.head[bp].size /\ g2 \in Mem /\ Tiled(g2, B2) /\ g2.rover \in B2
    <3>1. /\ bp \in Nat /\ grown.brk \in Nat /\ grown.head[bp].size \in Nat
          /\ grown.brk = bp + grown.head[bp].size /\ \A b \in B1 : b \in Nat /\ b < grown.brk
      BY <2>4, <2>5, TiledFacts
    <3>2. /\ z \in B1 \cup {grown.brk} /\ grown.brk <= z /\ g2.brk = grown.brk
          /\ z = NEXT_BLKP(g2, bp) /\ ~g2.head[bp].alloc /\ B2 = Outside(B1, bp, z)
          /\ g2 \in Mem /\ Tiled(g2, B2) /\ g2.rover \in B2
      BY <2>4, <2>6 DEF Coalesced
    <3>3. z = g2.brk
      BY <3>1, <3>2
    <3>4. bp \in B2
      BY <2>4, <3>1, <3>2 DEF Outside
    <3>5. g2.head[bp].size \in Nat /\ NEXT_BLKP(g2, bp) = bp + g2.head[bp].size
      BY <3>2, <3>4, TiledFacts
    <3>6. asize <= g2.head[bp].size
      <4>1. g2.head[bp].size = grown.head[bp].size
        <5>1. bp + g2.head[bp].size = bp + grown.head[bp].size
          BY <3>1, <3>2, <3>3, <3>5
        <5> QED BY <3>1, <3>5, <5>1
      <4> QED BY <2>2, <2>4, <3>1, <4>1
    <3> QED BY <2>4, <3>2, <3>3, <3>4, <3>6
  <2>9. Free(g2, NEXT_BLKP(g2, bp)) = FALSE
    <3>1. g2.head[g2.brk] = content(0, TRUE)
      BY <2>8 DEF Tiled
    <3> QED BY <2>8, <3>1 DEF Free, content
  <2>10. PICK B3 : /\ Rewritten(g2, B2, m2, B3, {bp})
                   /\ bp \in B3 \ {1} /\ m2.head[bp].alloc /\ asize <= m2.head[bp].size
    <3>1. ~PlaceDamages(g2, bp, asize)
      BY <2>9 DEF PlaceDamages
    <3> QED BY <2>8, <2>9, <3>1, PlaceFacts DEF m2
  <2>11. Rewritten(m, B, m2, B3, {bp})
    <3>1. {} \cup {} = {} /\ {} \cup {bp} = {bp}
      OBVIOUS
    <3>2. Rewritten(m, B, g2, B2, {})
      BY <2>4, <2>7, <3>1, RewrittenTwice
    <3> QED BY <2>10, <3>1, <3>2, RewrittenTwice
  <2>12. bp \in B => ~m.head[bp].alloc
    BY <2>4 DEF Rewritten, Intact
  <2> QED BY <2>3, <2>10, <2>11, <2>12 DEF got
<1> QED BY <1>2, <1>3

\* mm_free.
LEMMA ReleasedFacts ==
  ASSUME NEW m \in Mem, NEW B, Tiled(m, B), m.rover \in B, NEW bp \in B, bp # 1
  PROVE  \E B2 : /\ Rewritten(m, B, Released(m, bp), B2, {bp})
                 /\ bp \in B2 => ~Released(m, bp).head[bp].alloc
<1> DEFINE w == content(m.head[bp].size, FALSE)
           m1 == PutBlock(m, bp, w)
           m2 == Released(m, bp)
           nx == NEXT_BLKP(m, bp)
<1>1. m2 = coalesce(m1, bp)
  BY DEF Released
<1>2. w \in Tag /\ w.size = m.head[bp].size /\ w.alloc = FALSE
  <2>1. m.head[bp].size \in 0 .. MaxUnits
    <3>1. m.head[bp] \in Tag
      BY TiledFacts
    <3> QED BY <3>1 DEF Tag
  <2> QED BY <2>1, TagFacts
<1> HIDE DEF w, m2
<1>3. /\ m1 \in Mem /\ m1.brk = m.brk /\ m1.rover = m.rover
      /\ Tiled(m1, B) /\ m1.head[bp] = w
      /\ \A u \in Unit \ {bp} : m1.head[u] = m.head[u]
      /\ \A u \in Unit \ {nx} : m1.tail[u] = m.tail[u]
  <2>1. m1 = PutBlock(m, bp, w)
    OBVIOUS
  <2> HIDE DEF m1
  <2> QED BY <1>2, <2>1, RetagTiled
<1> HIDE DEF m1
<1>4. Rewritten(m, B, m1, B, {bp})
  <2>1. ASSUME NEW b \in B \ {bp}, m.head[b].alloc
        PROVE  Intact(m, m1, B, b)
    <3>1. /\ b \in Nat /\ b \in Unit /\ bp \in Nat /\ nx \in Nat /\ bp < nx
          /\ NEXT_BLKP(m, b) \in Nat
          /\ bp <= b \/ NEXT_BLKP(m, b) <= bp
          /\ b <= bp \/ nx <= b
      BY TiledFacts
    <3> HIDE DEF nx
    <3>2. \A u \in Unit : b < u /\ u < NEXT_BLKP(m, b) => u # bp /\ u # nx
      BY <3>1 DEF Unit
    <3> QED BY <1>3, <3>1, <3>2 DEF Intact
  <2>2. ASSUME NEW b \in B \ {bp}, m1.head[b].alloc
        PROVE  b \in B /\ m.head[b].alloc
    <3>1. b \in Unit
      BY TiledFacts
    <3> QED BY <1>3, <2>2, <3>1
  <2> QED BY <1>3, <2>1, <2>2 DEF Rewritten
<1>5. m1.rover \in B /\ ~m1.head[bp].alloc
  BY <1>2, <1>3
<1>6. PICK z, B2 : z \in Nat /\ Coalesced(m1, B, bp, Merged(m1, bp), z, m2, B2)
  BY <1>1, <1>3, <1>5, CoalesceFacts
<1>7. Rewritten(m1, B, m2, B2, {})
  BY <1>3, <1>6, CoalescedRewritten
<1>8. Rewritten(m, B, m2, B2, {bp})
  <2>1. {bp} \cup {} = {bp}
    OBVIOUS
  <2> QED BY <1>4, <1>7, <2>1, RewrittenTwice
<1>9. bp \in B2 => ~m2.head[bp].alloc
  BY <1>5, <1>7 DEF Rewritten
<1> QED BY <1>8, <1>9 DEF m2

\* m2 is what Split makes of block bp and the free one behind it, and the rover
\* is not in the way.
GrowsForward(m, bp, asize, csize, m2) ==
  /\ Free(m, NEXT_BLKP(m, bp))
  /\ csize = m.head[bp].size + m.head[NEXT_BLKP(m, bp)].size
  /\ asize >= 2 /\ csize - asize >= 2
  /\ m2 = Split(m, bp, asize, csize)
  /\ m.rover \notin (bp + 1 .. NEXT_BLKP(m2, bp + asize) - 1) \ {bp + asize}

\* The block at bp has asize units, and in them what it had.
Grown(m, B, bp, asize, m2, B2) ==
  /\ Rewritten(m, B, m2, B2, {bp})
  /\ bp \in B2 /\ m2.head[bp].alloc /\ asize <= m2.head[bp].size
  /\ \A u \in Unit : bp < u /\ u < bp + asize =>
       m2.head[u] = m.head[u] /\ m2.tail[u] = m.tail[u]

\* mm_realloc into the free block behind, where it does no damage.
LEMMA GrowForwardFacts ==
  ASSUME NEW m \in Mem, NEW B, Tiled(m, B), m.rover \in B, NEW bp \in B, bp # 1,
         NEW asize \in Nat, NEW csize, NEW m2, GrowsForward(m, bp, asize, csize, m2)
  PROVE  \E B2 : Grown(m, B, bp, asize, m2, B2)
<1>0. /\ Free(m, NEXT_BLKP(m, bp))
      /\ csize = m.head[bp].size + m.head[NEXT_BLKP(m, bp)].size
      /\ asize >= 2 /\ csize - asize >= 2
      /\ m2 = Split(m, bp, asize, csize)
      /\ m.rover \notin (bp + 1 .. NEXT_BLKP(m2, bp + asize) - 1) \ {bp + asize}
  BY DEF GrowsForward
<1> USE <1>0
<1> DEFINE nx == NEXT_BLKP(m, bp)
<1>1. /\ bp \in Nat /\ m.head[bp].size \in Nat /\ nx = bp + m.head[bp].size
      /\ nx \in B \cup {m.brk} /\ bp < nx /\ m.rover \in Nat /\ nx \in Nat
      /\ \A b \in B : b \in Nat /\ (b <= bp \/ nx <= b)
  BY TiledFacts
<1>2. nx \in B /\ ~m.head[nx].alloc
  <2>1. m.head[m.brk].alloc = TRUE
    BY DEF Tiled, content
  <2> HIDE DEF nx
  <2>2. ~m.head[nx].alloc
    BY DEF Free, nx
  <2> QED BY <1>1, <2>1, <2>2
<1> HIDE DEF nx
<1>3. m.head[nx].size \in Nat /\ NEXT_BLKP(m, nx) = nx + m.head[nx].size
  BY <1>2, TiledFacts
<1>4. csize \in Nat /\ csize = NEXT_BLKP(m, nx) - bp /\ bp <= nx
  BY <1>1, <1>3 DEF nx
<1>5. \A b \in B : bp < b /\ b <= nx => ~m.head[b].alloc
  <2>1. \A b \in B : bp < b /\ b <= nx => b = nx
    BY <1>1
  <2> QED BY <1>2, <2>1
<1>6. PICK z, B2 :
        /\ z \in Nat
        /\ Carved(m, B, bp, asize, z, m2, B2)
        /\ bp + asize \in B2 /\ bp + asize < z
        /\ NEXT_BLKP(m2, bp + asize) = z
  BY <1>2, <1>4, <1>5, SplitFacts
<1>7. /\ Outside(B, bp, z) \subseteq B2 /\ m2.head[bp].alloc /\ asize <= m2.head[bp].size
      /\ bp < z /\ m2.rover = m.rover
      /\ \A u \in Unit \ {bp} : u < bp + asize => m2.head[u] = m.head[u]
      /\ \A u \in Unit : u < bp + asize => m2.tail[u] = m.tail[u]
  BY <1>6 DEF Carved
<1>8. m.rover \in B2
  <2>1. CASE m.rover = bp + asize
    BY <1>6, <2>1
  <2>2. CASE m.rover # bp + asize
    <3>1. z \in Nat /\ m.rover \notin bp + 1 .. z - 1
      BY <1>6, <2>2
    <3>2. m.rover <= bp \/ z <= m.rover
      BY <1>1, <3>1
    <3> QED BY <1>7, <3>2 DEF Outside
  <2> QED BY <2>1, <2>2
<1>9. Rewritten(m, B, m2, B2, {bp})
  <2>1. asize > 0
    OBVIOUS
  <2> QED BY <1>6, <1>8, <2>1, CarvedRewritten
<1>10. bp \in B2
  BY <1>1, <1>7 DEF Outside
<1>11. \A u \in Unit : bp < u /\ u < bp + asize =>
         m2.head[u] = m.head[u] /\ m2.tail[u] = m.tail[u]
  <2>1. \A u \in Unit : bp < u => u # bp
    BY <1>1 DEF Unit
  <2> QED BY <1>7, <2>1
<1> QED BY <1>7, <1>9, <1>10, <1>11 DEF Grown

\* The words inside a block at from are inside one at to as well.
HasMoved(m, from, to, units, m2) ==
  /\ m2 \in Mem /\ m2.brk = m.brk /\ m2.rover = m.rover
  /\ \A u \in Unit : to < u /\ u < to + units =>
       m2.head[u] = m.head[u - to + from] /\ m2.tail[u] = m.tail[u - to + from]
  /\ \A u \in Unit : ~(to < u /\ u < to + units) =>
       m2.head[u] = m.head[u] /\ m2.tail[u] = m.tail[u]
LEMMA CopiedFacts ==
  ASSUME NEW m \in Mem, NEW from \in Nat, NEW to \in Nat, NEW units \in Nat,
         from + units - 1 <= MaxUnits, NEW m2, m2 = Copied(m, from, to, units)
  PROVE  HasMoved(m, from, to, units, m2)
<1> DEFINE copy(words) == [u \in Unit |-> IF u \in to + 1 .. to + units - 1
                                          THEN words[u - to + from] ELSE words[u]]
<1>1. ASSUME NEW words \in [Unit -> Word]
      PROVE  /\ copy(words) \in [Unit -> Word]
             /\ \A u \in Unit : copy(words)[u] = IF to < u /\ u < to + units
                                                 THEN words[u - to + from] ELSE words[u]
  <2>1. \A u \in Unit : u \in to + 1 .. to + units - 1 <=> to < u /\ u < to + units
    BY DEF Unit
  <2>2. \A u \in Unit : to < u /\ u < to + units => u - to + from \in Unit
    BY HeapAssumption DEF Unit
  <2> QED BY <2>1, <2>2
<1>2. m2 = [m EXCEPT !.head = copy(@), !.tail = copy(@)]
  BY DEF Copied
<1>3. m.head \in [Unit -> Word] /\ m.tail \in [Unit -> Word]
  BY DEF Mem
<1>4. /\ copy(m.head) \in [Unit -> Word] /\ copy(m.tail) \in [Unit -> Word]
      /\ \A u \in Unit : copy(m.head)[u] = IF to < u /\ u < to + units
                                           THEN m.head[u - to + from] ELSE m.head[u]
      /\ \A u \in Unit : copy(m.tail)[u] = IF to < u /\ u < to + units
                                           THEN m.tail[u - to + from] ELSE m.tail[u]
  <2> HIDE DEF copy
  <2> QED BY <1>1, <1>3
<1> HIDE DEF copy
<1>5. /\ m2 \in Mem /\ m2.brk = m.brk /\ m2.rover = m.rover
      /\ m2.head = copy(m.head) /\ m2.tail = copy(m.tail)
  BY <1>2, <1>4 DEF Mem
<1> QED BY <1>4, <1>5 DEF HasMoved

\* What GrowBackward makes of the two blocks.
Shifted(m, prev, asize, csize) ==
  IF csize - asize >= 2
  THEN PutBlock(PutBlock(m, prev, content(asize, TRUE)),
                prev + asize, content(csize - asize, FALSE))
  ELSE PutBlock(m, prev, content(csize, TRUE))

\* m2 is what GrowBackward makes of block bp and the free one at prev, and the
\* rover is not in the way.
GrowsBackward(m, bp, prev, old, asize, csize, moved, m2) ==
  /\ prev = PREV_BLKP(m, bp) /\ Free(m, prev)
  /\ old = m.head[bp].size /\ csize = old + m.head[prev].size
  /\ asize >= 2 /\ old < asize /\ asize <= csize
  /\ moved = Copied(m, bp, prev, old)
  /\ m2 = Shifted(moved, prev, asize, csize)
  /\ m.rover # bp \/ prev + asize = bp

\* The block at prev has asize units, and in them what the one at bp had.
Moved(m, B, bp, prev, old, asize, m2, B2) ==
  /\ Rewritten(m, B, m2, B2, {bp, prev})
  /\ prev \in B2 \ {1} /\ m2.head[prev].alloc /\ asize <= m2.head[prev].size
  /\ bp \in B2 => ~m2.head[bp].alloc
  /\ \A u \in Unit : prev < u /\ u < prev + old =>
       m2.head[u] = m.head[u - prev + bp] /\ m2.tail[u] = m.tail[u - prev + bp]

\* mm_realloc into the free block in front, where it does no damage.
LEMMA GrowBackwardFacts ==
  ASSUME NEW m \in Mem, NEW B, Tiled(m, B), m.rover \in B, NEW bp \in B, bp # 1,
         NEW prev, NEW old, NEW asize \in Nat, NEW csize, NEW moved, NEW m2,
         GrowsBackward(m, bp, prev, old, asize, csize, moved, m2)
  PROVE  \E B2 : Moved(m, B, bp, prev, old, asize, m2, B2)
<1> SUFFICES ASSUME prev = PREV_BLKP(m, bp), Free(m, prev),
                    old = m.head[bp].size, csize = old + m.head[prev].size,
                    asize >= 2, old < asize, asize <= csize,
                    moved = Copied(m, bp, prev, old),
                    m2 = Shifted(moved, prev, asize, csize),
                    m.rover # bp \/ prev + asize = bp
             PROVE  \E B2 : Moved(m, B, bp, prev, old, asize, m2, B2)
  BY DEF GrowsBackward
<1> DEFINE z == NEXT_BLKP(m, bp)
           rest == prev + asize
           c == content(csize, TRUE)
           c1 == content(asize, TRUE)
           w == content(csize - asize, FALSE)
           v == PutBlock(m, prev, c)
           whole == PutBlock(moved, prev, c)
           p1 == PutBlock(moved, prev, c1)
           cut == PutBlock(p1, rest, w)
           Bv == Outside(B, prev, z)
<1>1. PICK a \in B : NEXT_BLKP(m, a) = bp
  BY DEF Tiled, heap_listp
<1>2. /\ a \in Nat /\ a < bp /\ m.head[a].size \in Nat /\ a + m.head[a].size = bp
      /\ m.tail[bp] = m.head[a] /\ bp \in Nat /\ bp \in Unit /\ a \in Unit
      /\ old \in Nat /\ old >= 2 /\ z = bp + old /\ z \in Unit /\ z \in Nat /\ bp < z
      /\ z \in B \cup {m.brk} /\ m.brk \in Unit /\ m.brk \in Nat /\ z <= m.brk /\ 1 \in B
      /\ \A b \in B : b \in Unit /\ b \in Nat /\ (b <= a \/ bp <= b) /\ (b <= bp \/ z <= b)
                      /\ b < m.brk
  BY <1>1, TiledFacts
<1>3. prev = a
  BY <1>2 DEF PREV_BLKP
<1>4. a # 1 /\ ~m.head[a].alloc
  <2>1. m.head[1].alloc = TRUE
    BY DEF Tiled, heap_listp, content
  <2> QED BY <1>3, <2>1 DEF Free
<1> HIDE DEF z, rest, c, c1, w
<1>5. /\ csize \in Nat /\ z = prev + csize /\ prev \in Nat /\ prev \in Unit /\ prev \in B
      /\ prev < bp /\ old \in Nat /\ old >= 2 /\ z = bp + old /\ bp \in Nat /\ bp < z
      /\ z \in Nat /\ z \in Unit /\ prev < z /\ m.brk \in Nat /\ m.brk \in Unit
      /\ z <= m.brk /\ prev # 1 /\ bp \in Unit
  BY <1>2, <1>3, <1>4
<1>0. \A u \in Unit : u \in Nat
  BY DEF Unit
<1>6. c \in Tag /\ c.size = csize /\ c.alloc = TRUE
  <2>1. csize \in 0 .. MaxUnits
    BY <1>2, <1>5, HeapAssumption DEF Unit
  <2> QED BY <2>1, TagFacts DEF c
<1>7. /\ moved \in Mem /\ moved.brk = m.brk /\ moved.rover = m.rover
      /\ \A u \in Unit : prev < u /\ u < prev + old =>
           moved.head[u] = m.head[u - prev + bp] /\ moved.tail[u] = m.tail[u - prev + bp]
      /\ \A u \in Unit : ~(prev < u /\ u < prev + old) =>
           moved.head[u] = m.head[u] /\ moved.tail[u] = m.tail[u]
  <2>1. bp + old - 1 <= MaxUnits
    BY <1>2, HeapAssumption DEF Unit
  <2>2. /\ bp \in Nat /\ prev \in Nat /\ old \in Nat
    BY <1>5
  <2>3. HasMoved(m, bp, prev, old, moved)
    BY <2>1, <2>2, CopiedFacts
  <2> QED BY <2>3 DEF HasMoved
<1>8. /\ v \in Mem /\ v.brk = m.brk
      /\ \A u \in Unit : v.head[u] = IF u = prev THEN c ELSE m.head[u]
      /\ \A u \in Unit : v.tail[u] = IF u = z THEN c ELSE m.tail[u]
  <2>1. /\ v \in Mem /\ v.brk = m.brk
        /\ \A u \in Unit : v.head[u] = IF u = prev THEN c ELSE m.head[u]
        /\ \A u \in Unit : v.tail[u] = IF u = prev + c.size THEN c ELSE m.tail[u]
    <3>1. prev \in Unit /\ c \in Tag
      BY <1>5, <1>6
    <3> QED BY <3>1, PutBlockFacts
  <2> HIDE DEF v
  <2> QED BY <1>5, <1>6, <2>1
<1>9. /\ whole \in Mem /\ whole.brk = m.brk /\ whole.rover = m.rover
      /\ \A u \in Unit : whole.head[u] = IF u = prev THEN c ELSE moved.head[u]
      /\ \A u \in Unit : whole.tail[u] = IF u = z THEN c ELSE moved.tail[u]
  <2>1. /\ whole \in Mem /\ whole.brk = moved.brk /\ whole.rover = moved.rover
        /\ \A u \in Unit : whole.head[u] = IF u = prev THEN c ELSE moved.head[u]
        /\ \A u \in Unit : whole.tail[u] = IF u = prev + c.size THEN c ELSE moved.tail[u]
    <3>1. prev \in Unit /\ c \in Tag /\ moved \in Mem
      BY <1>5, <1>6, <1>7
    <3> QED BY <3>1, PutBlockFacts
  <2> HIDE DEF whole
  <2> QED BY <1>5, <1>6, <1>7, <2>1
<1> HIDE DEF v, whole
<1>10. Tiled(v, Bv)
  <2>1. v.head[prev] = c /\ v.tail[z] = c /\ c.size = z - prev
    BY <1>2, <1>5, <1>6, <1>8
  <2>2. prev # 1 /\ prev <= bp
    BY <1>5
  <2>3. /\ \A u \in (B \cup {m.brk}) \ {prev} : v.head[u] = m.head[u]
        /\ \A u \in (B \cup {m.brk}) \ {z} : v.tail[u] = m.tail[u]
    BY <1>2, <1>8
  <2> QED BY <1>5, <1>6, <1>8, <2>1, <2>2, <2>3, MergeTiled DEF z
<1>11. /\ Bv \cup {m.brk} \subseteq Unit
       /\ \A b \in Bv \cup {m.brk} : b \in Nat /\ (b <= prev \/ z <= b)
       /\ prev \in Bv /\ z \in Bv \cup {m.brk}
  <2>1. Bv \cup {m.brk} \subseteq Unit
    BY <1>2 DEF Outside
  <2>2. \A b \in Bv : b <= prev \/ z <= b
    BY DEF Outside
  <2>3. prev \in Bv /\ z \in Bv \cup {m.brk}
    BY <1>2, <1>5 DEF Outside
  <2> QED BY <1>0, <1>5, <2>1, <2>2, <2>3
\* The blocks in use are those from outside, whatever became of the rest.
<1>12. ASSUME NEW B2, Tiled(m2, B2), m2 \in Mem, m2.rover = m.rover, Bv \subseteq B2,
              \A b \in B2 \ Bv : ~m2.head[b].alloc /\ b = rest,
              m.rover # bp \/ bp \in B2,
              \A u \in Unit : u < prev \/ z <= u => m2.head[u] = m.head[u],
              \A u \in Unit : u <= prev \/ z < u => m2.tail[u] = m.tail[u]
       PROVE  Rewritten(m, B, m2, B2, {bp, prev})
  <2>1. ASSUME NEW b \in B
        PROVE  b = prev \/ b = bp \/ (b \in Bv /\ (b < prev \/ z <= b))
    <3>1. b <= prev \/ bp <= b
      BY <1>2, <1>3
    <3>2. b <= bp \/ z <= b
      BY <1>2
    <3>3. b \in Nat
      BY <1>2
    <3>4. b < prev \/ z <= b => b \in Bv
      BY <1>5, <3>3 DEF Outside
    <3> QED BY <1>2, <1>5, <3>1, <3>2, <3>3, <3>4
  <2>2. m2.rover \in B2
    <3>1. m.rover \in B /\ prev \in Bv
      BY <1>11
    <3> QED BY <1>12, <2>1, <3>1
  <2>3. ASSUME NEW b \in B \ {bp, prev}, m.head[b].alloc
        PROVE  Intact(m, m2, B2, b)
    <3>1. b \in Bv /\ (b < prev \/ z <= b)
      BY <2>1
    <3>2. /\ b \in Nat /\ b \in Unit /\ NEXT_BLKP(m, b) \in Nat
          /\ prev <= b \/ NEXT_BLKP(m, b) <= prev
      BY <1>5, TiledFacts
    <3>3. \A u \in Unit : b < u /\ u < NEXT_BLKP(m, b) => u < prev \/ z < u
      BY <1>2, <1>5, <3>1, <3>2 DEF Unit
    <3>4. \A u \in Unit : u \in Nat
      BY DEF Unit
    <3>5. \A u \in Unit : u < prev \/ z < u => m2.head[u] = m.head[u] /\ m2.tail[u] = m.tail[u]
      <4>1. \A u \in Unit : u < prev \/ z < u =>
              (u < prev \/ z <= u) /\ (u <= prev \/ z < u)
        <5>1. prev \in Nat /\ z \in Nat /\ prev < z
          BY <1>5
        <5> QED BY <3>4, <5>1
      <4> QED BY <1>12, <4>1
    <3>6. m2.head[b] = m.head[b]
      BY <1>12, <3>1, <3>2
    <3> QED BY <1>12, <3>1, <3>3, <3>5, <3>6 DEF Intact
  <2>4. ASSUME NEW b \in B2 \ {bp, prev}, m2.head[b].alloc
        PROVE  b \in B /\ m.head[b].alloc
    <3>1. b \in Bv
      BY <1>12, <2>4
    <3>2. b \in B
      BY <3>1 DEF Outside
    <3>3. b < prev \/ z <= b
      BY <2>1, <2>4, <3>2
    <3>4. b \in Unit
      BY <1>2, <3>2
    <3>5. m2.head[b] = m.head[b]
      BY <1>12, <3>3, <3>4
    <3> QED BY <2>4, <3>2, <3>5
  <2> QED BY <1>12, <2>2, <2>3, <2>4 DEF Rewritten
<1>13. CASE csize - asize >= 2
  <2>1. /\ rest = prev + asize /\ rest \in Nat /\ prev < rest /\ rest < z /\ z - rest = csize - asize
        /\ prev + old < rest
    BY <1>5, <1>13 DEF rest
  <2>2. rest \in Unit
    BY <1>5, <2>1, HeapAssumption DEF Unit
  <2>3. /\ c1 \in Tag /\ w \in Tag /\ c1.size = asize /\ w.size = csize - asize
        /\ c1.alloc = TRUE /\ w.alloc = FALSE
    <3>1. asize \in 0 .. MaxUnits /\ csize - asize \in 0 .. MaxUnits
      BY <1>2, <1>5, <1>13, <2>1, HeapAssumption DEF Unit
    <3> QED BY <3>1, TagFacts DEF c1, w
  <2>4. /\ p1 \in Mem /\ p1.brk = m.brk /\ p1.rover = m.rover
        /\ \A u \in Unit : p1.head[u] = IF u = prev THEN c1 ELSE moved.head[u]
        /\ \A u \in Unit : p1.tail[u] = IF u = rest THEN c1 ELSE moved.tail[u]
    <3>1. /\ p1 \in Mem /\ p1.brk = moved.brk /\ p1.rover = moved.rover
          /\ \A u \in Unit : p1.head[u] = IF u = prev THEN c1 ELSE moved.head[u]
          /\ \A u \in Unit : p1.tail[u] = IF u = prev + c1.size THEN c1 ELSE moved.tail[u]
      <4>1. prev \in Unit /\ c1 \in Tag /\ moved \in Mem
        BY <1>5, <1>7, <2>3
      <4> QED BY <4>1, PutBlockFacts
    <3> HIDE DEF p1
    <3> QED BY <1>7, <2>1, <2>3, <3>1
  <2> HIDE DEF p1
  <2>5. /\ cut \in Mem /\ cut.brk = m.brk /\ cut.rover = m.rover
        /\ \A u \in Unit : cut.head[u] = IF u = rest THEN w ELSE IF u = prev THEN c1
                                         ELSE moved.head[u]
        /\ \A u \in Unit : cut.tail[u] = IF u = z THEN w ELSE IF u = rest THEN c1
                                         ELSE moved.tail[u]
    <3>1. /\ cut \in Mem /\ cut.brk = p1.brk /\ cut.rover = p1.rover
          /\ \A u \in Unit : cut.head[u] = IF u = rest THEN w ELSE p1.head[u]
          /\ \A u \in Unit : cut.tail[u] = IF u = rest + w.size THEN w ELSE p1.tail[u]
      <4>1. rest \in Unit /\ w \in Tag /\ p1 \in Mem
        BY <2>2, <2>3, <2>4
      <4> QED BY <4>1, PutBlockFacts
    <3>2. rest + w.size = z
      BY <1>2, <2>1, <2>3
    <3> HIDE DEF cut
    <3> QED BY <2>4, <3>1, <3>2
  <2>6. m2 = cut
    BY <1>13 DEF cut, p1, c1, w, rest, Shifted
  <2> HIDE DEF cut
  <2>7. Tiled(cut, Bv \cup {rest}) /\ rest \notin Bv
    <3>1. cut.head[prev] = c1 /\ cut.tail[rest] = c1 /\ cut.head[rest] = w /\ cut.tail[z] = w
      BY <1>2, <1>5, <2>1, <2>2, <2>5
    <3>2. \A u \in Bv \cup {v.brk} : u \in Unit /\ u # rest /\ ~(prev < u /\ u < prev + old)
      BY <1>5, <1>8, <1>11, <2>1
    <3>3. /\ \A u \in (Bv \cup {v.brk}) \ {prev} : cut.head[u] = v.head[u]
          /\ \A u \in (Bv \cup {v.brk}) \ {z} : cut.tail[u] = v.tail[u]
      BY <1>7, <1>8, <2>5, <3>2
    <3>4. /\ v.head[prev] = c /\ c.size = c1.size + w.size /\ c1.size >= 2 /\ w.size >= 2
          /\ rest = prev + c1.size /\ NEXT_BLKP(v, prev) = z
      BY <1>5, <1>6, <1>8, <1>13, <2>1, <2>3 DEF NEXT_BLKP
    <3>5. /\ v \in Mem /\ prev # 1 /\ cut \in Mem /\ cut.brk = v.brk /\ prev \in Bv
          /\ c1 \in Tag /\ w \in Tag /\ v.head[prev].size = c1.size + w.size
      BY <1>3, <1>4, <1>8, <1>11, <2>3, <2>5, <3>4
    <3> HIDE DEF Bv
    <3>6. Cut(v, Bv, prev, rest, c1, w, cut)
      BY <3>1, <3>3, <3>4, <3>5 DEF Cut
    <3> QED BY <1>10, <3>5, <3>6, CutTiled
  <2> DEFINE B2 == Bv \cup {rest}
  <2>8. \A u \in Unit : u \in Nat
    BY DEF Unit
  <2>9. /\ \A b \in B2 \ Bv : ~m2.head[b].alloc /\ b = rest
        /\ m.rover # bp \/ bp \in B2
    BY <2>2, <2>3, <2>5, <2>6 DEF rest
  <2>10. ASSUME NEW u \in Unit, u < prev \/ z <= u
         PROVE  m2.head[u] = m.head[u]
    <3>1. u # prev /\ u # rest /\ ~(prev < u /\ u < prev + old)
      <4>1. u \in Nat
        BY <2>8
      <4> QED BY <1>5, <2>1, <2>10, <4>1
    <3>2. cut.head[u] = moved.head[u] /\ moved.head[u] = m.head[u]
      BY <1>7, <2>5, <3>1
    <3> QED BY <2>6, <3>2
  <2>11. ASSUME NEW u \in Unit, u <= prev \/ z < u
         PROVE  m2.tail[u] = m.tail[u]
    <3>1. u # z /\ u # rest /\ ~(prev < u /\ u < prev + old)
      BY <1>5, <2>1, <2>8, <2>11
    <3>2. cut.tail[u] = moved.tail[u] /\ moved.tail[u] = m.tail[u]
      BY <1>7, <2>5, <3>1
    <3> QED BY <2>6, <3>2
  <2>12. Rewritten(m, B, m2, B2, {bp, prev})
    BY <1>12, <2>5, <2>6, <2>7, <2>9, <2>10, <2>11
  <2>13. prev \in B2 \ {1} /\ m2.head[prev].alloc /\ asize <= m2.head[prev].size
    <3>1. prev # rest
      BY <1>5, <2>1
    <3>2. cut.head[prev] = c1
      BY <1>5, <2>5, <3>1
    <3>3. m2.head[prev] = c1
      BY <2>6, <3>2
    <3>4. m2.head[prev].alloc = TRUE /\ m2.head[prev].size = asize
      BY <2>3, <3>3
    <3>5. asize <= m2.head[prev].size
      BY <3>4
    <3> QED BY <1>5, <1>11, <3>4, <3>5
  <2>14. bp \in B2 => ~m2.head[bp].alloc
    <3>1. ~(bp <= prev \/ z <= bp)
      BY <1>5
    <3>2. bp \notin Bv
      BY <3>1 DEF Outside
    <3> QED BY <2>9, <3>2
  <2>15. ASSUME NEW u \in Unit, prev < u, u < prev + old
         PROVE  m2.head[u] = m.head[u - prev + bp] /\ m2.tail[u] = m.tail[u - prev + bp]
    <3>1. u # prev /\ u # rest /\ u # z
      BY <1>5, <2>1, <2>8, <2>15
    <3>2. cut.head[u] = moved.head[u] /\ cut.tail[u] = moved.tail[u]
      BY <2>5, <3>1
    <3> QED BY <1>7, <2>6, <2>15, <3>2
  <2> HIDE DEF B2
  <2> QED BY <2>12, <2>13, <2>14, <2>15 DEF Moved
<1>14. CASE ~(csize - asize >= 2)
  <2>1. m2 = whole
    BY <1>14 DEF whole, c, Shifted
  <2>2. \A u \in Bv \cup {m.brk} : u \in Unit /\ ~(prev < u /\ u < prev + old)
    BY <1>2, <1>5, <1>11
  <2>3. Tiled(m2, Bv)
    <3>1. \A u \in Bv \cup {v.brk} : whole.head[u] = v.head[u] /\ whole.tail[u] = v.tail[u]
      BY <1>7, <1>8, <1>9, <2>2
    <3>2. whole.brk = v.brk /\ v \in Mem
      BY <1>8, <1>9
    <3> HIDE DEF Bv
    <3>3. Tiled(whole, Bv)
      BY <1>10, <3>1, <3>2, SameTags
    <3> QED BY <2>1, <3>3
  <2>4. \A u \in Unit : u \in Nat
    BY DEF Unit
  <2>5. m.rover # bp
    <3>1. csize - asize < 2
      BY <1>5, <1>14
    <3> QED BY <1>5, <3>1
  <2>6. ASSUME NEW u \in Unit, u < prev \/ z <= u
        PROVE  m2.head[u] = m.head[u]
    <3>1. u # prev /\ ~(prev < u /\ u < prev + old)
      BY <1>5, <2>4, <2>6
    <3>2. whole.head[u] = moved.head[u] /\ moved.head[u] = m.head[u]
      BY <1>7, <1>9, <3>1
    <3> QED BY <2>1, <3>2
  <2>7. ASSUME NEW u \in Unit, u <= prev \/ z < u
        PROVE  m2.tail[u] = m.tail[u]
    <3>1. u # z /\ ~(prev < u /\ u < prev + old)
      BY <1>5, <2>4, <2>7
    <3>2. whole.tail[u] = moved.tail[u] /\ moved.tail[u] = m.tail[u]
      BY <1>7, <1>9, <3>1
    <3> QED BY <2>1, <3>2
  <2>8. Rewritten(m, B, m2, Bv, {bp, prev})
    BY <1>9, <1>12, <2>1, <2>3, <2>5, <2>6, <2>7
  <2>9. prev \in Bv \ {1} /\ m2.head[prev].alloc /\ asize <= m2.head[prev].size
    <3>1. whole.head[prev] = c
      BY <1>5, <1>9
    <3> QED BY <1>5, <1>6, <1>11, <2>1, <3>1
  <2>10. bp \notin Bv
    <3>1. ~(bp <= prev \/ z <= bp)
      BY <1>5
    <3> QED BY <3>1 DEF Outside
  <2>11. ASSUME NEW u \in Unit, prev < u, u < prev + old
         PROVE  m2.head[u] = m.head[u - prev + bp] /\ m2.tail[u] = m.tail[u - prev + bp]
    <3>1. u # prev /\ u # z
      BY <1>5, <2>4, <2>11
    <3>2. whole.head[u] = moved.head[u] /\ whole.tail[u] = moved.tail[u]
      BY <1>9, <3>1
    <3> QED BY <1>7, <2>1, <2>11, <3>2
  <2> HIDE DEF Bv
  <2> QED BY <2>8, <2>9, <2>10, <2>11 DEF Moved
<1> QED BY <1>13, <1>14

-----------------------------------------------------------------------------
(* What the clients have.                                                  *)

\* A block that is large enough for size bytes holds them between its tags.
LEMMA PayloadInside ==
  ASSUME NEW size \in Sizes, NEW bp \in Nat, NEW s \in Nat, AlignedUnits(size) <= s
  PROVE  /\ AlignedUnits(size) \in Nat /\ AlignedUnits(size) >= 2
         /\ Payload(bp, size) \subseteq Nat
         /\ \A u \in Payload(bp, size) : bp < u /\ u < bp + AlignedUnits(size) /\ u < bp + s
         /\ bp + 1 \in Payload(bp, size)
<1> DEFINE k == (size + 7) \div 8
           n == AlignedUnits(size)
<1>1. size \in Nat /\ size > 0
  BY HeapAssumption
<1>2. k \in Nat /\ k >= 1 /\ n \in Nat /\ n >= k + 1
  <2>1. CASE size <= 8
    <3>1. n = 2
      BY <2>1 DEF AlignedUnits
    <3>2. k = 1
      BY <1>1, <2>1
    <3> QED BY <3>1, <3>2
  <2>2. CASE ~(size <= 8)
    <3>1. n = (size + 15) \div 8
      BY <2>2 DEF AlignedUnits
    <3>2. (size + 15) \div 8 = k + 1 /\ k \in Nat /\ k >= 1
      BY <1>1, <2>2
    <3> QED BY <3>1, <3>2
  <2> QED BY <2>1, <2>2
<1>3. Payload(bp, size) = bp + 1 .. bp + k
  BY DEF Payload
<1> HIDE DEF k, n
<1>4. n <= s
  BY DEF n
<1>5. /\ n \in Nat /\ n >= 2 /\ Payload(bp, size) \subseteq Nat
      /\ \A u \in Payload(bp, size) : bp < u /\ u < bp + n /\ u < bp + s
      /\ bp + 1 \in Payload(bp, size)
  BY <1>2, <1>3, <1>4
<1> QED BY <1>5 DEF n

LiveTable == [Name -> [ptr : Unit, size : Sizes] \cup {NoBlock}]

\* Client c has the block of record r, and in it what it wrote.
HasBlock(m, B, r, c) ==
  /\ r.ptr \in B \ {1} /\ r.size \in Sizes
  /\ m.head[r.ptr].alloc /\ AlignedUnits(r.size) <= m.head[r.ptr].size
  /\ \A u \in Payload(r.ptr, r.size) : m.head[u] = c /\ m.tail[u] = c

\* The blocks in use are those of the clients.
Owned(m, lv, B) ==
  /\ m \in Mem /\ lv \in LiveTable /\ Tiled(m, B) /\ m.rover \in B
  /\ \A c \in Name : lv[c] # NoBlock => HasBlock(m, B, lv[c], c)
  /\ \A b \in B \ {1} : m.head[b].alloc => \E c \in Name : lv[c] # NoBlock /\ lv[c].ptr = b

\* What a client has lies inside its block.
LEMMA HasBlockFacts ==
  ASSUME NEW m \in Mem, NEW B, Tiled(m, B), NEW r, NEW c, HasBlock(m, B, r, c)
  PROVE  /\ r.ptr \in Nat /\ r.ptr \in Unit /\ r.ptr \in B
         /\ r.ptr + 1 \in Payload(r.ptr, r.size)
         /\ AlignedUnits(r.size) \in Nat
         /\ \A u \in Payload(r.ptr, r.size) :
              /\ u \in Nat /\ u \in Unit /\ r.ptr < u /\ u < NEXT_BLKP(m, r.ptr)
              /\ u < r.ptr + AlignedUnits(r.size)
              /\ u \notin B \cup {m.brk}
<1> DEFINE p == r.ptr
           s == m.head[p].size
<1>1. p \in B /\ r.size \in Sizes /\ AlignedUnits(r.size) <= s
  BY DEF HasBlock
<1>2. /\ p \in Nat /\ p \in Unit /\ s \in Nat /\ NEXT_BLKP(m, p) = p + s
      /\ NEXT_BLKP(m, p) <= m.brk /\ m.brk \in Nat /\ m.brk \in Unit /\ NEXT_BLKP(m, p) \in Unit
      /\ \A b \in B : b \in Nat /\ (b <= p \/ NEXT_BLKP(m, p) <= b)
  BY <1>1, TiledFacts
<1> HIDE DEF p, s
<1>3. /\ Payload(p, r.size) \subseteq Nat /\ AlignedUnits(r.size) \in Nat
      /\ \A u \in Payload(p, r.size) : p < u /\ u < p + AlignedUnits(r.size) /\ u < p + s
      /\ p + 1 \in Payload(p, r.size)
  BY <1>1, <1>2, PayloadInside
<1>4. ASSUME NEW u \in Payload(p, r.size)
      PROVE  /\ u \in Nat /\ u \in Unit /\ p < u /\ u < NEXT_BLKP(m, p)
             /\ u < p + AlignedUnits(r.size)
             /\ u \notin B \cup {m.brk}
  <2>1. u \in Nat /\ p < u /\ u < p + s /\ u < p + AlignedUnits(r.size)
    BY <1>3
  <2>2. u \in Unit
    BY <1>2, <2>1, HeapAssumption DEF Unit
  <2>3. u \notin B \cup {m.brk}
    BY <1>2, <2>1
  <2> QED BY <1>2, <2>1, <2>2, <2>3
<1> QED BY <1>1, <1>2, <1>3, <1>4 DEF p

\* Two clients do not have the same block.
LEMMA OneOwner ==
  ASSUME NEW m \in Mem, NEW B, Tiled(m, B), NEW r, NEW c, NEW q, NEW d,
         HasBlock(m, B, r, c), HasBlock(m, B, q, d), r.ptr = q.ptr
  PROVE  c = d
<1>1. r.ptr + 1 \in Payload(r.ptr, r.size) /\ q.ptr + 1 \in Payload(q.ptr, q.size)
  BY HasBlockFacts
<1> QED BY <1>1 DEF HasBlock

\* A block that is not rewritten stays its client's.
LEMMA StillHas ==
  ASSUME NEW m \in Mem, NEW B, Tiled(m, B), NEW m2, NEW B2, NEW X,
         Rewritten(m, B, m2, B2, X), NEW r, NEW c, HasBlock(m, B, r, c), r.ptr \notin X
  PROVE  HasBlock(m2, B2, r, c)
<1>1. Intact(m, m2, B2, r.ptr)
  BY DEF HasBlock, Rewritten
<1>2. \A u \in Payload(r.ptr, r.size) :
        u \in Unit /\ r.ptr < u /\ u < NEXT_BLKP(m, r.ptr)
  BY HasBlockFacts
<1> QED BY <1>1, <1>2 DEF Intact, HasBlock

\* What is cleared is of no one.
LEMMA SettleOwned ==
  ASSUME NEW m, NEW lv, NEW B, Owned(m, lv, B), ~damaged'
  PROVE  Owned(Settle(m, lv), lv, B)
<1> DEFINE data == UNION {Payload(lv[c].ptr, lv[c].size) : c \in {x \in Name : lv[x] # NoBlock}}
           tags == Blocks(m) \cup {m.brk}
           clear(words) == [u \in Unit |-> IF u \in tags \cup data THEN words[u]
                                          ELSE content(0, FALSE)]
           m2 == Settle(m, lv)
<1>1. m2 = [m EXCEPT !.head = clear(@), !.tail = clear(@)]
  BY DEF Settle
<1>2. m \in Mem /\ Tiled(m, B) /\ m.rover \in B /\ lv \in LiveTable
  BY DEF Owned
<1>3. tags = B \cup {m.brk}
  BY <1>2, WalkTiles
<1>4. content(0, FALSE) \in Word
  <2>1. 0 \in 0 .. MaxUnits
    BY HeapAssumption
  <2> QED BY <2>1, TagFacts DEF Word
<1> HIDE DEF data, tags, m2
<1>5. /\ m2 \in Mem /\ m2.brk = m.brk /\ m2.rover = m.rover
      /\ \A u \in Unit : u \in tags \cup data =>
           m2.head[u] = m.head[u] /\ m2.tail[u] = m.tail[u]
  <2>1. clear(m.head) \in [Unit -> Word] /\ clear(m.tail) \in [Unit -> Word]
    BY <1>2, <1>4 DEF Mem
  <2>2. \A u \in Unit : u \in tags \cup data =>
          clear(m.head)[u] = m.head[u] /\ clear(m.tail)[u] = m.tail[u]
    OBVIOUS
  <2> HIDE DEF clear
  <2>3. /\ m2 \in Mem /\ m2.brk = m.brk /\ m2.rover = m.rover
        /\ m2.head = clear(m.head) /\ m2.tail = clear(m.tail)
    BY <1>1, <1>2, <2>1 DEF Mem
  <2> QED BY <2>2, <2>3
<1>6. B \cup {m.brk} \subseteq Unit
  BY <1>2 DEF Tiled, Mem
<1>7. Tiled(m2, B)
  BY <1>2, <1>3, <1>5, <1>6, SameTags
<1>8. ASSUME NEW c \in Name, lv[c] # NoBlock
      PROVE  HasBlock(m2, B, lv[c], c)
  <2>1. HasBlock(m, B, lv[c], c)
    BY <1>8 DEF Owned
  <2>2. \A u \in Payload(lv[c].ptr, lv[c].size) : u \in Unit
    BY <1>2, <2>1, HasBlockFacts
  <2>3. Payload(lv[c].ptr, lv[c].size) \subseteq data
    BY <1>8 DEF data
  <2>4. \A u \in Payload(lv[c].ptr, lv[c].size) : m2.head[u] = c /\ m2.tail[u] = c
    BY <1>5, <2>1, <2>2, <2>3 DEF HasBlock
  <2>5. m2.head[lv[c].ptr] = m.head[lv[c].ptr]
    BY <1>3, <1>5, <1>6, <2>1 DEF HasBlock
  <2> QED BY <2>1, <2>4, <2>5 DEF HasBlock
<1>9. \A b \in B : m2.head[b] = m.head[b]
  BY <1>3, <1>5, <1>6
<1> QED BY <1>2, <1>5, <1>7, <1>8, <1>9 DEF Owned, m2

\* What a client writes into its block is in no other.
LEMMA FillOwned ==
  ASSUME NEW m \in Mem, NEW B, Tiled(m, B), m.rover \in B, NEW c \in Name,
         NEW lv \in LiveTable, lv[c] # NoBlock,
         lv[c].ptr \in B \ {1}, m.head[lv[c].ptr].alloc,
         AlignedUnits(lv[c].size) <= m.head[lv[c].ptr].size,
         NEW units \in SUBSET Payload(lv[c].ptr, lv[c].size),
         \A u \in Payload(lv[c].ptr, lv[c].size) \ units : m.head[u] = c /\ m.tail[u] = c,
         \A d \in Name \ {c} : lv[d] # NoBlock =>
           HasBlock(m, B, lv[d], d) /\ lv[d].ptr # lv[c].ptr,
         \A b \in B \ {1} : m.head[b].alloc => \E d \in Name : lv[d] # NoBlock /\ lv[d].ptr = b
  PROVE  Owned(Fill(m, c, units), lv, B)
<1> DEFINE m2 == Fill(m, c, units)
           p == lv[c].ptr
           size == lv[c].size
<1>1. /\ m2 \in Mem /\ m2.brk = m.brk /\ m2.rover = m.rover
      /\ \A u \in Unit : u \in units => m2.head[u] = c /\ m2.tail[u] = c
      /\ \A u \in Unit : u \notin units => m2.head[u] = m.head[u] /\ m2.tail[u] = m.tail[u]
  <2>1. c \in Word
    BY DEF Word
  <2> QED BY <2>1 DEF Fill, Mem
<1> HIDE DEF m2
<1>2. size \in Sizes
  BY DEF LiveTable
<1>3. /\ p \in Nat /\ m.head[p].size \in Nat /\ NEXT_BLKP(m, p) = p + m.head[p].size
      /\ p \in Unit /\ NEXT_BLKP(m, p) <= m.brk /\ m.brk \in Nat /\ m.brk \in Unit
      /\ \A b \in B : b \in Unit /\ b \in Nat /\ (b <= p \/ NEXT_BLKP(m, p) <= b)
  BY TiledFacts
<1>4. \A u \in Payload(p, size) :
        u \in Nat /\ u \in Unit /\ p < u /\ u < NEXT_BLKP(m, p) /\ u \notin B \cup {m.brk}
  <2>1. \A u \in Payload(p, size) : u \in Nat /\ p < u /\ u < NEXT_BLKP(m, p)
    BY <1>2, <1>3, PayloadInside
  <2>2. ASSUME NEW u \in Payload(p, size)
        PROVE  u \in Unit /\ u \notin B \cup {m.brk}
    <3>1. u \in Nat /\ p < u /\ u < NEXT_BLKP(m, p)
      BY <2>1
    <3>2. u \in Unit
      BY <1>3, <3>1, HeapAssumption DEF Unit
    <3> QED BY <1>3, <3>1, <3>2
  <2> QED BY <2>1, <2>2
<1> HIDE DEF p, size
<1>5. units \subseteq Payload(p, size)
  BY DEF p, size
<1>6. \A u \in B \cup {m.brk} : u \in Unit /\ u \notin units
  BY <1>3, <1>4, <1>5
<1>7. Tiled(m2, B)
  BY <1>1, <1>6, SameTags
<1>8. HasBlock(m2, B, lv[c], c)
  <2>1. ASSUME NEW u \in Payload(p, size)
        PROVE  m2.head[u] = c /\ m2.tail[u] = c
    BY <1>1, <1>4, <2>1 DEF p, size
  <2>2. m2.head[p] = m.head[p]
    BY <1>1, <1>6 DEF p
  <2> QED BY <1>2, <2>1, <2>2 DEF HasBlock, p, size
<1>9. ASSUME NEW d \in Name \ {c}, lv[d] # NoBlock
      PROVE  HasBlock(m2, B, lv[d], d)
  <2>1. HasBlock(m, B, lv[d], d) /\ lv[d].ptr # p
    BY <1>9 DEF p
  <2>2. /\ lv[d].ptr \in B /\ lv[d].ptr \in Nat /\ NEXT_BLKP(m, lv[d].ptr) \in Nat
        /\ \A b \in B : b <= lv[d].ptr \/ NEXT_BLKP(m, lv[d].ptr) <= b
    <3>1. lv[d].ptr \in B
      BY <2>1 DEF HasBlock
    <3> QED BY <3>1, TiledFacts
  <2>3. p \in B
    BY DEF p
  <2>4. NEXT_BLKP(m, lv[d].ptr) <= p \/ NEXT_BLKP(m, p) <= lv[d].ptr
    <3>1. lv[d].ptr <= p \/ NEXT_BLKP(m, p) <= lv[d].ptr
      BY <1>3, <2>2
    <3>2. p <= lv[d].ptr \/ NEXT_BLKP(m, lv[d].ptr) <= p
      BY <2>2, <2>3
    <3> QED BY <1>3, <2>1, <2>2, <3>1, <3>2
  <2>5. ASSUME NEW u \in Payload(lv[d].ptr, lv[d].size)
        PROVE  m2.head[u] = d /\ m2.tail[u] = d
    <3>1. u \in Nat /\ u \in Unit /\ lv[d].ptr < u /\ u < NEXT_BLKP(m, lv[d].ptr)
      BY <2>1, HasBlockFacts
    <3>2. NEXT_BLKP(m, p) \in Nat
      BY <1>3
    <3>3. ~(p < u /\ u < NEXT_BLKP(m, p))
      BY <1>3, <2>2, <2>4, <3>1, <3>2
    <3>4. u \notin units
      BY <1>4, <1>5, <3>3
    <3> QED BY <1>1, <2>1, <3>1, <3>4 DEF HasBlock
  <2>6. m2.head[lv[d].ptr] = m.head[lv[d].ptr]
    BY <1>1, <1>6, <2>2
  <2> QED BY <2>1, <2>5, <2>6 DEF HasBlock
<1>10. \A b \in B : m2.head[b] = m.head[b]
  BY <1>1, <1>6
<1>11. \A d \in Name : lv[d] # NoBlock => HasBlock(m2, B, lv[d], d)
  BY <1>8, <1>9
<1> QED BY <1>1, <1>7, <1>10, <1>11 DEF Owned, m2

\* A block that is rewritten for client c and filled is its own, and the others
\* keep theirs.
LEMMA Handed ==
  ASSUME NEW m, NEW lv, NEW B, Owned(m, lv, B), NEW c \in Name, NEW X,
         NEW m2, NEW B2, Rewritten(m, B, m2, B2, X),
         NEW bp \in B2 \ {1}, bp \in X, NEW size \in Sizes,
         m2.head[bp].alloc, AlignedUnits(size) <= m2.head[bp].size,
         \A b \in X \cap B2 : m2.head[b].alloc => b = bp,
         \A d \in Name \ {c} : lv[d] # NoBlock => lv[d].ptr \notin X,
         lv[c] # NoBlock => lv[c].ptr \in X,
         NEW lv2, lv2 = [lv EXCEPT ![c] = [ptr |-> bp, size |-> size]],
         NEW units \in SUBSET Payload(bp, size),
         \A u \in Payload(bp, size) \ units : m2.head[u] = c /\ m2.tail[u] = c,
         ~damaged'
  PROVE  Owned(Settle(Fill(m2, c, units), lv2), lv2, B2)
<1>1. /\ m \in Mem /\ lv \in LiveTable /\ Tiled(m, B)
      /\ m2 \in Mem /\ Tiled(m2, B2) /\ m2.rover \in B2
  BY DEF Owned, Rewritten
<1>2. bp \in Unit
  BY <1>1, TiledFacts
<1>3. /\ lv2 \in LiveTable /\ lv2[c] # NoBlock /\ lv2[c].ptr = bp /\ lv2[c].size = size
      /\ \A d \in Name \ {c} : lv2[d] = lv[d]
  <2>1. [ptr |-> bp, size |-> size] \in [ptr : Unit, size : Sizes]
    BY <1>2
  <2>2. [ptr |-> bp, size |-> size] # NoBlock
    BY <2>1, HeapAssumption
  <2> QED BY <1>1, <2>1, <2>2 DEF LiveTable
<1>4. ASSUME NEW d \in Name \ {c}, lv2[d] # NoBlock
      PROVE  HasBlock(m2, B2, lv2[d], d) /\ lv2[d].ptr # lv2[c].ptr
  <2>1. lv[d] # NoBlock /\ lv2[d] = lv[d]
    BY <1>3, <1>4
  <2>2. HasBlock(m, B, lv[d], d) /\ lv[d].ptr \notin X
    BY <2>1 DEF Owned
  <2>3. HasBlock(m2, B2, lv[d], d)
    BY <1>1, <2>2, StillHas
  <2> QED BY <1>3, <2>1, <2>2, <2>3
<1>5. ASSUME NEW b \in B2 \ {1}, m2.head[b].alloc
      PROVE  \E d \in Name : lv2[d] # NoBlock /\ lv2[d].ptr = b
  <2>1. CASE b \in X
    BY <1>3, <1>5, <2>1
  <2>2. CASE b \notin X
    <3>1. b \in B /\ m.head[b].alloc
      BY <1>5, <2>2 DEF Rewritten
    <3>2. PICK d \in Name : lv[d] # NoBlock /\ lv[d].ptr = b
      BY <3>1 DEF Owned
    <3> QED BY <1>3, <2>2, <3>2
  <2> QED BY <2>1, <2>2
<1>6. Owned(Fill(m2, c, units), lv2, B2)
  <2>1. /\ lv2[c].ptr \in B2 \ {1} /\ m2.head[lv2[c].ptr].alloc
        /\ AlignedUnits(lv2[c].size) <= m2.head[lv2[c].ptr].size
        /\ units \in SUBSET Payload(lv2[c].ptr, lv2[c].size)
        /\ \A u \in Payload(lv2[c].ptr, lv2[c].size) \ units : m2.head[u] = c /\ m2.tail[u] = c
    BY <1>3
  <2>2. lv2 \in LiveTable /\ lv2[c] # NoBlock
    BY <1>3
  <2> QED BY <1>1, <1>4, <1>5, <2>1, <2>2, FillOwned
<1> QED BY <1>6, SettleOwned

\* The same for a client that had a block, and keeps what was in it.
LEMMA ResizedFacts ==
  ASSUME NEW B, Owned(heap, live, B), NEW c \in Name, live[c] # NoBlock, NEW X,
         NEW m2, NEW B2, Rewritten(heap, B, m2, B2, X),
         NEW bp \in B2 \ {1}, bp \in X, NEW size \in Sizes,
         m2.head[bp].alloc, AlignedUnits(size) <= m2.head[bp].size,
         \A b \in X \cap B2 : m2.head[b].alloc => b = bp,
         live[c].ptr \in X, \A b \in X \cap B : heap.head[b].alloc => b = live[c].ptr,
         \A u \in Payload(live[c].ptr, live[c].size) :
           /\ m2.head[u + bp - live[c].ptr] = heap.head[u]
           /\ m2.tail[u + bp - live[c].ptr] = heap.tail[u],
         Resized(m2, c, bp, size), ~damaged'
  PROVE  Owned(heap', live', B2)
<1> DEFINE old == Payload(live[c].ptr, live[c].size)
           kept == {u + bp - live[c].ptr : u \in old}
           units == Payload(bp, size) \ kept
<1>1. /\ live' = [live EXCEPT ![c] = [ptr |-> bp, size |-> size]]
      /\ heap' = Settle(Fill(m2, c, units), live')
  BY DEF Resized, Keep
<1>2. HasBlock(heap, B, live[c], c) /\ heap \in Mem /\ Tiled(heap, B)
  BY DEF Owned
<1>3. \A d \in Name \ {c} : live[d] # NoBlock => live[d].ptr \notin X
  <2>1. SUFFICES ASSUME NEW d \in Name \ {c}, live[d] # NoBlock, live[d].ptr \in X
                 PROVE  FALSE
    OBVIOUS
  <2>2. HasBlock(heap, B, live[d], d)
    BY <2>1 DEF Owned
  <2>3. live[d].ptr = live[c].ptr
    BY <2>1, <2>2 DEF HasBlock
  <2> QED BY <1>2, <2>2, <2>3, OneOwner
<1>4. \A u \in Payload(bp, size) \ units : m2.head[u] = c /\ m2.tail[u] = c
  <2>1. \A u \in old : heap.head[u] = c /\ heap.tail[u] = c
    BY <1>2 DEF HasBlock
  <2>2. \A u \in kept : m2.head[u] = c /\ m2.tail[u] = c
    BY <2>1
  <2> QED BY <2>2
<1> HIDE DEF units
<1>5. units \in SUBSET Payload(bp, size)
  BY DEF units
<1> QED BY <1>1, <1>3, <1>4, <1>5, Handed

-----------------------------------------------------------------------------
(* The invariant, action by action.                                        *)

HeapIInv ==
  /\ damaged \in BOOLEAN
  /\ ~damaged => Owned(heap, live, Blocks(heap))

\* mm_malloc gives a client a block that was nobody's.
LEMMA MallocOwned ==
  ASSUME NEW B, Owned(heap, live, B), NEW c \in Name, mm_malloc(c), ~damaged'
  PROVE  \E B2 : Owned(heap', live', B2)
<1>1. PICK size \in Sizes :
        LET asize == AlignedUnits(size)
            got == Allocated(heap, asize)
        IN  /\ CanAllocate(heap, asize)
            /\ damaged' = (damaged \/ got.damages)
            /\ Keep(c, got.bp, size)
            /\ heap' = Settle(Fill(got.heap, c, Payload(got.bp, size)), live')
  BY DEF mm_malloc
<1> DEFINE asize == AlignedUnits(size)
           got == Allocated(heap, asize)
<1>2. /\ heap \in Mem /\ Tiled(heap, B) /\ heap.rover \in B
      /\ live[c] = NoBlock
  BY DEF Owned, mm_malloc
<1>3. asize \in Nat /\ asize >= 2
  <2>1. asize <= asize /\ asize \in Nat
    <3>1. size \in Nat
      BY HeapAssumption
    <3> QED BY <3>1 DEF AlignedUnits
  <2> HIDE DEF asize
  <2>2. 0 \in Nat
    OBVIOUS
  <2> QED BY <2>1, <2>2, PayloadInside DEF asize
<1>4. ~got.damages
  BY <1>1
<1>5. CanAllocate(heap, asize)
  BY <1>1
<1> HIDE DEF asize
<1>6. PICK B2 : /\ Rewritten(heap, B, got.heap, B2, {got.bp})
                /\ got.bp \in B2 \ {1} /\ got.heap.head[got.bp].alloc
                /\ asize <= got.heap.head[got.bp].size
                /\ got.bp \in B => ~heap.head[got.bp].alloc
  BY <1>2, <1>3, <1>4, <1>5, AllocatedFacts
<1> HIDE DEF got
<1>7. \A d \in Name \ {c} : live[d] # NoBlock => live[d].ptr \notin {got.bp}
  <2>1. \A d \in Name : live[d] # NoBlock => HasBlock(heap, B, live[d], d)
    BY DEF Owned
  <2> QED BY <1>6, <2>1 DEF HasBlock
<1>8. /\ live' = [live EXCEPT ![c] = [ptr |-> got.bp, size |-> size]]
      /\ heap' = Settle(Fill(got.heap, c, Payload(got.bp, size)), live')
  BY <1>1 DEF Keep, got, asize
<1>9. Owned(heap', live', B2)
  <2> DEFINE units == Payload(got.bp, size)
  <2>1. units \in SUBSET Payload(got.bp, size) /\ Payload(got.bp, size) \ units = {}
    OBVIOUS
  <2>2. AlignedUnits(size) <= got.heap.head[got.bp].size
    BY <1>6 DEF asize
  <2> DEFINE X == {got.bp}
             bp == got.bp
             m2 == got.heap
  <2>3. /\ \A b \in X \cap B2 : m2.head[b].alloc => b = bp
        /\ \A u \in Payload(bp, size) \ units : m2.head[u] = c /\ m2.tail[u] = c
        /\ bp \in X /\ bp \in B2 \ {1} /\ m2.head[bp].alloc
        /\ Rewritten(heap, B, m2, B2, X)
        /\ \A d \in Name \ {c} : live[d] # NoBlock => live[d].ptr \notin X
    BY <1>6, <1>7, <2>1
  <2>4. live[c] # NoBlock => live[c].ptr \in X
    BY <1>2
  <2>5. live' = [live EXCEPT ![c] = [ptr |-> bp, size |-> size]]
    BY <1>8
  <2> HIDE DEF units, X, bp, m2
  <2>6. Owned(Settle(Fill(m2, c, units), live'), live', B2)
    BY <2>1, <2>2, <2>3, <2>4, <2>5, Handed DEF bp, m2
  <2> QED BY <1>8, <2>6 DEF units, m2
<1> QED BY <1>9

\* mm_free takes from a client the block that was its own.
LEMMA FreeOwned ==
  ASSUME NEW B, Owned(heap, live, B), NEW c \in Name, mm_free(c), ~damaged'
  PROVE  \E B2 : Owned(heap', live', B2)
<1> DEFINE bp == live[c].ptr
           m2 == Released(heap, bp)
<1>1. /\ live[c] # NoBlock /\ live' = [live EXCEPT ![c] = NoBlock]
      /\ heap' = Settle(m2, live')
  BY DEF mm_free
<1>2. /\ heap \in Mem /\ Tiled(heap, B) /\ heap.rover \in B /\ live \in LiveTable
      /\ \A d \in Name : live[d] # NoBlock => HasBlock(heap, B, live[d], d)
  BY DEF Owned
<1>3. bp \in B /\ bp # 1
  BY <1>1, <1>2 DEF HasBlock
<1> HIDE DEF bp
<1>4. PICK B2 : /\ Rewritten(heap, B, m2, B2, {bp})
                /\ bp \in B2 => ~m2.head[bp].alloc
  BY <1>2, <1>3, ReleasedFacts
<1> HIDE DEF m2
<1>5. live' \in LiveTable /\ live'[c] = NoBlock /\ \A d \in Name \ {c} : live'[d] = live[d]
  BY <1>1, <1>2 DEF LiveTable
<1>6. ASSUME NEW d \in Name, live'[d] # NoBlock
      PROVE  HasBlock(m2, B2, live'[d], d)
  <2>1. d # c /\ live'[d] = live[d] /\ live[d] # NoBlock
    BY <1>5, <1>6
  <2>2. HasBlock(heap, B, live[d], d) /\ HasBlock(heap, B, live[c], c)
    BY <1>1, <1>2, <2>1
  <2>3. live[d].ptr \notin {bp}
    BY <1>2, <2>1, <2>2, OneOwner DEF bp
  <2> QED BY <1>2, <1>4, <2>1, <2>2, <2>3, StillHas
<1>7. ASSUME NEW b \in B2 \ {1}, m2.head[b].alloc
      PROVE  \E d \in Name : live'[d] # NoBlock /\ live'[d].ptr = b
  <2>1. b # bp /\ b \in B /\ heap.head[b].alloc
    BY <1>4, <1>7 DEF Rewritten
  <2>2. PICK d \in Name : live[d] # NoBlock /\ live[d].ptr = b
    BY <1>7, <2>1 DEF Owned
  <2> QED BY <1>5, <2>1, <2>2 DEF bp
<1>8. Owned(m2, live', B2)
  BY <1>4, <1>5, <1>6, <1>7 DEF Owned, Rewritten
<1>9. Owned(Settle(m2, live'), live', B2)
  BY <1>8, SettleOwned
<1> QED BY <1>1, <1>9

\* A client's block, and what is in it.
LEMMA OwnFacts ==
  ASSUME NEW B, Owned(heap, live, B), NEW c \in Name, live[c] # NoBlock
  PROVE  LET p == live[c].ptr
             old == heap.head[p].size
         IN  /\ heap \in Mem /\ Tiled(heap, B) /\ heap.rover \in B
             /\ p \in B /\ p # 1 /\ p \in Nat /\ p \in Unit /\ heap.head[p].alloc
             /\ old \in Nat /\ NEXT_BLKP(heap, p) = p + old
             /\ NEXT_BLKP(heap, p) \in Unit
             /\ \A u \in Payload(p, live[c].size) : u \in Unit /\ u \in Nat /\ p < u /\ u < p + old
<1> DEFINE p == live[c].ptr
           old == heap.head[p].size
<1>1. heap \in Mem /\ Tiled(heap, B) /\ heap.rover \in B /\ HasBlock(heap, B, live[c], c)
  BY DEF Owned
<1>2. p \in B /\ p # 1 /\ heap.head[p].alloc
  BY <1>1 DEF HasBlock
<1>3. /\ p \in Nat /\ p \in Unit /\ old \in Nat /\ NEXT_BLKP(heap, p) = p + old
      /\ NEXT_BLKP(heap, p) \in Unit
  BY <1>1, <1>2, TiledFacts
<1>4. \A u \in Payload(p, live[c].size) : u \in Unit /\ u \in Nat /\ p < u /\ u < p + old
  BY <1>1, <1>3, HasBlockFacts
<1> QED BY <1>1, <1>2, <1>3, <1>4

\* A request is for two units at least.
LEMMA AlignedFacts ==
  ASSUME NEW size \in Sizes
  PROVE  AlignedUnits(size) \in Nat /\ AlignedUnits(size) >= 2
<1>1. size \in Nat /\ size > 0
  BY HeapAssumption
<1> QED BY <1>1 DEF AlignedUnits

\* mm_realloc where the block is large enough already.
LEMMA InPlaceOwned ==
  ASSUME NEW B, Owned(heap, live, B), NEW c \in Name, live[c] # NoBlock,
         NEW size \in Sizes, InPlace(c, size), ~damaged'
  PROVE  \E B2 : Owned(heap', live', B2)
<1> DEFINE p == live[c].ptr
           X == {p}
<1>1. /\ heap \in Mem /\ Tiled(heap, B) /\ heap.rover \in B
      /\ p \in B \ {1} /\ p \in Nat /\ heap.head[p].alloc
      /\ \A u \in Payload(p, live[c].size) : u \in Nat
  BY OwnFacts
<1>2. AlignedUnits(size) <= heap.head[p].size /\ Resized(heap, c, p, size)
  BY DEF InPlace, OldSize
<1>3. Rewritten(heap, B, heap, B, X)
  BY <1>1 DEF Rewritten, Intact
<1>4. /\ p \in X /\ \A b \in X \cap B : heap.head[b].alloc => b = p
      /\ live[c].ptr \in X /\ \A b \in X \cap B : heap.head[b].alloc => b = live[c].ptr
  OBVIOUS
<1>5. \A u \in Payload(live[c].ptr, live[c].size) :
        /\ heap.head[u + p - live[c].ptr] = heap.head[u]
        /\ heap.tail[u + p - live[c].ptr] = heap.tail[u]
  BY <1>1
<1> HIDE DEF p, X
<1>6. Owned(heap', live', B)
  BY <1>1, <1>2, <1>3, <1>4, <1>5, ResizedFacts
<1> QED BY <1>6

\* mm_realloc into the free block behind.
LEMMA GrowForwardOwned ==
  ASSUME NEW B, Owned(heap, live, B), NEW c \in Name, live[c] # NoBlock,
         NEW size \in Sizes, AlignedUnits(size) > OldSize(c), GrowForward(c, size), ~damaged'
  PROVE  \E B2 : Owned(heap', live', B2)
<1> DEFINE p == live[c].ptr
           asize == AlignedUnits(size)
           nx == NEXT_BLKP(heap, p)
           csize == heap.head[p].size + heap.head[nx].size
           m2 == Split(heap, p, asize, csize)
           X == {p}
<1>1. /\ heap \in Mem /\ Tiled(heap, B) /\ heap.rover \in B
      /\ p \in B /\ p # 1 /\ p \in Nat /\ heap.head[p].alloc /\ heap.head[p].size \in Nat
      /\ \A u \in Payload(p, live[c].size) :
           u \in Unit /\ u \in Nat /\ p < u /\ u < p + heap.head[p].size
  BY OwnFacts
<1>2. asize \in Nat /\ asize >= 2 /\ heap.head[p].size < asize
  <2>1. asize \in Nat /\ asize >= 2
    BY AlignedFacts
  <2> QED BY <1>1, <2>1 DEF OldSize
<1>3. Free(heap, nx)
  BY DEF GrowForward, NextWillDo, Next
<1>4. nx \in B /\ heap.head[nx].size \in Nat
  <2>1. heap.head[heap.brk] = content(0, TRUE)
    BY <1>1 DEF Tiled
  <2>2. nx \in B \cup {heap.brk}
    BY <1>1, TiledFacts
  <2>3. nx # heap.brk
    BY <1>3, <2>1 DEF Free, content
  <2>4. nx \in B
    BY <2>2, <2>3
  <2> HIDE DEF nx
  <2> QED BY <1>1, <2>4, TiledFacts
<1>5. csize \in Nat
  BY <1>1, <1>4
<1>6. /\ csize - asize >= 2
      /\ heap.rover \notin (p + 1 .. NEXT_BLKP(m2, p + asize) - 1) \ {p + asize}
      /\ Resized(m2, c, p, size)
  <2> DEFINE m == IF csize - asize >= 2 THEN m2 ELSE Squeeze(heap, p, asize, csize)
             swallowed == p + 1 .. NEXT_BLKP(m, p + asize) - 1
  <2>1. /\ damaged' = (csize - asize < 2 \/ heap.rover \in swallowed \ {p + asize})
        /\ Resized(m, c, p, size)
    BY DEF GrowForward, OldSize, Next
  <2>2. ~(csize - asize < 2) /\ heap.rover \notin swallowed \ {p + asize}
    BY <2>1
  <2> HIDE DEF csize
  <2>3. csize - asize >= 2
    BY <1>2, <1>5, <2>2
  <2>4. m = m2
    BY <2>3
  <2> QED BY <2>1, <2>2, <2>3, <2>4
<1> HIDE DEF m2, p, asize
<1>7. PICK B2 : Grown(heap, B, p, asize, m2, B2)
  <2>1. GrowsForward(heap, p, asize, csize, m2)
    BY <1>2, <1>3, <1>6 DEF m2, GrowsForward
  <2> HIDE DEF csize, nx
  <2> QED BY <1>1, <1>2, <2>1, GrowForwardFacts
<1>8. \A u \in Payload(p, live[c].size) :
        /\ m2.head[u + p - p] = heap.head[u]
        /\ m2.tail[u + p - p] = heap.tail[u]
  <2>1. ASSUME NEW u \in Payload(p, live[c].size)
        PROVE  u \in Unit /\ p < u /\ u < p + asize /\ u + p - p = u
    BY <1>1, <1>2
  <2> QED BY <1>7, <2>1 DEF Grown
<1>9. /\ Rewritten(heap, B, m2, B2, X)
      /\ p \in B2 \ {1} /\ p \in X /\ \A b \in X \cap B2 : m2.head[b].alloc => b = p
      /\ \A b \in X \cap B : heap.head[b].alloc => b = p
      /\ m2.head[p].alloc /\ asize <= m2.head[p].size
  BY <1>1, <1>7 DEF Grown
<1> HIDE DEF X
<1>10. Owned(heap', live', B2)
  BY <1>6, <1>8, <1>9, ResizedFacts DEF p, asize
<1> QED BY <1>10

\* mm_realloc into the free block in front, with the contents.
LEMMA GrowBackwardOwned ==
  ASSUME NEW B, Owned(heap, live, B), NEW c \in Name, live[c] # NoBlock,
         NEW size \in Sizes, AlignedUnits(size) > OldSize(c), GrowBackward(c, size), ~damaged'
  PROVE  \E B2 : Owned(heap', live', B2)
<1> DEFINE p == live[c].ptr
           prev == PREV_BLKP(heap, p)
           asize == AlignedUnits(size)
           old == heap.head[p].size
           csize == old + heap.head[prev].size
           moved == Copied(heap, p, prev, old)
           m2 == Shifted(moved, prev, asize, csize)
           X == {p, prev}
<1>1. /\ heap \in Mem /\ Tiled(heap, B) /\ heap.rover \in B
      /\ p \in B /\ p # 1 /\ p \in Nat /\ heap.head[p].alloc /\ old \in Nat
      /\ \A u \in Payload(p, live[c].size) :
           u \in Unit /\ u \in Nat /\ p < u /\ u < p + old
  BY OwnFacts
<1>2. asize \in Nat /\ asize >= 2 /\ old < asize
  <2>1. asize \in Nat /\ asize >= 2
    BY AlignedFacts
  <2> QED BY <1>1, <2>1 DEF OldSize
<1>3. Free(heap, prev) /\ csize >= asize
  BY DEF GrowBackward, PrevWillDo, Prev, OldSize
<1>4. prev \in B /\ prev \in Nat /\ prev \in Unit /\ heap.head[prev].size \in Nat
  <2>1. PICK a \in B : NEXT_BLKP(heap, a) = p
    BY <1>1 DEF Tiled, heap_listp
  <2>2. /\ a \in Nat /\ a \in Unit /\ heap.tail[p] = heap.head[a]
        /\ heap.head[a].size \in Nat /\ a + heap.head[a].size = p
    BY <1>1, <2>1, TiledFacts
  <2>3. prev = a
    BY <1>1, <2>2 DEF PREV_BLKP
  <2> QED BY <2>1, <2>2, <2>3
<1>5. /\ damaged' = (heap.rover = p /\ prev + asize # p)
      /\ Resized(m2, c, prev, size)
  BY DEF GrowBackward, OldSize, Prev, Shifted
<1>6. GrowsBackward(heap, p, prev, old, asize, csize, moved, m2)
  <2>1. heap.rover # p \/ prev + asize = p
    BY <1>5
  <2>2. asize <= csize
    BY <1>1, <1>2, <1>3, <1>4
  <2> HIDE DEF asize
  <2> QED BY <1>2, <1>3, <2>1, <2>2 DEF GrowsBackward
<1> HIDE DEF m2, p, asize, old, csize, moved, prev
<1>7. PICK B2 : Moved(heap, B, p, prev, old, asize, m2, B2)
  BY <1>1, <1>2, <1>6, GrowBackwardFacts
<1>8. \A u \in Payload(p, live[c].size) :
        /\ m2.head[u + prev - p] = heap.head[u]
        /\ m2.tail[u + prev - p] = heap.tail[u]
  <2>1. prev + old <= MaxUnits + 1
    <3>1. prev < p /\ p + old \in Unit
      <4>1. PICK a \in B : NEXT_BLKP(heap, a) = p
        BY <1>1 DEF Tiled, heap_listp
      <4>2. /\ a \in Nat /\ a < p /\ heap.tail[p] = heap.head[a]
            /\ heap.head[a].size \in Nat /\ a + heap.head[a].size = p
        BY <1>1, <4>1, TiledFacts
      <4>3. prev = a
        BY <1>1, <4>2 DEF PREV_BLKP, prev
      <4>4. p + old \in Unit
        BY <1>1, TiledFacts DEF old
      <4> QED BY <4>2, <4>3, <4>4
    <3> QED BY <1>1, <1>4, <3>1, HeapAssumption DEF Unit
  <2>2. ASSUME NEW u \in Payload(p, live[c].size)
        PROVE  /\ m2.head[u + prev - p] = heap.head[u]
               /\ m2.tail[u + prev - p] = heap.tail[u]
    <3> DEFINE v == u + prev - p
    <3>1. u \in Nat /\ p < u /\ u < p + old
      BY <1>1
    <3>2. v \in Nat /\ prev < v /\ v < prev + old /\ v - prev + p = u
      BY <1>1, <1>4, <3>1
    <3>3. v \in Unit
      BY <1>1, <1>4, <2>1, <3>2, HeapAssumption DEF Unit
    <3> HIDE DEF v
    <3>4. m2.head[v] = heap.head[v - prev + p] /\ m2.tail[v] = heap.tail[v - prev + p]
      BY <1>7, <3>2, <3>3 DEF Moved
    <3>5. m2.head[v] = heap.head[u] /\ m2.tail[v] = heap.tail[u]
      BY <3>2, <3>4
    <3> QED BY <3>5 DEF v
  <2> QED BY <2>2
<1>9. /\ Rewritten(heap, B, m2, B2, X)
      /\ prev \in B2 \ {1} /\ prev \in X /\ \A b \in X \cap B2 : m2.head[b].alloc => b = prev
      /\ p \in X /\ \A b \in X \cap B : heap.head[b].alloc => b = p
      /\ m2.head[prev].alloc /\ asize <= m2.head[prev].size
  BY <1>3, <1>7 DEF Moved, Free
<1> HIDE DEF X
<1>10. Owned(heap', live', B2)
  BY <1>5, <1>8, <1>9, ResizedFacts DEF p, asize
<1> QED BY <1>10

\* The contents are copied into the new block: no tag is touched.
LEMMA CopiedRewritten ==
  ASSUME NEW m \in Mem, NEW B, Tiled(m, B), m.rover \in B, NEW from \in Nat,
         NEW to \in B, to # 1, NEW units \in Nat, units <= m.head[to].size,
         NEW m2, HasMoved(m, from, to, units, m2)
  PROVE  Rewritten(m, B, m2, B, {to})
<1>1. /\ to \in Nat /\ m.head[to].size \in Nat /\ NEXT_BLKP(m, to) = to + m.head[to].size
      /\ NEXT_BLKP(m, to) \in Nat /\ NEXT_BLKP(m, to) <= m.brk /\ m.brk \in Nat
      /\ m.brk \in Unit
      /\ \A b \in B : b \in Unit /\ b \in Nat /\ (b <= to \/ NEXT_BLKP(m, to) <= b)
  BY TiledFacts
<1>2. /\ m2 \in Mem /\ m2.brk = m.brk /\ m2.rover = m.rover
      /\ \A u \in Unit : ~(to < u /\ u < to + units) =>
           m2.head[u] = m.head[u] /\ m2.tail[u] = m.tail[u]
  BY DEF HasMoved
<1>3. ASSUME NEW u \in B \cup {m.brk}
      PROVE  u \in Unit /\ ~(to < u /\ u < to + units)
  <2>1. u \in Unit /\ u \in Nat /\ (u <= to \/ NEXT_BLKP(m, to) <= u)
    BY <1>1
  <2>2. to + units <= NEXT_BLKP(m, to)
    BY <1>1
  <2> QED BY <1>1, <2>1, <2>2
<1>4. Tiled(m2, B)
  BY <1>2, <1>3, SameTags
<1>5. ASSUME NEW b \in B \ {to}
      PROVE  Intact(m, m2, B, b)
  <2>1. /\ b \in Nat /\ NEXT_BLKP(m, b) \in Nat
        /\ b <= to \/ NEXT_BLKP(m, to) <= b
        /\ to <= b \/ NEXT_BLKP(m, b) <= to
    BY <1>1, TiledFacts
  <2>2. ASSUME NEW u \in Unit, b < u, u < NEXT_BLKP(m, b)
        PROVE  ~(to < u /\ u < to + units)
    <3>1. u \in Nat
      BY DEF Unit
    <3> QED BY <1>1, <2>1, <2>2, <3>1
  <2> QED BY <1>2, <1>3, <2>2 DEF Intact
<1>6. \A b \in B : m2.head[b] = m.head[b]
  BY <1>2, <1>3
<1> QED BY <1>2, <1>4, <1>5, <1>6 DEF Rewritten

\* mm_realloc to a new block, with the contents.
LEMMA MoveOwned ==
  ASSUME NEW B, Owned(heap, live, B), NEW c \in Name, live[c] # NoBlock,
         NEW size \in Sizes, AlignedUnits(size) > OldSize(c), Move(c, size), ~damaged'
  PROVE  \E B2 : Owned(heap', live', B2)
<1> DEFINE p == live[c].ptr
           asize == AlignedUnits(size)
           old == heap.head[p].size
           got == Allocated(heap, asize)
           g == got.heap
           q == got.bp
           copied == Copied(g, p, q, old)
           m2 == Released(copied, p)
           X == {q} \cup {p}
<1>1. /\ heap \in Mem /\ Tiled(heap, B) /\ heap.rover \in B
      /\ p \in B /\ p # 1 /\ p \in Nat /\ p \in Unit /\ heap.head[p].alloc /\ old \in Nat
      /\ NEXT_BLKP(heap, p) = p + old /\ p + old \in Unit
      /\ \A u \in Payload(p, live[c].size) :
           u \in Unit /\ u \in Nat /\ p < u /\ u < p + old
  BY OwnFacts
<1>2. asize \in Nat /\ asize >= 2 /\ old < asize
  <2>1. asize \in Nat /\ asize >= 2
    BY AlignedFacts
  <2> QED BY <1>1, <2>1 DEF OldSize
<1>3. /\ CanAllocate(heap, asize) /\ ~got.damages
      /\ Resized(m2, c, q, size)
  BY DEF Move, OldSize
<1> HIDE DEF asize
<1>4. PICK B1 : /\ Rewritten(heap, B, g, B1, {q})
                /\ q \in B1 \ {1} /\ g.head[q].alloc /\ asize <= g.head[q].size
                /\ q \in B => ~heap.head[q].alloc
  BY <1>1, <1>2, <1>3, AllocatedFacts
<1> HIDE DEF got, g, q, p, old, copied, m2
<1>5. g \in Mem /\ Tiled(g, B1) /\ g.rover \in B1 /\ p # q
  BY <1>1, <1>4 DEF Rewritten
<1>6. Intact(heap, g, B1, p)
  BY <1>1, <1>4, <1>5 DEF Rewritten
<1>7. /\ q \in Nat /\ q \in Unit /\ g.head[q].size \in Nat /\ old <= g.head[q].size
      /\ NEXT_BLKP(g, q) = q + g.head[q].size /\ NEXT_BLKP(g, q) \in Unit
  <2>1. /\ q \in Nat /\ q \in Unit /\ g.head[q].size \in Nat
        /\ NEXT_BLKP(g, q) = q + g.head[q].size /\ NEXT_BLKP(g, q) \in Unit
    BY <1>4, <1>5, TiledFacts
  <2> QED BY <1>1, <1>2, <1>4, <2>1
<1>8. HasMoved(g, p, q, old, copied)
  <2>1. p + old - 1 <= MaxUnits
    BY <1>1, HeapAssumption DEF Unit
  <2> QED BY <1>1, <1>5, <1>7, <2>1, CopiedFacts DEF copied
<1>9. Rewritten(g, B1, copied, B1, {q})
  BY <1>1, <1>4, <1>5, <1>7, <1>8, CopiedRewritten
<1>10. Rewritten(heap, B, copied, B1, {q})
  <2>1. {q} \cup {q} = {q}
    OBVIOUS
  <2> QED BY <1>4, <1>9, <2>1, RewrittenTwice
<1>11. copied \in Mem /\ Tiled(copied, B1) /\ copied.rover \in B1 /\ p \in B1
  BY <1>6, <1>9 DEF Rewritten, Intact
<1>12. PICK B2 : /\ Rewritten(copied, B1, m2, B2, {p})
                 /\ p \in B2 => ~m2.head[p].alloc
  BY <1>1, <1>11, ReleasedFacts DEF m2
<1>13. Rewritten(heap, B, m2, B2, X)
  BY <1>10, <1>12, RewrittenTwice
<1>14. copied.head[q] = g.head[q]
  <2>1. ~(q < q)
    BY <1>7
  <2> QED BY <1>7, <1>8, <2>1 DEF HasMoved
<1>15. Intact(copied, m2, B2, q)
  BY <1>4, <1>5, <1>12, <1>14 DEF Rewritten
<1>16. NEXT_BLKP(copied, q) = q + g.head[q].size
  BY <1>14 DEF NEXT_BLKP
<1>17. \A u \in Payload(p, live[c].size) :
         /\ m2.head[u + q - p] = heap.head[u]
         /\ m2.tail[u + q - p] = heap.tail[u]
  <2>1. ASSUME NEW u \in Payload(p, live[c].size)
        PROVE  /\ m2.head[u + q - p] = heap.head[u]
               /\ m2.tail[u + q - p] = heap.tail[u]
    <3> DEFINE v == u + q - p
    <3>1. u \in Unit /\ u \in Nat /\ p < u /\ u < p + old
      BY <1>1
    <3>2. /\ v \in Nat /\ q < v /\ v < q + old /\ v - q + p = u
          /\ v < NEXT_BLKP(copied, q)
      BY <1>1, <1>7, <1>16, <3>1
    <3>3. v \in Unit
      <4>1. v < NEXT_BLKP(g, q)
        BY <1>7, <1>16, <3>2
      <4> HIDE DEF v
      <4> QED BY <1>7, <3>2, <4>1, HeapAssumption DEF Unit
    <3> HIDE DEF v
    <3>4. copied.head[v] = g.head[v - q + p] /\ copied.tail[v] = g.tail[v - q + p]
      BY <1>8, <3>2, <3>3 DEF HasMoved
    <3>5. g.head[u] = heap.head[u] /\ g.tail[u] = heap.tail[u]
      BY <1>1, <1>6, <3>1 DEF Intact
    <3>6. m2.head[v] = copied.head[v] /\ m2.tail[v] = copied.tail[v]
      BY <1>15, <3>2, <3>3 DEF Intact
    <3>7. m2.head[v] = heap.head[u] /\ m2.tail[v] = heap.tail[u]
      BY <3>2, <3>4, <3>5, <3>6
    <3> QED BY <3>7 DEF v
  <2> QED BY <2>1
<1>18. /\ q \in B2 \ {1} /\ q \in X /\ \A b \in X \cap B2 : m2.head[b].alloc => b = q
       /\ p \in X /\ \A b \in X \cap B : heap.head[b].alloc => b = p
       /\ m2.head[q].alloc /\ asize <= m2.head[q].size
  BY <1>4, <1>12, <1>14, <1>15 DEF Intact
<1> HIDE DEF X
<1>19. Owned(heap', live', B2)
  BY <1>3, <1>13, <1>17, <1>18, ResizedFacts DEF p, asize
<1> QED BY <1>19

\* The new heap has one free block.
LEMMA InitOwned ==
  ASSUME mm_init
  PROVE  \E B : Owned(heap, live, B)
<1> DEFINE blank == [u \in Unit |-> content(0, FALSE)]
           bare == [head |-> [blank EXCEPT ![1] = content(1, TRUE), ![2] = content(0, TRUE)],
                    tail |-> [blank EXCEPT ![2] = content(1, TRUE)],
                    brk |-> 2, rover |-> heap_listp]
<1>1. heap = extend_heap(bare, InitUnits) /\ live = [c \in Name |-> NoBlock]
  BY DEF mm_init
<1>2. 1 \in Unit /\ 2 \in Unit /\ MaxUnits \in Nat /\ MaxUnits >= 4
      /\ InitUnits \in Nat /\ InitUnits >= 2 /\ 2 + InitUnits <= MaxUnits
  BY HeapAssumption DEF Unit
<1>3. content(0, FALSE) \in Word /\ content(1, TRUE) \in Word /\ content(0, TRUE) \in Word
      /\ content(1, TRUE) \in Tag
  <2>1. 0 \in 0 .. MaxUnits /\ 1 \in 0 .. MaxUnits
    BY <1>2
  <2> QED BY <2>1, TagFacts DEF Word
<1>4. /\ bare \in Mem /\ bare.brk = 2 /\ bare.rover = 1
      /\ bare.head[1] = content(1, TRUE) /\ bare.head[2] = content(0, TRUE)
      /\ bare.tail[2] = content(1, TRUE)
  <2>1. /\ bare.head \in [Unit -> Word] /\ bare.tail \in [Unit -> Word]
        /\ bare.head[1] = content(1, TRUE) /\ bare.head[2] = content(0, TRUE)
        /\ bare.tail[2] = content(1, TRUE)
    <3> DEFINE h1 == [blank EXCEPT ![1] = content(1, TRUE)]
               h2 == [h1 EXCEPT ![2] = content(0, TRUE)]
               t2 == [blank EXCEPT ![2] = content(1, TRUE)]
    <3>1. blank \in [Unit -> Word]
      BY <1>3
    <3>2. bare.head = h2 /\ bare.tail = t2
      OBVIOUS
    <3> HIDE DEF blank, bare
    <3>3. h1 \in [Unit -> Word] /\ h1[1] = content(1, TRUE)
      BY <1>2, <1>3, <3>1
    <3>4. t2 \in [Unit -> Word] /\ t2[2] = content(1, TRUE)
      BY <1>2, <1>3, <3>1
    <3> HIDE DEF h1, t2
    <3>5. h2 \in [Unit -> Word] /\ h2[1] = content(1, TRUE) /\ h2[2] = content(0, TRUE)
      <4> DEFINE w == content(0, TRUE)
      <4>1. h2 = [h1 EXCEPT ![2] = w] /\ w \in Word
        BY <1>3
      <4> HIDE DEF h2, w
      <4>2. h2[2] = w /\ h2[1] = h1[1] /\ h2 \in [Unit -> Word]
        <5>1. 1 \in Unit /\ 2 \in Unit
          BY <1>2
        <5>2. h2 \in [Unit -> Word] /\ \A u \in Unit : h2[u] = IF u = 2 THEN w ELSE h1[u]
          BY <3>3, <4>1
        <5> QED BY <5>1, <5>2
      <4> QED BY <3>3, <4>2 DEF w
    <3> QED BY <3>2, <3>4, <3>5
  <2>2. /\ bare = [head |-> bare.head, tail |-> bare.tail, brk |-> 2, rover |-> 1]
        /\ bare.brk = 2 /\ bare.rover = 1
    BY DEF heap_listp
  <2> HIDE DEF bare
  <2>3. bare \in Mem
    BY <1>2, <2>1, <2>2 DEF Mem
  <2> QED BY <2>1, <2>2, <2>3
<1> HIDE DEF bare
<1>5. Tiled(bare, {1})
  <2>1. NEXT_BLKP(bare, 1) = 2 /\ Footer(bare, 1) = content(1, TRUE)
    BY <1>4 DEF NEXT_BLKP, Footer, content
  <2>2. content(1, TRUE).size = 1
    BY DEF content
  <2>3. /\ {1} \subseteq Unit /\ heap_listp \in {1}
        /\ bare.head[heap_listp] = content(1, TRUE) /\ bare.head[bare.brk] = content(0, TRUE)
    BY <1>2, <1>4 DEF heap_listp
  <2>4. ASSUME NEW b \in {1}
        PROVE  /\ bare.head[b] \in Tag /\ bare.head[b].size > 0
               /\ b # heap_listp => bare.head[b].size >= 2
               /\ NEXT_BLKP(bare, b) \in {1} \cup {bare.brk}
               /\ Footer(bare, b) = bare.head[b]
               /\ \A a \in {1} : a <= b \/ NEXT_BLKP(bare, b) <= a
               /\ b < bare.brk
    <3>1. b = 1 /\ bare.brk = 2 /\ heap_listp = 1
      BY <1>4 DEF heap_listp
    <3>2. bare.head[1] \in Tag /\ bare.head[1].size = 1 /\ Footer(bare, 1) = bare.head[1]
      BY <1>3, <1>4, <2>1, <2>2
    <3> HIDE DEF heap_listp
    <3> QED BY <2>1, <3>1, <3>2
  <2>5. \A b \in ({1} \cup {bare.brk}) \ {heap_listp} : \E a \in {1} : NEXT_BLKP(bare, a) = b
    BY <1>4, <2>1 DEF heap_listp
  <2> QED BY <2>3, <2>4, <2>5 DEF Tiled
<1>6. PICK B2 : Rewritten(bare, {1}, heap, B2, {})
  <2>1. bare.rover \in {1} /\ bare.brk + InitUnits <= MaxUnits
    BY <1>2, <1>4
  <2> QED BY <1>1, <1>2, <1>4, <1>5, <2>1, ExtendFacts
<1>7. \A b \in B2 \ {1} : ~heap.head[b].alloc
  BY <1>6 DEF Rewritten
<1>8. live \in LiveTable
  BY <1>1 DEF LiveTable
<1>9. Owned(heap, live, B2)
  BY <1>1, <1>6, <1>7, <1>8 DEF Owned, Rewritten
<1> QED BY <1>9

\* The blocks of a heap that is in order are those the walk finds.
LEMMA OwnedBlocks ==
  ASSUME NEW m, NEW lv, NEW B, Owned(m, lv, B)
  PROVE  B = Blocks(m)
BY WalkTiles DEF Owned

\* Every call keeps it that the blocks in use are the clients', as long as no
\* step does damage.
LEMMA HeapStep ==
  ASSUME HeapIInv, [HeapNext]_heapVars
  PROVE  HeapIInv'
<1>1. CASE UNCHANGED heapVars
  <2>1. heap' = heap /\ live' = live /\ damaged' = damaged
    BY <1>1 DEF heapVars
  <2> QED BY <2>1 DEF HeapIInv
<1>2. CASE HeapNext
  <2>1. PICK c \in Name : mm_malloc(c) \/ mm_free(c) \/ mm_realloc(c)
    BY <1>2 DEF HeapNext
  <2>2. damaged' \in BOOLEAN
    <3>1. CASE mm_malloc(c)
      BY <3>1 DEF mm_malloc
    <3>2. CASE mm_free(c)
      BY <3>2 DEF mm_free, HeapIInv
    <3>3. CASE mm_realloc(c) /\ ~mm_malloc(c) /\ ~mm_free(c)
      <4>1. PICK size \in Sizes :
              InPlace(c, size) \/ GrowForward(c, size) \/ GrowBackward(c, size) \/ Move(c, size)
        BY <3>3 DEF mm_realloc
      <4>2. CASE InPlace(c, size)
        BY <4>2 DEF InPlace, HeapIInv
      <4>3. CASE GrowForward(c, size)
        BY <4>3 DEF GrowForward
      <4>4. CASE GrowBackward(c, size)
        BY <4>4 DEF GrowBackward
      <4>5. CASE Move(c, size)
        <5>1. damaged' = Allocated(heap, AlignedUnits(size)).damages
          BY <4>5 DEF Move
        <5>2. Allocated(heap, AlignedUnits(size)).damages \in BOOLEAN
          BY DEF Allocated, PlaceDamages
        <5> QED BY <5>1, <5>2
      <4> QED BY <4>1, <4>2, <4>3, <4>4, <4>5
    <3> QED BY <2>1, <3>1, <3>2, <3>3
  <2>3. ASSUME ~damaged'
        PROVE  \E B : Owned(heap', live', B)
    <3>1. CASE mm_malloc(c)
      <4>1. ~damaged
        BY <2>3, <3>1 DEF mm_malloc
      <4> QED BY <2>3, <3>1, <4>1, MallocOwned DEF HeapIInv
    <3>2. CASE mm_free(c)
      <4>1. ~damaged
        BY <3>2 DEF mm_free
      <4> QED BY <2>3, <3>2, <4>1, FreeOwned DEF HeapIInv
    <3>3. CASE mm_realloc(c) /\ ~mm_malloc(c) /\ ~mm_free(c)
      <4>1. ~damaged /\ live[c] # NoBlock
        BY <3>3 DEF mm_realloc
      <4>2. PICK size \in Sizes :
              \/ InPlace(c, size)
              \/ /\ AlignedUnits(size) > OldSize(c)
                 /\ GrowForward(c, size) \/ GrowBackward(c, size) \/ Move(c, size)
        BY <3>3 DEF mm_realloc
      <4>3. Owned(heap, live, Blocks(heap))
        BY <4>1 DEF HeapIInv
      <4>4. CASE InPlace(c, size)
        BY <2>3, <4>1, <4>3, <4>4, InPlaceOwned
      <4>5. CASE AlignedUnits(size) > OldSize(c) /\ GrowForward(c, size)
        BY <2>3, <4>1, <4>3, <4>5, GrowForwardOwned
      <4>6. CASE AlignedUnits(size) > OldSize(c) /\ GrowBackward(c, size)
        BY <2>3, <4>1, <4>3, <4>6, GrowBackwardOwned
      <4>7. CASE AlignedUnits(size) > OldSize(c) /\ Move(c, size)
        BY <2>3, <4>1, <4>3, <4>7, MoveOwned
      <4> QED BY <4>2, <4>4, <4>5, <4>6, <4>7
    <3> QED BY <2>1, <3>1, <3>2, <3>3
  <2>4. ASSUME ~damaged'
        PROVE  Owned(heap', live', Blocks(heap'))
    <3>1. PICK B : Owned(heap', live', B)
      BY <2>3, <2>4
    <3>2. B = Blocks(heap')
      BY <3>1, OwnedBlocks
    <3> QED BY <3>1, <3>2
  <2> QED BY <2>2, <2>4 DEF HeapIInv
<1> QED BY <1>1, <1>2

\* From the heap of mm_init, no sequence of calls that does no damage leads to a
\* heap whose blocks in use are not the clients', with what these wrote in them.
THEOREM HeapInvariance == HeapSpec => []HeapIInv
<1>1. mm_init => HeapIInv
  <2> SUFFICES ASSUME mm_init PROVE HeapIInv
    OBVIOUS
  <2>1. PICK B : Owned(heap, live, B)
    BY InitOwned
  <2>2. B = Blocks(heap)
    BY <2>1, OwnedBlocks
  <2>3. damaged = FALSE
    BY DEF mm_init
  <2> QED BY <2>1, <2>2, <2>3 DEF HeapIInv
<1>2. HeapIInv /\ [HeapNext]_heapVars => HeapIInv'
  BY HeapStep
<1> QED BY <1>1, <1>2, PTL DEF HeapSpec

\* The boundary tags stay consistent, however the blocks are split, merged and
\* resized, whatever the sizes of the heap and of the requests.
THEOREM TilesHold == HeapSpec => []BlocksTile
<1>1. ASSUME HeapIInv
      PROVE  BlocksTile
  <2> SUFFICES ASSUME ~damaged
               PROVE  /\ HeapTypeOK
                      /\ Walkable(heap)
                      /\ \A bp \in Blocks(heap) : Footer(heap, bp) = heap.head[bp]
                      /\ {bp \in Blocks(heap) : ~Free(heap, bp)}
                           = {heap_listp} \cup {live[c].ptr : c \in Live}
                      /\ \A b, c \in Live : live[b].ptr = live[c].ptr => b = c
    BY DEF BlocksTile
  <2> DEFINE B == Blocks(heap)
  <2>1. Owned(heap, live, B)
    BY <1>1 DEF HeapIInv
  <2>2. /\ heap \in Mem /\ live \in LiveTable /\ Tiled(heap, B) /\ heap.rover \in B
        /\ \A c \in Live : HasBlock(heap, B, live[c], c)
        /\ \A b \in B \ {1} : heap.head[b].alloc => \E c \in Live : live[c].ptr = b
    BY <2>1 DEF Owned, Live
  <2>3. HeapTypeOK
    BY <1>1, <2>2 DEF HeapTypeOK, HeapIInv, Mem, LiveTable
  <2>4. Walkable(heap)
    BY <2>2, WalkTiles DEF Walkable
  <2> HIDE DEF B
  <2>5. \A bp \in B : Footer(heap, bp) = heap.head[bp]
    BY <2>2 DEF Tiled
  <2>6. {bp \in B : ~Free(heap, bp)} = {heap_listp} \cup {live[c].ptr : c \in Live}
    <3>1. heap_listp = 1 /\ 1 \in B /\ ~Free(heap, 1)
      BY <2>2 DEF heap_listp, Tiled, Free, content
    <3>2. \A c \in Live : live[c].ptr \in B /\ ~Free(heap, live[c].ptr)
      BY <2>2 DEF HasBlock, Free
    <3>3. \A b \in B \ {1} : ~Free(heap, b) => \E c \in Live : live[c].ptr = b
      BY <2>2 DEF Free
    <3> QED BY <3>1, <3>2, <3>3
  <2>7. \A b, c \in Live : live[b].ptr = live[c].ptr => b = c
    BY <2>2, OneOwner
  <2> QED BY <2>3, <2>4, <2>5, <2>6, <2>7 DEF B
<1> QED BY <1>1, HeapInvariance, PTL

\* Every block holds what its client wrote there, across mm_realloc too.
THEOREM PayloadHolds == HeapSpec => []PayloadKept
<1>1. HeapIInv => PayloadKept
  BY DEF HeapIInv, Owned, HasBlock, PayloadKept, Live
<1> QED BY <1>1, HeapInvariance, PTL

\* The search finds a block if one is large enough, wherever the rover stands.
THEOREM FitHolds == HeapSpec => []FitFound
<1>1. ASSUME HeapIInv, ~damaged, NEW size \in Sizes
      PROVE  LET asize == AlignedUnits(size)
                 fit == find_fit(heap, asize)
                 fitting == {bp \in Blocks(heap) : Fits(heap, bp, asize)}
             IN  IF fit = NoBlock THEN fitting = {} ELSE fit \in fitting
  <2>1. Owned(heap, live, Blocks(heap))
    BY <1>1 DEF HeapIInv
  <2>2. heap \in Mem /\ Tiled(heap, Blocks(heap)) /\ heap.rover \in Blocks(heap)
    BY <2>1 DEF Owned
  <2> DEFINE asize == AlignedUnits(size)
             fit == find_fit(heap, asize)
  <2>3. IF fit = NoBlock THEN \A b \in Blocks(heap) : ~Fits(heap, b, asize)
        ELSE fit \in Blocks(heap) /\ Fits(heap, fit, asize)
    <3> HIDE DEF asize
    <3> QED BY <2>2, FitFacts
  <2> HIDE DEF fit, asize
  <2> QED BY <2>3 DEF fit, asize
<1>2. HeapIInv => FitFound
  BY <1>1 DEF FitFound
<1> QED BY <1>2, HeapInvariance, PTL

\* Two payloads overlap only after a step that did damage: place with a free
\* block behind and too little left over, the late merge of mm_malloc, or
\* mm_realloc around the rover.
THEOREM OverlapNeedsDamage == HeapSpec => [](~damaged => PayloadsDisjoint)
<1>1. PayloadKept => (~damaged => PayloadsDisjoint)
  BY DEF PayloadKept, PayloadsDisjoint
<1> QED BY <1>1, PayloadHolds, PTL
=============================================================================
