----------------------------- MODULE ProxyCache -----------------------------
(***************************************************************************)
(* The object cache of proxy.c and the threads that use it.  main starts a *)
(* thread per connection; it looks the URI up (cache_find), and on a miss  *)
(* fetches the object from its server and inserts it (cache_insert).  The  *)
(* two calls scan the blocks under cache_mutex, one block a step here.     *)
(*                                                                         *)
(* size and object of a block are one value, object.  Sockets are outside: *)
(* a request may be refused, an object may be too large to cache, and any  *)
(* failed socket call ends the whole process (unix_error in csapp.c).      *)
(***************************************************************************)
EXTENDS Integers, FiniteSets

CONSTANTS Conn,             \* connections that can be open at a time
          Uri,
          Object,
          Origin,           \* what the server of a URI may answer
          NULL,
          CACHE_OBJS_COUNT, \* the number of blocks (10 in the code)
          MaxRequests       \* bound of the model on connections accepted

ASSUME ProxyAssumption ==
  /\ NULL \notin Uri \cup Object
  /\ Origin \in [Uri -> SUBSET Object]
  /\ CACHE_OBJS_COUNT \in Nat \ {0}

VARIABLES cache, cache_time, cache_mutex,
          pc,      \* where the thread of a connection is
          uri_key, \* its URI
          object,  \* its cached_obj after a hit, its object_buf after a fetch
          i, target,
          exited   \* the process has called exit

vars == <<cache, cache_time, cache_mutex, pc, uri_key, object, i, target, exited>>

Block == 1..CACHE_OBJS_COUNT

\* Between P and V.
InFind == {"find", "hit"}
InInsert == {"insert", "fill", "copy", "stored"}
Place == InFind \cup InInsert \cup
         {"closed", "start", "to_find", "serve", "fetch", "to_insert"}

ProxyTypeOK ==
  /\ cache \in [Block -> [valid : BOOLEAN, lru : Nat, uri : Uri \cup {NULL},
                          object : Object \cup {NULL}]]
  /\ cache_time \in Nat
  /\ cache_mutex \in 0..1
  /\ pc \in [Conn -> Place]
  /\ uri_key \in [Conn -> Uri \cup {NULL}]
  /\ object \in [Conn -> Object \cup {NULL}]
  /\ i \in [Conn -> 1..CACHE_OBJS_COUNT + 1]
  /\ target \in [Conn -> Block]
  /\ exited \in BOOLEAN

\* cache_init.
ProxyInit ==
  /\ cache = [b \in Block |->
                [valid |-> FALSE, lru |-> 0, uri |-> NULL, object |-> NULL]]
  /\ cache_time = 0
  /\ cache_mutex = 1
  /\ pc = [c \in Conn |-> "closed"]
  /\ uri_key = [c \in Conn |-> NULL]
  /\ object = [c \in Conn |-> NULL]
  /\ i = [c \in Conn |-> 1]
  /\ target = [c \in Conn |-> 1]
  /\ exited = FALSE

IsAt(c, place) == ~exited /\ pc[c] = place
To(c, place) == pc' = [pc EXCEPT ![c] = place]

Vcache == cache_mutex' = cache_mutex + 1

\* The thread returns; its stack is gone.
Close(c) ==
  /\ To(c, "closed")
  /\ uri_key' = [uri_key EXCEPT ![c] = NULL]
  /\ object' = [object EXCEPT ![c] = NULL]
  /\ i' = [i EXCEPT ![c] = 1]
  /\ target' = [target EXCEPT ![c] = 1]

-----------------------------------------------------------------------------
(* main and doit.                                                          *)

\* A request takes one tick of cache_time at most, so the bound bounds it.
Accept(c) ==
  /\ IsAt(c, "closed")
  /\ cache_time + Cardinality({d \in Conn : pc[d] # "closed"}) < MaxRequests
  /\ To(c, "start")
  /\ UNCHANGED <<cache, cache_time, cache_mutex, uri_key, object, i, target, exited>>

\* The client sends nothing, or something other than a GET, and is left; or
\* it asks for a URI.
ReadRequest(c) ==
  /\ IsAt(c, "start")
  /\ \/ Close(c)
     \/ /\ \E u \in Uri : uri_key' = [uri_key EXCEPT ![c] = u]
        /\ To(c, "to_find")
        /\ UNCHANGED <<object, i, target>>
  /\ UNCHANGED <<cache, cache_time, cache_mutex, exited>>

\* P (&cache_mutex), then the first turn of the loop.
Lock(c, from, to) ==
  /\ IsAt(c, from)
  /\ cache_mutex > 0
  /\ cache_mutex' = cache_mutex - 1
  /\ To(c, to)
  /\ i' = [i EXCEPT ![c] = 1]
  /\ UNCHANGED <<cache, cache_time, uri_key, object, target, exited>>

Serve(c) ==
  /\ IsAt(c, "serve")
  /\ Close(c)
  /\ UNCHANGED <<cache, cache_time, cache_mutex, exited>>

\* The object arrives and is passed on; it is cached unless it is too large.
Fetch(c) ==
  /\ IsAt(c, "fetch")
  /\ \/ Close(c)
     \/ /\ \E o \in Origin[uri_key[c]] : object' = [object EXCEPT ![c] = o]
        /\ To(c, "to_insert")
        /\ UNCHANGED <<uri_key, i, target>>
  /\ UNCHANGED <<cache, cache_time, cache_mutex, exited>>

\* A socket call fails: unix_error ends the process.
Fail(c) ==
  /\ ~exited
  /\ pc[c] \in {"start", "serve", "fetch"}
  /\ exited' = TRUE
  /\ UNCHANGED <<cache, cache_time, cache_mutex, pc, uri_key, object, i, target>>

-----------------------------------------------------------------------------
(* cache_find.                                                             *)

Holds(b, u) == cache[b].valid /\ cache[b].uri = u

\* Mutant: a look-up does not count as a use.
HitUncounted(c) ==
  /\ IsAt(c, "find")
  /\ i[c] \in Block
  /\ Holds(i[c], uri_key[c])
  /\ object' = [object EXCEPT ![c] = cache[i[c]].object]
  /\ To(c, "hit")
  /\ UNCHANGED <<cache, cache_time, cache_mutex, uri_key, i, target, exited>>

FindHit(c) ==
  /\ IsAt(c, "find")
  /\ i[c] \in Block
  /\ Holds(i[c], uri_key[c])
  /\ object' = [object EXCEPT ![c] = cache[i[c]].object]
  /\ cache' = [cache EXCEPT ![i[c]].lru = cache_time + 1]
  /\ cache_time' = cache_time + 1
  /\ To(c, "hit")
  /\ UNCHANGED <<cache_mutex, uri_key, i, target, exited>>

FindNext(c) ==
  /\ IsAt(c, "find")
  /\ i[c] \in Block
  /\ ~Holds(i[c], uri_key[c])
  /\ i' = [i EXCEPT ![c] = @ + 1]
  /\ UNCHANGED <<cache, cache_time, cache_mutex, pc, uri_key, object, target, exited>>

\* Mutant: the early return forgets V.
HitKeepsMutex(c) ==
  /\ IsAt(c, "hit")
  /\ To(c, "serve")
  /\ UNCHANGED <<cache, cache_time, cache_mutex, uri_key, object, i, target, exited>>

HitUnlock(c) ==
  /\ IsAt(c, "hit")
  /\ Vcache
  /\ To(c, "serve")
  /\ UNCHANGED <<cache, cache_time, uri_key, object, i, target, exited>>

FindMiss(c) ==
  /\ IsAt(c, "find")
  /\ i[c] \notin Block
  /\ Vcache
  /\ To(c, "fetch")
  /\ UNCHANGED <<cache, cache_time, uri_key, object, i, target, exited>>

cache_find(c) ==
  \/ Lock(c, "to_find", "find")
  \/ FindHit(c) \/ FindNext(c) \/ FindMiss(c)
  \/ HitUnlock(c)

-----------------------------------------------------------------------------
(* cache_insert.                                                           *)

\* Mutant: a block with the same URI is not looked for.
NotSought(c) == ~cache[i[c]].valid

\* The scan ends at a block of the same URI, or at a free one.
Suits(c) == Holds(i[c], uri_key[c]) \/ ~cache[i[c]].valid

\* The scan: target is the least recent block so far.  i is at its first
\* value when target is, so target needs no reset of its own.
InsertScan(c) ==
  /\ IsAt(c, "insert")
  /\ i[c] \in Block
  /\ IF Suits(c)
     THEN /\ target' = [target EXCEPT ![c] = i[c]]
          /\ To(c, "fill")
          /\ UNCHANGED i
     ELSE /\ target' = IF cache[i[c]].lru < cache[target[c]].lru
                       THEN [target EXCEPT ![c] = i[c]] ELSE target
          /\ i' = [i EXCEPT ![c] = @ + 1]
          /\ UNCHANGED pc
  /\ UNCHANGED <<cache, cache_time, cache_mutex, uri_key, object, exited>>

InsertFull(c) ==
  /\ IsAt(c, "insert")
  /\ i[c] \notin Block
  /\ To(c, "fill")
  /\ UNCHANGED <<cache, cache_time, cache_mutex, uri_key, object, i, target, exited>>

InsertFill(c) ==
  /\ IsAt(c, "fill")
  /\ cache' = [cache EXCEPT ![target[c]] =
                 [valid |-> TRUE, lru |-> cache_time + 1,
                  uri |-> uri_key[c], object |-> @.object]]
  /\ cache_time' = cache_time + 1
  /\ To(c, "copy")
  /\ UNCHANGED <<cache_mutex, uri_key, object, i, target, exited>>

\* Mutant: only a free block gets the object.
CopyOnce(c) ==
  /\ IsAt(c, "copy")
  /\ cache' = IF cache[target[c]].object = NULL
              THEN [cache EXCEPT ![target[c]].object = object[c]] ELSE cache
  /\ To(c, "stored")
  /\ UNCHANGED <<cache_time, cache_mutex, uri_key, object, i, target, exited>>

InsertCopy(c) ==
  /\ IsAt(c, "copy")
  /\ cache' = [cache EXCEPT ![target[c]].object = object[c]]
  /\ To(c, "stored")
  /\ UNCHANGED <<cache_time, cache_mutex, uri_key, object, i, target, exited>>

InsertUnlock(c) ==
  /\ IsAt(c, "stored")
  /\ Vcache
  /\ Close(c)
  /\ UNCHANGED <<cache, cache_time, exited>>

cache_insert(c) ==
  \/ Lock(c, "to_insert", "insert")
  \/ InsertScan(c) \/ InsertFull(c) \/ InsertFill(c) \/ InsertCopy(c)
  \/ InsertUnlock(c)

-----------------------------------------------------------------------------

doit(c) ==
  ReadRequest(c) \/ cache_find(c) \/ Serve(c) \/ Fetch(c) \/ cache_insert(c)

ProxyNext == \E c \in Conn : Accept(c) \/ doit(c) \/ Fail(c)

ProxySpec == ProxyInit /\ [][ProxyNext]_vars

\* A thread inside a critical section makes no call that could block it.
Inside(c) ==
  \/ FindHit(c) \/ FindNext(c) \/ FindMiss(c) \/ HitUnlock(c)
  \/ InsertScan(c) \/ InsertFull(c) \/ InsertFill(c) \/ InsertCopy(c)
  \/ InsertUnlock(c)

ProxyFairSpec == ProxySpec /\ \A c \in Conn : WF_vars(Inside(c))

-----------------------------------------------------------------------------
(* Properties.                                                             *)

\* No URI has two blocks, even if two connections miss on it at the same
\* time and insert it one after the other (proxy.c:276).
OneBlockPerUri ==
  \A a, b \in Block :
    cache[a].valid /\ cache[b].valid /\ cache[a].uri = cache[b].uri => a = b

\* A client that is served from the cache gets an object of the URI it asked
\* for, whatever block it was copied from and whoever writes meanwhile.
ServesRequested ==
  \A c \in Conn : pc[c] = "serve" => object[c] \in Origin[uri_key[c]]

\* The block whose object is still to be copied holds it already.
Stored(b) ==
  LET w == {c \in Conn : pc[c] = "copy" /\ target[c] = b}
  IN  IF w = {} THEN cache[b].object ELSE object[CHOOSE c \in w : TRUE]

Valid == {b \in Block : cache[b].valid}

\* What is cached, by URI: a URI has one valid block.
Contents ==
  [u \in {cache[b].uri : b \in Valid} |->
     Stored(CHOOSE b \in Valid : cache[b].uri = u)]

\* The order of the stamps, as one of URIs.
Newer ==
  {p \in Uri \X Uri :
     \E a, b \in Valid : /\ p = <<cache[a].uri, cache[b].uri>>
                         /\ cache[a].lru > cache[b].lru}

\* What the thread of a connection has learnt of its look-up.
Answer ==
  [c \in Conn |->
     CASE pc[c] \in {"hit", "serve"} -> object[c]
       [] pc[c] \in {"fetch", "to_insert"} \cup InInsert -> "miss"
       [] OTHER -> "none"]

Lru == INSTANCE LruCache
         WITH Client <- Conn, Capacity <- CACHE_OBJS_COUNT,
              contents <- Contents, newer <- Newer, answer <- Answer

\* The scans under the mutex amount to a cache that answers at one instant
\* and evicts the least recently used object (cache_find, cache_insert).
ImplementsLru == Lru!LruSpec

\* No path out of the critical sections forgets V: whoever waits for the
\* mutex can get it, unless the process ends.
MutexReleased == (cache_mutex = 0) ~> (cache_mutex = 1 \/ exited)
=============================================================================
