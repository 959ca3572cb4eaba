------------------------------ MODULE LruCache ------------------------------
(***************************************************************************)
(* What the proxy's cache promises: a map from URIs to objects of bounded  *)
(* size that answers look-ups at one instant each, and forgets the entry   *)
(* used least recently when it is full.                                    *)
(***************************************************************************)
EXTENDS Integers, FiniteSets

CONSTANTS Client, Uri, Object, Capacity

VARIABLES contents, \* from the cached URIs to their objects
          newer,    \* the pairs of URIs of which the first was used later
          answer    \* what each client knows of its look-up

lruVars == <<contents, newer, answer>>

Cached == DOMAIN contents

LruInit ==
  /\ contents = [u \in {} |-> u]
  /\ newer = {}
  /\ answer = [c \in Client |-> "none"]

\* u is used, and the others keep their order.
Touch(u, others) ==
  newer' = ({u} \X others) \cup (newer \cap (others \X others))

Hit(c, u) ==
  /\ answer[c] = "none"
  /\ u \in Cached
  /\ answer' = [answer EXCEPT ![c] = contents[u]]
  /\ Touch(u, Cached \ {u})
  /\ UNCHANGED contents

Miss(c, u) ==
  /\ answer[c] = "none"
  /\ u \notin Cached
  /\ answer' = [answer EXCEPT ![c] = "miss"]
  /\ UNCHANGED <<contents, newer>>

\* What stays when u comes in: all there is if there is room for it, or else
\* all but the URI that was used after no other.
Kept(u) ==
  IF u \in Cached \/ Cardinality(Cached) < Capacity
  THEN Cached \ {u}
  ELSE {v \in Cached : \E w \in Cached : <<v, w>> \in newer}

\* Only a client whose look-up has failed inserts.
Insert(c, u, o) ==
  /\ answer[c] = "miss"
  /\ contents' = [v \in Kept(u) \cup {u} |-> IF v = u THEN o ELSE contents[v]]
  /\ Touch(u, Kept(u))
  /\ UNCHANGED answer

Leave(c) ==
  /\ answer' = [answer EXCEPT ![c] = "none"]
  /\ UNCHANGED <<contents, newer>>

LruNext ==
  \E c \in Client :
    \/ \E u \in Uri : Hit(c, u) \/ Miss(c, u) \/ \E o \in Object : Insert(c, u, o)
    \/ Leave(c)

LruSpec == LruInit /\ [][LruNext]_lruVars
=============================================================================
