---------------------------- MODULE MCProxyCache ----------------------------
(* Connections over a cache of two blocks and three URIs, the first of     *)
(* which changes its content.                                              *)
EXTENDS ProxyCache

CONSTANTS c1, c2, u1, u2, u3, o1, o1b, o2, o3

Conns2 == {c1, c2}
Uris == {u1, u2, u3}
Objects == {o1, o1b, o2, o3}
Origins == [u \in Uris |-> CASE u = u1 -> {o1, o1b}
                             [] u = u2 -> {o2}
                             [] OTHER  -> {o3}]
=============================================================================
