---------------------------- MODULE MCDiscovery ----------------------------
(* A small instance of Discovery for TLC: the wanted server, another one   *)
(* and an address to move to.                                              *)
EXTENDS Discovery

CONSTANTS a1, a2, a3, i1, i2, k1, k2

MCAddrs == {a1, a2, a3}
MCIds   == {i1, i2}
MCConns == {k1, k2}
MCHome  == [a \in MCAddrs |-> CASE a = a1 -> i1 [] a = a2 -> i2 [] a = a3 -> NoId]
=============================================================================
