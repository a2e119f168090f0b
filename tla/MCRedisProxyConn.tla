--------------------------- MODULE MCRedisProxyConn ---------------------------
(* RedisProxyConn for TLC: two proxies, a hash with two items, and numbers  *)
(* of three bits.                                                           *)
EXTENDS RedisProxyConn

CONSTANTS c1, c2, i1, i2, v1

Amounts == {-1, 2}
Maps == {[i \in {i1} |-> v1]}
Lists == {<<i2, i1>>}
=============================================================================
