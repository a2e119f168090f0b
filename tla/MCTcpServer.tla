----------------------------- MODULE MCTcpServer -----------------------------
(* TcpServer for TLC: two connections, one on the server's loop and one on  *)
(* a loop of its own.                                                       *)
EXTENDS TcpServer, TLC

CONSTANTS l1, l2, p1, p2, d1, d2, app

LoopOfConn == [p \in {p1, p2} |-> IF p = p1 THEN l1 ELSE l2]

Symmetry == Permutations({d1, d2})
=============================================================================
