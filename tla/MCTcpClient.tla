----------------------------- MODULE MCTcpClient -----------------------------
(* The client of Tcp for TLC: two connection objects, so that a client can  *)
(* be deleted and added again; one loop or two.  The server rests.          *)
EXTENDS Tcp, TLC

CONSTANTS p1, p2, loop1, loop2, app

LoopOfConn == [p \in Conns |-> loop1]

=============================================================================
