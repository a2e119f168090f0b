---------------------------- MODULE MCEventLoop ----------------------------
(* EventLoop for TLC: two foreign threads, three functors.                  *)
EXTENDS EventLoop

CONSTANTS c1, c2, f1, f2, f3
=============================================================================
