------------------------- MODULE MCEventLoopThread -------------------------
(* EventLoopThread for TLC: one client besides the owner, two functors.     *)
EXTENDS EventLoops

CONSTANTS f1, f2
=============================================================================
