---------------------------- MODULE MCThreadPool ----------------------------
(* ThreadPool for TLC: three workers, four tasks.                           *)
EXTENDS ThreadPool

CONSTANTS w1, w2, w3, t1, t2, t3, t4
=============================================================================
