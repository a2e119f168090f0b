--------------------------- MODULE MCAsyncLogging ---------------------------
(* AsyncLogging for TLC: two threads, four records, two of them printed.    *)
EXTENDS AsyncLogging

CONSTANTS a, b, r1, r2, r3, r4
=============================================================================
