------------------------------- MODULE MCTimer -------------------------------
(* Timer for TLC: a one-shot timer and a persistent one.                    *)
EXTENDS Timer

CONSTANTS once, every
=============================================================================
