--------------------------- MODULE MCChainMonitor ---------------------------
(* Instances of ChainMonitor for TLC. *)
EXTENDS ChainMonitor

CONSTANTS t1, t2, s1, s2
=============================================================================
