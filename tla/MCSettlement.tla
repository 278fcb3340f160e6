---------------------------- MODULE MCSettlement ----------------------------
(* Instances of Settlement for TLC. *)
EXTENDS Settlement, TLC

CONSTANTS c1, c2, w1, w2

\* Two calls in two processes: two API servers, or a server and the CLI.
TwoWorkers == c1 :> w1 @@ c2 :> w2
\* Two calls in one process: ticks of the 15-second timer that overlap.
OneWorker == c1 :> w1 @@ c2 :> w1
=============================================================================
