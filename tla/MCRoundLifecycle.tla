------------------------- MODULE MCRoundLifecycle -------------------------
(* Instances of RoundLifecycle for TLC: the stuck rounds are never moved,   *)
(* whatever is tried, and calls overlap on the newest round.                *)
EXTENDS RoundLifecycle

FewCalls == [r \in Rounds |-> CASE r \in Stuck -> {} [] r = LastRound -> {1, 2} [] OTHER -> {1}]
=============================================================================
