------------------------------ MODULE MCRounds ------------------------------
(* Instances of Rounds for TLC, with the arithmetic of their draws. *)
EXTENDS RoundDraws, TLC

CONSTANTS o1, o2, o3

\* Two of the orders fill a round together and the third fills one alone, so
\* two draws are held, with or without tickets carried over from days before.
SomeQuantities == o1 :> 1 @@ o2 :> 1 @@ o3 :> 2
=============================================================================
