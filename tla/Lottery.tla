------------------------------ MODULE Lottery ------------------------------
(***************************************************************************)
(* What the rounds promise to the people who buy tickets: every ticket     *)
(* takes part in at most one draw, a draw needs MinPaid tickets, and its   *)
(* prize is the money of exactly the tickets it is drawn among.  Nothing   *)
(* is said of days, of closing, or of carrying an underfilled round over.  *)
(* Money is counted in tickets: a ticket costs one whole token.            *)
(***************************************************************************)
EXTENDS Integers, FiniteSets

CONSTANTS
    Draws,    \* names of the draws that may be held
    MinPaid,  \* tickets a draw needs
    NoDraw    \* a draw that has not been held

VARIABLES
    sold,     \* tickets issued so far
    drawn     \* the tickets and the prize of every draw held

Drawn == UNION {drawn[d].tickets : d \in {e \in Draws : drawn[e] # NoDraw}}

Init == sold = {} /\ drawn = [d \in Draws |-> NoDraw]

Sell == sold \subseteq sold' /\ sold' # sold /\ UNCHANGED drawn

Draw(d) ==
    /\ drawn[d] = NoDraw
    /\ \E S \in SUBSET (sold \ Drawn) :
          /\ Cardinality(S) >= MinPaid
          /\ drawn' = [drawn EXCEPT ![d] = [tickets |-> S, prize |-> Cardinality(S)]]
    /\ UNCHANGED sold

Next == Sell \/ \E d \in Draws : Draw(d)

Spec == Init /\ [][Next]_<<sold, drawn>>
=============================================================================
