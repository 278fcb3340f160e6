------------------------------ MODULE Clearing ------------------------------
(***************************************************************************)
(* What watching the chain promises: the first sighting of a transfer is   *)
(* final, and a transfer is cleared, which issues its tickets, only while  *)
(* it is in the block it was sighted in and buried under enough others to  *)
(* stay there.  Nothing is said of scans, cursors, nodes or hashes: the    *)
(* checks look as if they were made at one moment, and the moment of the   *)
(* clearing at that.                                                       *)
(***************************************************************************)
EXTENDS Integers

CONSTANTS Transfers, Confirmations

VARIABLES
    height,   \* of the chain
    place,    \* the block a transfer is in; 0 while it is in none
    sighted,  \* the block it was first seen in; 0 before
    cleared   \* the transfers that got tickets

Init ==
    /\ height = 0 /\ cleared = {}
    /\ place = [t \in Transfers |-> 0] /\ sighted = [t \in Transfers |-> 0]

Buried(t) == place[t] > 0 /\ height - place[t] + 1 >= Confirmations

\* The chain grows or reorganizes, which moves only what is not yet buried.
Settle ==
    /\ height' \in Nat /\ height' >= height
    /\ place' \in [Transfers -> 0..height']
    /\ \A t \in Transfers : Buried(t) => place'[t] = place[t]
    /\ UNCHANGED <<sighted, cleared>>

Sight(t) ==
    /\ sighted[t] = 0
    /\ \E b \in 1..height : sighted' = [sighted EXCEPT ![t] = b]
    /\ UNCHANGED <<height, place, cleared>>

Clear(ts) ==
    /\ \A t \in ts : Buried(t) /\ sighted[t] = place[t]
    /\ cleared' = cleared \cup ts
    /\ UNCHANGED <<height, place, sighted>>

Next ==
    \/ Settle
    \/ \E t \in Transfers : Sight(t)
    \/ \E ts \in SUBSET Transfers : Clear(ts)

Spec == Init /\ [][Next]_<<height, place, sighted, cleared>>
=============================================================================
