------------------------------- MODULE Payout -------------------------------
(***************************************************************************)
(* What a settlement promises, seen from the token contract: the winner    *)
(* receives one transfer, and then the treasury receives one transfer.     *)
(* Nothing is said of how many processes bring this about.                 *)
(***************************************************************************)
CONSTANT Settlements

VARIABLE transfers  \* successful transfers of each leg, by pool wallet nonce

Legs == {"winner_payout", "treasury_sweep"}

Init == transfers = [s \in Settlements |-> [k \in Legs |-> {}]]

\* The first and only transfer of a leg succeeds, with whatever nonce.
Transfer(s, k) ==
    /\ transfers[s][k] = {}
    /\ \E n \in transfers'[s][k] : transfers' = [transfers EXCEPT ![s][k] = {n}]

PayWinner(s) == Transfer(s, "winner_payout")

SweepTreasury(s) ==
    /\ transfers[s]["winner_payout"] # {}
    /\ Transfer(s, "treasury_sweep")

Next == \E s \in Settlements : PayWinner(s) \/ SweepTreasury(s)

Spec == Init /\ [][Next]_transfers
=============================================================================
