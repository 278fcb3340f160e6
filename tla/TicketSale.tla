----------------------------- MODULE TicketSale -----------------------------
(***************************************************************************)
(* What taking payments promises: an order is settled by one transfer that *)
(* settles no other order, tickets are issued once and only for such a     *)
(* transfer, and an order that lapsed unpaid never gets tickets, whatever  *)
(* arrives later.  Nothing is said of amounts, codes, reservations, time.  *)
(***************************************************************************)
CONSTANTS Orders, Transfers, NoTransfer

VARIABLES
    phase,   \* of every order
    credit   \* the transfer that settles an order

Phases == {"unopened", "open", "credited", "issued", "lapsed"}

Init ==
    /\ phase = [o \in Orders |-> "unopened"]
    /\ credit = [o \in Orders |-> NoTransfer]

Move(o, from, to) == phase[o] = from /\ phase' = [phase EXCEPT ![o] = to]

Open(o) == Move(o, "unopened", "open") /\ UNCHANGED credit

Lapse(expired) ==
    /\ \A o \in expired : phase[o] = "open"
    /\ phase' = [o \in Orders |-> IF o \in expired THEN "lapsed" ELSE phase[o]]
    /\ UNCHANGED credit

Credit(o, t) ==
    /\ Move(o, "open", "credited")
    /\ \A p \in Orders : credit[p] # t
    /\ credit' = [credit EXCEPT ![o] = t]

Issue(o) == Move(o, "credited", "issued") /\ UNCHANGED credit

Next ==
    \/ \E expired \in SUBSET Orders : Lapse(expired)
    \/ \E o \in Orders : Open(o) \/ Issue(o) \/ \E t \in Transfers : Credit(o, t)

Spec == Init /\ [][Next]_<<phase, credit>>
=============================================================================
