-------------------------- MODULE MCPaymentOrders --------------------------
(* Instances of PaymentOrders for TLC, with real amounts. *)
EXTENDS PaymentMatching, TLC

CONSTANTS o1, o2, o3, t1, t2

OneTicketEach == [o \in {o1, o2, o3} |-> 1]
SomeCodes == 1..Capacity
SomeAmounts == [q \in Quantities |-> [c \in SomeCodes |-> PaymentAmountsFor(q, c)]]
SomeExact == [q \in Quantities |-> [c \in SomeCodes |-> AmountFor(q, c)]]

\* The canonical amount of the first code, one of its aliases, and an amount of
\* the third code.
SentAmounts == {AmountFor(1, 1), Unit + 1, Unit + 11}
=============================================================================
