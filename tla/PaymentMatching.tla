--------------------------- MODULE PaymentMatching ---------------------------
(***************************************************************************)
(* The orders of PaymentOrders with the amounts of PaymentAmounts: each    *)
(* code stands for the amounts that carry its identifier.                  *)
(***************************************************************************)
EXTENDS PaymentOrders, PaymentAmounts

ASSUME RealAmounts ==
    /\ Quantities \subseteq Nat /\ Codes \subseteq 1..Capacity
    /\ \A q \in Quantities, c \in Codes : /\ AmountsOf[q][c] = PaymentAmountsFor(q, c)
                                          /\ ExactAmount[q][c] = AmountFor(q, c)

\* A transfer is booked on an order only if the amount says so itself: the
\* price is exact, and the non-zero digits of the fraction are the identifier
\* of the order's code, wherever the sender's exchange moved them.
MatchedByDigits ==
    \A t \in Transfers : payment[t] # NoPayment /\ payment[t].order # NoOrder =>
        LET o == payment[t].order IN
        /\ payment[t].amount \div Unit = Quantity[o]
        /\ PaymentIdentifierFromAmount(payment[t].amount) = PaymentIdentifierFor(code[o])
=============================================================================
