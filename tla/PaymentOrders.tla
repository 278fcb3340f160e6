---------------------------- MODULE PaymentOrders ----------------------------
(***************************************************************************)
(* Orders and the transfers that pay them.  An order reserves the first    *)
(* payment code whose amounts are free, with every alias of its amount; a  *)
(* transfer to the receiving address is matched by its amount to the order *)
(* that holds it; a matched transfer is confirmed once its block is deep   *)
(* enough; an order nobody paid expires, and its amounts stay reserved for *)
(* a cooldown in which late money can be told apart.                       *)
(*                                                                         *)
(* Each action is one committed transaction of PostgresRepository (the     *)
(* row locks and the advisory lock of createOrder make them serializable). *)
(* A transaction that throws is rolled back and is no step.  Time is       *)
(* counted in a unit that divides the two windows.  The tickets and rounds *)
(* that the same transactions write are the subject of module Rounds.      *)
(***************************************************************************)
EXTENDS Integers, FiniteSets

CONSTANTS
    Orders,           \* orders that may be created
    Quantity,         \* [Orders -> Quantities]: orders.ticket_quantity
    Quantities,
    Codes,            \* payment codes: 1..n, n the last with an identifier
    AmountsOf,        \* paymentAmountsFor: the amounts of a quantity and a code
    ExactAmount,      \* amountFor: the canonical one among them
    Transfers,        \* hashes of transactions that may pay
    TransferAmounts,  \* amounts that may be sent
    Reservation,      \* PAYMENT_RESERVATION_MINUTES
    Cooldown,         \* PAYMENT_CODE_COOLDOWN_MINUTES
    Horizon,          \* bound: the last moment
    NoOrder, NoTransfer, NoCode

ASSUME OrdersAssumption ==
    /\ Quantity \in [Orders -> Quantities]
    /\ Codes \subseteq Nat \ {0}
    /\ Reservation \in Nat \ {0} /\ Cooldown \in Nat \ {0} /\ Horizon \in Nat

ASSUME AmountsAssumption ==
    \A q \in Quantities, c \in Codes : ExactAmount[q][c] \in AmountsOf[q][c]

ASSUME NamesAssumption ==
    NoOrder \notin Orders /\ NoTransfer \notin Transfers /\ NoCode \notin Codes

VARIABLES
    now,
    status,           \* orders.payment_status; "none" while there is no row
    code,             \* orders.payment_code
    expiresAt,        \* orders.expires_at
    cooldownUntil,    \* orders.cooldown_until
    transfer,         \* orders.transaction_hash
    reserved,         \* orders whose rows are active in payment_amount_reservations
                      \* and payment_code_reservations
    reservedUntil,    \* cooldown_until of those rows
    identified,       \* orders active in payment_identifier_reservations
    identifiedUntil,  \* cooldown_until of those rows
    payment           \* payments, by transaction_hash

orderVars == <<status, code, expiresAt, cooldownUntil, transfer>>
reservationVars == <<reserved, reservedUntil, identified, identifiedUntil>>
vars == <<now, orderVars, reservationVars, payment>>

OrderStatus == {"none", "pending", "payment_detected", "paid", "expired", "late_payment"}
PaymentStatus == {"unmatched", "manual_review", "payment_detected", "confirmed",
                  "late_payment", "duplicate_payment"}

NoPayment == [status |-> "none"]
Payment == [status : PaymentStatus, order : Orders \cup {NoOrder}, amount : TransferAmounts]

TypeOK ==
    /\ now \in Nat
    /\ status \in [Orders -> OrderStatus]
    /\ code \in [Orders -> Codes \cup {NoCode}]
    /\ expiresAt \in [Orders -> Nat] /\ cooldownUntil \in [Orders -> Nat]
    /\ transfer \in [Orders -> Transfers \cup {NoTransfer}]
    /\ reserved \subseteq {o \in Orders : code[o] # NoCode}
    /\ identified \subseteq {o \in Orders : code[o] # NoCode}
    /\ reservedUntil \in [Orders -> Nat] /\ identifiedUntil \in [Orders -> Nat]
    /\ payment \in [Transfers -> Payment \cup {NoPayment}]

Init ==
    /\ now = 0
    /\ status = [o \in Orders |-> "none"]
    /\ code = [o \in Orders |-> NoCode]
    /\ expiresAt = [o \in Orders |-> 0] /\ cooldownUntil = [o \in Orders |-> 0]
    /\ transfer = [o \in Orders |-> NoTransfer]
    /\ reserved = {} /\ reservedUntil = [o \in Orders |-> 0]
    /\ identified = {} /\ identifiedUntil = [o \in Orders |-> 0]
    /\ payment = [t \in Transfers |-> NoPayment]

-----------------------------------------------------------------------------
(* Reserving a payment code.                                               *)

Amounts(o) == AmountsOf[Quantity[o]][code[o]]

\* createOrder first deactivates what is past its cooldown.  (The mutant goes
\* by expires_at.)
LapsedAtExpiry(o, until) == expiresAt[o] <= now
Lapsed(o, until) == until <= now

StillReserved == {o \in reserved : ~Lapsed(o, reservedUntil[o])}
StillIdentified == {o \in identified : ~Lapsed(o, identifiedUntil[o])}

\* A code can be taken when none of its amounts is.  (The mutant overlooks the
\* cooldown of paid orders.)
TakenByUnpaid == UNION {Amounts(o) : o \in {p \in StillReserved : status[p] # "paid"}}
TakenAmounts == UNION {Amounts(o) : o \in StillReserved}
Free(q, c) == AmountsOf[q][c] \cap TakenAmounts = {}

FirstFree(q, c) == Free(q, c) /\ \A d \in Codes : d < c => ~Free(q, d)

\* The unique index on (base_amount, identifier): an insert that hits it fails.
IdentifierTaken(q, c) == \E o \in StillIdentified : Quantity[o] = q /\ code[o] = c

CreateOrder(o) ==
    LET until == now + Reservation + Cooldown IN
    /\ status[o] = "none"
    /\ now + Reservation <= Horizon  \* bound: it can expire within the horizon
    /\ \E c \in Codes :
          /\ FirstFree(Quantity[o], c) /\ ~IdentifierTaken(Quantity[o], c)
          /\ code' = [code EXCEPT ![o] = c]
    /\ status' = [status EXCEPT ![o] = "pending"]
    /\ expiresAt' = [expiresAt EXCEPT ![o] = now + Reservation]
    /\ cooldownUntil' = [cooldownUntil EXCEPT ![o] = until]
    /\ reserved' = StillReserved \cup {o}
    /\ reservedUntil' = [reservedUntil EXCEPT ![o] = until]
    /\ identified' = StillIdentified \cup {o}
    /\ identifiedUntil' = [identifiedUntil EXCEPT ![o] = until]
    /\ UNCHANGED <<now, transfer, payment>>

\* expirePending, at the start of every scan.  (The mutant waits for the end of
\* the cooldown.)
OverdueAfterCooldown == {o \in Orders : status[o] = "pending" /\ cooldownUntil[o] <= now}
Overdue == {o \in Orders : status[o] = "pending" /\ expiresAt[o] <= now}

ExpirePending ==
    /\ Overdue # {}
    /\ status' = [o \in Orders |-> IF o \in Overdue THEN "expired" ELSE status[o]]
    /\ UNCHANGED <<now, code, expiresAt, cooldownUntil, transfer, reservationVars, payment>>

-----------------------------------------------------------------------------
(* Recording a transfer.                                                   *)

\* The orders a transfer may be matched to.
Eligible(o) ==
    \/ status[o] = "pending" /\ expiresAt[o] > now
    \/ status[o] = "expired" /\ cooldownUntil[o] > now
    \/ status[o] \in {"payment_detected", "paid"}

Exact(amount) ==
    {o \in reserved : Eligible(o) /\ ExactAmount[Quantity[o]][code[o]] = amount}
Alias(amount) == {o \in reserved : Eligible(o) /\ amount \in Amounts(o)} \ Exact(amount)

\* Exact reservations go first.
Matching(amount) == IF Exact(amount) # {} THEN Exact(amount) ELSE Alias(amount)

\* What a transfer is to the one order it matches: money for a pending one,
\* late for an expired one, one too many for the others.  (The mutant takes
\* late money.)
ReceiptTakingLate(o) ==
    IF status[o] \in {"pending", "expired"} THEN "payment_detected" ELSE "duplicate_payment"
Receipt(o) ==
    CASE status[o] = "pending" -> "payment_detected"
      [] status[o] = "expired" -> "late_payment"
      [] OTHER -> "duplicate_payment"

\* Only the first transfer changes the order.  (The mutant forgets to ask.)
SettlesAny(o) == TRUE
Settles(o) == Receipt(o) # "duplicate_payment"

RecordMatched(t, amount, o) ==
    /\ payment' = [payment EXCEPT ![t] = [status |-> Receipt(o), order |-> o, amount |-> amount]]
    /\ status' = [status EXCEPT ![o] = IF Settles(o) THEN Receipt(o) ELSE @]
    /\ transfer' = [transfer EXCEPT ![o] = IF Settles(o) THEN t ELSE @]

RecordUnmatched(t, amount) ==
    /\ payment' = [payment EXCEPT ![t] =
            [status |-> IF Matching(amount) = {} THEN "unmatched" ELSE "manual_review",
             order |-> NoOrder, amount |-> amount]]
    /\ UNCHANGED <<status, transfer>>

\* A transaction hash that is on record already is left alone.
RecordTransfer(t, amount) ==
    /\ payment[t] = NoPayment
    /\ IF Cardinality(Matching(amount)) = 1
       THEN \E o \in Matching(amount) : RecordMatched(t, amount, o)
       ELSE RecordUnmatched(t, amount)
    /\ UNCHANGED <<now, code, expiresAt, cooldownUntil, reservationVars>>

-----------------------------------------------------------------------------
(* Confirming a payment.                                                   *)

\* The payment row of the order is confirmed with it.  (The mutant confirms
\* every payment the order received.)
ConfirmAll(o) ==
    [t \in Transfers |-> IF payment[t] # NoPayment /\ payment[t].order = o
                         THEN [payment[t] EXCEPT !.status = "confirmed"] ELSE payment[t]]
Confirm(o) ==
    [t \in Transfers |-> IF payment[t] # NoPayment /\ payment[t].order = o
                              /\ payment[t].status = "payment_detected"
                         THEN [payment[t] EXCEPT !.status = "confirmed"] ELSE payment[t]]

\* What confirmPayments does to one of the orders it finds.  Whether the block
\* is deep enough, and still canonical, is the chain's choice.  Its identifier
\* reservation keeps the end it was created with.
ConfirmPayment(o) ==
    /\ status[o] = "payment_detected"
    /\ \E t \in Transfers : payment[t] # NoPayment /\ payment[t].order = o
                              /\ payment[t].status = "payment_detected"
    /\ status' = [status EXCEPT ![o] = "paid"]
    /\ cooldownUntil' = [cooldownUntil EXCEPT ![o] = now + Cooldown]
    /\ payment' = Confirm(o)
    /\ reservedUntil' = [reservedUntil EXCEPT ![o] =
                            IF o \in reserved THEN now + Cooldown ELSE @]
    /\ UNCHANGED <<now, code, expiresAt, transfer, reserved, identified, identifiedUntil>>

Tick ==
    /\ now < Horizon
    /\ now' = now + 1
    /\ UNCHANGED <<orderVars, reservationVars, payment>>

Next ==
    \/ Tick
    \/ ExpirePending
    \/ \E o \in Orders : CreateOrder(o) \/ ConfirmPayment(o)
    \/ \E t \in Transfers, amount \in TransferAmounts : RecordTransfer(t, amount)

\* Time passes, and every scan begins by expiring orders, before it makes any
\* call that can fail.
Fairness == WF_vars(Tick) /\ WF_vars(ExpirePending)

Spec == Init /\ [][Next]_vars
FairSpec == Spec /\ Fairness

-----------------------------------------------------------------------------
(* Properties.                                                             *)

\* No transfer ever has to be reviewed by hand because its amount was reserved
\* for two orders at once: the allocation and the indexes keep amounts apart
\* through reuse of codes, cooldowns and late confirmations.
NeverAmbiguous == \A t \in Transfers : payment[t].status # "manual_review"

\* An order was confirmed only after the cooldown it was created with had ended:
\* cooldown_until was then set to the confirmation plus a new cooldown.
ConfirmedTooLate(o) ==
    status[o] = "paid" /\ cooldownUntil[o] - Cooldown >= expiresAt[o] + Cooldown

\* From its creation to the end of its cooldown, which a confirmation renews, the
\* amounts of an order are its own: whatever happens in between, money of such an
\* amount, however late and under whichever alias, is never booked on another
\* order.  One case is excepted, since the code does not keep it: an order that
\* was confirmed too late gets a new cooldown_until (postgres-repository.js:446),
\* but only reservations still active get it too (:451), and createOrder may have
\* released them and given the amounts to another order before (:392-394).
ReservedAmountsAreOwned ==
    [][\A t \in Transfers, o \in Orders :
          /\ payment[t] = NoPayment /\ payment'[t] # NoPayment
          /\ code[o] # NoCode /\ now < cooldownUntil[o] /\ ~ConfirmedTooLate(o)
          /\ payment'[t].amount \in Amounts(o)
          => payment'[t].order \in {o, NoOrder}]_vars

\* An order and its payments tell one story: an order has a transfer exactly
\* when it is settled or late, that transfer's payment says so too, and every
\* other payment of the order is a duplicate, which only a settled order has.
Booked == [payment_detected |-> "payment_detected", paid |-> "confirmed",
           late_payment |-> "late_payment"]
LedgersAgree ==
    /\ \A o \in Orders :
          IF transfer[o] = NoTransfer
          THEN status[o] \in {"none", "pending", "expired"}
          ELSE /\ status[o] \in DOMAIN Booked
               /\ payment[transfer[o]] # NoPayment
               /\ payment[transfer[o]].order = o
               /\ payment[transfer[o]].status = Booked[status[o]]
    /\ \A t \in Transfers : payment[t] # NoPayment /\ payment[t].order # NoOrder =>
          \/ transfer[payment[t].order] = t
          \/ /\ payment[t].status = "duplicate_payment"
             /\ status[payment[t].order] \in {"payment_detected", "paid"}

\* Every pending order is resolved, whatever the customer does: it is paid for,
\* or it expires and its code goes into its cooldown.
PendingIsResolved == \A o \in Orders : status[o] = "pending" ~> status[o] # "pending"

\* The orders keep the promise of TicketSale.
Phase == [none |-> "unopened", pending |-> "open", payment_detected |-> "credited",
          paid |-> "issued", expired |-> "lapsed", late_payment |-> "lapsed"]
SalePhase == [o \in Orders |-> Phase[status[o]]]
SaleCredit == [o \in Orders |->
    IF status[o] \in {"payment_detected", "paid"} THEN transfer[o] ELSE NoTransfer]
Promise == INSTANCE TicketSale WITH phase <- SalePhase, credit <- SaleCredit
KeepsPromise == Promise!Spec

\* The inductive invariant.
\* An order that exists has a code, and its amounts are released no sooner than
\* its cooldown ends, the renewed one if it was not confirmed too late.
ReservationsLast ==
    \A o \in Orders :
        /\ status[o] = "none" <=> code[o] = NoCode
        /\ status[o] # "paid" /\ code[o] # NoCode => cooldownUntil[o] = expiresAt[o] + Cooldown
        /\ code[o] # NoCode => \/ o \in reserved /\ reservedUntil[o] = cooldownUntil[o]
                               \/ cooldownUntil[o] <= now
                               \/ ConfirmedTooLate(o)

\* No amount is reserved for two orders.
AmountsReservedOnce ==
    \A o, p \in reserved : o # p => Amounts(o) \cap Amounts(p) = {}

\* A payment of an order is of an amount that was reserved for it.
BookedByAmount ==
    \A t \in Transfers : payment[t] # NoPayment /\ payment[t].order # NoOrder =>
        LET o == payment[t].order IN code[o] # NoCode /\ payment[t].amount \in Amounts(o)

IInv == /\ TypeOK /\ ReservationsLast /\ AmountsReservedOnce
        /\ LedgersAgree /\ NeverAmbiguous /\ BookedByAmount

\* What the README says of late money (lines 274-276): a transfer for an order
\* that was not paid in time becomes late_payment while it is in its cooldown.
LateMoneyIsReconciled ==
    [][\A t \in Transfers, o \in Orders :
          /\ payment[t] = NoPayment /\ payment'[t] # NoPayment
          /\ status[o] \in {"pending", "expired"} /\ now < cooldownUntil[o]
          /\ payment'[t].amount \in Amounts(o)
          => payment'[t].order = o]_vars
=============================================================================
