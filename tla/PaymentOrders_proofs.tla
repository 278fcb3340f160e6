------------------------ MODULE PaymentOrders_proofs ------------------------
(***************************************************************************)
(* Proofs about PaymentOrders, for any orders, codes, amounts, transfers   *)
(* and windows.  Nothing is assumed of the amounts of a code but that the  *)
(* canonical one is among them: that no transfer is ambiguous follows from *)
(* the allocation alone.  The second half is about the real amounts of     *)
(* PaymentAmounts, for any number of decimals and digits: what an amount   *)
(* says, and that no two codes share one.                                  *)
(***************************************************************************)
EXTENDS PaymentMatching, FiniteSetTheorems, WellFoundedInduction, TLAPS

-----------------------------------------------------------------------------
(* Matching.                                                               *)

\* A record that stands for a missing row is no payment.
LEMMA NoPaymentIsNone == NoPayment \notin Payment /\ NoPayment.status = "none"
BY DEF NoPayment, Payment, PaymentStatus

\* A transfer is matched to orders that hold its amount and are eligible.
LEMMA MatchingHolds ==
    ASSUME TypeOK, NEW amount, NEW o \in Matching(amount)
    PROVE  o \in reserved /\ o \in Orders /\ amount \in Amounts(o) /\ Eligible(o)
<1>1. o \in Exact(amount) \/ o \in Alias(amount)
  BY DEF Matching
<1>2. o \in reserved /\ o \in Orders /\ Eligible(o)
  BY <1>1 DEF Exact, Alias, TypeOK
<1>3. amount \in Amounts(o)
  <2>1. Quantity[o] \in Quantities /\ code[o] \in Codes
    BY <1>2, OrdersAssumption DEF TypeOK
  <2> QED
    BY <1>1, <2>1, AmountsAssumption DEF Exact, Alias, Amounts
<1> QED
  BY <1>2, <1>3

\* No two orders match one amount.
LEMMA MatchingIsUnique ==
    ASSUME TypeOK, AmountsReservedOnce, NEW amount
    PROVE  Matching(amount) = {} \/ Cardinality(Matching(amount)) = 1
<1>1. \A o, p \in Matching(amount) : o = p
  BY MatchingHolds DEF AmountsReservedOnce
<1>2. CASE Matching(amount) # {}
  <2>1. PICK o : Matching(amount) = {o}
    BY <1>1, <1>2
  <2> QED
    BY <2>1, FS_Singleton
<1> QED
  BY <1>2

LEMMA ReceiptType ==
    ASSUME NEW o
    PROVE  /\ Receipt(o) \in {"payment_detected", "late_payment", "duplicate_payment"}
           /\ Settles(o) => Receipt(o) \in {"payment_detected", "late_payment"}
           /\ ~Settles(o) => Receipt(o) = "duplicate_payment"
           /\ status[o] = "pending" => Receipt(o) = "payment_detected"
           /\ status[o] = "expired" => Receipt(o) = "late_payment"
           /\ status[o] \notin {"pending", "expired"} => Receipt(o) = "duplicate_payment"
BY DEF Receipt, Settles

-----------------------------------------------------------------------------
(* Types.                                                                  *)

LEMMA InitType == Init => TypeOK
BY DEF Init, TypeOK, OrderStatus

\* A confirmed payment is a payment.
LEMMA ConfirmType ==
    ASSUME TypeOK, NEW o
    PROVE  Confirm(o) \in [Transfers -> Payment \cup {NoPayment}]
<1> SUFFICES ASSUME NEW t \in Transfers PROVE Confirm(o)[t] \in Payment \cup {NoPayment}
  BY DEF Confirm
<1>1. payment[t] \in Payment \cup {NoPayment}
  BY DEF TypeOK
<1>2. CASE Confirm(o)[t] = payment[t]
  BY <1>1, <1>2
<1>3. CASE payment[t] # NoPayment /\ Confirm(o)[t] = [payment[t] EXCEPT !.status = "confirmed"]
  BY <1>1, <1>3 DEF Payment, PaymentStatus
<1> QED
  BY <1>2, <1>3 DEF Confirm

LEMMA StepType == TypeOK /\ [Next]_vars => TypeOK'
<1> SUFFICES ASSUME TypeOK, [Next]_vars PROVE TypeOK'
  OBVIOUS
<1> USE OrdersAssumption
<1>1. CASE Tick
  BY <1>1 DEF Tick, TypeOK, orderVars, reservationVars
<1>2. CASE ExpirePending
  BY <1>2 DEF ExpirePending, TypeOK, OrderStatus, reservationVars
<1>3. ASSUME NEW o \in Orders, CreateOrder(o) PROVE TypeOK'
  <2>1. PICK c \in Codes : code' = [code EXCEPT ![o] = c]
    BY <1>3 DEF CreateOrder
  <2>2. code' \in [Orders -> Codes \cup {NoCode}] /\ code'[o] # NoCode
        /\ \A p \in Orders : code[p] # NoCode => code'[p] # NoCode
    BY <2>1, NamesAssumption DEF TypeOK
  <2>3. now + Reservation \in Nat /\ now + Reservation + Cooldown \in Nat
    BY DEF TypeOK
  <2>4. reserved' \subseteq {p \in Orders : code'[p] # NoCode}
        /\ identified' \subseteq {p \in Orders : code'[p] # NoCode}
    BY <1>3, <2>2 DEF CreateOrder, TypeOK, StillReserved, StillIdentified
  <2>5. status' \in [Orders -> OrderStatus]
    BY <1>3 DEF CreateOrder, TypeOK, OrderStatus
  <2>6. /\ expiresAt' \in [Orders -> Nat] /\ cooldownUntil' \in [Orders -> Nat]
        /\ reservedUntil' \in [Orders -> Nat] /\ identifiedUntil' \in [Orders -> Nat]
    BY <1>3, <2>3 DEF CreateOrder, TypeOK
  <2> QED
    BY <1>3, <2>2, <2>4, <2>5, <2>6 DEF CreateOrder, TypeOK
<1>4. ASSUME NEW o \in Orders, ConfirmPayment(o) PROVE TypeOK'
  <2>1. now + Cooldown \in Nat
    BY DEF TypeOK
  <2>2. payment' \in [Transfers -> Payment \cup {NoPayment}]
    BY <1>4, ConfirmType DEF ConfirmPayment
  <2>3. status' \in [Orders -> OrderStatus]
    BY <1>4 DEF ConfirmPayment, TypeOK, OrderStatus
  <2>4. cooldownUntil' \in [Orders -> Nat] /\ reservedUntil' \in [Orders -> Nat]
    BY <1>4, <2>1 DEF ConfirmPayment, TypeOK
  <2> QED
    BY <1>4, <2>2, <2>3, <2>4 DEF ConfirmPayment, TypeOK
<1>5. ASSUME NEW t \in Transfers, NEW amount \in TransferAmounts, RecordTransfer(t, amount)
      PROVE  TypeOK'
  <2>1. CASE RecordUnmatched(t, amount)
    BY <1>5, <2>1 DEF RecordTransfer, RecordUnmatched, TypeOK, Payment, PaymentStatus,
                      reservationVars
  <2>2. ASSUME NEW o \in Matching(amount), RecordMatched(t, amount, o) PROVE TypeOK'
    <3>1. o \in Orders
      BY MatchingHolds
    <3>2. status' \in [Orders -> OrderStatus]
      BY <2>2, <3>1, ReceiptType DEF RecordMatched, TypeOK, OrderStatus
    <3>3. transfer' \in [Orders -> Transfers \cup {NoTransfer}]
      BY <2>2, <3>1 DEF RecordMatched, TypeOK
    <3>4. [status |-> Receipt(o), order |-> o, amount |-> amount] \in Payment
      BY <3>1, ReceiptType DEF Payment, PaymentStatus
    <3>5. payment' \in [Transfers -> Payment \cup {NoPayment}]
      BY <2>2, <3>4 DEF RecordMatched, TypeOK
    <3> QED
      BY <1>5, <3>2, <3>3, <3>5 DEF RecordTransfer, TypeOK, reservationVars
  <2> QED
    BY <1>5, <2>1, <2>2 DEF RecordTransfer
<1>6. CASE UNCHANGED vars
  BY <1>6 DEF vars, TypeOK, orderVars, reservationVars
<1> QED
  BY <1>1, <1>2, <1>3, <1>4, <1>5, <1>6 DEF Next

\* Orders, reservations and payments keep their types, for any constants.
THEOREM TypeCorrect == Spec => []TypeOK
BY InitType, StepType, PTL DEF Spec

-----------------------------------------------------------------------------
(* The inductive invariant, one part at a time.                            *)

LEMMA InitIInv == Init => IInv
<1> SUFFICES ASSUME Init PROVE IInv
  OBVIOUS
<1>1. TypeOK
  BY InitType
<1>2. ReservationsLast /\ AmountsReservedOnce
  BY DEF Init, ReservationsLast, AmountsReservedOnce
<1>3. LedgersAgree /\ NeverAmbiguous
  BY DEF Init, LedgersAgree, NeverAmbiguous, NoPayment
<1>4. BookedByAmount
  BY DEF Init, BookedByAmount
<1> QED
  BY <1>1, <1>2, <1>3, <1>4 DEF IInv

\* Amounts are released when their cooldown is over, not before.
LEMMA StepReservations ==
    ASSUME TypeOK, ReservationsLast, [Next]_vars
    PROVE  ReservationsLast'
<1> USE OrdersAssumption
<1>1. CASE Tick
  BY <1>1 DEF Tick, TypeOK, ReservationsLast, ConfirmedTooLate, orderVars, reservationVars
<1>2. CASE ExpirePending
  BY <1>2 DEF ExpirePending, Overdue, TypeOK, ReservationsLast, ConfirmedTooLate, reservationVars
<1>3. ASSUME NEW o \in Orders, CreateOrder(o) PROVE ReservationsLast'
  <2>1. PICK c \in Codes : code' = [code EXCEPT ![o] = c]
    BY <1>3 DEF CreateOrder
  <2> SUFFICES ASSUME NEW p \in Orders
               PROVE  /\ (status'[p] = "none" <=> code'[p] = NoCode)
                      /\ status'[p] # "paid" /\ code'[p] # NoCode
                            => cooldownUntil'[p] = expiresAt'[p] + Cooldown
                      /\ code'[p] # NoCode =>
                            \/ p \in reserved' /\ reservedUntil'[p] = cooldownUntil'[p]
                            \/ cooldownUntil'[p] <= now'
                            \/ ConfirmedTooLate(p)'
    BY DEF ReservationsLast
  <2>2. CASE p = o
    <3>1. code'[p] # NoCode /\ status'[p] = "pending"
      BY <1>3, <2>1, <2>2, NamesAssumption DEF CreateOrder, TypeOK
    <3>2. /\ cooldownUntil'[p] = now + Reservation + Cooldown
          /\ reservedUntil'[p] = cooldownUntil'[p]
          /\ expiresAt'[p] = now + Reservation /\ p \in reserved'
      BY <1>3, <2>2 DEF CreateOrder, TypeOK
    <3> QED
      BY <3>1, <3>2 DEF TypeOK
  <2>3. CASE p # o
    <3>1. /\ status'[p] = status[p] /\ code'[p] = code[p] /\ now' = now
          /\ cooldownUntil'[p] = cooldownUntil[p] /\ expiresAt'[p] = expiresAt[p]
          /\ reservedUntil'[p] = reservedUntil[p]
      BY <1>3, <2>1, <2>3 DEF CreateOrder, TypeOK
    <3>2. p \in reserved => p \in reserved' \/ reservedUntil[p] <= now
      BY <1>3 DEF CreateOrder, StillReserved, Lapsed
    <3> QED
      BY <3>1, <3>2 DEF ReservationsLast, ConfirmedTooLate
  <2> QED
    BY <2>2, <2>3
<1>4. ASSUME NEW o \in Orders, ConfirmPayment(o) PROVE ReservationsLast'
  <2> SUFFICES ASSUME NEW p \in Orders
               PROVE  /\ (status'[p] = "none" <=> code'[p] = NoCode)
                      /\ status'[p] # "paid" /\ code'[p] # NoCode
                            => cooldownUntil'[p] = expiresAt'[p] + Cooldown
                      /\ code'[p] # NoCode =>
                            \/ p \in reserved' /\ reservedUntil'[p] = cooldownUntil'[p]
                            \/ cooldownUntil'[p] <= now'
                            \/ ConfirmedTooLate(p)'
    BY DEF ReservationsLast
  <2>1. CASE p = o
    BY <1>4, <2>1 DEF ConfirmPayment, TypeOK, ReservationsLast, ConfirmedTooLate
  <2>2. CASE p # o
    BY <1>4, <2>2 DEF ConfirmPayment, TypeOK, ReservationsLast, ConfirmedTooLate
  <2> QED
    BY <2>1, <2>2
<1>5. ASSUME NEW t \in Transfers, NEW amount \in TransferAmounts, RecordTransfer(t, amount)
      PROVE  ReservationsLast'
  <2>1. \A p \in Orders : /\ status'[p] = "none" <=> status[p] = "none"
                          /\ status'[p] = "paid" <=> status[p] = "paid"
    <3>1. CASE RecordUnmatched(t, amount)
      BY <3>1 DEF RecordUnmatched
    <3>2. ASSUME NEW o \in Matching(amount), RecordMatched(t, amount, o)
          PROVE  \A p \in Orders : /\ status'[p] = "none" <=> status[p] = "none"
                                   /\ status'[p] = "paid" <=> status[p] = "paid"
      <4>1. o \in Orders /\ Eligible(o)
        BY MatchingHolds
      <4>2. Settles(o) => status[o] \in {"pending", "expired"}
        BY ReceiptType
      <4> QED
        BY <3>2, <4>1, <4>2, ReceiptType DEF RecordMatched, TypeOK
    <3> QED
      BY <1>5, <3>1, <3>2 DEF RecordTransfer
  <2> QED
    BY <1>5, <2>1 DEF RecordTransfer, ReservationsLast, ConfirmedTooLate, reservationVars
<1>6. CASE UNCHANGED vars
  BY <1>6 DEF vars, ReservationsLast, ConfirmedTooLate, orderVars, reservationVars
<1> QED
  BY <1>1, <1>2, <1>3, <1>4, <1>5, <1>6 DEF Next

\* Amounts are only given to a new order when nobody holds them.
LEMMA StepAmounts ==
    ASSUME TypeOK, ReservationsLast, AmountsReservedOnce, [Next]_vars
    PROVE  AmountsReservedOnce'
<1>1. ASSUME UNCHANGED <<reserved, code>> PROVE AmountsReservedOnce'
  BY <1>1 DEF AmountsReservedOnce, Amounts
<1>2. ASSUME NEW o \in Orders, CreateOrder(o) PROVE AmountsReservedOnce'
  <2>1. PICK c \in Codes : Free(Quantity[o], c) /\ code' = [code EXCEPT ![o] = c]
    BY <1>2 DEF CreateOrder, FirstFree
  <2>2. o \notin reserved /\ o \notin StillReserved
    BY <1>2 DEF CreateOrder, TypeOK, ReservationsLast, StillReserved
  <2>3. reserved' = StillReserved \cup {o} /\ StillReserved \subseteq reserved
    BY <1>2 DEF CreateOrder, StillReserved
  <2>4. Amounts(o)' = AmountsOf[Quantity[o]][c]
    BY <2>1 DEF Amounts, TypeOK
  <2>5. \A p \in StillReserved : Amounts(p)' = Amounts(p)
    BY <2>1, <2>2 DEF Amounts, TypeOK, StillReserved
  <2>6. \A p \in StillReserved : Amounts(p)' \cap Amounts(o)' = {}
    BY <2>1, <2>4, <2>5 DEF Free, TakenAmounts
  <2>7. \A p, q \in StillReserved : p # q => Amounts(p)' \cap Amounts(q)' = {}
    BY <2>3, <2>5 DEF AmountsReservedOnce
  <2> QED
    BY <2>3, <2>6, <2>7 DEF AmountsReservedOnce
<1> QED
  BY <1>1, <1>2 DEF Next, Tick, ExpirePending, ConfirmPayment, RecordTransfer, vars,
                    orderVars, reservationVars

\* The payments of an order that is neither settled nor late.
LEMMA UnsettledHasNoPayments ==
    ASSUME LedgersAgree, NEW o \in Orders,
           status[o] \in {"none", "pending", "expired"}
    PROVE  /\ transfer[o] = NoTransfer
           /\ \A t \in Transfers : payment[t] # NoPayment => payment[t].order # o
<1>1. transfer[o] = NoTransfer
  BY DEF LedgersAgree, Booked
<1>2. ASSUME NEW t \in Transfers, payment[t] # NoPayment, payment[t].order = o PROVE FALSE
  <2>1. transfer[o] = t \/ status[o] \in {"payment_detected", "paid"}
    BY <1>2, NamesAssumption DEF LedgersAgree
  <2> QED
    BY <1>1, <2>1, NamesAssumption
<1> QED
  BY <1>1, <1>2

\* Orders without payments may move between the unsettled statuses.
LEMMA UnsettledMayMove ==
    ASSUME TypeOK, LedgersAgree, UNCHANGED <<transfer, payment>>,
           \A o \in Orders : status'[o] = status[o]
                \/ /\ status[o] \in {"none", "pending", "expired"}
                   /\ status'[o] \in {"none", "pending", "expired"}
    PROVE  LedgersAgree'
<1>1. ASSUME NEW o \in Orders
      PROVE  IF transfer[o] = NoTransfer
             THEN status'[o] \in {"none", "pending", "expired"}
             ELSE status'[o] = status[o]
  BY UnsettledHasNoPayments DEF LedgersAgree
<1>2. ASSUME NEW t \in Transfers, payment[t] # NoPayment, payment[t].order # NoOrder
      PROVE  payment[t].order \in Orders /\ status'[payment[t].order] = status[payment[t].order]
  <2>1. payment[t].order \in Orders
    BY <1>2 DEF TypeOK, Payment
  <2> QED
    BY <1>2, <2>1, UnsettledHasNoPayments
<1> QED
  BY <1>1, <1>2 DEF LedgersAgree

\* Every step keeps orders and payments in agreement.
LEMMA StepLedgers ==
    ASSUME TypeOK, AmountsReservedOnce, LedgersAgree, [Next]_vars
    PROVE  LedgersAgree'
<1>1. ASSUME UNCHANGED <<status, transfer, payment>> PROVE LedgersAgree'
  BY <1>1 DEF LedgersAgree
<1>2. CASE ExpirePending
  <2>1. \A o \in Orders : status'[o] = status[o]
                \/ /\ status[o] \in {"none", "pending", "expired"}
                   /\ status'[o] \in {"none", "pending", "expired"}
    BY <1>2 DEF ExpirePending, Overdue
  <2>2. transfer' = transfer /\ payment' = payment
    BY <1>2 DEF ExpirePending
  <2> QED
    BY <2>1, <2>2, UnsettledMayMove
<1>3. ASSUME NEW o \in Orders, CreateOrder(o) PROVE LedgersAgree'
  <2>1. \A p \in Orders : status'[p] = status[p]
                \/ /\ status[p] \in {"none", "pending", "expired"}
                   /\ status'[p] \in {"none", "pending", "expired"}
    BY <1>3 DEF CreateOrder, TypeOK
  <2>2. transfer' = transfer /\ payment' = payment
    BY <1>3 DEF CreateOrder
  <2> QED
    BY <2>1, <2>2, UnsettledMayMove
<1>4. ASSUME NEW o \in Orders, ConfirmPayment(o) PROVE LedgersAgree'
  <2>1. PICK t \in Transfers : t = transfer[o] /\ payment[t] # NoPayment /\ payment[t].order = o
                               /\ payment[t].status = "payment_detected"
    BY <1>4, NamesAssumption DEF ConfirmPayment, LedgersAgree
  <2>2. /\ transfer' = transfer /\ status'[o] = "paid"
        /\ \A p \in Orders \ {o} : status'[p] = status[p]
    BY <1>4 DEF ConfirmPayment, TypeOK
  <2>3. payment'[t] # NoPayment /\ payment'[t].order = o /\ payment'[t].status = "confirmed"
    <3>1. payment[t] \in Payment
      BY <2>1 DEF TypeOK
    <3>2. payment'[t] = [payment[t] EXCEPT !.status = "confirmed"]
      BY <1>4, <2>1 DEF ConfirmPayment, Confirm
    <3> QED
      BY <2>1, <3>1, <3>2 DEF Payment, NoPayment
  <2>4. \A s \in Transfers \ {t} : payment'[s] = payment[s]
    <3> SUFFICES ASSUME NEW s \in Transfers \ {t} PROVE payment'[s] = payment[s]
      OBVIOUS
    <3>1. ~(payment[s] # NoPayment /\ payment[s].order = o
              /\ payment[s].status = "payment_detected")
      BY <2>1, NamesAssumption DEF LedgersAgree
    <3> QED
      BY <1>4, <3>1 DEF ConfirmPayment, Confirm
  <2>5. ASSUME NEW p \in Orders
        PROVE  IF transfer'[p] = NoTransfer
               THEN status'[p] \in {"none", "pending", "expired"}
               ELSE /\ status'[p] \in DOMAIN Booked
                    /\ payment'[transfer'[p]] # NoPayment
                    /\ payment'[transfer'[p]].order = p
                    /\ payment'[transfer'[p]].status = Booked[status'[p]]
    <3>1. CASE p = o
      BY <2>1, <2>2, <2>3, <3>1, NamesAssumption DEF Booked
    <3>2. CASE p # o /\ transfer[p] = NoTransfer
      BY <2>2, <3>2 DEF LedgersAgree
    <3>3. CASE p # o /\ transfer[p] # NoTransfer
      <4>1. transfer[p] \in Transfers /\ transfer[p] # t
        BY <2>1, <3>3 DEF TypeOK, LedgersAgree
      <4> QED
        BY <2>2, <2>4, <3>3, <4>1 DEF LedgersAgree
    <3> QED
      BY <3>1, <3>2, <3>3
  <2>6. ASSUME NEW s \in Transfers, payment'[s] # NoPayment, payment'[s].order # NoOrder
        PROVE  \/ transfer'[payment'[s].order] = s
               \/ /\ payment'[s].status = "duplicate_payment"
                  /\ status'[payment'[s].order] \in {"payment_detected", "paid"}
    <3>1. CASE s = t
      BY <2>1, <2>2, <2>3, <3>1
    <3>2. CASE s # t
      <4>1. payment'[s] = payment[s] /\ payment[s].order \in Orders
        BY <2>4, <2>6, <3>2 DEF TypeOK, Payment
      <4> QED
        BY <2>2, <2>6, <4>1 DEF LedgersAgree
    <3> QED
      BY <3>1, <3>2
  <2> QED
    BY <2>5, <2>6 DEF LedgersAgree
<1>5. ASSUME NEW t \in Transfers, NEW amount \in TransferAmounts, RecordTransfer(t, amount)
      PROVE  LedgersAgree'
  <2>1. \A p \in Orders : transfer[p] # t
    BY <1>5, NamesAssumption DEF RecordTransfer, LedgersAgree
  <2>2. CASE RecordUnmatched(t, amount)
    BY <2>1, <2>2, NamesAssumption DEF RecordUnmatched, LedgersAgree, TypeOK, Payment
  <2>3. ASSUME NEW o \in Matching(amount), RecordMatched(t, amount, o) PROVE LedgersAgree'
    <3> DEFINE new == [status |-> Receipt(o), order |-> o, amount |-> amount]
    <3>1. o \in Orders /\ Eligible(o)
      BY MatchingHolds
    <3>2. /\ payment'[t] = new /\ \A s \in Transfers \ {t} : payment'[s] = payment[s]
          /\ \A p \in Orders \ {o} : status'[p] = status[p] /\ transfer'[p] = transfer[p]
      BY <2>3, <3>1 DEF RecordMatched, TypeOK
    <3>3. new # NoPayment /\ new.order = o /\ new.status = Receipt(o)
      BY ReceiptType DEF NoPayment
    <3>4. ASSUME NEW p \in Orders, transfer[p] # NoTransfer
          PROVE  transfer[p] \in Transfers \ {t} /\ payment'[transfer[p]] = payment[transfer[p]]
      BY <2>1, <3>2, <3>4 DEF TypeOK
    <3> HIDE DEF new
    <3>5. CASE Settles(o)
      <4>1. status'[o] = Receipt(o) /\ transfer'[o] = t
        BY <2>3, <3>1, <3>5 DEF RecordMatched, TypeOK
      <4>2. status[o] \in {"pending", "expired"}
        BY <3>5, ReceiptType
      <4>3. \A s \in Transfers : payment[s] # NoPayment => payment[s].order # o
        BY <3>1, <4>2, UnsettledHasNoPayments
      <4>4. Receipt(o) \in DOMAIN Booked /\ Booked[Receipt(o)] = Receipt(o)
        BY <3>5, ReceiptType DEF Booked
      <4>5. ASSUME NEW p \in Orders
            PROVE  IF transfer'[p] = NoTransfer
                   THEN status'[p] \in {"none", "pending", "expired"}
                   ELSE /\ status'[p] \in DOMAIN Booked
                        /\ payment'[transfer'[p]] # NoPayment
                        /\ payment'[transfer'[p]].order = p
                        /\ payment'[transfer'[p]].status = Booked[status'[p]]
        <5>1. CASE p = o
          BY <3>2, <3>3, <4>1, <4>4, <5>1, NamesAssumption
        <5>2. CASE p # o
          BY <3>2, <3>4, <5>2 DEF LedgersAgree
        <5> QED
          BY <5>1, <5>2
      <4>6. ASSUME NEW s \in Transfers, payment'[s] # NoPayment, payment'[s].order # NoOrder
            PROVE  \/ transfer'[payment'[s].order] = s
                   \/ /\ payment'[s].status = "duplicate_payment"
                      /\ status'[payment'[s].order] \in {"payment_detected", "paid"}
        <5>1. CASE s = t
          BY <3>2, <3>3, <4>1, <5>1
        <5>2. CASE s # t
          <6>1. payment'[s] = payment[s] /\ payment[s].order \in Orders \ {o}
            BY <3>2, <4>3, <4>6, <5>2 DEF TypeOK, Payment
          <6> QED
            BY <3>2, <4>6, <6>1 DEF LedgersAgree
        <5> QED
          BY <5>1, <5>2
      <4> QED
        BY <4>5, <4>6 DEF LedgersAgree
    <3>6. CASE ~Settles(o)
      <4>1. status' = status /\ transfer' = transfer
        BY <2>3, <3>6 DEF RecordMatched, TypeOK
      <4>2. Receipt(o) = "duplicate_payment" /\ status[o] \in {"payment_detected", "paid"}
        BY <3>1, <3>6, ReceiptType DEF Eligible
      <4>3. ASSUME NEW p \in Orders
            PROVE  IF transfer'[p] = NoTransfer
                   THEN status'[p] \in {"none", "pending", "expired"}
                   ELSE /\ status'[p] \in DOMAIN Booked
                        /\ payment'[transfer'[p]] # NoPayment
                        /\ payment'[transfer'[p]].order = p
                        /\ payment'[transfer'[p]].status = Booked[status'[p]]
        BY <3>4, <4>1 DEF LedgersAgree
      <4>4. ASSUME NEW s \in Transfers, payment'[s] # NoPayment, payment'[s].order # NoOrder
            PROVE  \/ transfer'[payment'[s].order] = s
                   \/ /\ payment'[s].status = "duplicate_payment"
                      /\ status'[payment'[s].order] \in {"payment_detected", "paid"}
        BY <3>2, <3>3, <4>1, <4>2, <4>4 DEF LedgersAgree
      <4> QED
        BY <4>3, <4>4 DEF LedgersAgree
    <3> QED
      BY <3>5, <3>6
  <2> QED
    BY <1>5, <2>2, <2>3 DEF RecordTransfer
<1>6. CASE Tick
  BY <1>1, <1>6 DEF Tick, orderVars
<1>7. CASE UNCHANGED vars
  BY <1>1, <1>7 DEF vars, orderVars
<1> QED
  BY <1>2, <1>3, <1>4, <1>5, <1>6, <1>7 DEF Next

\* A transfer that is not matched matches nothing.
LEMMA StepAmbiguous ==
    ASSUME TypeOK, AmountsReservedOnce, NeverAmbiguous, [Next]_vars
    PROVE  NeverAmbiguous'
<1>1. ASSUME NEW o \in Orders, ConfirmPayment(o) PROVE NeverAmbiguous'
  <2> SUFFICES ASSUME NEW t \in Transfers PROVE payment'[t].status # "manual_review"
    BY DEF NeverAmbiguous
  <2>1. CASE payment'[t] = payment[t]
    BY <2>1 DEF NeverAmbiguous
  <2>2. CASE payment[t] # NoPayment /\ payment'[t] = [payment[t] EXCEPT !.status = "confirmed"]
    BY <2>2 DEF TypeOK, Payment
  <2> QED
    BY <1>1, <2>1, <2>2 DEF ConfirmPayment, Confirm
<1>2. ASSUME NEW t \in Transfers, NEW amount \in TransferAmounts, RecordTransfer(t, amount)
      PROVE  NeverAmbiguous'
  <2>1. CASE Matching(amount) = {}
    <3>1. ~(Cardinality(Matching(amount)) = 1)
      BY <2>1, FS_EmptySet
    <3>2. RecordUnmatched(t, amount)
      BY <1>2, <3>1 DEF RecordTransfer
    <3> QED
      BY <2>1, <3>2 DEF RecordUnmatched, NeverAmbiguous, TypeOK
  <2>2. ASSUME NEW o \in Matching(amount), RecordMatched(t, amount, o) PROVE NeverAmbiguous'
    BY <2>2, ReceiptType DEF RecordMatched, NeverAmbiguous, TypeOK
  <2> QED
    BY <1>2, <2>1, <2>2, MatchingIsUnique DEF RecordTransfer
<1>3. ASSUME UNCHANGED payment PROVE NeverAmbiguous'
  BY <1>3 DEF NeverAmbiguous
<1> QED
  BY <1>1, <1>2, <1>3 DEF Next, Tick, ExpirePending, CreateOrder, vars

\* A payment is booked with an amount its order holds, and an order keeps its
\* code.
LEMMA StepBooked ==
    TypeOK /\ ReservationsLast /\ LedgersAgree /\ BookedByAmount /\ [Next]_vars
        => BookedByAmount'
<1> SUFFICES ASSUME TypeOK, ReservationsLast, LedgersAgree, BookedByAmount, [Next]_vars
             PROVE  BookedByAmount'
  OBVIOUS
<1>1. ASSUME NEW o \in Orders, CreateOrder(o)
      PROVE  BookedByAmount'
  <2>1. code[o] = NoCode /\ status[o] = "none"
    BY <1>1 DEF CreateOrder, ReservationsLast
  <2>2. \A p \in Orders : p # o => code'[p] = code[p] /\ Amounts(p)' = Amounts(p)
    BY <1>1 DEF CreateOrder, TypeOK, Amounts
  <2>3. payment' = payment
    BY <1>1 DEF CreateOrder
  <2>4. ASSUME NEW t \in Transfers, payment[t] # NoPayment, payment[t].order # NoOrder
        PROVE  payment[t].order \in Orders /\ payment[t].order # o
    <3>1. payment[t] \in Payment
      BY <2>4 DEF TypeOK
    <3>2. payment[t].order \in Orders
      BY <3>1, <2>4 DEF Payment
    <3> QED
      BY <2>1, <2>4, <3>2 DEF BookedByAmount
  <2> QED
    BY <2>2, <2>3, <2>4 DEF BookedByAmount
<1>2. ASSUME NEW o \in Orders, ConfirmPayment(o)
      PROVE  BookedByAmount'
  <2>1. code' = code /\ \A p : Amounts(p)' = Amounts(p)
    BY <1>2 DEF ConfirmPayment, Amounts
  <2>2. ASSUME NEW t \in Transfers, payment'[t] # NoPayment, payment'[t].order # NoOrder
        PROVE  /\ payment[t] # NoPayment /\ payment'[t].order = payment[t].order
               /\ payment'[t].amount = payment[t].amount
    <3>1. payment'[t] = Confirm(o)[t]
      BY <1>2 DEF ConfirmPayment
    <3>2. CASE payment[t] # NoPayment /\ payment[t].order = o
                 /\ payment[t].status = "payment_detected"
      <4>1. payment'[t] = [payment[t] EXCEPT !.status = "confirmed"]
        BY <3>1, <3>2 DEF Confirm
      <4>2. payment[t] \in Payment
        BY <3>2 DEF TypeOK
      <4> QED
        BY <3>2, <4>1, <4>2 DEF Payment
    <3>3. CASE ~ (payment[t] # NoPayment /\ payment[t].order = o
                    /\ payment[t].status = "payment_detected")
      <4>1. payment'[t] = payment[t]
        BY <3>1, <3>3 DEF Confirm
      <4> QED
        BY <2>2, <4>1
    <3> QED
      BY <3>2, <3>3
  <2>3. ASSUME NEW t \in Transfers, payment'[t] # NoPayment, payment'[t].order # NoOrder
        PROVE  /\ code[payment'[t].order] # NoCode
               /\ payment'[t].amount \in Amounts(payment'[t].order)
    <3>1. payment[t] # NoPayment /\ payment[t].order # NoOrder
      BY <2>2, <2>3
    <3>2. code[payment[t].order] # NoCode /\ payment[t].amount \in Amounts(payment[t].order)
      BY <3>1 DEF BookedByAmount
    <3> QED
      BY <2>2, <2>3, <3>2
  <2> QED
    BY <2>1, <2>3 DEF BookedByAmount
<1>3. ASSUME NEW t \in Transfers, NEW amount \in TransferAmounts, RecordTransfer(t, amount)
      PROVE  BookedByAmount'
  <2>1. code' = code /\ \A p : Amounts(p)' = Amounts(p)
    BY <1>3 DEF RecordTransfer, Amounts
  <2>2. \A u \in Transfers : u # t => payment'[u] = payment[u]
    BY <1>3 DEF RecordTransfer, RecordMatched, RecordUnmatched, TypeOK
  <2>3. ASSUME payment'[t].order # NoOrder
        PROVE  /\ code[payment'[t].order] # NoCode
               /\ payment'[t].amount \in Amounts(payment'[t].order)
    <3>1. ASSUME RecordUnmatched(t, amount)
          PROVE  FALSE
      BY <2>3, <3>1 DEF RecordUnmatched, TypeOK
    <3>2. PICK o \in Matching(amount) : RecordMatched(t, amount, o)
      BY <1>3, <3>1 DEF RecordTransfer
    <3>3. o \in reserved /\ amount \in Amounts(o)
      BY <3>2, MatchingHolds
    <3>4. payment'[t].order = o /\ payment'[t].amount = amount
      BY <3>2 DEF RecordMatched, TypeOK
    <3> QED
      BY <3>3, <3>4 DEF TypeOK
  <2> QED
    BY <2>1, <2>2, <2>3 DEF BookedByAmount
<1>4. ASSUME UNCHANGED <<code, payment>>
      PROVE  BookedByAmount'
  BY <1>4 DEF BookedByAmount, Amounts
<1> QED
  BY <1>1, <1>2, <1>3, <1>4 DEF Next, Tick, ExpirePending, vars, orderVars

LEMMA StepIInv == IInv /\ [Next]_vars => IInv'
BY StepType, StepReservations, StepAmounts, StepLedgers, StepAmbiguous, StepBooked DEF IInv

\* Reservations outlast cooldowns, no amount is reserved for two orders, and
\* orders agree with payments, for any constants.
THEOREM Consistent == Spec => []IInv
BY InitIInv, StepIInv, PTL DEF Spec

\* No transfer ever matches two orders, whatever amounts the codes stand for.
THEOREM NothingIsAmbiguous == Spec => []NeverAmbiguous
<1>1. IInv => NeverAmbiguous
  BY DEF IInv
<1> QED
  BY <1>1, Consistent, PTL

\* Orders and payments tell the same story: an order is paid by one transfer,
\* that of its settling payment, and no other payment counts for it.
THEOREM BooksBalance == Spec => []LedgersAgree
<1>1. IInv => LedgersAgree
  BY DEF IInv
<1> QED
  BY <1>1, Consistent, PTL

-----------------------------------------------------------------------------
(* What follows from the invariant.                                        *)

\* From its creation to the end of its cooldown, which a confirmation renews, no
\* amount of an order is ever booked on another order, except when the order was
\* confirmed only after the cooldown it was created with.
THEOREM AmountsAreOwned == Spec => ReservedAmountsAreOwned
<1> DEFINE Owned == \A t \in Transfers, o \in Orders :
          /\ payment[t] = NoPayment /\ payment'[t] # NoPayment
          /\ code[o] # NoCode /\ now < cooldownUntil[o] /\ ~ConfirmedTooLate(o)
          /\ payment'[t].amount \in Amounts(o)
          => payment'[t].order \in {o, NoOrder}
<1>1. ASSUME IInv, [Next]_vars PROVE Owned
  <2> SUFFICES ASSUME NEW t \in Transfers, NEW o \in Orders,
                      payment[t] = NoPayment, payment'[t] # NoPayment,
                      code[o] # NoCode, now < cooldownUntil[o], ~ConfirmedTooLate(o),
                      payment'[t].amount \in Amounts(o)
               PROVE  payment'[t].order \in {o, NoOrder}
    OBVIOUS
  <2>1. TypeOK /\ ReservationsLast /\ AmountsReservedOnce
    BY <1>1 DEF IInv
  <2>2. o \in reserved
    <3>1. now \in Nat /\ cooldownUntil[o] \in Nat
      BY <2>1 DEF TypeOK
    <3> QED
      BY <2>1, <3>1 DEF ReservationsLast
  <2>3. PICK s \in Transfers, amount \in TransferAmounts : RecordTransfer(s, amount)
    <3>1. CASE \E p \in Orders : ConfirmPayment(p)
      BY <3>1 DEF ConfirmPayment, Confirm
    <3> QED
      BY <1>1, <3>1 DEF Next, Tick, ExpirePending, CreateOrder, vars
  <2>4. CASE RecordUnmatched(s, amount)
    BY <2>1, <2>4 DEF RecordUnmatched, TypeOK
  <2>5. ASSUME NEW p \in Matching(amount), RecordMatched(s, amount, p)
        PROVE  payment'[t].order \in {o, NoOrder}
    <3>1. p \in reserved /\ amount \in Amounts(p)
      BY <2>1, MatchingHolds
    <3>2. t = s /\ payment'[t].order = p /\ payment'[t].amount = amount
      BY <2>1, <2>5 DEF RecordMatched, TypeOK
    <3> QED
      BY <2>1, <2>2, <3>1, <3>2 DEF AmountsReservedOnce
  <2> QED
    BY <2>3, <2>4, <2>5 DEF RecordTransfer
<1>2. IInv /\ [Next]_vars => [Owned]_vars
  BY <1>1
<1> QED
  BY <1>2, Consistent, PTL DEF Spec, ReservedAmountsAreOwned

\* When the status of one order changes, so does its phase.
LEMMA PhaseFollows ==
    ASSUME TypeOK, NEW o \in Orders, NEW s, status' = [status EXCEPT ![o] = s]
    PROVE  SalePhase' = [SalePhase EXCEPT ![o] = Phase[s]] /\ SalePhase[o] = Phase[status[o]]
<1>1. status'[o] = s /\ \A p \in Orders : p # o => status'[p] = status[p]
  BY DEF TypeOK
<1>2. Phase' = Phase
  BY DEF Phase
<1>3. SalePhase' = [p \in Orders |-> Phase[status'[p]]]
  BY <1>2 DEF SalePhase
<1>4. SalePhase = [p \in Orders |-> Phase[status[p]]]
  BY DEF SalePhase
<1> QED
  BY <1>1, <1>3, <1>4

LEMMA Phases ==
    /\ Phase["none"] = "unopened" /\ Phase["pending"] = "open"
    /\ Phase["payment_detected"] = "credited" /\ Phase["paid"] = "issued"
    /\ Phase["expired"] = "lapsed" /\ Phase["late_payment"] = "lapsed"
BY DEF Phase

\* Every step of an order is a step of its sale, or none.
LEMMA StepKeepsPromise ==
    ASSUME IInv, [Next]_vars
    PROVE  [Promise!Next]_<<SalePhase, SaleCredit>>
<1> USE DEF Promise!Phases
<1>0. TypeOK /\ ReservationsLast /\ LedgersAgree /\ TypeOK'
  <2>1. IInv'
    BY StepIInv
  <2> QED
    BY <2>1 DEF IInv
<1>1. ASSUME UNCHANGED <<status, transfer>> PROVE UNCHANGED <<SalePhase, SaleCredit>>
  BY <1>1 DEF SalePhase, SaleCredit
<1>2. CASE ExpirePending
  <2>1. \A o \in Overdue : SalePhase[o] = "open"
    BY DEF Overdue, SalePhase, Phase
  <2>2. SalePhase' = [o \in Orders |-> IF o \in Overdue THEN "lapsed" ELSE SalePhase[o]]
    BY <1>2 DEF ExpirePending, SalePhase, Phase
  <2>3. SaleCredit' = SaleCredit
    BY <1>2 DEF ExpirePending, SaleCredit, Overdue
  <2>4. Overdue \in SUBSET Orders
    BY DEF Overdue
  <2> QED
    BY <2>1, <2>2, <2>3, <2>4 DEF Promise!Next, Promise!Lapse
<1>3. ASSUME NEW o \in Orders, CreateOrder(o) PROVE Promise!Open(o)
  <2>1. status[o] = "none" /\ status' = [status EXCEPT ![o] = "pending"] /\ transfer' = transfer
    BY <1>3 DEF CreateOrder
  <2>4. SalePhase' = [SalePhase EXCEPT ![o] = Phase["pending"]] /\ SalePhase[o] = Phase[status[o]]
    BY <1>0, <2>1, PhaseFollows
  <2>2. SalePhase' = [SalePhase EXCEPT ![o] = "open"] /\ SalePhase[o] = "unopened"
    BY <2>1, <2>4, Phases
  <2>3. SaleCredit' = SaleCredit
    BY <1>0, <2>1 DEF SaleCredit, TypeOK
  <2> QED
    BY <2>2, <2>3 DEF Promise!Open, Promise!Move
<1>4. ASSUME NEW o \in Orders, ConfirmPayment(o) PROVE Promise!Issue(o)
  <2>1. /\ status[o] = "payment_detected" /\ status' = [status EXCEPT ![o] = "paid"]
        /\ transfer' = transfer
    BY <1>4 DEF ConfirmPayment
  <2>4. SalePhase' = [SalePhase EXCEPT ![o] = Phase["paid"]] /\ SalePhase[o] = Phase[status[o]]
    BY <1>0, <2>1, PhaseFollows
  <2>2. SalePhase' = [SalePhase EXCEPT ![o] = "issued"] /\ SalePhase[o] = "credited"
    BY <2>1, <2>4, Phases
  <2>3. SaleCredit' = SaleCredit
    BY <1>0, <2>1 DEF SaleCredit, TypeOK
  <2> QED
    BY <2>2, <2>3 DEF Promise!Issue, Promise!Move
<1>5. ASSUME NEW t \in Transfers, NEW amount \in TransferAmounts, RecordTransfer(t, amount)
      PROVE  (\E o \in Orders : Promise!Credit(o, t)) \/ UNCHANGED <<SalePhase, SaleCredit>>
  <2>1. CASE RecordUnmatched(t, amount)
    BY <1>1, <2>1 DEF RecordUnmatched
  <2>2. ASSUME NEW o \in Matching(amount), RecordMatched(t, amount, o)
        PROVE  Promise!Credit(o, t) \/ UNCHANGED <<SalePhase, SaleCredit>>
    <3>1. o \in Orders
      BY <1>0, MatchingHolds
    <3>2. /\ status' = [status EXCEPT ![o] = IF Settles(o) THEN Receipt(o) ELSE @]
          /\ transfer' = [transfer EXCEPT ![o] = IF Settles(o) THEN t ELSE @]
      BY <2>2 DEF RecordMatched
    <3>3. CASE ~Settles(o)
      BY <1>0, <1>1, <3>2, <3>3 DEF TypeOK
    <3>4. CASE status[o] = "pending"
      <4>1. Settles(o) /\ Receipt(o) = "payment_detected"
        BY <3>4 DEF Settles, Receipt
      <4>5. status' = [status EXCEPT ![o] = "payment_detected"]
        BY <3>2, <4>1
      <4>6. /\ SalePhase' = [SalePhase EXCEPT ![o] = Phase["payment_detected"]]
            /\ SalePhase[o] = Phase[status[o]]
        BY <1>0, <3>1, <4>5, PhaseFollows
      <4>2. SalePhase' = [SalePhase EXCEPT ![o] = "credited"] /\ SalePhase[o] = "open"
        BY <3>4, <4>6, Phases
      <4>3. SaleCredit' = [SaleCredit EXCEPT ![o] = t]
        BY <1>0, <3>1, <3>2, <3>4, <4>1 DEF SaleCredit, TypeOK
      <4>4. \A p \in Orders : SaleCredit[p] # t
        BY <1>0, <1>5, NamesAssumption DEF RecordTransfer, LedgersAgree, SaleCredit
      <4> QED
        BY <4>2, <4>3, <4>4 DEF Promise!Credit, Promise!Move
    <3>5. CASE status[o] = "expired"
      <4>1. Settles(o) /\ Receipt(o) = "late_payment"
        BY <3>5 DEF Settles, Receipt
      <4>2. SalePhase' = SalePhase
        BY <1>0, <3>1, <3>2, <3>5, <4>1 DEF SalePhase, Phase, TypeOK
      <4>3. SaleCredit' = SaleCredit
        BY <1>0, <3>1, <3>2, <3>5, <4>1 DEF SaleCredit, TypeOK
      <4> QED
        BY <4>2, <4>3
    <3>6. Settles(o) => status[o] \in {"pending", "expired"}
      BY ReceiptType
    <3> QED
      BY <3>3, <3>4, <3>5, <3>6
  <2>3. \A o \in Matching(amount) : o \in Orders
    BY <1>0, MatchingHolds
  <2> QED
    BY <1>5, <2>1, <2>2, <2>3 DEF RecordTransfer
<1>6. CASE Tick \/ UNCHANGED vars
  BY <1>1, <1>6 DEF Tick, vars, orderVars
<1> QED
  BY <1>2, <1>3, <1>4, <1>5, <1>6 DEF Next, Promise!Next

\* Whatever customers send, and whenever, an order is settled by at most one
\* transfer and a transfer settles at most one order; tickets are issued once,
\* and never for an order that lapsed.
THEOREM Refinement == Spec => KeepsPromise
<1>1. Init => Promise!Init
  BY DEF Init, Promise!Init, SalePhase, SaleCredit, Phase
<1>2. IInv /\ [Next]_vars => [Promise!Next]_<<SalePhase, SaleCredit>>
  BY StepKeepsPromise
<1> QED
  BY <1>1, <1>2, Consistent, PTL DEF Spec, KeepsPromise, Promise!Spec

-----------------------------------------------------------------------------
(* Induction and recursion over numbers, about sets and functions.         *)

LEMMA LeastNatural ==
    ASSUME NEW S, S \subseteq Nat, S # {}
    PROVE  \E x \in S : \A y \in S : x <= y
<1> DEFINE R == OpToRel(<, Nat)
<1>1. IsWellFoundedOn(R, Nat)
  BY NatLessThanWellFounded
<1>2. \A x, y \in Nat : x < y => <<x, y>> \in R
  BY DEF OpToRel
<1> HIDE DEF R
<1>3. PICK x \in S : \A y \in S : ~ (<<y, x>> \in R)
  BY <1>1, WFMin
<1>4. ASSUME NEW y \in S
      PROVE  x <= y
  <2>1. x \in Nat /\ y \in Nat
    OBVIOUS
  <2>2. ~ (y < x)
    BY <1>2, <1>3, <2>1
  <2> QED
    BY <2>1, <2>2
<1> QED
  BY <1>4

\* What holds of zero and passes on to the next number holds of all up to N.
LEMMA NaturalSteps ==
    ASSUME NEW S, NEW N \in Nat, 0 \in S, \A n \in 1..N : n - 1 \in S => n \in S
    PROVE  \A n \in 0..N : n \in S
<1> SUFFICES ASSUME (0..N) \ S # {}
             PROVE  FALSE
  OBVIOUS
<1>1. PICK x \in (0..N) \ S : \A y \in (0..N) \ S : x <= y
  <2>1. (0..N) \ S \subseteq Nat
    OBVIOUS
  <2> QED
    BY <2>1, LeastNatural
<1>2. x \in 1..N /\ x - 1 \in 0..N /\ ~ (x <= x - 1)
  <2>1. x # 0 /\ x \in 0..N
    BY <1>1
  <2> QED
    BY <2>1
<1>3. x - 1 \in S
  BY <1>1, <1>2
<1> QED
  BY <1>1, <1>2, <1>3

\* The values of a recursive function: a at zero, and each from the one before.
Runs(g, N, a, F) == g[0] = a /\ \A n \in 1..N : g[n] = F[n][g[n - 1]]

\* Steps within a set can be taken one after the other, from any start.
LEMMA Recursion ==
    ASSUME NEW N \in Nat, NEW S, NEW a \in S, NEW F \in [1..N -> [S -> S]]
    PROVE  \E g \in [0..N -> S] : Runs(g, N, a, F)
<1> DEFINE T == {n \in 0..N : \E g \in [0..n -> S] : Runs(g, n, a, F)}
<1>1. 0 \in T
  <2> DEFINE g == [i \in 0..0 |-> a]
  <2>1. 0 \in 0..0 /\ 1..0 = {} /\ \A i \in 0..0 : i = 0
    OBVIOUS
  <2>2. g \in [0..0 -> S] /\ g[0] = a
    BY <2>1
  <2> HIDE DEF g
  <2>3. Runs(g, 0, a, F)
    BY <2>1, <2>2 DEF Runs
  <2> QED
    BY <2>2, <2>3
<1>2. ASSUME NEW n \in 1..N, n - 1 \in T
      PROVE  n \in T
  <2>1. PICK g \in [0..(n - 1) -> S] : Runs(g, n - 1, a, F)
    BY <1>2
  <2> DEFINE h == [i \in 0..n |-> IF i = n THEN F[n][g[n - 1]] ELSE g[i]]
  <2>2. g[n - 1] \in S
    <3>1. n - 1 \in 0..(n - 1)
      OBVIOUS
    <3> QED
      BY <3>1
  <2>3. F[n][g[n - 1]] \in S
    BY <2>2
  <2>4. \A i \in 0..n : i # n => i \in 0..(n - 1)
    OBVIOUS
  <2>5. h \in [0..n -> S]
    BY <2>3, <2>4
  <2>6. h[0] = a
    BY <2>1 DEF Runs
  <2>7. ASSUME NEW i \in 1..n
        PROVE  h[i] = F[i][h[i - 1]]
    <3>1. i \in 0..n /\ i - 1 \in 0..n /\ i - 1 # n
      OBVIOUS
    <3>2. h[i - 1] = g[i - 1]
      BY <3>1
    <3>3. CASE i = n
      BY <3>1, <3>2, <3>3
    <3>4. CASE i # n
      <4>1. i \in 1..(n - 1)
        BY <3>4
      <4>2. g[i] = F[i][g[i - 1]]
        BY <2>1, <4>1 DEF Runs
      <4> QED
        BY <3>1, <3>2, <3>4, <4>2
    <3> QED
      BY <3>3, <3>4
  <2> HIDE DEF h
  <2>8. Runs(h, n, a, F)
    BY <2>6, <2>7 DEF Runs
  <2> QED
    BY <2>5, <2>8
<1> HIDE DEF T
<1>3. \A n \in 0..N : n \in T
  BY <1>1, <1>2, NaturalSteps
<1>4. N \in T
  BY <1>3
<1> QED
  BY <1>4 DEF T

\* A recursive function stays in a set its steps keep to.
LEMMA StaysIn ==
    ASSUME NEW S, NEW N \in Nat, NEW f, f = [n \in 0..N |-> f[n]],
           f[0] \in S, \A n \in 1..N : f[n - 1] \in S => f[n] \in S
    PROVE  f \in [0..N -> S]
<1> DEFINE T == {n \in 0..N : f[n] \in S}
<1>1. 0 \in T /\ \A n \in 1..N : n - 1 \in T => n \in T
  OBVIOUS
<1> HIDE DEF T
<1>2. \A n \in 0..N : n \in T
  BY <1>1, NaturalSteps
<1>3. \A n \in 0..N : f[n] \in S
  BY <1>2 DEF T
<1> QED
  BY <1>3

-----------------------------------------------------------------------------
(* Numerals.  Each lemma says what the recursive function in a definition  *)
(* does at each step.                                                      *)

LEMMA DividedIsNatural ==
    ASSUME NEW value \in Nat, NEW base \in Nat \ {0}
    PROVE  value \div base \in Nat
OBVIOUS

LEMMA PowerSteps ==
    ASSUME NEW base \in Nat, NEW N \in Nat
    PROVE  \E f \in [0..N -> Nat] : /\ f[0] = 1 /\ \A n \in 1..N : f[n] = base * f[n - 1]
                                    /\ Power(base, N) = f[N]
<1> DEFINE Step(g) == [n \in 0..N |-> IF n = 0 THEN 1 ELSE base * g[n - 1]]
           power == CHOOSE g : g = Step(g)
           F == [n \in 1..N |-> [v \in Nat |-> base * v]]
<1>1. F \in [1..N -> [Nat -> Nat]] /\ 1 \in Nat
  OBVIOUS
<1>2. PICK g \in [0..N -> Nat] : Runs(g, N, 1, F)
  <2> HIDE DEF F
  <2> QED
    BY <1>1, Recursion
<1>3. \A n \in 0..N : g[n] = IF n = 0 THEN 1 ELSE base * g[n - 1]
  <2>1. \A n \in 1..N : n - 1 \in 0..N
    OBVIOUS
  <2>2. \A n \in 1..N : g[n - 1] \in Nat
    BY <2>1
  <2>3. g[0] = 1 /\ \A n \in 1..N : g[n] = base * g[n - 1]
    BY <1>2, <2>2 DEF Runs
  <2> QED
    BY <2>3
<1>4. g = Step(g)
  BY <1>3
<1>5. Power(base, N) = power[N]
  BY DEF Power
<1> HIDE DEF F, Step
<1>6. power = Step(power)
  BY <1>4
<1> HIDE DEF power
<1>7. power[0] = 1 /\ \A n \in 1..N : power[n] = base * power[n - 1]
  BY <1>6 DEF Step
<1>8. power \in [0..N -> Nat]
  <2>1. power = [n \in 0..N |-> power[n]]
    BY <1>6 DEF Step
  <2>2. power[0] \in Nat /\ \A n \in 1..N : power[n - 1] \in Nat => power[n] \in Nat
    BY <1>7
  <2> QED
    BY <2>1, <2>2, StaysIn
<1> QED
  BY <1>5, <1>7, <1>8

\* A value divided again and again.
Divided(f, value, base, N) == f[0] = value /\ \A n \in 1..N : f[n] = f[n - 1] \div base

LEMMA DigitSteps ==
    ASSUME NEW value \in Nat, NEW base \in Nat \ {0}, NEW place \in Nat
    PROVE  \E f \in [0..place -> Nat] :
               /\ Divided(f, value, base, place)
               /\ Digit(value, base, place) = f[place] % base
<1> DEFINE Step(g) == [n \in 0..place |-> IF n = 0 THEN value ELSE g[n - 1] \div base]
           rest == CHOOSE g : g = Step(g)
           F == [n \in 1..place |-> [v \in Nat |-> v \div base]]
<1>1. F \in [1..place -> [Nat -> Nat]]
  BY DividedIsNatural
<1>2. PICK g \in [0..place -> Nat] : Runs(g, place, value, F)
  <2> HIDE DEF F
  <2> QED
    BY <1>1, Recursion
<1>3. \A n \in 0..place : g[n] = IF n = 0 THEN value ELSE g[n - 1] \div base
  <2>1. \A n \in 1..place : n - 1 \in 0..place
    OBVIOUS
  <2>2. \A n \in 1..place : g[n - 1] \in Nat
    BY <2>1
  <2>3. g[0] = value /\ \A n \in 1..place : g[n] = g[n - 1] \div base
    BY <1>2, <2>2 DEF Runs
  <2> QED
    BY <2>3
<1>4. g = Step(g)
  BY <1>3
<1>5. Digit(value, base, place) = rest[place] % base
  BY DEF Digit
<1> HIDE DEF F, Step
<1>6. rest = Step(rest)
  BY <1>4
<1> HIDE DEF rest
<1>7. rest[0] = value /\ \A n \in 1..place : rest[n] = rest[n - 1] \div base
  BY <1>6 DEF Step
<1>8. rest \in [0..place -> Nat]
  <2>1. rest = [n \in 0..place |-> rest[n]]
    BY <1>6 DEF Step
  <2>2. rest[0] \in Nat /\ \A n \in 1..place : rest[n - 1] \in Nat => rest[n] \in Nat
    BY <1>7, DividedIsNatural
  <2> QED
    BY <2>1, <2>2, StaysIn
<1>9. Divided(rest, value, base, place)
  BY <1>7 DEF Divided
<1> QED
  BY <1>5, <1>8, <1>9

LEMMA WrittenSteps ==
    ASSUME NEW numeral \in Seq(0..9)
    PROVE  \E f \in [0..Len(numeral) -> Nat] :
               /\ f[0] = 0 /\ \A p \in 1..Len(numeral) : f[p] = 10 * f[p - 1] + numeral[p]
               /\ Written(numeral) = f[Len(numeral)]
<1> DEFINE N == Len(numeral)
           Step(g) == [p \in 0..N |-> IF p = 0 THEN 0 ELSE 10 * g[p - 1] + numeral[p]]
           upTo == CHOOSE g : g = Step(g)
           F == [p \in 1..N |-> [v \in Nat |-> 10 * v + numeral[p]]]
<1>0. N \in Nat /\ 0 \in Nat /\ \A p \in 1..N : numeral[p] \in Nat
  OBVIOUS
<1>5. Written(numeral) = upTo[N]
  BY DEF Written
<1> HIDE DEF N
<1>1. F \in [1..N -> [Nat -> Nat]]
  BY <1>0
<1>2. PICK g \in [0..N -> Nat] : Runs(g, N, 0, F)
  <2> HIDE DEF F
  <2> QED
    BY <1>0, <1>1, Recursion
<1>3. \A p \in 0..N : g[p] = IF p = 0 THEN 0 ELSE 10 * g[p - 1] + numeral[p]
  <2>1. \A p \in 1..N : p - 1 \in 0..N
    BY <1>0
  <2>2. \A p \in 1..N : g[p - 1] \in Nat
    BY <2>1
  <2>3. g[0] = 0 /\ \A p \in 1..N : g[p] = 10 * g[p - 1] + numeral[p]
    BY <1>2, <2>2 DEF Runs
  <2> QED
    BY <1>0, <2>3
<1>4. g = Step(g)
  BY <1>3
<1> HIDE DEF F, Step
<1>6. upTo = Step(upTo)
  BY <1>4
<1> HIDE DEF upTo
<1>7. upTo[0] = 0 /\ \A p \in 1..N : upTo[p] = 10 * upTo[p - 1] + numeral[p]
  BY <1>0, <1>6 DEF Step
<1>8. upTo \in [0..N -> Nat]
  <2>1. upTo = [p \in 0..N |-> upTo[p]]
    BY <1>6 DEF Step
  <2>2. ASSUME NEW p \in 1..N, upTo[p - 1] \in Nat
        PROVE  upTo[p] \in Nat
    <3>1. numeral[p] \in Nat /\ upTo[p] = 10 * upTo[p - 1] + numeral[p]
      BY <1>0, <1>7
    <3> QED
      BY <2>2, <3>1
  <2>3. upTo[0] \in Nat
    BY <1>7
  <2> QED
    BY <1>0, <2>1, <2>2, <2>3, StaysIn
<1> QED
  BY <1>5, <1>7, <1>8 DEF N

LEMMA WithoutZerosSteps ==
    ASSUME NEW numeral \in Seq(0..9)
    PROVE  \E f \in [0..Len(numeral) -> Seq(1..9)] :
               /\ f[0] = <<>>
               /\ \A p \in 1..Len(numeral) :
                     f[p] = IF numeral[p] = 0 THEN f[p - 1] ELSE Append(f[p - 1], numeral[p])
               /\ WithoutZeros(numeral) = f[Len(numeral)]
<1> DEFINE N == Len(numeral)
           Kept(p, v) == IF numeral[p] = 0 THEN v ELSE Append(v, numeral[p])
           Step(g) == [p \in 0..N |-> IF p = 0 THEN <<>>
                                      ELSE IF numeral[p] = 0 THEN g[p - 1]
                                           ELSE Append(g[p - 1], numeral[p])]
           upTo == CHOOSE g : g = Step(g)
           S == Seq(1..9)
           F == [p \in 1..N |-> [v \in S |-> Kept(p, v)]]
<1>0. N \in Nat /\ <<>> \in S /\ \A p \in 1..N, v \in S : Kept(p, v) \in S
  <2>1. N \in Nat /\ <<>> \in S
    OBVIOUS
  <2>2. ASSUME NEW p \in 1..N, NEW v \in S, numeral[p] # 0
        PROVE  Append(v, numeral[p]) \in S
    <3>1. numeral[p] \in 1..9
      BY <2>2
    <3> QED
      BY <3>1
  <2> QED
    BY <2>1, <2>2
<1>5. WithoutZeros(numeral) = upTo[N]
  BY DEF WithoutZeros
<1> HIDE DEF N, S
<1>1. F \in [1..N -> [S -> S]]
  BY <1>0
<1>2. PICK g \in [0..N -> S] : Runs(g, N, <<>>, F)
  <2> HIDE DEF F
  <2> QED
    BY <1>0, <1>1, Recursion
<1>3. \A p \in 0..N : g[p] = IF p = 0 THEN <<>> ELSE Kept(p, g[p - 1])
  <2> HIDE DEF Kept
  <2>1. \A p \in 1..N : p - 1 \in 0..N
    BY <1>0
  <2>2. \A p \in 1..N : g[p - 1] \in S
    BY <2>1
  <2>3. g[0] = <<>> /\ \A p \in 1..N : g[p] = Kept(p, g[p - 1])
    BY <1>2, <2>2 DEF Runs
  <2> QED
    BY <1>0, <2>3
<1>4. g = Step(g)
  BY <1>3
<1> HIDE DEF F, Step
<1>6. upTo = Step(upTo)
  BY <1>4
<1> HIDE DEF upTo
<1>7. upTo[0] = <<>> /\ \A p \in 1..N : upTo[p] = Kept(p, upTo[p - 1])
  <2>1. \A p \in 0..N : upTo[p] = IF p = 0 THEN <<>> ELSE Kept(p, upTo[p - 1])
    BY <1>6 DEF Step
  <2>2. 0 \in 0..N /\ \A p \in 1..N : p \in 0..N /\ p # 0
    BY <1>0
  <2> HIDE DEF Kept
  <2> QED
    BY <2>1, <2>2
<1>8. upTo \in [0..N -> S]
  <2> HIDE DEF Kept
  <2>1. upTo = [p \in 0..N |-> upTo[p]]
    BY <1>6 DEF Step
  <2>2. upTo[0] \in S /\ \A p \in 1..N : upTo[p - 1] \in S => upTo[p] \in S
    BY <1>0, <1>7
  <2> QED
    BY <1>0, <2>1, <2>2, StaysIn
<1> QED
  BY <1>5, <1>7, <1>8 DEF N, S

\* Division finds the factor and the rest again.
IsSum(a, q, b, r) == a = q * b + r

LEMMA Quotient ==
    ASSUME NEW q \in Nat, NEW b \in Nat \ {0}, NEW r \in 0..(b - 1),
           NEW a, IsSum(a, q, b, r)
    PROVE  a \div b = q /\ a % b = r
<1>0. a = q * b + r
  BY DEF IsSum
<1>1. a \in Nat
  <2>1. q * b \in Nat
    OBVIOUS
  <2> QED
    BY <1>0, <2>1
<1> DEFINE d == a \div b
           m == a % b
<1>2. d \in Nat /\ m \in 0..(b - 1) /\ a = d * b + m
  BY <1>1
<1> HIDE DEF d, m
<1>3. ~ (d < q)
  <2> SUFFICES ASSUME d < q
               PROVE  FALSE
    OBVIOUS
  <2>1. PICK k \in Nat : q = d + 1 + k
    <3>1. q - d - 1 \in Nat /\ q = d + 1 + (q - d - 1)
      BY <1>2
    <3> QED
      BY <3>1
  <2>2. q * b = d * b + b + k * b /\ k * b \in Nat /\ d * b \in Nat
    BY <1>2, <2>1
  <2> QED
    BY <1>0, <1>2, <2>2
<1>4. ~ (q < d)
  <2> SUFFICES ASSUME q < d
               PROVE  FALSE
    OBVIOUS
  <2>1. PICK k \in Nat : d = q + 1 + k
    <3>1. d - q - 1 \in Nat /\ d = q + 1 + (d - q - 1)
      BY <1>2
    <3> QED
      BY <3>1
  <2>2. d * b = q * b + b + k * b /\ k * b \in Nat /\ q * b \in Nat
    BY <1>2, <2>1
  <2> QED
    BY <1>0, <1>2, <2>2
<1>5. d = q
  BY <1>2, <1>3, <1>4
<1>6. m = r
  <2>1. q * b \in Nat
    OBVIOUS
  <2> QED
    BY <1>0, <1>2, <1>5, <2>1
<1> QED
  BY <1>5, <1>6 DEF d, m

LEMMA LastDigit ==
    ASSUME NEW v \in Nat, NEW d \in 0..9
    PROVE  (10 * v + d) \div 10 = v /\ (10 * v + d) % 10 = d
OBVIOUS

LEMMA DigitKeepsOrder ==
    ASSUME NEW v \in Nat, NEW w \in Nat, v < w, NEW d \in 0..9
    PROVE  10 * v + d < 10 * w
OBVIOUS

\* The digits of what a numeral writes are the digits it is written with.
LEMMA ReadBack ==
    ASSUME NEW numeral \in Seq(0..9)
    PROVE  /\ Written(numeral) \in Nat
           /\ Power(10, Len(numeral)) \in Nat
           /\ Written(numeral) < Power(10, Len(numeral))
           /\ \A p \in 1..Len(numeral) :
                 Digit(Written(numeral), 10, Len(numeral) - p) = numeral[p]
<1> DEFINE N == Len(numeral)
<1>1. N \in Nat /\ \A p \in 1..N : numeral[p] \in 0..9
  OBVIOUS
<1>2. PICK w \in [0..N -> Nat] :
          /\ w[0] = 0 /\ \A p \in 1..N : w[p] = 10 * w[p - 1] + numeral[p]
          /\ Written(numeral) = w[N]
  BY WrittenSteps
<1>3. PICK t \in [0..N -> Nat] : /\ t[0] = 1 /\ \A n \in 1..N : t[n] = 10 * t[n - 1]
                                 /\ Power(10, N) = t[N]
  BY <1>1, PowerSteps
<1> HIDE DEF N
<1>4. w[N] < t[N]
  <2> DEFINE T == {n \in 0..N : w[n] < t[n]}
  <2>1. 0 \in T
    BY <1>1, <1>2, <1>3
  <2>2. ASSUME NEW n \in 1..N, n - 1 \in T
        PROVE  n \in T
    <3>1. n \in 0..N /\ n - 1 \in 0..N
      BY <1>1
    <3>2. /\ w[n - 1] \in Nat /\ t[n - 1] \in Nat /\ w[n - 1] < t[n - 1]
          /\ numeral[n] \in 0..9
      BY <1>1, <2>2, <3>1
    <3>3. w[n] = 10 * w[n - 1] + numeral[n] /\ t[n] = 10 * t[n - 1]
      BY <1>2, <1>3
    <3>4. 10 * w[n - 1] + numeral[n] < 10 * t[n - 1]
      BY <3>2, DigitKeepsOrder
    <3>5. w[n] < t[n]
      BY <3>3, <3>4
    <3> QED
      BY <3>1, <3>5
  <2> HIDE DEF T
  <2>3. \A n \in 0..N : n \in T
    BY <1>1, <2>1, <2>2, NaturalSteps
  <2>4. N \in T
    BY <1>1, <2>3
  <2> QED
    BY <2>4 DEF T
<1>5. ASSUME NEW p \in 1..N
      PROVE  Digit(w[N], 10, N - p) = numeral[p]
  <2>1. w[N] \in Nat /\ N - p \in Nat /\ p \in 0..N /\ N - p \in 0..N
    BY <1>1
  <2>2. PICK r \in [0..(N - p) -> Nat] :
            /\ Divided(r, w[N], 10, N - p)
            /\ Digit(w[N], 10, N - p) = r[N - p] % 10
    <3>1. 10 \in Nat \ {0}
      OBVIOUS
    <3> QED
      BY <2>1, <3>1, DigitSteps
  <2> DEFINE T == {n \in 0..(N - p) : r[n] = w[N - n]}
  <2>3. 0 \in T
    <3>1. 0 \in 0..(N - p) /\ N - 0 = N
      BY <1>1, <2>1
    <3>2. r[0] = w[N]
      BY <2>2 DEF Divided
    <3> QED
      BY <3>1, <3>2
  <2>4. ASSUME NEW n \in 1..(N - p), n - 1 \in T
        PROVE  n \in T
    <3>1. /\ n \in 0..(N - p) /\ N - n \in 0..N /\ N - n + 1 \in 1..N
          /\ N - (n - 1) = N - n + 1 /\ (N - n + 1) - 1 = N - n
      BY <1>1
    <3>2. r[n - 1] = w[N - n + 1]
      BY <2>4, <3>1
    <3>3. w[N - n + 1] = 10 * w[N - n] + numeral[N - n + 1]
      BY <1>2, <3>1
    <3>4. w[N - n] \in Nat /\ numeral[N - n + 1] \in 0..9
      BY <1>1, <3>1
    <3>5. w[N - n + 1] \div 10 = w[N - n]
      <4>1. (10 * w[N - n] + numeral[N - n + 1]) \div 10 = w[N - n]
        BY <3>4, LastDigit
      <4> QED
        BY <3>3, <4>1
    <3>6. r[n] = r[n - 1] \div 10
      BY <2>2 DEF Divided
    <3> QED
      BY <3>1, <3>2, <3>5, <3>6
  <2> HIDE DEF T
  <2>5. \A n \in 0..(N - p) : n \in T
    BY <2>1, <2>3, <2>4, NaturalSteps
  <2>6. r[N - p] = w[p]
    <3>1. N - p \in 0..(N - p) /\ N - (N - p) = p
      BY <1>1, <2>1
    <3> QED
      BY <2>5, <3>1 DEF T
  <2>7. w[p] = 10 * w[p - 1] + numeral[p] /\ w[p - 1] \in Nat /\ numeral[p] \in 0..9
    <3>1. p - 1 \in 0..N
      BY <1>1
    <3> QED
      BY <1>1, <1>2, <3>1
  <2>8. w[p] % 10 = numeral[p]
    BY <2>7, LastDigit
  <2> QED
    BY <2>2, <2>6, <2>8
<1>6. w[N] \in Nat /\ t[N] \in Nat
  BY <1>1
<1> QED
  BY <1>2, <1>3, <1>4, <1>5, <1>6 DEF N

-----------------------------------------------------------------------------
(* What an amount says.                                                    *)

\* The number of chosen positions up to p.
UpTo(positions, p) == {q \in positions : q <= p}
CountUpTo(positions, p) == Cardinality(UpTo(positions, p))

CountsUpTo(positions, D) ==
    /\ CountUpTo(positions, 0) = 0
    /\ CountUpTo(positions, D) = Cardinality(positions)
    /\ \A p \in 0..D : CountUpTo(positions, p) \in Nat
    /\ \A p \in 0..D : CountUpTo(positions, p) <= Cardinality(positions)
    /\ \A p \in 1..D :
          CountUpTo(positions, p) = IF p \in positions THEN CountUpTo(positions, p - 1) + 1
                                    ELSE CountUpTo(positions, p - 1)

LEMMA CountSteps ==
    ASSUME NEW D \in Nat, NEW positions, positions \subseteq 1..D
    PROVE  CountsUpTo(positions, D)
<1>0. \A q \in positions : q \in 1..D
  OBVIOUS
<1>1. IsFiniteSet(positions)
  <2>1. 1 \in Int /\ D \in Int
    OBVIOUS
  <2>2. IsFiniteSet(1..D)
    BY <2>1, FS_Interval
  <2> QED
    BY <2>2, FS_Subset
<1>2. ASSUME NEW p \in 0..D
      PROVE  /\ IsFiniteSet(UpTo(positions, p)) /\ CountUpTo(positions, p) \in Nat
             /\ CountUpTo(positions, p) <= Cardinality(positions)
  <2>1. UpTo(positions, p) \subseteq positions
    BY DEF UpTo
  <2>2. IsFiniteSet(UpTo(positions, p))
    BY <1>1, <2>1, FS_Subset
  <2>3. Cardinality(UpTo(positions, p)) <= Cardinality(positions)
    BY <1>1, <2>1, FS_Subset
  <2> QED
    BY <2>2, <2>3, FS_CardinalityType DEF CountUpTo
<1>3. CountUpTo(positions, 0) = 0
  <2>1. UpTo(positions, 0) = {}
    <3>1. \A q \in positions : ~ (q <= 0)
      BY <1>0
    <3> QED
      BY <3>1 DEF UpTo
  <2> QED
    BY <2>1, FS_EmptySet DEF CountUpTo
<1>4. CountUpTo(positions, D) = Cardinality(positions)
  <2>1. UpTo(positions, D) = positions
    <3>1. \A q \in positions : q <= D
      BY <1>0
    <3> QED
      BY <3>1 DEF UpTo
  <2> QED
    BY <2>1 DEF CountUpTo
<1>5. ASSUME NEW p \in 1..D, p \in positions
      PROVE  CountUpTo(positions, p) = CountUpTo(positions, p - 1) + 1
  <2>1. UpTo(positions, p) = UpTo(positions, p - 1) \cup {p} /\ p \notin UpTo(positions, p - 1)
    <3>1. \A q \in positions : q <= p <=> q <= p - 1 \/ q = p
      BY <1>0
    <3>2. ~ (p <= p - 1) /\ p <= p
      OBVIOUS
    <3> QED
      BY <1>5, <3>1, <3>2 DEF UpTo
  <2>2. p - 1 \in 0..D
    OBVIOUS
  <2>3. IsFiniteSet(UpTo(positions, p - 1))
    BY <1>2, <2>2
  <2> QED
    BY <2>1, <2>3, FS_AddElement DEF CountUpTo
<1>6. ASSUME NEW p \in 1..D, p \notin positions
      PROVE  CountUpTo(positions, p) = CountUpTo(positions, p - 1)
  <2>1. UpTo(positions, p) = UpTo(positions, p - 1)
    <3>1. \A q \in positions : q <= p <=> q <= p - 1
      <4>1. \A q \in positions : q \in 1..D /\ q # p
        BY <1>0, <1>6
      <4> QED
        BY <4>1
    <3> QED
      BY <3>1 DEF UpTo
  <2> QED
    BY <2>1 DEF CountUpTo
<1> QED
  BY <1>2, <1>3, <1>4, <1>5, <1>6 DEF CountsUpTo

\* The digits of an identifier can be read back wherever they are put.
LEMMA SpreadReadsBack ==
    ASSUME NEW identifier \in Seq(1..9), NEW positions, positions \subseteq 1..Decimals,
           Cardinality(positions) = Len(identifier)
    PROVE  /\ Spread(identifier, positions) \in Seq(0..9)
           /\ Len(Spread(identifier, positions)) = Decimals
           /\ WithoutZeros(Spread(identifier, positions)) = identifier
<1> DEFINE n == Len(identifier)
           c(p) == CountUpTo(positions, p)
           spread == Spread(identifier, positions)
<1>1. Decimals \in Nat /\ n \in Nat /\ \A i \in 1..n : identifier[i] \in 1..9
  BY DigitsAssumption
<1>2. /\ c(0) = 0 /\ c(Decimals) = n
      /\ \A p \in 0..Decimals : c(p) \in Nat /\ c(p) <= n
      /\ \A p \in 1..Decimals : c(p) = IF p \in positions THEN c(p - 1) + 1 ELSE c(p - 1)
  <2>1. CountsUpTo(positions, Decimals) /\ Cardinality(positions) = n
    BY <1>1, CountSteps
  <2> HIDE DEF n
  <2>2. c(0) = 0 /\ c(Decimals) = n /\ \A p \in 0..Decimals : c(p) \in Nat /\ c(p) <= n
    BY <2>1 DEF CountsUpTo
  <2>3. \A p \in 1..Decimals : c(p) = IF p \in positions THEN c(p - 1) + 1 ELSE c(p - 1)
    BY <2>1 DEF CountsUpTo
  <2> QED
    BY <2>2, <2>3
<1>3. spread = [p \in 1..Decimals |-> IF p \in positions THEN identifier[c(p)] ELSE 0]
  BY DEF Spread, CountUpTo, UpTo
<1> HIDE DEF c, spread, n
<1>4. \A p \in 1..Decimals : p \in positions => c(p) \in 1..n
  <2> SUFFICES ASSUME NEW p \in 1..Decimals, p \in positions
               PROVE  c(p) \in 1..n
    OBVIOUS
  <2>1. p \in 0..Decimals /\ p - 1 \in 0..Decimals
    BY <1>1
  <2>2. c(p) = c(p - 1) + 1 /\ c(p - 1) \in Nat /\ c(p) <= n
    BY <1>2, <2>1
  <2> QED
    BY <1>1, <2>2
<1>5. \A p \in 1..Decimals : spread[p] \in 0..9 /\ (p \in positions => spread[p] \in 1..9)
  <2> SUFFICES ASSUME NEW p \in 1..Decimals
               PROVE  spread[p] \in 0..9 /\ (p \in positions => spread[p] \in 1..9)
    OBVIOUS
  <2>1. CASE p \in positions
    <3>1. spread[p] \in 1..9
      BY <1>1, <1>3, <1>4, <2>1
    <3> QED
      BY <3>1
  <2>2. CASE p \notin positions
    BY <1>3, <2>2
  <2> QED
    BY <2>1, <2>2
<1>6. spread \in Seq(0..9) /\ Len(spread) = Decimals
  BY <1>1, <1>3, <1>5
<1>7. PICK f \in [0..Decimals -> Seq(1..9)] :
          /\ f[0] = <<>>
          /\ \A p \in 1..Decimals :
                f[p] = IF spread[p] = 0 THEN f[p - 1] ELSE Append(f[p - 1], spread[p])
          /\ WithoutZeros(spread) = f[Decimals]
  BY <1>6, WithoutZerosSteps
<1> DEFINE T == {p \in 0..Decimals : /\ Len(f[p]) = c(p)
                                     /\ \A i \in 1..c(p) : f[p][i] = identifier[i]}
<1>8. 0 \in T
  BY <1>1, <1>2, <1>7
<1>9. ASSUME NEW p \in 1..Decimals, p - 1 \in T
      PROVE  p \in T
  <2>1. p \in 0..Decimals /\ p - 1 \in 0..Decimals
    BY <1>1
  <2>2. f[p - 1] \in Seq(1..9) /\ f[p] \in Seq(1..9)
    BY <2>1
  <2>3. Len(f[p - 1]) = c(p - 1) /\ \A i \in 1..c(p - 1) : f[p - 1][i] = identifier[i]
    BY <1>9
  <2>4. CASE p \in positions
    <3>1. spread[p] = identifier[c(p)] /\ spread[p] \in 1..9 /\ spread[p] # 0
      <4>1. spread[p] \in 1..9
        BY <1>5, <2>4
      <4> QED
        BY <1>3, <2>4, <4>1
    <3>2. c(p) = c(p - 1) + 1 /\ c(p - 1) \in Nat
      BY <1>2, <2>1, <2>4
    <3>3. f[p] = Append(f[p - 1], spread[p])
      BY <1>7, <3>1
    <3>4. Len(f[p]) = c(p)
      BY <2>2, <2>3, <3>1, <3>2, <3>3
    <3>5. ASSUME NEW i \in 1..c(p)
          PROVE  f[p][i] = identifier[i]
      <4>1. CASE i = c(p)
        BY <2>2, <2>3, <3>1, <3>2, <3>3, <4>1
      <4>2. CASE i # c(p)
        <5>1. i \in 1..c(p - 1)
          BY <3>2, <4>2
        <5>2. f[p][i] = f[p - 1][i]
          BY <2>2, <2>3, <3>1, <3>3, <5>1
        <5> QED
          BY <2>3, <5>1, <5>2
      <4> QED
        BY <4>1, <4>2
    <3> QED
      BY <2>1, <3>4, <3>5
  <2>5. CASE p \notin positions
    <3>1. f[p] = f[p - 1] /\ c(p) = c(p - 1)
      BY <1>2, <1>3, <1>7, <2>5
    <3> QED
      BY <2>1, <2>3, <3>1
  <2> QED
    BY <2>4, <2>5
<1> HIDE DEF T
<1>10. \A p \in 0..Decimals : p \in T
  BY <1>1, <1>8, <1>9, NaturalSteps
<1>11. Len(f[Decimals]) = n /\ \A i \in 1..n : f[Decimals][i] = identifier[i]
  <2>1. Decimals \in T
    BY <1>1, <1>10
  <2> QED
    BY <1>2, <2>1 DEF T
<1>12. f[Decimals] = identifier
  <2>1. f[Decimals] \in Seq(1..9)
    BY <1>1
  <2> QED
    BY <1>11, <2>1 DEF n
<1> QED
  BY <1>6, <1>7, <1>12 DEF spread

-----------------------------------------------------------------------------
(* Identifiers.                                                            *)

\* The sizes of the lengths, added up.
Summed(f, N) == f[0] = 0 /\ \A l \in 1..N : f[l] = f[l - 1] + Power(Digits, l)

LEMMA ShorterSums ==
    ASSUME NEW length \in Nat \ {0}
    PROVE  /\ \A l \in 1..(length - 1) : Power(Digits, l) \in Nat
           /\ \E f \in [0..(length - 1) -> Nat] :
                 Summed(f, length - 1) /\ Shorter(length) = f[length - 1]
<1> DEFINE N == length - 1
           Step(g) == [l \in 0..N |-> IF l = 0 THEN 0 ELSE g[l - 1] + Power(Digits, l)]
           sum == CHOOSE g : g = Step(g)
           F == [l \in 1..N |-> [v \in Nat |-> v + Power(Digits, l)]]
<1>0. N \in Nat /\ 0 \in Nat /\ \A l \in 1..N : Power(Digits, l) \in Nat
  <2> SUFFICES ASSUME NEW l \in 1..N
               PROVE  Power(Digits, l) \in Nat
    OBVIOUS
  <2>1. l \in Nat /\ Digits \in Nat
    BY DigitsAssumption
  <2>2. PICK f \in [0..l -> Nat] : Power(Digits, l) = f[l]
    BY <2>1, PowerSteps
  <2> QED
    BY <2>1, <2>2
<1>5. Shorter(length) = sum[N]
  BY DEF Shorter
<1> HIDE DEF N
<1>1. F \in [1..N -> [Nat -> Nat]]
  BY <1>0
<1>2. PICK g \in [0..N -> Nat] : Runs(g, N, 0, F)
  <2> HIDE DEF F
  <2> QED
    BY <1>0, <1>1, Recursion
<1>3. \A l \in 0..N : g[l] = IF l = 0 THEN 0 ELSE g[l - 1] + Power(Digits, l)
  <2>1. \A l \in 1..N : l - 1 \in 0..N
    BY <1>0
  <2>2. \A l \in 1..N : g[l - 1] \in Nat
    BY <2>1
  <2>3. g[0] = 0 /\ \A l \in 1..N : g[l] = g[l - 1] + Power(Digits, l)
    BY <1>2, <2>2 DEF Runs
  <2> QED
    BY <1>0, <2>3
<1>4. g = Step(g)
  BY <1>3
<1> HIDE DEF F, Step
<1>6. sum = Step(sum)
  BY <1>4
<1> HIDE DEF sum
<1>7. sum[0] = 0 /\ \A l \in 1..N : sum[l] = sum[l - 1] + Power(Digits, l)
  BY <1>0, <1>6 DEF Step
<1>8. sum \in [0..N -> Nat]
  <2>1. sum = [l \in 0..N |-> sum[l]]
    BY <1>6 DEF Step
  <2>2. ASSUME NEW l \in 1..N, sum[l - 1] \in Nat
        PROVE  sum[l] \in Nat
    <3>1. Power(Digits, l) \in Nat /\ sum[l] = sum[l - 1] + Power(Digits, l)
      BY <1>0, <1>7
    <3> QED
      BY <2>2, <3>1
  <2>3. sum[0] \in Nat
    BY <1>7
  <2> QED
    BY <1>0, <2>1, <2>2, <2>3, StaysIn
<1>9. Summed(sum, N)
  BY <1>7 DEF Summed
<1> QED
  BY <1>0, <1>5, <1>8, <1>9 DEF N

LEMMA ShorterSteps ==
    ASSUME NEW length \in Nat \ {0}
    PROVE  /\ Shorter(length) \in Nat /\ (length = 1 => Shorter(length) = 0)
           /\ Power(Digits, length) \in Nat
           /\ Shorter(length + 1) = Shorter(length) + Power(Digits, length)
<1>1. PICK f \in [0..(length - 1) -> Nat] :
          Summed(f, length - 1) /\ Shorter(length) = f[length - 1]
  BY ShorterSums
<1>2. /\ length + 1 \in Nat \ {0} /\ (length + 1) - 1 = length /\ length - 1 \in Nat
      /\ length \in 1..length /\ length - 1 \in 0..(length - 1)
  OBVIOUS
<1>3. PICK g \in [0..length -> Nat] : Summed(g, length) /\ Shorter(length + 1) = g[length]
  <2>1. \E g \in [0..((length + 1) - 1) -> Nat] :
            Summed(g, (length + 1) - 1) /\ Shorter(length + 1) = g[(length + 1) - 1]
    BY <1>2, ShorterSums
  <2> QED
    BY <1>2, <2>1
<1>4. Power(Digits, length) \in Nat
  <2>1. \A l \in 1..((length + 1) - 1) : Power(Digits, l) \in Nat
    BY <1>2, ShorterSums
  <2> QED
    BY <1>2, <2>1
<1>5. f[length - 1] = g[length - 1]
  <2> DEFINE T == {n \in 0..(length - 1) : f[n] = g[n]}
  <2>1. 0 \in T
    BY <1>1, <1>2, <1>3 DEF Summed
  <2>2. ASSUME NEW n \in 1..(length - 1), n - 1 \in T
        PROVE  n \in T
    <3>1. n \in 1..length /\ n \in 0..(length - 1)
      OBVIOUS
    <3>2. f[n] = f[n - 1] + Power(Digits, n) /\ g[n] = g[n - 1] + Power(Digits, n)
      BY <1>1, <1>3, <3>1 DEF Summed
    <3> QED
      BY <2>2, <3>1, <3>2
  <2> HIDE DEF T
  <2>3. \A n \in 0..(length - 1) : n \in T
    BY <1>2, <2>1, <2>2, NaturalSteps
  <2> QED
    BY <1>2, <2>3 DEF T
<1>6. Shorter(length) \in Nat
  BY <1>1, <1>2
<1>7. length = 1 => Shorter(length) = 0
  BY <1>1 DEF Summed
<1>8. Shorter(length + 1) = Shorter(length) + Power(Digits, length)
  BY <1>1, <1>2, <1>3, <1>5 DEF Summed
<1> QED
  BY <1>4, <1>6, <1>7, <1>8

\* Every index has a length.
LEMMA EveryIndexHasALength ==
    ASSUME NEW index \in 1..Capacity
    PROVE  /\ LengthOf(index) \in 1..MaxLength
           /\ Shorter(LengthOf(index)) < index /\ index <= Shorter(LengthOf(index) + 1)
           /\ Shorter(LengthOf(index)) \in Nat
<1> DEFINE Enough == {l \in Nat \ {0} : index <= Shorter(l + 1)}
<1>1. MaxLength \in Nat /\ Capacity = Shorter(MaxLength + 1) /\ index \in Nat \ {0}
  <2>1. MaxLength \in Nat
    BY DigitsAssumption DEF MaxLength
  <2>2. Capacity \in Nat
    <3>1. MaxLength + 1 \in Nat \ {0}
      BY <2>1
    <3> QED
      BY <3>1, ShorterSteps DEF Capacity
  <2> QED
    BY <2>1, <2>2 DEF Capacity
<1>2. MaxLength # 0
  <2> SUFFICES ASSUME MaxLength = 0
               PROVE  FALSE
    OBVIOUS
  <2>1. MaxLength + 1 = 1 /\ 1 \in Nat \ {0}
    OBVIOUS
  <2>2. Capacity = 0
    BY <1>1, <2>1, ShorterSteps
  <2> QED
    BY <2>2
<1>3. MaxLength \in Enough
  <2>1. MaxLength + 1 \in Nat \ {0}
    BY <1>1
  <2>2. Capacity \in Nat
    BY <1>1, <2>1, ShorterSteps
  <2> QED
    BY <1>1, <1>2, <2>2
<1>4. PICK l \in Enough : \A k \in Enough : l <= k
  <2>1. Enough \subseteq Nat /\ Enough # {}
    BY <1>3
  <2> HIDE DEF Enough
  <2> QED
    BY <2>1, LeastNatural
<1>5. l \in 1..MaxLength
  <2>1. l \in Nat \ {0} /\ l <= MaxLength
    BY <1>3, <1>4
  <2> QED
    BY <1>1, <2>1
<1>6. Shorter(l) \in Nat
  BY <1>4, ShorterSteps
<1>7. Shorter(l) < index
  <2>1. CASE l = 1
    <3>1. Shorter(l) = 0
      BY <1>4, <2>1, ShorterSteps
    <3> QED
      BY <1>1, <3>1
  <2>2. CASE l # 1
    <3>1. l - 1 \in Nat \ {0} /\ (l - 1) + 1 = l /\ ~ (l <= l - 1)
      BY <1>4, <2>2
    <3>2. l - 1 \notin Enough
      BY <1>4, <3>1
    <3>3. ~ (index <= Shorter(l))
      BY <3>1, <3>2
    <3> QED
      BY <1>1, <1>6, <3>3
  <2> QED
    BY <2>1, <2>2
<1>8. index <= Shorter(l + 1)
  BY <1>4
<1>9. \E k \in 1..MaxLength : Shorter(k) < index /\ index <= Shorter(k + 1)
  BY <1>5, <1>7, <1>8
<1>10. /\ LengthOf(index) \in 1..MaxLength
       /\ Shorter(LengthOf(index)) < index /\ index <= Shorter(LengthOf(index) + 1)
  BY <1>9 DEF LengthOf
<1>11. LengthOf(index) \in Nat \ {0}
  BY <1>1, <1>10
<1> QED
  BY <1>10, <1>11, ShorterSteps

\* An identifier is a numeral without a zero that fits behind the prefix.
LEMMA IdentifierIsANumeral ==
    ASSUME NEW index \in 1..Capacity
    PROVE  /\ PaymentIdentifierFor(index) \in Seq(1..9)
           /\ Len(PaymentIdentifierFor(index)) \in 1..MaxLength
<1> DEFINE length == LengthOf(index)
           offset == index - 1 - Shorter(length)
<1>1. length \in 1..MaxLength /\ length \in Nat /\ offset \in Nat
  <2>1. length \in 1..MaxLength /\ Shorter(length) < index /\ Shorter(length) \in Nat
    BY EveryIndexHasALength
  <2>2. MaxLength \in Nat
    BY DigitsAssumption DEF MaxLength
  <2>3. index \in Int
    <3>1. MaxLength + 1 \in Nat \ {0}
      BY <2>2
    <3>2. Capacity \in Nat
      BY <3>1, ShorterSteps DEF Capacity
    <3> QED
      BY <3>2
  <2> QED
    BY <2>1, <2>2, <2>3
<1>2. PaymentIdentifierFor(index) = [d \in 1..length |-> Digit(offset, Digits, length - d) + 1]
  BY DEF PaymentIdentifierFor
<1> HIDE DEF length, offset
<1>3. ASSUME NEW d \in 1..length
      PROVE  Digit(offset, Digits, length - d) + 1 \in 1..9
  <2>1. length - d \in Nat /\ Digits \in Nat \ {0} /\ Digits <= 9
    BY <1>1, DigitsAssumption
  <2>2. PICK f \in [0..(length - d) -> Nat] :
            Digit(offset, Digits, length - d) = f[length - d] % Digits
    BY <1>1, <2>1, DigitSteps
  <2>3. PICK v \in Nat : v = f[length - d]
    BY <2>1
  <2>4. PICK r \in 0..8 : r = v % Digits
    BY <2>1
  <2>5. Digit(offset, Digits, length - d) = r
    BY <2>2, <2>3, <2>4
  <2> QED
    BY <2>4, <2>5
<1>4. PaymentIdentifierFor(index) \in Seq(1..9) /\ Len(PaymentIdentifierFor(index)) = length
  BY <1>1, <1>2, <1>3
<1> QED
  BY <1>1, <1>4

\* Whatever the order's code and quantity, and whichever of its amounts is
\* sent: the amount says the quantity and the identifier.
THEOREM AmountsCarryIdentifiers ==
    ASSUME NEW tickets \in Nat, NEW index \in 1..Capacity,
           NEW amount \in PaymentAmountsFor(tickets, index)
    PROVE  /\ amount \in Nat /\ amount \div Unit = tickets
           /\ PaymentIdentifierFromAmount(amount) = PaymentIdentifierFor(index)
<1> DEFINE identifier == PaymentIdentifierFor(index)
<1>1. PICK positions \in kSubset(Len(identifier), 1..Decimals) :
          amount = tickets * Unit + Written(Spread(identifier, positions))
  BY DEF PaymentAmountsFor
<1>2. positions \subseteq 1..Decimals /\ Cardinality(positions) = Len(identifier)
  BY DEF kSubset
<1>3. identifier \in Seq(1..9)
  BY IdentifierIsANumeral
<1> DEFINE spread == Spread(identifier, positions)
           fraction == Written(spread)
<1> HIDE DEF identifier
<1>4. spread \in Seq(0..9) /\ Len(spread) = Decimals /\ WithoutZeros(spread) = identifier
  BY <1>2, <1>3, SpreadReadsBack
<1> HIDE DEF spread
<1>5. /\ fraction \in Nat /\ Unit \in Nat /\ fraction < Unit
      /\ \A p \in 1..Decimals : Digit(fraction, 10, Decimals - p) = spread[p]
  BY <1>4, ReadBack DEF Unit
<1>6. amount = tickets * Unit + fraction
  BY <1>1 DEF spread
<1> HIDE DEF fraction
<1>7. Unit \in Nat \ {0} /\ fraction \in 0..(Unit - 1)
  BY <1>5
<1>8. amount \div Unit = tickets /\ amount % Unit = fraction
  <2>1. IsSum(amount, tickets, Unit, fraction)
    BY <1>6 DEF IsSum
  <2> QED
    BY <1>7, <2>1, Quotient
<1>9. amount \in Nat
  <2>1. tickets * Unit \in Nat
    BY <1>7
  <2> QED
    BY <1>5, <1>6, <2>1
<1>10. [p \in 1..Decimals |-> Digit(fraction, 10, Decimals - p)] = spread
  BY <1>4, <1>5
<1>11. PaymentIdentifierFromAmount(amount) = WithoutZeros(spread)
  BY <1>8, <1>10 DEF PaymentIdentifierFromAmount
<1> QED
  BY <1>4, <1>8, <1>9, <1>11 DEF identifier

\* The canonical amount is one of the amounts of its code.
THEOREM CanonicalIsAnAlias ==
    ASSUME NEW tickets \in Nat, NEW index \in 1..Capacity
    PROVE  AmountFor(tickets, index) \in PaymentAmountsFor(tickets, index)
<1> DEFINE identifier == PaymentIdentifierFor(index)
           positions == (PrefixLength + 1)..(PrefixLength + Len(identifier))
<1>1. Len(identifier) \in 1..MaxLength
  BY IdentifierIsANumeral
<1>2. AmountFor(tickets, index) = tickets * Unit + Written(Spread(identifier, positions))
  BY DEF AmountFor
<1>3. \A chosen \in kSubset(Len(identifier), 1..Decimals) :
          tickets * Unit + Written(Spread(identifier, chosen))
              \in PaymentAmountsFor(tickets, index)
  BY DEF PaymentAmountsFor
<1>4. positions \in kSubset(Len(identifier), 1..Decimals)
  <2> HIDE DEF identifier
  <2>1. /\ PrefixLength + 1 \in Int /\ PrefixLength + Len(identifier) \in Int
        /\ PrefixLength + 1 <= PrefixLength + Len(identifier)
        /\ (PrefixLength + Len(identifier)) - (PrefixLength + 1) + 1 = Len(identifier)
    BY <1>1, DigitsAssumption DEF MaxLength
  <2>2. Cardinality(positions) = Len(identifier)
    <3>1. ~ (PrefixLength + 1 > PrefixLength + Len(identifier))
      BY <2>1
    <3> QED
      BY <2>1, <3>1, FS_Interval
  <2>3. positions \subseteq 1..Decimals
    BY <1>1, DigitsAssumption DEF MaxLength
  <2> QED
    BY <2>2, <2>3 DEF kSubset
<1> HIDE DEF identifier, positions
<1> QED
  BY <1>2, <1>3, <1>4

-----------------------------------------------------------------------------
(* No amount is shared.                                                    *)

LEMMA SmallQuotient ==
    ASSUME NEW v \in Nat, NEW b \in Nat \ {0}, NEW u \in Nat, v < b * u
    PROVE  v \div b < u
<1> DEFINE d == v \div b
           m == v % b
<1>1. d \in Nat /\ m \in Nat /\ v = b * d + m
  OBVIOUS
<1> HIDE DEF d, m
<1>2. ~ (u <= d)
  <2> SUFFICES ASSUME u <= d
               PROVE  FALSE
    OBVIOUS
  <2>1. PICK k \in Nat : d = u + k
    <3>1. d - u \in Nat /\ d = u + (d - u)
      BY <1>1
    <3> QED
      BY <3>1
  <2>2. b * d = b * u + b * k /\ b * k \in Nat /\ b * u \in Nat
    BY <2>1
  <2> QED
    BY <1>1, <2>2
<1>3. d < u
  BY <1>1, <1>2
<1> QED
  BY <1>3 DEF d

\* The digits of a value, from one run of divisions.
LEMMA DigitsInOneRun ==
    ASSUME NEW value \in Nat, NEW base \in Nat \ {0}, NEW N \in Nat
    PROVE  \E f \in [0..N -> Nat] :
               /\ Divided(f, value, base, N)
               /\ \A k \in 0..N : Digit(value, base, k) = f[k] % base
<1>1. PICK f \in [0..N -> Nat] : Divided(f, value, base, N)
  BY DigitSteps
<1>2. ASSUME NEW k \in 0..N
      PROVE  Digit(value, base, k) = f[k] % base
  <2>1. k \in Nat
    OBVIOUS
  <2>2. PICK g \in [0..k -> Nat] :
            Divided(g, value, base, k) /\ Digit(value, base, k) = g[k] % base
    BY <2>1, DigitSteps
  <2> DEFINE T == {n \in 0..k : f[n] = g[n]}
  <2>3. 0 \in T
    BY <1>1, <2>1, <2>2 DEF Divided
  <2>4. ASSUME NEW n \in 1..k, n - 1 \in T
        PROVE  n \in T
    <3>1. n \in 1..N /\ n \in 0..k
      OBVIOUS
    <3>2. f[n] = f[n - 1] \div base /\ g[n] = g[n - 1] \div base
      BY <1>1, <2>2, <3>1 DEF Divided
    <3> QED
      BY <2>4, <3>1, <3>2
  <2> HIDE DEF T
  <2>5. \A n \in 0..k : n \in T
    BY <2>1, <2>3, <2>4, NaturalSteps
  <2>6. f[k] = g[k]
    BY <2>1, <2>5 DEF T
  <2> QED
    BY <2>2, <2>6
<1> QED
  BY <1>1, <1>2

\* A value below a power of the base is used up by as many divisions.
LEMMA DividedAway ==
    ASSUME NEW value \in Nat, NEW base \in Nat \ {0}, NEW N \in Nat,
           value < Power(base, N), NEW f \in [0..N -> Nat], Divided(f, value, base, N)
    PROVE  f[N] = 0
<1>1. PICK t \in [0..N -> Nat] : /\ t[0] = 1 /\ \A n \in 1..N : t[n] = base * t[n - 1]
                                 /\ Power(base, N) = t[N]
  BY PowerSteps
<1> DEFINE T == {n \in 0..N : f[n] < t[N - n]}
<1>2. 0 \in T
  <2>1. 0 \in 0..N /\ N - 0 = N
    OBVIOUS
  <2>2. f[0] = value
    BY DEF Divided
  <2> QED
    BY <1>1, <2>1, <2>2
<1>3. ASSUME NEW n \in 1..N, n - 1 \in T
      PROVE  n \in T
  <2>1. /\ n \in 0..N /\ n - 1 \in 0..N /\ N - n \in 0..N /\ N - n + 1 \in 1..N
        /\ N - (n - 1) = N - n + 1 /\ (N - n + 1) - 1 = N - n
    OBVIOUS
  <2>2. f[n - 1] \in Nat /\ t[N - n] \in Nat
    BY <2>1
  <2>3. t[N - n + 1] = base * t[N - n]
    BY <1>1, <2>1
  <2>4. f[n - 1] < base * t[N - n]
    BY <1>3, <2>1, <2>3
  <2>5. f[n - 1] \div base < t[N - n]
    BY <2>2, <2>4, SmallQuotient
  <2>6. f[n] = f[n - 1] \div base
    BY DEF Divided
  <2> QED
    BY <2>1, <2>5, <2>6
<1> HIDE DEF T
<1>4. \A n \in 0..N : n \in T
  BY <1>2, <1>3, NaturalSteps
<1>5. f[N] < t[0]
  <2>1. N \in 0..N /\ N - N = 0
    OBVIOUS
  <2> QED
    BY <1>4, <2>1 DEF T
<1> QED
  BY <1>1, <1>5

LEMMA Split ==
    ASSUME NEW v \in Nat, NEW b \in Nat \ {0}
    PROVE  v = b * (v \div b) + (v % b)
OBVIOUS

\* Values with the same digits are the same.
LEMMA DigitsDetermine ==
    ASSUME NEW base \in Nat \ {0}, NEW N \in Nat, NEW v \in Nat, NEW w \in Nat,
           v < Power(base, N), w < Power(base, N),
           \A k \in 0..(N - 1) : Digit(v, base, k) = Digit(w, base, k)
    PROVE  v = w
<1>1. PICK f \in [0..N -> Nat] : /\ Divided(f, v, base, N)
                                 /\ \A k \in 0..N : Digit(v, base, k) = f[k] % base
  BY DigitsInOneRun
<1>2. PICK g \in [0..N -> Nat] : /\ Divided(g, w, base, N)
                                 /\ \A k \in 0..N : Digit(w, base, k) = g[k] % base
  BY DigitsInOneRun
<1>3. f[N] = 0 /\ g[N] = 0
  BY <1>1, <1>2, DividedAway
<1> DEFINE T == {n \in 0..N : f[N - n] = g[N - n]}
<1>4. 0 \in T
  <2>1. 0 \in 0..N /\ N - 0 = N
    OBVIOUS
  <2> QED
    BY <1>3, <2>1
<1>5. ASSUME NEW n \in 1..N, n - 1 \in T
      PROVE  n \in T
  <2> DEFINE k == N - n
  <2>1. /\ n \in 0..N /\ k \in 0..(N - 1) /\ k \in 0..N /\ k + 1 \in 1..N /\ k + 1 \in 0..N
        /\ N - (n - 1) = k + 1 /\ (k + 1) - 1 = k
    OBVIOUS
  <2>2. f[k + 1] = g[k + 1]
    BY <1>5, <2>1
  <2>3. f[k] % base = g[k] % base
    BY <1>1, <1>2, <2>1
  <2>4. f[k + 1] = f[k] \div base /\ g[k + 1] = g[k] \div base
    BY <1>1, <1>2, <2>1 DEF Divided
  <2>5. f[k] \in Nat /\ g[k] \in Nat
    BY <2>1
  <2> HIDE DEF k
  <2>6. /\ f[k] = base * (f[k] \div base) + (f[k] % base)
        /\ g[k] = base * (g[k] \div base) + (g[k] % base)
    BY <2>5, Split
  <2>7. f[k] = g[k]
    BY <2>2, <2>3, <2>4, <2>6
  <2> QED
    BY <2>1, <2>7 DEF k
<1> HIDE DEF T
<1>6. \A n \in 0..N : n \in T
  BY <1>4, <1>5, NaturalSteps
<1>7. f[0] = g[0]
  <2>1. N \in 0..N /\ N - N = 0
    OBVIOUS
  <2> QED
    BY <1>6, <2>1 DEF T
<1> QED
  BY <1>1, <1>2, <1>7 DEF Divided

\* No two indexes have the same identifier.
LEMMA IdentifiersDiffer ==
    ASSUME NEW i \in 1..Capacity, NEW j \in 1..Capacity,
           PaymentIdentifierFor(i) = PaymentIdentifierFor(j)
    PROVE  i = j
<1>1. i \in Nat /\ j \in Nat
  <2>1. MaxLength + 1 \in Nat \ {0}
    BY DigitsAssumption DEF MaxLength
  <2>2. Capacity \in Nat
    BY <2>1, ShorterSteps DEF Capacity
  <2> QED
    BY <2>2
<1>2. /\ LengthOf(i) \in 1..MaxLength /\ Shorter(LengthOf(i)) \in Nat
      /\ Shorter(LengthOf(i)) < i /\ i <= Shorter(LengthOf(i) + 1)
  BY EveryIndexHasALength
<1>3. /\ LengthOf(j) \in 1..MaxLength /\ Shorter(LengthOf(j)) \in Nat
      /\ Shorter(LengthOf(j)) < j /\ j <= Shorter(LengthOf(j) + 1)
  BY EveryIndexHasALength
<1>4. LengthOf(i) = LengthOf(j)
  <2>1. ASSUME NEW k \in 1..Capacity, LengthOf(k) \in 1..MaxLength
        PROVE  DOMAIN PaymentIdentifierFor(k) = 1..LengthOf(k)
    BY DEF PaymentIdentifierFor
  <2>2. 1..LengthOf(i) = 1..LengthOf(j)
    BY <1>2, <1>3, <2>1
  <2>3. LengthOf(i) \in Nat \ {0} /\ LengthOf(j) \in Nat \ {0}
    BY <1>2, <1>3, DigitsAssumption DEF MaxLength
  <2>4. LengthOf(i) \in 1..LengthOf(j) /\ LengthOf(j) \in 1..LengthOf(i)
    BY <2>2, <2>3
  <2> QED
    BY <2>3, <2>4
<1> DEFINE length == LengthOf(i)
           first == Shorter(length)
           v == i - 1 - first
           w == j - 1 - first
<1>5. length \in Nat \ {0}
  BY <1>2, DigitsAssumption DEF MaxLength
<1>6. first \in Nat /\ Shorter(length + 1) = first + Power(Digits, length)
      /\ Power(Digits, length) \in Nat
  BY <1>5, ShorterSteps
<1>7. first < i /\ i <= Shorter(length + 1) /\ first < j /\ j <= Shorter(length + 1)
  BY <1>2, <1>3, <1>4
<1>8. /\ \A d \in 1..length : PaymentIdentifierFor(i)[d] = Digit(v, Digits, length - d) + 1
      /\ \A d \in 1..length : PaymentIdentifierFor(j)[d] = Digit(w, Digits, length - d) + 1
  BY <1>4 DEF PaymentIdentifierFor
<1> HIDE DEF first, length
<1>9. v \in Nat /\ w \in Nat /\ v < Power(Digits, length) /\ w < Power(Digits, length)
  BY <1>1, <1>6, <1>7
<1>10. Digits \in Nat \ {0}
  BY DigitsAssumption
<1>11. ASSUME NEW k \in 0..(length - 1)
       PROVE  Digit(v, Digits, k) = Digit(w, Digits, k)
  <2>1. length - k \in 1..length /\ length - (length - k) = k /\ k \in Nat
    BY <1>5
  <2>2. Digit(v, Digits, k) + 1 = Digit(w, Digits, k) + 1
    <3> HIDE DEF v, w
    <3> QED
      BY <1>8, <2>1
  <2>3. ASSUME NEW x \in Nat
        PROVE  Digit(x, Digits, k) \in Nat
    <3>1. PICK f \in [0..k -> Nat] : Digit(x, Digits, k) = f[k] % Digits
      BY <1>10, <2>1, DigitSteps
    <3>2. f[k] \in Nat
      BY <2>1
    <3> QED
      BY <1>10, <3>1, <3>2
  <2>4. Digit(v, Digits, k) \in Nat /\ Digit(w, Digits, k) \in Nat
    BY <1>9, <2>3
  <2> HIDE DEF v, w
  <2> QED
    BY <2>2, <2>4
<1>12. v = w
  <2> HIDE DEF v, w
  <2>1. length \in Nat
    BY <1>5
  <2> QED
    BY <1>9, <1>10, <1>11, <2>1, DigitsDetermine
<1> QED
  BY <1>1, <1>6, <1>12

\* An amount belongs to one quantity and one code: whatever zeros are moved, no
\* two orders with different codes or quantities can be paid by the same amount.
THEOREM AmountsAreNeverShared ==
    ASSUME NEW tickets \in Nat, NEW index \in 1..Capacity,
           NEW tickets2 \in Nat, NEW index2 \in 1..Capacity,
           PaymentAmountsFor(tickets, index) \cap PaymentAmountsFor(tickets2, index2) # {}
    PROVE  tickets = tickets2 /\ index = index2
<1>1. PICK amount : /\ amount \in PaymentAmountsFor(tickets, index)
                    /\ amount \in PaymentAmountsFor(tickets2, index2)
  OBVIOUS
<1>2. /\ amount \div Unit = tickets
      /\ PaymentIdentifierFromAmount(amount) = PaymentIdentifierFor(index)
  BY <1>1, AmountsCarryIdentifiers
<1>3. /\ amount \div Unit = tickets2
      /\ PaymentIdentifierFromAmount(amount) = PaymentIdentifierFor(index2)
  BY <1>1, AmountsCarryIdentifiers
<1> QED
  BY <1>2, <1>3, IdentifiersDiffer

-----------------------------------------------------------------------------
(* Orders with the real amounts.                                           *)

\* A code can be taken when no reserved order of the quantity has it: to ask
\* that none of its amounts is taken asks no more than that.
THEOREM FreeCodesAreUnused ==
    ASSUME TypeOK, NEW q \in Quantities, NEW c \in Codes
    PROVE  Free(q, c) <=> ~ \E o \in StillReserved : Quantity[o] = q /\ code[o] = c
<1>1. /\ q \in Nat /\ c \in 1..Capacity
      /\ AmountsOf[q][c] = PaymentAmountsFor(q, c) /\ ExactAmount[q][c] \in AmountsOf[q][c]
  BY RealAmounts, AmountsAssumption
<1>2. ASSUME NEW o \in StillReserved
      PROVE  /\ Quantity[o] \in Quantities /\ Quantity[o] \in Nat /\ code[o] \in 1..Capacity
             /\ Amounts(o) = PaymentAmountsFor(Quantity[o], code[o])
  <2>1. o \in Orders /\ code[o] \in Codes
    BY <1>2 DEF StillReserved, TypeOK
  <2>2. Quantity[o] \in Quantities
    BY <2>1, OrdersAssumption
  <2> QED
    BY <2>1, <2>2, RealAmounts DEF Amounts
<1>3. ASSUME NEW o \in StillReserved, Quantity[o] = q, code[o] = c
      PROVE  ~ Free(q, c)
  <2>1. ExactAmount[q][c] \in Amounts(o)
    BY <1>1, <1>3 DEF Amounts
  <2> QED
    BY <1>1, <2>1 DEF Free, TakenAmounts
<1>4. ASSUME ~ Free(q, c)
      PROVE  \E o \in StillReserved : Quantity[o] = q /\ code[o] = c
  <2>1. PICK o \in StillReserved : PaymentAmountsFor(q, c) \cap Amounts(o) # {}
    BY <1>1, <1>4 DEF Free, TakenAmounts
  <2>2. q = Quantity[o] /\ c = code[o]
    BY <1>1, <1>2, <2>1, AmountsAreNeverShared
  <2> QED
    BY <2>2
<1> QED
  BY <1>3, <1>4

\* The amount of a booked payment says so itself: the price is exact, and its
\* digits are the identifier of the order's code.
THEOREM PaymentsSayTheirOrder == Spec => []MatchedByDigits
<1>1. IInv => MatchedByDigits
  <2> SUFFICES ASSUME IInv, NEW t \in Transfers,
                      payment[t] # NoPayment, payment[t].order # NoOrder
               PROVE  LET o == payment[t].order IN
                      /\ payment[t].amount \div Unit = Quantity[o]
                      /\ PaymentIdentifierFromAmount(payment[t].amount)
                            = PaymentIdentifierFor(code[o])
    BY DEF MatchedByDigits
  <2> DEFINE o == payment[t].order
  <2>1. o \in Orders
    BY DEF IInv, TypeOK, Payment
  <2>2. code[o] # NoCode /\ payment[t].amount \in Amounts(o)
    BY DEF IInv, BookedByAmount
  <2>3. code[o] \in Codes /\ Quantity[o] \in Quantities
    BY <2>1, <2>2, OrdersAssumption DEF IInv, TypeOK
  <2>4. /\ Quantity[o] \in Nat /\ code[o] \in 1..Capacity
        /\ payment[t].amount \in PaymentAmountsFor(Quantity[o], code[o])
    BY <2>2, <2>3, RealAmounts DEF Amounts
  <2> QED
    BY <2>4, AmountsCarryIdentifiers
<1> QED
  BY <1>1, Consistent, PTL
=============================================================================
