--------------------------- MODULE Rounds_proofs ---------------------------
(***************************************************************************)
(* Proofs about Rounds, for any orders, quantities, threshold and horizon. *)
(* A TLAPS proof that the types are respected however the rounds are       *)
(* closed, that IInv is an invariant when they are closed in order, and    *)
(* what follows from it: pools, snapshots and Lottery.                     *)
(***************************************************************************)
EXTENDS Rounds, FiniteSetTheorems, TLAPS

-----------------------------------------------------------------------------
(* Sets of tickets.                                                        *)

\* The counts of two disjoint sets add up.
LEMMA DisjointCount ==
    ASSUME NEW S, NEW T, IsFiniteSet(S), IsFiniteSet(T), S \cap T = {}
    PROVE  /\ IsFiniteSet(S \cup T)
           /\ Cardinality(S \cup T) = Cardinality(S) + Cardinality(T)
           /\ Cardinality(S) \in Nat /\ Cardinality(T) \in Nat
<1>1. Cardinality(S \cap T) = 0
  BY FS_EmptySet
<1>2. Cardinality(S) \in Nat /\ Cardinality(T) \in Nat
  BY FS_CardinalityType
<1>3. /\ IsFiniteSet(S \cup T)
      /\ Cardinality(S \cup T) = Cardinality(S) + Cardinality(T) - Cardinality(S \cap T)
  BY FS_Union
<1> QED
  BY <1>1, <1>2, <1>3

\* The tickets issued so far, and any of them, are finitely many.
LEMMA TicketsFinite ==
    ASSUME TypeOK, NEW S \in SUBSET (DOMAIN ledger)
    PROVE  IsFiniteSet(S) /\ Cardinality(S) \in Nat
<1>1. DOMAIN ledger = 1..(nextTicket - 1) /\ nextTicket - 1 \in Int
  BY DEF TypeOK
<1>2. IsFiniteSet(DOMAIN ledger)
  BY <1>1, FS_Interval
<1>3. IsFiniteSet(S)
  BY <1>2, FS_Subset
<1> QED
  BY <1>3, FS_CardinalityType

LEMMA CountsAreNumbers ==
    ASSUME TypeOK, NEW d
    PROVE  /\ Direct(d) \subseteq DOMAIN ledger /\ Eligible(d) \subseteq DOMAIN ledger
           /\ IsFiniteSet(Direct(d)) /\ IsFiniteSet(Eligible(d))
           /\ Cardinality(Direct(d)) \in Nat /\ Cardinality(Eligible(d)) \in Nat
<1>1. Direct(d) \in SUBSET (DOMAIN ledger) /\ Eligible(d) \in SUBSET (DOMAIN ledger)
  BY DEF Direct, Eligible
<1> QED
  BY <1>1, TicketsFinite

\* The tickets of an order are as many as its quantity, and are new.
LEMMA NewTickets ==
    ASSUME TypeOK, NEW o \in Orders
    PROVE  /\ IsFiniteSet(TicketRange(o)) /\ Cardinality(TicketRange(o)) = Quantity[o]
           /\ TicketRange(o) # {}
           /\ TicketRange(o) \cap DOMAIN ledger = {}
           /\ DOMAIN ledger \cup TicketRange(o) = 1..(CounterAfter(o) - 1)
           /\ CounterAfter(o) \in Nat \ {0}
           /\ Quantity[o] \in Nat
<1> DEFINE n == nextTicket  q == Quantity[o]
<1>1. n \in Nat \ {0} /\ q \in Nat \ {0} /\ DOMAIN ledger = 1..(n - 1)
  BY OrdersAssumption DEF TypeOK
<1>2. TicketRange(o) = n..(n + q - 1) /\ CounterAfter(o) = n + q
  BY DEF TicketRange, CounterAfter
<1> HIDE DEF n, q
<1>3. IsFiniteSet(n..(n + q - 1)) /\ Cardinality(n..(n + q - 1)) = q
  <2>1. n \in Int /\ n + q - 1 \in Int /\ ~(n > n + q - 1) /\ (n + q - 1) - n + 1 = q
    BY <1>1
  <2> QED
    BY <2>1, FS_Interval
<1>4. n \in n..(n + q - 1)
  BY <1>1
<1>5. (n..(n + q - 1)) \cap (1..(n - 1)) = {}
  BY <1>1
<1>6. (1..(n - 1)) \cup (n..(n + q - 1)) = 1..(n + q - 1)
  BY <1>1
<1>7. n + q \in Nat \ {0}
  BY <1>1
<1> QED
  BY <1>1, <1>2, <1>3, <1>4, <1>5, <1>6, <1>7 DEF q

-----------------------------------------------------------------------------
(* Types.                                                                  *)

LEMMA InitType == Init => TypeOK
<1> SUFFICES ASSUME Init PROVE TypeOK
  OBVIOUS
<1>1. Days \subseteq Nat /\ 0 \in Days
  BY OrdersAssumption DEF Days
<1>2. ledger \in [1..(nextTicket - 1) -> [round : Days, order : Orders]]
  <2>1. 1..0 = {} /\ nextTicket - 1 = 0
    BY DEF Init
  <2> QED
    BY <2>1 DEF Init
<1> QED
  BY <1>1, <1>2 DEF Init, TypeOK, RoundStatus

LEMMA OpenedType ==
    ASSUME TypeOK, NEW d
    PROVE  Opened(d) \in [Days -> RoundStatus]
BY DEF TypeOK, Opened, RoundStatus

\* Every step respects the types, in whatever order the rounds are closed.
LEMMA StepType == TypeOK /\ [Next]_vars => TypeOK'
<1> SUFFICES ASSUME TypeOK, [Next]_vars PROVE TypeOK'
  OBVIOUS
<1>0. Days \subseteq Nat
  BY OrdersAssumption DEF Days
<1>1. CASE Midnight
  <2>1. now' \in Days
    BY <1>1, OrdersAssumption DEF Midnight, TypeOK, Days
  <2> QED
    BY <1>1, <2>1 DEF Midnight, TypeOK, roundVars, ticketVars, drawVars
<1>2. ASSUME NEW o \in Orders, CreateOrder(o) PROVE TypeOK'
  <2>1. status' \in [Days -> RoundStatus]
    BY <1>2, OpenedType DEF CreateOrder
  <2>2. orderRound' \in [Orders -> Days \cup {NoRound}]
    BY <1>2 DEF CreateOrder, TypeOK
  <2>3. paid' \subseteq {p \in Orders : orderRound'[p] # NoRound}
    BY <1>2, NamesAssumption DEF CreateOrder, TypeOK
  <2> QED
    BY <1>2, <2>1, <2>2, <2>3 DEF CreateOrder, TypeOK, drawVars
<1>3. ASSUME NEW o \in Orders, ConfirmPayment(o) PROVE TypeOK'
  <2> DEFINE d == IssuingRound(o)
  <2>1. d \in Days /\ d # NoRound
    BY <1>3, NamesAssumption DEF ConfirmPayment, IssuingRound, TypeOK
  <2>2. status' \in [Days -> RoundStatus]
    BY <1>3, OpenedType DEF ConfirmPayment
  <2>3. ledger' \in [1..(nextTicket' - 1) -> [round : Days, order : Orders]]
    <3>1. DOMAIN ledger \cup TicketRange(o) = 1..(nextTicket' - 1)
      BY <1>3, NewTickets DEF ConfirmPayment
    <3>2. ledger' = [t \in DOMAIN ledger \cup TicketRange(o) |->
                       IF t \in TicketRange(o) THEN [round |-> d, order |-> o] ELSE ledger[t]]
      BY <1>3 DEF ConfirmPayment
    <3> HIDE DEF d
    <3>3. \A t \in DOMAIN ledger : ledger[t] \in [round : Days, order : Orders]
      BY DEF TypeOK
    <3> QED
      BY <2>1, <3>1, <3>2, <3>3
  <2>4. gross' \in [Days -> Nat] /\ paidCount' \in [Days -> Nat]
    <3>1. /\ gross' = [gross EXCEPT ![d] = @ + Quantity[o]]
          /\ paidCount' = [paidCount EXCEPT ![d] = @ + Quantity[o]]
      BY <1>3 DEF ConfirmPayment
    <3>2. Quantity[o] \in Nat
      BY NewTickets
    <3>3. gross \in [Days -> Nat] /\ paidCount \in [Days -> Nat]
      BY DEF TypeOK
    <3> HIDE DEF d
    <3>4. gross' \in [Days -> Nat]
      BY <2>1, <3>1, <3>2, <3>3
    <3>5. paidCount' \in [Days -> Nat]
      BY <2>1, <3>1, <3>2, <3>3
    <3> QED
      BY <3>4, <3>5
  <2>5. orderRound' \in [Orders -> Days \cup {NoRound}]
    BY <1>3, <2>1 DEF ConfirmPayment, TypeOK
  <2>6. paid' \subseteq {p \in Orders : orderRound'[p] # NoRound}
    BY <1>3, <2>1 DEF ConfirmPayment, TypeOK
  <2>7. nextTicket' \in Nat \ {0}
    BY <1>3, NewTickets DEF ConfirmPayment
  <2> QED
    BY <1>3, <2>2, <2>3, <2>4, <2>5, <2>6, <2>7 DEF ConfirmPayment, TypeOK, drawVars
<1>4. ASSUME NEW d \in Days, StoreTotals(d)
      PROVE gross' \in [Days -> Nat] /\ paidCount' \in [Days -> Nat]
  BY <1>4, CountsAreNumbers DEF StoreTotals, WinnerPool, TypeOK
<1>5. ASSUME NEW d \in Days, CloseAndLock(d) PROVE TypeOK'
  <2>1. gross' \in [Days -> Nat] /\ paidCount' \in [Days -> Nat]
    BY <1>4, <1>5 DEF CloseAndLock
  <2>2. status' \in [Days -> RoundStatus]
    BY <1>5 DEF CloseAndLock, TypeOK, RoundStatus
  <2> QED
    BY <1>5, <2>1, <2>2 DEF CloseAndLock, TypeOK, ticketVars, drawVars
<1>6. ASSUME NEW d \in Days, CloseAndRollOver(d) PROVE TypeOK'
  <2>1. gross' \in [Days -> Nat] /\ paidCount' \in [Days -> Nat]
    BY <1>4, <1>6 DEF CloseAndRollOver
  <2>2. status' \in [Days -> RoundStatus]
    BY <1>6, OpenedType DEF CloseAndRollOver, RoundStatus
  <2>3. previous' \in [Days -> Days \cup {NoRound}]
    BY <1>6 DEF CloseAndRollOver, Linked, TypeOK
  <2>4. carryIn' \in [Days -> Nat]
    <3>1. Cardinality(Direct(d)) \in Nat /\ carryIn[d] \in Nat
      BY CountsAreNumbers DEF TypeOK
    <3>2. Carried(d) \in Nat
      BY <3>1 DEF Carried, WinnerPool
    <3>3. carryIn' = [carryIn EXCEPT ![d + 1] = Carried(d)] /\ carryIn \in [Days -> Nat]
      BY <1>6 DEF CloseAndRollOver, TypeOK
    <3> QED
      BY <3>2, <3>3
  <2> QED
    BY <1>6, <2>1, <2>2, <2>3, <2>4 DEF CloseAndRollOver, TypeOK, ticketVars, drawVars
<1>7. ASSUME NEW d \in Days, CreateSnapshot(d) PROVE TypeOK'
  <2>1. status' \in [Days -> RoundStatus]
    BY <1>7 DEF CreateSnapshot, TypeOK, RoundStatus
  <2>2. Eligible(d) \in SUBSET Nat /\ Prize(d) \in Nat
    <3>1. Eligible(d) \subseteq DOMAIN ledger /\ DOMAIN ledger = 1..(nextTicket - 1)
      BY CountsAreNumbers DEF TypeOK
    <3>2. Eligible(d) \in SUBSET Nat
      BY <3>1 DEF TypeOK
    <3>3. gross[d] \in Nat /\ carryIn[d] \in Nat
      BY DEF TypeOK
    <3> QED
      BY <3>2, <3>3 DEF Prize
  <2>3. snapshot' \in [Days -> [tickets : SUBSET Nat, prize : Nat] \cup {NoSnapshot}]
    BY <1>7, <2>2 DEF CreateSnapshot, TypeOK
  <2> QED
    BY <1>7, <2>1, <2>3 DEF CreateSnapshot, TypeOK, ticketVars
<1>8. ASSUME NEW d \in Days, RecordDrawResult(d) PROVE TypeOK'
  <2>1. status' \in [Days -> RoundStatus]
    BY <1>8 DEF RecordDrawResult, TypeOK, RoundStatus
  <2>2. winner' \in [Days -> Nat \cup {NoTicket}]
    <3>1. snapshot[d] \in [tickets : SUBSET Nat, prize : Nat]
      BY <1>8 DEF RecordDrawResult, TypeOK
    <3> QED
      BY <1>8, <3>1 DEF RecordDrawResult, TypeOK
  <2> QED
    BY <1>8, <2>1, <2>2 DEF RecordDrawResult, TypeOK, ticketVars
<1>9. CASE UNCHANGED vars
  BY <1>9 DEF vars, roundVars, ticketVars, drawVars, TypeOK
<1> QED
  BY <1>1, <1>2, <1>3, <1>5, <1>6, <1>7, <1>8, <1>9 DEF Next

\* However late and in whatever order the rounds are closed, the tickets are
\* numbered 1, 2, 3, ... without a gap, and the amounts are never negative.
THEOREM TypeCorrect == Spec => []TypeOK
<1>1. Init => TypeOK
  BY InitType
<1>2. TypeOK /\ [Next]_vars => TypeOK'
  BY StepType
<1> QED
  BY <1>1, <1>2, PTL DEF Spec

-----------------------------------------------------------------------------
(* The tickets of an order.                                                *)

LEMMA InitRanges == Init => OrdersHaveOneRange
<1> SUFFICES ASSUME Init PROVE OrdersHaveOneRange
  OBVIOUS
<1>1. ledger = [t \in 1..0 |-> [round |-> 0, order |-> CHOOSE o \in Orders : TRUE]]
  BY DEF Init
<1>2. DOMAIN ledger = {}
  BY <1>1
<1> QED
  BY <1>2 DEF Init, OrdersHaveOneRange, TicketsOf

\* A confirmation gives the order a range of its own, and no other order any
\* ticket.
LEMMA ConfirmPaymentRanges ==
    ASSUME TypeOK, OrdersHaveOneRange, NEW o \in Orders, ConfirmPayment(o)
    PROVE  OrdersHaveOneRange'
<1> DEFINE R == TicketRange(o)
           d == IssuingRound(o)
<1>1. /\ ledger' = [t \in DOMAIN ledger \cup R |->
                      IF t \in R THEN [round |-> d, order |-> o] ELSE ledger[t]]
      /\ orderRound' = [orderRound EXCEPT ![o] = d]
      /\ paid' = paid \cup {o} /\ o \notin paid
  BY DEF ConfirmPayment
<1>2. R \cap DOMAIN ledger = {}
  BY NewTickets
<1>3. R = nextTicket..(nextTicket + Quantity[o] - 1) /\ nextTicket \in R
  BY OrdersAssumption DEF TicketRange, TypeOK
<1> HIDE DEF R, d
<1>4. /\ DOMAIN ledger' = DOMAIN ledger \cup R
      /\ \A t \in R : ledger'[t].round = d /\ ledger'[t].order = o
      /\ \A t \in DOMAIN ledger : ledger'[t] = ledger[t]
  BY <1>1, <1>2
<1>5. TicketsOf(o) = {}
  BY <1>1 DEF OrdersHaveOneRange
<1>6. TicketsOf(o)' = R
  BY <1>4, <1>5 DEF TicketsOf
<1>7. orderRound'[o] = d
  BY <1>1 DEF TypeOK
<1>8. ASSUME NEW p \in Orders, p # o
      PROVE  /\ TicketsOf(p)' = TicketsOf(p) /\ TicketsOf(p) \subseteq DOMAIN ledger
             /\ orderRound'[p] = orderRound[p] /\ (p \in paid' <=> p \in paid)
  BY <1>1, <1>4, <1>8 DEF TicketsOf, TypeOK
<1> SUFFICES ASSUME NEW p \in Orders
             PROVE  IF p \in paid'
                    THEN \E first \in DOMAIN ledger' :
                           /\ TicketsOf(p)' = first..(first + Quantity[p] - 1)
                           /\ \A t \in TicketsOf(p)' : ledger'[t].round = orderRound'[p]
                    ELSE TicketsOf(p)' = {}
  BY DEF OrdersHaveOneRange
<1>9. CASE p = o
  BY <1>1, <1>3, <1>4, <1>6, <1>7, <1>9
<1>10. CASE p # o
  BY <1>4, <1>8, <1>10 DEF OrdersHaveOneRange
<1> QED
  BY <1>9, <1>10

LEMMA StepRanges == TypeOK /\ OrdersHaveOneRange /\ [Next]_vars => OrdersHaveOneRange'
<1> SUFFICES ASSUME TypeOK, OrdersHaveOneRange, [Next]_vars PROVE OrdersHaveOneRange'
  OBVIOUS
<1>1. ASSUME NEW o \in Orders, ConfirmPayment(o) PROVE OrdersHaveOneRange'
  BY <1>1, ConfirmPaymentRanges
<1>2. ASSUME NEW o \in Orders, CreateOrder(o) PROVE OrdersHaveOneRange'
  <2>1. /\ UNCHANGED <<ledger, paid>> /\ o \notin paid
        /\ \A p \in Orders : p # o => orderRound'[p] = orderRound[p]
    BY <1>2 DEF CreateOrder, TypeOK
  <2>2. TicketsOf(o) = {}
    BY <2>1 DEF OrdersHaveOneRange
  <2> QED
    BY <2>1, <2>2 DEF OrdersHaveOneRange, TicketsOf
<1>3. CASE UNCHANGED <<ledger, paid, orderRound>>
  BY <1>3 DEF OrdersHaveOneRange, TicketsOf
<1>4. \/ UNCHANGED <<ledger, paid, orderRound>>
      \/ \E o \in Orders : CreateOrder(o) \/ ConfirmPayment(o)
  BY DEF Next, Midnight, CloseAndLock, CloseAndRollOver, CreateSnapshot,
         RecordDrawResult, ticketVars, vars
<1> QED
  BY <1>1, <1>2, <1>3, <1>4

\* In whatever order the rounds are closed and payments confirmed, a paid order
\* has exactly the tickets it bought, with consecutive numbers, in one round.
THEOREM OneRangePerOrder == Spec => []OrdersHaveOneRange
<1>1. Init => OrdersHaveOneRange
  BY InitRanges
<1>2. TypeOK /\ OrdersHaveOneRange /\ [Next]_vars => OrdersHaveOneRange'
  BY StepRanges
<1> QED
  BY <1>1, <1>2, TypeCorrect, PTL DEF Spec

-----------------------------------------------------------------------------
(* Chains of rounds.                                                       *)

\* A chain is its own round and rounds before it that are rolled over.
LEMMA ChainFacts ==
    ASSUME NEW d \in Days
    PROVE  /\ d \in Chain(d)
           /\ \A e \in Chain(d) : e \in 0..d /\ (e # d => status[e] = "rolled_over")
<1>1. d \in Nat
  BY OrdersAssumption DEF Days
<1>2. d \in Chain(d)
  <2>1. d \in 0..d /\ d..(d - 1) = {}
    BY <1>1
  <2> QED
    BY <2>1 DEF Chain
<1>3. ASSUME NEW e \in Chain(d), e # d PROVE status[e] = "rolled_over"
  <2>1. e \in 0..d /\ \A k \in e..(d - 1) : Link(k)
    BY DEF Chain
  <2>2. e \in e..(d - 1)
    BY <1>1, <1>3, <2>1
  <2> QED
    BY <2>1, <2>2 DEF Link
<1> QED
  BY <1>2, <1>3 DEF Chain

\* A chain changes only with the links of the rounds before it.
LEMMA SameChain ==
    ASSUME NEW d \in Days, \A k \in 0..(d - 1) : Link(k)' <=> Link(k)
    PROVE  Chain(d)' = Chain(d)
<1>1. d \in Nat
  BY OrdersAssumption DEF Days
<1>2. \A e \in 0..d : \A k \in e..(d - 1) : k \in 0..(d - 1)
  BY <1>1
<1> QED
  BY <1>2 DEF Chain

\* Steps that neither issue tickets nor roll a round over leave every chain,
\* and every count taken from it, as they are.
LEMMA QuietChains ==
    ASSUME previous' = previous,
           \A k \in Days : status'[k] = "rolled_over" <=> status[k] = "rolled_over"
    PROVE  \A d \in Days : Chain(d)' = Chain(d)
<1> SUFFICES ASSUME NEW d \in Days PROVE Chain(d)' = Chain(d)
  OBVIOUS
<1>1. \A k \in 0..(d - 1) : k \in Days
  BY OrdersAssumption DEF Days
<1>2. \A k \in 0..(d - 1) : Link(k)' <=> Link(k)
  BY <1>1 DEF Link
<1> QED
  BY <1>2, SameChain

LEMMA QuietTickets ==
    ASSUME ledger' = ledger, NEW d \in Days, Chain(d)' = Chain(d)
    PROVE  Direct(d)' = Direct(d) /\ Eligible(d)' = Eligible(d)
BY DEF Direct, Eligible

\* The tickets eligible in a round are its own, and others that were carried.
LEMMA DirectIsEligible ==
    ASSUME NEW d \in Days
    PROVE  Direct(d) \subseteq Eligible(d)
BY ChainFacts DEF Direct, Eligible

-----------------------------------------------------------------------------
(* The inductive invariant: one lemma for every action.                    *)

LEMMA InitInv == Init => IInv
<1> SUFFICES ASSUME Init PROVE IInv
  OBVIOUS
<1>1. TypeOK
  BY InitType
<1>2. ledger = [t \in 1..0 |-> [round |-> 0, order |-> CHOOSE o \in Orders : TRUE]]
  BY DEF Init
<1>3. DOMAIN ledger = {}
  BY <1>2
<1>4. \A d \in Days : Direct(d) = {} /\ Eligible(d) = {}
  BY <1>3 DEF Direct, Eligible
<1>5. Cardinality({}) = 0
  BY FS_EmptySet
<1>6. \A d \in Days : Cardinality(Direct(d)) = 0 /\ Cardinality(Eligible(d)) = 0
  BY <1>4, <1>5
<1>7. PoolsAddUp
  BY <1>6 DEF Init, PoolsAddUp
<1>8. NoRowIsEmpty
  BY <1>4 DEF Init, NoRowIsEmpty
<1>9. LinksAreRollOvers /\ ClosedInOrder
  BY DEF Init, LinksAreRollOvers, ClosedInOrder
<1>10. DrawsFollowStatus /\ SnapshotIsFaithful /\ CountsAreFinal
  BY DEF Init, DrawsFollowStatus, SnapshotIsFaithful, CountsAreFinal, Counted
<1>11. OrdersHaveOneRange
  BY InitRanges
<1> QED
  BY <1>1, <1>7, <1>8, <1>9, <1>10, <1>11 DEF IInv

LEMMA MidnightInv == ASSUME IInv, TypeOK', OrdersHaveOneRange', Midnight PROVE IInv'
<1>1. /\ now \in Nat /\ now' = now + 1
      /\ UNCHANGED <<status, previous, carryIn, gross, paidCount, ledger, snapshot, winner>>
  BY OrdersAssumption DEF IInv, TypeOK, Days, Midnight, roundVars, ticketVars, drawVars
<1>2. \A d \in Days : d \in Int
  BY OrdersAssumption DEF Days
<1>3. \A d \in Days : Direct(d)' = Direct(d) /\ Eligible(d)' = Eligible(d)
  BY <1>1, QuietChains, QuietTickets
<1>4. LinksAreRollOvers'
  BY <1>1, <1>2 DEF IInv, LinksAreRollOvers
<1>5. ClosedInOrder'
  BY <1>1, <1>2 DEF IInv, ClosedInOrder
<1>6. NoRowIsEmpty' /\ PoolsAddUp' /\ DrawsFollowStatus'
  BY <1>1, <1>3 DEF IInv, NoRowIsEmpty, PoolsAddUp, DrawsFollowStatus
<1>7. SnapshotIsFaithful' /\ CountsAreFinal'
  BY <1>1, <1>3 DEF IInv, SnapshotIsFaithful, CountsAreFinal
<1> QED
  BY <1>4, <1>5, <1>6, <1>7 DEF IInv

\* What opening the row of a day does to the parts of the invariant that
\* speak of statuses and links only.
LEMMA OpeningKeepsOrder ==
    ASSUME IInv, NEW d \in Days, d <= now, status[d] = "none" => d = now,
           status' = Opened(d), now' = now,
           UNCHANGED <<previous, snapshot, winner>>
    PROVE  /\ \A e \in Days : status'[e] = status[e]
                              \/ (e = d /\ status[e] = "none" /\ status'[e] = "open")
           /\ \A k \in Days : status'[k] = "rolled_over" <=> status[k] = "rolled_over"
           /\ LinksAreRollOvers' /\ ClosedInOrder'
<1>1. \A e \in Days : status'[e] = status[e]
                      \/ (e = d /\ status[e] = "none" /\ status'[e] = "open")
  <2>1. status \in [Days -> RoundStatus]
    BY DEF IInv, TypeOK
  <2>2. status' = [status EXCEPT ![d] = IF status[d] = "none" THEN "open" ELSE status[d]]
    BY DEF Opened
  <2>3. \A e \in Days : e # d => status'[e] = status[e]
    BY <2>1, <2>2
  <2>4. status'[d] = IF status[d] = "none" THEN "open" ELSE status[d]
    BY <2>1, <2>2
  <2> QED
    BY <2>3, <2>4
<1>2. \A k \in Days : status'[k] = "rolled_over" <=> status[k] = "rolled_over"
  BY <1>1
<1>3. LinksAreRollOvers'
  <2>1. \A e \in Days : e > 0 => e - 1 \in Days
    BY OrdersAssumption DEF Days
  <2> QED
    BY <1>2, <2>1 DEF IInv, LinksAreRollOvers
<1>4. ClosedInOrder'
  <2>1. \A e \in Days : status'[e] # "none" => e <= now'
    BY <1>1 DEF IInv, ClosedInOrder
  <2>2. ASSUME NEW e \in Days, status'[e] = "open", NEW f \in (e + 1)..Horizon
        PROVE  status'[f] \in {"none", "open"}
    <3>1. f \in Days /\ f \in Int /\ e \in Int /\ f > e
      BY OrdersAssumption DEF Days
    <3>2. CASE status[e] = "open"
      <4>1. status[f] \in {"none", "open"}
        BY <3>2 DEF IInv, ClosedInOrder
      <4> QED
        BY <1>1, <3>1, <4>1
    <3>3. CASE status[e] # "open"
      <4>1. e = d /\ status[e] = "none"
        BY <1>1, <2>2, <3>3
      <4>2. f > now /\ now \in Int
        BY <3>1, <4>1 DEF IInv, TypeOK
      <4>3. status[f] = "none"
        BY <3>1, <4>2 DEF IInv, ClosedInOrder
      <4> QED
        BY <1>1, <3>1, <4>3
    <3> QED
      BY <3>2, <3>3
  <2> QED
    BY <2>1, <2>2 DEF ClosedInOrder
<1> QED
  BY <1>1, <1>2, <1>3, <1>4

LEMMA CreateOrderInv ==
    ASSUME IInv, TypeOK', OrdersHaveOneRange', NEW o \in Orders, CreateOrder(o) PROVE IInv'
<1>1. /\ status' = Opened(now)
      /\ UNCHANGED <<now, previous, carryIn, gross, paidCount, ledger, snapshot, winner>>
  BY DEF CreateOrder, drawVars
<1>2. now \in Days /\ now <= now
  BY OrdersAssumption DEF IInv, TypeOK, Days
<1>3. /\ \A e \in Days : status'[e] = status[e]
                         \/ (e = now /\ status[e] = "none" /\ status'[e] = "open")
      /\ \A k \in Days : status'[k] = "rolled_over" <=> status[k] = "rolled_over"
      /\ LinksAreRollOvers' /\ ClosedInOrder'
  BY <1>1, <1>2, OpeningKeepsOrder
<1>4. \A d \in Days : Direct(d)' = Direct(d) /\ Eligible(d)' = Eligible(d)
  BY <1>1, <1>3, QuietChains, QuietTickets
<1>5. NoRowIsEmpty' /\ PoolsAddUp'
  BY <1>1, <1>3, <1>4 DEF IInv, NoRowIsEmpty, PoolsAddUp
<1>6. DrawsFollowStatus'
  BY <1>1, <1>3, <1>4 DEF IInv, DrawsFollowStatus
<1>7. SnapshotIsFaithful' /\ CountsAreFinal'
  BY <1>1, <1>3, <1>4 DEF IInv, SnapshotIsFaithful, CountsAreFinal, Counted
<1> QED
  BY <1>3, <1>5, <1>6, <1>7 DEF IInv

\* New tickets are eligible in the round they are issued to, and nowhere else.
LEMMA IssuedTickets ==
    ASSUME IInv, NEW o \in Orders, ConfirmPayment(o), NEW d \in Days, d = IssuingRound(o)
    PROVE  /\ d <= now /\ (status[d] = "none" => d = now)
           /\ status' = Opened(d) /\ status'[d] = "open"
           /\ \A e \in Days : Chain(e)' = Chain(e)
           /\ Direct(d)' = Direct(d) \cup TicketRange(o)
           /\ Eligible(d)' = Eligible(d) \cup TicketRange(o)
           /\ \A e \in Days : e # d => Direct(e)' = Direct(e) /\ Eligible(e)' = Eligible(e)
<1> DEFINE R == TicketRange(o)
<1>1. /\ status' = Opened(d) /\ Opened(d)[d] = "open"
      /\ ledger' = [t \in DOMAIN ledger \cup R |->
                      IF t \in R THEN [round |-> d, order |-> o] ELSE ledger[t]]
      /\ UNCHANGED <<now, previous, snapshot, winner>>
  BY DEF ConfirmPayment, drawVars
<1>2. d <= now /\ (status[d] = "none" => d = now)
  <2>1. d = now \/ status[d] = "open"
    BY DEF IssuingRound, TakesTickets
  <2>2. status[d] = "open" => d <= now
    BY DEF IInv, ClosedInOrder
  <2>3. now <= now
    BY OrdersAssumption DEF IInv, TypeOK, Days
  <2> QED
    BY <2>1, <2>2, <2>3
<1>3. /\ \A k \in Days : status'[k] = "rolled_over" <=> status[k] = "rolled_over"
      /\ LinksAreRollOvers'
  BY <1>1, <1>2, OpeningKeepsOrder
<1>4. \A e \in Days : Chain(e)' = Chain(e)
  BY <1>1, <1>3, QuietChains
<1>5. R \cap DOMAIN ledger = {}
  BY NewTickets DEF IInv
<1> HIDE DEF R
<1>6. /\ DOMAIN ledger' = DOMAIN ledger \cup R
      /\ \A t \in R : ledger'[t].round = d
      /\ \A t \in DOMAIN ledger : ledger'[t] = ledger[t]
  BY <1>1, <1>5
<1>7. Direct(d)' = Direct(d) \cup R
  BY <1>6 DEF Direct
<1>8. \A e \in Days : e # d => Direct(e)' = Direct(e)
  BY <1>6 DEF Direct
<1>9. Eligible(d)' = Eligible(d) \cup R
  BY <1>4, <1>6, ChainFacts DEF Eligible
<1>10. ASSUME NEW e \in Days, e # d PROVE Eligible(e)' = Eligible(e)
  <2>1. d \notin Chain(e)
    <3>1. status[d] # "rolled_over"
      BY <1>1, <1>3 
    <3> QED
      BY <1>10, <3>1, ChainFacts
  <2> QED
    BY <1>4, <1>6, <2>1 DEF Eligible
<1> QED
  BY <1>1, <1>2, <1>4, <1>7, <1>8, <1>9, <1>10 DEF R

LEMMA ConfirmPaymentInv ==
    ASSUME IInv, TypeOK', OrdersHaveOneRange', NEW o \in Orders, ConfirmPayment(o) PROVE IInv'
<1> DEFINE R == TicketRange(o)
<1>0. PICK d \in Days : d = IssuingRound(o)
  BY NamesAssumption DEF ConfirmPayment, IssuingRound, IInv, TypeOK
<1>1. d \in Days
  BY <1>0
<1>2. /\ gross' = [gross EXCEPT ![d] = @ + Quantity[o]]
      /\ paidCount' = [paidCount EXCEPT ![d] = @ + Quantity[o]]
      /\ UNCHANGED <<now, previous, carryIn, snapshot, winner>>
  BY <1>0 DEF ConfirmPayment, drawVars
<1>3. /\ d <= now /\ (status[d] = "none" => d = now)
      /\ status' = Opened(d) /\ status'[d] = "open"
      /\ Direct(d)' = Direct(d) \cup R
      /\ Eligible(d)' = Eligible(d) \cup R
      /\ \A e \in Days : e # d => Direct(e)' = Direct(e) /\ Eligible(e)' = Eligible(e)
  BY <1>0, IssuedTickets
<1>4. /\ R \cap DOMAIN ledger = {} /\ IsFiniteSet(R) /\ Cardinality(R) = Quantity[o]
      /\ Quantity[o] \in Nat
  BY NewTickets DEF IInv
<1> HIDE DEF R
<1>5. /\ \A e \in Days : status'[e] = status[e]
                         \/ (e = d /\ status[e] = "none" /\ status'[e] = "open")
      /\ LinksAreRollOvers' /\ ClosedInOrder'
  BY <1>1, <1>2, <1>3, OpeningKeepsOrder
<1>6. NoRowIsEmpty'
  <2> SUFFICES ASSUME NEW e \in Days, status'[e] = "none"
               PROVE  Direct(e)' = {} /\ gross'[e] = 0 /\ carryIn'[e] = 0
                      /\ previous'[e] = NoRound
    BY DEF NoRowIsEmpty
  <2>1. e # d /\ status[e] = "none"
    BY <1>3, <1>5
  <2>2. gross'[e] = gross[e]
    BY <1>2, <2>1 DEF IInv, TypeOK
  <2> QED
    BY <1>2, <1>3, <2>1, <2>2 DEF IInv, NoRowIsEmpty
<1>7. PoolsAddUp'
  <2>1. /\ gross'[d] = gross[d] + Quantity[o]
        /\ \A e \in Days : e # d => gross'[e] = gross[e]
        /\ gross[d] \in Nat /\ carryIn[d] \in Nat
    BY <1>1, <1>2 DEF IInv, TypeOK
  <2>2. /\ Direct(d) \subseteq DOMAIN ledger /\ Eligible(d) \subseteq DOMAIN ledger
        /\ IsFiniteSet(Direct(d)) /\ IsFiniteSet(Eligible(d))
    BY CountsAreNumbers DEF IInv
  <2>3. /\ Cardinality(Direct(d) \cup R) = Cardinality(Direct(d)) + Quantity[o]
        /\ Cardinality(Direct(d)) \in Nat
    <3>1. Direct(d) \cap R = {}
      BY <1>4, <2>2
    <3> QED
      BY <1>4, <2>2, <3>1, DisjointCount
  <2>4. /\ Cardinality(Eligible(d) \cup R) = Cardinality(Eligible(d)) + Quantity[o]
        /\ Cardinality(Eligible(d)) \in Nat
    <3>1. Eligible(d) \cap R = {}
      BY <1>4, <2>2
    <3> QED
      BY <1>4, <2>2, <3>1, DisjointCount
  <2>5. gross[d] = Cardinality(Direct(d)) /\ gross[d] + carryIn[d] = Cardinality(Eligible(d))
    BY <1>1 DEF IInv, PoolsAddUp
  <2>6. /\ gross'[d] = Cardinality(Direct(d)')
        /\ gross'[d] + carryIn'[d] = Cardinality(Eligible(d)')
    BY <1>2, <1>3, <1>4, <2>1, <2>3, <2>4, <2>5
  <2>7. ASSUME NEW e \in Days, e # d
        PROVE  /\ gross'[e] = Cardinality(Direct(e)')
               /\ gross'[e] + carryIn'[e] = Cardinality(Eligible(e)')
    BY <1>2, <1>3, <2>1, <2>7 DEF IInv, PoolsAddUp
  <2> QED
    BY <2>6, <2>7 DEF PoolsAddUp
<1>8. \A e \in Days : status'[e] \notin {"none", "open"} => status[e] = status'[e] /\ e # d
  BY <1>3, <1>5
<1>9. DrawsFollowStatus'
  BY <1>2, <1>5 DEF IInv, DrawsFollowStatus
<1>10. SnapshotIsFaithful'
  <2>1. snapshot[d] = NoSnapshot
    BY <1>1, <1>2, <1>3, <1>9 DEF DrawsFollowStatus
  <2> QED
    BY <1>2, <1>3, <2>1 DEF IInv, SnapshotIsFaithful
<1>11. CountsAreFinal'
  <2>1. \A e \in Days : e # d => paidCount'[e] = paidCount[e]
    BY <1>2 DEF IInv, TypeOK
  <2> QED
    BY <1>3, <1>8, <2>1 DEF IInv, CountsAreFinal, Counted
<1> QED
  BY <1>5, <1>6, <1>7, <1>9, <1>10, <1>11 DEF IInv

\* A close in order leaves only open rounds, or none, after a round that stays
\* open.
LEMMA ClosingKeepsOrder ==
    ASSUME IInv, ClosesInOrder, NEW d \in Days, status[d] = "open", status'[d] # "open",
           status'[d] # "none", now' = now,
           \A e \in Days : e # d => \/ status'[e] = status[e]
                                    \/ (status'[e] = "open" /\ e = d + 1 /\ d < now)
    PROVE  ClosedInOrder'
<1>0. \A e \in Days : e \in Int
  BY OrdersAssumption DEF Days
<1>1. ASSUME NEW e \in Days, status'[e] # "none" PROVE e <= now'
  <2>1. CASE e = d
    BY <2>1 DEF IInv, ClosedInOrder
  <2>2. CASE e # d /\ status'[e] = status[e]
    BY <1>1, <2>2 DEF IInv, ClosedInOrder
  <2>3. CASE e = d + 1 /\ d < now
    BY <1>0, <2>3 DEF IInv, TypeOK
  <2> QED
    BY <2>1, <2>2, <2>3
<1>2. ASSUME NEW e \in Days, status'[e] = "open", NEW f \in (e + 1)..Horizon
      PROVE  status'[f] \in {"none", "open"}
  <2>1. f \in Days /\ f > e /\ e # d
    BY <1>0, <1>2, OrdersAssumption DEF Days
  <2>2. CASE f = d
    <3>1. e \in 0..(d - 1)
      BY <1>0, <2>1, <2>2 DEF Days
    <3>2. status[e] # "open"
      BY <3>1 DEF ClosesInOrder
    <3> QED
      BY <1>0, <1>2, <2>1, <2>2, <3>2
  <2>3. CASE f # d
    <3>1. status[e] = "open" => status[f] \in {"none", "open"}
      BY DEF IInv, ClosedInOrder
    <3>2. CASE status[e] = "open"
      BY <2>1, <2>3, <3>1, <3>2
    <3>3. CASE status[e] # "open"
      <4>1. e = d + 1
        BY <1>2, <2>1, <3>3
      <4>2. f \in (d + 1)..Horizon
        BY <1>0, <2>1, <4>1 DEF Days
      <4>3. status[f] \in {"none", "open"}
        BY <4>2 DEF IInv, ClosedInOrder
      <4> QED
        BY <2>1, <2>3, <4>3
    <3> QED
      BY <3>2, <3>3
  <2> QED
    BY <2>2, <2>3
<1> QED
  BY <1>1, <1>2 DEF ClosedInOrder

LEMMA CloseAndLockInv ==
    ASSUME IInv, TypeOK', OrdersHaveOneRange', ClosesInOrder, NEW d \in Days, CloseAndLock(d) PROVE IInv'
<1>1. /\ status[d] = "open" /\ now > d
      /\ paidCount' = [paidCount EXCEPT ![d] = Cardinality(Eligible(d))]
      /\ gross' = [gross EXCEPT ![d] = Cardinality(Direct(d))]
      /\ status' = [status EXCEPT ![d] = "locked"]
      /\ UNCHANGED <<now, previous, carryIn, ledger, snapshot, winner>>
  BY DEF CloseAndLock, Due, StoreTotals, WinnerPool, ticketVars, drawVars
<1>2. status'[d] = "locked" /\ \A e \in Days : e # d => status'[e] = status[e]
  BY <1>1 DEF IInv, TypeOK
<1>3. \A e \in Days : Direct(e)' = Direct(e) /\ Eligible(e)' = Eligible(e)
  <2>1. \A e \in Days : status'[e] = "rolled_over" <=> status[e] = "rolled_over"
    BY <1>1, <1>2
  <2> QED
    BY <1>1, <2>1, QuietChains, QuietTickets
<1>4. gross' = gross
  <2>1. gross[d] = Cardinality(Direct(d))
    BY DEF IInv, PoolsAddUp
  <2> QED
    BY <1>1, <2>1 DEF IInv, TypeOK
<1>5. ClosedInOrder'
  BY <1>1, <1>2, ClosingKeepsOrder
<1>6. LinksAreRollOvers'
  <2>1. \A e \in Days : e > 0 => e - 1 \in Days
    BY OrdersAssumption DEF Days
  <2> QED
    BY <1>1, <1>2, <2>1 DEF IInv, LinksAreRollOvers
<1>7. NoRowIsEmpty'
  BY <1>1, <1>2, <1>3, <1>4 DEF IInv, NoRowIsEmpty
<1>8. PoolsAddUp'
  BY <1>1, <1>3, <1>4 DEF IInv, PoolsAddUp
<1>9. DrawsFollowStatus'
  BY <1>1, <1>2 DEF IInv, DrawsFollowStatus
<1>10. SnapshotIsFaithful'
  BY <1>1, <1>3 DEF IInv, SnapshotIsFaithful
<1>11. CountsAreFinal'
  <2>1. /\ paidCount'[d] = Cardinality(Eligible(d)) /\ Cardinality(Eligible(d)) >= MinPaid
        /\ \A e \in Days : e # d => paidCount'[e] = paidCount[e]
    BY <1>1 DEF IInv, TypeOK, CloseAndLock, Filled
  <2> QED
    BY <1>2, <1>3, <2>1 DEF IInv, CountsAreFinal
<1> QED
  BY <1>5, <1>6, <1>7, <1>8, <1>9, <1>10, <1>11 DEF IInv

\* Rolling a round over adds it, and all that was carried into it, to the
\* chain of the next day, and touches no other chain.
LEMMA RolledOverChains ==
    ASSUME IInv, NEW d \in Days, CloseAndRollOver(d)
    PROVE  /\ d + 1 \in Days /\ status[d + 1] \in {"none", "open"}
           /\ Chain(d + 1) = {d + 1} /\ Chain(d + 1)' = Chain(d) \cup {d + 1}
           /\ \A e \in Days : e # d + 1 => Chain(e)' = Chain(e)
<1>1. /\ status[d] = "open" /\ now > d
      /\ status' = [Opened(d + 1) EXCEPT ![d] = "rolled_over"]
      /\ previous' = [previous EXCEPT ![d + 1] = d]
  BY DEF CloseAndRollOver, Due, Linked
<1>2. d \in Nat /\ now \in 0..Horizon /\ Horizon \in Nat
  BY OrdersAssumption DEF IInv, TypeOK, Days
<1>3. d + 1 \in Days /\ d + 1 \in (d + 1)..Horizon
  BY <1>1, <1>2 DEF Days
<1>4. status[d + 1] \in {"none", "open"}
  BY <1>1, <1>3 DEF IInv, ClosedInOrder
<1>5. /\ status'[d] = "rolled_over" /\ status'[d + 1] = "open"
      /\ \A e \in Days : e # d /\ e # d + 1 => status'[e] = status[e]
  <2>1. Opened(d + 1) \in [Days -> RoundStatus]
    BY OpenedType DEF IInv
  <2>2. Opened(d + 1)[d + 1] = "open"
    BY <1>3, <1>4 DEF IInv, TypeOK, Opened
  <2>3. \A e \in Days : e # d + 1 => Opened(d + 1)[e] = status[e]
    BY DEF IInv, TypeOK, Opened
  <2> QED
    BY <1>1, <1>2, <1>3, <2>1, <2>2, <2>3
<1>6. previous'[d + 1] = d /\ \A e \in Days : e # d + 1 => previous'[e] = previous[e]
  BY <1>1, <1>3 DEF IInv, TypeOK
<1>7. Link(d)' /\ ~Link(d) /\ ~Link(d + 1) /\ ~Link(d + 1)'
  BY <1>1, <1>4, <1>5, <1>6 DEF Link
<1>8. \A k \in Days : k + 1 \in Days /\ k # d => (Link(k)' <=> Link(k))
  <2>1. \A k \in Days : k # d => k + 1 # d + 1
    BY OrdersAssumption DEF Days
  <2> QED
    BY <1>4, <1>5, <1>6, <2>1 DEF Link
<1>9. Chain(d)' = Chain(d)
  <2>1. \A k \in 0..(d - 1) : k \in Days /\ k + 1 \in Days /\ k # d
    BY <1>2, <1>3 DEF Days
  <2> QED
    BY <1>8, <2>1, SameChain
<1>10. Chain(d + 1) = {d + 1}
  <2>1. \A e \in 0..(d + 1) : e # d + 1 => d \in e..((d + 1) - 1)
    BY <1>2
  <2>2. \A e \in Chain(d + 1) : e = d + 1
    BY <1>7, <2>1 DEF Chain
  <2> QED
    BY <1>3, <2>2, ChainFacts
<1>11. Chain(d + 1)' = Chain(d)' \cup {d + 1}
  <2>1. 0..(d + 1) = (0..d) \cup {d + 1}
    BY <1>2
  <2>2. \A e \in 0..d : e..((d + 1) - 1) = (e..(d - 1)) \cup {d}
    BY <1>2
  <2>3. (d + 1)..((d + 1) - 1) = {} /\ d + 1 \notin 0..d
    BY <1>2
  <2>4. Chain(d + 1)' = {e \in 0..(d + 1) : \A k \in e..((d + 1) - 1) : Link(k)'}
    BY DEF Chain
  <2>5. Chain(d)' = {e \in 0..d : \A k \in e..(d - 1) : Link(k)'}
    BY DEF Chain
  <2>6. \A e \in 0..d : (\A k \in e..((d + 1) - 1) : Link(k)') <=> (\A k \in e..(d - 1) : Link(k)')
    BY <1>7, <2>2
  <2> QED
    BY <2>1, <2>3, <2>4, <2>5, <2>6
<1>12. ASSUME NEW e \in Days, e # d + 1 PROVE Chain(e)' = Chain(e)
  <2>1. e \in 0..Horizon
    BY DEF Days
  <2>2. CASE e <= d
    <3>1. \A k \in 0..(e - 1) : k \in Days /\ k + 1 \in Days /\ k # d
      BY <1>2, <2>1, <2>2 DEF Days
    <3> QED
      BY <1>8, <3>1, SameChain
  <2>3. CASE e > d + 1
    <3>1. \A x \in 0..e : x <= d + 1 => d + 1 \in x..(e - 1)
      BY <1>2, <2>1, <2>3
    <3>2. \A x \in 0..e : ~(x <= d + 1) =>
             \A k \in x..(e - 1) : k \in Days /\ k + 1 \in Days /\ k # d
      BY <1>2, <2>1, <2>3 DEF Days
    <3>3. \A x \in 0..e : (\A k \in x..(e - 1) : Link(k)') <=> (\A k \in x..(e - 1) : Link(k))
      <4> SUFFICES ASSUME NEW x \in 0..e
                   PROVE  (\A k \in x..(e - 1) : Link(k)') <=> (\A k \in x..(e - 1) : Link(k))
        OBVIOUS
      <4>1. CASE x <= d + 1
        BY <1>7, <3>1, <4>1
      <4>2. CASE ~(x <= d + 1)
        BY <1>8, <3>2, <4>2
      <4> QED
        BY <4>1, <4>2
    <3>4. Chain(e)' = {x \in 0..e : \A k \in x..(e - 1) : Link(k)'}
      BY DEF Chain
    <3> QED
      BY <3>3, <3>4 DEF Chain
  <2> QED
    BY <1>2, <1>12, <2>1, <2>2, <2>3
<1> QED
  BY <1>3, <1>4, <1>9, <1>10, <1>11, <1>12

LEMMA CloseAndRollOverInv ==
    ASSUME IInv, TypeOK', OrdersHaveOneRange', ClosesInOrder, NEW d \in Days, CloseAndRollOver(d) PROVE IInv'
<1> DEFINE s == d + 1
<1>1. /\ status[d] = "open" /\ now > d
      /\ status' = [Opened(s) EXCEPT ![d] = "rolled_over"]
      /\ previous' = [previous EXCEPT ![s] = d]
      /\ carryIn' = [carryIn EXCEPT ![s] = Cardinality(Direct(d)) + carryIn[d]]
      /\ paidCount' = [paidCount EXCEPT ![d] = Cardinality(Eligible(d))]
      /\ gross' = [gross EXCEPT ![d] = Cardinality(Direct(d))]
      /\ UNCHANGED <<now, ledger, snapshot, winner>>
  BY DEF CloseAndRollOver, Due, Linked, Carried, WinnerPool, StoreTotals, ticketVars, drawVars
<1>2. /\ s \in Days /\ status[s] \in {"none", "open"}
      /\ Chain(s) = {s} /\ Chain(s)' = Chain(d) \cup {s}
      /\ \A e \in Days : e # s => Chain(e)' = Chain(e)
  BY RolledOverChains
<1>3. d \in Int /\ d # s /\ d < now /\ now \in Int /\ s <= now
  BY <1>1, OrdersAssumption DEF IInv, TypeOK, Days
<1>4. /\ status'[d] = "rolled_over" /\ status'[s] = "open"
      /\ \A e \in Days : e # d /\ e # s => status'[e] = status[e]
  <2>1. Opened(s) \in [Days -> RoundStatus]
    BY OpenedType DEF IInv
  <2>2. Opened(s)[s] = "open"
    BY <1>2 DEF IInv, TypeOK, Opened
  <2>3. \A e \in Days : e # s => Opened(s)[e] = status[e]
    BY DEF IInv, TypeOK, Opened
  <2> QED
    BY <1>1, <1>2, <1>3, <2>1, <2>2, <2>3
<1>5. \A e \in Days : Direct(e)' = Direct(e) /\ (e # s => Eligible(e)' = Eligible(e))
  BY <1>1, <1>2 DEF Direct, Eligible
<1>6. Eligible(s)' = Eligible(d) \cup Direct(s) /\ Eligible(d) \cap Direct(s) = {}
  <2>1. s \notin Chain(d)
    BY <1>3, ChainFacts
  <2> QED
    BY <1>1, <1>2, <2>1 DEF Direct, Eligible
<1>7. gross' = gross
  <2>1. gross[d] = Cardinality(Direct(d))
    BY DEF IInv, PoolsAddUp
  <2> QED
    BY <1>1, <2>1 DEF IInv, TypeOK
<1>8. carryIn'[s] = Cardinality(Eligible(d)) /\ \A e \in Days : e # s => carryIn'[e] = carryIn[e]
  <2>1. Cardinality(Direct(d)) + carryIn[d] = Cardinality(Eligible(d))
    BY DEF IInv, PoolsAddUp
  <2> QED
    BY <1>1, <1>2, <2>1 DEF IInv, TypeOK
<1>9. previous'[s] = d /\ \A e \in Days : e # s => previous'[e] = previous[e]
  BY <1>1, <1>2 DEF IInv, TypeOK
<1> HIDE DEF s
<1>10. s = d + 1
  BY DEF s
<1>11. ClosedInOrder'
  <2>1. \A e \in Days : e # d => \/ status'[e] = status[e]
                                 \/ (status'[e] = "open" /\ e = d + 1 /\ d < now)
    BY <1>3, <1>4, <1>10
  <2> QED
    BY <1>1, <1>4, <2>1, ClosingKeepsOrder
<1>12. LinksAreRollOvers'
  <2>1. ASSUME NEW e \in Days, previous'[e] # NoRound
        PROVE  e > 0 /\ previous'[e] = e - 1 /\ status'[e - 1] = "rolled_over"
    <3>1. CASE e = s
      <4>1. e > 0 /\ e - 1 = d
        BY <1>10, <3>1, OrdersAssumption DEF Days
      <4> QED
        BY <1>4, <1>9, <3>1, <4>1
    <3>2. CASE e # s
      <4>1. e > 0 /\ previous[e] = e - 1 /\ status[e - 1] = "rolled_over"
        BY <1>9, <2>1, <3>2 DEF IInv, LinksAreRollOvers
      <4>2. e - 1 \in Days
        BY <4>1, OrdersAssumption DEF Days
      <4>3. e - 1 # d /\ e - 1 # s
        BY <1>1, <1>2, <4>1
      <4> QED
        BY <1>4, <1>9, <3>2, <4>1, <4>2, <4>3
    <3> QED
      BY <3>1, <3>2
  <2>2. ASSUME NEW e \in Days, status'[e] = "rolled_over"
        PROVE  e < now' /\ previous'[e + 1] = e
    <3>1. CASE e = d
      BY <1>1, <1>3, <1>9, <1>10, <3>1
    <3>2. CASE e # d
      <4>1. e # s /\ status[e] = "rolled_over"
        BY <1>4, <2>2, <3>2
      <4>2. e < now /\ previous[e + 1] = e
        BY <4>1 DEF IInv, LinksAreRollOvers
      <4>3. e + 1 \in Days /\ e + 1 # s
        BY <1>3, <1>10, <3>2, <4>2, OrdersAssumption DEF Days, IInv, TypeOK
      <4> QED
        BY <1>1, <1>9, <4>2, <4>3
    <3> QED
      BY <3>1, <3>2
  <2> QED
    BY <2>1, <2>2 DEF LinksAreRollOvers
<1>13. NoRowIsEmpty'
  <2>1. \A e \in Days : status'[e] = "none" => e # s /\ status[e] = "none"
    BY <1>4
  <2> QED
    BY <1>5, <1>7, <1>8, <1>9, <2>1 DEF IInv, NoRowIsEmpty
<1>14. PoolsAddUp'
  <2>1. ASSUME NEW e \in Days
        PROVE  gross'[e] = Cardinality(Direct(e)')
    BY <1>5, <1>7 DEF IInv, PoolsAddUp
  <2>2. ASSUME NEW e \in Days, e # s
        PROVE  gross'[e] + carryIn'[e] = Cardinality(Eligible(e)')
    BY <1>5, <1>7, <1>8, <2>2 DEF IInv, PoolsAddUp
  <2>3. gross'[s] + carryIn'[s] = Cardinality(Eligible(s)')
    <3>1. IsFiniteSet(Eligible(d)) /\ IsFiniteSet(Direct(s))
      BY CountsAreNumbers DEF IInv
    <3>2. /\ Cardinality(Eligible(s)') = Cardinality(Eligible(d)) + Cardinality(Direct(s))
          /\ Cardinality(Eligible(d)) \in Nat /\ Cardinality(Direct(s)) \in Nat
      BY <1>6, <3>1, DisjointCount
    <3>3. gross[s] = Cardinality(Direct(s))
      BY <1>2 DEF IInv, PoolsAddUp
    <3> QED
      BY <1>7, <1>8, <3>2, <3>3
  <2> QED
    BY <2>1, <2>2, <2>3 DEF PoolsAddUp
<1>15. \A e \in Days : status'[e] \notin {"open", "rolled_over"} =>
          e # d /\ e # s /\ status'[e] = status[e]
  BY <1>4
<1>16. DrawsFollowStatus'
  BY <1>1, <1>2, <1>4 DEF IInv, DrawsFollowStatus
<1>17. SnapshotIsFaithful'
  <2>1. snapshot[s] = NoSnapshot
    BY <1>2 DEF IInv, DrawsFollowStatus
  <2> QED
    BY <1>1, <1>5, <2>1 DEF IInv, SnapshotIsFaithful
<1>18. CountsAreFinal'
  <2>1. \A e \in Days : e # d => paidCount'[e] = paidCount[e]
    BY <1>1 DEF IInv, TypeOK
  <2> QED
    BY <1>5, <1>15, <2>1 DEF IInv, CountsAreFinal, Counted
<1> QED
  BY <1>11, <1>12, <1>13, <1>14, <1>16, <1>17, <1>18 DEF IInv

\* The two steps of the draw: only the status of one closed round changes.
LEMMA DrawingKeepsRounds ==
    ASSUME IInv, NEW d \in Days, NEW v \in {"waiting_for_randomness", "winner_selected"},
           status[d] \in {"locked", "waiting_for_randomness"},
           status' = [status EXCEPT ![d] = v],
           UNCHANGED <<now, previous, carryIn, gross, ledger>>
    PROVE  /\ status'[d] = v /\ \A e \in Days : e # d => status'[e] = status[e]
           /\ \A e \in Days : Direct(e)' = Direct(e) /\ Eligible(e)' = Eligible(e)
           /\ LinksAreRollOvers' /\ ClosedInOrder' /\ NoRowIsEmpty' /\ PoolsAddUp'
<1>1. status'[d] = v /\ \A e \in Days : e # d => status'[e] = status[e]
  BY DEF IInv, TypeOK
<1>2. \A e \in Days : Direct(e)' = Direct(e) /\ Eligible(e)' = Eligible(e)
  <2>1. \A e \in Days : status'[e] = "rolled_over" <=> status[e] = "rolled_over"
    BY <1>1
  <2> QED
    BY <2>1, QuietChains, QuietTickets
<1>3. LinksAreRollOvers'
  <2>1. \A e \in Days : e > 0 => e - 1 \in Days
    BY OrdersAssumption DEF Days
  <2> QED
    BY <1>1, <2>1 DEF IInv, LinksAreRollOvers
<1>4. ClosedInOrder'
  <2>1. \A e \in Days : \A f \in (e + 1)..Horizon : f \in Days
    BY OrdersAssumption DEF Days
  <2>2. \A e \in Days : status'[e] # "none" => e <= now'
    BY <1>1 DEF IInv, ClosedInOrder
  <2>3. ASSUME NEW e \in Days, status'[e] = "open", NEW f \in (e + 1)..Horizon
        PROVE  status'[f] \in {"none", "open"}
    <3>1. status[e] = "open"
      BY <1>1, <2>3
    <3>2. f \in Days /\ status[f] \in {"none", "open"}
      BY <2>1, <3>1 DEF IInv, ClosedInOrder
    <3> QED
      BY <1>1, <3>2
  <2> QED
    BY <2>2, <2>3 DEF ClosedInOrder
<1>5. NoRowIsEmpty'
  BY <1>1, <1>2 DEF IInv, NoRowIsEmpty
<1>6. PoolsAddUp'
  BY <1>2 DEF IInv, PoolsAddUp
<1> QED
  BY <1>1, <1>2, <1>3, <1>4, <1>5, <1>6

LEMMA CreateSnapshotInv ==
    ASSUME IInv, TypeOK', OrdersHaveOneRange', NEW d \in Days, CreateSnapshot(d) PROVE IInv'
<1>1. /\ snapshot[d] = NoSnapshot /\ status[d] = "locked"
      /\ paidCount[d] >= MinPaid /\ Cardinality(Eligible(d)) = paidCount[d]
      /\ snapshot' = [snapshot EXCEPT ![d] = [tickets |-> Eligible(d),
                                              prize |-> gross[d] + carryIn[d]]]
      /\ status' = [status EXCEPT ![d] = "waiting_for_randomness"]
      /\ UNCHANGED <<now, previous, carryIn, gross, paidCount, ledger, winner>>
  BY DEF CreateSnapshot, Prize, ticketVars
<1>2. /\ status'[d] = "waiting_for_randomness"
      /\ \A e \in Days : e # d => status'[e] = status[e]
      /\ \A e \in Days : Direct(e)' = Direct(e) /\ Eligible(e)' = Eligible(e)
      /\ LinksAreRollOvers' /\ ClosedInOrder' /\ NoRowIsEmpty' /\ PoolsAddUp'
  BY <1>1, DrawingKeepsRounds
<1>3. gross[d] + carryIn[d] = Cardinality(Eligible(d))
  BY DEF IInv, PoolsAddUp
<1>4. /\ snapshot'[d] = [tickets |-> Eligible(d), prize |-> Cardinality(Eligible(d))]
      /\ \A e \in Days : e # d => snapshot'[e] = snapshot[e]
  BY <1>1, <1>3 DEF IInv, TypeOK
<1>5. snapshot'[d] # NoSnapshot
  <2>1. Eligible(d) \in SUBSET Nat /\ Cardinality(Eligible(d)) \in Nat
    <3>1. Eligible(d) \subseteq DOMAIN ledger /\ Cardinality(Eligible(d)) \in Nat
      BY CountsAreNumbers DEF IInv
    <3>2. DOMAIN ledger = 1..(nextTicket - 1) /\ nextTicket \in Nat
      BY DEF IInv, TypeOK
    <3> QED
      BY <3>1, <3>2
  <2>2. snapshot'[d] \in [tickets : SUBSET Nat, prize : Nat]
    BY <1>4, <2>1
  <2> QED
    BY <2>2, NamesAssumption
<1>6. DrawsFollowStatus'
  <2>1. \A e \in Days : snapshot'[e] # NoSnapshot
               <=> status'[e] \in {"waiting_for_randomness", "winner_selected"}
    BY <1>2, <1>4, <1>5 DEF IInv, DrawsFollowStatus
  <2>2. \A e \in Days : winner'[e] # NoTicket <=> status'[e] = "winner_selected"
    BY <1>1, <1>2 DEF IInv, DrawsFollowStatus
  <2> QED
    BY <2>1, <2>2 DEF DrawsFollowStatus
<1>7. SnapshotIsFaithful'
  BY <1>2, <1>4 DEF IInv, SnapshotIsFaithful
<1>8. CountsAreFinal'
  BY <1>1, <1>2 DEF IInv, CountsAreFinal, Counted
<1> QED
  BY <1>2, <1>6, <1>7, <1>8 DEF IInv

LEMMA RecordDrawResultInv ==
    ASSUME IInv, TypeOK', OrdersHaveOneRange', NEW d \in Days, RecordDrawResult(d) PROVE IInv'
<1>1. PICK t \in snapshot[d].tickets : winner' = [winner EXCEPT ![d] = t]
  BY DEF RecordDrawResult
<1>2. /\ snapshot[d] # NoSnapshot /\ winner[d] = NoTicket
      /\ status' = [status EXCEPT ![d] = "winner_selected"]
      /\ UNCHANGED <<now, previous, carryIn, gross, paidCount, ledger, snapshot>>
  BY DEF RecordDrawResult, ticketVars
<1>3. status[d] = "waiting_for_randomness"
  BY <1>2 DEF IInv, DrawsFollowStatus
<1>4. t # NoTicket
  <2>1. snapshot[d] \in [tickets : SUBSET Nat, prize : Nat]
    BY <1>2 DEF IInv, TypeOK
  <2> QED
    BY <1>1, <2>1, NamesAssumption
<1>5. winner'[d] # NoTicket /\ \A e \in Days : e # d => winner'[e] = winner[e]
  BY <1>1, <1>4 DEF IInv, TypeOK
<1>6. /\ status'[d] = "winner_selected"
      /\ \A e \in Days : e # d => status'[e] = status[e]
      /\ \A e \in Days : Direct(e)' = Direct(e) /\ Eligible(e)' = Eligible(e)
      /\ LinksAreRollOvers' /\ ClosedInOrder' /\ NoRowIsEmpty' /\ PoolsAddUp'
  BY <1>2, <1>3, DrawingKeepsRounds
<1>7. DrawsFollowStatus'
  <2>1. \A e \in Days : snapshot'[e] # NoSnapshot
               <=> status'[e] \in {"waiting_for_randomness", "winner_selected"}
    BY <1>2, <1>3, <1>6 DEF IInv, DrawsFollowStatus
  <2>2. \A e \in Days : winner'[e] # NoTicket <=> status'[e] = "winner_selected"
    BY <1>5, <1>6 DEF IInv, DrawsFollowStatus
  <2> QED
    BY <2>1, <2>2 DEF DrawsFollowStatus
<1>8. SnapshotIsFaithful' /\ CountsAreFinal'
  BY <1>2, <1>3, <1>6 DEF IInv, SnapshotIsFaithful, CountsAreFinal, Counted
<1> QED
  BY <1>6, <1>7, <1>8 DEF IInv

LEMMA StepInv == IInv /\ [Next /\ ClosesInOrder]_vars => IInv'
<1> SUFFICES ASSUME IInv, [Next /\ ClosesInOrder]_vars PROVE IInv'
  OBVIOUS
<1>1. TypeOK' /\ OrdersHaveOneRange'
  BY StepType, StepRanges DEF IInv
<1>2. CASE Midnight
  BY <1>1, <1>2, MidnightInv
<1>3. ASSUME NEW o \in Orders, CreateOrder(o) PROVE IInv'
  BY <1>1, <1>3, CreateOrderInv
<1>4. ASSUME NEW o \in Orders, ConfirmPayment(o) PROVE IInv'
  BY <1>1, <1>4, ConfirmPaymentInv
<1>5. ASSUME NEW d \in Days, CloseAndLock(d), ClosesInOrder PROVE IInv'
  BY <1>1, <1>5, CloseAndLockInv
<1>6. ASSUME NEW d \in Days, CloseAndRollOver(d), ClosesInOrder PROVE IInv'
  BY <1>1, <1>6, CloseAndRollOverInv
<1>7. ASSUME NEW d \in Days, CreateSnapshot(d) PROVE IInv'
  BY <1>1, <1>7, CreateSnapshotInv
<1>8. ASSUME NEW d \in Days, RecordDrawResult(d) PROVE IInv'
  BY <1>1, <1>8, RecordDrawResultInv
<1>9. CASE UNCHANGED vars
  <2>1. UNCHANGED <<now, status, previous, carryIn, gross, paidCount, ledger, snapshot, winner>>
    BY <1>9 DEF vars, roundVars, ticketVars, drawVars
  <2>2. \A d \in Days : Direct(d)' = Direct(d) /\ Eligible(d)' = Eligible(d)
    BY <2>1, QuietChains, QuietTickets
  <2>3. LinksAreRollOvers' /\ ClosedInOrder'
    BY <2>1 DEF IInv, LinksAreRollOvers, ClosedInOrder
  <2>4. NoRowIsEmpty' /\ PoolsAddUp' /\ DrawsFollowStatus'
    BY <2>1, <2>2 DEF IInv, NoRowIsEmpty, PoolsAddUp, DrawsFollowStatus
  <2>5. SnapshotIsFaithful' /\ CountsAreFinal'
    BY <2>1, <2>2 DEF IInv, SnapshotIsFaithful, CountsAreFinal
  <2> QED
    BY <1>1, <2>3, <2>4, <2>5 DEF IInv
<1> QED
  BY <1>2, <1>3, <1>4, <1>5, <1>6, <1>7, <1>8, <1>9 DEF Next

\* When every day is closed before the next one, pools, counts, links and
\* snapshots agree: the invariant that the theorems below rest on.
THEOREM Consistent == PunctualSpec => []IInv
<1>1. Init => IInv
  BY InitInv
<1>2. IInv /\ [Next /\ ClosesInOrder]_vars => IInv'
  BY StepInv
<1> QED
  BY <1>1, <1>2, PTL DEF PunctualSpec

\* For every number of days and orders, the pool of an open or drawn round is
\* the money of exactly the tickets eligible in it.
THEOREM PoolsAreTicketMoney == PunctualSpec => []PoolIsTicketMoney
<1>1. IInv => PoolIsTicketMoney
  BY DEF IInv, PoolsAddUp, PoolIsTicketMoney
<1> QED
  BY <1>1, Consistent, PTL

\* For every number of days and orders, a snapshot stays what its round's
\* tickets and their money are.
THEOREM SnapshotsAreFaithful == PunctualSpec => []SnapshotIsFaithful
<1>1. IInv => SnapshotIsFaithful
  BY DEF IInv
<1> QED
  BY <1>1, Consistent, PTL

-----------------------------------------------------------------------------
(* Closed rounds.                                                          *)

\* In whatever order the rounds are closed, a payment confirmed late never
\* adds to a closed round, and no ticket moves to another one.
THEOREM LedgersFreeze == Spec => ClosedLedgerIsFrozen
<1> DEFINE Frozen == \A d \in Days : status[d] \notin {"none", "open"} => Direct(d)' = Direct(d)
<1>1. ASSUME TypeOK, [Next]_vars PROVE [Frozen]_vars
  <2>1. CASE ledger' = ledger
    BY <2>1 DEF Direct
  <2>2. ASSUME NEW o \in Orders, ConfirmPayment(o) PROVE Frozen
    <3> DEFINE R == TicketRange(o)
    <3>1. PICK d \in Days : d = IssuingRound(o)
      BY <1>1, <2>2, NamesAssumption DEF ConfirmPayment, IssuingRound, TypeOK
    <3>2. /\ Opened(d)[d] = "open"
          /\ ledger' = [t \in DOMAIN ledger \cup R |->
                          IF t \in R THEN [round |-> d, order |-> o] ELSE ledger[t]]
      BY <2>2, <3>1 DEF ConfirmPayment
    <3>3. R \cap DOMAIN ledger = {}
      BY <1>1, NewTickets
    <3> HIDE DEF R
    <3>4. /\ DOMAIN ledger' = DOMAIN ledger \cup R
          /\ \A t \in R : ledger'[t].round = d
          /\ \A t \in DOMAIN ledger : ledger'[t] = ledger[t]
      BY <3>2, <3>3
    <3>5. \A e \in Days : e # d => Direct(e)' = Direct(e)
      BY <3>4 DEF Direct
    <3>6. status[d] \in {"none", "open"}
      BY <1>1, <3>2 DEF Opened, TypeOK
    <3> QED
      BY <3>5, <3>6
  <2>3. ledger' = ledger \/ \E o \in Orders : ConfirmPayment(o)
    BY <1>1 DEF Next, Midnight, CreateOrder, CloseAndLock, CloseAndRollOver,
                CreateSnapshot, RecordDrawResult, ticketVars, vars
  <2> QED
    BY <2>1, <2>2, <2>3
<1>2. TypeOK /\ [Next]_vars => [Frozen]_vars
  BY <1>1
<1> QED
  BY <1>2, TypeCorrect, PTL DEF Spec, ClosedLedgerIsFrozen

-----------------------------------------------------------------------------
(* Rounds implements Lottery.                                              *)

\* Two rounds that are not rolled over share no round of their chains.
LEMMA ChainsApart ==
    ASSUME NEW d \in Days, NEW e \in Days, e < d, status[e] # "rolled_over"
    PROVE  Chain(d) \cap Chain(e) = {}
<1> SUFFICES ASSUME NEW r \in Chain(d), r \in Chain(e) PROVE FALSE
  OBVIOUS
<1>1. r \in 0..e /\ \A k \in r..(d - 1) : Link(k)
  BY DEF Chain
<1>2. e \in r..(d - 1)
  BY <1>1, OrdersAssumption DEF Days
<1> QED
  BY <1>1, <1>2 DEF Link

LEMMA EntrantsApart ==
    ASSUME NEW d \in Days, NEW e \in Days, e # d,
           status[e] # "rolled_over", status[d] # "rolled_over"
    PROVE  Eligible(d) \cap Eligible(e) = {}
<1>1. Chain(d) \cap Chain(e) = {}
  <2>1. d < e \/ e < d
    BY OrdersAssumption DEF Days
  <2> QED
    BY <2>1, ChainsApart
<1> QED
  BY <1>1 DEF Eligible

LEMMA StepKeepsPromise ==
    ASSUME IInv, [Next /\ ClosesInOrder]_vars
    PROVE  [Promise!Next]_<<DOMAIN ledger, snapshot>>
<1>1. ASSUME NEW o \in Orders, ConfirmPayment(o) PROVE Promise!Sell
  <2>1. /\ ledger' = [t \in DOMAIN ledger \cup TicketRange(o) |->
                       IF t \in TicketRange(o) THEN [round |-> IssuingRound(o), order |-> o]
                       ELSE ledger[t]]
        /\ UNCHANGED snapshot
    BY <1>1 DEF ConfirmPayment, drawVars
  <2>2. TicketRange(o) # {} /\ TicketRange(o) \cap DOMAIN ledger = {}
    BY NewTickets DEF IInv
  <2>3. DOMAIN ledger' = DOMAIN ledger \cup TicketRange(o)
    BY <2>1
  <2> QED
    BY <2>1, <2>2, <2>3 DEF Promise!Sell
<1>2. ASSUME NEW d \in Days, CreateSnapshot(d) PROVE Promise!Draw(d)
  <2>1. /\ snapshot[d] = NoSnapshot /\ status[d] = "locked"
        /\ Cardinality(Eligible(d)) >= MinPaid
        /\ snapshot' = [snapshot EXCEPT ![d] = [tickets |-> Eligible(d),
                                                prize |-> gross[d] + carryIn[d]]]
        /\ UNCHANGED ledger
    BY <1>2 DEF CreateSnapshot, Prize, ticketVars
  <2>2. gross[d] + carryIn[d] = Cardinality(Eligible(d))
    BY DEF IInv, PoolsAddUp
  <2>3. Eligible(d) \in SUBSET (DOMAIN ledger \ Promise!Drawn)
    <3>1. ASSUME NEW e \in Days, snapshot[e] # NoSnapshot
          PROVE  Eligible(d) \cap snapshot[e].tickets = {}
      <4>0. snapshot[e] = [tickets |-> Eligible(e), prize |-> Cardinality(Eligible(e))]
        BY <3>1 DEF IInv, SnapshotIsFaithful
      <4>1. snapshot[e].tickets = Eligible(e)
        BY <4>0
      <4>2. e # d /\ status[e] # "rolled_over"
        BY <2>1, <3>1 DEF IInv, DrawsFollowStatus
      <4> QED
        BY <2>1, <4>1, <4>2, EntrantsApart
    <3>2. Eligible(d) \subseteq DOMAIN ledger
      BY DEF Eligible
    <3> QED
      BY <3>1, <3>2 DEF Promise!Drawn
  <2>4. /\ snapshot' = [snapshot EXCEPT ![d] = [tickets |-> Eligible(d),
                                                prize |-> Cardinality(Eligible(d))]]
        /\ Cardinality(Eligible(d)) >= MinPaid
    BY <2>1, <2>2
  <2>5. \E S \in SUBSET (DOMAIN ledger \ Promise!Drawn) :
          /\ Cardinality(S) >= MinPaid
          /\ snapshot' = [snapshot EXCEPT ![d] = [tickets |-> S, prize |-> Cardinality(S)]]
    BY <2>3, <2>4
  <2>6. snapshot[d] = NoSnapshot /\ UNCHANGED (DOMAIN ledger)
    BY <2>1
  <2> QED
    BY <2>5, <2>6 DEF Promise!Draw, Promise!Cardinality, Cardinality
<1>3. CASE UNCHANGED <<ledger, snapshot>>
  BY <1>3
<1>4. \/ UNCHANGED <<ledger, snapshot>>
      \/ \E o \in Orders : ConfirmPayment(o)
      \/ \E d \in Days : CreateSnapshot(d)
  BY DEF Next, Midnight, CreateOrder, CloseAndLock, CloseAndRollOver,
         RecordDrawResult, ticketVars, drawVars, vars
<1> QED
  BY <1>1, <1>2, <1>3, <1>4 DEF Promise!Next

\* When every day is closed before the next one, and however payments, closes
\* and draws interleave, every ticket is drawn at most once, among enough
\* tickets, for a prize that is exactly their money.
THEOREM Refinement == PunctualSpec => KeepsPromise
<1>1. Init => Promise!Init
  <2> SUFFICES ASSUME Init PROVE Promise!Init
    OBVIOUS
  <2>1. ledger = [t \in 1..0 |-> [round |-> 0, order |-> CHOOSE o \in Orders : TRUE]]
    BY DEF Init
  <2>2. DOMAIN ledger = {}
    BY <2>1
  <2> QED
    BY <2>2 DEF Init, Promise!Init
<1>2. IInv /\ [Next /\ ClosesInOrder]_vars => [Promise!Next]_<<DOMAIN ledger, snapshot>>
  BY StepKeepsPromise
<1> QED
  BY <1>1, <1>2, Consistent, PTL DEF PunctualSpec, KeepsPromise, Promise!Spec

-----------------------------------------------------------------------------
(* Every ticket counts in exactly one round.                               *)

NoneIsStranded == \A t \in DOMAIN ledger : \E d \in Days : Live(d) /\ t \in Eligible(d)

\* Steps that issue no ticket and roll no round over.
LEMMA QuietRoundsKeepTickets ==
    ASSUME NoneIsStranded, ledger' = ledger, previous' = previous,
           \A k \in Days : status'[k] = "rolled_over" <=> status[k] = "rolled_over",
           \A k \in Days : status[k] # "none" => status'[k] # "none"
    PROVE  NoneIsStranded'
<1>1. ASSUME NEW d \in Days, Live(d)
      PROVE  Live(d)' /\ Eligible(d)' = Eligible(d)
  <2>1. Eligible(d)' = Eligible(d)
    BY QuietChains, QuietTickets
  <2> QED
    BY <1>1, <2>1 DEF Live
<1> QED
  BY <1>1 DEF NoneIsStranded

\* The tickets of a payment count in the round that issues them.
LEMMA IssuedTicketsCount ==
    ASSUME IInv, NoneIsStranded, NEW o \in Orders, ConfirmPayment(o)
    PROVE  NoneIsStranded'
<1>0. PICK d \in Days : d = IssuingRound(o)
  BY DEF IInv, TypeOK, IssuingRound, ConfirmPayment
<1>1. /\ status' = Opened(d) /\ status'[d] = "open"
      /\ Eligible(d)' = Eligible(d) \cup TicketRange(o)
      /\ \A e \in Days : e # d => Eligible(e)' = Eligible(e)
  BY <1>0, IssuedTickets
<1>2. DOMAIN ledger' = DOMAIN ledger \cup TicketRange(o)
  BY DEF ConfirmPayment
<1>3. ASSUME NEW e \in Days, Live(e) PROVE Live(e)' /\ Eligible(e) \subseteq Eligible(e)'
  <2>1. CASE e = d
    BY <1>1, <2>1 DEF Live
  <2>2. CASE e # d
    BY <1>1, <1>3, <2>2 DEF Live, Opened, IInv, TypeOK
  <2> QED
    BY <2>1, <2>2
<1>4. ASSUME NEW t \in TicketRange(o) PROVE Live(d)' /\ t \in Eligible(d)'
  BY <1>1 DEF Live
<1> QED
  BY <1>2, <1>3, <1>4 DEF NoneIsStranded

\* The tickets of a round that is rolled over count in its successor.
LEMMA CarriedTicketsCount ==
    ASSUME IInv, NoneIsStranded, ClosesInOrder, NEW d \in Days, CloseAndRollOver(d)
    PROVE  NoneIsStranded'
<1>1. /\ d + 1 \in Days /\ Chain(d + 1) = {d + 1} /\ Chain(d + 1)' = Chain(d) \cup {d + 1}
      /\ \A e \in Days : e # d + 1 => Chain(e)' = Chain(e)
  BY RolledOverChains
<1>2. /\ status' = [Opened(d + 1) EXCEPT ![d] = "rolled_over"] /\ ledger' = ledger
      /\ status[d + 1] \in {"none", "open"}
  BY RolledOverChains DEF CloseAndRollOver, ticketVars
<1>3. d + 1 # d /\ status \in [Days -> RoundStatus]
  BY OrdersAssumption DEF Days, IInv, TypeOK
<1>4. Live(d + 1)' /\ Eligible(d) \subseteq Eligible(d + 1)'
      /\ Eligible(d + 1) \subseteq Eligible(d + 1)'
  BY <1>1, <1>2, <1>3 DEF Live, Opened, Eligible
<1>5. ASSUME NEW e \in Days, Live(e), e # d, e # d + 1
      PROVE  Live(e)' /\ Eligible(e)' = Eligible(e)
  BY <1>1, <1>2, <1>3, <1>5 DEF Live, Opened, Eligible
<1> QED
  BY <1>1, <1>2, <1>4, <1>5 DEF NoneIsStranded

LEMMA NoneGetsStranded ==
    ASSUME IInv, NoneIsStranded, [Next /\ ClosesInOrder]_vars
    PROVE  NoneIsStranded'
<1>1. CASE Midnight \/ UNCHANGED vars
  BY <1>1, QuietRoundsKeepTickets DEF Midnight, vars, roundVars, ticketVars
<1>2. ASSUME NEW o \in Orders, CreateOrder(o) PROVE NoneIsStranded'
  BY <1>2, QuietRoundsKeepTickets DEF CreateOrder, Opened, IInv, TypeOK
<1>3. ASSUME NEW o \in Orders, ConfirmPayment(o) PROVE NoneIsStranded'
  BY <1>3, IssuedTicketsCount
<1>4. ASSUME NEW d \in Days, CloseAndLock(d) PROVE NoneIsStranded'
  BY <1>4, QuietRoundsKeepTickets DEF CloseAndLock, Due, ticketVars, IInv, TypeOK
<1>5. ASSUME NEW d \in Days, CloseAndRollOver(d), ClosesInOrder PROVE NoneIsStranded'
  BY <1>5, CarriedTicketsCount
<1>6. ASSUME NEW d \in Days, CreateSnapshot(d) PROVE NoneIsStranded'
  BY <1>6, QuietRoundsKeepTickets DEF CreateSnapshot, ticketVars, IInv, TypeOK
<1>7. ASSUME NEW d \in Days, RecordDrawResult(d) PROVE NoneIsStranded'
  <2>1. status[d] \in {"waiting_for_randomness", "winner_selected"}
    BY <1>7 DEF RecordDrawResult, IInv, DrawsFollowStatus
  <2> QED
    BY <1>7, <2>1, QuietRoundsKeepTickets DEF RecordDrawResult, ticketVars, IInv, TypeOK
<1> QED
  BY <1>1, <1>2, <1>3, <1>4, <1>5, <1>6, <1>7 DEF Next

LEMMA CountedOnce ==
    ASSUME IInv, NoneIsStranded
    PROVE  EveryTicketCountsOnce
<1> SUFFICES ASSUME NEW t \in DOMAIN ledger
             PROVE  Cardinality({d \in Days : Live(d) /\ t \in Eligible(d)}) = 1
  BY DEF EveryTicketCountsOnce
<1>1. PICK d \in Days : Live(d) /\ t \in Eligible(d)
  BY DEF NoneIsStranded
<1>2. ASSUME NEW e \in Days, Live(e), t \in Eligible(e) PROVE e = d
  BY <1>1, <1>2, EntrantsApart DEF Live
<1>3. {e \in Days : Live(e) /\ t \in Eligible(e)} = {d}
  BY <1>1, <1>2
<1> QED
  BY <1>3, FS_Singleton

\* However late payments are confirmed and however many rounds are rolled over,
\* every ticket counts in exactly one round that is open or drawn, when every
\* day is closed before the next one.
THEOREM TicketsCountOnce == PunctualSpec => []EveryTicketCountsOnce
<1>1. Init => NoneIsStranded
  <2> SUFFICES ASSUME Init PROVE NoneIsStranded
    OBVIOUS
  <2>1. ledger = [t \in 1..0 |-> [round |-> 0, order |-> CHOOSE o \in Orders : TRUE]]
    BY DEF Init
  <2>2. DOMAIN ledger = {}
    BY <2>1
  <2> QED
    BY <2>2 DEF NoneIsStranded
<1>2. IInv /\ NoneIsStranded /\ [Next /\ ClosesInOrder]_vars => NoneIsStranded'
  BY NoneGetsStranded
<1>3. IInv /\ NoneIsStranded => EveryTicketCountsOnce
  BY CountedOnce
<1> QED
  BY <1>1, <1>2, <1>3, Consistent, PTL DEF PunctualSpec
=============================================================================
