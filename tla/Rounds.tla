------------------------------- MODULE Rounds -------------------------------
(***************************************************************************)
(* The daily rounds: orders open the round of their day, confirmed         *)
(* payments issue consecutive tickets to an open round, a round that is    *)
(* past its day is closed - locked for its draw, or rolled over into the   *)
(* round of the next day when it is underfilled - and a locked round gets  *)
(* an immutable snapshot and a winner.                                     *)
(*                                                                         *)
(* Each action is one committed transaction; all of them lock the rows of  *)
(* the rounds they change, so they are serializable.  A transaction that   *)
(* throws, or finds its work done, changes nothing and is no step.  Rounds *)
(* are named by their day: opens_at is unique, closes_at is the opens_at   *)
(* of the next day, and a successor is found by that date.  Money is       *)
(* counted in tickets, which cost one whole token each, and every ticket   *)
(* is paid: no code path issues a free one or sets an organizer fee.       *)
(***************************************************************************)
EXTENDS Integers, FiniteSets

CONSTANTS
    Orders,       \* orders that may be created
    Quantity,     \* [Orders -> Nat \ {0}]: orders.ticket_quantity
    MinPaid,      \* MIN_PAID_TICKETS_FOR_DRAW: 10 in the code
    Horizon,      \* bound: the last day
    NoRound, NoSnapshot, NoTicket

ASSUME OrdersAssumption ==
    /\ Quantity \in [Orders -> Nat \ {0}]
    /\ MinPaid \in Nat \ {0}
    /\ Horizon \in Nat

Days == 0..Horizon

ASSUME NamesAssumption ==
    /\ NoRound \notin Days
    /\ NoTicket \notin Nat
    /\ NoSnapshot \notin [tickets : SUBSET Nat, prize : Nat]

VARIABLES
    now,         \* the current UTC day
    status,      \* rounds.status; "none" while the row does not exist
    previous,    \* rounds.previous_round_id
    carryIn,     \* rounds.carry_in_amount
    gross,       \* rounds.gross_pool_amount and winner_pool_amount
    paidCount,   \* rounds.paid_ticket_count
    orderRound,  \* orders.round_id
    paid,        \* the orders that are paid
    nextTicket,  \* app_counters.next_value
    ledger,      \* ticket_ledger_entries: the round and the order of a ticket
    snapshot,    \* draw_snapshots, with their ranges
    winner       \* draw_results: the ledger ticket that won

roundVars == <<status, previous, carryIn, gross, paidCount>>
ticketVars == <<orderRound, paid, nextTicket, ledger>>
drawVars == <<snapshot, winner>>
vars == <<now, roundVars, ticketVars, drawVars>>

RoundStatus == {"none", "open", "locked", "rolled_over",
                "waiting_for_randomness", "winner_selected"}

TypeOK ==
    /\ now \in Days
    /\ status \in [Days -> RoundStatus]
    /\ previous \in [Days -> Days \cup {NoRound}]
    /\ carryIn \in [Days -> Nat]
    /\ gross \in [Days -> Nat]
    /\ paidCount \in [Days -> Nat]
    /\ orderRound \in [Orders -> Days \cup {NoRound}]
    /\ paid \subseteq {o \in Orders : orderRound[o] # NoRound}
    /\ nextTicket \in Nat \ {0}
    /\ ledger \in [1..(nextTicket - 1) -> [round : Days, order : Orders]]
    /\ snapshot \in [Days -> [tickets : SUBSET Nat, prize : Nat] \cup {NoSnapshot}]
    /\ winner \in [Days -> Nat \cup {NoTicket}]

Init ==
    /\ now = 0
    /\ status = [d \in Days |-> "none"]
    /\ previous = [d \in Days |-> NoRound]
    /\ carryIn = [d \in Days |-> 0]
    /\ gross = [d \in Days |-> 0]
    /\ paidCount = [d \in Days |-> 0]
    /\ orderRound = [o \in Orders |-> NoRound]
    /\ paid = {}
    /\ nextTicket = 1
    /\ ledger = [t \in 1..0 |-> [round |-> 0, order |-> CHOOSE o \in Orders : TRUE]]
    /\ snapshot = [d \in Days |-> NoSnapshot]
    /\ winner = [d \in Days |-> NoTicket]

-----------------------------------------------------------------------------
(* Which tickets count for a round.                                        *)

\* The tickets issued to a round itself.
Direct(d) == {t \in DOMAIN ledger : ledger[t].round = d}

\* eligibility_rounds: the round and, link by link, the rolled-over rounds
\* before it.  A link leads one day back, so the days of the recursive query
\* form an interval.
Link(d) == status[d] = "rolled_over" /\ previous[d + 1] = d
Chain(d) == {e \in 0..d : \A k \in e..(d - 1) : Link(k)}

Eligible(d) == {t \in DOMAIN ledger : ledger[t].round \in Chain(d)}

-----------------------------------------------------------------------------
(* Orders and tickets.                                                     *)

\* openRound: the row of the day, created when it is missing.
Opened(d) == [status EXCEPT ![d] = IF @ = "none" THEN "open" ELSE @]

CreateOrder(o) ==
    /\ orderRound[o] = NoRound
    /\ orderRound' = [orderRound EXCEPT ![o] = now]
    /\ status' = Opened(now)
    /\ UNCHANGED <<now, previous, carryIn, gross, paidCount, paid, nextTicket, ledger, drawVars>>

TakesTickets(d) == status[d] = "open" /\ d >= now

\* roundForTicketIssuance: its own round, or else the round of today.
IssuingRound(o) == IF TakesTickets(orderRound[o]) THEN orderRound[o] ELSE now

\* The tickets of an order, and the counter that is saved after it; the mutants
\* are off by one.
TicketRangeLate(o) == (nextTicket + 1)..(nextTicket + Quantity[o])
TicketRange(o) == nextTicket..(nextTicket + Quantity[o] - 1)
CounterAtLast(o) == nextTicket + Quantity[o] - 1
CounterAfter(o) == nextTicket + Quantity[o]

\* What confirmPayments does to one of the orders it finds; the orders of a
\* call are confirmed one after the other under the lock of the counter.
ConfirmPayment(o) ==
    /\ orderRound[o] # NoRound /\ o \notin paid
    /\ LET d == IssuingRound(o)
           range == TicketRange(o)
       IN /\ Opened(d)[d] = "open"
          /\ status' = Opened(d)
          /\ orderRound' = [orderRound EXCEPT ![o] = d]
          /\ ledger' = [t \in DOMAIN ledger \cup range |->
                          IF t \in range THEN [round |-> d, order |-> o] ELSE ledger[t]]
          /\ gross' = [gross EXCEPT ![d] = @ + Quantity[o]]
          /\ paidCount' = [paidCount EXCEPT ![d] = @ + Quantity[o]]
    /\ paid' = paid \cup {o}
    /\ nextTicket' = CounterAfter(o)
    /\ UNCHANGED <<now, previous, carryIn, drawVars>>

-----------------------------------------------------------------------------
(* Closing a round.                                                        *)

\* The winner pool is the money of the round's own tickets (the mutant counts
\* the carried ones, whose money is in carry_in_amount already).
WinnerPoolOfEligible(d) == Cardinality(Eligible(d))
WinnerPool(d) == Cardinality(Direct(d))

\* The close stores the counts it reads from the ledger.
StoreTotals(d) ==
    /\ paidCount' = [paidCount EXCEPT ![d] = Cardinality(Eligible(d))]
    /\ gross' = [gross EXCEPT ![d] = WinnerPool(d)]

Due(d) == status[d] = "open" /\ now > d

Filled(d) == Cardinality(Eligible(d)) >= MinPaid

CloseAndLock(d) ==
    /\ Due(d) /\ Filled(d)
    /\ StoreTotals(d)
    /\ status' = [status EXCEPT ![d] = "locked"]
    /\ UNCHANGED <<now, previous, carryIn, ticketVars, drawVars>>

\* The INSERT ... ON CONFLICT of the successor, and the two checks after it.
\* An existing successor is attached whatever its status is; the mutant, an
\* ON CONFLICT DO NOTHING, only takes one it creates.
AttachableIfNew(d, amount) == status[d + 1] = "none"
Attachable(d, amount) ==
    \/ previous[d + 1] = NoRound /\ carryIn[d + 1] = 0
    \/ previous[d + 1] = d /\ carryIn[d + 1] = amount

\* The successor's link back (the mutant gives it to new rows only).
LinkedIfNew(d) == [previous EXCEPT ![d + 1] = IF status[d + 1] = "none" THEN d ELSE @]
Linked(d) == [previous EXCEPT ![d + 1] = d]

\* The amount an underfilled round hands on (the mutant forgets what was
\* carried into it).
CarriedWinnerPool(d) == WinnerPool(d)
Carried(d) == WinnerPool(d) + carryIn[d]

CloseAndRollOver(d) ==
    /\ Due(d) /\ ~Filled(d)
    /\ Attachable(d, Carried(d))
    /\ StoreTotals(d)
    /\ status' = [Opened(d + 1) EXCEPT ![d] = "rolled_over"]
    /\ previous' = Linked(d)
    /\ carryIn' = [carryIn EXCEPT ![d + 1] = Carried(d)]
    /\ UNCHANGED <<now, ticketVars, drawVars>>

-----------------------------------------------------------------------------
(* The draw.                                                               *)

\* total_winner_eligible_amount (the mutant leaves out the carry).
PrizeWithoutCarry(d) == gross[d]
Prize(d) == gross[d] + carryIn[d]

CreateSnapshot(d) ==
    /\ snapshot[d] = NoSnapshot /\ status[d] = "locked"
    /\ paidCount[d] >= MinPaid
    /\ Cardinality(Eligible(d)) = paidCount[d]
    /\ snapshot' = [snapshot EXCEPT ![d] = [tickets |-> Eligible(d), prize |-> Prize(d)]]
    /\ status' = [status EXCEPT ![d] = "waiting_for_randomness"]
    /\ UNCHANGED <<now, previous, carryIn, gross, paidCount, ticketVars, winner>>

\* The verified beacon of the committed drand round picks any ticket.
RecordDrawResult(d) ==
    /\ snapshot[d] # NoSnapshot /\ winner[d] = NoTicket
    /\ \E t \in snapshot[d].tickets : winner' = [winner EXCEPT ![d] = t]
    /\ status' = [status EXCEPT ![d] = "winner_selected"]
    /\ UNCHANGED <<now, previous, carryIn, gross, paidCount, ticketVars, snapshot>>

Midnight ==
    /\ now < Horizon
    /\ now' = now + 1
    /\ UNCHANGED <<roundVars, ticketVars, drawVars>>

Next ==
    \/ Midnight
    \/ \E o \in Orders : CreateOrder(o) \/ ConfirmPayment(o)
    \/ \E d \in Days : CloseAndLock(d) \/ CloseAndRollOver(d)
                       \/ CreateSnapshot(d) \/ RecordDrawResult(d)

\* The scheduler sweeps every 15 seconds, so a day is closed long before the
\* next one is due.  This is an assumption on the environment: nothing in the
\* code enforces it when the scheduler was down, or failing, over a midnight.
ClosesInOrder ==
    \A d \in Days : status[d] = "open" /\ status'[d] # "open"
                       => \A e \in 0..(d - 1) : status[e] # "open"

\* The sweep comes back to every round that is due or not yet drawn.
Fairness == \A d \in Days :
    /\ WF_vars(CloseAndLock(d)) /\ WF_vars(CloseAndRollOver(d))
    /\ WF_vars(CreateSnapshot(d)) /\ WF_vars(RecordDrawResult(d))

Spec == Init /\ [][Next]_vars
PunctualSpec == Init /\ [][Next /\ ClosesInOrder]_vars
FairPunctualSpec == PunctualSpec /\ Fairness

-----------------------------------------------------------------------------
(* Properties.                                                             *)

Live(d) == status[d] \notin {"none", "rolled_over"}

\* The pool of a round that is open or drawn is the money of the tickets that
\* are eligible in it, however many rounds they were carried through: what
\* closeRound adds up from amounts agrees with what it counts from tickets.
PoolIsTicketMoney == \A d \in Days : Live(d) => gross[d] + carryIn[d] = Cardinality(Eligible(d))

\* Every ticket ever issued is eligible in exactly one round that is open or
\* drawn: none is stranded in a round nobody will draw, none counts twice.
EveryTicketCountsOnce ==
    \A t \in DOMAIN ledger :
        Cardinality({d \in Days : Live(d) /\ t \in Eligible(d)}) = 1

\* A snapshot still says what the tables it was made from say: the tickets
\* eligible in its round, and all of their money.
SnapshotIsFaithful ==
    \A d \in Days : snapshot[d] # NoSnapshot =>
        snapshot[d] = [tickets |-> Eligible(d), prize |-> Cardinality(Eligible(d))]

\* No late confirmation, however it races with the close, changes the tickets
\* of a round that is closed, and no ticket ever changes hands.
ClosedLedgerIsFrozen ==
    [][\A d \in Days : status[d] \notin {"none", "open"} => Direct(d)' = Direct(d)]_vars

\* Every round whose day is over is resolved: rolled over, or drawn.
EveryRoundIsResolved ==
    \A d \in Days : status[d] = "open" /\ now > d
                       ~> status[d] \in {"rolled_over", "winner_selected"}

\* The inductive invariant, under PunctualSpec.
\* A link is made by rolling a round over, and a round rolled over is linked.
LinksAreRollOvers ==
    \A d \in Days :
        /\ previous[d] # NoRound => /\ d > 0 /\ previous[d] = d - 1
                                   /\ status[d - 1] = "rolled_over"
        /\ status[d] = "rolled_over" => d < now /\ previous[d + 1] = d

\* Rounds are closed in order, and none exists before its day.
ClosedInOrder ==
    \A d \in Days :
        /\ status[d] # "none" => d <= now
        /\ status[d] = "open" => \A e \in (d + 1)..Horizon : status[e] \in {"none", "open"}

\* A day without a row has no tickets, no money and no link.
NoRowIsEmpty ==
    \A d \in Days : status[d] = "none" =>
        Direct(d) = {} /\ gross[d] = 0 /\ carryIn[d] = 0 /\ previous[d] = NoRound

\* The two halves of a pool: its own tickets, and those carried into it.
PoolsAddUp ==
    \A d \in Days : /\ gross[d] = Cardinality(Direct(d))
                    /\ gross[d] + carryIn[d] = Cardinality(Eligible(d))

DrawsFollowStatus ==
    \A d \in Days :
        /\ snapshot[d] # NoSnapshot <=> status[d] \in {"waiting_for_randomness", "winner_selected"}
        /\ winner[d] # NoTicket <=> status[d] = "winner_selected"

\* The count stored by the close stays what the ledger says, and enough.
Counted == {"locked", "waiting_for_randomness", "winner_selected"}
CountsAreFinal ==
    \A d \in Days : status[d] \in Counted =>
        paidCount[d] = Cardinality(Eligible(d)) /\ paidCount[d] >= MinPaid

\* A paid order has as many tickets as it bought, with consecutive numbers, all
\* in the round it is moved to; an order that is not paid has none.
TicketsOf(o) == {t \in DOMAIN ledger : ledger[t].order = o}
OrdersHaveOneRange ==
    \A o \in Orders :
        IF o \in paid
        THEN \E first \in DOMAIN ledger :
               /\ TicketsOf(o) = first..(first + Quantity[o] - 1)
               /\ \A t \in TicketsOf(o) : ledger[t].round = orderRound[o]
        ELSE TicketsOf(o) = {}

\* What the proofs of Rounds_proofs go by: everything above together.
IInv == /\ TypeOK /\ LinksAreRollOvers /\ ClosedInOrder /\ NoRowIsEmpty /\ PoolsAddUp
        /\ DrawsFollowStatus /\ SnapshotIsFaithful /\ CountsAreFinal
        /\ OrdersHaveOneRange

\* The rounds keep the promise of Lottery.
Promise == INSTANCE Lottery
    WITH Draws <- Days, NoDraw <- NoSnapshot, sold <- DOMAIN ledger, drawn <- snapshot
KeepsPromise == Promise!Spec
=============================================================================
