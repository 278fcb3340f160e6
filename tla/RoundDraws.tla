----------------------------- MODULE RoundDraws -----------------------------
(***************************************************************************)
(* The draws of the rounds: the arithmetic of Draw applied to the tickets  *)
(* that any sequence of payments and rollovers has brought together in a   *)
(* round of Rounds.                                                        *)
(***************************************************************************)
EXTENDS Rounds, Draw, FiniteSetsExt

\* The ledger row of an order, among some tickets.
EntryOf(order, tickets) ==
    LET own == tickets \cap TicketsOf(order)
    IN  [start |-> Min(own), end |-> Max(own), count |-> Quantity[order], order |-> order]

\* Rows in the order of their first tickets: the i-th is the one with i rows up
\* to it.
InOrder(rows) ==
    LET Rank(e) == Cardinality({f \in rows : f.start <= e.start})
    IN  [i \in 1..Cardinality(rows) |-> CHOOSE e \in rows : Rank(e) = i]

\* The rows of some tickets, one for each order that has any.
Entries(tickets) == InOrder({EntryOf(ledger[t].order, tickets) : t \in tickets})

\* The values of a beacon that draw a ticket of the i-th range.
ValuesFor(i, ranges, total) ==
    {v \in 0..(ValueLimit - 1) :
        Accepted(v, total) /\ Holders(ranges, DrawnTicket(<<v>>, total)) = {i}}

\* The draw over some rows is fair: the chance of each is exactly the number of
\* its tickets.
IsFair(entries) ==
    LET total == Total(entries)
        ranges == SnapshotRanges(entries)
    IN  \A i \in DOMAIN entries :
           Cardinality(ValuesFor(i, ranges, total)) = entries[i].count * (ValueLimit \div total)

\* A round that is locked passes the checks of its snapshot, so it is drawn; and
\* from whatever days its tickets were carried together, an order's chance in
\* the draw is exactly the number of its tickets: the ranges leave no number
\* out and share none, and no ticket is drawn by more accepted values than
\* another (postgres-repository.js:23-51, drand.js:26-44).
DrawIsFair ==
    \A d \in Days : status[d] \in Counted =>
        PassesChecks(Entries(Eligible(d)), paidCount[d]) /\ IsFair(Entries(Eligible(d)))
=============================================================================
