-------------------------------- MODULE Draw --------------------------------
(***************************************************************************)
(* The arithmetic of a draw: the beacon a snapshot is committed to, the    *)
(* numbering of the tickets of a snapshot, the choice of the winning       *)
(* ticket from randomness, and the two amounts the prize is divided into.  *)
(* Times are in milliseconds, money in the token's smallest unit.  A       *)
(* 32-byte value is a number below ValueLimit; SHA-256 and the beacon's    *)
(* signature are not modelled: the values a draw looks at are given.       *)
(***************************************************************************)
EXTENDS Integers, Sequences

CONSTANTS
    GenesisTime,  \* of the drand chain: 1692803367000
    Period,       \* 3000
    ValueLimit    \* 2^256

ASSUME DrawConstants ==
    GenesisTime \in Nat /\ Period \in Nat \ {0} /\ ValueLimit \in Nat \ {0}

-----------------------------------------------------------------------------
(* The beacon.                                                             *)

\* The beacon a snapshot finalized at a time is committed to.
CommittedRound(finalizedAt) == (finalizedAt - GenesisTime) \div Period + 2
ScheduledAt(round) == GenesisTime + (round - 1) * Period

-----------------------------------------------------------------------------
(* The snapshot: entries are ledger rows in the order of their tickets.    *)

\* The ledger's ranges are as long as they say, and none overlaps another.
RangesAreSound(entries) ==
    /\ \A i \in DOMAIN entries :
          /\ entries[i].count > 0
          /\ entries[i].end - entries[i].start + 1 = entries[i].count
    /\ \A i, j \in DOMAIN entries : i < j => entries[i].end < entries[j].start

\* How many tickets the first i entries have.
TicketsUpTo(entries) ==
    LET upTo[i \in 0..Len(entries)] == IF i = 0 THEN 0 ELSE upTo[i - 1] + entries[i].count
    IN  upTo
Total(entries) == TicketsUpTo(entries)[Len(entries)]

\* The tickets are numbered from 1 on, whatever their ledger numbers are.
SnapshotRanges(entries) ==
    LET upTo == TicketsUpTo(entries)
    IN  [i \in DOMAIN entries |-> [start |-> upTo[i - 1] + 1, end |-> upTo[i]]]

\* The checks on a closed round's ledger without which it has no snapshot.
PassesChecks(entries, paidCount) ==
    entries # <<>> /\ RangesAreSound(entries) /\ Total(entries) = paidCount

\* The ranges that a ticket falls into; the code insists on one.
Holders(ranges, ticket) ==
    {i \in DOMAIN ranges : ranges[i].start <= ticket /\ ticket <= ranges[i].end}

-----------------------------------------------------------------------------
(* The winning ticket.                                                     *)

\* The end of the last complete interval.  (The mutant accepts every value.)
AcceptedLimitNone(total) == ValueLimit
AcceptedLimit(total) == ValueLimit - (ValueLimit % total)
Accepted(value, total) == value < AcceptedLimit(total)
WinningTicket(value, total) == (value % total) + 1

\* The values are the randomness itself, then its hashes with a counter; the
\* first one accepted decides.
RejectionCounter(values, total) ==
    CHOOSE n \in DOMAIN values :
        Accepted(values[n], total) /\ \A k \in DOMAIN values : k < n => ~Accepted(values[k], total)
DrawnTicket(values, total) == WinningTicket(values[RejectionCounter(values, total)], total)

-----------------------------------------------------------------------------
(* The amounts.                                                            *)

OrganizerFeeBps == 1500
BpsDenominator == 10000

WinnerAmount(basis) == (basis * (BpsDenominator - OrganizerFeeBps)) \div BpsDenominator
OrganizerFee(basis) == basis - WinnerAmount(basis)
=============================================================================
