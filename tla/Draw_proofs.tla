----------------------------- MODULE Draw_proofs -----------------------------
(***************************************************************************)
(* What the arithmetic of a draw guarantees for every time, every number   *)
(* of tickets and every prize, and that the draws of the rounds are fair.  *)
(***************************************************************************)
EXTENDS RoundDraws, Rounds_proofs, WellFoundedInduction

-----------------------------------------------------------------------------
(* Division.                                                               *)

LEMMA DivMod ==
    ASSUME NEW a \in Nat, NEW b \in Nat \ {0}
    PROVE  /\ a \div b \in Nat /\ a % b \in Nat /\ a % b < b
           /\ a = b * (a \div b) + (a % b)
<1>1. a \div b \in Nat
    OBVIOUS
<1>2. a % b \in Nat /\ a % b < b
    OBVIOUS
<1>3. a = b * (a \div b) + (a % b)
    OBVIOUS
<1> QED
    BY <1>1, <1>2, <1>3

LEMMA DivModUnique ==
    ASSUME NEW b \in Nat \ {0}, NEW q \in Nat, NEW r \in Nat, r < b
    PROVE  (b * q + r) \div b = q /\ (b * q + r) % b = r
    BY Z3

-----------------------------------------------------------------------------
(* The beacon.                                                             *)

\* Nobody can know the committed beacon when the snapshot is finalized, not
\* even if that is exactly at a beacon: it is published strictly later
\* (drand.js:20-21), and the draw does not wait longer than one period for it.
THEOREM CommittedBeaconIsAhead ==
    ASSUME NEW t \in Nat, t >= GenesisTime
    PROVE  /\ t < ScheduledAt(CommittedRound(t))
           /\ ScheduledAt(CommittedRound(t)) <= t + Period
<1> DEFINE a == t - GenesisTime
           q == a \div Period
<1>1. a \in Nat /\ Period \in Nat \ {0} /\ GenesisTime \in Nat
    BY DrawConstants
<1>2. q \in Nat /\ a % Period \in Nat /\ a % Period < Period /\ a = Period * q + (a % Period)
    BY <1>1, DivMod
<1>3. ScheduledAt(CommittedRound(t)) = GenesisTime + (q + 1) * Period
    BY <1>1, <1>2 DEF ScheduledAt, CommittedRound
<1>4. a = t - GenesisTime
    OBVIOUS
<1> HIDE DEF a, q
<1>5. (q + 1) * Period = Period * q + Period /\ Period * q \in Nat
    BY <1>1, <1>2
<1> QED
    BY <1>1, <1>2, <1>3, <1>4, <1>5

-----------------------------------------------------------------------------
(* The winning ticket.                                                     *)

\* The limit below which values are accepted is a whole number of rounds
\* through the tickets, and some value is accepted.
LEMMA LimitIsMultiple ==
    ASSUME NEW total \in Nat \ {0}, total <= ValueLimit
    PROVE  /\ ValueLimit \div total \in Nat \ {0}
           /\ AcceptedLimit(total) = total * (ValueLimit \div total)
<1>1. /\ ValueLimit \in Nat /\ ValueLimit \div total \in Nat
      /\ ValueLimit % total \in Nat /\ ValueLimit % total < total
      /\ ValueLimit = total * (ValueLimit \div total) + (ValueLimit % total)
    BY DrawConstants, DivMod
<1>2. ValueLimit \div total # 0
    BY <1>1
<1>3. total * (ValueLimit \div total) \in Nat
    BY <1>1
<1> QED
    BY <1>1, <1>2, <1>3 DEF AcceptedLimit

\* A winning ticket is a ticket of the snapshot.
THEOREM WinningTicketExists ==
    ASSUME NEW total \in Nat \ {0}, NEW value \in Nat
    PROVE  WinningTicket(value, total) \in 1..total
    BY DivMod DEF WinningTicket

\* When there are more tickets than values, no value is accepted.
LEMMA TooManyTickets ==
    ASSUME NEW total \in Nat \ {0}, total > ValueLimit
    PROVE  ValueLimit \div total = 0 /\ AcceptedLimit(total) = 0
<1>1. ValueLimit \in Nat /\ ValueLimit < total
    BY DrawConstants
<1>2. total * 0 + ValueLimit = ValueLimit
    BY <1>1
<1>3. ValueLimit \div total = 0 /\ ValueLimit % total = ValueLimit
    BY <1>1, <1>2, DivModUnique
<1> QED
    BY <1>1, <1>3 DEF AcceptedLimit

\* The values whose ticket is one of a range of tickets: as many for each ticket
\* as there are complete intervals.
Winning(total, first, last) ==
    {v \in 0..(ValueLimit - 1) :
        Accepted(v, total) /\ WinningTicket(v, total) \in first..last}

LEMMA WinningValues ==
    ASSUME NEW total \in Nat \ {0}, NEW first \in 1..total, NEW last \in first..total
    PROVE  Cardinality(Winning(total, first, last)) = (last - first + 1) * (ValueLimit \div total)
<1> DEFINE n == ValueLimit \div total
           W == Winning(total, first, last)
           Places == (0..(n - 1)) \X (first..last)
           value == [p \in Places |-> total * p[1] + (p[2] - 1)]
<1>0. first \in Nat \ {0} /\ last \in Nat /\ last - first + 1 \in Nat /\ first <= last
    OBVIOUS
<1>1. CASE total > ValueLimit
  <2>1. n = 0 /\ AcceptedLimit(total) = 0
      BY <1>1, TooManyTickets
  <2>2. W = {}
      BY <2>1, DrawConstants DEF Winning, Accepted
  <2>3. Cardinality(W) = 0
      BY <2>2, FS_EmptySet
  <2>4. (last - first + 1) * 0 = 0
      BY <1>0
  <2> QED
      BY <2>1, <2>3, <2>4
<1>2. CASE total <= ValueLimit
  <2>1. n \in Nat \ {0} /\ AcceptedLimit(total) = total * n
      BY <1>2, LimitIsMultiple
  <2>2. AcceptedLimit(total) \in Nat /\ AcceptedLimit(total) <= ValueLimit
      BY <2>1, DrawConstants, DivMod DEF AcceptedLimit
  <2> HIDE DEF n
  <2>3. ASSUME NEW k \in 0..(n - 1), NEW t \in first..last
        PROVE  /\ <<k, t>> \in Places /\ value[<<k, t>>] = total * k + (t - 1)
               /\ value[<<k, t>>] \in Nat /\ value[<<k, t>>] < total * n
               /\ value[<<k, t>>] \div total = k /\ value[<<k, t>>] % total = t - 1
    <3>0. <<k, t>> \in Places /\ value[<<k, t>>] = total * k + (t - 1)
        OBVIOUS
    <3>1. k \in Nat /\ t - 1 \in Nat /\ t - 1 < total /\ n \in Nat /\ total \in Nat
        BY <2>1
    <3>2. value[<<k, t>>] \div total = k /\ value[<<k, t>>] % total = t - 1
        BY <3>0, <3>1, DivModUnique
    <3>3. total * k \in Nat /\ total * k + total <= total * n
      <4>1. n - (k + 1) \in Nat
          BY <2>1
      <4>2. total * n = total * k + total + total * (n - (k + 1))
          BY <3>1
      <4>3. total * (n - (k + 1)) \in Nat /\ total * k \in Nat
          BY <3>1, <4>1
      <4> QED
          BY <3>1, <4>2, <4>3
    <3>4. total * k + (t - 1) \in Nat /\ total * k + (t - 1) < total * n
        BY <3>1, <3>3
    <3> QED
        BY <3>0, <3>2, <3>4
  <2>4. ASSUME NEW p \in Places
        PROVE  p[1] \in 0..(n - 1) /\ p[2] \in first..last /\ p = <<p[1], p[2]>>
      OBVIOUS
  <2> HIDE DEF value
  <2>5. value \in [Places -> W]
    <3>1. ASSUME NEW p \in Places
          PROVE  value[p] \in W
      <4>1. value[p] < AcceptedLimit(total) /\ value[p] \in Nat /\ value[p] % total = p[2] - 1
          BY <2>1, <2>3, <2>4
      <4>2. value[p] \in 0..(ValueLimit - 1)
          BY <4>1, <2>2, DrawConstants
      <4>3. WinningTicket(value[p], total) = p[2]
          BY <2>4, <4>1 DEF WinningTicket
      <4> QED
          BY <2>4, <4>1, <4>2, <4>3 DEF Winning, Accepted
    <3> QED
        BY <3>1 DEF value
  <2>6. ASSUME NEW p \in Places, NEW q \in Places, value[p] = value[q]
        PROVE  p = q
    <3>1. p[1] = q[1]
        BY <2>3, <2>4, <2>6
    <3>2. p[2] - 1 = q[2] - 1
        BY <2>3, <2>4, <2>6
    <3>3. p[2] = q[2]
        BY <2>4, <3>2
    <3> QED
        BY <2>4, <3>1, <3>3
  <2>7. ASSUME NEW v \in W
        PROVE  \E p \in Places : value[p] = v
    <3>1. /\ v \in Nat /\ v < total * n /\ (v % total) + 1 \in first..last
        BY <2>1, DrawConstants DEF Winning, Accepted, WinningTicket
    <3>2. v \div total \in Nat /\ v = total * (v \div total) + (v % total) /\ v % total \in Nat
        BY <3>1, DivMod
    <3>3. v \div total < n
      <4> SUFFICES ASSUME v \div total >= n
                   PROVE  FALSE
          BY <2>1, <3>2
      <4>1. v \div total - n \in Nat
          BY <2>1, <3>2
      <4>2. total * (v \div total) = total * n + total * (v \div total - n)
          BY <2>1, <3>2
      <4>3. total * (v \div total - n) \in Nat /\ total * n \in Nat
          BY <2>1, <4>1
      <4> QED
          BY <3>1, <3>2, <4>2, <4>3
    <3>4. v \div total \in 0..(n - 1)
        BY <2>1, <3>2, <3>3
    <3>5. PICK k \in 0..(n - 1), t \in first..last :
              k = v \div total /\ t = (v % total) + 1
        BY <3>1, <3>4
    <3>6. v = total * k + (t - 1)
        BY <3>2, <3>5
    <3> QED
        BY <2>3, <3>6
  <2>8. value \in Bijection(Places, W)
      BY <2>5, <2>6, <2>7 DEF Bijection, Injection, Surjection, IsInjective
  <2>9. /\ IsFiniteSet(0..(n - 1)) /\ Cardinality(0..(n - 1)) = n
        /\ IsFiniteSet(first..last) /\ Cardinality(first..last) = last - first + 1
    <3>1. 0 \in Int /\ n - 1 \in Int /\ ~(0 > n - 1) /\ (n - 1) - 0 + 1 = n
        BY <2>1
    <3>2. first \in Int /\ last \in Int /\ ~(first > last)
        BY <1>0
    <3> QED
        BY <3>1, <3>2, FS_Interval
  <2>10. IsFiniteSet(Places) /\ Cardinality(Places) = n * (last - first + 1)
    <3>1. PICK A, B : A = 0..(n - 1) /\ B = first..last
        OBVIOUS
    <3>2. IsFiniteSet(A) /\ IsFiniteSet(B)
        BY <2>9, <3>1
    <3>3. IsFiniteSet(A \X B) /\ Cardinality(A \X B) = Cardinality(A) * Cardinality(B)
        BY <3>2, FS_Product
    <3> QED
        BY <2>9, <3>1, <3>3
  <2>11. Cardinality(W) = n * (last - first + 1)
      BY <2>8, <2>10, FS_Bijection DEF ExistsBijection
  <2>12. n * (last - first + 1) = (last - first + 1) * n
      BY <1>0, <2>1
  <2> QED
      BY <2>11, <2>12 DEF n
<1> QED
    BY <1>1, <1>2, DrawConstants

\* Rejecting the last incomplete interval makes the draw fair (drand.js:31-33):
\* each ticket wins with exactly as many of the accepted values as any other.
THEOREM EveryTicketIsEquallyLikely ==
    ASSUME NEW total \in Nat \ {0}, NEW ticket \in 1..total
    PROVE  Cardinality({v \in 0..(ValueLimit - 1) :
                           Accepted(v, total) /\ WinningTicket(v, total) = ticket})
             = ValueLimit \div total
<1>1. ticket \in ticket..total /\ ticket..ticket = {ticket} /\ ticket - ticket + 1 = 1
    OBVIOUS
<1>2. Cardinality(Winning(total, ticket, ticket)) = (ticket - ticket + 1) * (ValueLimit \div total)
    BY <1>1, WinningValues
<1>3. ValueLimit \div total \in Nat
    BY DrawConstants, DivMod
<1>4. 1 * (ValueLimit \div total) = ValueLimit \div total
    BY <1>3
<1>5. Winning(total, ticket, ticket)
        = {v \in 0..(ValueLimit - 1) : Accepted(v, total) /\ WinningTicket(v, total) = ticket}
    BY <1>1 DEF Winning
<1> QED
    BY <1>1, <1>2, <1>4, <1>5

-----------------------------------------------------------------------------
(* The ranges of a snapshot.                                               *)

\* A set of numbers has a least one.
LEMMA LeastNatural ==
    ASSUME NEW S, S \subseteq Nat, S # {}
    PROVE  \E x \in S : \A y \in S : x <= y
<1> DEFINE R == OpToRel(<, Nat)
<1>1. IsWellFoundedOn(R, Nat)
    BY NatLessThanWellFounded
<1>2. \A x, y \in Nat : x < y => <<x, y>> \in R
    BY DEF OpToRel
<1> HIDE DEF R
<1>3. PICK x \in S : \A y \in S : ~ (<<y, x>> \in R)
    BY <1>1, WFMin
<1>4. ASSUME NEW y \in S
      PROVE  x <= y
  <2>1. x \in Nat /\ y \in Nat
      OBVIOUS
  <2>2. ~ (y < x)
      BY <1>2, <1>3, <2>1
  <2> QED
      BY <2>1, <2>2
<1> QED
    BY <1>4

Row == [start : Nat, end : Nat, count : Nat, order : Orders]

\* The ledger numbers of the first rows, and how many they are.
Numbers(entries, i) == UNION {entries[j].start..entries[j].end : j \in 1..i}
Below(entries, i) == Cardinality(Numbers(entries, i))

LEMMA RowFacts ==
    ASSUME NEW entries \in Seq(Row), RangesAreSound(entries)
    PROVE  /\ Len(entries) \in Nat /\ DOMAIN entries = 1..Len(entries)
           /\ \A i \in 1..Len(entries) :
                 /\ entries[i].start \in Nat /\ entries[i].end \in Nat
                 /\ entries[i].count \in Nat \ {0}
                 /\ entries[i].start <= entries[i].end
                 /\ entries[i].end - entries[i].start + 1 = entries[i].count
           /\ \A i, j \in 1..Len(entries) : i < j => entries[i].end < entries[j].start
<1>1. Len(entries) \in Nat /\ DOMAIN entries = 1..Len(entries)
    OBVIOUS
<1>2. ASSUME NEW i \in 1..Len(entries)
      PROVE  /\ entries[i].start \in Nat /\ entries[i].end \in Nat
             /\ entries[i].count \in Nat \ {0}
             /\ entries[i].start <= entries[i].end
             /\ entries[i].end - entries[i].start + 1 = entries[i].count
  <2>1. entries[i] \in Row
      OBVIOUS
  <2>2. entries[i].start \in Nat /\ entries[i].end \in Nat /\ entries[i].count \in Nat
      BY <2>1 DEF Row
  <2>3. entries[i].count > 0 /\ entries[i].end - entries[i].start + 1 = entries[i].count
      BY <1>1 DEF RangesAreSound
  <2> QED
      BY <2>2, <2>3
<1>3. \A i, j \in 1..Len(entries) : i < j => entries[i].end < entries[j].start
    BY <1>1 DEF RangesAreSound
<1> QED
    BY <1>1, <1>2, <1>3

\* Each row adds its own tickets to those of the rows before it.
LEMMA BelowGrows ==
    ASSUME NEW entries \in Seq(Row), RangesAreSound(entries), NEW i \in 1..Len(entries)
    PROVE  /\ Below(entries, i - 1) \in Nat /\ Below(entries, i) \in Nat
           /\ Below(entries, i) = Below(entries, i - 1) + entries[i].count
<1> DEFINE n == Len(entries)
           Own(j) == entries[j].start..entries[j].end
<1>1. /\ n \in Nat /\ i \in Nat
      /\ \A j \in 1..n : /\ entries[j].start \in Nat /\ entries[j].end \in Nat
                         /\ entries[j].count \in Nat \ {0}
                         /\ entries[j].start <= entries[j].end
                         /\ entries[j].end - entries[j].start + 1 = entries[j].count
      /\ \A j, k \in 1..n : j < k => entries[j].end < entries[k].start
    BY RowFacts
<1>2. Numbers(entries, i) = Numbers(entries, i - 1) \cup Own(i)
  <2>1. 1..i = (1..(i - 1)) \cup {i}
      BY <1>1
  <2> QED
      BY <2>1 DEF Numbers
<1>3. Numbers(entries, i - 1) \subseteq 0..(entries[i].start - 1)
  <2> SUFFICES ASSUME NEW j \in 1..(i - 1), NEW t \in Own(j)
               PROVE  t \in 0..(entries[i].start - 1)
      BY DEF Numbers
  <2>1. j \in 1..n /\ i \in 1..n /\ j < i
      BY <1>1
  <2>2. entries[j].end < entries[i].start /\ entries[j].start \in Nat
        /\ entries[j].end \in Nat /\ entries[i].start \in Nat
      BY <1>1, <2>1
  <2> QED
      BY <2>2
<1>4. IsFiniteSet(Numbers(entries, i - 1))
  <2>1. 0 \in Int /\ entries[i].start - 1 \in Int
      BY <1>1
  <2>2. IsFiniteSet(0..(entries[i].start - 1))
      BY <2>1, FS_Interval
  <2> QED
      BY <1>3, <2>2, FS_Subset
<1>5. IsFiniteSet(Own(i)) /\ Cardinality(Own(i)) = entries[i].count
  <2>1. /\ entries[i].start \in Int /\ entries[i].end \in Int
        /\ ~(entries[i].start > entries[i].end)
        /\ entries[i].end - entries[i].start + 1 = entries[i].count
      BY <1>1
  <2> QED
      BY <2>1, FS_Interval
<1>6. Numbers(entries, i - 1) \cap Own(i) = {}
  <2> SUFFICES ASSUME NEW t \in Numbers(entries, i - 1), t \in Own(i)
               PROVE  FALSE
      OBVIOUS
  <2>1. t \in 0..(entries[i].start - 1) /\ entries[i].start \in Nat /\ entries[i].start <= t
      BY <1>1, <1>3
  <2> QED
      BY <2>1
<1>7. /\ Cardinality(Numbers(entries, i))
           = Cardinality(Numbers(entries, i - 1)) + Cardinality(Own(i))
      /\ Cardinality(Numbers(entries, i - 1)) \in Nat
    BY <1>2, <1>4, <1>5, <1>6, DisjointCount
<1>8. entries[i].count \in Nat
    BY <1>1
<1> QED
    BY <1>5, <1>7, <1>8 DEF Below

LEMMA NumbersFinite ==
    ASSUME NEW entries \in Seq(Row), RangesAreSound(entries), NEW i \in 1..Len(entries)
    PROVE  IsFiniteSet(Numbers(entries, i))
<1>1. Numbers(entries, i) \subseteq 0..entries[i].end
  <2> SUFFICES ASSUME NEW j \in 1..i, NEW t \in entries[j].start..entries[j].end
               PROVE  t \in 0..entries[i].end
      BY DEF Numbers
  <2>1. /\ j \in 1..Len(entries) /\ i \in 1..Len(entries) /\ (j < i \/ j = i)
        /\ Len(entries) \in Nat
      BY RowFacts
  <2>2. /\ entries[j].start \in Nat /\ entries[j].end \in Nat
        /\ entries[i].start \in Nat /\ entries[i].end \in Nat
        /\ entries[i].start <= entries[i].end
        /\ j < i => entries[j].end < entries[i].start
      BY <2>1, RowFacts
  <2> QED
      BY <2>1, <2>2
<1>2. 0 \in Int /\ entries[i].end \in Int
    BY RowFacts
<1>3. IsFiniteSet(0..entries[i].end)
    BY <1>2, FS_Interval
<1> QED
    BY <1>1, <1>3, FS_Subset

LEMMA NoneBelow == ASSUME NEW entries PROVE Below(entries, 0) = 0
<1>1. 1..0 = {}
    OBVIOUS
<1>2. Numbers(entries, 0) = {}
    BY <1>1 DEF Numbers
<1> QED
    BY <1>2, FS_EmptySet DEF Below

\* The running totals that number the tickets of a snapshot count its tickets.
LEMMA RunningTotals ==
    ASSUME NEW entries \in Seq(Row), RangesAreSound(entries)
    PROVE  TicketsUpTo(entries) = [i \in 0..Len(entries) |-> Below(entries, i)]
<1> DEFINE n == Len(entries)
           Step(g) == [i \in 0..n |-> IF i = 0 THEN 0 ELSE g[i - 1] + entries[i].count]
           W == [i \in 0..n |-> Below(entries, i)]
           upTo == TicketsUpTo(entries)
<1>1. n \in Nat
    BY RowFacts
<1>2. W = Step(W)
  <2> SUFFICES ASSUME NEW i \in 0..n
               PROVE  W[i] = IF i = 0 THEN 0 ELSE W[i - 1] + entries[i].count
      OBVIOUS
  <2>1. CASE i = 0
      BY <1>1, <2>1, NoneBelow
  <2>2. CASE i # 0
    <3>1. i \in 1..n /\ i - 1 \in 0..n
        BY <1>1, <2>2
    <3>2. Below(entries, i) = Below(entries, i - 1) + entries[i].count
        BY <3>1, BelowGrows
    <3> QED
        BY <2>2, <3>1, <3>2
  <2> QED
      BY <2>1, <2>2
<1>3. upTo = CHOOSE g : g = Step(g)
    BY DEF TicketsUpTo
<1> HIDE DEF W, Step, upTo
<1>4. upTo = Step(upTo)
    BY <1>2, <1>3
<1>5. \A i \in 0..n : upTo[i] = IF i = 0 THEN 0 ELSE upTo[i - 1] + entries[i].count
    BY <1>4 DEF Step
<1>6. \A i \in 0..n : W[i] = IF i = 0 THEN 0 ELSE W[i - 1] + entries[i].count
    BY <1>2 DEF Step
<1>7. \A i \in 0..n : upTo[i] = W[i]
  <2> DEFINE Wrong == {i \in 0..n : upTo[i] # W[i]}
  <2> SUFFICES ASSUME Wrong # {}
               PROVE  FALSE
      OBVIOUS
  <2>1. PICK i \in Wrong : \A j \in Wrong : i <= j
    <3>1. Wrong \subseteq Nat
        BY <1>1
    <3> HIDE DEF Wrong
    <3> QED
        BY <3>1, LeastNatural
  <2>2. i # 0
      BY <1>1, <1>5, <1>6
  <2>3. i - 1 \in 0..n /\ i - 1 < i
      BY <1>1, <2>2
  <2>4. upTo[i - 1] = W[i - 1]
      BY <1>1, <2>1, <2>3
  <2> QED
      BY <1>5, <1>6, <2>2, <2>4
<1>8. upTo = [i \in 0..n |-> upTo[i]]
    BY <1>4 DEF Step
<1>9. W = [i \in 0..n |-> W[i]]
    BY DEF W
<1>10. upTo = W
    BY <1>7, <1>8, <1>9
<1> QED
    BY <1>10 DEF upTo, W

\* The ranges are consecutive, from 1 to the total.
LEMMA RangesTile ==
    ASSUME NEW entries \in Seq(Row), RangesAreSound(entries), entries # <<>>
    PROVE  /\ Total(entries) = Below(entries, Len(entries)) /\ Total(entries) \in Nat \ {0}
           /\ DOMAIN SnapshotRanges(entries) = 1..Len(entries)
           /\ \A i \in 1..Len(entries) :
                 /\ SnapshotRanges(entries)[i].start = Below(entries, i - 1) + 1
                 /\ SnapshotRanges(entries)[i].end = Below(entries, i)
                 /\ Below(entries, i - 1) \in Nat /\ Below(entries, i) \in Nat
                 /\ Below(entries, i - 1) < Below(entries, i)
                 /\ Below(entries, i) - Below(entries, i - 1) = entries[i].count
           /\ \A i, j \in 1..Len(entries) : i <= j => Below(entries, i) <= Below(entries, j)
<1> DEFINE n == Len(entries)
           W(i) == Below(entries, i)
<1>1. n \in Nat \ {0} /\ DOMAIN entries = 1..n
  <2>1. n \in Nat /\ DOMAIN entries = 1..n
      BY RowFacts
  <2>2. n # 0
      OBVIOUS
  <2> QED
      BY <2>1, <2>2
<1>2. TicketsUpTo(entries) = [i \in 0..n |-> W(i)]
    BY RunningTotals
<1>3. \A i \in 1..n : i \in 0..n /\ i - 1 \in 0..n
    BY <1>1
<1>4. ASSUME NEW i \in 1..n
      PROVE  /\ W(i - 1) \in Nat /\ W(i) \in Nat
             /\ W(i) - W(i - 1) = entries[i].count /\ W(i - 1) < W(i)
  <2>1. W(i - 1) \in Nat /\ W(i) \in Nat /\ W(i) = W(i - 1) + entries[i].count
      BY BelowGrows
  <2>2. entries[i].count \in Nat \ {0}
      BY RowFacts
  <2> QED
      BY <2>1, <2>2
<1>5. ASSUME NEW i \in 1..n
      PROVE  /\ SnapshotRanges(entries)[i].start = W(i - 1) + 1
             /\ SnapshotRanges(entries)[i].end = W(i)
    BY <1>1, <1>2, <1>3 DEF SnapshotRanges
<1>6. DOMAIN SnapshotRanges(entries) = 1..n
    BY <1>1 DEF SnapshotRanges
<1>7. ASSUME NEW i \in 1..n, NEW j \in 1..n, i <= j
      PROVE  W(i) <= W(j)
  <2>1. 1..i \subseteq 1..j
      BY <1>1, <1>7
  <2>2. Numbers(entries, i) \subseteq Numbers(entries, j)
      BY <2>1 DEF Numbers
  <2>3. IsFiniteSet(Numbers(entries, j))
      BY NumbersFinite
  <2> QED
      BY <2>2, <2>3, FS_Subset DEF Below
<1>8. Total(entries) = W(n)
    BY <1>1, <1>2 DEF Total
<1>9. n \in 1..n
    BY <1>1
<1>10. Total(entries) \in Nat \ {0}
    BY <1>4, <1>8, <1>9
<1> QED
    BY <1>4, <1>5, <1>6, <1>7, <1>8, <1>10

\* The numbers of a range, and no others, are held by it alone.
LEMMA RangeHolds ==
    ASSUME NEW entries \in Seq(Row), RangesAreSound(entries), entries # <<>>,
           NEW i \in 1..Len(entries), NEW ticket \in Nat
    PROVE  Holders(SnapshotRanges(entries), ticket) = {i}
             <=> ticket \in (Below(entries, i - 1) + 1)..Below(entries, i)
<1> DEFINE n == Len(entries)
           W(k) == Below(entries, k)
           Holds(k) == W(k - 1) + 1 <= ticket /\ ticket <= W(k)
<1>1. /\ DOMAIN SnapshotRanges(entries) = 1..n
      /\ \A k \in 1..n : /\ SnapshotRanges(entries)[k].start = W(k - 1) + 1
                         /\ SnapshotRanges(entries)[k].end = W(k)
                         /\ W(k - 1) \in Nat /\ W(k) \in Nat
      /\ \A k, l \in 1..n : k <= l => W(k) <= W(l)
    BY RangesTile
<1>2. n \in Nat
    BY RowFacts
<1>3. Holders(SnapshotRanges(entries), ticket) = {k \in 1..n : Holds(k)}
    BY <1>1 DEF Holders
<1> HIDE DEF W
<1>4. ASSUME NEW k \in 1..n, NEW l \in 1..n, k < l, Holds(k), Holds(l)
      PROVE  FALSE
  <2>1. l - 1 \in 1..n /\ k <= l - 1
      BY <1>2, <1>4
  <2>2. W(k) <= W(l - 1) /\ W(k) \in Nat /\ W(l - 1) \in Nat
      BY <1>1, <2>1
  <2> QED
      BY <1>4, <2>2
<1>5. ASSUME Holds(i)
      PROVE  {k \in 1..n : Holds(k)} = {i}
  <2>1. ASSUME NEW k \in 1..n, Holds(k)
        PROVE  k = i
    <3>1. k < i \/ i < k \/ k = i
        BY <1>2
    <3> QED
        BY <1>4, <1>5, <2>1, <3>1
  <2> QED
      BY <1>5, <2>1
<1>6. W(i - 1) \in Nat /\ W(i) \in Nat
    BY <1>1
<1>7. Holds(i) <=> ticket \in (W(i - 1) + 1)..W(i)
    BY <1>6
<1> HIDE DEF Holds
<1>8. {k \in 1..n : Holds(k)} = {i} <=> Holds(i)
    BY <1>5
<1> QED
    BY <1>3, <1>7, <1>8 DEF W

\* The first value decides when it is accepted.
LEMMA FirstValueDecides ==
    ASSUME NEW v \in Nat, NEW total \in Nat \ {0}, Accepted(v, total)
    PROVE  DrawnTicket(<<v>>, total) = WinningTicket(v, total)
<1>1. DOMAIN <<v>> = {1} /\ <<v>>[1] = v
    OBVIOUS
<1>2. RejectionCounter(<<v>>, total) = 1
    BY <1>1 DEF RejectionCounter
<1> QED
    BY <1>1, <1>2 DEF DrawnTicket

\* Whatever rows pass the checks of a snapshot, the draw over them is fair: of
\* the values that are accepted, exactly the same number draw each ticket, and
\* so an order's chance is the number of its tickets (drand.js:26-44,
\* postgres-repository.js:30-39).
THEOREM SoundRangesAreFair ==
    ASSUME NEW entries \in Seq(Row), RangesAreSound(entries), entries # <<>>
    PROVE  IsFair(entries)
<1> DEFINE n == Len(entries)
           total == Total(entries)
           ranges == SnapshotRanges(entries)
           W(i) == Below(entries, i)
<1>1. DOMAIN entries = 1..n /\ n \in Nat
    BY RowFacts
<1>2. total = W(n) /\ total \in Nat \ {0}
    BY RangesTile
<1> SUFFICES ASSUME NEW i \in 1..n
             PROVE  Cardinality(ValuesFor(i, ranges, total))
                      = entries[i].count * (ValueLimit \div total)
    BY <1>1 DEF IsFair
<1>3. /\ W(i - 1) \in Nat /\ W(i) \in Nat /\ W(i - 1) < W(i)
      /\ W(i) - W(i - 1) = entries[i].count /\ W(i) <= W(n) /\ W(n) \in Nat
  <2>1. n \in 1..n /\ i <= n
      BY <1>1
  <2> QED
      BY <2>1, RangesTile
<1>4. ASSUME NEW v \in 0..(ValueLimit - 1), Accepted(v, total)
      PROVE  Holders(ranges, DrawnTicket(<<v>>, total)) = {i}
               <=> WinningTicket(v, total) \in (W(i - 1) + 1)..W(i)
  <2>1. v \in Nat
      BY DrawConstants
  <2>2. total \in Nat \ {0} /\ Accepted(v, total)
      BY <1>2, <1>4
  <2> HIDE DEF total, W
  <2>3. DrawnTicket(<<v>>, total) = WinningTicket(v, total)
      BY <2>1, <2>2, FirstValueDecides
  <2>4. WinningTicket(v, total) \in 1..total
      BY <2>1, <2>2, WinningTicketExists
  <2>5. WinningTicket(v, total) \in Nat
      BY <2>2, <2>4
  <2> QED
      BY <2>3, <2>5, RangeHolds DEF W
<1>5. ValuesFor(i, ranges, total) = Winning(total, W(i - 1) + 1, W(i))
    BY <1>4 DEF ValuesFor, Winning
<1> HIDE DEF W
<1>6. W(i - 1) + 1 \in 1..total /\ W(i) \in (W(i - 1) + 1)..total
    BY <1>2, <1>3
<1>7. W(i) - (W(i - 1) + 1) + 1 = entries[i].count
    BY <1>3
<1> HIDE DEF total, ranges
<1> QED
    BY <1>2, <1>5, <1>6, <1>7, WinningValues

-----------------------------------------------------------------------------
(* The draws of the rounds.                                                *)

\* Rows whose ranges are disjoint, in the order of their first tickets, are what
\* a snapshot wants; none is lost.
LEMMA RowsInOrder ==
    ASSUME NEW rows \in SUBSET Row, IsFiniteSet(rows),
           \A e \in rows : e.count > 0 /\ e.end - e.start + 1 = e.count,
           \A e, f \in rows : e # f => e.end < f.start \/ f.end < e.start
    PROVE  /\ InOrder(rows) \in Seq(Row) /\ RangesAreSound(InOrder(rows))
           /\ DOMAIN InOrder(rows) = 1..Cardinality(rows)
           /\ Len(InOrder(rows)) = Cardinality(rows)
           /\ \A i \in 1..Cardinality(rows) : InOrder(rows)[i] \in rows
           /\ \A e \in rows : \E i \in 1..Cardinality(rows) : InOrder(rows)[i] = e
<1> DEFINE n == Cardinality(rows)
           UpTo(e) == {f \in rows : f.start <= e.start}
           rank == [e \in rows |-> Cardinality(UpTo(e))]
           entries == [i \in 1..n |-> CHOOSE e \in rows : Cardinality(UpTo(e)) = i]
<1>1. InOrder(rows) = entries
    BY DEF InOrder
<1>2. \A e \in rows : e.start \in Nat /\ e.end \in Nat /\ e.count \in Nat /\ e.start <= e.end
  <2> SUFFICES ASSUME NEW e \in rows
               PROVE  e.start \in Nat /\ e.end \in Nat /\ e.count \in Nat /\ e.start <= e.end
      OBVIOUS
  <2>1. e.start \in Nat /\ e.end \in Nat /\ e.count \in Nat
      BY DEF Row
  <2>2. e.count > 0 /\ e.end - e.start + 1 = e.count
      OBVIOUS
  <2> QED
      BY <2>1, <2>2
<1>3. n \in Nat
    BY FS_CardinalityType
<1>4. ASSUME NEW e \in rows
      PROVE  IsFiniteSet(UpTo(e)) /\ Cardinality(UpTo(e)) \in 1..n /\ e \in UpTo(e)
  <2>1. UpTo(e) \subseteq rows /\ e \in UpTo(e)
      BY <1>2
  <2> HIDE DEF UpTo
  <2>2. IsFiniteSet(UpTo(e)) /\ Cardinality(UpTo(e)) <= n
      BY <2>1, FS_Subset
  <2>3. Cardinality(UpTo(e)) \in Nat
      BY <2>2, FS_CardinalityType
  <2>4. Cardinality(UpTo(e)) # 0
      BY <2>1, <2>2, FS_EmptySet
  <2>5. Cardinality(UpTo(e)) \in 1..n
      BY <1>3, <2>2, <2>3, <2>4
  <2> QED
      BY <2>1, <2>2, <2>5
<1>5. ASSUME NEW e \in rows, NEW f \in rows, e.start < f.start
      PROVE  Cardinality(UpTo(e)) < Cardinality(UpTo(f))
  <2>1. UpTo(e) \subseteq UpTo(f)
      BY <1>2, <1>5
  <2>2. f \in UpTo(f) /\ f \notin UpTo(e)
      BY <1>2, <1>5
  <2>3. IsFiniteSet(UpTo(e)) /\ IsFiniteSet(UpTo(f))
      BY <1>4
  <2> HIDE DEF UpTo
  <2>4. UpTo(e) # UpTo(f)
      BY <2>2
  <2>5. Cardinality(UpTo(e)) <= Cardinality(UpTo(f))
        /\ (Cardinality(UpTo(e)) = Cardinality(UpTo(f)) <=> UpTo(e) = UpTo(f))
      BY <2>1, <2>3, FS_Subset
  <2>6. Cardinality(UpTo(e)) \in Nat /\ Cardinality(UpTo(f)) \in Nat
      BY <2>3, FS_CardinalityType
  <2> QED
      BY <2>4, <2>5, <2>6
<1>6. ASSUME NEW e \in rows, NEW f \in rows, e # f
      PROVE  e.start < f.start \/ f.start < e.start
  <2>1. e.end < f.start \/ f.end < e.start
      BY <1>6
  <2>2. e.start \in Nat /\ e.end \in Nat /\ f.start \in Nat /\ f.end \in Nat
        /\ e.start <= e.end /\ f.start <= f.end
      BY <1>2
  <2> QED
      BY <2>1, <2>2
<1> HIDE DEF UpTo
<1>7. rank \in Injection(rows, 1..n)
  <2>1. rank \in [rows -> 1..n]
      BY <1>4
  <2>2. ASSUME NEW e \in rows, NEW f \in rows, rank[e] = rank[f]
        PROVE  e = f
    <3> SUFFICES ASSUME e # f
                 PROVE  FALSE
        OBVIOUS
    <3>1. Cardinality(UpTo(e)) = Cardinality(UpTo(f))
        BY <2>2
    <3>2. Cardinality(UpTo(e)) \in Int /\ Cardinality(UpTo(f)) \in Int
        BY <1>3, <1>4
    <3>3. \/ Cardinality(UpTo(e)) < Cardinality(UpTo(f))
          \/ Cardinality(UpTo(f)) < Cardinality(UpTo(e))
        BY <1>5, <1>6
    <3> QED
        BY <3>1, <3>2, <3>3
  <2> QED
      BY <2>1, <2>2 DEF Injection, IsInjective
<1>8. IsFiniteSet(1..n) /\ Cardinality(1..n) = n
    BY <1>3, FS_Interval
<1>9. rank \in Surjection(rows, 1..n)
    BY <1>7, <1>8, FS_Injection
<1>10. ASSUME NEW i \in 1..n
       PROVE  entries[i] \in rows /\ Cardinality(UpTo(entries[i])) = i
  <2>1. \E e \in rows : rank[e] = i
      BY <1>9 DEF Surjection
  <2>2. \E e \in rows : Cardinality(UpTo(e)) = i
      BY <2>1
  <2>3. entries[i] = CHOOSE e \in rows : Cardinality(UpTo(e)) = i
      OBVIOUS
  <2> HIDE DEF entries
  <2> QED
      BY <2>2, <2>3
<1>11. ASSUME NEW e \in rows
       PROVE  \E i \in 1..n : entries[i] = e
  <2>1. PICK i \in 1..n : i = Cardinality(UpTo(e))
      BY <1>4
  <2>2. entries[i] \in rows /\ Cardinality(UpTo(entries[i])) = i
      BY <1>10
  <2> HIDE DEF entries
  <2>3. rank[entries[i]] = i /\ rank[e] = i
      BY <2>1, <2>2
  <2>4. entries[i] = e
      BY <1>7, <2>2, <2>3 DEF Injection, IsInjective
  <2> QED
      BY <2>4
<1>12. DOMAIN entries = 1..n
    OBVIOUS
<1>13. entries \in [1..n -> Row]
    BY <1>10
<1> HIDE DEF entries
<1>14. entries \in Seq(Row) /\ Len(entries) = n
  <2> HIDE DEF n
  <2> QED
      BY <1>3, <1>12, <1>13
<1>15. RangesAreSound(entries)
  <2>1. \A i \in 1..n : entries[i].count > 0
                        /\ entries[i].end - entries[i].start + 1 = entries[i].count
      BY <1>10
  <2>2. ASSUME NEW i \in 1..n, NEW j \in 1..n, i < j
        PROVE  entries[i].end < entries[j].start
    <3> DEFINE e == entries[i]
               f == entries[j]
    <3>1. e \in rows /\ f \in rows /\ Cardinality(UpTo(e)) = i /\ Cardinality(UpTo(f)) = j
        BY <1>10
    <3>2. i \in Int /\ j \in Int /\ ~(j < i) /\ e # f
        BY <1>3, <2>2, <3>1
    <3> HIDE DEF e, f
    <3>3. ~(f.start < e.start)
        BY <1>5, <3>1, <3>2
    <3>4. e.end < f.start \/ f.end < e.start
        BY <3>1, <3>2
    <3>5. f.start \in Nat /\ f.end \in Nat /\ e.start \in Nat /\ f.start <= f.end
        BY <1>2, <3>1
    <3>6. e.end < f.start
        BY <3>3, <3>4, <3>5
    <3> QED
        BY <3>6 DEF e, f
  <2> QED
      BY <1>12, <2>1, <2>2 DEF RangesAreSound
<1> QED
    BY <1>1, <1>10, <1>11, <1>12, <1>14, <1>15

\* The row of an order with tickets in a round has all of its tickets.
LEMMA RowOfOrder ==
    ASSUME IInv, NEW d \in Days, NEW o \in Orders, TicketsOf(o) \cap Eligible(d) # {}
    PROVE  LET e == EntryOf(o, Eligible(d))
           IN  /\ e \in Row /\ e.order = o /\ e.count > 0
               /\ e.start <= e.end /\ e.end - e.start + 1 = e.count
               /\ e.start..e.end = TicketsOf(o) /\ TicketsOf(o) \subseteq Eligible(d)
<1> DEFINE e == EntryOf(o, Eligible(d))
           q == Quantity[o]
<1>1. PICK first \in DOMAIN ledger :
        /\ TicketsOf(o) = first..(first + q - 1)
        /\ \A t \in TicketsOf(o) : ledger[t].round = orderRound[o]
    BY DEF IInv, OrdersHaveOneRange
<1>2. TicketsOf(o) \subseteq Eligible(d)
    BY <1>1 DEF TicketsOf, Eligible
<1>3. first \in Nat /\ q \in Nat \ {0}
    BY OrdersAssumption DEF IInv, TypeOK
<1>4. Eligible(d) \cap TicketsOf(o) = first..(first + q - 1)
    BY <1>1, <1>2
<1> HIDE DEF q
<1>5. Min(first..(first + q - 1)) = first
  <2>1. first \in first..(first + q - 1) /\ \A y \in first..(first + q - 1) : first <= y
      BY <1>3
  <2>2. ASSUME NEW x \in first..(first + q - 1), \A y \in first..(first + q - 1) : x <= y
        PROVE  x = first
      BY <1>3, <2>1, <2>2
  <2> QED
      BY <2>1, <2>2 DEF Min
<1>6. Max(first..(first + q - 1)) = first + q - 1
  <2>1. /\ first + q - 1 \in first..(first + q - 1)
        /\ \A y \in first..(first + q - 1) : first + q - 1 >= y
      BY <1>3
  <2>2. ASSUME NEW x \in first..(first + q - 1), \A y \in first..(first + q - 1) : x >= y
        PROVE  x = first + q - 1
      BY <1>3, <2>1, <2>2
  <2> QED
      BY <2>1, <2>2 DEF Max
<1>7. e = [start |-> first, end |-> first + q - 1, count |-> q, order |-> o]
    BY <1>4, <1>5, <1>6 DEF EntryOf, q
<1> HIDE DEF e
<1>8. first + q - 1 \in Nat /\ first <= first + q - 1 /\ (first + q - 1) - first + 1 = q /\ q > 0
    BY <1>3
<1>9. e \in Row
    BY <1>3, <1>7, <1>8 DEF Row
<1> QED
    BY <1>1, <1>2, <1>7, <1>8, <1>9 DEF e, q

\* The rows of a round are what RowsInOrder wants, and their ranges are exactly
\* the tickets of the round.
LEMMA RowsOfRound ==
    ASSUME IInv, NEW d \in Days
    PROVE  LET rows == {EntryOf(ledger[t].order, Eligible(d)) : t \in Eligible(d)}
           IN  /\ rows \in SUBSET Row /\ IsFiniteSet(rows)
               /\ \A e \in rows : e.count > 0 /\ e.end - e.start + 1 = e.count
               /\ \A e, f \in rows : e # f => e.end < f.start \/ f.end < e.start
               /\ UNION {e.start..e.end : e \in rows} = Eligible(d)
<1> DEFINE T == Eligible(d)
           entry(o) == EntryOf(o, T)
           rows == {entry(ledger[t].order) : t \in T}
<1>1. ASSUME NEW t \in T
      PROVE  ledger[t].order \in Orders /\ t \in TicketsOf(ledger[t].order)
    BY DEF IInv, TypeOK, Eligible, TicketsOf
<1>2. ASSUME NEW e \in rows
      PROVE  \E o \in Orders : e = entry(o) /\ TicketsOf(o) \cap T # {}
    BY <1>1
<1>3. ASSUME NEW o \in Orders, TicketsOf(o) \cap T # {}
      PROVE  /\ entry(o) \in Row /\ entry(o).order = o /\ entry(o).count > 0
             /\ entry(o).start <= entry(o).end
             /\ entry(o).end - entry(o).start + 1 = entry(o).count
             /\ entry(o).start..entry(o).end = TicketsOf(o) /\ TicketsOf(o) \subseteq T
    BY <1>3, RowOfOrder
<1> HIDE DEF entry
<1>4. rows \in SUBSET Row /\ \A e \in rows : e.count > 0 /\ e.end - e.start + 1 = e.count
    BY <1>2, <1>3
<1>5. IsFiniteSet(rows)
  <2> DEFINE f == [t \in T |-> entry(ledger[t].order)]
  <2>1. f \in Surjection(T, rows)
      BY DEF Surjection
  <2>2. IsFiniteSet(T)
      BY CountsAreNumbers DEF IInv
  <2> HIDE DEF f
  <2> QED
      BY <2>1, <2>2, FS_Surjection
<1>6. ASSUME NEW e \in rows, NEW f \in rows, e # f
      PROVE  e.end < f.start \/ f.end < e.start
  <2>1. PICK o \in Orders : e = entry(o) /\ TicketsOf(o) \cap T # {}
      BY <1>2
  <2>2. PICK p \in Orders : f = entry(p) /\ TicketsOf(p) \cap T # {}
      BY <1>2
  <2>3. TicketsOf(o) \cap TicketsOf(p) = {}
      BY <1>6, <2>1, <2>2 DEF TicketsOf
  <2>4. (e.start..e.end) \cap (f.start..f.end) = {}
      BY <1>3, <2>1, <2>2, <2>3
  <2>5. /\ e.start \in Nat /\ e.end \in Nat /\ f.start \in Nat /\ f.end \in Nat
        /\ e.start <= e.end /\ f.start <= f.end
      BY <1>3, <2>1, <2>2 DEF Row
  <2>6. e.start \notin f.start..f.end \/ e.start \notin e.start..e.end
      BY <2>4
  <2>7. f.start \notin f.start..f.end \/ f.start \notin e.start..e.end
      BY <2>4
  <2> QED
      BY <2>5, <2>6, <2>7
<1>7. UNION {e.start..e.end : e \in rows} = T
  <2>1. ASSUME NEW t \in T
        PROVE  \E e \in rows : t \in e.start..e.end
    <3>1. t \in TicketsOf(ledger[t].order) /\ ledger[t].order \in Orders
        BY <1>1
    <3>2. entry(ledger[t].order) \in rows
        OBVIOUS
    <3> QED
        BY <1>3, <3>1, <3>2
  <2>2. ASSUME NEW e \in rows
        PROVE  e.start..e.end \subseteq T
      BY <1>2, <1>3
  <2> QED
      BY <2>1, <2>2
<1> QED
    BY <1>4, <1>5, <1>6, <1>7 DEF entry

\* For every number of days and orders, whatever their quantities, a locked
\* round passes the checks of its snapshot, and every order's chance in its draw
\* is the number of its tickets, from whatever days they were carried over.
THEOREM DrawsAreFair == PunctualSpec => []DrawIsFair
<1>1. ASSUME IInv, NEW d \in Days, status[d] \in Counted
      PROVE  PassesChecks(Entries(Eligible(d)), paidCount[d]) /\ IsFair(Entries(Eligible(d)))
  <2> DEFINE T == Eligible(d)
             rows == {EntryOf(ledger[t].order, T) : t \in T}
             entries == Entries(T)
             n == Cardinality(rows)
  <2>1. /\ rows \in SUBSET Row /\ IsFiniteSet(rows)
        /\ \A e \in rows : e.count > 0 /\ e.end - e.start + 1 = e.count
        /\ \A e, f \in rows : e # f => e.end < f.start \/ f.end < e.start
        /\ UNION {e.start..e.end : e \in rows} = T
      BY <1>1, RowsOfRound
  <2>2. paidCount[d] = Cardinality(T) /\ T # {}
    <3>1. paidCount[d] = Cardinality(T) /\ paidCount[d] >= MinPaid /\ paidCount[d] \in Nat
        BY <1>1 DEF IInv, TypeOK, CountsAreFinal
    <3>2. Cardinality(T) # 0
        BY <3>1, OrdersAssumption
    <3> QED
        BY <3>1, <3>2, FS_EmptySet
  <2>3. rows # {}
      BY <2>2
  <2>4. entries = InOrder(rows)
      BY DEF Entries
  <2> HIDE DEF T, rows, entries
  <2>5. /\ entries \in Seq(Row) /\ RangesAreSound(entries) /\ Len(entries) = n
        /\ \A i \in 1..n : entries[i] \in rows
        /\ \A e \in rows : \E i \in 1..n : entries[i] = e
      BY <2>1, <2>4, RowsInOrder
  <2>6. n \in Nat \ {0}
      BY <2>1, <2>3, FS_CardinalityType, FS_EmptySet
  <2>7. entries # <<>>
      BY <2>5, <2>6
  <2>8. Numbers(entries, n) = T
    <3> HIDE DEF n
    <3>1. {entries[j].start..entries[j].end : j \in 1..n} = {e.start..e.end : e \in rows}
        BY <2>5
    <3> QED
        BY <2>1, <3>1 DEF Numbers
  <2>9. Total(entries) = paidCount[d]
      BY <2>2, <2>5, <2>7, <2>8, RangesTile DEF Below
  <2>10. PassesChecks(entries, paidCount[d])
      BY <2>5, <2>7, <2>9 DEF PassesChecks
  <2>11. IsFair(entries)
      BY <2>5, <2>7, SoundRangesAreFair
  <2> QED
      BY <2>10, <2>11 DEF entries, T
<1>2. IInv => DrawIsFair
    BY <1>1 DEF DrawIsFair
<1> QED
    BY <1>2, Consistent, PTL

-----------------------------------------------------------------------------
(* The amounts.                                                            *)

\* The two legs add up to the prize exactly, the winner gets 85 % of it but for
\* less than one unit, and neither leg of a prize worth dividing is empty
\* (settlement-domain.js:7-10).
THEOREM LegsAddUp ==
    ASSUME NEW basis \in Nat
    PROVE  /\ WinnerAmount(basis) \in Nat /\ OrganizerFee(basis) \in Nat
           /\ WinnerAmount(basis) + OrganizerFee(basis) = basis
           /\ 100 * WinnerAmount(basis) <= 85 * basis
           /\ 85 * basis < 100 * (WinnerAmount(basis) + 1)
           /\ basis >= 2 => WinnerAmount(basis) > 0 /\ OrganizerFee(basis) > 0
    BY DEF WinnerAmount, OrganizerFee, OrganizerFeeBps, BpsDenominator
=============================================================================
