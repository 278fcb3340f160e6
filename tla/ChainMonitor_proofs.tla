------------------------ MODULE ChainMonitor_proofs ------------------------
(***************************************************************************)
(* Proofs about ChainMonitor, for any transfers, any number of overlapping *)
(* scans, any lookback, confirmations and size of a chunk, and a chain of  *)
(* any height, under the two assumptions on the environment that           *)
(* MonitorAssumption states: reorganizations are shallower than the        *)
(* confirmations, and the lookback covers them and the lag of a node.      *)
(***************************************************************************)
EXTENDS ChainMonitor, TLAPS

-----------------------------------------------------------------------------
(* The inductive invariant.                                                *)

Canonicals == UNION {[bs -> Hashes] : bs \in SUBSET (1..Height)}
ScanStates == [pc : {"idle", "cursor", "logs", "record", "blocks", "confirm"},
               head : 0..Height, from : 0..(Height + 1), logs : SUBSET Log,
               canonical : Canonicals]
ScansTyped == scan \in [Scans -> ScanStates]

HashesAreNamed == \A b \in 1..Len(chain) : chain[b] <= reorgs

CursorIsReached == cursor <= Len(chain)

\* A transfer was seen in a block: as long as that block is canonical, it is
\* where the transfer is.
Sighted(t, b, h) == /\ b \in 1..Len(chain) /\ h \in 0..reorgs
                    /\ chain[b] = h => place[t] = b

\* Payments are sightings, and confirmed ones are too deep to be replaced.
PaymentsAreTrue ==
    \A t \in Transfers : payment[t] # NoPayment =>
        /\ Sighted(t, payment[t].block, payment[t].hash)
        /\ payment[t].status = "confirmed" =>
              payment[t].block + Confirmations - 1 <= Len(chain)

\* A scan knows of nothing that is not there yet.
HeadIsReached(q) == q.head <= Len(chain) /\ (q.pc = "record" => q.from <= q.head)
LogsAreTrue(q) == \A l \in q.logs : Sighted(l.tx, l.block, l.hash)

\* The blocks it looks up are too deep to be replaced.
LookedUpIsDeep(q) ==
    q.pc \in {"blocks", "confirm"} => \A b \in DOMAIN q.canonical :
        /\ b + Confirmations - 1 <= q.head
        /\ q.pc = "confirm" => q.canonical[b] = chain[b]

\* What it has passed and will not look at again is on record, or among the logs
\* it still has to record.
ChunkEnd(q) == IF q.from + MaxBlocks - 1 < q.head THEN q.from + MaxBlocks - 1 ELSE q.head
Passed(q, t, last) == place[t] \in 1..last /\ place[t] <= q.head - Lookback
NothingIsPassed(q) ==
    \A t \in Transfers :
        /\ q.pc = "logs" /\ Passed(q, t, q.from - 1) => payment[t] # NoPayment
        /\ q.pc = "record" /\ Passed(q, t, ChunkEnd(q)) =>
              payment[t] # NoPayment \/ \E l \in q.logs : l.tx = t

ScanIsSound(q) == HeadIsReached(q) /\ LogsAreTrue(q) /\ LookedUpIsDeep(q) /\ NothingIsPassed(q)
ScansAreSound == \A s \in Scans : ScanIsSound(scan[s])

IInv == /\ TypeOK /\ ScansTyped /\ HashesAreNamed /\ CursorIsReached /\ PaymentsAreTrue
        /\ NoTicketsForOrphans /\ NothingBehindIsMissed /\ ScansAreSound

-----------------------------------------------------------------------------
(* Types.                                                                  *)

LEMMA ScanFacts ==
    ASSUME IInv, NEW s \in Scans
    PROVE  /\ scan[s] \in ScanStates /\ ScanIsSound(scan[s])
           /\ scan[s].head \in 0..Height /\ scan[s].from \in 0..(Height + 1)
           /\ scan[s].logs \subseteq Log /\ scan[s].canonical \in Canonicals
    BY DEF IInv, ScansTyped, ScanStates, ScansAreSound

LEMMA CanonicalFacts ==
    ASSUME NEW c \in Canonicals
    PROVE  DOMAIN c \subseteq 1..Height /\ c \in [DOMAIN c -> Hashes]
    BY DEF Canonicals

LEMMA IdleTyped == Idle \in ScanStates
<1>1. <<>> \in Canonicals
  <2>1. <<>> \in [{} -> Hashes]
    OBVIOUS
  <2> QED
    BY <2>1 DEF Canonicals
<1> QED
  BY <1>1, MonitorAssumption DEF Idle, ScanStates

LEMMA ChainTypes ==
    ASSUME IInv
    PROVE  /\ Len(chain) \in Nat /\ Len(chain) <= Height /\ cursor \in 0..Height
           /\ reorgs \in 0..MaxReorgs /\ failures \in 0..MaxFailures
           /\ \A b \in 1..Len(chain) : chain[b] \in 0..reorgs /\ chain[b] \in Hashes
           /\ \A t \in Transfers : place[t] \in 0..Len(chain)
           /\ \A t \in Transfers : payment[t] \in Payment \cup {NoPayment}
    BY MonitorAssumption DEF IInv, TypeOK, HashesAreNamed, Hashes

\* The types of the scans are among those of ScanStates.
LEMMA AllTypes ==
    ASSUME chain' \in Seq(Hashes), Len(chain') <= Height,
           place' \in [Transfers -> 0..Len(chain')],
           reorgs' \in 0..MaxReorgs, failures' \in 0..MaxFailures, cursor' \in 0..Height,
           payment' \in [Transfers -> Payment \cup {NoPayment}], ScansTyped'
    PROVE  TypeOK'
<1>1. ASSUME NEW s \in Scans
      PROVE  /\ scan'[s].pc \in {"idle", "cursor", "logs", "record", "blocks", "confirm"}
             /\ scan'[s].head \in 0..Height /\ scan'[s].from \in 0..(Height + 1)
             /\ scan'[s].logs \subseteq Log /\ DOMAIN scan'[s].canonical \subseteq 1..Height
  <2>1. scan'[s] \in ScanStates
    BY DEF ScansTyped
  <2> QED
    BY <2>1, CanonicalFacts DEF ScanStates
<1> QED
  BY <1>1 DEF TypeOK

-----------------------------------------------------------------------------
(* What is known remains true.                                             *)

KnowledgeRemains ==
    /\ Len(chain') \in Nat /\ Len(chain) <= Len(chain')
    /\ \A t \in Transfers : \A b, h : Sighted(t, b, h) => Sighted(t, b, h)'
    /\ \A b \in 1..(Len(chain) - Shallow) : chain'[b] = chain[b]
    /\ \A t \in Transfers : place'[t] \in 1..(Len(chain) - Shallow) => place[t] = place'[t]
    /\ \A t \in Transfers : payment[t] # NoPayment => payment'[t] # NoPayment

\* Nothing happens to the chain, and payments are only added.
LEMMA QuietChain ==
    ASSUME IInv, UNCHANGED chainVars,
           \A t \in Transfers : payment[t] # NoPayment => payment'[t] # NoPayment
    PROVE  KnowledgeRemains
    BY ChainTypes DEF chainVars, KnowledgeRemains, Sighted

LEMMA SoundScansRemain ==
    ASSUME IInv, KnowledgeRemains, NEW q \in ScanStates, ScanIsSound(q)
    PROVE  ScanIsSound(q)'
<1>0. /\ q.head \in 0..Height /\ q.from \in 0..(Height + 1) /\ q.logs \subseteq Log
      /\ DOMAIN q.canonical \subseteq 1..Height
  BY CanonicalFacts DEF ScanStates
<1>1. HeadIsReached(q)'
  BY <1>0, ChainTypes DEF ScanIsSound, HeadIsReached, KnowledgeRemains
<1>2. LogsAreTrue(q)'
  BY <1>0 DEF ScanIsSound, LogsAreTrue, KnowledgeRemains, Log
<1>3. LookedUpIsDeep(q)'
  <2>1. ASSUME NEW b \in DOMAIN q.canonical, q.pc = "confirm"
        PROVE  chain'[b] = chain[b]
    <3>1. b + Confirmations - 1 <= Len(chain) /\ b \in 1..Height
      BY <1>0, <2>1, ChainTypes, MonitorAssumption DEF ScanIsSound, LookedUpIsDeep, HeadIsReached
    <3>2. b \in 1..(Len(chain) - Shallow)
      BY <3>1, ChainTypes, MonitorAssumption
    <3> QED
      BY <3>2 DEF KnowledgeRemains
  <2> QED
    BY <2>1 DEF ScanIsSound, LookedUpIsDeep
<1>4. NothingIsPassed(q)'
  <2>1. ASSUME NEW t \in Transfers, NEW last, Passed(q, t, last)'
        PROVE  Passed(q, t, last)
    <3>1. place'[t] <= Len(chain) - Shallow /\ place'[t] \in Int /\ 1 <= place'[t]
      BY SMTT(30), <1>0, <2>1, ChainTypes, MonitorAssumption DEF Passed, ScanIsSound, HeadIsReached
    <3> QED
      BY SMTT(30), <2>1, <3>1, ChainTypes, MonitorAssumption DEF Passed, KnowledgeRemains
  <2> QED
    BY <2>1 DEF ScanIsSound, NothingIsPassed, KnowledgeRemains, ChunkEnd
<1> QED
  BY <1>1, <1>2, <1>3, <1>4 DEF ScanIsSound

-----------------------------------------------------------------------------
(* The steps of a scan.                                                    *)

\* A step of one scan, which may add payments and move the cursor.
LEMMA ScanMoves ==
    ASSUME IInv, UNCHANGED chainVars, NEW s \in Scans, NEW q \in ScanStates,
           scan' = [scan EXCEPT ![s] = q], ScanIsSound(q)',
           \A t \in Transfers : payment[t] # NoPayment => payment'[t] # NoPayment,
           failures' \in 0..MaxFailures, cursor' \in 0..Height, CursorIsReached',
           payment' \in [Transfers -> Payment \cup {NoPayment}],
           PaymentsAreTrue', NoTicketsForOrphans', NothingBehindIsMissed'
    PROVE  IInv'
<1>1. KnowledgeRemains
  BY QuietChain
<1>2. scan'[s] = q /\ (\A p \in Scans \ {s} : scan'[p] = scan[p]) /\ ScansTyped'
  BY DEF IInv, ScansTyped
<1>3. ASSUME NEW p \in Scans, NEW r, r = scan'[p] PROVE ScanIsSound(r)'
  <2>1. CASE p = s
    BY <1>2, <1>3, <2>1
  <2>2. CASE p # s
    BY <1>1, <1>2, <1>3, <2>2, ScanFacts, SoundScansRemain
  <2> QED
    BY <2>1, <2>2
<1>4. \A p \in Scans : \A r : r = scan'[p] => ScanIsSound(r)'
  BY <1>3
<1>5. ScansAreSound'
  BY <1>4 DEF ScansAreSound, ScanIsSound, HeadIsReached, LogsAreTrue, LookedUpIsDeep,
              NothingIsPassed, Passed, ChunkEnd, Sighted
<1>6. TypeOK'
  BY <1>2, AllTypes, ChainTypes DEF IInv, TypeOK, chainVars
<1>7. HashesAreNamed'
  BY DEF IInv, HashesAreNamed, chainVars
<1> QED
  BY <1>2, <1>5, <1>6, <1>7 DEF IInv

\* A step that changes nothing but one scan.
LEMMA ScanGoesOn ==
    ASSUME IInv, NEW s \in Scans, NEW q \in ScanStates,
           scan' = [scan EXCEPT ![s] = q], ScanIsSound(q),
           UNCHANGED <<chainVars, cursor, payment>>, failures' \in 0..MaxFailures
    PROVE  IInv'
<1>1. ScanIsSound(q)'
  BY QuietChain, SoundScansRemain
<1>2. PaymentsAreTrue' /\ NoTicketsForOrphans' /\ NothingBehindIsMissed' /\ CursorIsReached'
  BY DEF IInv, PaymentsAreTrue, NoTicketsForOrphans, NothingBehindIsMissed, CursorIsReached,
         Sighted, chainVars
<1>3. payment' \in [Transfers -> Payment \cup {NoPayment}]
  BY DEF IInv, TypeOK
<1> QED
  BY <1>1, <1>2, <1>3, ChainTypes, ScanMoves

LEMMA BeginStep ==
    ASSUME IInv, NEW s \in Scans, Begin(s)
    PROVE  IInv'
<1>0. PICK head \in 0..Height : head = Len(chain)
  BY ChainTypes
<1>1. PICK q : q = [scan[s] EXCEPT !.pc = "cursor", !.head = head]
  OBVIOUS
<1>2. q \in ScanStates /\ q.pc = "cursor" /\ q.head = Len(chain) /\ q.logs = scan[s].logs
  BY <1>0, <1>1, ScanFacts DEF ScanStates
<1>3. scan' = [scan EXCEPT ![s] = q]
  BY <1>0, <1>1 DEF Begin, IInv, ScansTyped
<1>4. ScanIsSound(q)
  BY <1>2, ScanFacts, ChainTypes
     DEF ScanIsSound, HeadIsReached, LogsAreTrue, LookedUpIsDeep, NothingIsPassed
<1> QED
  BY <1>2, <1>3, <1>4, ScanGoesOn, ChainTypes DEF Begin

LEMMA ReadCursorStep ==
    ASSUME IInv, NEW s \in Scans, ReadCursor(s)
    PROVE  IInv'
<1>0. From \in 0..(Height + 1) /\ (From > 1 => From - 1 = cursor - Lookback)
  BY ChainTypes, MonitorAssumption DEF From
<1>1. PICK q : q = [scan[s] EXCEPT !.pc = "logs", !.from = From]
  OBVIOUS
<1>2. q \in ScanStates /\ q.pc = "logs" /\ q.head = scan[s].head /\ q.from = From
      /\ q.logs = scan[s].logs
  BY <1>0, <1>1, ScanFacts DEF ScanStates
<1>3. scan' = [scan EXCEPT ![s] = q]
  BY <1>1 DEF ReadCursor, IInv, ScansTyped
<1>4. NothingIsPassed(q)
  BY <1>0, <1>2, ChainTypes DEF NothingIsPassed, Passed, IInv, NothingBehindIsMissed
<1>5. ScanIsSound(q)
  BY <1>2, <1>4, ScanFacts DEF ScanIsSound, HeadIsReached, LogsAreTrue, LookedUpIsDeep
<1> QED
  BY <1>2, <1>3, <1>5, ScanGoesOn, ChainTypes DEF ReadCursor

\* The logs a node returns are sightings.
LEMMA LogsAreSightings ==
    ASSUME IInv, NEW blocks
    PROVE  LogsIn(blocks) \subseteq Log /\ \A l \in LogsIn(blocks) : Sighted(l.tx, l.block, l.hash)
<1>1. ASSUME NEW t \in Transfers, place[t] > 0, NEW l,
             l = [tx |-> t, block |-> place[t], hash |-> chain[place[t]]]
      PROVE  l \in Log /\ Sighted(l.tx, l.block, l.hash)
  <2>1. place[t] \in 1..Len(chain) /\ place[t] \in 1..Height
    BY <1>1, ChainTypes, MonitorAssumption
  <2>2. chain[place[t]] \in 0..reorgs /\ chain[place[t]] \in Hashes
    BY <2>1, ChainTypes
  <2> QED
    BY <1>1, <2>1, <2>2 DEF Log, Sighted
<1> QED
  BY <1>1 DEF LogsIn

LEMMA FetchLogsStep ==
    ASSUME IInv, NEW s \in Scans, FetchLogs(s)
    PROVE  IInv'
<1>1. PICK lag \in 0..MaxLag :
          scan' = [scan EXCEPT ![s].pc = "record",
                      ![s].logs = LogsIn((scan[s].from..ChunkTo(s)) \cap 0..(Len(chain) - lag))]
  BY DEF FetchLogs
<1>2. PICK logs : logs = LogsIn((scan[s].from..ChunkTo(s)) \cap 0..(Len(chain) - lag))
  OBVIOUS
<1>3. logs \subseteq Log /\ \A l \in logs : Sighted(l.tx, l.block, l.hash)
  BY <1>2, LogsAreSightings
<1>4. PICK q : q = [scan[s] EXCEPT !.pc = "record", !.logs = logs]
  OBVIOUS
<1>5. q \in ScanStates /\ q.pc = "record" /\ q.head = scan[s].head /\ q.from = scan[s].from
      /\ q.logs = logs
  BY <1>3, <1>4, ScanFacts DEF ScanStates
<1>6. scan' = [scan EXCEPT ![s] = q]
  BY <1>1, <1>2, <1>4 DEF IInv, ScansTyped
<1>7. NothingIsPassed(q)
  <2>1. ASSUME NEW t \in Transfers, Passed(q, t, ChunkEnd(q)), payment[t] = NoPayment
        PROVE  \E l \in logs : l.tx = t
    <3>1. place[t] \in 0..Len(chain) /\ place[t] <= scan[s].head - Lookback /\ place[t] >= 1
          /\ place[t] <= ChunkTo(s)
      BY <1>5, <2>1, ChainTypes, ScanFacts, MonitorAssumption DEF Passed, ChunkEnd, ChunkTo
    <3>2. scan[s].pc = "logs" /\ NothingIsPassed(scan[s]) /\ scan[s].head <= Len(chain)
      BY ScanFacts DEF FetchLogs, At, ScanIsSound, HeadIsReached
    <3>3. ~ Passed(scan[s], t, scan[s].from - 1)
      BY <2>1, <3>2 DEF NothingIsPassed
    <3>4. place[t] >= scan[s].from
      BY <3>1, <3>3, ScanFacts, ChainTypes DEF Passed
    <3>5. place[t] <= Len(chain) - lag
      BY SMTT(30), <3>1, <3>2, ScanFacts, ChainTypes, MonitorAssumption
    <3>6. ChunkTo(s) \in Int
      BY ScanFacts, MonitorAssumption DEF ChunkTo
    <3>7. place[t] > 0 /\ place[t] \in (scan[s].from..ChunkTo(s)) \cap 0..(Len(chain) - lag)
      BY <3>1, <3>4, <3>5, <3>6, ScanFacts, ChainTypes
    <3>8. [tx |-> t, block |-> place[t], hash |-> chain[place[t]]] \in logs
      BY <1>2, <3>7 DEF LogsIn
    <3> QED
      BY <3>8
  <2> QED
    BY <1>5, <2>1 DEF NothingIsPassed
<1>8. ScanIsSound(q)
  BY <1>3, <1>5, <1>7, ScanFacts DEF FetchLogs, ScanIsSound, HeadIsReached, LogsAreTrue, LookedUpIsDeep
<1> QED
  BY <1>5, <1>6, <1>8, ScanGoesOn, ChainTypes DEF FetchLogs

LEMMA RecordStep ==
    ASSUME IInv, NEW s \in Scans, Record(s)
    PROVE  IInv'
<1>1. PICK l \in scan[s].logs :
          /\ payment' = IF payment[l.tx] # NoPayment THEN payment
                        ELSE [payment EXCEPT ![l.tx] =
                                [block |-> l.block, hash |-> l.hash,
                                 status |-> "payment_detected"]]
          /\ scan' = [scan EXCEPT ![s].logs = @ \ {l}]
  BY DEF Record
<1>2. l \in Log /\ Sighted(l.tx, l.block, l.hash)
  BY ScanFacts DEF ScanIsSound, LogsAreTrue
<1>3. PICK p : p = [block |-> l.block, hash |-> l.hash, status |-> "payment_detected"]
  OBVIOUS
<1>4. p \in Payment /\ p # NoPayment /\ p.block = l.block /\ p.hash = l.hash
      /\ p.status = "payment_detected" /\ l.tx \in Transfers
  BY <1>2, <1>3, NoPaymentAssumption DEF Log, Payment
<1>5. /\ payment' \in [Transfers -> Payment \cup {NoPayment}] /\ payment'[l.tx] # NoPayment
      /\ \A t \in Transfers : payment'[t] = payment[t] \/ (t = l.tx /\ payment'[t] = p)
      /\ \A t \in Transfers : payment[t] # NoPayment => payment'[t] = payment[t]
  <2>0. payment \in [Transfers -> Payment \cup {NoPayment}]
    BY DEF IInv, TypeOK
  <2>1. CASE payment[l.tx] # NoPayment
    BY <1>1, <2>0, <2>1
  <2>2. CASE payment[l.tx] = NoPayment
    <3>1. payment' = [payment EXCEPT ![l.tx] = p]
      BY <1>1, <1>3, <2>2
    <3> QED
      BY <1>4, <2>0, <2>2, <3>1
  <2> QED
    BY <2>1, <2>2
<1>6. PICK q : q = [scan[s] EXCEPT !.logs = @ \ {l}]
  OBVIOUS
<1>7. q \in ScanStates /\ q.pc = "record" /\ q.head = scan[s].head /\ q.from = scan[s].from
      /\ q.logs = scan[s].logs \ {l}
  BY <1>6, ScanFacts DEF ScanStates, Record, At
<1>8. scan' = [scan EXCEPT ![s] = q]
  BY <1>1, <1>6 DEF IInv, ScansTyped
<1>9. UNCHANGED <<chain, place, reorgs, cursor, failures>>
  BY DEF Record, chainVars
<1>10. ScanIsSound(q)'
  <2>1. NothingIsPassed(q)'
    BY <1>5, <1>7, <1>9, ScanFacts
       DEF ScanIsSound, NothingIsPassed, Passed, ChunkEnd, Record, At
  <2>2. HeadIsReached(q)' /\ LogsAreTrue(q)' /\ LookedUpIsDeep(q)'
    BY <1>7, <1>9, ScanFacts
       DEF ScanIsSound, HeadIsReached, LogsAreTrue, LookedUpIsDeep, Sighted, Record, At
  <2> QED
    BY <2>1, <2>2 DEF ScanIsSound
<1>11. PaymentsAreTrue'
  BY <1>2, <1>4, <1>5, <1>9 DEF IInv, PaymentsAreTrue, Sighted
<1>12. NoTicketsForOrphans'
  BY <1>4, <1>5, <1>9 DEF IInv, NoTicketsForOrphans
<1>13. NothingBehindIsMissed' /\ CursorIsReached'
  BY <1>5, <1>9 DEF IInv, NothingBehindIsMissed, CursorIsReached
<1> QED
  BY <1>5, <1>7, <1>8, <1>9, <1>10, <1>11, <1>12, <1>13, ChainTypes, ScanMoves DEF chainVars

LEMMA SaveCursorStep ==
    ASSUME IInv, NEW s \in Scans, SaveCursor(s)
    PROVE  IInv'
<1>1. /\ scan[s].pc = "record" /\ scan[s].logs = {} /\ scan[s].from <= scan[s].head
      /\ scan[s].head <= Len(chain) /\ NothingIsPassed(scan[s])
  BY ScanFacts DEF SaveCursor, At, ScanIsSound, HeadIsReached
<1>2. PICK to : to = ChunkTo(s)
  OBVIOUS
<1>3. to \in 0..Height /\ to <= scan[s].head /\ to + 1 \in 0..(Height + 1)
  <2>1. /\ scan[s].from \in Int /\ scan[s].from >= 0 /\ scan[s].head \in Int
        /\ scan[s].head <= Height /\ Height \in Nat
    BY ScanFacts, MonitorAssumption
  <2>2. MaxBlocks \in Int /\ MaxBlocks >= 1
    BY MonitorAssumption
  <2> QED
    BY SMTT(30), <1>1, <1>2, <2>1, <2>2 DEF ChunkTo
<1>4. PICK q : q = [scan[s] EXCEPT !.pc = "logs", !.from = to + 1]
  OBVIOUS
<1>5. q \in ScanStates /\ q.pc = "logs" /\ q.head = scan[s].head /\ q.from = to + 1
      /\ q.logs = {}
  BY <1>1, <1>3, <1>4, ScanFacts DEF ScanStates
<1>6. scan' = [scan EXCEPT ![s] = q]
  BY <1>2, <1>4 DEF SaveCursor, IInv, ScansTyped
<1>7. cursor' = to /\ UNCHANGED <<chain, place, reorgs, failures, payment>>
  BY <1>2 DEF SaveCursor, Saved, chainVars
<1>8. ASSUME NEW t \in Transfers, place[t] \in 1..to, place[t] <= scan[s].head - Lookback
      PROVE  payment[t] # NoPayment
  <2>1. Passed(scan[s], t, ChunkEnd(scan[s]))
    BY <1>2, <1>8 DEF Passed, ChunkTo, ChunkEnd
  <2> QED
    BY <1>1, <2>1 DEF NothingIsPassed
<1>9. ScanIsSound(q)'
  <2>1. NothingIsPassed(q)'
    BY <1>3, <1>5, <1>7, <1>8 DEF NothingIsPassed, Passed
  <2> QED
    BY <1>1, <1>5, <1>7, <2>1 DEF ScanIsSound, HeadIsReached, LogsAreTrue, LookedUpIsDeep
<1>10. NothingBehindIsMissed'
  <2>1. ASSUME NEW t \in Transfers, place[t] \in 1..(to - Lookback)
        PROVE  place[t] \in 1..to /\ place[t] <= scan[s].head - Lookback
    <3>1. place[t] \in Int /\ to \in Int /\ Lookback \in Nat /\ scan[s].head \in Int
      BY <1>3, <2>1, ScanFacts, ChainTypes, MonitorAssumption
    <3> QED
      BY <1>3, <2>1, <3>1
  <2> QED
    BY <1>7, <1>8, <2>1 DEF NothingBehindIsMissed
<1>11. CursorIsReached'
  BY <1>1, <1>3, <1>7, ScanFacts, ChainTypes DEF CursorIsReached
<1>12. PaymentsAreTrue' /\ NoTicketsForOrphans'
  BY <1>7 DEF IInv, PaymentsAreTrue, NoTicketsForOrphans, Sighted
<1>13. payment' \in [Transfers -> Payment \cup {NoPayment}]
  BY <1>7 DEF IInv, TypeOK
<1> QED
  BY <1>3, <1>5, <1>6, <1>7, <1>9, <1>10, <1>11, <1>12, <1>13, ChainTypes, ScanMoves DEF chainVars

LEMMA ReadPendingStep ==
    ASSUME IInv, NEW s \in Scans, ReadPending(s)
    PROVE  IInv'
<1>1. PICK bs : bs = {payment[t].block : t \in Confirmable(scan[s].head)}
  OBVIOUS
<1>2. \A b \in bs : b \in 1..Height /\ b + Confirmations - 1 <= scan[s].head
  <2>1. ASSUME NEW t \in Confirmable(scan[s].head)
        PROVE  payment[t].block \in 1..Height
               /\ payment[t].block + Confirmations - 1 <= scan[s].head
    <3>1. payment[t] \in Payment /\ scan[s].head - payment[t].block + 1 >= Confirmations
      BY <2>1, ChainTypes DEF Confirmable, Deep
    <3>2. payment[t].block \in 1..Height
      BY <3>1 DEF Payment
    <3> QED
      BY <3>1, <3>2, ScanFacts, MonitorAssumption
  <2> QED
    BY <1>1, <2>1
<1>3. PICK c : c = [b \in bs |-> 0]
  OBVIOUS
<1>4. c \in Canonicals /\ DOMAIN c = bs
  <2>1. 0 \in Hashes
    BY MonitorAssumption DEF Hashes
  <2> QED
    BY <1>2, <1>3, <2>1 DEF Canonicals
<1>5. PICK q : q = [scan[s] EXCEPT !.pc = "blocks", !.canonical = c]
  OBVIOUS
<1>6. q \in ScanStates /\ q.pc = "blocks" /\ q.head = scan[s].head /\ q.logs = scan[s].logs
      /\ q.canonical = c
  BY <1>4, <1>5, ScanFacts DEF ScanStates
<1>7. scan' = [scan EXCEPT ![s] = q]
  BY <1>1, <1>3, <1>5 DEF ReadPending, IInv, ScansTyped
<1>8. ScanIsSound(q)
  BY <1>2, <1>4, <1>6, ScanFacts
     DEF ScanIsSound, HeadIsReached, LogsAreTrue, LookedUpIsDeep, NothingIsPassed
<1> QED
  BY <1>6, <1>7, <1>8, ScanGoesOn, ChainTypes DEF ReadPending

LEMMA FetchBlocksStep ==
    ASSUME IInv, NEW s \in Scans, FetchBlocks(s)
    PROVE  IInv'
<1>1. PICK old \in Canonicals : old = scan[s].canonical
  BY ScanFacts
<1>2. PICK c : c = [b \in DOMAIN old |-> chain[b]]
  OBVIOUS
<1>3. \A b \in DOMAIN old : b \in 1..Height /\ b + Confirmations - 1 <= scan[s].head
                            /\ b \in 1..Len(chain)
  <2>1. DOMAIN old \subseteq 1..Height
    BY CanonicalFacts
  <2>2. scan[s].head \in Int /\ scan[s].head <= Len(chain) /\ Len(chain) \in Int
    BY ScanFacts, ChainTypes DEF ScanIsSound, HeadIsReached
  <2>3. \A b \in DOMAIN old : b + Confirmations - 1 <= scan[s].head
    BY <1>1, ScanFacts DEF FetchBlocks, At, ScanIsSound, LookedUpIsDeep
  <2>4. Confirmations \in Int /\ Confirmations >= 1
    BY MonitorAssumption
  <2> QED
    BY <2>1, <2>2, <2>3, <2>4
<1>4. c \in Canonicals /\ DOMAIN c = DOMAIN old
  BY <1>2, <1>3, ChainTypes DEF Canonicals
<1>5. PICK q : q = [scan[s] EXCEPT !.pc = "confirm", !.canonical = c]
  OBVIOUS
<1>6. q \in ScanStates /\ q.pc = "confirm" /\ q.head = scan[s].head /\ q.logs = scan[s].logs
      /\ q.canonical = c
  BY <1>4, <1>5, ScanFacts DEF ScanStates
<1>7. scan' = [scan EXCEPT ![s] = q]
  BY <1>1, <1>2, <1>5 DEF FetchBlocks, IInv, ScansTyped
<1>8. ScanIsSound(q)
  BY <1>2, <1>3, <1>4, <1>6, ScanFacts
     DEF ScanIsSound, HeadIsReached, LogsAreTrue, LookedUpIsDeep, NothingIsPassed
<1> QED
  BY <1>6, <1>7, <1>8, ScanGoesOn, ChainTypes DEF FetchBlocks

\* What a scan confirms is deep, and in the canonical chain by now.
LEMMA ConfirmedIsCanonical ==
    ASSUME IInv, NEW s \in Scans, Confirm(s), NEW t \in Transfers,
           t \in Confirmable(scan[s].head), Canonical(t, scan[s].canonical)
    PROVE  /\ payment[t].block + Confirmations - 1 <= Len(chain)
           /\ place[t] = payment[t].block /\ chain[place[t]] = payment[t].hash
           /\ payment[t] # NoPayment /\ payment[t] \in Payment
<1>0. scan[s].pc = "confirm" /\ LookedUpIsDeep(scan[s]) /\ scan[s].head <= Len(chain)
      /\ scan[s].head \in Int
  BY ScanFacts DEF Confirm, At, ScanIsSound, HeadIsReached
<1>1. payment[t] # NoPayment /\ payment[t] \in Payment
  BY ChainTypes DEF Confirmable
<1>2. Sighted(t, payment[t].block, payment[t].hash)
  BY <1>1 DEF IInv, PaymentsAreTrue
<1>3. /\ payment[t].block + Confirmations - 1 <= scan[s].head
      /\ chain[payment[t].block] = payment[t].hash
  BY <1>0 DEF LookedUpIsDeep, Canonical
<1>4. payment[t].block \in Int
  BY <1>1 DEF Payment
<1>5. place[t] = payment[t].block
  BY <1>2, <1>3 DEF Sighted
<1>6. payment[t].block + Confirmations - 1 <= Len(chain)
  BY <1>0, <1>3, <1>4, ChainTypes, MonitorAssumption
<1> QED
  BY <1>1, <1>3, <1>5, <1>6

LEMMA ConfirmStep ==
    ASSUME IInv, NEW s \in Scans, Confirm(s)
    PROVE  IInv'
<1>1. UNCHANGED <<chain, place, reorgs, cursor, failures>>
  BY DEF Confirm, chainVars
<1>2. ASSUME NEW t \in Transfers, t \in Confirmable(scan[s].head),
             Canonical(t, scan[s].canonical)
      PROVE  /\ payment[t].block + Confirmations - 1 <= Len(chain)
             /\ place[t] = payment[t].block /\ chain[place[t]] = payment[t].hash
  BY <1>2, ConfirmedIsCanonical
<1>3. ASSUME NEW t \in Transfers
      PROVE  /\ payment'[t] \in Payment \cup {NoPayment}
             /\ payment'[t] # NoPayment <=> payment[t] # NoPayment
             /\ payment'[t] # NoPayment => /\ payment'[t].block = payment[t].block
                                           /\ payment'[t].hash = payment[t].hash
             /\ \/ payment'[t] = payment[t]
                \/ t \in Confirmable(scan[s].head) /\ Canonical(t, scan[s].canonical)
  <2>1. CASE t \in Confirmable(scan[s].head) /\ Canonical(t, scan[s].canonical)
    <3>1. payment[t] # NoPayment /\ payment[t] \in Payment
      BY <2>1, ChainTypes DEF Confirmable
    <3>2. payment'[t] = [payment[t] EXCEPT !.status = "confirmed"]
      BY <2>1 DEF Confirm
    <3>3. payment'[t] \in Payment /\ payment'[t].block = payment[t].block
          /\ payment'[t].hash = payment[t].hash
      BY <3>1, <3>2 DEF Payment
    <3> QED
      BY <2>1, <3>1, <3>3, NoPaymentAssumption
  <2>2. CASE ~(t \in Confirmable(scan[s].head) /\ Canonical(t, scan[s].canonical))
    <3>1. payment'[t] = payment[t]
      BY <2>2 DEF Confirm
    <3> QED
      BY <3>1, ChainTypes
  <2> QED
    BY <2>1, <2>2
<1>4. payment' \in [Transfers -> Payment \cup {NoPayment}]
  BY <1>3 DEF Confirm
<1>5. ScanIsSound(Idle)'
  BY <1>1, ChainTypes DEF Idle, ScanIsSound, HeadIsReached, LogsAreTrue, LookedUpIsDeep, NothingIsPassed
<1>6. PaymentsAreTrue'
  BY <1>1, <1>2, <1>3 DEF IInv, PaymentsAreTrue, Sighted
<1>7. NoTicketsForOrphans'
  BY <1>1, <1>2, <1>3 DEF IInv, NoTicketsForOrphans
<1>8. NothingBehindIsMissed' /\ CursorIsReached'
  BY <1>1, <1>3 DEF IInv, NothingBehindIsMissed, CursorIsReached
<1>9. scan' = [scan EXCEPT ![s] = Idle]
  BY DEF Confirm
<1> QED
  BY <1>1, <1>3, <1>4, <1>5, <1>6, <1>7, <1>8, <1>9, IdleTyped, ChainTypes, ScanMoves DEF chainVars

LEMMA FailStep ==
    ASSUME IInv, NEW s \in Scans, Fail(s)
    PROVE  IInv'
<1>1. ScanIsSound(Idle)
  BY ChainTypes DEF Idle, ScanIsSound, HeadIsReached, LogsAreTrue, LookedUpIsDeep, NothingIsPassed
<1>2. failures' \in 0..MaxFailures
  BY ChainTypes, MonitorAssumption DEF Fail
<1> QED
  BY <1>1, <1>2, IdleTyped, ScanGoesOn DEF Fail

-----------------------------------------------------------------------------
(* The chain.                                                              *)

\* Nothing below the deepest reorganization changes.
LEMMA ChainMoves ==
    ASSUME IInv, KnowledgeRemains, UNCHANGED <<failures, cursor, payment, scan>>,
           chain' \in Seq(Hashes), Len(chain') <= Height,
           place' \in [Transfers -> 0..Len(chain')], reorgs' \in 0..MaxReorgs, HashesAreNamed'
    PROVE  IInv'
<1>1. ScansTyped'
  BY DEF IInv, ScansTyped
<1>2. TypeOK'
  BY <1>1, AllTypes DEF IInv, TypeOK
<1>3. CursorIsReached'
  BY ChainTypes DEF IInv, CursorIsReached, KnowledgeRemains
<1>4. ASSUME NEW p \in Scans, NEW r, r = scan[p] PROVE ScanIsSound(r)'
  BY <1>4, ScanFacts, SoundScansRemain
<1>5. \A p \in Scans : \A r : r = scan'[p] => ScanIsSound(r)'
  BY <1>4
<1>6. ScansAreSound'
  BY <1>5 DEF ScansAreSound, ScanIsSound, HeadIsReached, LogsAreTrue, LookedUpIsDeep,
              NothingIsPassed, Passed, ChunkEnd, Sighted
<1>7. ASSUME NEW t \in Transfers, payment[t] # NoPayment
      PROVE  /\ Sighted(t, payment[t].block, payment[t].hash)
             /\ Sighted(t, payment[t].block, payment[t].hash)'
             /\ payment[t].block \in Int /\ payment[t].block >= 1
  <2>1. payment[t].block \in Int /\ payment[t].block >= 1
    BY <1>7, ChainTypes DEF Payment
  <2>2. ASSUME NEW b, NEW h, b = payment[t].block, h = payment[t].hash
        PROVE  Sighted(t, b, h) /\ Sighted(t, b, h)'
    BY <1>7, <2>2 DEF IInv, PaymentsAreTrue, KnowledgeRemains
  <2> QED
    BY <2>1, <2>2
<1>8. ASSUME NEW t \in Transfers, payment[t] # NoPayment, payment[t].status = "confirmed"
      PROVE  /\ payment[t].block + Confirmations - 1 <= Len(chain')
             /\ place'[t] = payment[t].block /\ chain'[place'[t]] = payment[t].hash
  <2>1. /\ payment[t].block + Confirmations - 1 <= Len(chain)
        /\ place[t] = payment[t].block /\ chain[place[t]] = payment[t].hash
    BY <1>8 DEF IInv, PaymentsAreTrue, NoTicketsForOrphans
  <2>2. payment[t].block \in 1..(Len(chain) - Shallow)
    BY SMTT(30), <1>7, <1>8, <2>1, ChainTypes, MonitorAssumption
  <2>3. chain'[payment[t].block] = payment[t].hash
    BY <2>1, <2>2 DEF KnowledgeRemains
  <2>4. place'[t] = payment[t].block
    BY <1>7, <1>8, <2>3 DEF Sighted
  <2> QED
    BY <1>7, <1>8, <2>1, <2>3, <2>4, ChainTypes, MonitorAssumption DEF KnowledgeRemains
<1>9. PaymentsAreTrue'
  BY <1>7, <1>8 DEF PaymentsAreTrue, Sighted
<1>10. NoTicketsForOrphans'
  BY <1>8 DEF NoTicketsForOrphans
<1>11. NothingBehindIsMissed'
  <2>1. ASSUME NEW t \in Transfers, place'[t] \in 1..(cursor - Lookback)
        PROVE  place'[t] = place[t]
    <3>1. place'[t] \in 1..(Len(chain) - Shallow)
      BY <2>1, ChainTypes, MonitorAssumption DEF IInv, CursorIsReached
    <3> QED
      BY <3>1 DEF KnowledgeRemains
  <2> QED
    BY <2>1 DEF IInv, NothingBehindIsMissed
<1> QED
  BY <1>1, <1>2, <1>3, <1>6, <1>9, <1>10, <1>11 DEF IInv

LEMMA MineStep ==
    ASSUME IInv, Mine
    PROVE  IInv' /\ KnowledgeRemains
<1> DEFINE n == Len(chain)
<1>1. PICK included \in SUBSET {t \in Transfers : place[t] = 0} :
          place' = [t \in Transfers |-> IF t \in included THEN n + 1 ELSE place[t]]
  BY DEF Mine
<1>2. chain \in Seq(Hashes) /\ chain' = Append(chain, reorgs) /\ reorgs \in Hashes /\ n < Height
  BY ChainTypes DEF Mine, IInv, TypeOK, Hashes
<1>3. /\ chain' \in Seq(Hashes) /\ Len(chain') = n + 1 /\ n \in Nat
      /\ chain'[n + 1] = reorgs /\ \A b \in 1..n : chain'[b] = chain[b]
  BY <1>2
<1>4. UNCHANGED <<reorgs, failures, cursor, payment, scan>>
  BY DEF Mine
<1>5. ASSUME NEW t \in Transfers
      PROVE  /\ place[t] \in 0..n /\ (place'[t] = place[t] \/ place'[t] = n + 1)
             /\ place[t] > 0 => place'[t] = place[t]
  BY <1>1, ChainTypes
<1>6. place' \in [Transfers -> 0..Len(chain')]
  BY <1>1, <1>3, ChainTypes
<1>7. HashesAreNamed'
  BY <1>3, <1>4, ChainTypes DEF IInv, HashesAreNamed
<1>8. KnowledgeRemains
  <2>1. ASSUME NEW t \in Transfers, NEW b, NEW h, Sighted(t, b, h) PROVE Sighted(t, b, h)'
    <3>1. b \in 1..n /\ b \in 1..(n + 1) /\ chain'[b] = chain[b]
      BY <1>3, <2>1 DEF Sighted
    <3>2. chain[b] = h => place'[t] = b
      BY <1>5, <2>1, <3>1 DEF Sighted
    <3> QED
      BY <1>3, <1>4, <2>1, <3>1, <3>2 DEF Sighted
  <2>2. \A b \in 1..(n - Shallow) : chain'[b] = chain[b]
    BY <1>3, MonitorAssumption
  <2>3. \A t \in Transfers : place'[t] \in 1..(n - Shallow) => place[t] = place'[t]
    BY <1>3, <1>5, MonitorAssumption
  <2> QED
    BY <1>3, <1>4, <2>1, <2>2, <2>3 DEF KnowledgeRemains
<1>9. Len(chain') <= Height /\ reorgs' \in 0..MaxReorgs
  BY <1>2, <1>3, <1>4, ChainTypes, MonitorAssumption
<1> QED
  BY <1>3, <1>4, <1>6, <1>7, <1>8, <1>9, ChainMoves, ChainTypes

LEMMA ReorganizeStep ==
    ASSUME IInv, NEW depth \in 1..Shallow, Reorganize(depth)
    PROVE  IInv' /\ KnowledgeRemains
<1> DEFINE n == Len(chain)
           kept == n - depth
           dropped == {t \in Transfers : place[t] > kept}
<1>0. n \in Nat /\ kept \in Nat /\ kept >= n - Shallow /\ kept <= n
  BY ChainTypes, MonitorAssumption DEF Reorganize
<1>1. PICK again \in [dropped -> {0} \cup (kept + 1)..n] :
          place' = [t \in Transfers |-> IF t \in dropped THEN again[t] ELSE place[t]]
  BY DEF Reorganize
<1>2. /\ reorgs' = reorgs + 1 /\ reorgs' \in 0..MaxReorgs /\ reorgs' \in Hashes
      /\ chain' = [b \in 1..n |-> IF b <= kept THEN chain[b] ELSE reorgs']
  BY ChainTypes, MonitorAssumption DEF Reorganize, Hashes
<1>3. UNCHANGED <<failures, cursor, payment, scan>>
  BY DEF Reorganize
<1>4. chain' \in Seq(Hashes) /\ Len(chain') = n
  BY <1>0, <1>2, ChainTypes
<1>5. \A b \in 1..n : chain'[b] = IF b <= kept THEN chain[b] ELSE reorgs'
  BY <1>2
<1>6. ASSUME NEW t \in Transfers
      PROVE  /\ place[t] \in 0..n /\ place'[t] \in 0..n
             /\ place[t] <= kept => place'[t] = place[t]
             /\ place[t] > kept => place'[t] = 0 \/ place'[t] > kept
  <2>1. place[t] \in 0..n
    BY ChainTypes
  <2>2. CASE place[t] > kept
    <3>1. t \in dropped /\ place'[t] = again[t]
      BY <1>1, <2>2
    <3>2. again[t] \in {0} \cup (kept + 1)..n
      BY <3>1
    <3> HIDE DEF kept, n
    <3> QED
      BY <1>0, <2>1, <2>2, <3>1, <3>2
  <2>3. CASE ~(place[t] > kept)
    BY <1>0, <1>1, <2>1, <2>3
  <2> QED
    BY <2>2, <2>3
<1>7. place' \in [Transfers -> 0..Len(chain')]
  BY <1>1, <1>4, <1>6
<1>8. HashesAreNamed'
  BY <1>2, <1>4, <1>5, ChainTypes DEF IInv, HashesAreNamed
<1>9. KnowledgeRemains
  <2>1. ASSUME NEW t \in Transfers, NEW b, NEW h, Sighted(t, b, h) PROVE Sighted(t, b, h)'
    <3>1. b \in 1..n /\ h \in 0..reorgs /\ h \in 0..reorgs' /\ h # reorgs'
      BY <1>2, <2>1, ChainTypes DEF Sighted
    <3>2. chain'[b] = h => place'[t] = b
      BY <1>0, <1>5, <1>6, <2>1, <3>1 DEF Sighted
    <3> QED
      BY <1>4, <3>1, <3>2 DEF Sighted
  <2>2. \A b \in 1..(n - Shallow) : chain'[b] = chain[b]
    BY <1>0, <1>5, MonitorAssumption
  <2>3. \A t \in Transfers : place'[t] \in 1..(n - Shallow) => place[t] = place'[t]
    BY <1>0, <1>6, MonitorAssumption
  <2> QED
    BY <1>0, <1>3, <1>4, <2>1, <2>2, <2>3 DEF KnowledgeRemains
<1> QED
  BY <1>2, <1>3, <1>4, <1>7, <1>8, <1>9, ChainMoves, ChainTypes

-----------------------------------------------------------------------------
(* Theorems.                                                               *)

LEMMA InitIsSound == Init => IInv
<1> SUFFICES ASSUME Init PROVE IInv
  OBVIOUS
<1>1. /\ chain = <<>> /\ reorgs = 0 /\ failures = 0 /\ cursor = 0
      /\ place = [t \in Transfers |-> 0] /\ payment = [t \in Transfers |-> NoPayment]
      /\ scan = [s \in Scans |-> Idle]
  BY DEF Init
<1>2. chain \in Seq(Hashes) /\ Len(chain) = 0
  BY <1>1
<1>3. ScansTyped /\ \A s \in Scans : scan[s] = Idle
  BY <1>1, IdleTyped DEF ScansTyped
<1>4. TypeOK
  <2>1. \A s \in Scans : DOMAIN scan[s].canonical \subseteq 1..Height
    BY <1>3, CanonicalFacts DEF ScansTyped, ScanStates
  <2> QED
    BY <1>1, <1>2, <1>3, <2>1, MonitorAssumption DEF TypeOK, Idle
<1>5. HashesAreNamed /\ CursorIsReached /\ PaymentsAreTrue /\ NoTicketsForOrphans
      /\ NothingBehindIsMissed
  BY <1>1, <1>2, MonitorAssumption
     DEF HashesAreNamed, CursorIsReached, PaymentsAreTrue, NoTicketsForOrphans, NothingBehindIsMissed
<1>6. ScansAreSound
  BY <1>2, <1>3 DEF Idle, ScansAreSound, ScanIsSound, HeadIsReached, LogsAreTrue,
                    LookedUpIsDeep, NothingIsPassed
<1> QED
  BY <1>3, <1>4, <1>5, <1>6 DEF IInv

LEMMA StepIsSound == IInv /\ [Next]_vars => IInv'
<1> SUFFICES ASSUME IInv, [Next]_vars PROVE IInv'
  OBVIOUS
<1>1. CASE UNCHANGED vars
  <2>1. KnowledgeRemains
    BY <1>1, QuietChain DEF vars
  <2>2. chain' \in Seq(Hashes) /\ place' \in [Transfers -> 0..Len(chain')] /\ HashesAreNamed'
    BY <1>1 DEF vars, chainVars, IInv, TypeOK, HashesAreNamed
  <2> QED
    BY <1>1, <2>1, <2>2, ChainMoves, ChainTypes DEF vars, chainVars
<1>2. CASE Mine
  BY <1>2, MineStep
<1>3. CASE \E depth \in 1..Shallow : Reorganize(depth)
  BY <1>3, ReorganizeStep
<1>4. ASSUME NEW s \in Scans, Step(s) PROVE IInv'
  BY <1>4, BeginStep, ReadCursorStep, FetchLogsStep, RecordStep, SaveCursorStep,
     ReadPendingStep, FetchBlocksStep, ConfirmStep DEF Step
<1>5. ASSUME NEW s \in Scans, Fail(s) PROVE IInv'
  BY <1>5, FailStep
<1> QED
  BY <1>1, <1>2, <1>3, <1>4, <1>5 DEF Next

\* However many scans overlap and die, and whatever shallow reorganizations
\* happen between their calls: what a scan knows of deep blocks is true, and
\* what it has passed is on record.
THEOREM Sound == Spec => []IInv
  BY InitIsSound, StepIsSound, PTL DEF Spec

\* Cursors, heads and blocks stay in the chain's range, also where the lookback
\* reaches below the first block.
THEOREM TypeCorrect == Spec => []TypeOK
<1>1. IInv => TypeOK
  BY DEF IInv
<1> QED
  BY <1>1, Sound, PTL

\* Tickets are issued only for payments that are, and stay, in the canonical
\* chain, in the block they were recorded with.
THEOREM ConfirmedStaysOnChain == Spec => []NoTicketsForOrphans
<1>1. IInv => NoTicketsForOrphans
  BY DEF IInv
<1> QED
  BY <1>1, Sound, PTL

\* No transfer is lost behind the cursor, whichever scans overtake each other,
\* die, or ask a node that lags.
THEOREM CursorMissesNothing == Spec => []NothingBehindIsMissed
<1>1. IInv => NothingBehindIsMissed
  BY DEF IInv
<1> QED
  BY <1>1, Sound, PTL

-----------------------------------------------------------------------------
(* ChainMonitor implements Clearing.                                       *)

\* Mining and shallow reorganizations leave a buried transfer where it is.
LEMMA ChainSettles ==
    ASSUME IInv, IInv', KnowledgeRemains, UNCHANGED payment
    PROVE  Promise!Settle
<1>1. ASSUME NEW t \in Transfers, Promise!Buried(t)
      PROVE  place'[t] = place[t]
  <2>1. PICK b : b = place[t]
    OBVIOUS
  <2>2. b \in 1..(Len(chain) - Shallow) /\ b \in 1..Len(chain)
    BY <1>1, <2>1, ChainTypes, MonitorAssumption DEF Promise!Buried
  <2>3. Sighted(t, b, chain[b])
    BY <2>1, <2>2, ChainTypes DEF Sighted
  <2>4. PICK h : h = chain[b] /\ Sighted(t, b, h)
    BY <2>3
  <2>5. Sighted(t, b, h)' /\ chain'[b] = h
    BY <2>2, <2>4 DEF KnowledgeRemains
  <2> QED
    BY <2>1, <2>5 DEF Sighted
<1>2. Len(chain') \in Nat /\ Len(chain') >= Len(chain)
  BY ChainTypes DEF KnowledgeRemains
<1>3. place' \in [Transfers -> 0..Len(chain')]
  BY DEF IInv, TypeOK
<1>4. UNCHANGED <<SightedBlock, ConfirmedTransfers>>
  BY DEF SightedBlock, ConfirmedTransfers
<1> QED
  BY <1>1, <1>2, <1>3, <1>4 DEF Promise!Settle

\* A first sighting is final; a hash on record is left alone.
LEMMA RecordSights ==
    ASSUME IInv, NEW s \in Scans, Record(s)
    PROVE  \/ \E t \in Transfers : Promise!Sight(t)
           \/ UNCHANGED <<Len(chain), place, SightedBlock, ConfirmedTransfers>>
<1>1. PICK l \in scan[s].logs :
          payment' = IF payment[l.tx] # NoPayment THEN payment
                     ELSE [payment EXCEPT ![l.tx] =
                              [block |-> l.block, hash |-> l.hash, status |-> "payment_detected"]]
  BY DEF Record
<1>2. l \in Log /\ Sighted(l.tx, l.block, l.hash) /\ l.tx \in Transfers
  BY ScanFacts DEF ScanIsSound, LogsAreTrue, Log
<1>3. UNCHANGED <<chain, place>>
  BY DEF Record, chainVars
<1>4. CASE payment[l.tx] # NoPayment
  BY <1>1, <1>3, <1>4 DEF SightedBlock, ConfirmedTransfers
<1>5. CASE payment[l.tx] = NoPayment
  <2>1. PICK p : p = [block |-> l.block, hash |-> l.hash, status |-> "payment_detected"]
    OBVIOUS
  <2>2. p \in Payment /\ p # NoPayment /\ p.block = l.block /\ p.status = "payment_detected"
    BY <1>2, <2>1, NoPaymentAssumption DEF Log, Payment
  <2>3. payment' = [payment EXCEPT ![l.tx] = p] /\ payment \in [Transfers -> Payment \cup {NoPayment}]
    BY <1>1, <1>5, <2>1 DEF IInv, TypeOK
  <2>4. /\ payment'[l.tx] = p
        /\ \A t \in Transfers : t # l.tx => payment'[t] = payment[t]
    BY <1>2, <2>3
  <2>5. SightedBlock' = [SightedBlock EXCEPT ![l.tx] = l.block]
    BY <1>2, <2>2, <2>4 DEF SightedBlock
  <2>6. ConfirmedTransfers' = ConfirmedTransfers
    BY <1>2, <1>5, <2>2, <2>4 DEF ConfirmedTransfers
  <2>7. l.block \in 1..Len(chain) /\ SightedBlock[l.tx] = 0
    BY <1>2, <1>5 DEF Sighted, SightedBlock
  <2>8. Promise!Sight(l.tx)
    BY <1>3, <2>5, <2>6, <2>7 DEF Promise!Sight
  <2> QED
    BY <1>2, <2>8
<1> QED
  BY <1>4, <1>5

LEMMA ConfirmClears ==
    ASSUME IInv, NEW s \in Scans, Confirm(s)
    PROVE  \E ts \in SUBSET Transfers : Promise!Clear(ts)
<1> DEFINE Passes(t) == t \in Confirmable(scan[s].head) /\ Canonical(t, scan[s].canonical)
           ts == {t \in Transfers : Passes(t)}
<1>1. UNCHANGED <<chain, place>>
  BY DEF Confirm, chainVars
<1>2. ASSUME NEW t \in ts
      PROVE  /\ place[t] = payment[t].block /\ payment[t] # NoPayment
             /\ payment[t] \in Payment /\ payment[t].block + Confirmations - 1 <= Len(chain)
  BY ConfirmedIsCanonical
<1>3. ASSUME NEW t \in ts
      PROVE  Promise!Buried(t) /\ SightedBlock[t] = place[t]
  <2>1. payment[t].block \in 1..Height /\ SightedBlock[t] = payment[t].block
    BY <1>2 DEF Payment, SightedBlock
  <2>2. PICK b \in Nat : b = place[t] /\ b > 0 /\ b + Confirmations - 1 <= Len(chain)
    BY <1>2, <2>1, MonitorAssumption
  <2>3. Len(chain) - b + 1 >= Confirmations
    BY <2>2, ChainTypes, MonitorAssumption
  <2> QED
    BY <1>2, <2>1, <2>2, <2>3 DEF Promise!Buried
<1>4. ASSUME NEW t \in Transfers, t \notin ts
      PROVE  payment'[t] = payment[t]
  BY <1>4 DEF Confirm
<1>5. ASSUME NEW t \in ts
      PROVE  /\ payment'[t] # NoPayment /\ payment'[t].status = "confirmed"
             /\ payment'[t].block = payment[t].block
  <2>1. payment'[t] = [payment[t] EXCEPT !.status = "confirmed"]
    BY DEF Confirm
  <2>2. payment'[t] \in Payment /\ payment'[t].status = "confirmed"
        /\ payment'[t].block = payment[t].block
    BY <1>2, <2>1 DEF Payment
  <2> QED
    BY <2>2, NoPaymentAssumption
<1> HIDE DEF ts
<1>6. ts \subseteq Transfers
  BY DEF ts
<1>7. SightedBlock' = SightedBlock
  BY <1>2, <1>4, <1>5 DEF SightedBlock
<1>8. ConfirmedTransfers' = ConfirmedTransfers \cup ts
  BY <1>4, <1>5, <1>6 DEF ConfirmedTransfers
<1>9. Promise!Clear(ts)
  BY <1>1, <1>3, <1>7, <1>8 DEF Promise!Clear
<1> QED
  BY <1>6, <1>9

LEMMA StepKeepsPromise ==
    ASSUME IInv, IInv', [Next]_vars
    PROVE  [Promise!Next]_<<Len(chain), place, SightedBlock, ConfirmedTransfers>>
<1>1. ASSUME UNCHANGED <<chain, place, payment>>
      PROVE  UNCHANGED <<Len(chain), place, SightedBlock, ConfirmedTransfers>>
  BY <1>1 DEF SightedBlock, ConfirmedTransfers
<1>2. CASE UNCHANGED vars
  BY <1>1, <1>2 DEF vars, chainVars
<1>3. CASE Mine
  BY <1>3, MineStep, ChainSettles DEF Mine, Promise!Next
<1>4. CASE \E depth \in 1..Shallow : Reorganize(depth)
  BY <1>4, ReorganizeStep, ChainSettles DEF Reorganize, Promise!Next
<1>5. ASSUME NEW s \in Scans, Step(s)
      PROVE  [Promise!Next]_<<Len(chain), place, SightedBlock, ConfirmedTransfers>>
  <2>1. CASE Record(s)
    BY <2>1, RecordSights DEF Promise!Next
  <2>2. CASE Confirm(s)
    BY <2>2, ConfirmClears DEF Promise!Next
  <2>3. CASE \/ Begin(s) \/ ReadCursor(s) \/ FetchLogs(s) \/ SaveCursor(s)
             \/ ReadPending(s) \/ FetchBlocks(s)
    BY <1>1, <2>3
       DEF Begin, ReadCursor, FetchLogs, SaveCursor, ReadPending, FetchBlocks, chainVars
  <2> QED
    BY <1>5, <2>1, <2>2, <2>3 DEF Step
<1>6. ASSUME NEW s \in Scans, Fail(s)
      PROVE  UNCHANGED <<Len(chain), place, SightedBlock, ConfirmedTransfers>>
  BY <1>1, <1>6 DEF Fail, chainVars
<1> QED
  BY <1>2, <1>3, <1>4, <1>5, <1>6 DEF Next

\* The monitor implements Clearing: whatever scans overlap, die or act on what they
\* read long ago, a transfer is cleared in the block of its first sighting, and
\* while nothing can take it out of there.
THEOREM Refinement == Spec => KeepsPromise
<1>1. Init => Promise!Init
  BY DEF Init, Promise!Init, SightedBlock, ConfirmedTransfers
<1>2. IInv /\ IInv' /\ [Next]_vars
         => [Promise!Next]_<<Len(chain), place, SightedBlock, ConfirmedTransfers>>
  BY StepKeepsPromise
<1> QED
  BY <1>1, <1>2, Sound, PTL DEF Spec, KeepsPromise, Promise!Spec
=============================================================================
