--------------------- MODULE SettlementExclusive_proofs ---------------------
(***************************************************************************)
(* What the payout promises beyond Settlement_proofs when no call outlives *)
(* its lease and no process works on one round twice: then at most one     *)
(* call is ever at work on a settlement, so what it read stays true until  *)
(* it writes, and the rows of settlement, legs and round agree.            *)
(***************************************************************************)
EXTENDS Settlement_proofs

\* No lease runs out under a running call, and overlapping calls run in
\* different processes: a lease names the process, not the call.
Exclusive == /\ MaxExpiries = 0
             /\ \A c, d \in Calls : WorkerOf[c] = WorkerOf[d] => c = d

\* The rows of a settlement agree with one another and with the chain.
BroadcastAgrees(s) ==
    \A k \in Kinds : legs[s][k] = "broadcast" =>
        settlements[s] = SubmittedStatus(k) /\ rounds[s] = "payout_broadcast"
EndAgrees(s) ==
    settlements[s] = "settled" \/ rounds[s] = "completed" \/ legs[s][Treasury] = "confirmed" =>
        /\ settlements[s] = "settled"
        /\ rounds[s] = "completed"
        /\ \A k \in Kinds : legs[s][k] = "confirmed" /\ Paid(s, k)
RowsAgree(s) == BroadcastAgrees(s) /\ EndAgrees(s)

\* The rows are what a call needs at a label, for the leg it carries.
Ready(s, label, k) ==
    /\ label \in {"broadcast", "ambiguous", "submitted"} => legs[s][k] = "signed"
    /\ label \in {"verify", "confirm"} => legs[s][k] = "broadcast"
    /\ label = "sign" => legs[s][Winner] = "confirmed" \/ settlements[s] # "blocked"

\* A running call holds the lease, and what it acts on is still so.
CallKeepsUp(c) ==
    pc[c] # "idle" => lease[at[c]] = WorkerOf[c] /\ Ready(at[c], pc[c], leg[c])

ExInv == (\A s \in Settlements : RowsAgree(s)) /\ (\A c \in Calls : CallKeepsUp(c))

-----------------------------------------------------------------------------
(* Frames: what a step does not touch stays as it was.                      *)

Untouched(t) == /\ settlements'[t] = settlements[t]
                /\ legs'[t] = legs[t]
                /\ rounds'[t] = rounds[t]

StandsStill(d) == pc'[d] = pc[d] /\ at'[d] = at[d] /\ leg'[d] = leg[d]

LEMMA RowsKept ==
    ASSUME StateTyped, ChainGrows, NEW t \in Settlements, Untouched(t), RowsAgree(t)
    PROVE  RowsAgree(t)'
  <1>1. BroadcastAgrees(t)'
    BY DEF RowsAgree, BroadcastAgrees, Untouched, SubmittedStatus
  <1>2. \A k \in Kinds : Paid(t, k) => Paid(t, k)'
    BY PaidKept
  <1>3. EndAgrees(t)'
    BY <1>2 DEF RowsAgree, EndAgrees, Untouched
  <1>4. QED
    BY <1>1, <1>3 DEF RowsAgree

LEMMA CallKept ==
    ASSUME NEW d \in Calls, StandsStill(d), CallKeepsUp(d),
           pc[d] # "idle" => Untouched(at[d]) /\ lease'[at[d]] = lease[at[d]]
    PROVE  CallKeepsUp(d)'
  BY DEF CallKeepsUp, Ready, StandsStill, Untouched

\* Two running calls are never on one settlement.
LEMMA AloneThere ==
    ASSUME Exclusive, ExInv, NEW c \in Calls, NEW d \in Calls, c # d,
           pc[c] # "idle", pc[d] # "idle"
    PROVE  at[c] # at[d]
  BY DEF Exclusive, ExInv, CallKeepsUp

\* The call moves to a label, carrying a leg, and no other call moves.
Moves(c, label, k) ==
    /\ pc'[c] = label /\ at'[c] = at[c] /\ leg'[c] = k
    /\ \A d \in Calls : d # c => StandsStill(d)

LEMMA GotoMoves ==
    ASSUME CallsTyped, NEW c \in Calls, NEW label, Goto(c, label)
    PROVE  Moves(c, label, leg[c])
  BY DEF CallsTyped, Goto, Moves, StandsStill

LEMMA CarryMoves ==
    ASSUME CallsTyped, NEW c \in Calls, NEW label, NEW k, NEW n, Carry(c, label, k, n)
    PROVE  Moves(c, label, k)
  BY DEF CallsTyped, Carry, Moves, StandsStill

LEMMA NextIterationMoves ==
    ASSUME CallsTyped, NEW c \in Calls, NextIteration(c)
    PROVE  Moves(c, "read", leg[c])
  BY DEF CallsTyped, NextIteration, Moves, StandsStill

\* Labels at which a call relies on nothing but its lease.
Relaxed == {"read", "lookup", "prepare", "pick", "release"}

LEMMA ReturnedMoves ==
    ASSUME CallsTyped, NEW c \in Calls, NEW status, Returned(c, status)
    PROVE  \E label \in Relaxed : Moves(c, label, leg[c])
  <1>1. CASE status \in Advanced(seen[c])
    BY <1>1, NextIterationMoves DEF Returned, Relaxed
  <1>2. CASE status \notin Advanced(seen[c])
    BY <1>2, GotoMoves DEF Returned, Relaxed
  <1>3. QED
    BY <1>1, <1>2

-----------------------------------------------------------------------------
(* One call acts, on the rows of its settlement.                            *)

LEMMA OneCallActs ==
    ASSUME Exclusive, StateTyped, CallsTyped, ExInv, ChainGrows, UNCHANGED lease,
           NEW c \in Calls, pc[c] # "idle", NEW s \in Settlements, at[c] = s,
           NEW label, label # "idle", NEW k, Moves(c, label, k),
           \A t \in Settlements : t # s => Untouched(t),
           RowsAgree(s)', Ready(s, label, k)'
    PROVE  ExInv'
  <1>1. ASSUME NEW t \in Settlements PROVE RowsAgree(t)'
    <2>1. CASE t = s
      BY <2>1
    <2>2. CASE t # s
      BY <2>2, RowsKept DEF ExInv
    <2>3. QED
      BY <2>1, <2>2
  <1>2. ASSUME NEW d \in Calls PROVE CallKeepsUp(d)'
    <2>1. CASE d = c
      <3>1. pc'[c] = label /\ at'[c] = s /\ leg'[c] = k
        BY DEF Moves
      <3>2. lease'[s] = WorkerOf[c]
        BY DEF ExInv, CallKeepsUp
      <3>3. QED
        BY <2>1, <3>1, <3>2 DEF CallKeepsUp, Ready
    <2>2. CASE d # c
      <3>1. pc[d] # "idle" => at[d] # s /\ at[d] \in Settlements
        BY <2>2, AloneThere DEF CallsTyped
      <3>2. StandsStill(d) /\ CallKeepsUp(d)
        BY <2>2 DEF Moves, ExInv
      <3>3. QED
        BY <3>1, <3>2, CallKept
    <2>3. QED
      BY <2>1, <2>2
  <1>3. QED
    BY <1>1, <1>2 DEF ExInv

\* A step that leaves all rows alone.
LEMMA RowsStay ==
    ASSUME Exclusive, StateTyped, CallsTyped, ExInv, ChainGrows,
           UNCHANGED <<settlements, legs, rounds, lease>>,
           NEW c \in Calls, pc[c] # "idle",
           NEW label, label # "idle", NEW k, Moves(c, label, k), Ready(at[c], label, k)
    PROVE  ExInv'
  <1>1. PICK s \in Settlements : at[c] = s
    BY DEF CallsTyped
  <1>2. \A t \in Settlements : Untouched(t)
    BY DEF Untouched
  <1>3. RowsAgree(s)'
    BY <1>2, RowsKept DEF ExInv
  <1>4. Ready(s, label, k)'
    BY <1>1 DEF Ready
  <1>5. QED
    BY <1>1, <1>2, <1>3, <1>4, OneCallActs

\* The same, when the call ends up where it relies on nothing.
LEMMA RelaxedStays ==
    ASSUME Exclusive, StateTyped, CallsTyped, ExInv, ChainGrows,
           UNCHANGED <<settlements, legs, rounds, lease>>,
           NEW c \in Calls, pc[c] # "idle",
           \E label \in Relaxed : Moves(c, label, leg[c])
    PROVE  ExInv'
  <1>1. PICK label \in Relaxed : Moves(c, label, leg[c])
    OBVIOUS
  <1>2. label # "idle" /\ Ready(at[c], label, leg[c])
    BY DEF Relaxed, Ready
  <1>3. QED
    BY <1>1, <1>2, RowsStay

\* A call that wrote to its rows and ends up where it relies on nothing.
LEMMA RelaxedActs ==
    ASSUME Exclusive, StateTyped, CallsTyped, ExInv, ChainGrows, UNCHANGED lease,
           NEW c \in Calls, pc[c] # "idle", NEW s \in Settlements, at[c] = s,
           \E label \in Relaxed : Moves(c, label, leg[c]),
           \A t \in Settlements : t # s => Untouched(t),
           RowsAgree(s)'
    PROVE  ExInv'
  <1>1. PICK label \in Relaxed, k \in Kinds : Moves(c, label, k)
    BY DEF CallsTyped
  <1>2. label # "idle" /\ Ready(s, label, k)'
    BY DEF Relaxed, Ready
  <1>3. QED
    BY <1>1, <1>2, OneCallActs

-----------------------------------------------------------------------------
(* The steps that write to the rows.                                        *)

\* While the next leg to be paid is not confirmed, nothing else is broadcast
\* and nothing says the payout has ended.
LEMMA LegIsOpen ==
    ASSUME TreasuryWaits, NEW s \in Settlements, RowsAgree(s),
           NEW k \in Kinds, legs[s][k] # "confirmed",
           k = Treasury => legs[s][Winner] = "confirmed"
    PROVE  /\ \A j \in Kinds : j # k => legs[s][j] # "broadcast"
           /\ settlements[s] # "settled" /\ rounds[s] # "completed"
           /\ legs[s][Treasury] # "confirmed"
  <1>1. k = Winner => legs[s][Treasury] \notin HasPayload
    BY DEF TreasuryWaits
  <1>2. QED
    BY <1>1 DEF RowsAgree, EndAgrees, HasPayload, Kinds, Winner, Treasury

\* Writing to a leg that is still open, short of broadcasting it.
LEMMA OpenLegWritten ==
    ASSUME TreasuryWaits, NEW s \in Settlements, RowsAgree(s),
           NEW k \in Kinds, legs[s][k] # "confirmed",
           k = Treasury => legs[s][Winner] = "confirmed",
           \A j \in Kinds : j # k => legs'[s][j] = legs[s][j],
           legs'[s][k] \notin {"broadcast", "confirmed"},
           settlements'[s] # "settled", rounds'[s] = rounds[s]
    PROVE  RowsAgree(s)'
  <1>1. \A j \in Kinds : legs'[s][j] # "broadcast"
    BY LegIsOpen
  <1>2. rounds'[s] # "completed"
    BY LegIsOpen
  <1>3. legs'[s][Treasury] # "confirmed"
    BY LegIsOpen DEF Kinds
  <1>4. QED
    BY <1>1, <1>2, <1>3 DEF RowsAgree, BroadcastAgrees, EndAgrees

\* The next leg is one that may be paid now.
LEMMA NextLegIsOpen ==
    ASSUME NEW s
    PROVE  /\ NextLeg(s) \in Kinds
           /\ NextLeg(s) = Treasury => legs[s][Winner] = "confirmed"
  BY DEF NextLeg, Kinds, Winner, Treasury

\* Stops decides whether the call signs: if it does, the settlement is not
\* blocked, or the winner has been paid.
LEMMA ProceedMoves ==
    ASSUME CallsTyped, NEW c \in Calls, NEW status, Proceed(c, status)
    PROVE  \/ \E label \in Relaxed : Moves(c, label, leg[c])
           \/ /\ Moves(c, "sign", leg[c])
              /\ status # "blocked" \/ legs[at[c]][Winner] = "confirmed"
  <1>1. CASE Stops(at[c], status)
    BY <1>1, ReturnedMoves DEF Proceed
  <1>2. CASE ~Stops(at[c], status)
    BY <1>2, GotoMoves DEF Proceed, Stops
  <1>3. QED
    BY <1>1, <1>2

LEMMA PreflightAgrees ==
    ASSUME Exclusive, StateTyped, CallsTyped, SafeInv, ExInv, NEW c \in Calls,
           NEW result \in {"preparing", "blocked", "retryable"}, Preflight(c, result)
    PROVE  ExInv'
  <1>1. PICK s \in Settlements : s = at[c]
    BY DEF CallsTyped
  <1>2. /\ pc[c] = "prepare" /\ ~PastPreflight(s)
        /\ settlements' = [settlements EXCEPT ![s] = result]
        /\ Proceed(c, result)
        /\ UNCHANGED <<legs, rounds, lease, accepted, outcomes>>
    BY <1>1 DEF Preflight, chainVars
  <1>3. ChainGrows
    BY <1>2 DEF ChainGrows
  <1>4. settlements'[s] = result /\ \A t \in Settlements : t # s => Untouched(t)
    BY <1>2 DEF StateTyped, Untouched
  <1>5. /\ legs[s][Winner] # "confirmed" /\ settlements[s] # "settled"
        /\ \A k \in Kinds : legs[s][k] \notin {"signed", "broadcast"}
    BY <1>2 DEF PastPreflight
  <1>6. RowsAgree(s)'
    <2>1. RowsAgree(s) /\ TreasuryWaits
      BY DEF ExInv, SafeInv
    <2>2. Winner \in Kinds /\ Winner # Treasury
      BY DEF Kinds, Winner, Treasury
    <2>3. QED
      BY <1>2, <1>4, <1>5, <2>1, <2>2, OpenLegWritten
  <1>7. CASE \E label \in Relaxed : Moves(c, label, leg[c])
    BY <1>1, <1>2, <1>3, <1>4, <1>6, <1>7, RelaxedActs
  <1>8. CASE Moves(c, "sign", leg[c]) /\ (result # "blocked" \/ legs[s][Winner] = "confirmed")
    <2>1. PICK k \in Kinds : k = leg[c]
      BY DEF CallsTyped
    <2>2. Ready(s, "sign", k)'
      BY <1>4, <1>5, <1>8 DEF Ready
    <2>3. QED
      BY <1>1, <1>2, <1>3, <1>4, <1>6, <1>8, <2>1, <2>2, OneCallActs
  <1>9. QED
    BY <1>1, <1>2, <1>7, <1>8, ProceedMoves

LEMMA SignFreshAgrees ==
    ASSUME Exclusive, StateTyped, CallsTyped, SafeInv, ExInv, NEW c \in Calls, SignFresh(c)
    PROVE  ExInv'
  <1>1. PICK s \in Settlements, k \in Kinds : s = at[c] /\ k = NextLeg(at[c])
    BY NextLegIsOpen DEF CallsTyped
  <1>2. PICK n : n = Len(accepted)
    OBVIOUS
  <1>3. /\ pc[c] = "sign" /\ Signable(s, k)
        /\ legs' = [legs EXCEPT ![s][k] = "signed"]
        /\ Carry(c, "broadcast", k, n)
        /\ UNCHANGED <<settlements, rounds, lease, accepted, outcomes>>
    BY <1>1, <1>2 DEF SignFresh, chainVars
  <1>4. ChainGrows /\ Moves(c, "broadcast", k)
    BY <1>3, CarryMoves DEF ChainGrows
  <1>5. /\ legs'[s][k] = "signed" /\ \A j \in Kinds : j # k => legs'[s][j] = legs[s][j]
        /\ \A t \in Settlements : t # s => Untouched(t)
    BY <1>3 DEF StateTyped, Untouched
  <1>6. /\ legs[s][k] # "confirmed" /\ TreasuryWaits /\ RowsAgree(s)
        /\ k = Treasury => legs[s][Winner] = "confirmed"
    BY <1>1, <1>3, NextLegIsOpen DEF Signable, SafeInv, ExInv
  <1>7. settlements'[s] # "settled" /\ rounds'[s] = rounds[s]
    BY <1>3, <1>6, LegIsOpen
  <1>8. RowsAgree(s)'
    BY <1>5, <1>6, <1>7, OpenLegWritten
  <1>9. Ready(s, "broadcast", k)'
    BY <1>5 DEF Ready
  <1>10. QED
    BY <1>1, <1>3, <1>4, <1>5, <1>8, <1>9, OneCallActs

LEMMA SignRefusedAgrees ==
    ASSUME Exclusive, StateTyped, CallsTyped, SafeInv, ExInv, NEW c \in Calls,
           NEW status \in {"blocked", "retryable"}, SignRefused(c, status)
    PROVE  ExInv'
  <1>1. PICK s \in Settlements, k \in Kinds : s = at[c] /\ k = NextLeg(at[c])
    BY NextLegIsOpen DEF CallsTyped
  <1>2. /\ pc[c] = "sign" /\ Signable(s, k)
        /\ legs' = [legs EXCEPT ![s][k] = IF status = "blocked" THEN "failed" ELSE "pending"]
        /\ settlements' = [settlements EXCEPT ![s] = status]
        /\ Returned(c, status)
        /\ UNCHANGED <<rounds, lease, accepted, outcomes>>
    BY <1>1 DEF SignRefused, chainVars
  <1>3. ChainGrows
    BY <1>2 DEF ChainGrows
  <1>4. /\ legs'[s][k] \in {"failed", "pending"} /\ settlements'[s] = status
        /\ \A j \in Kinds : j # k => legs'[s][j] = legs[s][j]
        /\ \A t \in Settlements : t # s => Untouched(t)
    BY <1>2 DEF StateTyped, Untouched
  <1>5. /\ legs[s][k] # "confirmed" /\ TreasuryWaits /\ RowsAgree(s)
        /\ k = Treasury => legs[s][Winner] = "confirmed"
    BY <1>1, <1>2, NextLegIsOpen DEF Signable, SafeInv, ExInv
  <1>6. RowsAgree(s)'
    BY <1>2, <1>4, <1>5, OpenLegWritten
  <1>7. \E label \in Relaxed : Moves(c, label, leg[c])
    BY <1>2, ReturnedMoves
  <1>8. QED
    BY <1>1, <1>2, <1>3, <1>4, <1>6, <1>7, RelaxedActs

\* A call that broadcasts or records holds the settlement's open leg.
LEMMA LegInHand ==
    ASSUME CallsTyped, SafeInv, ExInv, NEW c \in Calls, pc[c] \in Carrying,
           NEW s \in Settlements, s = at[c], NEW k \in Kinds, k = leg[c]
    PROVE  /\ legs[s][k] = IF pc[c] \in {"verify", "confirm"} THEN "broadcast" ELSE "signed"
           /\ k = Treasury => legs[s][Winner] = "confirmed"
           /\ TreasuryWaits /\ RowsAgree(s)
  <1>1. CallKeepsUp(c) /\ RowsAgree(s) /\ TreasuryWaits
    BY DEF ExInv, SafeInv
  <1>2. legs[s][k] = IF pc[c] \in {"verify", "confirm"} THEN "broadcast" ELSE "signed"
    BY <1>1 DEF CallKeepsUp, Ready, Carrying
  <1>3. QED
    BY <1>1, <1>2 DEF TreasuryWaits, HasPayload

LEMMA RecordAmbiguousAgrees ==
    ASSUME Exclusive, StateTyped, CallsTyped, SafeInv, ExInv, NEW c \in Calls, RecordAmbiguous(c)
    PROVE  ExInv'
  <1>1. PICK s \in Settlements, k \in Kinds : s = at[c] /\ k = leg[c]
    BY DEF CallsTyped
  <1>2. /\ pc[c] = "ambiguous" /\ Returned(c, "retryable")
        /\ settlements' = [settlements EXCEPT ![s] = "retryable"]
        /\ UNCHANGED <<legs, rounds, lease, accepted, outcomes>>
    BY <1>1 DEF RecordAmbiguous, chainVars
  <1>3. ChainGrows /\ pc[c] \in Carrying
    BY <1>2 DEF ChainGrows, Carrying
  <1>4. settlements'[s] = "retryable" /\ \A t \in Settlements : t # s => Untouched(t)
    BY <1>2 DEF StateTyped, Untouched
  <1>5. /\ legs[s][k] = "signed" /\ TreasuryWaits /\ RowsAgree(s)
        /\ k = Treasury => legs[s][Winner] = "confirmed"
    BY <1>1, <1>2, <1>3, LegInHand
  <1>6. RowsAgree(s)'
    BY <1>2, <1>4, <1>5, OpenLegWritten
  <1>7. \E label \in Relaxed : Moves(c, label, leg[c])
    BY <1>2, ReturnedMoves
  <1>8. QED
    BY <1>1, <1>2, <1>3, <1>4, <1>6, <1>7, RelaxedActs

LEMMA RecordSubmittedAgrees ==
    ASSUME Exclusive, StateTyped, CallsTyped, SafeInv, ExInv, NEW c \in Calls, RecordSubmitted(c)
    PROVE  ExInv'
  <1>1. PICK s \in Settlements, k \in Kinds : s = at[c] /\ k = leg[c]
    BY DEF CallsTyped
  <1>2. pc[c] = "submitted" /\ nonces[s][k] = tx[c]
    BY <1>1 DEF RecordSubmitted, SafeInv, CallsCarryPayloads
  <1>3. /\ legs' = [legs EXCEPT ![s][k] = IF @ = "signed" THEN "broadcast" ELSE @]
        /\ settlements' = [settlements EXCEPT ![s] = SubmittedStatus(k)]
        /\ rounds' = [rounds EXCEPT ![s] = "payout_broadcast"]
        /\ Returned(c, SubmittedStatus(k))
        /\ UNCHANGED <<lease, accepted, outcomes>>
    BY <1>1, <1>2 DEF RecordSubmitted, chainVars
  <1>4. ChainGrows /\ pc[c] \in Carrying
    BY <1>2, <1>3 DEF ChainGrows, Carrying
  <1>5. /\ legs[s][k] = "signed" /\ TreasuryWaits /\ RowsAgree(s)
        /\ k = Treasury => legs[s][Winner] = "confirmed"
    BY <1>1, <1>2, <1>4, LegInHand
  <1>6. /\ legs'[s][k] = "broadcast" /\ \A j \in Kinds : j # k => legs'[s][j] = legs[s][j]
        /\ settlements'[s] = SubmittedStatus(k) /\ rounds'[s] = "payout_broadcast"
        /\ \A t \in Settlements : t # s => Untouched(t)
    BY <1>3, <1>5 DEF StateTyped, Untouched
  <1>7. RowsAgree(s)'
    <2>1. /\ \A j \in Kinds : j # k => legs[s][j] # "broadcast"
          /\ legs[s][Treasury] # "confirmed"
      BY <1>5, LegIsOpen
    <2>2. BroadcastAgrees(s)'
      BY <1>6, <2>1 DEF BroadcastAgrees, SubmittedStatus
    <2>3. /\ settlements'[s] # "settled" /\ rounds'[s] # "completed"
          /\ legs'[s][Treasury] # "confirmed"
      BY <1>6, <2>1 DEF SubmittedStatus, Kinds
    <2>4. QED
      BY <2>2, <2>3 DEF RowsAgree, EndAgrees
  <1>8. \E label \in Relaxed : Moves(c, label, leg[c])
    BY <1>3, ReturnedMoves
  <1>9. QED
    BY <1>1, <1>2, <1>3, <1>4, <1>6, <1>7, <1>8, RelaxedActs

\* The only broadcast leg is the one that was verified, so it is the one that
\* is confirmed.
LEMMA ConfirmLegAgrees ==
    ASSUME Exclusive, StateTyped, CallsTyped, SafeInv, ExInv, NEW c \in Calls, ConfirmLeg(c)
    PROVE  ExInv'
  <1>1. PICK s \in Settlements, k \in Kinds : s = at[c] /\ k = leg[c]
    BY DEF CallsTyped
  <1>2. pc[c] = "confirm" /\ pc[c] \in Carrying
    BY DEF ConfirmLeg, Carrying
  <1>3. /\ legs[s][k] = "broadcast" /\ TreasuryWaits /\ RowsAgree(s)
        /\ k = Treasury => legs[s][Winner] = "confirmed"
    BY <1>1, <1>2, LegInHand
  <1>4. /\ \A j \in Kinds : j # k => legs[s][j] # "broadcast"
        /\ settlements[s] # "settled" /\ rounds[s] # "completed"
        /\ legs[s][Treasury] # "confirmed"
    BY <1>3, LegIsOpen
  <1>5. BroadcastLegs(s) = {k}
    BY <1>3, <1>4 DEF BroadcastLegs
  <1>6. LegToConfirm(c) = k
    BY <1>1, <1>5 DEF LegToConfirm, FirstOf, Kinds
  <1>7. /\ legs' = [legs EXCEPT ![s][k] = "confirmed"]
        /\ settlements' = [settlements EXCEPT ![s] =
                             IF k = Winner THEN "winner_confirmed" ELSE "settled"]
        /\ rounds' = [rounds EXCEPT ![s] = IF k = Winner THEN @ ELSE "completed"]
        /\ NextIteration(c)
        /\ UNCHANGED <<lease, accepted, outcomes>>
    BY <1>1, <1>5, <1>6 DEF ConfirmLeg, chainVars
  <1>8. ChainGrows
    BY <1>7 DEF ChainGrows
  <1>9. /\ legs'[s][k] = "confirmed" /\ \A j \in Kinds : j # k => legs'[s][j] = legs[s][j]
        /\ settlements'[s] = IF k = Winner THEN "winner_confirmed" ELSE "settled"
        /\ rounds'[s] = IF k = Winner THEN rounds[s] ELSE "completed"
        /\ \A t \in Settlements : t # s => Untouched(t)
    BY <1>7 DEF StateTyped, Untouched
  <1>10. BroadcastAgrees(s)'
    BY <1>4, <1>9 DEF BroadcastAgrees
  <1>11. EndAgrees(s)'
    <2>1. Kinds = {Winner, Treasury} /\ Winner # Treasury
      BY DEF Kinds, Winner, Treasury
    <2>2. CASE k = Winner
      BY <1>4, <1>9, <2>1, <2>2 DEF EndAgrees
    <2>3. CASE k = Treasury
      <3>1. Paid(s, Winner)
        BY <1>3, <2>3 DEF SafeInv, WinnerConfirmedIsPaid
      <3>2. Receipt(s, Treasury, tx[c], "success")
        BY <1>1, <1>2, <2>3 DEF SafeInv, CallsConfirmPaid
      <3>3. Paid(s, Treasury)
        BY <3>2 DEF Paid, Receipt
      <3>4. \A j \in Kinds : Paid(s, j)'
        BY <1>8, <2>1, <3>1, <3>3, PaidKept
      <3>5. QED
        BY <1>3, <1>9, <2>1, <2>3, <3>4 DEF EndAgrees
    <2>4. QED
      BY <2>1, <2>2, <2>3
  <1>12. RowsAgree(s)'
    BY <1>10, <1>11 DEF RowsAgree
  <1>13. \E label \in Relaxed : Moves(c, label, leg[c])
    BY <1>7, NextIterationMoves DEF Relaxed
  <1>14. QED
    BY <1>1, <1>2, <1>7, <1>8, <1>9, <1>12, <1>13, RelaxedActs

-----------------------------------------------------------------------------
(* All steps.                                                               *)

LEMMA CallStepAgrees ==
    ASSUME Exclusive, StateTyped, CallsTyped, SafeInv, ExInv, NEW c \in Calls,
           CallStep(c) \/ CallFault(c)
    PROVE  ExInv'
  <1> USE DEF dbVars, chainVars, bounds
  <1>1. ASSUME pc[c] # "idle", UNCHANGED <<settlements, legs, rounds, lease>>, ChainGrows,
               \E label \in Relaxed : Moves(c, label, leg[c])
        PROVE  ExInv'
    BY <1>1, RelaxedStays
  <1>l. \A label \in Relaxed : Goto(c, label) => \E m \in Relaxed : Moves(c, m, leg[c])
    BY GotoMoves
  <1>n. NextIteration(c) => \E m \in Relaxed : Moves(c, m, leg[c])
    BY NextIterationMoves DEF Relaxed
  <1>2. CASE ReadRound(c)
    <2>1. \E label \in Relaxed : Moves(c, label, leg[c])
      <3>1. CASE Goto(c, "release")
        BY <3>1, <1>l DEF Relaxed
      <3>2. CASE ~Goto(c, "release")
        BY <1>2, <3>2 DEF ReadRound, Moves, StandsStill, Relaxed, CallsTyped
      <3>3. QED
        BY <3>1, <3>2
    <2>2. QED
      BY <1>1, <1>2, <2>1 DEF ReadRound, ChainGrows
  <1>3. CASE LookUp(c)
    <2>1. \E label \in Relaxed : Moves(c, label, leg[c])
      BY <1>3, <1>l, <1>n DEF LookUp, Relaxed
    <2>2. QED
      BY <1>1, <1>3, <2>1 DEF LookUp, ChainGrows
  <1>4. CASE Release(c)
    <2>1. PICK s \in Settlements : s = at[c]
      BY DEF CallsTyped
    <2>2. /\ pc[c] = "release" /\ Forget({c})
          /\ lease' = [lease EXCEPT ![s] = IF @ = WorkerOf[c] THEN NoWorker ELSE @]
          /\ UNCHANGED <<settlements, legs, rounds, accepted, outcomes>>
      BY <1>4, <2>1 DEF Release
    <2>3. ChainGrows /\ \A t \in Settlements : Untouched(t)
      BY <2>2 DEF ChainGrows, Untouched
    <2>4. \A t \in Settlements : t # s => lease'[t] = lease[t]
      BY <2>2 DEF StateTyped
    <2>5. \A t \in Settlements : RowsAgree(t)'
      BY <2>3, RowsKept DEF ExInv
    <2>6. ASSUME NEW d \in Calls PROVE CallKeepsUp(d)'
      <3>1. CASE d = c
        BY <2>2, <3>1 DEF Forget, CallKeepsUp
      <3>2. CASE d # c
        <4>1. StandsStill(d) /\ CallKeepsUp(d)
          BY <2>2, <3>2 DEF Forget, StandsStill, ExInv
        <4>2. pc[d] # "idle" => at[d] # s /\ at[d] \in Settlements
          BY <2>1, <2>2, <3>2, AloneThere DEF CallsTyped
        <4>3. QED
          BY <2>3, <2>4, <4>1, <4>2, CallKept
      <3>3. QED
        BY <3>1, <3>2
    <2>7. QED
      BY <2>5, <2>6 DEF ExInv
  <1>5. CASE PrepareWhilePaused(c)
    <2>1. \E label \in Relaxed : Moves(c, label, leg[c])
      BY <1>5, <1>l DEF PrepareWhilePaused, Relaxed
    <2>2. QED
      BY <1>1, <1>5, <2>1 DEF PrepareWhilePaused, ChainGrows
  <1>6. CASE PrepareEarlier(c)
    <2>1. /\ pc[c] = "prepare" /\ Proceed(c, settlements[at[c]])
          /\ UNCHANGED <<settlements, legs, rounds, lease>> /\ ChainGrows
      BY <1>6 DEF PrepareEarlier, ChainGrows
    <2>2. CASE \E label \in Relaxed : Moves(c, label, leg[c])
      BY <1>1, <2>1, <2>2
    <2>3. CASE /\ Moves(c, "sign", leg[c])
               /\ settlements[at[c]] # "blocked" \/ legs[at[c]][Winner] = "confirmed"
      <3>1. Ready(at[c], "sign", leg[c])
        BY <2>3 DEF Ready
      <3>2. QED
        BY <2>1, <2>3, <3>1, RowsStay
    <2>4. QED
      BY <2>1, <2>2, <2>3, ProceedMoves
  <1>7. CASE \E result \in {"preparing", "blocked", "retryable"} : Preflight(c, result)
    BY <1>7, PreflightAgrees
  <1>8. CASE SignNothing(c)
    <2>1. \E label \in Relaxed : Moves(c, label, leg[c])
      BY <1>8, ReturnedMoves DEF SignNothing
    <2>2. QED
      BY <1>1, <1>8, <2>1 DEF SignNothing, ChainGrows
  <1>9. CASE SignReuse(c)
    <2>1. PICK k : k = NextLeg(at[c])
      OBVIOUS
    <2>2. PICK n : n = nonces[at[c]][k]
      OBVIOUS
    <2>3. /\ pc[c] = "sign" /\ legs[at[c]][k] = "signed" /\ Carry(c, "broadcast", k, n)
          /\ UNCHANGED <<settlements, legs, rounds, lease>> /\ ChainGrows
      BY <1>9, <2>1, <2>2 DEF SignReuse, Reusable, ChainGrows
    <2>4. Moves(c, "broadcast", k) /\ Ready(at[c], "broadcast", k)
      BY <2>3, CarryMoves DEF Ready
    <2>5. QED
      BY <2>3, <2>4, RowsStay
  <1>10. CASE SignFresh(c)
    BY <1>10, SignFreshAgrees
  <1>11. CASE \E status \in {"blocked", "retryable"} : SignRefused(c, status)
    BY <1>11, SignRefusedAgrees
  <1>12. CASE BroadcastAnswered(c) \/ BroadcastLost(c) \/ BroadcastRefused(c)
    <2>1. /\ pc[c] = "broadcast" /\ UNCHANGED <<settlements, legs, rounds, lease, outcomes>>
          /\ Goto(c, "submitted") \/ Goto(c, "ambiguous")
          /\ UNCHANGED accepted \/ accepted' = Append(accepted, <<at[c], leg[c]>>)
      BY <1>12 DEF BroadcastAnswered, BroadcastLost, BroadcastRefused
    <2>2. ChainGrows
      BY <2>1 DEF ChainGrows, CallsTyped
    <2>3. PICK label \in {"submitted", "ambiguous"} : Goto(c, label)
      BY <2>1
    <2>4. Moves(c, label, leg[c]) /\ Ready(at[c], label, leg[c])
      BY <2>1, <2>3, GotoMoves DEF ExInv, CallKeepsUp, Ready
    <2>5. QED
      BY <2>1, <2>2, <2>4, RowsStay
  <1>13. CASE RecordAmbiguous(c)
    BY <1>13, RecordAmbiguousAgrees
  <1>14. CASE RecordSubmitted(c)
    BY <1>14, RecordSubmittedAgrees
  <1>15. CASE PickLeg(c)
    <2>1. /\ pc[c] = "pick" /\ UNCHANGED <<settlements, legs, rounds, lease>> /\ ChainGrows
      BY <1>15 DEF PickLeg, ChainGrows
    <2>2. CASE BroadcastLegs(at[c]) = {}
      BY <1>1, <1>n, <1>15, <2>1, <2>2 DEF PickLeg
    <2>3. CASE BroadcastLegs(at[c]) # {}
      <3>1. PICK k : k = FirstOf(BroadcastLegs(at[c]))
        OBVIOUS
      <3>2. PICK n : n = nonces[at[c]][k]
        OBVIOUS
      <3>3. legs[at[c]][k] = "broadcast" /\ Carry(c, "verify", k, n)
        BY <1>15, <2>3, <3>1, <3>2 DEF PickLeg, FirstOf, BroadcastLegs, Kinds
      <3>4. Moves(c, "verify", k) /\ Ready(at[c], "verify", k)
        BY <3>3, CarryMoves DEF Ready
      <3>5. QED
        BY <2>1, <3>4, RowsStay
    <2>4. QED
      BY <2>2, <2>3
  <1>16. CASE VerifyTransfer(c)
    <2>1. /\ pc[c] = "verify" /\ UNCHANGED <<settlements, legs, rounds, lease>> /\ ChainGrows
      BY <1>16 DEF VerifyTransfer, ChainGrows
    <2>2. CASE Goto(c, "confirm")
      <3>1. Moves(c, "confirm", leg[c]) /\ Ready(at[c], "confirm", leg[c])
        BY <2>1, <2>2, GotoMoves DEF ExInv, CallKeepsUp, Ready
      <3>2. QED
        BY <2>1, <3>1, RowsStay
    <2>3. CASE Goto(c, "release") \/ NextIteration(c)
      BY <1>1, <1>l, <1>n, <2>1, <2>3 DEF Relaxed
    <2>4. QED
      BY <1>16, <2>2, <2>3 DEF VerifyTransfer
  <1>17. CASE ConfirmLeg(c)
    BY <1>17, ConfirmLegAgrees
  <1>18. CASE Throw(c)
    <2>1. \E label \in Relaxed : Moves(c, label, leg[c])
      BY <1>18, <1>l DEF Throw, Relaxed
    <2>2. QED
      BY <1>1, <1>18, <2>1 DEF Throw, ChainGrows
  <1>19. QED
    BY <1>2, <1>3, <1>4, <1>5, <1>6, <1>7, <1>8, <1>9, <1>10, <1>11, <1>12, <1>13, <1>14, <1>15,
       <1>16, <1>17, <1>18 DEF CallStep, CallFault

\* Leases come and go only where no call is at work.
LEMMA EnvironmentAgrees ==
    ASSUME Exclusive, StateTyped, CallsTyped, ExInv,
           \/ \E c \in Calls, s \in Settlements : Claim(c, s)
           \/ \E w \in Workers : Crash(w)
           \/ \E s \in Settlements : LeaseAbandoned(s) \/ LeaseRunsOut(s)
           \/ Pause \/ Resume
           \/ \E outcome \in {"success", "reverted"} : Mine(outcome)
           \/ UNCHANGED vars
    PROVE  ExInv'
  <1> USE DEF dbVars, chainVars, callVars, bounds
  <1>1. UNCHANGED <<settlements, legs, rounds>> /\ ChainGrows
    BY DEF Claim, Crash, LeaseAbandoned, LeaseRunsOut, FreeLease, Pause, Resume, Mine, vars,
           ChainGrows
  <1>2. \A t \in Settlements : Untouched(t)
    BY <1>1 DEF Untouched
  <1>3. \A t \in Settlements : RowsAgree(t)'
    BY <1>1, <1>2, RowsKept DEF ExInv
  <1>4. ASSUME NEW d \in Calls PROVE CallKeepsUp(d)'
    <2>0. CallKeepsUp(d) /\ at[d] \in Settlements /\ WorkerOf[d] # NoWorker
      BY CallsAssumption DEF ExInv, CallsTyped
    <2>1. ASSUME NEW c \in Calls, NEW s \in Settlements, Claim(c, s)
          PROVE  CallKeepsUp(d)'
      <3>1. /\ lease[s] = NoWorker /\ lease'[s] = WorkerOf[c]
            /\ \A t \in Settlements : t # s => lease'[t] = lease[t]
        BY <2>1 DEF Claim, Claimable, StateTyped
      <3>2. CASE d = c
        <4>1. pc'[d] = "read" /\ at'[d] = s
          BY <2>1, <3>2 DEF Claim, CallsTyped
        <4>2. QED
          BY <3>1, <3>2, <4>1 DEF CallKeepsUp, Ready
      <3>3. CASE d # c
        <4>1. StandsStill(d)
          BY <2>1, <3>3 DEF Claim, CallsTyped, StandsStill
        <4>2. pc[d] # "idle" => at[d] # s
          BY <2>0, <3>1 DEF CallKeepsUp
        <4>3. QED
          BY <1>2, <2>0, <3>1, <4>1, <4>2, CallKept
      <3>4. QED
        BY <3>2, <3>3
    <2>2. ASSUME NEW w \in Workers, Crash(w)
          PROVE  CallKeepsUp(d)'
      <3>1. UNCHANGED lease /\ Forget({c \in Calls : WorkerOf[c] = w})
        BY <2>2 DEF Crash
      <3>2. pc'[d] = "idle" \/ StandsStill(d)
        BY <3>1 DEF Forget, StandsStill
      <3>3. QED
        BY <1>2, <2>0, <3>1, <3>2, CallKept DEF CallKeepsUp
    <2>3. ASSUME NEW s \in Settlements, LeaseAbandoned(s)
          PROVE  CallKeepsUp(d)'
      <3>1. /\ RunningOn(s, lease[s]) = {} /\ StandsStill(d)
            /\ \A t \in Settlements : t # s => lease'[t] = lease[t]
        BY <2>3 DEF LeaseAbandoned, FreeLease, StandsStill, StateTyped
      <3>2. pc[d] # "idle" => at[d] # s
        BY <2>0, <3>1 DEF RunningOn, CallKeepsUp
      <3>3. QED
        BY <1>2, <2>0, <3>1, <3>2, CallKept
    <2>4. ASSUME NEW s \in Settlements, LeaseRunsOut(s)
          PROVE  FALSE
      BY <2>4 DEF LeaseRunsOut, StateTyped, Exclusive
    <2>5. CASE Pause \/ Resume \/ UNCHANGED vars \/ \E o \in {"success", "reverted"} : Mine(o)
      <3>1. UNCHANGED lease /\ StandsStill(d)
        BY <2>5 DEF Pause, Resume, Mine, vars, StandsStill
      <3>2. QED
        BY <1>2, <2>0, <3>1, CallKept
    <2>6. QED
      BY <2>1, <2>2, <2>3, <2>4, <2>5
  <1>5. QED
    BY <1>3, <1>4 DEF ExInv

LEMMA InitAgrees == Init => ExInv
  <1> SUFFICES ASSUME Init PROVE ExInv
    OBVIOUS
  <1>1. \A s \in Settlements : RowsAgree(s)
    BY DEF Init, RowsAgree, BroadcastAgrees, EndAgrees, Kinds
  <1>2. \A c \in Calls : CallKeepsUp(c)
    BY DEF Init, CallKeepsUp
  <1>3. QED
    BY <1>1, <1>2 DEF ExInv

LEMMA StepAgrees == Exclusive /\ IInv /\ ExInv /\ [Next]_vars => ExInv'
  <1> SUFFICES ASSUME Exclusive, IInv, ExInv, [Next]_vars
               PROVE  ExInv'
    OBVIOUS
  <1>1. StateTyped /\ CallsTyped /\ SafeInv
    BY TypesSplit DEF IInv, SafeInv
  <1>2. QED
    BY <1>1, CallStepAgrees, EnvironmentAgrees DEF Next

\* The inductive invariant of a payout whose calls keep their leases.
THEOREM RowsAlwaysAgree == Exclusive => (Spec => [](IInv /\ ExInv))
  <1> SUFFICES ASSUME Exclusive PROVE Spec => [](IInv /\ ExInv)
    OBVIOUS
  <1>1. IInv /\ ExInv /\ [Next]_vars => ExInv'
    BY StepAgrees
  <1>2. QED
    BY <1>1, InitAgrees, Safe, PTL DEF Spec

-----------------------------------------------------------------------------
(* Theorems.                                                                *)

\* A settlement that is settled, or whose round is completed, has paid both
\* its transfers on the chain.
THEOREM SettlementsArePaid == Exclusive => (Spec => []SettledIsPaid)
  <1> SUFFICES ASSUME Exclusive PROVE Spec => []SettledIsPaid
    OBVIOUS
  <1>1. ExInv => SettledIsPaid
    BY DEF ExInv, RowsAgree, EndAgrees, SettledIsPaid, Kinds
  <1>2. Spec => [](IInv /\ ExInv)
    BY RowsAlwaysAgree
  <1>3. QED
    BY <1>1, <1>2, PTL

\* A leg that was broadcast is always under the statuses from which
\* processRound looks for its confirmation.
THEOREM BroadcastsAreFollowedUp == Exclusive => (Spec => []BroadcastIsFollowedUp)
  <1> SUFFICES ASSUME Exclusive PROVE Spec => []BroadcastIsFollowedUp
    OBVIOUS
  <1>1. ExInv => BroadcastIsFollowedUp
    BY DEF ExInv, RowsAgree, BroadcastAgrees, BroadcastIsFollowedUp
  <1>2. Spec => [](IInv /\ ExInv)
    BY RowsAlwaysAgree
  <1>3. QED
    BY <1>1, <1>2, PTL

\* How a leg's status changes: it is signed by the call at work there, as the
\* next leg, and never written once it is confirmed.
LEMMA LegSteps ==
    ASSUME StateTyped, CallsTyped, [Next]_vars, NEW s \in Settlements, NEW k \in Kinds,
           legs'[s][k] # legs[s][k]
    PROVE  /\ legs[s][k] = "confirmed" => legs'[s][k] = "confirmed"
           /\ legs'[s][k] = "signed" =>
                 \E c \in Calls : pc[c] = "sign" /\ at[c] = s /\ NextLeg(s) = k
  <1> USE DEF dbVars, chainVars, callVars, bounds
  <1>0. legs' # legs
    OBVIOUS
  <1>1. PICK c \in Calls : CallStep(c) \/ CallFault(c)
    BY <1>0 DEF Next, Claim, Crash, LeaseAbandoned, LeaseRunsOut, FreeLease, Pause, Resume, Mine, vars
  <1>2. PICK t \in Settlements, j \in Kinds, l \in Kinds :
            t = at[c] /\ j = NextLeg(at[c]) /\ l = leg[c]
    BY NextLegIsOpen DEF CallsTyped
  <1>3. CASE SignFresh(c)
    <2>1. /\ pc[c] = "sign" /\ Signable(t, j)
          /\ legs' = [legs EXCEPT ![t][j] = "signed"]
      BY <1>2, <1>3 DEF SignFresh
    <2>2. s = t /\ k = j
      BY <2>1 DEF StateTyped
    <2>3. QED
      BY <1>2, <2>1, <2>2 DEF Signable
  <1>4. ASSUME NEW status \in {"blocked", "retryable"}, SignRefused(c, status)
        PROVE  legs[s][k] # "confirmed" /\ legs'[s][k] # "signed"
    <2>1. /\ Signable(t, j)
          /\ legs' = [legs EXCEPT ![t][j] = IF status = "blocked" THEN "failed" ELSE "pending"]
      BY <1>2, <1>4 DEF SignRefused
    <2>2. s = t /\ k = j
      BY <2>1 DEF StateTyped
    <2>3. QED
      BY <2>1, <2>2 DEF Signable, StateTyped
  <1>5. CASE RecordSubmitted(c)
    <2>1. legs' = [legs EXCEPT ![t][l] = IF @ = "signed" THEN "broadcast" ELSE @]
      BY <1>0, <1>2, <1>5 DEF RecordSubmitted
    <2>2. QED
      BY <2>1 DEF StateTyped
  <1>6. CASE ConfirmLeg(c)
    <2>1. PICK m \in Kinds : m = LegToConfirm(c)
      BY DEF LegToConfirm, FirstOf, Kinds
    <2>2. legs' = [legs EXCEPT ![t][m] = "confirmed"]
      BY <1>0, <1>2, <1>6, <2>1 DEF ConfirmLeg
    <2>3. QED
      BY <2>2 DEF StateTyped
  <1>7. QED
    BY <1>0, <1>1, <1>3, <1>4, <1>5, <1>6
    DEF CallStep, CallFault, ReadRound, LookUp, Release, PrepareWhilePaused, PrepareEarlier,
        Preflight, SignNothing, SignReuse, BroadcastAnswered, BroadcastLost, BroadcastRefused,
        RecordAmbiguous, PickLeg, VerifyTransfer, Throw

\* A completed payout stays completed: confirmed legs are never written again,
\* and the other rows agree with them after every step.
THEOREM CompletedStays == Exclusive => (Spec => CompletedIsFinal)
  <1> SUFFICES ASSUME Exclusive PROVE Spec => CompletedIsFinal
    OBVIOUS
  <1>1. IInv /\ ExInv /\ [Next]_vars =>
            \A s \in Settlements :
                rounds[s] = "completed" => rounds'[s] = "completed" /\ settlements'[s] = "settled"
    <2> SUFFICES ASSUME IInv, ExInv, [Next]_vars, NEW s \in Settlements, rounds[s] = "completed"
                 PROVE  rounds'[s] = "completed" /\ settlements'[s] = "settled"
      OBVIOUS
    <2>1. StateTyped /\ CallsTyped /\ Treasury \in Kinds
      BY TypesSplit DEF IInv, Kinds
    <2>2. legs[s][Treasury] = "confirmed"
      BY <2>1 DEF ExInv, RowsAgree, EndAgrees
    <2>3. legs'[s][Treasury] = "confirmed"
      BY <2>1, <2>2, LegSteps
    <2>4. RowsAgree(s)'
      BY StepAgrees DEF ExInv
    <2>5. QED
      BY <2>3, <2>4 DEF RowsAgree, EndAgrees
  <1>2. IInv /\ ExInv /\ [Next]_vars =>
            [\A s \in Settlements :
                rounds[s] = "completed" => rounds'[s] = "completed" /\ settlements'[s] = "settled"]_vars
    BY <1>1
  <1>3. Spec => [](IInv /\ ExInv)
    BY RowsAlwaysAgree
  <1>4. QED
    BY <1>2, <1>3, PTL DEF Spec, CompletedIsFinal

\* A settlement that is blocked for lack of funds signs no winner transfer: the
\* status on which the call decided to sign is still the one when it signs.
THEOREM BlockedIsNotSigned == Exclusive => (Spec => BlockedSignsNothing)
  <1> SUFFICES ASSUME Exclusive PROVE Spec => BlockedSignsNothing
    OBVIOUS
  <1>1. IInv /\ ExInv /\ [Next]_vars =>
            \A s \in Settlements : BecomesSigned(s, Winner) => settlements[s] # "blocked"
    <2> SUFFICES ASSUME IInv, ExInv, [Next]_vars, NEW s \in Settlements, BecomesSigned(s, Winner)
                 PROVE  settlements[s] # "blocked"
      OBVIOUS
    <2>1. StateTyped /\ CallsTyped /\ Winner \in Kinds
      BY TypesSplit DEF IInv, Kinds
    <2>2. PICK c \in Calls : pc[c] = "sign" /\ at[c] = s /\ NextLeg(s) = Winner
      BY <2>1, LegSteps DEF BecomesSigned
    <2>3. legs[s][Winner] # "confirmed"
      BY <2>2 DEF NextLeg, Winner, Treasury
    <2>4. QED
      BY <2>2, <2>3 DEF ExInv, CallKeepsUp, Ready
  <1>2. IInv /\ ExInv /\ [Next]_vars =>
            [\A s \in Settlements : BecomesSigned(s, Winner) => settlements[s] # "blocked"]_vars
    BY <1>1
  <1>3. Spec => [](IInv /\ ExInv)
    BY RowsAlwaysAgree
  <1>4. QED
    BY <1>2, <1>3, PTL DEF Spec, BlockedSignsNothing
=============================================================================
