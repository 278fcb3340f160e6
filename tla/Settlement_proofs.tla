-------------------------- MODULE Settlement_proofs --------------------------
(***************************************************************************)
(* The safety of the payout, for every number of settlements, processes    *)
(* and calls and whatever the bounds on faults are.                        *)
(***************************************************************************)
EXTENDS Settlement, TLAPS

\* The part of the types that a call's move can disturb.
CallsTyped ==
    /\ pc \in [Calls -> Labels]
    /\ at \in [Calls -> Settlements]
    /\ seen \in [Calls -> RoundStatus]
    /\ leg \in [Calls -> Kinds]
    /\ tx \in [Calls -> Nat \cup {NoNonce}]
    /\ steps \in [Calls -> 0..MaxSteps]
    /\ StepsLeft

\* Going round the loop, to another label of the body or to the end of the
\* call keeps the call's state well typed and its steps within the bound.
LEMMA NextIterationTyped ==
    ASSUME CallsTyped, NEW c \in Calls, NextIteration(c),
           pc[c] \notin {"idle", "read", "release"}
    PROVE  CallsTyped'
  BY BoundsAssumption DEF CallsTyped, StepsLeft, NextIteration, Labels

LEMMA GotoTyped ==
    ASSUME CallsTyped, NEW c \in Calls, NEW label \in Labels, Goto(c, label),
           label = "release" \/ pc[c] \notin {"idle", "read", "release"}
    PROVE  CallsTyped'
  BY BoundsAssumption DEF CallsTyped, StepsLeft, Goto

LEMMA CarryTyped ==
    ASSUME CallsTyped, NEW c \in Calls, NEW label \in Labels, NEW k \in Kinds,
           NEW n \in Nat \cup {NoNonce}, Carry(c, label, k, n),
           pc[c] \notin {"idle", "read", "release"}
    PROVE  CallsTyped'
  BY BoundsAssumption DEF CallsTyped, StepsLeft, Carry

LEMMA ForgetTyped ==
    ASSUME CallsTyped, NEW calls, Forget(calls)
    PROVE  CallsTyped'
  BY BoundsAssumption
  DEF CallsTyped, StepsLeft, Forget, Labels, RoundStatus, Kinds, Winner

LEMMA ReturnedTyped ==
    ASSUME CallsTyped, NEW c \in Calls, NEW status, Returned(c, status),
           pc[c] \notin {"idle", "read", "release"}
    PROVE  CallsTyped'
  <1>1. "release" \in Labels
    BY DEF Labels
  <1>2. QED
    BY <1>1, NextIterationTyped, GotoTyped DEF Returned

\* The initial state is well typed.
LEMMA InitTyped == Init => TypeOK /\ StepsLeft
  <1> SUFFICES ASSUME Init PROVE TypeOK /\ StepsLeft
    OBVIOUS
  <1>2. accepted \in Seq(Settlements \X Kinds) /\ outcomes \in Seq({"success", "reverted"})
    BY DEF Init
  <1>3. Len(outcomes) <= Len(accepted)
    BY DEF Init
  <1>4. /\ settlements \in [Settlements -> SettlementStatus]
        /\ rounds \in [Settlements -> RoundStatus]
        /\ lease \in [Settlements -> Workers \cup {NoWorker}]
        /\ payoutsEnabled \in BOOLEAN
    BY DEF Init, SettlementStatus, RoundStatus
  <1>5. /\ legs \in [Settlements -> [Kinds -> LegStatus]]
        /\ nonces \in [Settlements -> [Kinds -> Nat \cup {NoNonce}]]
    BY DEF Init, LegStatus
  <1>6. CallsTyped
    BY BoundsAssumption
    DEF Init, CallsTyped, StepsLeft, Labels, RoundStatus, Kinds
  <1>7. faults \in 0..MaxFaults /\ expiries \in 0..MaxExpiries
    BY BoundsAssumption DEF Init
  <1>8. QED
    BY <1>2, <1>3, <1>4, <1>5, <1>6, <1>7 DEF TypeOK, CallsTyped

-----------------------------------------------------------------------------
\* The part of the types that the database and the chain make up.
StateTyped ==
    /\ settlements \in [Settlements -> SettlementStatus]
    /\ legs \in [Settlements -> [Kinds -> LegStatus]]
    /\ nonces \in [Settlements -> [Kinds -> Nat \cup {NoNonce}]]
    /\ rounds \in [Settlements -> RoundStatus]
    /\ lease \in [Settlements -> Workers \cup {NoWorker}]
    /\ payoutsEnabled \in BOOLEAN
    /\ accepted \in Seq(Settlements \X Kinds)
    /\ outcomes \in Seq({"success", "reverted"})
    /\ Len(outcomes) <= Len(accepted)
    /\ faults \in 0..MaxFaults
    /\ expiries \in 0..MaxExpiries

LEMMA TypesSplit == TypeOK /\ StepsLeft <=> StateTyped /\ CallsTyped
  BY DEF TypeOK, StateTyped, CallsTyped

LEMMA FaultTyped ==
    ASSUME StateTyped, Fault
    PROVE  faults' \in 0..MaxFaults /\ expiries' \in 0..MaxExpiries
  BY BoundsAssumption DEF StateTyped, Fault

\* Every step of a call keeps the call's own state well typed ...
LEMMA CallStepKeepsCalls ==
    ASSUME StateTyped, CallsTyped, NEW c \in Calls, CallStep(c) \/ CallFault(c)
    PROVE  CallsTyped'
  <1> USE GotoTyped, NextIterationTyped, CarryTyped, ForgetTyped, ReturnedTyped
  <1>0. at[c] \in Settlements /\ \A s \in Settlements : NextLeg(s) \in Kinds
    BY DEF CallsTyped, NextLeg, Kinds
  <1>l. {"prepare", "lookup", "sign", "pick", "verify", "confirm", "broadcast",
         "ambiguous", "submitted", "release"} \subseteq Labels
    BY DEF Labels
  <1>1. CASE ReadRound(c)
    <2>1. rounds[at[c]] \in RoundStatus /\ steps[c] \in 0..MaxSteps
      BY <1>0 DEF StateTyped, CallsTyped
    <2>2. CASE rounds[at[c]] = "completed" \/ Exhausted(c)
      BY <1>1, <2>2, <1>l DEF ReadRound
    <2>3. CASE ~(rounds[at[c]] = "completed" \/ Exhausted(c))
      <3>1. steps[c] < MaxSteps
        BY <2>1, <2>3, BoundsAssumption DEF Exhausted
      <3>2. QED
        BY <1>1, <2>1, <2>3, <3>1, <1>l, BoundsAssumption
        DEF ReadRound, CallsTyped, StepsLeft
    <2>4. QED
      BY <2>2, <2>3
  <1>2. CASE LookUp(c)
    BY <1>2, <1>l DEF LookUp
  <1>3. CASE Release(c)
    BY <1>3 DEF Release
  <1>4. CASE PrepareWhilePaused(c)
    BY <1>4, <1>l DEF PrepareWhilePaused
  <1>5. CASE PrepareEarlier(c)
    BY <1>5, <1>l DEF PrepareEarlier, Proceed
  <1>6. CASE Preflight(c, "preparing")
    BY <1>6, <1>l DEF Preflight, Proceed
  <1>7. CASE SignNothing(c)
    BY <1>7, <1>l DEF SignNothing
  <1>8. CASE SignReuse(c)
    <2> DEFINE k == NextLeg(at[c])
    <2>1. k \in Kinds /\ nonces[at[c]][k] \in Nat \cup {NoNonce}
      BY <1>0 DEF StateTyped
    <2>2. Carry(c, "broadcast", k, nonces[at[c]][k]) /\ pc[c] = "sign"
      BY <1>8 DEF SignReuse
    <2> HIDE DEF k
    <2>3. QED
      BY <2>1, <2>2, <1>l
  <1>9. CASE SignFresh(c)
    <2> DEFINE k == NextLeg(at[c])
    <2>1. k \in Kinds /\ Len(accepted) \in Nat
      BY <1>0 DEF StateTyped
    <2>2. Carry(c, "broadcast", k, Len(accepted)) /\ pc[c] = "sign"
      BY <1>9 DEF SignFresh
    <2> HIDE DEF k
    <2>3. QED
      BY <2>1, <2>2, <1>l
  <1>10. CASE BroadcastAnswered(c)
    BY <1>10, <1>l DEF BroadcastAnswered
  <1>11. CASE BroadcastRefused(c)
    BY <1>11, <1>l DEF BroadcastRefused
  <1>12. CASE RecordAmbiguous(c)
    BY <1>12, <1>l DEF RecordAmbiguous
  <1>13. CASE RecordSubmitted(c)
    BY <1>13, <1>l DEF RecordSubmitted
  <1>14. CASE PickLeg(c)
    <2> DEFINE k == FirstOf(BroadcastLegs(at[c]))
    <2>1. k \in Kinds
      BY DEF FirstOf, Kinds
    <2>2. nonces[at[c]][k] \in Nat \cup {NoNonce}
      BY <1>0, <2>1 DEF StateTyped
    <2>3. CASE BroadcastLegs(at[c]) = {}
      BY <1>14, <2>3, <1>l DEF PickLeg
    <2>4. CASE BroadcastLegs(at[c]) # {}
      <3>1. Carry(c, "verify", k, nonces[at[c]][k]) /\ pc[c] = "pick"
        BY <1>14, <2>4 DEF PickLeg
      <3> HIDE DEF k
      <3>2. QED
        BY <2>1, <2>2, <3>1, <1>l
    <2>5. QED
      BY <2>3, <2>4
  <1>15. CASE VerifyTransfer(c)
    BY <1>15, <1>l DEF VerifyTransfer
  <1>16. CASE ConfirmLeg(c)
    BY <1>16, <1>l DEF ConfirmLeg
  <1>17. CASE CallFault(c)
    <2>1. CASE \E result \in {"blocked", "retryable"} : Preflight(c, result)
      BY <2>1, <1>l DEF Preflight, Proceed
    <2>2. CASE \E result \in {"blocked", "retryable"} : SignRefused(c, result)
      BY <2>2, <1>l DEF SignRefused
    <2>3. CASE BroadcastLost(c)
      BY <2>3, <1>l DEF BroadcastLost
    <2>4. CASE Throw(c)
      BY <2>4, <1>l DEF Throw
    <2>5. QED
      BY <1>17, <2>1, <2>2, <2>3, <2>4 DEF CallFault
  <1>18. QED
    BY <1>1, <1>2, <1>3, <1>4, <1>5, <1>6, <1>7, <1>8, <1>9, <1>10, <1>11, <1>12, <1>13, <1>14, <1>15, <1>16, <1>17 DEF CallStep

\* ... and the database and the chain.
LEMMA CallStepKeepsState ==
    ASSUME StateTyped, CallsTyped, NEW c \in Calls, CallStep(c) \/ CallFault(c)
    PROVE  StateTyped'
  <1> USE DEF StateTyped, dbVars, chainVars, bounds
  <1>0. /\ at[c] \in Settlements
        /\ leg[c] \in Kinds
        /\ NextLeg(at[c]) \in Kinds
        /\ LegToConfirm(c) \in Kinds
    BY DEF CallsTyped, NextLeg, LegToConfirm, FirstOf, Kinds
  <1>1. CASE UNCHANGED <<dbVars, chainVars, bounds>>
    BY <1>1
  <1>2. CASE Release(c)
    BY <1>2 DEF Release
  <1>3. ASSUME NEW result \in {"preparing", "blocked", "retryable"}, Preflight(c, result)
        PROVE  StateTyped'
    BY <1>3, <1>0, FaultTyped DEF Preflight, SettlementStatus
  <1>4. CASE SignFresh(c)
    BY <1>4, <1>0 DEF SignFresh, LegStatus
  <1>5. ASSUME NEW status \in {"blocked", "retryable"}, SignRefused(c, status)
        PROVE  StateTyped'
    BY <1>5, <1>0, FaultTyped DEF SignRefused, SettlementStatus, LegStatus
  <1>6. ASSUME accepted' = Append(accepted, <<at[c], leg[c]>>), UNCHANGED <<dbVars, outcomes>>,
               UNCHANGED bounds \/ Fault
        PROVE  StateTyped'
    BY <1>6, <1>0, FaultTyped
  <1>7. CASE RecordAmbiguous(c)
    BY <1>7, <1>0 DEF RecordAmbiguous, SettlementStatus
  <1>8. CASE RecordSubmitted(c)
    <2>1. UNCHANGED <<nonces, lease, payoutsEnabled, accepted, outcomes, faults, expiries>>
      BY <1>8 DEF RecordSubmitted
    <2>2. CASE UNCHANGED <<settlements, legs, rounds>>
      BY <2>1, <2>2
    <2>3. CASE ~UNCHANGED <<settlements, legs, rounds>>
      <3>1. /\ legs' = [legs EXCEPT ![at[c]][leg[c]] = IF @ = "signed" THEN "broadcast" ELSE @]
            /\ settlements' = [settlements EXCEPT ![at[c]] = SubmittedStatus(leg[c])]
            /\ rounds' = [rounds EXCEPT ![at[c]] = "payout_broadcast"]
        BY <1>8, <2>3 DEF RecordSubmitted
      <3>2. legs' \in [Settlements -> [Kinds -> LegStatus]]
        BY <3>1, <1>0 DEF LegStatus
      <3>3. QED
        BY <2>1, <3>1, <3>2, <1>0 DEF SubmittedStatus, SettlementStatus, RoundStatus
    <2>4. QED
      BY <2>2, <2>3
  <1>9. CASE ConfirmLeg(c)
    <2>1. UNCHANGED <<nonces, lease, payoutsEnabled, accepted, outcomes, faults, expiries>>
      BY <1>9 DEF ConfirmLeg
    <2>2. CASE UNCHANGED <<settlements, legs, rounds>>
      BY <2>1, <2>2
    <2>3. CASE ~UNCHANGED <<settlements, legs, rounds>>
      <3> DEFINE k == LegToConfirm(c)
      <3>1. /\ legs' = [legs EXCEPT ![at[c]][k] = "confirmed"]
            /\ settlements' = [settlements EXCEPT ![at[c]] =
                                 IF k = Winner THEN "winner_confirmed" ELSE "settled"]
            /\ rounds' = [rounds EXCEPT ![at[c]] = IF k = Winner THEN @ ELSE "completed"]
        BY <1>9, <2>3 DEF ConfirmLeg
      <3>2. k \in Kinds
        BY <1>0
      <3> HIDE DEF k
      <3>3. legs' \in [Settlements -> [Kinds -> LegStatus]]
        BY <3>1, <3>2, <1>0 DEF LegStatus
      <3>4. QED
        BY <2>1, <3>1, <3>3, <1>0 DEF SettlementStatus, RoundStatus
    <2>4. QED
      BY <2>2, <2>3
  <1>10. CASE UNCHANGED <<dbVars, chainVars>> /\ Fault
    BY <1>10, FaultTyped
  <1>11. QED
    BY <1>1, <1>2, <1>3, <1>4, <1>5, <1>6, <1>7, <1>8, <1>9, <1>10
    DEF CallStep, CallFault, ReadRound, LookUp, PrepareWhilePaused, PrepareEarlier, SignNothing,
        SignReuse, BroadcastAnswered, BroadcastLost, BroadcastRefused, PickLeg, VerifyTransfer,
        Throw

LEMMA ClaimTyped ==
    ASSUME CallsTyped, NEW c \in Calls, NEW s \in Settlements, Claim(c, s)
    PROVE  CallsTyped'
  <1>1. /\ pc' = [pc EXCEPT ![c] = "read"]
        /\ at' = [at EXCEPT ![c] = s]
        /\ UNCHANGED <<seen, leg, tx, steps>>
    BY DEF Claim
  <1>2. QED
    BY <1>1 DEF CallsTyped, StepsLeft, Labels

\* The steps of the environment keep the types, too.
LEMMA EnvironmentTyped ==
    ASSUME StateTyped, CallsTyped,
           \/ \E c \in Calls, s \in Settlements : Claim(c, s)
           \/ \E w \in Workers : Crash(w)
           \/ \E s \in Settlements : LeaseAbandoned(s) \/ LeaseRunsOut(s)
           \/ Pause \/ Resume
           \/ \E outcome \in {"success", "reverted"} : Mine(outcome)
    PROVE  StateTyped' /\ CallsTyped'
  <1> USE DEF StateTyped, dbVars, chainVars, callVars, bounds
  <1>1. ASSUME NEW c \in Calls, NEW s \in Settlements, Claim(c, s)
        PROVE  StateTyped' /\ CallsTyped'
    <2>1. StateTyped'
      BY <1>1, CallsAssumption DEF Claim
    <2>2. CallsTyped'
      BY <1>1, ClaimTyped
    <2>3. QED
      BY <2>1, <2>2
  <1>2. ASSUME NEW w \in Workers, Crash(w)
        PROVE  StateTyped' /\ CallsTyped'
    BY <1>2, FaultTyped, ForgetTyped DEF Crash
  <1>3. CASE UNCHANGED callVars
    <2>1. CallsTyped'
      BY <1>3 DEF CallsTyped, StepsLeft
    <2>2. ASSUME NEW s \in Settlements, LeaseAbandoned(s) \/ LeaseRunsOut(s)
          PROVE  StateTyped'
      BY <2>2, BoundsAssumption DEF LeaseAbandoned, LeaseRunsOut, FreeLease
    <2>3. CASE Pause \/ Resume
      <3>1. payoutsEnabled' \in BOOLEAN
        BY <2>3 DEF Pause, Resume
      <3>2. faults' \in 0..MaxFaults /\ expiries' \in 0..MaxExpiries
        BY <2>3, FaultTyped DEF Pause, Resume
      <3>3. UNCHANGED <<settlements, legs, nonces, rounds, lease, accepted, outcomes>>
        BY <2>3 DEF Pause, Resume
      <3>4. QED
        BY <2>1, <3>1, <3>2, <3>3
    <2>4. ASSUME NEW outcome \in {"success", "reverted"}, Mine(outcome)
          PROVE  StateTyped'
      BY <2>4, FaultTyped DEF Mine
    <2>5. ASSUME NEW c \in Calls, NEW s \in Settlements, Claim(c, s)
          PROVE  FALSE
      BY <2>5, <1>3 DEF Claim, CallsTyped
    <2>6. ASSUME NEW w \in Workers, Crash(w)
          PROVE  StateTyped'
      BY <1>2, <2>6
    <2>7. QED
      BY <2>1, <2>2, <2>3, <2>4, <2>5, <2>6
  <1>4. QED
    BY <1>1, <1>2, <1>3 DEF LeaseAbandoned, LeaseRunsOut, FreeLease, Pause, Resume, Mine

\* Type correctness: every variable keeps the values the migrations and the
\* code give it, and no call exceeds its steps.
THEOREM TypeCorrect == Spec => [](TypeOK /\ StepsLeft)
  <1>1. TypeOK /\ StepsLeft /\ [Next]_vars => (TypeOK /\ StepsLeft)'
    <2> SUFFICES ASSUME StateTyped, CallsTyped, [Next]_vars
                 PROVE  StateTyped' /\ CallsTyped'
      BY TypesSplit DEF TypeOK, StateTyped, CallsTyped
    <2>1. ASSUME NEW c \in Calls, CallStep(c) \/ CallFault(c)
          PROVE  StateTyped' /\ CallsTyped'
      BY <2>1, CallStepKeepsState, CallStepKeepsCalls
    <2>2. CASE UNCHANGED vars
      BY <2>2 DEF StateTyped, CallsTyped, StepsLeft, vars, dbVars, chainVars, callVars, bounds
    <2>3. QED
      BY <2>1, <2>2, EnvironmentTyped DEF Next
  <1>2. QED
    BY <1>1, InitTyped, PTL DEF Spec

-----------------------------------------------------------------------------
(* The inductive invariant.  It is what IInv adds to the types.             *)

SafeInv ==
    /\ ChainHoldsPayloads /\ PayloadOfLeg /\ TreasuryWaits
    /\ CallsCarryPayloads /\ CallsConfirmBroadcast /\ CallsConfirmPaid
    /\ WinnerConfirmedIsPaid

Carrying == {"broadcast", "ambiguous", "submitted", "verify", "confirm"}

\* A call that carries a payload after the step carried it before.
Carries(d) ==
    pc'[d] \in Carrying =>
        /\ at'[d] = at[d] /\ leg'[d] = leg[d] /\ tx'[d] = tx[d]
        /\ \/ pc'[d] = pc[d]
           \/ pc[d] = "broadcast" /\ pc'[d] \in {"ambiguous", "submitted"}

\* The chain only grows.
ChainGrows ==
    /\ accepted' = accepted \/ \E x \in Settlements \X Kinds : accepted' = Append(accepted, x)
    /\ outcomes' = outcomes \/ \E o \in {"success", "reverted"} : outcomes' = Append(outcomes, o)

\* Append leaves the earlier entries of a sequence where they are.
LEMMA AppendKeeps ==
    ASSUME NEW S, NEW q \in Seq(S), NEW x \in S
    PROVE  /\ Append(q, x) \in Seq(S)
           /\ Len(Append(q, x)) = Len(q) + 1
           /\ Append(q, x)[Len(q) + 1] = x
           /\ \A i \in 1..Len(q) : Append(q, x)[i] = q[i]
  OBVIOUS

\* What the chain has confirmed, it keeps.
LEMMA ReceiptKept ==
    ASSUME StateTyped, ChainGrows, NEW s, NEW k, NEW n, Receipt(s, k, n, "success")
    PROVE  Receipt(s, k, n, "success")'
  <1>1. n \in 0..(Len(outcomes) - 1) /\ accepted[n + 1] = <<s, k>> /\ outcomes[n + 1] = "success"
    BY DEF Receipt
  <1>2. Len(outcomes) \in Nat /\ Len(accepted) \in Nat /\ Len(outcomes) <= Len(accepted)
    BY DEF StateTyped
  <1>3. n \in 0..(Len(outcomes') - 1) /\ outcomes'[n + 1] = "success"
    <2>1. CASE outcomes' = outcomes
      BY <1>1, <2>1
    <2>2. CASE \E o \in {"success", "reverted"} : outcomes' = Append(outcomes, o)
      <3>1. PICK o \in {"success", "reverted"} : outcomes' = Append(outcomes, o)
        BY <2>2
      <3>2. outcomes \in Seq({"success", "reverted"})
        BY DEF StateTyped
      <3>3. QED
        BY <1>1, <1>2, <3>1, <3>2, AppendKeeps
    <2>3. QED
      BY <2>1, <2>2 DEF ChainGrows
  <1>4. accepted'[n + 1] = <<s, k>>
    <2>1. CASE accepted' = accepted
      BY <1>1, <2>1
    <2>2. CASE \E x \in Settlements \X Kinds : accepted' = Append(accepted, x)
      <3>1. PICK x \in Settlements \X Kinds : accepted' = Append(accepted, x)
        BY <2>2
      <3>2. accepted \in Seq(Settlements \X Kinds) /\ n + 1 \in 1..Len(accepted)
        BY <1>1, <1>2 DEF StateTyped
      <3>3. Append(accepted, x)[n + 1] = accepted[n + 1]
        BY <3>2, AppendKeeps
      <3>4. QED
        BY <1>1, <3>1, <3>3
    <2>3. QED
      BY <2>1, <2>2 DEF ChainGrows
  <1>5. QED
    BY <1>3, <1>4 DEF Receipt

LEMMA PaidKept ==
    ASSUME StateTyped, ChainGrows, NEW s, NEW k, Paid(s, k)
    PROVE  Paid(s, k)'
  <1>1. PICK n \in 0..(Len(outcomes) - 1) : Receipt(s, k, n, "success")
    BY DEF Paid
  <1>2. Receipt(s, k, n, "success")'
    BY <1>1, ReceiptKept
  <1>3. n \in 0..(Len(outcomes') - 1)
    BY <1>2 DEF Receipt
  <1>4. QED
    BY <1>2, <1>3 DEF Paid

\* A step that leaves the legs and their payloads alone, and in which calls
\* pick up nothing new, keeps the invariant.
LEMMA QuietStep ==
    ASSUME StateTyped, CallsTyped, SafeInv, UNCHANGED <<legs, nonces, accepted>>, ChainGrows,
           \A d \in Calls : Carries(d)
    PROVE  SafeInv'
  <1> USE DEF SafeInv
  <1>1. ChainHoldsPayloads' /\ PayloadOfLeg' /\ TreasuryWaits'
    BY DEF ChainHoldsPayloads, PayloadOfLeg, TreasuryWaits
  <1>2. CallsCarryPayloads'
    BY DEF CallsCarryPayloads, Carries, Carrying
  <1>3. CallsConfirmBroadcast'
    BY DEF CallsConfirmBroadcast, Carries, Carrying
  <1>4. CallsConfirmPaid'
    BY ReceiptKept DEF CallsConfirmPaid, Carries, Carrying
  <1>5. WinnerConfirmedIsPaid'
    BY PaidKept DEF WinnerConfirmedIsPaid
  <1>6. QED
    BY <1>1, <1>2, <1>3, <1>4, <1>5

\* The moves that pick up nothing.
LEMMA GotoCarries ==
    ASSUME CallsTyped, NEW c \in Calls, NEW label, Goto(c, label),
           \/ label \notin Carrying
           \/ pc[c] = "broadcast" /\ label \in {"ambiguous", "submitted"}
    PROVE  \A d \in Calls : Carries(d)
  BY DEF CallsTyped, Goto, Carries

LEMMA NextIterationCarries ==
    ASSUME CallsTyped, NEW c \in Calls, NextIteration(c)
    PROVE  \A d \in Calls : Carries(d)
  BY DEF CallsTyped, NextIteration, Carries, Carrying

LEMMA ReturnedCarries ==
    ASSUME CallsTyped, NEW c \in Calls, NEW status, Returned(c, status)
    PROVE  \A d \in Calls : Carries(d)
  <1>1. "release" \notin Carrying
    BY DEF Carrying
  <1>2. QED
    BY <1>1, GotoCarries, NextIterationCarries DEF Returned

LEMMA ForgetCarries ==
    ASSUME NEW calls, Forget(calls)
    PROVE  \A d \in Calls : Carries(d)
  BY DEF Forget, Carries, Carrying

LEMMA ProceedCarries ==
    ASSUME CallsTyped, NEW c \in Calls, NEW status, Proceed(c, status)
    PROVE  \A d \in Calls : Carries(d)
  <1>1. "sign" \notin Carrying
    BY DEF Carrying
  <1>2. QED
    BY <1>1, GotoCarries, ReturnedCarries DEF Proceed

\* Picking up a persisted payload, to broadcast or to verify it.
LEMMA CarrySafe ==
    ASSUME StateTyped, CallsTyped, SafeInv, UNCHANGED <<legs, nonces, accepted, outcomes>>,
           NEW c \in Calls, NEW k \in Kinds, NEW label \in {"broadcast", "verify"},
           Carry(c, label, k, nonces[at[c]][k]),
           legs[at[c]][k] \in HasPayload,
           label = "verify" => legs[at[c]][k] = "broadcast"
    PROVE  SafeInv'
  <1> USE DEF SafeInv
  <1>0. at[c] \in Settlements
    BY DEF CallsTyped
  <1>1. ChainHoldsPayloads' /\ PayloadOfLeg' /\ TreasuryWaits' /\ WinnerConfirmedIsPaid'
    BY DEF ChainHoldsPayloads, PayloadOfLeg, TreasuryWaits, WinnerConfirmedIsPaid, Paid, Receipt
  <1>2. \A d \in Calls : d # c =>
            pc'[d] = pc[d] /\ at'[d] = at[d] /\ leg'[d] = leg[d] /\ tx'[d] = tx[d]
    BY DEF Carry, CallsTyped
  <1>3. pc'[c] = label /\ at'[c] = at[c] /\ leg'[c] = k /\ tx'[c] = nonces[at[c]][k]
    BY DEF Carry, CallsTyped
  <1>4. nonces[at[c]][k] # NoNonce
    BY <1>0 DEF PayloadOfLeg
  <1>5. CallsCarryPayloads'
    BY <1>2, <1>3, <1>4 DEF CallsCarryPayloads
  <1>6. CallsConfirmBroadcast'
    BY <1>2, <1>3 DEF CallsConfirmBroadcast
  <1>7. CallsConfirmPaid'
    BY <1>2, <1>3 DEF CallsConfirmPaid, Receipt
  <1>8. QED
    BY <1>1, <1>5, <1>6, <1>7

LEMMA VerifySafe ==
    ASSUME StateTyped, CallsTyped, SafeInv, NEW c \in Calls, VerifyTransfer(c)
    PROVE  SafeInv'
  <1> USE DEF VerifyTransfer, dbVars, chainVars
  <1>1. UNCHANGED <<legs, nonces, accepted, outcomes>> /\ ChainGrows
    BY DEF ChainGrows
  <1>2. CASE ~Verified(at[c], leg[c], tx[c])
    <2>1. \A d \in Calls : Carries(d)
      BY <1>2, GotoCarries, NextIterationCarries DEF Carrying
    <2>2. QED
      BY <1>1, <2>1, QuietStep
  <1>3. CASE Verified(at[c], leg[c], tx[c])
    <2> USE DEF SafeInv
    <2>0. ~Receipt(at[c], leg[c], tx[c], "reverted")
      BY <1>3 DEF Verified, Receipt
    <2>1. Goto(c, "confirm") /\ pc[c] = "verify"
      BY <1>3, <2>0
    <2>2. \A d \in Calls : /\ d # c => pc'[d] = pc[d]
                           /\ at'[d] = at[d] /\ leg'[d] = leg[d] /\ tx'[d] = tx[d]
      BY <2>1 DEF Goto, CallsTyped
    <2>3. pc'[c] = "confirm"
      BY <2>1 DEF Goto, CallsTyped
    <2>4. ChainHoldsPayloads' /\ PayloadOfLeg' /\ TreasuryWaits' /\ WinnerConfirmedIsPaid'
      BY <1>1 DEF ChainHoldsPayloads, PayloadOfLeg, TreasuryWaits, WinnerConfirmedIsPaid, Paid, Receipt
    <2>5. CallsCarryPayloads'
      BY <1>1, <2>1, <2>2, <2>3 DEF CallsCarryPayloads
    <2>6. CallsConfirmBroadcast'
      BY <1>1, <2>1, <2>2, <2>3 DEF CallsConfirmBroadcast
    <2>7. CallsConfirmPaid'
      BY <1>1, <1>3, <2>2 DEF CallsConfirmPaid, Receipt, Verified
    <2>8. QED
      BY <2>4, <2>5, <2>6, <2>7
  <1>4. QED
    BY <1>2, <1>3

\* The first payload of a leg takes a nonce that no transaction has.
LEMMA SignFreshSafe ==
    ASSUME StateTyped, CallsTyped, SafeInv, NEW c \in Calls, SignFresh(c)
    PROVE  SafeInv'
  <1> DEFINE s == at[c]
             k == NextLeg(s)
             n == Len(accepted)
  <1> USE DEF SafeInv
  <1>0. s \in Settlements /\ k \in Kinds /\ n \in Nat
    BY DEF CallsTyped, StateTyped, NextLeg, Kinds
  <1>1. /\ legs' = [legs EXCEPT ![s][k] = "signed"]
        /\ nonces' = [nonces EXCEPT ![s][k] = n]
        /\ Carry(c, "broadcast", k, n)
        /\ UNCHANGED <<accepted, outcomes>>
    BY DEF SignFresh, chainVars
  <1>2. legs[s][k] \in LegStatus /\ legs[s][k] \notin HasPayload
    BY <1>0 DEF SignFresh, Signable, Reusable, HasPayload, StateTyped
  <1>3. nonces[s][k] = NoNonce
    BY <1>0, <1>2 DEF PayloadOfLeg
  <1>k. k = Treasury => legs[s][Winner] = "confirmed"
    BY DEF NextLeg, Winner, Treasury
  <1> HIDE DEF s, k, n
  <1>4. \A t \in Settlements, j \in Kinds : <<t, j>> # <<s, k>> =>
            legs'[t][j] = legs[t][j] /\ nonces'[t][j] = nonces[t][j]
    BY <1>0, <1>1 DEF StateTyped
  <1>5. legs'[s][k] = "signed" /\ nonces'[s][k] = n /\ n # NoNonce
    BY <1>0, <1>1 DEF StateTyped, NoNonce
  <1>6. ChainHoldsPayloads'
    <2>1. \A i \in DOMAIN accepted :
              /\ accepted[i] \in Settlements \X Kinds
              /\ nonces[accepted[i][1]][accepted[i][2]] = i - 1 /\ i - 1 # NoNonce
      BY DEF ChainHoldsPayloads, StateTyped, NoNonce
    <2>2. \A i \in DOMAIN accepted : <<accepted[i][1], accepted[i][2]>> # <<s, k>>
      BY <1>3, <2>1
    <2>3. QED
      BY <1>1, <1>4, <2>1, <2>2 DEF ChainHoldsPayloads
  <1>7. PayloadOfLeg'
    BY <1>4, <1>5 DEF PayloadOfLeg, HasPayload
  <1>8. TreasuryWaits'
    <2>1. Winner \in Kinds /\ Treasury \in Kinds /\ Winner # Treasury
      BY DEF Kinds, Winner, Treasury
    <2>2. k = Winner => legs[s][Treasury] \notin HasPayload
      BY <1>0, <1>2 DEF TreasuryWaits, HasPayload
    <2>3. ASSUME NEW t \in Settlements, legs'[t][Treasury] \in HasPayload
          PROVE  legs'[t][Winner] = "confirmed"
      <3>1. CASE t # s
        BY <3>1, <2>1, <2>3, <1>4 DEF TreasuryWaits
      <3>2. CASE t = s /\ k = Winner
        BY <3>2, <2>1, <2>2, <2>3, <1>4
      <3>3. CASE t = s /\ k = Treasury
        BY <3>3, <2>1, <1>k, <1>4
      <3>4. QED
        BY <3>1, <3>2, <3>3, <1>0 DEF Kinds
    <2>4. QED
      BY <2>3 DEF TreasuryWaits
  <1>9. \A d \in Calls : d # c =>
            pc'[d] = pc[d] /\ at'[d] = at[d] /\ leg'[d] = leg[d] /\ tx'[d] = tx[d]
    BY <1>1 DEF Carry, CallsTyped
  <1>10. pc'[c] = "broadcast" /\ at'[c] = s /\ leg'[c] = k /\ tx'[c] = n
    BY <1>1 DEF Carry, CallsTyped, s
  <1>11. \A d \in Calls : at[d] \in Settlements /\ leg[d] \in Kinds
    BY DEF CallsTyped
  <1>12. CallsCarryPayloads'
    <2>1. ASSUME NEW d \in Calls, d # c, pc[d] \in Carrying
          PROVE  tx[d] # NoNonce /\ nonces'[at[d]][leg[d]] = tx[d]
      <3>1. tx[d] # NoNonce /\ nonces[at[d]][leg[d]] = tx[d]
        BY <2>1 DEF CallsCarryPayloads, Carrying
      <3>2. <<at[d], leg[d]>> # <<s, k>>
        BY <3>1, <1>3
      <3>3. QED
        BY <3>1, <3>2, <1>4, <1>11
    <2>2. QED
      BY <2>1, <1>9, <1>10, <1>5 DEF CallsCarryPayloads, Carrying
  <1>13. CallsConfirmBroadcast'
    <2>1. ASSUME NEW d \in Calls, d # c, pc[d] \in {"verify", "confirm"}
          PROVE  legs'[at[d]][leg[d]] \in {"broadcast", "confirmed"}
      <3>1. legs[at[d]][leg[d]] \in {"broadcast", "confirmed"}
        BY <2>1 DEF CallsConfirmBroadcast
      <3>2. <<at[d], leg[d]>> # <<s, k>>
        BY <3>1, <1>2 DEF HasPayload
      <3>3. QED
        BY <3>1, <3>2, <1>4, <1>11
    <2>2. QED
      BY <2>1, <1>9, <1>10 DEF CallsConfirmBroadcast
  <1>14. CallsConfirmPaid'
    BY <1>1, <1>9, <1>10 DEF CallsConfirmPaid, Receipt
  <1>15. WinnerConfirmedIsPaid'
    <2>1. \A t \in Settlements : legs'[t][Winner] = "confirmed" => legs[t][Winner] = "confirmed"
      BY <1>4, <1>5 DEF Kinds
    <2>2. QED
      BY <2>1, <1>1 DEF WinnerConfirmedIsPaid, Paid, Receipt
  <1>16. QED
    BY <1>6, <1>7, <1>8, <1>12, <1>13, <1>14, <1>15

\* Steps that give no leg a payload and take none away, in which calls pick up
\* nothing new.
LEMMA LegsKeptSafe ==
    ASSUME StateTyped, CallsTyped, SafeInv, UNCHANGED <<nonces, accepted>>, ChainGrows,
           \A d \in Calls : Carries(d),
           \A t \in Settlements, j \in Kinds :
               legs'[t][j] \in HasPayload \/ legs[t][j] \in HasPayload => legs'[t][j] = legs[t][j]
    PROVE  SafeInv'
  <1> USE DEF SafeInv
  <1>0. Winner \in Kinds /\ Treasury \in Kinds
    BY DEF Kinds
  <1>1. ChainHoldsPayloads' /\ PayloadOfLeg'
    BY DEF ChainHoldsPayloads, PayloadOfLeg
  <1>2. TreasuryWaits'
    BY <1>0 DEF TreasuryWaits, HasPayload
  <1>3. CallsCarryPayloads'
    BY DEF CallsCarryPayloads, Carries, Carrying
  <1>4. CallsConfirmBroadcast'
    BY DEF CallsConfirmBroadcast, Carries, Carrying, CallsTyped, HasPayload
  <1>5. CallsConfirmPaid'
    BY ReceiptKept DEF CallsConfirmPaid, Carries, Carrying
  <1>6. WinnerConfirmedIsPaid'
    BY <1>0, PaidKept DEF WinnerConfirmedIsPaid, HasPayload
  <1>7. QED
    BY <1>1, <1>2, <1>3, <1>4, <1>5, <1>6

\* The node takes the persisted payload of the call, at the wallet's next nonce.
LEMMA AppendSafe ==
    ASSUME StateTyped, CallsTyped, SafeInv, UNCHANGED <<legs, nonces, outcomes>>,
           NEW c \in Calls, pc[c] = "broadcast", Fits(tx[c]),
           accepted' = Append(accepted, <<at[c], leg[c]>>),
           \A d \in Calls : Carries(d)
    PROVE  SafeInv'
  <1> USE DEF SafeInv
  <1> DEFINE x == <<at[c], leg[c]>>
  <1>0. x \in Settlements \X Kinds /\ accepted \in Seq(Settlements \X Kinds)
    BY DEF CallsTyped, StateTyped
  <1>1. ChainGrows
    BY <1>0 DEF ChainGrows
  <1>2. nonces[at[c]][leg[c]] = Len(accepted)
    BY DEF Fits, CallsCarryPayloads
  <1>3. ChainHoldsPayloads'
    <2> SUFFICES ASSUME NEW i \in DOMAIN accepted'
                 PROVE  nonces[accepted'[i][1]][accepted'[i][2]] = i - 1
      BY DEF ChainHoldsPayloads
    <2>1. accepted' = Append(accepted, x) /\ Len(accepted) \in Nat
      BY <1>0
    <2> HIDE DEF x
    <2>2. i \in 1..(Len(accepted) + 1)
      BY <2>1, <1>0, AppendKeeps
    <2>3. CASE i = Len(accepted) + 1
      <3>1. accepted'[i] = x
        BY <2>1, <2>3, <1>0, AppendKeeps
      <3>2. QED
        BY <3>1, <2>1, <2>3, <1>2 DEF x
    <2>4. CASE i \in 1..Len(accepted)
      <3>1. accepted'[i] = accepted[i] /\ i \in DOMAIN accepted
        BY <2>1, <2>4, <1>0, AppendKeeps
      <3>2. QED
        BY <3>1 DEF ChainHoldsPayloads
    <2>5. QED
      BY <2>1, <2>2, <2>3, <2>4
  <1>4. PayloadOfLeg' /\ TreasuryWaits'
    BY DEF PayloadOfLeg, TreasuryWaits
  <1>5. CallsCarryPayloads'
    BY DEF CallsCarryPayloads, Carries, Carrying
  <1>6. CallsConfirmBroadcast'
    BY DEF CallsConfirmBroadcast, Carries, Carrying
  <1>7. CallsConfirmPaid'
    BY <1>1, ReceiptKept DEF CallsConfirmPaid, Carries, Carrying
  <1>8. WinnerConfirmedIsPaid'
    BY <1>1, PaidKept DEF WinnerConfirmedIsPaid
  <1>9. QED
    BY <1>3, <1>4, <1>5, <1>6, <1>7, <1>8

\* A submitted leg was signed before, and so keeps its payload.
LEMMA RecordSubmittedSafe ==
    ASSUME StateTyped, CallsTyped, SafeInv, NEW c \in Calls, RecordSubmitted(c)
    PROVE  SafeInv'
  <1> DEFINE s == at[c]
             k == leg[c]
  <1>0. s \in Settlements /\ k \in Kinds
    BY DEF CallsTyped
  <1>1. UNCHANGED <<nonces, accepted, outcomes>> /\ ChainGrows
    BY DEF RecordSubmitted, chainVars, ChainGrows
  <1>2. \A d \in Calls : Carries(d)
    BY ReturnedCarries DEF RecordSubmitted
  <1>3. CASE UNCHANGED legs
    BY <1>1, <1>2, <1>3, QuietStep
  <1>4. CASE ~UNCHANGED legs
    <2> USE DEF SafeInv
    <2>1. legs' = [legs EXCEPT ![s][k] = IF @ = "signed" THEN "broadcast" ELSE @]
      BY <1>4 DEF RecordSubmitted
    <2> HIDE DEF s, k
    <2>2. \A t \in Settlements, j \in Kinds :
              \/ legs'[t][j] = legs[t][j]
              \/ legs[t][j] = "signed" /\ legs'[t][j] = "broadcast"
      BY <1>0, <2>1 DEF StateTyped
    <2>3. \A d \in Calls : at[d] \in Settlements /\ leg[d] \in Kinds
      BY DEF CallsTyped
    <2>4. Winner \in Kinds /\ Treasury \in Kinds
      BY DEF Kinds
    <2>5. ChainHoldsPayloads'
      BY <1>1 DEF ChainHoldsPayloads
    <2>6. PayloadOfLeg'
      BY <1>1, <2>2 DEF PayloadOfLeg, HasPayload
    <2>7. TreasuryWaits'
      BY <2>2, <2>4 DEF TreasuryWaits, HasPayload
    <2>8. CallsCarryPayloads'
      BY <1>1, <1>2 DEF CallsCarryPayloads, Carries, Carrying
    <2>9. CallsConfirmBroadcast'
      BY <1>2, <2>2, <2>3 DEF CallsConfirmBroadcast, Carries, Carrying
    <2>10. CallsConfirmPaid'
      BY <1>1, <1>2, ReceiptKept DEF CallsConfirmPaid, Carries, Carrying
    <2>11. WinnerConfirmedIsPaid'
      BY <1>1, <2>2, <2>4, PaidKept DEF WinnerConfirmedIsPaid
    <2>12. QED
      BY <2>5, <2>6, <2>7, <2>8, <2>9, <2>10, <2>11
  <1>5. QED
    BY <1>3, <1>4

\* confirmNextSettlementLeg may confirm another leg than the one verified, but
\* when it confirms the winner's that is the leg that was verified: the
\* treasury leg has no payload as long as the winner's is not confirmed.
LEMMA ConfirmSafe ==
    ASSUME StateTyped, CallsTyped, SafeInv, NEW c \in Calls, ConfirmLeg(c)
    PROVE  SafeInv'
  <1> DEFINE s == at[c]
             k == LegToConfirm(c)
  <1>0. s \in Settlements /\ k \in Kinds /\ leg[c] \in Kinds
    BY DEF CallsTyped, LegToConfirm, FirstOf, Kinds
  <1>1. UNCHANGED <<nonces, accepted, outcomes>> /\ ChainGrows /\ pc[c] = "confirm"
    BY DEF ConfirmLeg, chainVars, ChainGrows
  <1>2. \A d \in Calls : Carries(d)
    BY NextIterationCarries DEF ConfirmLeg
  <1>3. CASE UNCHANGED legs
    BY <1>1, <1>2, <1>3, QuietStep
  <1>4. CASE ~UNCHANGED legs
    <2> USE DEF SafeInv
    <2>1. legs' = [legs EXCEPT ![s][k] = "confirmed"] /\ BroadcastLegs(s) # {}
      BY <1>4 DEF ConfirmLeg
    <2>2. legs[s][k] = "broadcast"
      BY <2>1 DEF LegToConfirm, FirstOf, BroadcastLegs, Kinds
    <2>3. k = Winner => leg[c] = Winner
      <3>1. legs[s][leg[c]] \in {"broadcast", "confirmed"}
        BY <1>1 DEF CallsConfirmBroadcast
      <3>2. k = Winner => legs[s][Winner] # "confirmed"
        BY <2>2
      <3>3. k = Winner => leg[c] # Treasury
        BY <1>0, <3>1, <3>2 DEF TreasuryWaits, HasPayload
      <3>4. QED
        BY <1>0, <3>3 DEF Kinds
    <2>4. k = Winner => Paid(s, Winner)
      <3>1. Receipt(s, leg[c], tx[c], "success")
        BY <1>1 DEF CallsConfirmPaid
      <3>2. QED
        BY <2>3, <3>1 DEF Paid, Receipt
    <2> HIDE DEF s, k
    <2>5. \A t \in Settlements, j \in Kinds :
              /\ <<t, j>> # <<s, k>> => legs'[t][j] = legs[t][j]
              /\ legs'[s][k] = "confirmed"
      BY <1>0, <2>1 DEF StateTyped
    <2>6. \A d \in Calls : at[d] \in Settlements /\ leg[d] \in Kinds
      BY DEF CallsTyped
    <2>7. Winner \in Kinds /\ Treasury \in Kinds
      BY DEF Kinds
    <2>8. \A t \in Settlements, j \in Kinds :
              \/ legs'[t][j] = legs[t][j]
              \/ legs[t][j] = "broadcast" /\ legs'[t][j] = "confirmed"
      BY <2>2, <2>5
    <2>9. ChainHoldsPayloads'
      BY <1>1 DEF ChainHoldsPayloads
    <2>10. PayloadOfLeg'
      BY <1>1, <2>8 DEF PayloadOfLeg, HasPayload
    <2>11. TreasuryWaits'
      BY <2>7, <2>8 DEF TreasuryWaits, HasPayload
    <2>12. CallsCarryPayloads'
      BY <1>1, <1>2 DEF CallsCarryPayloads, Carries, Carrying
    <2>13. CallsConfirmBroadcast'
      BY <1>2, <2>6, <2>8 DEF CallsConfirmBroadcast, Carries, Carrying
    <2>14. CallsConfirmPaid'
      BY <1>1, <1>2, ReceiptKept DEF CallsConfirmPaid, Carries, Carrying
    <2>15. WinnerConfirmedIsPaid'
      <3>1. ASSUME NEW t \in Settlements, legs'[t][Winner] = "confirmed"
            PROVE  Paid(t, Winner)
        BY <3>1, <2>4, <2>5, <2>7 DEF WinnerConfirmedIsPaid
      <3>2. QED
        BY <1>1, <3>1, PaidKept DEF WinnerConfirmedIsPaid
    <2>16. QED
      BY <2>9, <2>10, <2>11, <2>12, <2>13, <2>14, <2>15
  <1>5. QED
    BY <1>3, <1>4

\* A refused signature leaves the leg without a payload, as it was.
LEMMA SignRefusedSafe ==
    ASSUME StateTyped, CallsTyped, SafeInv, NEW c \in Calls, NEW status,
           SignRefused(c, status)
    PROVE  SafeInv'
  <1> DEFINE s == at[c]
             k == NextLeg(s)
  <1> USE DEF SafeInv
  <1>0. s \in Settlements /\ k \in Kinds
    BY DEF CallsTyped, NextLeg, Kinds
  <1>1. /\ legs' = [legs EXCEPT ![s][k] = IF status = "blocked" THEN "failed" ELSE "pending"]
        /\ Returned(c, status)
        /\ UNCHANGED <<nonces, accepted, outcomes>>
    BY DEF SignRefused, chainVars
  <1>2. legs[s][k] \notin HasPayload
    BY <1>0 DEF SignRefused, Signable, Reusable, HasPayload, StateTyped
  <1>3. \A d \in Calls : Carries(d)
    BY <1>1, ReturnedCarries
  <1> HIDE DEF s, k
  <1>4. \A t \in Settlements, j \in Kinds : <<t, j>> # <<s, k>> => legs'[t][j] = legs[t][j]
    BY <1>0, <1>1 DEF StateTyped
  <1>5. legs'[s][k] \notin HasPayload
    BY <1>0, <1>1 DEF StateTyped, HasPayload
  <1>6. \A t \in Settlements, j \in Kinds :
            legs'[t][j] \in HasPayload \/ legs[t][j] \in HasPayload => legs'[t][j] = legs[t][j]
    BY <1>2, <1>4, <1>5
  <1> HIDE DEF SafeInv
  <1>7. QED
    BY <1>1, <1>3, <1>6, LegsKeptSafe DEF ChainGrows

-----------------------------------------------------------------------------
\* Every step of a call keeps the invariant.
LEMMA CallStepSafe ==
    ASSUME StateTyped, CallsTyped, SafeInv, NEW c \in Calls, CallStep(c) \/ CallFault(c)
    PROVE  SafeInv'
  <1> USE DEF dbVars, chainVars, bounds
  <1>l. {"lookup", "prepare", "release", "pick", "sign"} \cap Carrying = {}
    BY DEF Carrying
  <1>1. CASE UNCHANGED <<legs, nonces, accepted>> /\ ChainGrows /\ \A d \in Calls : Carries(d)
    BY <1>1, QuietStep
  <1>2. CASE ReadRound(c)
    BY <1>2, <1>1, GotoCarries DEF ReadRound, ChainGrows, Carries, Carrying, CallsTyped
  <1>3. CASE LookUp(c)
    BY <1>3, <1>1, <1>l, GotoCarries, NextIterationCarries DEF LookUp, ChainGrows
  <1>4. CASE Release(c)
    BY <1>4, <1>1, ForgetCarries DEF Release, ChainGrows
  <1>5. CASE PrepareWhilePaused(c)
    BY <1>5, <1>1, <1>l, GotoCarries DEF PrepareWhilePaused, ChainGrows
  <1>6. CASE PrepareEarlier(c)
    BY <1>6, <1>1, ProceedCarries DEF PrepareEarlier, ChainGrows
  <1>7. CASE \E result \in {"preparing", "blocked", "retryable"} : Preflight(c, result)
    BY <1>7, <1>1, ProceedCarries DEF Preflight, ChainGrows
  <1>8. CASE SignNothing(c)
    BY <1>8, <1>1, ReturnedCarries DEF SignNothing, ChainGrows
  <1>9. CASE SignReuse(c)
    <2> DEFINE k == NextLeg(at[c])
    <2>1. k \in Kinds /\ legs[at[c]][k] \in HasPayload
      BY <1>9 DEF SignReuse, Reusable, NextLeg, Kinds, HasPayload
    <2>2. Carry(c, "broadcast", k, nonces[at[c]][k]) /\ UNCHANGED <<legs, nonces, accepted, outcomes>>
      BY <1>9 DEF SignReuse
    <2> HIDE DEF k
    <2>3. QED
      BY <2>1, <2>2, CarrySafe
  <1>10. CASE SignFresh(c)
    BY <1>10, SignFreshSafe
  <1>11. CASE \E status \in {"blocked", "retryable"} : SignRefused(c, status)
    BY <1>11, SignRefusedSafe
  <1>12. CASE BroadcastAnswered(c) \/ BroadcastLost(c)
    <2>1. /\ pc[c] = "broadcast" /\ UNCHANGED <<legs, nonces, outcomes>>
          /\ Goto(c, "submitted") \/ Goto(c, "ambiguous")
          /\ \/ UNCHANGED accepted
             \/ Fits(tx[c]) /\ accepted' = Append(accepted, <<at[c], leg[c]>>)
      BY <1>12 DEF BroadcastAnswered, BroadcastLost
    <2>2. \A d \in Calls : Carries(d)
      BY <2>1, GotoCarries
    <2>3. CASE UNCHANGED accepted
      BY <1>1, <2>1, <2>2, <2>3 DEF ChainGrows
    <2>4. QED
      BY <2>1, <2>2, <2>3, AppendSafe
  <1>13. CASE BroadcastRefused(c)
    BY <1>13, <1>1, GotoCarries DEF BroadcastRefused, ChainGrows
  <1>14. CASE RecordAmbiguous(c)
    BY <1>14, <1>1, ReturnedCarries DEF RecordAmbiguous, ChainGrows
  <1>15. CASE RecordSubmitted(c)
    BY <1>15, RecordSubmittedSafe
  <1>16. CASE PickLeg(c)
    <2> DEFINE k == FirstOf(BroadcastLegs(at[c]))
    <2>1. UNCHANGED <<legs, nonces, accepted, outcomes>>
      BY <1>16 DEF PickLeg
    <2>2. CASE BroadcastLegs(at[c]) = {}
      BY <1>16, <2>1, <2>2, <1>1, NextIterationCarries DEF PickLeg, ChainGrows
    <2>3. CASE BroadcastLegs(at[c]) # {}
      <3>1. k \in Kinds /\ legs[at[c]][k] = "broadcast"
        BY <2>3 DEF FirstOf, BroadcastLegs, Kinds
      <3>2. Carry(c, "verify", k, nonces[at[c]][k])
        BY <1>16, <2>3 DEF PickLeg
      <3> HIDE DEF k
      <3>3. QED
        BY <2>1, <3>1, <3>2, CarrySafe DEF HasPayload
    <2>4. QED
      BY <2>2, <2>3
  <1>17. CASE VerifyTransfer(c)
    BY <1>17, VerifySafe
  <1>18. CASE ConfirmLeg(c)
    BY <1>18, ConfirmSafe
  <1>19. CASE Throw(c)
    BY <1>19, <1>1, <1>l, GotoCarries DEF Throw, ChainGrows
  <1>20. QED
    BY <1>2, <1>3, <1>4, <1>5, <1>6, <1>7, <1>8, <1>9, <1>10, <1>11, <1>12, <1>13, <1>14, <1>15,
       <1>16, <1>17, <1>18, <1>19 DEF CallStep, CallFault

\* The environment gives no call a payload and takes nothing from the chain.
LEMMA EnvironmentSafe ==
    ASSUME StateTyped, CallsTyped, SafeInv,
           \/ \E c \in Calls, s \in Settlements : Claim(c, s)
           \/ \E w \in Workers : Crash(w)
           \/ \E s \in Settlements : LeaseAbandoned(s) \/ LeaseRunsOut(s)
           \/ Pause \/ Resume
           \/ \E outcome \in {"success", "reverted"} : Mine(outcome)
           \/ UNCHANGED vars
    PROVE  SafeInv'
  <1> USE DEF dbVars, chainVars, callVars, bounds
  <1>1. UNCHANGED <<legs, nonces, accepted>>
    BY DEF Claim, Crash, LeaseAbandoned, LeaseRunsOut, FreeLease, Pause, Resume, Mine, vars
  <1>2. ChainGrows
    BY DEF Claim, Crash, LeaseAbandoned, LeaseRunsOut, FreeLease, Pause, Resume, Mine, vars,
           ChainGrows
  <1>3. \A d \in Calls : Carries(d)
    <2>1. CASE \E c \in Calls, s \in Settlements : Claim(c, s)
      BY <2>1 DEF Claim, Carries, Carrying, CallsTyped
    <2>2. CASE \E w \in Workers : Crash(w)
      BY <2>2, ForgetCarries DEF Crash
    <2>3. CASE UNCHANGED callVars
      BY <2>3 DEF Carries
    <2>4. QED
      BY <2>1, <2>2, <2>3 DEF LeaseAbandoned, LeaseRunsOut, FreeLease, Pause, Resume, Mine, vars
  <1>4. QED
    BY <1>1, <1>2, <1>3, QuietStep

LEMMA InitSafe == Init => SafeInv
  <1> SUFFICES ASSUME Init PROVE SafeInv
    OBVIOUS
  <1>1. DOMAIN accepted = {}
    BY DEF Init
  <1>2. ChainHoldsPayloads
    BY <1>1 DEF ChainHoldsPayloads
  <1>3. PayloadOfLeg /\ TreasuryWaits /\ WinnerConfirmedIsPaid
    BY DEF Init, PayloadOfLeg, TreasuryWaits, WinnerConfirmedIsPaid, HasPayload, Kinds, NoNonce
  <1>4. CallsCarryPayloads /\ CallsConfirmBroadcast /\ CallsConfirmPaid
    BY DEF Init, CallsCarryPayloads, CallsConfirmBroadcast, CallsConfirmPaid
  <1>5. QED
    BY <1>2, <1>3, <1>4 DEF SafeInv

\* The inductive invariant holds of every behaviour: payloads are never
\* replaced, the chain holds persisted payloads only, and a call that acts on
\* a stale read still acts on what the chain has confirmed.
THEOREM Safe == Spec => []IInv
  <1> DEFINE Good == TypeOK /\ StepsLeft /\ SafeInv
  <1>1. Good /\ [Next]_vars => SafeInv'
    <2> SUFFICES ASSUME StateTyped, CallsTyped, SafeInv, [Next]_vars
                 PROVE  SafeInv'
      BY TypesSplit
    <2>1. QED
      BY CallStepSafe, EnvironmentSafe DEF Next
  <1>2. Init => SafeInv
    BY InitSafe
  <1>3. IInv <=> Good
    BY DEF IInv, SafeInv
  <1> HIDE DEF Good
  <1>4. Spec => []SafeInv
    <2>1. TypeOK /\ StepsLeft /\ SafeInv /\ [Next]_vars => SafeInv'
      BY <1>1 DEF Good
    <2>2. QED
      BY <2>1, <1>2, TypeCorrect, PTL DEF Spec
  <1>5. TypeOK /\ StepsLeft /\ SafeInv => IInv
    BY <1>3 DEF Good
  <1>6. QED
    BY <1>4, <1>5, TypeCorrect, PTL

\* However many calls and faults there are, each leg has one transaction.
THEOREM PayoutOnce == Spec => []OneTransactionPerLeg
  <1>1. IInv => OneTransactionPerLeg
    <2> SUFFICES ASSUME IInv, NEW i \in DOMAIN accepted, NEW j \in DOMAIN accepted,
                        accepted[i] = accepted[j]
                 PROVE  i = j
      BY DEF OneTransactionPerLeg
    <2>1. i \in Nat /\ j \in Nat
      BY DEF IInv, TypeOK
    <2>2. i - 1 = j - 1
      BY DEF IInv, ChainHoldsPayloads
    <2>3. QED
      BY <2>1, <2>2
  <1>2. QED
    BY <1>1, Safe, PTL

\* The treasury's transaction never precedes the winner's transfer.
LEMMA WinnerFirst == IInv => TreasuryAfterWinner
  <1> SUFFICES ASSUME IInv, NEW s \in Settlements, NEW i \in DOMAIN accepted,
                      accepted[i] = <<s, Treasury>>
               PROVE  Paid(s, Winner)
    BY DEF TreasuryAfterWinner
  <1>1. i - 1 # NoNonce /\ Treasury \in Kinds
    BY DEF IInv, TypeOK, NoNonce, Kinds
  <1>2. nonces[s][Treasury] = i - 1
    BY DEF IInv, ChainHoldsPayloads
  <1>3. legs[s][Treasury] \in HasPayload
    BY <1>1, <1>2 DEF IInv, PayloadOfLeg
  <1>4. QED
    BY <1>3 DEF IInv, TreasuryWaits, WinnerConfirmedIsPaid

THEOREM WinnerBeforeTreasury == Spec => []TreasuryAfterWinner
  BY WinnerFirst, Safe, PTL

\* A winner leg recorded as confirmed has been paid.
THEOREM WinnerPaid == Spec => []WinnerConfirmedIsPaid
  <1>1. IInv => WinnerConfirmedIsPaid
    BY DEF IInv
  <1>2. QED
    BY <1>1, Safe, PTL
-----------------------------------------------------------------------------
(* The refinement of Payout.                                                *)

\* A step that confirms nothing on the chain is a stutter of Payout.
LEMMA StutterStep ==
    ASSUME TypeOK, outcomes' = outcomes, ChainGrows
    PROVE  Transfers' = Transfers
  <1>1. \A n \in 0..(Len(outcomes) - 1) : accepted'[n + 1] = accepted[n + 1]
    <2>1. CASE accepted' = accepted
      BY <2>1
    <2>2. CASE \E x \in Settlements \X Kinds : accepted' = Append(accepted, x)
      <3>1. PICK x \in Settlements \X Kinds : accepted' = Append(accepted, x)
        BY <2>2
      <3>2. accepted \in Seq(Settlements \X Kinds) /\ Len(outcomes) <= Len(accepted)
            /\ Len(outcomes) \in Nat
        BY DEF TypeOK
      <3>3. \A i \in 1..Len(accepted) : accepted'[i] = accepted[i]
        BY <3>1, <3>2, AppendKeeps
      <3>4. QED
        BY <3>2, <3>3
    <2>3. QED
      BY <2>1, <2>2 DEF ChainGrows
  <1>2. \A s, k : {n \in 0..(Len(outcomes) - 1) : Receipt(s, k, n, "success")}'
                  = {n \in 0..(Len(outcomes) - 1) : Receipt(s, k, n, "success")}
    BY <1>1 DEF Receipt
  <1>3. QED
    BY <1>2 DEF Transfers

\* Mining a transaction is a transfer of the leg it belongs to, the leg's
\* first; a revert is a stutter.
LEMMA MineStep ==
    ASSUME IInv, NEW outcome \in {"success", "reverted"}, Mine(outcome)
    PROVE  Promise!Next \/ Transfers' = Transfers
  <1> DEFINE n == Len(outcomes)
             Old(s, k) == {m \in 0..(n - 1) : Receipt(s, k, m, "success")}
  <1>1. /\ n \in Nat /\ n < Len(accepted) /\ Len(accepted) \in Nat
        /\ outcomes \in Seq({"success", "reverted"})
        /\ accepted \in Seq(Settlements \X Kinds)
        /\ outcomes' = Append(outcomes, outcome) /\ accepted' = accepted
    BY DEF IInv, TypeOK, Mine
  <1>2. /\ Len(outcomes') = n + 1
        /\ outcomes'[n + 1] = outcome
        /\ \A i \in 1..n : outcomes'[i] = outcomes[i]
    BY <1>1, AppendKeeps
  <1>3. accepted[n + 1] \in Settlements \X Kinds
    BY <1>1
  <1>4. PICK s \in Settlements, k \in Kinds : accepted[n + 1] = <<s, k>>
    BY <1>3
  <1> DEFINE New(t, j) == IF outcome = "success" /\ t = s /\ j = k
                          THEN Old(t, j) \cup {n} ELSE Old(t, j)
  <1>5. \A t \in Settlements, j \in Kinds :
            {m \in 0..(Len(outcomes) - 1) : Receipt(t, j, m, "success")}' = New(t, j)
    <2> SUFFICES ASSUME NEW t \in Settlements, NEW j \in Kinds, NEW m
                 PROVE  /\ m \in 0..n /\ accepted[m + 1] = <<t, j>> /\ outcomes'[m + 1] = "success"
                        <=> m \in New(t, j)
      BY <1>1, <1>2 DEF Receipt
    <2>1. CASE m \in 0..(n - 1)
      <3>1. outcomes'[m + 1] = outcomes[m + 1] /\ m # n
        BY <1>1, <1>2, <2>1
      <3>2. QED
        BY <1>1, <2>1, <3>1 DEF Receipt
    <2>2. CASE m = n
      BY <1>1, <1>2, <1>4, <2>2
    <2>3. CASE m \notin 0..n
      BY <1>1, <2>3
    <2>4. QED
      BY <1>1, <2>1, <2>2, <2>3
  <1>6. Transfers' = [t \in Settlements |-> [j \in Kinds |-> New(t, j)]]
    BY <1>5 DEF Transfers
  <1>7. Transfers = [t \in Settlements |-> [j \in Kinds |-> Old(t, j)]]
    BY DEF Transfers
  <1>8. CASE outcome # "success"
    <2>1. \A t \in Settlements, j \in Kinds : New(t, j) = Old(t, j)
      BY <1>8
    <2> HIDE DEF New, Old
    <2>2. QED
      BY <1>6, <1>7, <2>1
  <1>9. CASE outcome = "success"
    <2>1. Old(s, k) = {}
      <3>1. ASSUME NEW m \in Old(s, k) PROVE FALSE
        <4>1. m \in 0..(n - 1) /\ accepted[m + 1] = <<s, k>>
          BY DEF Receipt
        <4>2. nonces[accepted[m + 1][1]][accepted[m + 1][2]] = (m + 1) - 1
              /\ nonces[accepted[n + 1][1]][accepted[n + 1][2]] = (n + 1) - 1
          BY <1>1, <4>1 DEF IInv, ChainHoldsPayloads
        <4>3. QED
          BY <1>1, <1>4, <4>1, <4>2
      <3>2. QED
        BY <3>1
    <2>2. k = Treasury => Old(s, Winner) # {}
      <3>1. TreasuryAfterWinner
        BY WinnerFirst
      <3>2. ASSUME k = Treasury PROVE Paid(s, Winner)
        <4>1. n + 1 \in DOMAIN accepted
          BY <1>1
        <4>2. QED
          BY <1>4, <3>1, <3>2, <4>1 DEF TreasuryAfterWinner
      <3>3. Paid(s, Winner) => \E m \in 0..(n - 1) : Receipt(s, Winner, m, "success")
        BY DEF Paid
      <3>4. QED
        BY <3>2, <3>3
    <2>3. New(s, k) = {n} /\ \A t \in Settlements, j \in Kinds :
              <<t, j>> # <<s, k>> => New(t, j) = Old(t, j)
      BY <1>9, <2>1
    <2> HIDE DEF New, Old
    <2>4. Transfers[s][k] = {} /\ Transfers'[s][k] = {n}
      BY <1>6, <1>7, <2>1, <2>3
    <2>5. Transfers' = [Transfers EXCEPT ![s][k] = {n}]
      BY <1>6, <1>7, <2>3 
    <2>6. Winner = "winner_payout" /\ Treasury = "treasury_sweep"
      BY DEF Winner, Treasury
    <2>7. Promise!Transfer(s, k)
      BY <2>4, <2>5 DEF Promise!Transfer
    <2>8. CASE k = Winner
      BY <2>6, <2>7, <2>8 DEF Promise!Next, Promise!PayWinner
    <2>9. CASE k = Treasury
      <3>1. Transfers[s][Winner] # {}
        BY <1>7, <2>2, <2>9 DEF Kinds
      <3>2. QED
        BY <2>6, <2>7, <2>9, <3>1 DEF Promise!Next, Promise!SweepTreasury
    <2>10. QED
      BY <2>8, <2>9 DEF Kinds
  <1>10. QED
    BY <1>8, <1>9

\* The payout with all its retries, overlapping calls and faults implements
\* the two transfers that a settlement promises.
THEOREM Refinement == Spec => KeepsPromise
  <1>1. Init => Promise!Init
    <2> SUFFICES ASSUME Init PROVE Promise!Init
      OBVIOUS
    <2>1. Len(outcomes) = 0
      BY DEF Init
    <2>2. \A s, k : {n \in 0..(Len(outcomes) - 1) : Receipt(s, k, n, "success")} = {}
      BY <2>1
    <2>3. Kinds = Promise!Legs
      BY DEF Kinds, Winner, Treasury, Promise!Legs
    <2>4. QED
      BY <2>2, <2>3 DEF Transfers, Promise!Init
  <1>2. IInv /\ [Next]_vars => [Promise!Next]_Transfers
    <2> SUFFICES ASSUME IInv, [Next]_vars
                 PROVE  Promise!Next \/ Transfers' = Transfers
      OBVIOUS
    <2> USE DEF dbVars, chainVars, callVars, bounds
    <2>1. ASSUME NEW outcome \in {"success", "reverted"}, Mine(outcome)
          PROVE  Promise!Next \/ Transfers' = Transfers
      BY <2>1, MineStep
    <2>2. ASSUME NEW c \in Calls, CallStep(c) \/ CallFault(c)
          PROVE  outcomes' = outcomes /\ ChainGrows
      <3>1. CASE UNCHANGED <<accepted, outcomes>>
        BY <3>1 DEF ChainGrows
      <3>2. CASE BroadcastAnswered(c) \/ BroadcastLost(c)
        BY <3>2 DEF BroadcastAnswered, BroadcastLost, ChainGrows, IInv, TypeOK
      <3>3. QED
        BY <2>2, <3>1, <3>2
        DEF CallStep, CallFault, ReadRound, LookUp, Release, PrepareWhilePaused, PrepareEarlier,
            Preflight, SignNothing, SignReuse, SignFresh, SignRefused, BroadcastRefused,
            RecordAmbiguous, RecordSubmitted, PickLeg, VerifyTransfer, ConfirmLeg, Throw
    <2>3. ASSUME \/ \E c \in Calls, s \in Settlements : Claim(c, s)
                 \/ \E w \in Workers : Crash(w)
                 \/ \E s \in Settlements : LeaseAbandoned(s) \/ LeaseRunsOut(s)
                 \/ Pause \/ Resume \/ UNCHANGED vars
          PROVE  outcomes' = outcomes /\ ChainGrows
      BY <2>3 DEF Claim, Crash, LeaseAbandoned, LeaseRunsOut, FreeLease, Pause, Resume, vars,
                  ChainGrows
    <2>4. TypeOK
      BY DEF IInv
    <2>5. QED
      BY <2>1, <2>2, <2>3, <2>4, StutterStep DEF Next
  <1>3. QED
    BY <1>1, <1>2, Safe, PTL DEF Spec, KeepsPromise, Promise!Spec
=============================================================================
