----------------------------- MODULE Settlement -----------------------------
(***************************************************************************)
(* The payout of drawn rounds: every settlement owns a winner leg and a    *)
(* treasury leg, and concurrent calls of the round orchestrator prepare,   *)
(* sign, broadcast and confirm them, one database transaction at a time.   *)
(*                                                                         *)
(* A call is one execution of processRound.  It holds no database lock     *)
(* between two of its transactions, only a lease that it never renews, so  *)
(* the lease may run out under a call that is still running.  A pool       *)
(* wallet shared by all settlements gives each transaction its nonce.      *)
(*                                                                         *)
(* A round enters this module when createSettlement has committed, with    *)
(* status settlement_pending; how it got there is the subject of Rounds.    *)
(***************************************************************************)
EXTENDS Integers, Sequences

CONSTANTS
    Settlements,   \* settlement identifiers (one settlement per round)
    Workers,       \* processes that run the orchestrator (API servers, CLI)
    Calls,         \* executions of processRound that may be active at once
    WorkerOf,      \* [Calls -> Workers]: the process a call runs in
    NoWorker,      \* the value of worker_id when no unexpired lease exists
    MaxSteps,      \* bound of the loop in processRound: 8 in the code
    MaxFaults,     \* bound on crashes, errors, lost answers, reverts, pauses
    MaxExpiries    \* bound on leases that run out under a running call

ASSUME CallsAssumption == WorkerOf \in [Calls -> Workers] /\ NoWorker \notin Workers
ASSUME BoundsAssumption == MaxSteps \in Nat /\ MaxFaults \in Nat /\ MaxExpiries \in Nat

Winner == "winner_payout"
Treasury == "treasury_sweep"
Kinds == {Winner, Treasury}

SettlementStatus == {"pending", "preparing", "blocked", "retryable",
                     "winner_submitted", "winner_confirmed",
                     "treasury_submitted", "settled"}
LegStatus == {"pending", "failed", "signed", "broadcast", "confirmed"}
RoundStatus == {"settlement_pending", "payout_broadcast", "completed"}
\* The statuses in which a broadcast leg waits for its confirmation; the
\* mutant forgets the treasury leg.
OnlyWinnerSubmitted == {"winner_submitted"}
Submitted == {"winner_submitted", "treasury_submitted"}

\* Where a call stands: each label is the next transaction, provider request
\* or read it makes.
Labels == {"idle", "read", "lookup", "prepare", "sign", "broadcast", "ambiguous",
           "submitted", "pick", "verify", "confirm", "release"}

NoNonce == -1

VARIABLES
    settlements,     \* settlements.status
    legs,            \* settlement_legs.status
    nonces,          \* settlement_legs.nonce, with the signed payload
    rounds,          \* rounds.status
    lease,           \* worker_id of an unexpired round_lifecycle_runs row
    payoutsEnabled,  \* operational_controls.enabled for 'payouts'
    accepted,        \* the pool wallet's transactions the node took, by nonce
    outcomes,        \* receipts of the confirmed prefix of accepted
    pc,              \* where each call stands
    at,              \* the settlement it works on
    seen,            \* the round status it last read
    leg, tx,         \* the leg it submits or verifies, and the payload's nonce
    steps,           \* iterations of its loop
    faults, expiries \* how much of the two bounds is used

dbVars == <<settlements, legs, nonces, rounds, lease, payoutsEnabled>>
chainVars == <<accepted, outcomes>>
callVars == <<pc, at, seen, leg, tx, steps>>
bounds == <<faults, expiries>>
vars == <<dbVars, chainVars, callVars, bounds>>

TypeOK ==
    /\ settlements \in [Settlements -> SettlementStatus]
    /\ legs \in [Settlements -> [Kinds -> LegStatus]]
    /\ nonces \in [Settlements -> [Kinds -> Nat \cup {NoNonce}]]
    /\ rounds \in [Settlements -> RoundStatus]
    /\ lease \in [Settlements -> Workers \cup {NoWorker}]
    /\ payoutsEnabled \in BOOLEAN
    /\ accepted \in Seq(Settlements \X Kinds)
    /\ outcomes \in Seq({"success", "reverted"})
    /\ Len(outcomes) <= Len(accepted)
    /\ pc \in [Calls -> Labels]
    /\ at \in [Calls -> Settlements]
    /\ seen \in [Calls -> RoundStatus]
    /\ leg \in [Calls -> Kinds]
    /\ tx \in [Calls -> Nat \cup {NoNonce}]
    /\ steps \in [Calls -> 0..MaxSteps]
    /\ faults \in 0..MaxFaults
    /\ expiries \in 0..MaxExpiries

Init ==
    /\ settlements = [s \in Settlements |-> "pending"]
    /\ legs = [s \in Settlements |-> [k \in Kinds |-> "pending"]]
    /\ nonces = [s \in Settlements |-> [k \in Kinds |-> NoNonce]]
    /\ rounds = [s \in Settlements |-> "settlement_pending"]
    /\ lease = [s \in Settlements |-> NoWorker]
    /\ payoutsEnabled = TRUE
    /\ accepted = <<>>
    /\ outcomes = <<>>
    /\ pc = [c \in Calls |-> "idle"]
    /\ at \in [Calls -> Settlements]
    /\ seen = [c \in Calls |-> "settlement_pending"]
    /\ leg = [c \in Calls |-> Winner]
    /\ tx = [c \in Calls |-> NoNonce]
    /\ steps = [c \in Calls |-> 0]
    /\ faults = 0
    /\ expiries = 0

-----------------------------------------------------------------------------
(* Helpers of the call's control flow.                                     *)

Goto(c, label) == /\ pc' = [pc EXCEPT ![c] = label]
                  /\ UNCHANGED <<at, seen, leg, tx, steps>>

\* The call goes on with the payload of a leg.
Carry(c, label, k, n) == /\ pc' = [pc EXCEPT ![c] = label]
                         /\ leg' = [leg EXCEPT ![c] = k]
                         /\ tx' = [tx EXCEPT ![c] = n]
                         /\ UNCHANGED <<at, seen, steps>>

\* The loop of processRound goes round: count a step and re-read the round.
NextIteration(c) == /\ pc' = [pc EXCEPT ![c] = "read"]
                    /\ steps' = [steps EXCEPT ![c] = @ + 1]
                    /\ UNCHANGED <<at, seen, leg, tx>>

\* Calls that return or die forget what they knew.
Forget(calls) ==
    /\ pc' = [c \in Calls |-> IF c \in calls THEN "idle" ELSE pc[c]]
    /\ seen' = [c \in Calls |-> IF c \in calls THEN "settlement_pending" ELSE seen[c]]
    /\ leg' = [c \in Calls |-> IF c \in calls THEN Winner ELSE leg[c]]
    /\ tx' = [c \in Calls |-> IF c \in calls THEN NoNonce ELSE tx[c]]
    /\ steps' = [c \in Calls |-> IF c \in calls THEN 0 ELSE steps[c]]
    /\ UNCHANGED at

\* The settlement statuses on which processRound goes on after executePayout;
\* any other is the action PAYOUT_RETRY, which ends the loop.
Advanced(roundStatus) ==
    IF roundStatus = "settlement_pending" THEN Submitted ELSE {"treasury_submitted"}

\* executePayout returns to processRound with this settlement status.
Returned(c, status) ==
    IF status \in Advanced(seen[c]) THEN NextIteration(c) ELSE Goto(c, "release")

Fault == faults < MaxFaults /\ faults' = faults + 1 /\ UNCHANGED expiries

-----------------------------------------------------------------------------
(* The lease and the loop of processRound.                                 *)

\* The row has no claim, or one that has run out; the mutant claims anyway.
AlwaysClaimable(s) == lease[s] \in Workers \cup {NoWorker}
Claimable(s) == lease[s] = NoWorker

\* claimRound succeeds.
Claim(c, s) ==
    /\ pc[c] = "idle"
    /\ Claimable(s)
    /\ lease' = [lease EXCEPT ![s] = WorkerOf[c]]
    /\ pc' = [pc EXCEPT ![c] = "read"]
    /\ at' = [at EXCEPT ![c] = s]
    /\ UNCHANGED <<settlements, legs, nonces, rounds, payoutsEnabled, chainVars, bounds,
                   seen, leg, tx, steps>>

\* The loop has used its steps; the mutant is off by one.
OneStepMore(c) == steps[c] > MaxSteps
Exhausted(c) == steps[c] = MaxSteps

\* roundById, then the branch of the loop for the status read.
ReadRound(c) ==
    LET status == rounds[at[c]] IN
    /\ pc[c] = "read"
    /\ IF status = "completed" \/ Exhausted(c)
       THEN Goto(c, "release")
       ELSE /\ pc' = [pc EXCEPT ![c] = IF status = "settlement_pending"
                                       THEN "prepare" ELSE "lookup"]
            /\ seen' = [seen EXCEPT ![c] = status]
            /\ UNCHANGED <<at, leg, tx, steps>>
    /\ UNCHANGED <<dbVars, chainVars, bounds>>

\* The payout_broadcast branch reads the settlement to choose between
\* confirming, stopping and executing the next leg.
LookUp(c) ==
    LET status == settlements[at[c]] IN
    /\ pc[c] = "lookup"
    /\ CASE status \in Submitted -> Goto(c, "pick")
         [] status = "settled"   -> NextIteration(c)
         [] OTHER                -> Goto(c, "prepare")
    /\ UNCHANGED <<dbVars, chainVars, bounds>>

\* recordLifecycleSuccess, -Retry or -Failure: the lease is given up if it
\* still carries this worker's id.
Release(c) ==
    LET s == at[c] IN
    /\ pc[c] = "release"
    /\ lease' = [lease EXCEPT ![s] = IF @ = WorkerOf[c] THEN NoWorker ELSE @]
    /\ Forget({c})
    /\ UNCHANGED <<settlements, legs, nonces, rounds, payoutsEnabled, chainVars, bounds>>

-----------------------------------------------------------------------------
(* prepareTwoLegSettlement: one transaction, the balance requests inside.  *)

\* A paused control throws, and so ends the call.
PrepareWhilePaused(c) ==
    /\ pc[c] = "prepare"
    /\ ~payoutsEnabled
    /\ Goto(c, "release")
    /\ UNCHANGED <<dbVars, chainVars, bounds>>

\* No balance decision is made for these.
PastPreflight(s) ==
    \/ settlements[s] = "settled"
    \/ legs[s][Winner] = "confirmed"
    \/ \E k \in Kinds : legs[s][k] \in {"signed", "broadcast"}

\* The prepared statuses on which executeNextSettlementLeg returns at once: a
\* preflight that failed with status retryable is not among them.  The mutant
\* ignores the failed preflight altogether.
StopsWhenSettled(s, status) == status = "settled"
Stops(s, status) ==
    \/ status = "settled"
    \/ status = "blocked" /\ legs[s][Winner] # "confirmed"

Proceed(c, status) ==
    IF Stops(at[c], status) THEN Returned(c, status) ELSE Goto(c, "sign")

PrepareEarlier(c) ==
    LET s == at[c] IN
    /\ pc[c] = "prepare"
    /\ payoutsEnabled
    /\ PastPreflight(s)
    /\ Proceed(c, settlements[s])
    /\ UNCHANGED <<dbVars, chainVars, bounds>>

\* The combined preflight of both legs passes, or fails for lack of funds
\* (blocked) or for any other reason (retryable).
Preflight(c, result) ==
    LET s == at[c] IN
    /\ pc[c] = "prepare"
    /\ payoutsEnabled
    /\ ~PastPreflight(s)
    /\ settlements' = [settlements EXCEPT ![s] = result]
    /\ Proceed(c, result)
    /\ IF result = "preparing" THEN UNCHANGED bounds ELSE Fault
    /\ UNCHANGED <<legs, nonces, rounds, lease, payoutsEnabled, chainVars>>

-----------------------------------------------------------------------------
(* The signing transaction of executeNextSettlementLeg.                    *)

\* The winner's leg until it is confirmed; the mutant is content with a
\* broadcast.
NextLegEarly(s) == IF legs[s][Winner] \in {"broadcast", "confirmed"} THEN Treasury ELSE Winner
NextLeg(s) == IF legs[s][Winner] = "confirmed" THEN Treasury ELSE Winner

\* The leg needs no signature: already submitted or confirmed.
SignNothing(c) ==
    LET s == at[c] IN
    /\ pc[c] = "sign"
    /\ legs[s][NextLeg(s)] \in {"broadcast", "confirmed"}
    /\ Returned(c, settlements[s])
    /\ UNCHANGED <<dbVars, chainVars, bounds>>

\* A signed payload is persisted: it is used again as it is.  The mutant signs
\* again after a failed broadcast.
NeverReusable(s, k) == FALSE
Reusable(s, k) == legs[s][k] = "signed"

SignReuse(c) ==
    LET s == at[c]
        k == NextLeg(s) IN
    /\ pc[c] = "sign"
    /\ Reusable(s, k)
    /\ Carry(c, "broadcast", k, nonces[s][k])
    /\ UNCHANGED <<dbVars, chainVars, bounds>>

Signable(s, k) == legs[s][k] \notin {"broadcast", "confirmed"} /\ ~Reusable(s, k)

\* A new payload with the wallet's pending nonce, persisted as signed.
SignFresh(c) ==
    LET s == at[c]
        k == NextLeg(s)
        pendingNonce == Len(accepted) IN
    /\ pc[c] = "sign"
    /\ Signable(s, k)
    /\ legs' = [legs EXCEPT ![s][k] = "signed"]
    /\ nonces' = [nonces EXCEPT ![s][k] = pendingNonce]
    /\ Carry(c, "broadcast", k, pendingNonce)
    /\ UNCHANGED <<settlements, rounds, lease, payoutsEnabled, chainVars, bounds>>

\* The signer refuses, for lack of funds (blocked) or otherwise (retryable).
SignRefused(c, status) ==
    LET s == at[c]
        k == NextLeg(s) IN
    /\ pc[c] = "sign"
    /\ Signable(s, k)
    /\ legs' = [legs EXCEPT ![s][k] = IF status = "blocked" THEN "failed" ELSE "pending"]
    /\ settlements' = [settlements EXCEPT ![s] = status]
    /\ Returned(c, status)
    /\ Fault
    /\ UNCHANGED <<nonces, rounds, lease, payoutsEnabled, chainVars>>

-----------------------------------------------------------------------------
(* recoverOrBroadcast, outside every transaction, and what is recorded.    *)

Known(s, k, n) == n \in 0..(Len(accepted) - 1) /\ accepted[n + 1] = <<s, k>>

\* The node takes a transaction that carries the wallet's next nonce.
Fits(n) == n = Len(accepted)

\* The node knows the hash, or takes the transaction and answers.
BroadcastAnswered(c) ==
    LET s == at[c]
        k == leg[c]
        n == tx[c] IN
    /\ pc[c] = "broadcast"
    /\ \/ Known(s, k, n) /\ UNCHANGED accepted
       \/ Fits(n) /\ accepted' = Append(accepted, <<s, k>>)
    /\ Goto(c, "submitted")
    /\ UNCHANGED <<dbVars, outcomes, bounds>>

\* The request fails or its answer is lost, with or without effect.
BroadcastLost(c) ==
    LET s == at[c]
        k == leg[c] IN
    /\ pc[c] = "broadcast"
    /\ \/ UNCHANGED accepted
       \/ Fits(tx[c]) /\ accepted' = Append(accepted, <<s, k>>)
    /\ Goto(c, "ambiguous")
    /\ Fault
    /\ UNCHANGED <<dbVars, outcomes>>

\* Another transaction of the wallet already uses the nonce.
BroadcastRefused(c) ==
    /\ pc[c] = "broadcast"
    /\ ~Known(at[c], leg[c], tx[c])
    /\ ~Fits(tx[c])
    /\ Goto(c, "ambiguous")
    /\ UNCHANGED <<dbVars, chainVars, bounds>>

\* After a failed broadcast the leg stays signed; the settlement's status is
\* overwritten whatever it is by now.
RecordAmbiguous(c) ==
    LET s == at[c] IN
    /\ pc[c] = "ambiguous"
    /\ settlements' = [settlements EXCEPT ![s] = "retryable"]
    /\ Returned(c, "retryable")
    /\ UNCHANGED <<legs, nonces, rounds, lease, payoutsEnabled, chainVars, bounds>>

SubmittedStatus(k) == IF k = Winner THEN "winner_submitted" ELSE "treasury_submitted"

\* After a successful broadcast only the leg's update is conditional on its
\* status; the settlement's and the round's are not.
RecordSubmitted(c) ==
    LET s == at[c]
        k == leg[c] IN
    /\ pc[c] = "submitted"
    /\ IF nonces[s][k] # tx[c]
       THEN /\ Returned(c, settlements[s])
            /\ UNCHANGED <<settlements, legs, rounds>>
       ELSE /\ legs' = [legs EXCEPT ![s][k] = IF @ = "signed" THEN "broadcast" ELSE @]
            /\ settlements' = [settlements EXCEPT ![s] = SubmittedStatus(k)]
            /\ rounds' = [rounds EXCEPT ![s] = "payout_broadcast"]
            /\ Returned(c, SubmittedStatus(k))
    /\ UNCHANGED <<nonces, lease, payoutsEnabled, chainVars, bounds>>

-----------------------------------------------------------------------------
(* confirmPayout: an unlocked read, a look at the chain, a transaction.    *)

BroadcastLegs(s) == {k \in Kinds : legs[s][k] = "broadcast"}
FirstOf(ks) == IF Winner \in ks THEN Winner ELSE Treasury

PickLeg(c) ==
    LET s == at[c]
        k == FirstOf(BroadcastLegs(s)) IN
    /\ pc[c] = "pick"
    /\ IF BroadcastLegs(s) = {}
       THEN NextIteration(c)
       ELSE Carry(c, "verify", k, nonces[s][k])
    /\ UNCHANGED <<dbVars, chainVars, bounds>>

\* A receipt with enough confirmations exists for the leg's transaction.
Receipt(s, k, n, outcome) ==
    n \in 0..(Len(outcomes) - 1) /\ accepted[n + 1] = <<s, k>> /\ outcomes[n + 1] = outcome

\* The receipt is required; the mutant is content with a known hash.
VerifiedByHash(s, k, n) == Known(s, k, n)
Verified(s, k, n) == Receipt(s, k, n, "success")

\* verifyTransfer: confirmed, not yet confirmed, or an error when reverted.
VerifyTransfer(c) ==
    LET s == at[c]
        k == leg[c]
        n == tx[c] IN
    /\ pc[c] = "verify"
    /\ CASE Verified(s, k, n)               -> Goto(c, "confirm")
         [] Receipt(s, k, n, "reverted")    -> Goto(c, "release")
         [] OTHER                           -> NextIteration(c)
    /\ UNCHANGED <<dbVars, chainVars, bounds>>

\* The leg that confirmNextSettlementLeg updates: the first one that is
\* broadcast when it looks, not the one that was verified.
LegToConfirm(c) == FirstOf(BroadcastLegs(at[c]))

ConfirmLeg(c) ==
    LET s == at[c]
        k == LegToConfirm(c) IN
    /\ pc[c] = "confirm"
    /\ IF BroadcastLegs(s) = {}
       THEN UNCHANGED <<settlements, legs, rounds>>
       ELSE /\ legs' = [legs EXCEPT ![s][k] = "confirmed"]
            /\ settlements' = [settlements EXCEPT ![s] =
                                 IF k = Winner THEN "winner_confirmed" ELSE "settled"]
            /\ rounds' = [rounds EXCEPT ![s] = IF k = Winner THEN @ ELSE "completed"]
    /\ NextIteration(c)
    /\ UNCHANGED <<nonces, lease, payoutsEnabled, chainVars, bounds>>

-----------------------------------------------------------------------------
(* The environment: errors, crashes, time, the operator and the chain.     *)

\* A database or provider error that no inner handler catches.
Throw(c) ==
    /\ pc[c] \notin {"idle", "broadcast", "release"}
    /\ Goto(c, "release")
    /\ Fault
    /\ UNCHANGED <<dbVars, chainVars>>

RunningOn(s, w) == {c \in Calls : /\ pc[c] # "idle"
                                  /\ at[c] = s
                                  /\ WorkerOf[c] = w}

\* A process dies with all its calls; its leases stay until they run out.
Crash(w) ==
    /\ \E c \in Calls : WorkerOf[c] = w /\ pc[c] # "idle"
    /\ Forget({c \in Calls : WorkerOf[c] = w})
    /\ Fault
    /\ UNCHANGED <<dbVars, chainVars>>

FreeLease(s) ==
    /\ lease' = [lease EXCEPT ![s] = NoWorker]
    /\ UNCHANGED <<settlements, legs, nonces, rounds, payoutsEnabled, chainVars, callVars>>

\* claim_until passes after the holder is gone ...
LeaseAbandoned(s) ==
    /\ lease[s] # NoWorker
    /\ RunningOn(s, lease[s]) = {}
    /\ FreeLease(s)
    /\ UNCHANGED bounds

\* ... or while a call of the holder is still at work.
LeaseRunsOut(s) ==
    /\ lease[s] # NoWorker
    /\ RunningOn(s, lease[s]) # {}
    /\ expiries < MaxExpiries
    /\ expiries' = expiries + 1
    /\ FreeLease(s)
    /\ UNCHANGED faults

\* The operator's setOperationalControl('payouts', ...).
Pause ==
    /\ payoutsEnabled
    /\ payoutsEnabled' = FALSE
    /\ Fault
    /\ UNCHANGED <<settlements, legs, nonces, rounds, lease, chainVars, callVars>>

Resume ==
    /\ ~payoutsEnabled
    /\ payoutsEnabled' = TRUE
    /\ UNCHANGED <<settlements, legs, nonces, rounds, lease, chainVars, callVars, bounds>>

\* The next accepted transaction is mined and gains its confirmations.
Mine(outcome) ==
    /\ Len(outcomes) < Len(accepted)
    /\ outcomes' = Append(outcomes, outcome)
    /\ IF outcome = "reverted" THEN Fault ELSE UNCHANGED bounds
    /\ UNCHANGED <<dbVars, accepted, callVars>>

-----------------------------------------------------------------------------
\* A step of a call to which nothing untoward happens.
CallStep(c) ==
    \/ ReadRound(c) \/ LookUp(c) \/ Release(c)
    \/ PrepareWhilePaused(c) \/ PrepareEarlier(c) \/ Preflight(c, "preparing")
    \/ SignNothing(c) \/ SignReuse(c) \/ SignFresh(c)
    \/ BroadcastAnswered(c) \/ BroadcastRefused(c)
    \/ RecordAmbiguous(c) \/ RecordSubmitted(c)
    \/ PickLeg(c) \/ VerifyTransfer(c) \/ ConfirmLeg(c)

CallFault(c) ==
    \/ \E result \in {"blocked", "retryable"} : Preflight(c, result) \/ SignRefused(c, result)
    \/ BroadcastLost(c)
    \/ Throw(c)

Next ==
    \/ \E c \in Calls : CallStep(c) \/ CallFault(c)
    \/ \E c \in Calls, s \in Settlements : Claim(c, s)
    \/ \E w \in Workers : Crash(w)
    \/ \E s \in Settlements : LeaseAbandoned(s) \/ LeaseRunsOut(s)
    \/ Pause \/ Resume
    \/ \E outcome \in {"success", "reverted"} : Mine(outcome)

Spec == Init /\ [][Next]_vars

\* A running call goes on, every sweep claims the rounds it can, abandoned
\* leases run out, the operator resumes payouts, the chain mines.
Fairness ==
    /\ \A c \in Calls : WF_vars(CallStep(c))
    /\ \A s \in Settlements : /\ SF_vars(\E c \in Calls : Claim(c, s))
                              /\ WF_vars(LeaseAbandoned(s))
    /\ WF_vars(Resume)
    /\ WF_vars(Mine("success"))

FairSpec == Spec /\ Fairness

-----------------------------------------------------------------------------
(* What the payout promises.                                               *)

Paid(s, k) == \E n \in 0..(Len(outcomes) - 1) : Receipt(s, k, n, "success")

\* However often a payout is retried, by however many overlapping calls, the
\* chain takes at most one transaction for each leg: the payload persisted
\* before the first broadcast is the only one ever signed.
OneTransactionPerLeg ==
    \A i, j \in DOMAIN accepted : accepted[i] = accepted[j] => i = j

\* The treasury sweep reaches the chain only when the winner has been paid
\* there: the order of the legs survives stale reads and expired leases.
TreasuryAfterWinner ==
    \A s \in Settlements, i \in DOMAIN accepted :
        accepted[i] = <<s, Treasury>> => Paid(s, Winner)

\* A winner leg is recorded as confirmed only if its transfer succeeded on the
\* chain, although confirmNextSettlementLeg does not name the leg verified.
WinnerConfirmedIsPaid ==
    \A s \in Settlements : legs[s][Winner] = "confirmed" => Paid(s, Winner)

\* A settlement is settled, and its round completed, only if both transfers
\* succeeded on the chain.
SettledIsPaid ==
    \A s \in Settlements :
        settlements[s] = "settled" \/ rounds[s] = "completed" =>
            Paid(s, Winner) /\ Paid(s, Treasury)

\* Whoever broadcasts a leg leaves the settlement and the round in the
\* statuses from which processRound will look for its confirmation.
BroadcastIsFollowedUp ==
    \A s \in Settlements, k \in Kinds :
        legs[s][k] = "broadcast" => /\ settlements[s] = SubmittedStatus(k)
                                    /\ rounds[s] = "payout_broadcast"

\* A completed payout stays completed: no late call writes over it.
CompletedIsFinal ==
    [][\A s \in Settlements :
         rounds[s] = "completed" =>
             rounds'[s] = "completed" /\ settlements'[s] = "settled"]_vars

BecomesSigned(s, k) == legs[s][k] # "signed" /\ legs'[s][k] = "signed"

\* A settlement blocked for lack of funds signs no winner transfer.
BlockedSignsNothing ==
    [][\A s \in Settlements :
         BecomesSigned(s, Winner) => settlements[s] # "blocked"]_vars

-----------------------------------------------------------------------------
(* The inductive strengthening of the safety invariants.                   *)

HasPayload == {"signed", "broadcast", "confirmed"}

\* The chain's transactions are the persisted payloads, each at its nonce.
ChainHoldsPayloads ==
    \A i \in DOMAIN accepted : nonces[accepted[i][1]][accepted[i][2]] = i - 1

\* A leg has a payload exactly in the statuses that follow signing.
PayloadOfLeg ==
    \A s \in Settlements, k \in Kinds :
        nonces[s][k] # NoNonce <=> legs[s][k] \in HasPayload

TreasuryWaits ==
    \A s \in Settlements :
        legs[s][Treasury] \in HasPayload => legs[s][Winner] = "confirmed"

\* Calls carry the persisted payload from signing to recording, and from
\* reading a broadcast leg to confirming.
CallsCarryPayloads ==
    \A c \in Calls :
        pc[c] \in {"broadcast", "ambiguous", "submitted", "verify", "confirm"} =>
            /\ tx[c] # NoNonce
            /\ nonces[at[c]][leg[c]] = tx[c]

CallsConfirmBroadcast ==
    \A c \in Calls :
        pc[c] \in {"verify", "confirm"} =>
            legs[at[c]][leg[c]] \in {"broadcast", "confirmed"}

CallsConfirmPaid ==
    \A c \in Calls :
        pc[c] = "confirm" =>
            Receipt(at[c], leg[c], tx[c], "success")

\* A call inside the loop's body has not used up its steps.
StepsLeft ==
    \A c \in Calls :
        pc[c] \notin {"idle", "read", "release"} => steps[c] < MaxSteps

\* What every reachable state has and every step of any call keeps.
IInv ==
    /\ TypeOK
    /\ StepsLeft
    /\ ChainHoldsPayloads
    /\ PayloadOfLeg
    /\ TreasuryWaits
    /\ CallsCarryPayloads
    /\ CallsConfirmBroadcast
    /\ CallsConfirmPaid
    /\ WinnerConfirmedIsPaid

-----------------------------------------------------------------------------
SomeReverted == \E i \in DOMAIN outcomes : outcomes[i] = "reverted"

\* Every payout completes, unless one of its transactions reverted on the
\* chain, once faults stop: nothing a call leaves behind blocks the next one.
PayoutCompletes ==
    \A s \in Settlements : <>(rounds[s] = "completed" \/ SomeReverted)

\* The payout as the token contract sees it: one transfer for each leg, the
\* winner's before the treasury's.
Transfers == [s \in Settlements |-> [k \in Kinds |->
                 {n \in 0..(Len(outcomes) - 1) : Receipt(s, k, n, "success")}]]
Promise == INSTANCE Payout WITH transfers <- Transfers
KeepsPromise == Promise!Spec
=============================================================================
