--------------------------- MODULE RoundLifecycle ---------------------------
(***************************************************************************)
(* The scheduler and the orchestrator: sweeps select the oldest runnable   *)
(* rounds, and a call of processRound claims a round with a lease and      *)
(* takes it from phase to phase.  A call acts on the status it last read,  *)
(* its lease may run out under it, it may die at any await, and calls of   *)
(* one process share the worker id they release leases by.  Each service   *)
(* call is one transaction (what it decides is the subject of Rounds), but *)
(* for the draw, which fetches its beacon between a read and a write, and  *)
(* the payout, the subject of Settlement, of which only the round statuses *)
(* it writes are kept.                                                     *)
(***************************************************************************)
EXTENDS Integers, FiniteSets

CONSTANTS
    LastRound,    \* bound: rounds are numbered by their closes_at
    Workers,      \* worker ids: processes that run the orchestrator
    Slots,        \* bound: [Rounds -> SUBSET Nat], the executions of processRound
                  \* that may be active for a round at once
    NoWorker,
    Limit,        \* rounds a sweep selects: 50
    Stuck,        \* rounds whose ledger contradicts their totals, so that
                  \* every attempt to make their snapshot fails
    MaxFaults     \* bound: what fails, dies or is not yet done of the rest

Rounds == 1..LastRound
Calls == UNION {{r} \X Slots[r] : r \in Rounds}
RoundOf(c) == c[1]

ASSUME LifecycleAssumption ==
    /\ LastRound \in Nat /\ Limit \in Nat /\ MaxFaults \in Nat
    /\ Slots \in [Rounds -> SUBSET Nat]
    /\ Stuck \subseteq Rounds /\ NoWorker \notin Workers

VARIABLES
    today,     \* rounds up to this one are past their closes_at
    status,    \* rounds.status
    rows,      \* which of the round's immutable rows exist
    holder,    \* round_lifecycle_runs.worker_id
    held,      \* claim_until is not past
    waits,     \* next_attempt_at is in the future
    call,      \* the calls in progress
    faults     \* how much of MaxFaults is used

roundVars == <<status, rows>>
runVars == <<holder, held, waits>>
vars == <<today, roundVars, runVars, call, faults>>

\* The statuses in the order a round takes them; a rolled-over round has none
\* after it.
Phase == [open |-> 1, locked |-> 2, waiting_for_randomness |-> 3, winner_selected |-> 4,
          settlement_pending |-> 5, payout_broadcast |-> 6, completed |-> 7, rolled_over |-> 7]
RoundStatus == DOMAIN Phase
Terminal == {"completed", "rolled_over"}

Idle == [at |-> "idle"]
CallAt == [at : {"claim", "read", "act", "record", "fetched"},
           worker : Workers, seen : RoundStatus]

TypeOK ==
    /\ today \in 0..LastRound
    /\ status \in [Rounds -> RoundStatus]
    /\ rows \in [Rounds -> SUBSET {"snapshot", "result", "settlement"}]
    /\ holder \in [Rounds -> Workers \cup {NoWorker}]
    /\ held \in [Rounds -> BOOLEAN] /\ waits \in [Rounds -> BOOLEAN]
    /\ call \in [Calls -> CallAt \cup {Idle}] /\ faults \in 0..MaxFaults

Init ==
    /\ today = 0
    /\ status = [r \in Rounds |-> "open"] /\ rows = [r \in Rounds |-> {}]
    /\ holder = [r \in Rounds |-> NoWorker]
    /\ held = [r \in Rounds |-> FALSE] /\ waits = [r \in Rounds |-> FALSE]
    /\ call = [c \in Calls |-> Idle] /\ faults = 0

-----------------------------------------------------------------------------
(* Time.                                                                   *)

Midnight ==
    /\ today < LastRound /\ today' = today + 1
    /\ UNCHANGED <<roundVars, runVars, call, faults>>

LeaseExpires(r) ==
    /\ held[r] /\ held' = [held EXCEPT ![r] = FALSE]
    /\ UNCHANGED <<today, roundVars, holder, waits, call, faults>>

RetryIsDue(r) ==
    /\ waits[r] /\ waits' = [waits EXCEPT ![r] = FALSE]
    /\ UNCHANGED <<today, roundVars, holder, held, call, faults>>

-----------------------------------------------------------------------------
(* Sweeps and claims.                                                      *)

Closed(r) == r <= today
Runnable(r) ==
    /\ status[r] \notin Terminal /\ (status[r] = "open" => Closed(r))
    /\ ~waits[r]

\* The oldest runnable rounds, as many as the limit allows.
Selected(r) ==
    Runnable(r) /\ Cardinality({q \in 1..(r - 1) : Runnable(q)}) < Limit

Goto(c, label) == call' = [call EXCEPT ![c].at = label]

\* (The mutant runs without a worker id.)
NamelessCall(w) == [at |-> "claim", worker |-> NoWorker, seen |-> "open"]
NewCall(w) == [at |-> "claim", worker |-> w, seen |-> "open"]

\* A sweep starts a call for each round it selected.
Sweep(c) ==
    /\ Selected(RoundOf(c)) /\ call[c] = Idle
    /\ \E w \in Workers : call' = [call EXCEPT ![c] = NewCall(w)]
    /\ UNCHANGED <<today, roundVars, runVars, faults>>

\* A lease can be taken when it is free or expired.  (The mutant waits for its
\* holder to release it.)
ClaimableWhenReleased(r) == holder[r] = NoWorker
Claimable(r) == ~held[r]

Claim(c) ==
    LET r == RoundOf(c) IN
    /\ call[c].at = "claim" /\ Claimable(r)
    /\ holder' = [holder EXCEPT ![r] = call[c].worker]
    /\ held' = [held EXCEPT ![r] = TRUE]
    /\ Goto(c, "read")
    /\ UNCHANGED <<today, roundVars, waits, faults>>

SkipClaim(c) ==
    /\ call[c].at = "claim" /\ ~Claimable(RoundOf(c))
    /\ call' = [call EXCEPT ![c] = Idle]
    /\ UNCHANGED <<today, roundVars, runVars, faults>>

\* recordLifecycleSuccess, -Retry and -Failure: they end the call, and the
\* lease if it is still its worker's.
Record(c, later) ==
    LET r == RoundOf(c) IN
    /\ IF holder[r] = call[c].worker
       THEN /\ holder' = [holder EXCEPT ![r] = NoWorker]
            /\ held' = [held EXCEPT ![r] = FALSE]
            /\ waits' = [waits EXCEPT ![r] = later]
       ELSE UNCHANGED runVars
    /\ call' = [call EXCEPT ![c] = Idle]
    /\ UNCHANGED <<today, roundVars>>

-----------------------------------------------------------------------------
(* The loop of processRound.                                               *)

Read(c) ==
    LET s == status[RoundOf(c)] IN
    /\ call[c].at = "read"
    /\ call' = [call EXCEPT ![c].seen = s,
                            ![c].at = IF s \in Terminal \/ (s = "open" /\ ~Closed(RoundOf(c)))
                                      THEN "record" ELSE "act"]
    /\ UNCHANGED <<today, roundVars, runVars, faults>>

\* Each transaction locks the round or its commitment and first looks for the
\* row it is to make.  (The mutant goes by what was read before.)
ExistsAsRead(r, row) == FALSE
Exists(r, row) == row \in rows[r]

Make(r, row, next) ==
    IF Exists(r, row) THEN UNCHANGED roundVars
    ELSE /\ rows' = [rows EXCEPT ![r] = @ \cup {row}]
         /\ status' = [status EXCEPT ![r] = next]

Acts(c, s) == call[c].at = "act" /\ call[c].seen = s

CloseRound(c) ==
    LET r == RoundOf(c) IN
    /\ Acts(c, "open")
    /\ IF status[r] # "open" THEN UNCHANGED status
       ELSE \E s \in {"locked", "rolled_over"} : status' = [status EXCEPT ![r] = s]
    /\ Goto(c, "read")
    /\ UNCHANGED <<today, rows, runVars, faults>>

CreateDrawSnapshot(c) ==
    LET r == RoundOf(c) IN
    /\ Acts(c, "locked") /\ r \notin Stuck
    /\ Make(r, "snapshot", "waiting_for_randomness")
    /\ Goto(c, "read")
    /\ UNCHANGED <<today, runVars, faults>>

\* resolveWinner: unless there is a result, fetch the committed beacon.
FetchBeacon(c) ==
    /\ Acts(c, "waiting_for_randomness")
    /\ Goto(c, IF "result" \in rows[RoundOf(c)] THEN "read" ELSE "fetched")
    /\ UNCHANGED <<today, roundVars, runVars, faults>>

RecordVerifiedDrandResult(c) ==
    /\ call[c].at = "fetched"
    /\ Make(RoundOf(c), "result", "winner_selected")
    /\ Goto(c, "read")
    /\ UNCHANGED <<today, runVars, faults>>

CreateSettlement(c) ==
    /\ Acts(c, "winner_selected")
    /\ Make(RoundOf(c), "settlement", "settlement_pending")
    /\ Goto(c, "read")
    /\ UNCHANGED <<today, runVars, faults>>

\* executePayout: the record of a broadcast is written over whatever became of
\* the round meanwhile.
SubmitLeg(c) ==
    LET r == RoundOf(c) IN
    /\ Acts(c, "settlement_pending") \/ (Acts(c, "payout_broadcast") /\ status[r] = "completed")
    /\ status' = [status EXCEPT ![r] = "payout_broadcast"]
    /\ Goto(c, "read")
    /\ UNCHANGED <<today, rows, runVars, faults>>

\* confirmPayout of the treasury leg.
ConfirmLeg(c) ==
    /\ Acts(c, "payout_broadcast")
    /\ status' = [status EXCEPT ![RoundOf(c)] = "completed"]
    /\ Goto(c, "read")
    /\ UNCHANGED <<today, rows, runVars, faults>>

\* A round that is stuck fails for ever, the others MaxFaults times.
Fault(c) ==
    IF RoundOf(c) \in Stuck THEN UNCHANGED faults
    ELSE faults < MaxFaults /\ faults' = faults + 1

PayLater(c) ==
    /\ Acts(c, "settlement_pending") \/ Acts(c, "payout_broadcast")
    /\ Goto(c, "record") /\ Fault(c)
    /\ UNCHANGED <<today, roundVars, runVars>>

Succeed(c) == call[c].at = "record" /\ Record(c, FALSE) /\ UNCHANGED faults

\* What a call awaits is rejected: for a while, or for a reason that no word of
\* its message marks as temporary.  Only the first kind makes the round wait.
Fail(c) ==
    /\ call[c].at \in {"act", "fetched"} /\ Fault(c)
    /\ \E retryable \in BOOLEAN : Record(c, retryable)

Crash(c) ==
    /\ call[c] # Idle /\ call' = [call EXCEPT ![c] = Idle] /\ Fault(c)
    /\ UNCHANGED <<today, roundVars, runVars>>

Work(c) ==
    \/ Claim(c) \/ SkipClaim(c) \/ Read(c)
    \/ CloseRound(c) \/ CreateDrawSnapshot(c)
    \/ FetchBeacon(c) \/ RecordVerifiedDrandResult(c)
    \/ CreateSettlement(c)
    \/ SubmitLeg(c) \/ ConfirmLeg(c) \/ PayLater(c)
    \/ Succeed(c) \/ Fail(c)

Next ==
    \/ Midnight
    \/ \E r \in Rounds : LeaseExpires(r) \/ RetryIsDue(r)
    \/ \E c \in Calls : Sweep(c) \/ Work(c) \/ Crash(c)

Spec == Init /\ [][Next]_vars

\* Time passes, the timer keeps sweeping, and a call that has not died goes on.
Fairness ==
    /\ WF_vars(Midnight)
    /\ \A r \in Rounds :
          /\ WF_vars(LeaseExpires(r)) /\ WF_vars(RetryIsDue(r))
          /\ WF_vars(\E s \in Slots[r] : Sweep(<<r, s>>))
    /\ \A c \in Calls : WF_vars(Work(c))
FairSpec == Spec /\ Fairness

-----------------------------------------------------------------------------
(* Properties.                                                             *)

\* No call, however stale what it read, however late after its lease, takes a
\* round back to an earlier phase: a drawn round is not drawn again, a settled
\* one not settled again.  The one exception is the late record of a payout,
\* which calls that do not overlap never make (CompletedIsFinal of Settlement).
PhasesOnlyAdvance ==
    [][\A r \in Rounds : status'[r] # status[r] =>
          \/ Phase[status'[r]] > Phase[status[r]]
          \/ status[r] = "completed" /\ status'[r] = "payout_broadcast"]_vars

\* Rounds that fail for good keep no other round from its draw and settlement,
\* as long as there are fewer of them than a sweep selects.
OthersAreResolved ==
    Cardinality(Stuck) < Limit =>
        \A r \in Rounds \ Stuck :
            Closed(r) ~> status[r] = "rolled_over" \/ "settlement" \in rows[r]
=============================================================================
