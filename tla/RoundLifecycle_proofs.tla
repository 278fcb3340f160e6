----------------------- MODULE RoundLifecycle_proofs -----------------------
(***************************************************************************)
(* Proofs about RoundLifecycle, for any number of rounds, workers and      *)
(* calls: whatever calls overlap, die or outlive their lease, every round  *)
(* takes its phases in order and no row of it is made twice.               *)
(***************************************************************************)
EXTENDS RoundLifecycle, TLAPS

\* The rows of a round tell its phase.
Rowed(r) ==
    /\ "snapshot" \in rows[r] <=> status[r] \notin {"open", "locked", "rolled_over"}
    /\ "result" \in rows[r] <=>
          status[r] \notin {"open", "locked", "rolled_over", "waiting_for_randomness"}
    /\ "settlement" \in rows[r] <=>
          status[r] \in {"settlement_pending", "payout_broadcast", "completed"}
RowsFollowStatus == \A r \in Rounds : Rowed(r)

\* What is still true of a round after some call has read a status of it.
Since(r, s) ==
    /\ s = "locked" => status[r] \notin {"open", "rolled_over"}
    /\ s = "waiting_for_randomness" => "snapshot" \in rows[r]
    /\ s = "winner_selected" => "result" \in rows[r]
    /\ s \in {"settlement_pending", "payout_broadcast"} => "settlement" \in rows[r]

CallsAreBehind ==
    \A c \in Calls :
        /\ call[c].at \in {"act", "fetched"} => Since(RoundOf(c), call[c].seen)
        /\ call[c].at = "fetched" => call[c].seen = "waiting_for_randomness"

IInv == TypeOK /\ RowsFollowStatus /\ CallsAreBehind

\* How a step may change a status.
Advances(r) ==
    \/ Phase[status'[r]] > Phase[status[r]]
    \/ status[r] = "completed" /\ status'[r] = "payout_broadcast"

-----------------------------------------------------------------------------
(* Basic facts.                                                            *)

LEMMA Phases ==
    /\ RoundStatus = {"open", "locked", "waiting_for_randomness", "winner_selected",
                      "settlement_pending", "payout_broadcast", "completed", "rolled_over"}
    /\ Phase["open"] = 1 /\ Phase["locked"] = 2 /\ Phase["waiting_for_randomness"] = 3
    /\ Phase["winner_selected"] = 4 /\ Phase["settlement_pending"] = 5
    /\ Phase["payout_broadcast"] = 6 /\ Phase["completed"] = 7 /\ Phase["rolled_over"] = 7
<1>1. RoundStatus = {"open", "locked", "waiting_for_randomness", "winner_selected",
                     "settlement_pending", "payout_broadcast", "completed", "rolled_over"}
    BY DEF RoundStatus, Phase
<1>2. /\ Phase["open"] = 1 /\ Phase["locked"] = 2 /\ Phase["waiting_for_randomness"] = 3
      /\ Phase["winner_selected"] = 4
    BY DEF Phase
<1>3. /\ Phase["settlement_pending"] = 5
      /\ Phase["payout_broadcast"] = 6 /\ Phase["completed"] = 7 /\ Phase["rolled_over"] = 7
    BY DEF Phase
<1> QED
    BY <1>1, <1>2, <1>3

LEMMA CallsHaveRounds ==
    ASSUME NEW c \in Calls
    PROVE  RoundOf(c) \in Rounds
    BY DEF Calls, RoundOf

\* A call that is somewhere is not idle, and can be anywhere else.
LEMMA CallsAreTyped ==
    ASSUME TypeOK, NEW c \in Calls, call[c].at # "idle"
    PROVE  /\ call[c] \in CallAt /\ call[c].worker \in Workers /\ call[c].seen \in RoundStatus
           /\ call[c].at \in {"claim", "read", "act", "record", "fetched"}
<1>1. call[c] \in CallAt \/ call[c] = Idle
    BY DEF TypeOK
<1>2. call[c] # Idle
    BY DEF Idle
<1> QED
    BY <1>1, <1>2 DEF CallAt

\* A call that goes to a label keeps its worker and what it has seen.
LEMMA GoingKeepsTypes ==
    ASSUME TypeOK, NEW c \in Calls, NEW label \in {"read", "act", "record", "fetched"},
           call[c].at # "idle", Goto(c, label)
    PROVE  /\ call' \in [Calls -> CallAt \cup {Idle}]
           /\ call'[c].at = label
           /\ \A d \in Calls \ {c} : call'[d] = call[d]
           /\ call'[c].seen = call[c].seen
<1>1. call[c] \in CallAt
    BY CallsAreTyped
<1>2. call' = [call EXCEPT ![c] = [call[c] EXCEPT !.at = label]]
    BY DEF Goto
<1>3. [call[c] EXCEPT !.at = label] \in CallAt
    BY <1>1 DEF CallAt
<1>4. call \in [Calls -> CallAt \cup {Idle}]
    BY DEF TypeOK
<1>5. call'[c] = [call[c] EXCEPT !.at = label]
    BY <1>2, <1>4
<1>6. call'[c].at = label /\ call'[c].seen = call[c].seen
    BY <1>1, <1>5 DEF CallAt
<1> QED
    BY <1>2, <1>3, <1>4, <1>6

LEMMA EndingKeepsTypes ==
    ASSUME TypeOK, NEW c \in Calls, call' = [call EXCEPT ![c] = Idle]
    PROVE  /\ call' \in [Calls -> CallAt \cup {Idle}]
           /\ call'[c].at = "idle"
           /\ \A d \in Calls \ {c} : call'[d] = call[d]
    BY DEF TypeOK, Idle

LEMMA RecordKeepsTypes ==
    ASSUME TypeOK, NEW c \in Calls, NEW later \in BOOLEAN, Record(c, later)
    PROVE  /\ holder' \in [Rounds -> Workers \cup {NoWorker}]
           /\ held' \in [Rounds -> BOOLEAN] /\ waits' \in [Rounds -> BOOLEAN]
           /\ call' = [call EXCEPT ![c] = Idle] /\ UNCHANGED <<today, roundVars>>
<1>1. CASE holder[RoundOf(c)] = call[c].worker
    BY <1>1, CallsHaveRounds DEF TypeOK, Record
<1>2. CASE holder[RoundOf(c)] # call[c].worker
    BY <1>2 DEF TypeOK, Record, runVars
<1> QED
    BY <1>1, <1>2

LEMMA FaultKeepsTypes ==
    ASSUME TypeOK, NEW c \in Calls, Fault(c)
    PROVE  faults' \in 0..MaxFaults
<1>1. CASE RoundOf(c) \in Stuck
    BY <1>1 DEF Fault, TypeOK
<1>2. CASE RoundOf(c) \notin Stuck
    BY <1>2, LifecycleAssumption DEF Fault, TypeOK
<1> QED
    BY <1>1, <1>2

\* A row is made with the status after it, or both stay.
LEMMA MakingKeepsTypes ==
    ASSUME TypeOK, NEW r \in Rounds, NEW row \in {"snapshot", "result", "settlement"},
           NEW next \in RoundStatus, Make(r, row, next)
    PROVE  /\ status' \in [Rounds -> RoundStatus]
           /\ rows' \in [Rounds -> SUBSET {"snapshot", "result", "settlement"}]
<1>1. CASE Exists(r, row)
    BY <1>1 DEF Make, TypeOK, roundVars
<1>2. CASE ~Exists(r, row)
    BY <1>2 DEF Make, TypeOK
<1> QED
    BY <1>1, <1>2

-----------------------------------------------------------------------------
(* The types.                                                              *)

LEMMA TypeStep == TypeOK /\ [Next]_vars => TypeOK'
<1> SUFFICES ASSUME TypeOK, [Next]_vars
             PROVE  TypeOK'
    OBVIOUS
<1> USE DEF roundVars, runVars
<1>1. CASE Midnight
    BY <1>1, LifecycleAssumption DEF Midnight, TypeOK
<1>2. ASSUME NEW r \in Rounds, LeaseExpires(r) \/ RetryIsDue(r)
      PROVE  TypeOK'
    BY <1>2 DEF LeaseExpires, RetryIsDue, TypeOK
<1>3. ASSUME NEW c \in Calls, Sweep(c)
      PROVE  TypeOK'
  <2>1. PICK w \in Workers : call' = [call EXCEPT ![c] = NewCall(w)]
      BY <1>3 DEF Sweep
  <2>2. NewCall(w) \in CallAt
      BY Phases DEF NewCall, CallAt
  <2> QED
      BY <1>3, <2>1, <2>2 DEF Sweep, TypeOK
<1>4. ASSUME NEW c \in Calls, Claim(c)
      PROVE  TypeOK'
  <2>1. call' \in [Calls -> CallAt \cup {Idle}]
      BY <1>4, GoingKeepsTypes DEF Claim
  <2>2. call[c].worker \in Workers /\ RoundOf(c) \in Rounds
      BY <1>4, CallsAreTyped, CallsHaveRounds DEF Claim
  <2> QED
      BY <1>4, <2>1, <2>2 DEF Claim, TypeOK
<1>5. ASSUME NEW c \in Calls, SkipClaim(c) \/ Crash(c)
      PROVE  TypeOK'
  <2>1. call' \in [Calls -> CallAt \cup {Idle}]
      BY <1>5, EndingKeepsTypes DEF SkipClaim, Crash
  <2>2. faults' \in 0..MaxFaults
      BY <1>5, FaultKeepsTypes DEF SkipClaim, Crash, TypeOK
  <2> QED
      BY <1>5, <2>1, <2>2 DEF SkipClaim, Crash, TypeOK
<1>6. ASSUME NEW c \in Calls, Read(c)
      PROVE  TypeOK'
  <2>1. call[c] \in CallAt /\ status[RoundOf(c)] \in RoundStatus
      BY <1>6, CallsAreTyped, CallsHaveRounds DEF Read, TypeOK
  <2>2. \E label \in {"record", "act"} :
            call' = [call EXCEPT ![c] = [call[c] EXCEPT !.seen = status[RoundOf(c)],
                                                        !.at = label]]
      BY <1>6 DEF Read
  <2>3. \A label \in {"record", "act"} :
            [call[c] EXCEPT !.seen = status[RoundOf(c)], !.at = label] \in CallAt
      BY <2>1 DEF CallAt
  <2> QED
      BY <1>6, <2>2, <2>3 DEF Read, TypeOK
<1>7. ASSUME NEW c \in Calls, CloseRound(c)
      PROVE  TypeOK'
  <2>1. call' \in [Calls -> CallAt \cup {Idle}]
      BY <1>7, GoingKeepsTypes DEF CloseRound, Acts
  <2>2. status' \in [Rounds -> RoundStatus]
    <3>1. CASE status[RoundOf(c)] # "open"
        BY <1>7, <3>1 DEF CloseRound, TypeOK
    <3>2. CASE status[RoundOf(c)] = "open"
        BY <1>7, <3>2, Phases DEF CloseRound, TypeOK
    <3> QED
        BY <3>1, <3>2
  <2> QED
      BY <1>7, <2>1, <2>2 DEF CloseRound, TypeOK
<1>8. ASSUME NEW c \in Calls, CreateDrawSnapshot(c) \/ RecordVerifiedDrandResult(c)
                                \/ CreateSettlement(c)
      PROVE  TypeOK'
  <2>1. call' \in [Calls -> CallAt \cup {Idle}]
      BY <1>8, GoingKeepsTypes
         DEF CreateDrawSnapshot, RecordVerifiedDrandResult, CreateSettlement, Acts
  <2>2. /\ status' \in [Rounds -> RoundStatus]
        /\ rows' \in [Rounds -> SUBSET {"snapshot", "result", "settlement"}]
    <3>1. CASE CreateDrawSnapshot(c)
        BY <3>1, MakingKeepsTypes, CallsHaveRounds, Phases DEF CreateDrawSnapshot
    <3>2. CASE RecordVerifiedDrandResult(c)
        BY <3>2, MakingKeepsTypes, CallsHaveRounds, Phases DEF RecordVerifiedDrandResult
    <3>3. CASE CreateSettlement(c)
        BY <3>3, MakingKeepsTypes, CallsHaveRounds, Phases DEF CreateSettlement
    <3> QED
        BY <1>8, <3>1, <3>2, <3>3
  <2> QED
      BY <1>8, <2>1, <2>2
         DEF CreateDrawSnapshot, RecordVerifiedDrandResult, CreateSettlement, TypeOK
<1>9. ASSUME NEW c \in Calls, FetchBeacon(c)
      PROVE  TypeOK'
  <2>1. \E label \in {"read", "fetched"} : Goto(c, label)
      BY <1>9 DEF FetchBeacon
  <2>2. call' \in [Calls -> CallAt \cup {Idle}]
      BY <1>9, <2>1, GoingKeepsTypes DEF FetchBeacon, Acts
  <2> QED
      BY <1>9, <2>2 DEF FetchBeacon, TypeOK
<1>10. ASSUME NEW c \in Calls, SubmitLeg(c) \/ ConfirmLeg(c)
       PROVE  TypeOK'
  <2>1. call' \in [Calls -> CallAt \cup {Idle}]
      BY <1>10, GoingKeepsTypes DEF SubmitLeg, ConfirmLeg, Acts
  <2>2. status' \in [Rounds -> RoundStatus]
      BY <1>10, Phases DEF SubmitLeg, ConfirmLeg, TypeOK
  <2> QED
      BY <1>10, <2>1, <2>2 DEF SubmitLeg, ConfirmLeg, TypeOK
<1>11. ASSUME NEW c \in Calls, PayLater(c)
       PROVE  TypeOK'
  <2>1. call' \in [Calls -> CallAt \cup {Idle}]
      BY <1>11, GoingKeepsTypes DEF PayLater, Acts
  <2>2. faults' \in 0..MaxFaults
      BY <1>11, FaultKeepsTypes DEF PayLater
  <2> QED
      BY <1>11, <2>1, <2>2 DEF PayLater, TypeOK
<1>12. ASSUME NEW c \in Calls, Succeed(c) \/ Fail(c)
       PROVE  TypeOK'
  <2>1. \E later \in BOOLEAN : Record(c, later)
      BY <1>12 DEF Succeed, Fail
  <2>2. /\ holder' \in [Rounds -> Workers \cup {NoWorker}]
        /\ held' \in [Rounds -> BOOLEAN] /\ waits' \in [Rounds -> BOOLEAN]
        /\ call' = [call EXCEPT ![c] = Idle] /\ UNCHANGED <<today, roundVars>>
      BY <2>1, RecordKeepsTypes
  <2>3. call' \in [Calls -> CallAt \cup {Idle}]
      BY <2>2, EndingKeepsTypes
  <2>4. faults' \in 0..MaxFaults
      BY <1>12, FaultKeepsTypes DEF Succeed, Fail, TypeOK
  <2> QED
      BY <2>2, <2>3, <2>4 DEF TypeOK
<1>13. CASE UNCHANGED vars
    BY <1>13 DEF vars, TypeOK
<1> QED
    BY <1>1, <1>2, <1>3, <1>4, <1>5, <1>6, <1>7, <1>8, <1>9, <1>10, <1>11, <1>12, <1>13
       DEF Next, Work

-----------------------------------------------------------------------------
(* The phases.                                                             *)

\* What every step makes of a round: its status stays or advances, its rows
\* remain and follow it.
RoundStep(r) ==
    /\ status'[r] # status[r] => Advances(r)
    /\ rows[r] \subseteq rows'[r]
    /\ status'[r] \in {"open", "rolled_over"} => status[r] \in {"open", "rolled_over"}
    /\ Rowed(r)'

LEMMA RoundStays ==
    ASSUME NEW r \in Rounds, Rowed(r), status'[r] = status[r], rows'[r] = rows[r]
    PROVE  RoundStep(r)
    BY DEF RoundStep, Rowed

\* A row is made for the one status it belongs to, or it exists.
LEMMA RoundMakes ==
    ASSUME TypeOK, RowsFollowStatus, NEW r \in Rounds, NEW q \in Rounds,
           NEW row, NEW next, Make(q, row, next),
           \/ row = "snapshot" /\ next = "waiting_for_randomness"
                 /\ status[q] \notin {"open", "rolled_over"}
           \/ row = "result" /\ next = "winner_selected" /\ "snapshot" \in rows[q]
           \/ row = "settlement" /\ next = "settlement_pending" /\ "result" \in rows[q]
    PROVE  RoundStep(r)
<1> Rowed(r) /\ Rowed(q) /\ status[q] \in RoundStatus
    BY DEF RowsFollowStatus, TypeOK
<1>1. CASE Exists(q, row) \/ r # q
  <2>1. status'[r] = status[r] /\ rows'[r] = rows[r]
    <3>1. CASE Exists(q, row)
        BY <3>1 DEF Make, roundVars
    <3>2. CASE ~Exists(q, row) /\ r # q
        BY <3>2 DEF Make, TypeOK
    <3> QED
        BY <1>1, <3>1, <3>2
  <2> QED
      BY <2>1, RoundStays
<1>2. CASE ~Exists(q, row) /\ r = q
  <2>1. status'[r] = next /\ rows'[r] = rows[r] \cup {row} /\ row \notin rows[r]
      BY <1>2 DEF Make, Exists, TypeOK
  <2>2. CASE row = "snapshot"
    <3>1. status[r] = "locked" /\ next = "waiting_for_randomness"
        BY <1>2, <2>1, <2>2, Phases DEF Rowed
    <3>2. Rowed(r)'
        BY <2>1, <2>2, <3>1 DEF Rowed
    <3> QED
        BY <2>1, <3>1, <3>2, Phases DEF RoundStep, Advances
  <2>3. CASE row = "result"
    <3>1. status[r] = "waiting_for_randomness" /\ next = "winner_selected"
        BY <1>2, <2>1, <2>3, Phases DEF Rowed
    <3>2. Rowed(r)'
        BY <2>1, <2>3, <3>1 DEF Rowed
    <3> QED
        BY <2>1, <3>1, <3>2, Phases DEF RoundStep, Advances
  <2>4. CASE row = "settlement"
    <3>1. status[r] = "winner_selected" /\ next = "settlement_pending"
        BY <1>2, <2>1, <2>4, Phases DEF Rowed
    <3>2. Rowed(r)'
        BY <2>1, <2>4, <3>1 DEF Rowed
    <3> QED
        BY <2>1, <3>1, <3>2, Phases DEF RoundStep, Advances
  <2> QED
      BY <2>2, <2>3, <2>4
<1> QED
    BY <1>1, <1>2

LEMMA RoundsStep ==
    ASSUME IInv, [Next]_vars, NEW r \in Rounds
    PROVE  RoundStep(r)
<1> TypeOK /\ RowsFollowStatus /\ CallsAreBehind /\ Rowed(r) /\ status[r] \in RoundStatus
    BY DEF IInv, RowsFollowStatus, TypeOK
<1>1. CASE UNCHANGED roundVars
    BY <1>1, RoundStays DEF roundVars
<1>2. ASSUME NEW c \in Calls, CloseRound(c)
      PROVE  RoundStep(r)
  <2>1. CASE status'[r] = status[r]
      BY <1>2, <2>1, RoundStays DEF CloseRound
  <2>2. CASE status'[r] # status[r]
    <3>1. status[r] = "open" /\ status'[r] \in {"locked", "rolled_over"} /\ rows' = rows
        BY <1>2, <2>2 DEF CloseRound, TypeOK
    <3>2. Rowed(r)'
        BY <3>1 DEF Rowed
    <3> QED
        BY <3>1, <3>2, Phases DEF RoundStep, Advances
  <2> QED
      BY <2>1, <2>2
<1>3. ASSUME NEW c \in Calls, CreateDrawSnapshot(c)
      PROVE  RoundStep(r)
  <2>1. RoundOf(c) \in Rounds /\ status[RoundOf(c)] \notin {"open", "rolled_over"}
      BY <1>3, CallsHaveRounds DEF CreateDrawSnapshot, Acts, CallsAreBehind, Since
  <2> QED
      BY <1>3, <2>1, RoundMakes DEF CreateDrawSnapshot
<1>4. ASSUME NEW c \in Calls, RecordVerifiedDrandResult(c)
      PROVE  RoundStep(r)
  <2>1. RoundOf(c) \in Rounds /\ "snapshot" \in rows[RoundOf(c)]
      BY <1>4, CallsHaveRounds DEF RecordVerifiedDrandResult, CallsAreBehind, Since
  <2> QED
      BY <1>4, <2>1, RoundMakes DEF RecordVerifiedDrandResult
<1>5. ASSUME NEW c \in Calls, CreateSettlement(c)
      PROVE  RoundStep(r)
  <2>1. RoundOf(c) \in Rounds /\ "result" \in rows[RoundOf(c)]
      BY <1>5, CallsHaveRounds DEF CreateSettlement, Acts, CallsAreBehind, Since
  <2> QED
      BY <1>5, <2>1, RoundMakes DEF CreateSettlement
<1>6. ASSUME NEW c \in Calls, SubmitLeg(c) \/ ConfirmLeg(c)
      PROVE  RoundStep(r)
  <2>1. RoundOf(c) \in Rounds /\ "settlement" \in rows[RoundOf(c)]
      BY <1>6, CallsHaveRounds DEF SubmitLeg, ConfirmLeg, Acts, CallsAreBehind, Since
  <2>2. rows' = rows /\ \/ status'[r] = status[r]
                        \/ r = RoundOf(c) /\ status'[r] \in {"payout_broadcast", "completed"}
      BY <1>6, <2>1 DEF SubmitLeg, ConfirmLeg, TypeOK
  <2>3. CASE status'[r] = status[r]
      BY <2>2, <2>3, RoundStays
  <2>4. CASE status'[r] # status[r]
    <3>1. /\ status[r] \in {"settlement_pending", "payout_broadcast", "completed"}
          /\ status'[r] \in {"payout_broadcast", "completed"}
        BY <2>1, <2>2, <2>4 DEF Rowed
    <3>2. Rowed(r)'
        BY <2>2, <3>1 DEF Rowed
    <3>3. Advances(r)
        BY <2>4, <3>1, Phases DEF Advances
    <3> QED
        BY <2>2, <3>1, <3>2, <3>3 DEF RoundStep
  <2> QED
      BY <2>3, <2>4
<1>7. ASSUME NEW c \in Calls, \/ Sweep(c) \/ Claim(c) \/ SkipClaim(c) \/ Read(c)
                              \/ FetchBeacon(c) \/ PayLater(c) \/ Crash(c)
      PROVE  UNCHANGED roundVars
    BY <1>7 DEF Sweep, Claim, SkipClaim, Read, FetchBeacon, PayLater, Crash
<1>8. ASSUME NEW c \in Calls, Succeed(c) \/ Fail(c)
      PROVE  UNCHANGED roundVars
    BY <1>8 DEF Succeed, Fail, Record
<1>9. ASSUME Midnight \/ (\E q \in Rounds : LeaseExpires(q) \/ RetryIsDue(q)) \/ UNCHANGED vars
      PROVE  UNCHANGED roundVars
    BY <1>9 DEF Midnight, LeaseExpires, RetryIsDue, vars
<1> QED
    BY <1>1, <1>2, <1>3, <1>4, <1>5, <1>6, <1>7, <1>8, <1>9 DEF Next, Work

-----------------------------------------------------------------------------
(* The calls.                                                              *)

LEMMA SincePersists ==
    ASSUME NEW r \in Rounds, NEW s, Since(r, s), RoundStep(r)
    PROVE  Since(r, s)'
    BY DEF Since, RoundStep

\* A call does what needs an answer only after reading, and fetches only for
\* what it read.
LEMMA CallMoves ==
    ASSUME TypeOK, [Next]_vars, NEW c \in Calls, call'[c].at \in {"act", "fetched"}
    PROVE  \/ call'[c] = call[c]
           \/ /\ call'[c].at = "act" /\ call'[c].seen = status[RoundOf(c)]
              /\ UNCHANGED roundVars
           \/ /\ call[c].at = "act" /\ call[c].seen = "waiting_for_randomness"
              /\ call'[c].at = "fetched" /\ call'[c].seen = call[c].seen
<1> DEFINE Conclusion ==
              \/ call'[c] = call[c]
              \/ /\ call'[c].at = "act" /\ call'[c].seen = status[RoundOf(c)]
                 /\ UNCHANGED roundVars
              \/ /\ call[c].at = "act" /\ call[c].seen = "waiting_for_randomness"
                 /\ call'[c].at = "fetched" /\ call'[c].seen = call[c].seen
<1>1. ASSUME NEW d \in Calls, Sweep(d)
      PROVE  Conclusion
  <2>1. PICK w \in Workers : call' = [call EXCEPT ![d] = NewCall(w)]
      BY <1>1 DEF Sweep
  <2>2. call'[d].at = "claim"
      BY <2>1 DEF NewCall, TypeOK
  <2> QED
      BY <2>1, <2>2 DEF TypeOK
<1>2. ASSUME NEW d \in Calls, \/ Claim(d) \/ CloseRound(d) \/ CreateDrawSnapshot(d)
                              \/ RecordVerifiedDrandResult(d) \/ CreateSettlement(d)
                              \/ SubmitLeg(d) \/ ConfirmLeg(d) \/ PayLater(d)
      PROVE  Conclusion
  <2>1. call[d].at # "idle" /\ (Goto(d, "read") \/ Goto(d, "record"))
      BY <1>2 DEF Claim, CloseRound, CreateDrawSnapshot, RecordVerifiedDrandResult,
                  CreateSettlement, SubmitLeg, ConfirmLeg, PayLater, Acts
  <2>2. call'[d].at \in {"read", "record"} /\ \A e \in Calls \ {d} : call'[e] = call[e]
      BY <2>1, GoingKeepsTypes
  <2> QED
      BY <2>2
<1>3. ASSUME NEW d \in Calls, FetchBeacon(d)
      PROVE  Conclusion
  <2>1. PICK label \in {"read", "fetched"} : Goto(d, label)
      BY <1>3 DEF FetchBeacon
  <2>2. call[d].at = "act" /\ call[d].seen = "waiting_for_randomness"
      BY <1>3 DEF FetchBeacon, Acts
  <2>3. /\ call'[d].at = label /\ call'[d].seen = call[d].seen
        /\ \A e \in Calls \ {d} : call'[e] = call[e]
      BY <2>1, <2>2, GoingKeepsTypes
  <2> QED
      BY <2>2, <2>3
<1>4. ASSUME NEW d \in Calls, Read(d)
      PROVE  Conclusion
  <2>1. call[d] \in CallAt
      BY <1>4, CallsAreTyped DEF Read
  <2>2. \E label \in {"record", "act"} :
            call' = [call EXCEPT ![d] = [call[d] EXCEPT !.seen = status[RoundOf(d)],
                                                        !.at = label]]
      BY <1>4 DEF Read
  <2>3. \A e \in Calls \ {d} : call'[e] = call[e]
      BY <2>2 DEF TypeOK
  <2>4. call'[d].seen = status[RoundOf(d)] /\ call'[d].at \in {"record", "act"}
      BY <2>1, <2>2 DEF TypeOK, CallAt
  <2> QED
      BY <1>4, <2>3, <2>4 DEF Read
<1>5. ASSUME NEW d \in Calls, call' = [call EXCEPT ![d] = Idle]
      PROVE  Conclusion
    BY <1>5, EndingKeepsTypes
<1>6. ASSUME NEW d \in Calls, SkipClaim(d) \/ Succeed(d) \/ Fail(d) \/ Crash(d)
      PROVE  Conclusion
    BY <1>5, <1>6 DEF SkipClaim, Succeed, Fail, Crash, Record
<1>7. ASSUME Midnight \/ (\E q \in Rounds : LeaseExpires(q) \/ RetryIsDue(q)) \/ UNCHANGED vars
      PROVE  Conclusion
    BY <1>7 DEF Midnight, LeaseExpires, RetryIsDue, vars
<1> HIDE DEF Conclusion
<1>8. Conclusion
    BY <1>1, <1>2, <1>3, <1>4, <1>6, <1>7 DEF Next, Work
<1> QED
    BY <1>8 DEF Conclusion

LEMMA CallsStep ==
    ASSUME IInv, [Next]_vars
    PROVE  CallsAreBehind'
<1> SUFFICES ASSUME NEW c \in Calls, call'[c].at \in {"act", "fetched"},
                    NEW s, s = call'[c].seen
             PROVE  Since(RoundOf(c), s)' /\ (call'[c].at = "fetched" => s = "waiting_for_randomness")
    BY DEF CallsAreBehind, Since
<1>1. RoundOf(c) \in Rounds /\ TypeOK /\ RoundStep(RoundOf(c)) /\ Rowed(RoundOf(c))
    BY CallsHaveRounds, RoundsStep DEF IInv, RowsFollowStatus
<1>2. call[c].at \in {"act", "fetched"} /\ s = call[c].seen => Since(RoundOf(c), s)
    BY DEF IInv, CallsAreBehind, Since
<1>3. call[c].at = "fetched" => call[c].seen = "waiting_for_randomness"
    BY DEF IInv, CallsAreBehind
<1>4. CASE call'[c] = call[c]
    BY <1>1, <1>2, <1>3, <1>4, SincePersists
<1>5. CASE call'[c].at = "act" /\ call'[c].seen = status[RoundOf(c)] /\ UNCHANGED roundVars
  <2>1. Since(RoundOf(c), s)
      BY <1>1, <1>5 DEF Rowed, Since
  <2> QED
      BY <1>1, <1>5, <2>1, SincePersists
<1>6. CASE /\ call[c].at = "act" /\ call[c].seen = "waiting_for_randomness"
           /\ call'[c].at = "fetched" /\ call'[c].seen = call[c].seen
    BY <1>1, <1>2, <1>6, SincePersists
<1> QED
    BY <1>1, <1>4, <1>5, <1>6, CallMoves

-----------------------------------------------------------------------------
(* The theorems.                                                           *)

LEMMA InitIsConsistent == Init => IInv
<1> SUFFICES ASSUME Init
             PROVE  IInv
    OBVIOUS
<1>1. TypeOK
    BY LifecycleAssumption, Phases DEF Init, TypeOK
<1>2. RowsFollowStatus
    BY DEF Init, RowsFollowStatus, Rowed
<1>3. CallsAreBehind
    BY DEF Init, CallsAreBehind, Idle
<1> QED
    BY <1>1, <1>2, <1>3 DEF IInv

LEMMA StepIsConsistent == IInv /\ [Next]_vars => IInv'
<1> SUFFICES ASSUME IInv, [Next]_vars
             PROVE  IInv'
    OBVIOUS
<1>1. TypeOK'
    BY TypeStep DEF IInv
<1>2. RowsFollowStatus'
    BY RoundsStep DEF RowsFollowStatus, RoundStep
<1>3. CallsAreBehind'
    BY CallsStep
<1> QED
    BY <1>1, <1>2, <1>3 DEF IInv

\* Every row of the bookkeeping keeps its type, and a call always has a worker
\* to release its lease by (TypeOK of RoundLifecycle).
THEOREM TypeCorrect == Spec => []TypeOK
<1>1. TypeOK /\ [Next]_vars => TypeOK'
    BY TypeStep
<1>2. Init => TypeOK
    BY InitIsConsistent DEF IInv
<1> QED
    BY <1>1, <1>2, PTL DEF Spec

\* The rows of a round tell its phase, and what a call has read of it is never
\* ahead of it: the inductive invariant.
THEOREM Consistent == Spec => []IInv
    BY InitIsConsistent, StepIsConsistent, PTL DEF Spec

\* However calls overlap, die or outlive their lease, no round is taken back:
\* none is drawn or settled twice (PhasesOnlyAdvance of RoundLifecycle).
THEOREM RoundsAdvance == Spec => PhasesOnlyAdvance
<1>1. IInv /\ [Next]_vars =>
        [\A r \in Rounds : status'[r] # status[r] =>
            \/ Phase[status'[r]] > Phase[status[r]]
            \/ status[r] = "completed" /\ status'[r] = "payout_broadcast"]_vars
    BY RoundsStep DEF RoundStep, Advances
<1> QED
    BY <1>1, Consistent, PTL DEF Spec, PhasesOnlyAdvance
=============================================================================
