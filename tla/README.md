# A formal model of ONE OF US

TLA+ specifications of the lottery in this repository, their TLC
configurations, and machine-checked proofs. Paths are relative to the
repository's root. `PROJECT.json` lists, for every definition, the lines it
stands for, and every run, mutant, hazard, finding and theorem by name.

    tlc -workers 2 -config settlement_exclusive.cfg MCSettlement.tla
    tlapm Settlement_proofs.tla

## 1. The system

ONE OF US sells one-token lottery tickets against USDT transfers on Arbitrum.
A Node process serves an API and a page, scans the chain for transfers, and
drives daily rounds to a draw by a drand beacon and to a payout in two
transfers. All truth is in PostgreSQL; several processes (API servers, the
`process-round` command) may work on it at once.

| component | state | operations | talks to |
|---|---|---|---|
| Orders, codes, matching (`postgres-repository.js:388-434`, `payment-domain.js`) | orders, payments, three tables of reservations | createOrder, expirePending, recordTransfer, confirmPayments | called by the API and the monitor |
| Payment monitor (`payment-monitor.js`, `rpc-client.js`) | scanner cursor; nothing else survives a scan | scan, confirm | reads the chain through several nodes, calls the repository |
| Rounds, tickets (`postgres-repository.js:76-193`) | rounds, carry-overs, ledger, ticket counter | openRound, roundForTicketIssuance, closeRound, createDrawSnapshot | confirmPayments issues tickets into a round; the orchestrator closes it |
| Draw (`drand.js`, `drand-winner-service.js`) | commitments, results | createDrawSnapshot commits, resolveWinner, recordVerifiedDrandResult | drand |
| Settlement (`postgres-repository.js:230-345`, `settlement-service.js`, `payout-provider.js`) | settlements, two legs each with one signed payload, the pool wallet's nonce | createSettlement, prepare, sign, broadcast, confirm | the node, a signer |
| Orchestrator (`round-lifecycle-orchestrator.js`) | a lease per round, retry times | sweep, processRound | all of the above |
| Controls (`postgres-repository.js:62,73`) | four switches | pause, resume | asserted inside transactions |
| Purchase dialog (`payment-modal.js`, `payment-session.js`) | the form, the session, two timers, requests in flight; the identifier of the pending order in localStorage | open, close, continue, poll, restore, reload | two routes of the API |
| API, rest of the page, signers, configuration, reporting, scripts | none of their own, or copies | | |

The flow: an order reserves a payment code (an amount whose fraction identifies
it) - the monitor records a transfer, later confirms it and so issues tickets
into the open round - at midnight UTC the orchestrator closes the round, which
is locked with ten tickets or carried into the next day - a locked round is
snapshotted, committed to a future beacon, drawn - the settlement pays the
winner 85 % and then sweeps the rest to the treasury.

What is hard here:

- *Interleaving.* Transactions are short and serialized by row locks, but the
  operations are made of several, with remote calls between them. Scans
  overlap (`setInterval` does not wait), sweeps overlap, and a lease of 30 s
  that nobody renews runs out under a call that still works.
- *Failure.* Processes die between signing and broadcasting, answers of the
  node get lost, transactions revert, nodes lag behind one another.
- *Order.* Money arrives late, twice, or under an alias; blocks are
  reorganized; a round is closed while the next day already sells tickets.
- *Time.* Three reservations of an order end at times updated separately.
- *A page that is left.* The dialog is closed, reopened and reloaded while its
  requests are under way, and their answers come when it shows something else.
- *Arithmetic.* Amounts that identify, ranges that partition, shares that must
  add up, a hash taken modulo a ticket count.

What makes it correct, component by component: a transfer is booked on at most
one order, the right one, and settles it once; ticket numbers have no gap or
overlap; every ticket and its money take part in exactly one draw; what a
snapshot says stays true; a leg is paid by at most one transaction, the winner
first, and a settlement is called settled only when both were; no transfer is
missed by the scanner and no ticket is issued for one that is not on the chain;
no round goes back a phase, and one that fails holds up no other; the draw gives
each ticket the same chance; the page never loses or misreports an order that
somebody is asked to pay; and everything that was begun ends.

## 2. Modules

| module | models | promises (abstract) | proofs |
|---|---|---|---|
| `Settlement` | prepare / sign / broadcast / confirm of both legs by concurrent calls of processRound | `Payout` | `Settlement_proofs`, `SettlementExclusive_proofs` |
| `Rounds` | rounds, tickets, rollover, snapshot, result | `Lottery` | `Rounds_proofs` |
| `PaymentOrders` | orders, reservations, matching, confirmation | `TicketSale` | `PaymentOrders_proofs` |
| `PaymentAmounts` | the arithmetic of identifiers and amounts | | |
| `PaymentMatching` | PaymentOrders with the amounts of PaymentAmounts | | `PaymentOrders_proofs` |
| `ChainMonitor` | scans over a reorganizing chain | `Clearing` | `ChainMonitor_proofs` |
| `RoundLifecycle` | sweeps, leases, the loop of processRound over the phases, retries | | `RoundLifecycle_proofs` |
| `Draw` | the arithmetic of a draw: committed beacon, ranges, winning number, amounts | | `Draw_proofs` |
| `RoundDraws` | the draws of Rounds' rounds: Draw applied to their snapshots | | `Draw_proofs` |
| `PaymentModal` | the purchase dialog of one browser tab and its requests | | `PaymentModal_proofs` |
| `MC...` | values of the constants for TLC | | |

**Settlement.** A variable per column (`settlements`, `legs`, `nonces`,
`rounds`, `lease`, `payoutsEnabled`), two for the chain (`accepted`, the pool
wallet's transactions by nonce, and `outcomes`, the receipts of its confirmed
prefix), and per call of processRound its place, the round status it last read,
and the payload it carries. One action is one transaction, read or remote
request, because between any two of them another call may run. The statements
that write unconditionally do so in the model (`RecordSubmitted`,
`RecordAmbiguous`), and `ConfirmLeg` confirms the leg the code would look up,
not the one that was verified. A payload is its nonce: whether it is accepted
depends on nothing else that the properties tell apart.

**Rounds.** Rounds are named by their day. One action is one transaction.
Eligibility by walking `previous_round_id` (a recursive query) is `Chain`, an
interval of days joined by links, so the module has no recursive operator.
Money is counted in tickets: a ticket costs one whole token, and no code path
issues a free ticket or sets an organizer fee before the settlement.
`RecordDrawResult` picks any ticket of the snapshot, as a beacon may.

**PaymentOrders.** The three reservation tables are `reserved` (amounts and
codes, always written together) and `identified`, with the ends of both.
Amounts are a parameter, `AmountsOf`, so that its own proofs hold for any
amounts whatever. `PaymentAmounts` computes the real ones with recursive
functions, digit by digit as the code does; `PaymentMatching` assumes that
`AmountsOf` is these (`RealAmounts`) and says what a matched amount reads as
(`MatchedByDigits`). `MCPaymentOrders` takes three decimals and two digits, the
code six and nine. Windows are counted in a common unit: one for
the reservation of 30 minutes, two for the cooldown of 120. What matters is the
order of the events and that the cooldown outlasts the reservation.

**ChainMonitor.** A scan is a small process that asks for the head, reads the
cursor, fetches and records chunk by chunk, saves the cursor after each, reads
the pending blocks, fetches them and confirms. Others run between any two of
its steps; it dies with its first error. The chain grows, and loses its newest
blocks to a reorganization that puts the transfers into other blocks or none.
The node that returns the logs may lag the one that told the head. `Clearing`
is what is left when scans, cursors, nodes and hashes are taken away: a transfer
is sighted once and cleared in one step, in the block of its sighting and buried
there. The refinement maps the height to `Len(chain)`, a sighting to the block
of the payment, and the cleared transfers to the confirmed payments.

**RoundLifecycle.** A sweep selects the oldest runnable rounds, up to a limit,
and starts a call for each; a call claims its round by a lease and loops: it
reads the status and acts on what it read. Each service call is one transaction
and one action, but for resolveWinner, which fetches its beacon between a read
and a write (`FetchBeacon`, `RecordVerifiedDrandResult`). `rows` are the
immutable rows of a round (snapshot, result, settlement), which make most
repetitions harmless; `SubmitLeg` and `ConfirmLeg` are what is left of
Settlement here: the statuses it writes to the round. A call ends in success,
in a retry later or in a failure that is tried again at once, and an error may
be classified either way, as `retryable()` goes by words of messages. Rounds
in `Stuck` have a ledger no snapshot accepts.

**Draw.** Operators only. Values of the hash are numbers below `ValueLimit`, and
the values a draw looks at are its input: neither SHA-256 nor BLS is modelled.
`RoundDraws` extends Rounds and Draw and applies the checks, ranges and numbers
of a draw to the tickets that any sequence of rollovers has brought together.

**PaymentModal.** Each handler is split at its awaits: a request is sent in one
step, served by the API in another, its answer taken in a third, and it may
fail or be lost anywhere between. `request` holds what is under way, each with
what its handler remembers: the poll the order it was sent for, the lookup that
it restores. Closing does not cancel requests, reloading does. The server is
its orders' statuses. Of the form it keeps source and number of tickets.

The modules meet in five places, each modelled on both sides: confirmPayments
is `ConfirmPayment` in PaymentOrders (order and payment), in Rounds (tickets)
and `Confirm` in ChainMonitor (which payments are deep and canonical); the
order statuses that PaymentOrders moves are `OrderMoves` in PaymentModal; what
closeRound and createDrawSnapshot decide is in Rounds, who calls them and when
in RoundLifecycle; a drawn round becomes a settlement that starts in `Init` of
Settlement; the lease is in RoundLifecycle, where it is claimed and released by
worker, and in Settlement, where a payout is at stake when it is lost.

## 3. Runs

Passing runs:

| run | bounds | what it shows |
|---|---|---|
| `settlement_exclusive` | 1 settlement, 2 calls in 2 processes, 8 steps as in the code, 4 faults, no lease lost by a running call | settled means paid (`SettledIsPaid`); a broadcast leg leaves statuses that lead to its confirmation (`BroadcastIsFollowedUp`); a completed payout is never written over (`CompletedIsFinal`); a blocked settlement signs nothing (`BlockedSignsNothing`); the payout completes (`PayoutCompletes`) |
| `settlement_overlapping` | 2 settlements, 2 calls, 2 steps, 1 lease lost by a running call | the invariant of the proofs (`IInv`), one transaction per leg, treasury after winner, a confirmed winner was paid, and the refinement of `Payout`, even when two calls work on one settlement |
| `rounds_punctual` | 3 orders of 1, 1 and 2 tickets, threshold 2, 5 days; hash values below 16 | pools equal ticket money, every ticket in exactly one live round, faithful snapshots, frozen ledgers, every round resolved, `Lottery`; every locked round passes the checks of its snapshot, and in its draw an order's chance is exactly its number of tickets (`DrawIsFair`) |
| `lifecycle_stuck` | 3 rounds, a limit of 2 per sweep, 1 round stuck for good, 1 worker, 2 overlapping calls on the newest round, 2 faults | no round is taken back a phase however late a call acts (`PhasesOnlyAdvance`); the stuck round keeps no other from its draw and settlement as long as such rounds are fewer than the limit (`OthersAreResolved`) |
| `modal_patient` | 2 orders and the identifier of a database that is gone, 2 sources, 2 requests in flight | the order to be paid is the one a reload restores (`SessionIsRestorable`), the last screen is true (`OutcomeIsTrue`), an identifier is dropped only for a decided order (`KeyIsKept`), who waits sees the outcome (`OutcomeIsShown`) |
| `orders_reserved` | 3 orders of 1 ticket, 2 transfers of 3 real amounts, 5 moments | no ambiguity, orders and payments agree, matching goes by digits (`MatchedByDigits`), amounts owned to the end of the cooldown, a renewed one too if the confirmation came before the first had ended (`ReservedAmountsAreOwned`), no order pending for ever, `TicketSale` |
| `monitor_overlapping` | 1 transfer, 2 scans, 4 blocks, chunks of 2, look-back 2, 2 confirmations, 1 reorganization of 1 block, lag 1, 1 death | nothing slips behind the cursor, no tickets for orphans, deep transfers are found and confirmed, `Clearing` |

Why these bounds suffice to meet the interesting cases. In Settlement two calls
are what the lease lets overlap, the second settlement adds competition for
nonces, and two steps already reach every branch of the loop.
`settlement_overlapping` has no faults and gives each call a process of its own,
as with two settlements the states are too many otherwise (with one fault TLC
does not finish in minutes): that `IInv`, `OneTransactionPerLeg`,
`TreasuryAfterWinner`, `WinnerConfirmedIsPaid` and the refinement also survive
crashes, lost answers and a lease released by an earlier call of the same
process is what `Settlement_proofs` shows, for every `MaxFaults` and `WorkerOf`,
not this run; `settlement_exclusive` has the faults. Three orders
fill two rounds and leave an underfilled one; five days hold a rollover of a
rollover. Three orders of one quantity use a code again, and two transfers are
a payment and a duplicate, or two late ones. Four blocks are the least with
a block that the look-back no longer reaches. In `ChainMonitor` look-back is
exactly reorganization plus lag, the tightest the assumption allows. In
RoundLifecycle one stuck round is one less than the limit, the most for which
nothing is held up (with a limit of 1, TLC finds a round that is never drawn:
a hazard of the code once fifty rounds are stuck), and the two faults let a call
die or lose its lease under another's feet. Two requests are a poll and the
answer to something older, two orders a purchase and the one after it. Of 16
hash values a draw of three tickets rejects the last, one of two or four none.
Deadlock is not checked in Rounds and PaymentOrders, whose time ends with the
horizon, in RoundLifecycle, which ends when all rounds are done, and in
PaymentModal, whose orders are finitely many; Settlement and ChainMonitor never
deadlock.

Runs that find a disagreement between the code and what the repository says of
it (quoted in `PROJECT.json`, "findings"):

| run | shows |
|---|---|
| `wrong_leg_confirmed` | a call that outlived its lease confirms the treasury leg with the winner's receipt |
| `nonce_collision` | two settlements of one sweep sign with the same nonce; the loser is never signed again |
| `rounds_out_of_order` | a round closed after its successor was drawn gives it tickets and money that no draw will see |
| `late_unmatched` | a transfer recorded between expiry and its sweep is unmatched for good |
| `reorg_unconfirmed` | a transaction mined again in another block is never confirmed |

Five more are recorded without a run of their own; the models exhibit them.

- A preflight that ends as `retryable` does not stop the signing of the winner
  leg (`Stops` in Settlement).
- After an early payment the identifier stays reserved when the amounts are
  free again, and createOrder fails (the ends of `identified` and `reserved` in
  PaymentOrders).
- `retryable()` takes integrity errors of the draw for transient ones and
  retries them for ever, and other failures at the very next sweep (`Fail` and
  `Record` in RoundLifecycle).
- Reopening the dialog while it restores an order sends a second lookup, whose
  late 404 drops the identifier of an order made meanwhile: `modal_patient` with
  `ReopensWhileRestoring = TRUE` violates `SessionIsRestorable` and `KeyIsKept`.
- An order confirmed after its first cooldown has ended gets a new
  `cooldown_until` (`postgres-repository.js:446`), but by then createOrder may
  have released its amounts and given them to another order (lines 392-394), and
  line 451 renews only reservations still active. A second transfer of such an
  amount is booked on the other order although the cooldown of the first still
  runs. `ReservedAmountsAreOwned` excepts these orders (`ConfirmedTooLate`);
  without that conjunct TLC finds it violated in `orders_reserved`.

Each property of a passing run has a mutant, an alternative definition that a
plausible bug would be (marked "the mutant" in the modules); the run finds the
property violated when it takes the definition's place.

### Fairness

- Settlement: a running call goes on; every sweep claims what it can (strong
  fairness, as leases come and go); abandoned leases run out; an operator who
  paused payouts resumes them; the chain mines. Faults are bounded, and
  `PayoutCompletes` excuses a reverted transaction, which the code leaves to
  an operator.
- Rounds: the sweep comes back every 15 seconds to each round that is due or
  undrawn. Order and payment are the customers' choice and have no fairness.
- PaymentOrders: time passes, and expirePending is the first thing every scan
  does, before any call that can fail (`payment-monitor.js:13`). That order is
  what justifies the fairness; the model has no remote calls, so it is an
  assumption of `PendingIsResolved` and not something the run would find broken.
- ChainMonitor: the timer starts scans for ever and a scan goes on. Blocks
  need not come: the properties speak of blocks that have.
- RoundLifecycle: weak fairness of time (midnight, leases and retry times that
  pass), of the sweep of every 15 seconds and of every call's next step. What
  fails, dies or is not yet there is bounded by `MaxFaults`, the stuck rounds
  excepted, which fail for ever.
- PaymentModal: the interval ticks (weak), and requests fail but not for ever
  (strong: they are served and their answers taken). The customer is free.

### Assumptions about the environment

- `ClosesInOrder` (Rounds): a day is closed before the next one. A sweep every
  15 s makes it so unless the scheduler is down or failing over two midnights;
  nothing in the code enforces it, and `rounds_out_of_order` shows what
  happens then.
- `MonitorAssumption`: reorganizations are shallower than the confirmations,
  and a reorganization with the lag of a node stays within the look-back
  (12 blocks). A scanner has run before, so that it has a cursor.
- `NoPaymentAssumption`, `NamesAssumption`: the values that stand for NULL are
  no values of the columns.
- `DigitsAssumption` (PaymentAmounts): identifiers are written with at most nine
  digits, none of them zero, behind a prefix within the decimals. `RealAmounts`
  (PaymentMatching): codes are the indices for which identifiers exist, and their
  amounts those of paymentAmountsFor.
- `MaxExpiries = 0` and calls in different processes in `settlement_exclusive`
  (`Exclusive` in the proofs): calls keep their lease, and no process works on
  one round twice. `Exclusive` says this by giving each call a process of its own
  (an injective `WorkerOf`). That asks for more than one call per process and
  round, but loses nothing: a lease belongs to one round, and calls on different
  rounds share none. The properties that survive their loss are those of
  `settlement_overlapping`; `wrong_leg_confirmed` shows one that does not.
- `~ReopensWhileRestoring` (PaymentModal): a customer who reopens the dialog
  waits until an earlier restoring request is answered. Nothing in the page
  enforces it; see the last finding above.

## 4. Theorems

All are proved for every value of the constants, from the assumptions the
modules name. TLC checked each formula first, in the run that lists it.

**Settlement_proofs.** `TypeCorrect` also carries `StepsLeft`, without which
the counter of the loop has no bound. The safety of the payout rests on one
invariant, `IInv`: the chain's n-th transaction is the persisted payload of its
leg with nonce n (`ChainHoldsPayloads`), a leg has a payload exactly in the
statuses after signing, the treasury has one only after the winner was
confirmed, calls carry the persisted payload through every remote call
(`CallsCarryPayloads`), and a call about to confirm holds a receipt
(`CallsConfirmPaid`). None of the promised properties is inductive without
these: a call that broadcasts knows only what it carries. From `IInv`
(theorem `Safe`) follow `PayoutOnce`, `WinnerBeforeTreasury`, `WinnerPaid`, and
`Refinement`: Settlement implements Payout, with leases that run out at any
time, any number of calls, processes and settlements.

**SettlementExclusive_proofs.** Under `Exclusive` at most one call is at work on
a settlement, since a running call holds the lease (`AloneThere`). The invariant
`ExInv`, kept together with `IInv`, says that the rows of settlement, legs and
round agree (`RowsAgree`) and that what a call acts on is still as it read it
(`CallKeepsUp`). A step writes to one settlement only, so each is proved by what
it does to these rows (`OneCallActs`); the leg in hand is the only open one
(`LegIsOpen`), by which confirmNextSettlementLeg confirms the one verified.
`SettlementsArePaid`, `BroadcastsAreFollowedUp`, `CompletedStays` and
`BlockedIsNotSigned` follow, for any number of settlements, calls, crashes,
lost answers, pauses and reverts.

**Rounds_proofs.** `TypeCorrect` (which contains that ticket numbers are
1, 2, 3, ... without gap or overlap) and `LedgersFreeze` need no assumption on
the order of closes. `Consistent` proves `IInv` under `ClosesInOrder`: links
are exactly the roll-overs, rounds are closed in order, and a round's pool is
the number of its direct tickets plus what was carried, which is the number of
its eligible ones. The step is CloseAndRollOver: the successor's chain grows by
the whole chain of the closed round, disjoint from its own tickets
(`RolledOverChains`, `DisjointCount`). `PoolsAreTicketMoney`,
`SnapshotsAreFaithful`, `TicketsCountOnce` and `Refinement` (Lottery) follow; the
last two need that chains of two live rounds never meet (`ChainsApart`), and
`TicketsCountOnce` also that no step leaves a ticket without a live round
(`NoneIsStranded`). `OneRangePerOrder` is for the draw: the tickets of an order
are one interval of numbers as long as its quantity, all in one round
(`OrdersHaveOneRange`), and the ticket count of a closed round is final
(`CountsAreFinal`).

**PaymentOrders_proofs.** `TypeCorrect`; `Consistent` for `IInv`: an active
reservation outlasts its order's cooldown, the one that a confirmation renews
too unless it came too late (`ReservationsLast`), no amount is
reserved twice, orders and payments tell one story (`LedgersAgree`).
`NothingIsAmbiguous` follows as two orders that matched an amount would both
have it reserved; `AmountsAreOwned` is an action property of the same
invariant, with the same exception (`ConfirmedTooLate`, a finding above); `BooksBalance` states `LedgersAgree` by itself; `Refinement` is that
of TicketSale. Up to here only that the exact amount is among those of its code
is assumed of the amounts.

Its second half is about the real amounts, for any number of decimals, digits
and codes. An amount is a multiple of the ticket price plus the number that the
identifier's digits write, spread over chosen positions with zeros elsewhere;
reading it back divides, takes the digits and drops the zeros. The lemmas follow
these steps: writing a numeral and taking its digits are inverse (`ReadBack`),
dropping zeros undoes any spreading (`SpreadReadsBack`), every index has exactly
one length of identifier (`EveryIndexHasALength`), and different indices have
different identifiers (`IdentifiersDiffer`). So `AmountsCarryIdentifiers` (an
amount says its quantity and identifier, wherever its zeros are),
`AmountsAreNeverShared` (no two codes or quantities have an amount in common),
`CanonicalIsAnAlias` (which is what the first half assumes of amounts) and
`FreeCodesAreUnused` (the query for a free code, which compares every alias, is
as good as comparing codes). With `BookedByAmount`, a part of `IInv`, by which
a booked payment has an amount its order reserved, `PaymentsSayTheirOrder` proves
`MatchedByDigits`: what a customer sent says whom it was booked on. These are
facts about recursive functions of numbers, proved without an induction theorem
that takes a predicate: what a function is on 0..n is a set with a least
counterexample (`LeastNatural`, `NaturalSteps`), and that the recursive
definition has a solution at all is shown by extending one from n - 1 to n
(`Recursion`).

**ChainMonitor_proofs.** The invariant (`Sound`) relates the chain, the cursor
and every scan under way: what a scan has fetched, has yet to record and will
save (`ScanIsSound`), the cursor never beyond the chain, a payment a true
sighting of its transfer (`PaymentsAreTrue`). What all this rests on is that
knowledge about deep blocks remains through any step, a reorganization included
(`KnowledgeRemains`): it changes only blocks above the depth `Shallow`. So
`CursorMissesNothing`: the look-back covers a reorganization and a node's lag
together, whatever scans overlap, die or save a cursor late; and
`ConfirmedStaysOnChain`. `Refinement` shows that ChainMonitor implements Clearing:
mining and shallow reorganizations leave buried transfers where they are
(`ChainSettles`), which is `KnowledgeRemains` again, and a confirmation that uses
an old head and the blocks read after it clears what is buried now
(`ConfirmedIsCanonical`).

**RoundLifecycle_proofs.** The invariant says that the rows of a round tell its
phase and that what a call has read is never ahead of it. `RoundsAdvance`: no
step goes back a phase, for any number of rounds, workers and calls, with
leases lost at any time; the one exception is named in the property, and
`CompletedStays` excludes it where calls do not overlap.

**Draw_proofs.** For all values: the committed beacon is published strictly after
the time of finalization, within one period of it (`CommittedBeaconIsAhead`);
there is a winning ticket (`WinningTicketExists`), each of them drawn by equally
many accepted values (`EveryTicketIsEquallyLikely`, by a bijection onto the
complete intervals); and `LegsAddUp`. `SoundRangesAreFair` goes on to the ranges:
if the checks of createDrawSnapshot pass, they are laid out without gap, each as
long as its order's quantity, so that the values that choose an order are as many
as its tickets times the complete intervals. `DrawsAreFair` proves `DrawIsFair` of
every locked round of Rounds: by `OneRangePerOrder` the ledger gives one entry per
order, sorted they pass the checks, and so their draw is fair, after any
rollovers. What a sequence of ranges adds up to is proved by its least
counterexample, as above.

**PaymentModal_proofs.** The invariant ties the screens to the session, the
session to the stored identifier, and each answer under way to what the order
has become since it was given: outcomes are final, so an answer can be old but
not wrong about them. `TypeCorrect`, `SessionRestorable`, `OutcomesAreTrue` and
`KeysAreKept` follow, all under `~ReopensWhileRestoring`.

Every safety property that a passing run checks is stated by a theorem. Only
model-checked are the liveness properties (`PayoutCompletes`,
`EveryRoundIsResolved`, `PendingIsResolved`, `DeepTransferIsRecorded`,
`DeepPaymentIsConfirmed`, `OthersAreResolved`, `OutcomeIsShown`), which are out of
the prover's reach: they rest on fairness and so on ENABLED.

## 5. What is not modelled

- Formatting, canonical JSON, hashes, signatures, BLS verification: their
  results are values. Recipients and gas of the legs, and in Settlement their
  amounts: a leg is its kind (the amounts are in Draw).
- The single-transfer payout intents (preparePayout, executePayout and
  confirmPayout on payout_intents): they run only with a repository that lacks
  the two-leg methods, which PostgresRepository has, and nothing calls
  reconcilePayout. A model would show behaviour no deployed path has.
- The rotation of endpoints in `rpc-client.js`: its effect, calls answered by
  different nodes or failing, is in ChainMonitor. The request limiter of the API
  only refuses requests, which PaymentModal has as requests that fail.
- Operational controls other than that for payouts: they make a transaction
  throw, and a transaction that throws is rolled back and is no step.
- Two browser tabs that share one localStorage: PaymentModal is one tab. The
  demonstration service of the page without an API.
- The rest of the page (`script.js`: countdown, lists, verification of a draw in
  the browser), configuration, signers, reporting, operator scripts, migrations:
  no state, a copy of state kept elsewhere, or a sequential run at start-up.
- A batch of confirmations is the sequence of its orders; in the code it is
  one transaction under the lock of the counter, so nothing comes between.
- The first start of a scanner without a cursor, and dropped transactions:
  listed under "hazards". Payouts paused between signing and broadcast are
  behaviours of Settlement about which no property is stated.

## 6. How the parts were chosen, and what could follow

The modules came in the order of what could go wrong unseen: first what moves
money or decides who owns it (Settlement, Rounds, PaymentOrders, ChainMonitor),
then what drives them (RoundLifecycle), what they compute (Draw), and what the
customer sees of it (PaymentModal). What the code would still allow:

1. Two tabs in PaymentModal: `pendingKey` shared, the rest of the state per tab.
2. The first start of the scanner, once the code or the runbook promises
   something about it.
3. Refinement of RoundLifecycle's payout steps by Settlement, with the lease as
   the shared variable; now both state what they assume of the other.
