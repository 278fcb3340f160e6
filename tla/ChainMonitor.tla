---------------------------- MODULE ChainMonitor ----------------------------
(***************************************************************************)
(* The payment monitor: a scan asks a node for the head, reads the cursor, *)
(* fetches the transfers of the blocks from a little before the cursor up  *)
(* to the head in chunks, records each of them, moves the cursor after     *)
(* each chunk, and confirms the payments that are deep enough and whose    *)
(* block is still the canonical one.                                       *)
(*                                                                         *)
(* Every step of a scan is one remote call or one committed statement;     *)
(* between two of them the chain grows, loses its newest blocks to a       *)
(* reorganization, or another scan runs: scans are started by a timer that *)
(* does not wait for the last one.  A scan dies with its first error, or   *)
(* with the process.  Every transfer here pays an order of its own in      *)
(* time; what else a transfer can be is the subject of PaymentOrders.      *)
(***************************************************************************)
EXTENDS Integers, Sequences, FiniteSets

CONSTANTS
    Transfers,      \* transactions that pay the receiving address
    Scans,          \* scans that may run at once
    Lookback,       \* PAYMENT_SCAN_LOOKBACK_BLOCKS: 12
    Confirmations,  \* PAYMENT_CONFIRMATIONS: 3
    MaxBlocks,      \* scanMaxBlocks: 500
    Shallow,        \* environment: the deepest reorganization
    MaxLag,         \* environment: blocks that a node which answers is behind
    Height,         \* bound: the chain's last block
    MaxReorgs,      \* bound: reorganizations
    MaxFailures,    \* bound: scans that die
    NoPayment

ASSUME MonitorAssumption ==
    /\ Lookback \in Nat /\ Confirmations \in Nat \ {0} /\ MaxBlocks \in Nat \ {0}
    /\ Shallow \in Nat /\ MaxLag \in Nat
    /\ Shallow < Confirmations /\ Shallow + MaxLag <= Lookback
    /\ Height \in Nat /\ MaxReorgs \in Nat /\ MaxFailures \in Nat

VARIABLES
    chain,     \* the canonical chain: the hashes of blocks 1, 2, ...
    place,     \* the block a transfer is in; 0 while it is in none
    reorgs,    \* reorganizations so far, which name the hashes they make
    failures,  \* scans that died so far
    cursor,    \* scanner_state.last_processed_block
    payment,   \* payments: the block and hash a transfer was first seen in
    scan       \* the local state of every scan

chainVars == <<chain, place, reorgs>>
vars == <<chainVars, failures, cursor, payment, scan>>

Hashes == 0..MaxReorgs
Log == [tx : Transfers, block : 1..Height, hash : Hashes]

Payment == [block : 1..Height, hash : Hashes, status : {"payment_detected", "confirmed"}]

ASSUME NoPaymentAssumption == NoPayment \notin Payment

Idle == [pc |-> "idle", head |-> 0, from |-> 0, logs |-> {}, canonical |-> <<>>]

TypeOK ==
    /\ chain \in Seq(Hashes) /\ Len(chain) <= Height
    /\ place \in [Transfers -> 0..Len(chain)]
    /\ reorgs \in 0..MaxReorgs /\ failures \in 0..MaxFailures
    /\ cursor \in 0..Height
    /\ payment \in [Transfers -> Payment \cup {NoPayment}]
    /\ \A s \in Scans :
          /\ scan[s].pc \in {"idle", "cursor", "logs", "record", "blocks", "confirm"}
          /\ scan[s].head \in 0..Height /\ scan[s].from \in 0..(Height + 1)
          /\ scan[s].logs \subseteq Log
          /\ DOMAIN scan[s].canonical \subseteq 1..Height

\* A scanner that has run before: its cursor is at the block before the first.
Init ==
    /\ chain = <<>> /\ place = [t \in Transfers |-> 0]
    /\ reorgs = 0 /\ failures = 0
    /\ cursor = 0
    /\ payment = [t \in Transfers |-> NoPayment]
    /\ scan = [s \in Scans |-> Idle]

-----------------------------------------------------------------------------
(* The chain.                                                              *)

\* A block is added, with any of the transfers that wait for one.
Mine ==
    /\ Len(chain) < Height
    /\ chain' = Append(chain, reorgs)
    /\ \E included \in SUBSET {t \in Transfers : place[t] = 0} :
          place' = [t \in Transfers |-> IF t \in included THEN Len(chain) + 1 ELSE place[t]]
    /\ UNCHANGED <<reorgs, failures, cursor, payment, scan>>

\* The newest blocks are replaced: a transfer they held is in another of the
\* new blocks, or waits again.
Reorganize(depth) ==
    LET kept == Len(chain) - depth
        dropped == {t \in Transfers : place[t] > kept}
    IN /\ reorgs < MaxReorgs /\ kept >= 0
       /\ reorgs' = reorgs + 1
       /\ chain' = [b \in 1..Len(chain) |-> IF b <= kept THEN chain[b] ELSE reorgs + 1]
       /\ \E again \in [dropped -> {0} \cup (kept + 1)..Len(chain)] :
             place' = [t \in Transfers |-> IF t \in dropped THEN again[t] ELSE place[t]]
       /\ UNCHANGED <<failures, cursor, payment, scan>>

-----------------------------------------------------------------------------
(* A scan.                                                                 *)

At(s, pc) == scan[s].pc = pc

\* expirePending, then eth_blockNumber.
Begin(s) ==
    /\ At(s, "idle")
    /\ scan' = [scan EXCEPT ![s].pc = "cursor", ![s].head = Len(chain)]
    /\ UNCHANGED <<chainVars, failures, cursor, payment>>

\* The first block to look at again.  (The mutants start after the cursor, or
\* below the first block.)
FromAfter == cursor + 1
FromBelow == cursor - Lookback + 1
From == IF cursor >= Lookback THEN cursor - Lookback + 1 ELSE 0

ReadCursor(s) ==
    /\ At(s, "cursor")
    /\ scan' = [scan EXCEPT ![s].pc = "logs", ![s].from = From]
    /\ UNCHANGED <<chainVars, failures, cursor, payment>>

\* The last block of the chunk.
ChunkTo(s) == IF scan[s].from + MaxBlocks - 1 < scan[s].head
              THEN scan[s].from + MaxBlocks - 1 ELSE scan[s].head

\* eth_getLogs for a chunk.  The node that answers need not be the one that told
\* the head (rpc-client.js fails over), and may not have the newest blocks yet.
LogsIn(blocks) ==
    {[tx |-> t, block |-> place[t], hash |-> chain[place[t]]] :
        t \in {u \in Transfers : place[u] > 0 /\ place[u] \in blocks}}

FetchLogs(s) ==
    /\ At(s, "logs") /\ scan[s].from <= scan[s].head
    /\ \E lag \in 0..MaxLag :
          scan' = [scan EXCEPT ![s].pc = "record",
                      ![s].logs = LogsIn((scan[s].from..ChunkTo(s)) \cap 0..(Len(chain) - lag))]
    /\ UNCHANGED <<chainVars, failures, cursor, payment>>

\* recordTransfer: a hash on record is left alone, with the block it had.
Record(s) ==
    /\ At(s, "record")
    /\ \E log \in scan[s].logs :
          /\ payment' = IF payment[log.tx] # NoPayment THEN payment
                        ELSE [payment EXCEPT ![log.tx] =
                                [block |-> log.block, hash |-> log.hash,
                                 status |-> "payment_detected"]]
          /\ scan' = [scan EXCEPT ![s].logs = @ \ {log}]
    /\ UNCHANGED <<chainVars, failures, cursor>>

\* What setScannerBlock saves.  (The mutant saves the head with every chunk.)
SavedHead(s) == scan[s].head
Saved(s) == ChunkTo(s)

SaveCursor(s) ==
    /\ At(s, "record") /\ scan[s].logs = {}
    /\ cursor' = Saved(s)
    /\ scan' = [scan EXCEPT ![s].pc = "logs", ![s].from = ChunkTo(s) + 1]
    /\ UNCHANGED <<chainVars, failures, payment>>

\* Deep enough for the head the scan began with.  (The mutants are off by one.)
DeepTooEarly(t, head) == head - payment[t].block + 2 >= Confirmations
DeepTooLate(t, head) == head - payment[t].block >= Confirmations
Deep(t, head) == head - payment[t].block + 1 >= Confirmations

Confirmable(head) ==
    {t \in Transfers : payment[t] # NoPayment /\ payment[t].status = "payment_detected"
                         /\ Deep(t, head)}

\* pendingPaymentBlocks
ReadPending(s) ==
    /\ At(s, "logs") /\ scan[s].from > scan[s].head
    /\ scan' = [scan EXCEPT ![s].pc = "blocks",
                   ![s].canonical = [b \in {payment[t].block : t \in Confirmable(scan[s].head)} |-> 0]]
    /\ UNCHANGED <<chainVars, failures, cursor, payment>>

\* eth_getBlockByNumber for each of them.
FetchBlocks(s) ==
    /\ At(s, "blocks")
    /\ scan' = [scan EXCEPT ![s].pc = "confirm",
                            ![s].canonical = [b \in DOMAIN @ |-> chain[b]]]
    /\ UNCHANGED <<chainVars, failures, cursor, payment>>

\* The block the payment was seen in is the canonical one.  (The mutant only
\* asks whether it was looked up.)
LookedUp(t, canonical) == payment[t].block \in DOMAIN canonical
Canonical(t, canonical) ==
    payment[t].block \in DOMAIN canonical /\ canonical[payment[t].block] = payment[t].hash

\* confirmPayments, which ends the scan.
Confirm(s) ==
    /\ At(s, "confirm")
    /\ payment' = [t \in Transfers |->
            IF t \in Confirmable(scan[s].head) /\ Canonical(t, scan[s].canonical)
            THEN [payment[t] EXCEPT !.status = "confirmed"] ELSE payment[t]]
    /\ scan' = [scan EXCEPT ![s] = Idle]
    /\ UNCHANGED <<chainVars, failures, cursor>>

\* A call fails, or the process dies.
Fail(s) ==
    /\ ~At(s, "idle") /\ failures < MaxFailures
    /\ failures' = failures + 1
    /\ scan' = [scan EXCEPT ![s] = Idle]
    /\ UNCHANGED <<chainVars, cursor, payment>>

Step(s) ==
    \/ Begin(s) \/ ReadCursor(s)
    \/ FetchLogs(s) \/ Record(s) \/ SaveCursor(s)
    \/ ReadPending(s) \/ FetchBlocks(s) \/ Confirm(s)

Next ==
    \/ Mine
    \/ \E depth \in 1..Shallow : Reorganize(depth)
    \/ \E s \in Scans : Step(s) \/ Fail(s)

\* The timer goes on starting scans, a scan goes on, and the nodes do not fail
\* for ever.
Fairness == \A s \in Scans : WF_vars(Step(s))

Spec == Init /\ [][Next]_vars
FairSpec == Spec /\ Fairness

-----------------------------------------------------------------------------
(* Properties.                                                             *)

\* No tickets are issued for money that is not on the chain: a confirmed
\* payment is in the canonical chain, in the block it was recorded with,
\* whatever was reorganized between its detection, the check of its block and
\* its confirmation.
NoTicketsForOrphans ==
    \A t \in Transfers :
        payment[t] # NoPayment /\ payment[t].status = "confirmed" =>
            /\ place[t] = payment[t].block
            /\ chain[place[t]] = payment[t].hash

\* What is behind the blocks that are looked at again is never looked at again:
\* every transfer there is on record, whichever scans died, overtook each other
\* or moved the cursor back, and whatever the chain did meanwhile.
NothingBehindIsMissed ==
    \A t \in Transfers : place[t] \in 1..(cursor - Lookback) => payment[t] # NoPayment

\* A scan asks for the head, for the pending blocks and for their hashes one after
\* the other, and confirms later still: it clears transfers as if all of this were
\* one moment, and never one that a reorganization can take out of its block.
SightedBlock == [t \in Transfers |-> IF payment[t] = NoPayment THEN 0 ELSE payment[t].block]
ConfirmedTransfers ==
    {t \in Transfers : payment[t] # NoPayment /\ payment[t].status = "confirmed"}
Promise == INSTANCE Clearing
    WITH height <- Len(chain), sighted <- SightedBlock, cleared <- ConfirmedTransfers
KeepsPromise == Promise!Spec

\* A transfer that is deep enough is found, if scans were interrupted too.
DeepTransferIsRecorded ==
    \A t \in Transfers :
        place[t] > 0 /\ Len(chain) - place[t] + 1 >= Confirmations ~> payment[t] # NoPayment

\* A payment is confirmed once it is deep enough in the block it was seen in.
DeepPaymentIsConfirmed ==
    \A t \in Transfers :
        /\ payment[t] # NoPayment /\ place[t] = payment[t].block
        /\ chain[place[t]] = payment[t].hash
        /\ Len(chain) - place[t] + 1 >= Confirmations
        ~> payment[t] # NoPayment /\ payment[t].status = "confirmed"

\* What the comment on scan says (payment-monitor.js:14-15): rescanning covers
\* shallow reorganizations.  So a transfer on record that is deep in the chain
\* is confirmed, in whichever block it ended up.
ReorganizedPaymentIsConfirmed ==
    \A t \in Transfers :
        /\ payment[t] # NoPayment /\ place[t] > 0
        /\ Len(chain) - place[t] + 1 >= Confirmations
        ~> payment[t] # NoPayment /\ payment[t].status = "confirmed"
=============================================================================
