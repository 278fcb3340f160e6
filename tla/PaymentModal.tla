---------------------------- MODULE PaymentModal ----------------------------
(***************************************************************************)
(* The page's purchase dialog (GetInModal) in one browser tab: the form,   *)
(* the payment details, the wait for the transfer and the outcome, with    *)
(* the requests it sends, the timers it starts and what it keeps in        *)
(* localStorage.  Every handler is split at its awaits: a request is sent  *)
(* in one step, served by the API in another, and its answer taken in a    *)
(* third, so that answers overtake one another and come when the customer  *)
(* is already elsewhere.  Leaving and reloading the page kills what is in  *)
(* flight.  The server is its orders' statuses, moved by the transactions  *)
(* of module PaymentOrders.                                                *)
(***************************************************************************)
EXTENDS Integers

CONSTANTS
    Orders,             \* bound: the orders the API may create, numbered in their
                        \* order
    OldKey,             \* an identifier of a database that has been replaced
    NoOrder,
    Sources,            \* ids of payment-sources.js
    DefaultSource,      \* 'other'
    MinimumTickets,     \* [Sources -> Nat]
    TicketLimit,        \* 1000 in validateOrderInput
    MaxTickets,         \* bound: what the customer dials at most
    Slots,              \* bound: requests in flight at once, as numbers
    ReopensWhileRestoring   \* whether the customer reopens the dialog while
                            \* an earlier restoring request is unanswered

ASSUME ModalAssumption ==
    /\ OldKey \notin Orders /\ NoOrder \notin Orders \cup {OldKey}
    /\ MinimumTickets \in [Sources -> Nat \ {0}] /\ DefaultSource \in Sources
    /\ MaxTickets \in Nat /\ MinimumTickets[DefaultSource] <= MaxTickets
    /\ Slots \subseteq Nat /\ Orders \subseteq Nat
    /\ ReopensWhileRestoring \in BOOLEAN

VARIABLES
    order,       \* orders.payment_status; "none" while there is no row
    pendingKey,  \* localStorage 'oneofus-pending-order'
    draft,       \* this.draft
    session,     \* this.session: its order
    step,        \* this.step
    content,     \* what the panel shows
    button,      \* CONTINUE of the form, and the requests its handlers await
    polling,     \* this.statusTimer is set
    dialog,      \* "hidden" (this.root.hidden), "open", or "closing" for the
                 \* 180 ms in which it is closed and still shown
    request      \* the requests in flight, by slot

screen == <<session, step, content, button, polling>>
vars == <<order, pendingKey, draft, screen, dialog, request>>

-----------------------------------------------------------------------------
Keys == Orders \cup {OldKey}
OrderStatus == {"pending", "payment_detected", "paid", "expired", "late_payment"}
Resolved == {"paid", "expired", "late_payment"}

\* Of the form, what the order depends on most: an invalid wallet disables the
\* button and is refused as too few tickets are.
Draft == [source : Sources, tickets : 1..MaxTickets]
\* (The mutant has no minimum to start from.)
DraftFromZero == [source |-> DefaultSource, tickets |-> 0]
NewDraft == [source |-> DefaultSource, tickets |-> MinimumTickets[DefaultSource]]

\* What CONTINUE asks of a draft, and what the API asks of a request.
Ready(d) == d.tickets >= MinimumTickets[d.source]
ValidateOrderInput(d) ==
    MinimumTickets[d.source] <= d.tickets /\ d.tickets <= TicketLimit

Idle == [kind |-> "idle"]
Create == [kind : {"create"}, draft : Draft]
Created == [kind : {"created"}, order : Orders] \cup [kind : {"refused"}]
Lookup == [kind : {"restore", "poll"}, order : Keys,
           answer : {"none", "missing", "unresolved"} \cup OrderStatus]
LookUp(kind, k) == [kind |-> kind, order |-> k, answer |-> "none"]

\* The next request takes the lowest free slot.
Free(r) == request[r] = Idle /\ \A q \in Slots : q < r => request[q] # Idle

NewButton(d) == [enabled |-> Ready(d), awaits |-> {}]
NoButton == [enabled |-> FALSE, awaits |-> {}]

TypeOK ==
    /\ order \in [Orders -> OrderStatus \cup {"none"}]
    /\ pendingKey \in Keys \cup {NoOrder}
    /\ draft \in Draft
    /\ session \in Keys \cup {NoOrder} /\ step \in 1..4
    /\ content \in {"form", "details", "waiting", "restoring", "failed",
                    "success", "expired", "late"}
    /\ button \in [enabled : BOOLEAN, awaits : SUBSET Slots]
    /\ polling \in BOOLEAN /\ dialog \in {"hidden", "open", "closing"}
    /\ request \in [Slots -> Create \cup Created \cup Lookup \cup {Idle}]

\* The page is loaded for the first time, or after a visit that left an order
\* of a database since replaced.
Init ==
    /\ order = [o \in Orders |-> "none"]
    /\ pendingKey \in {NoOrder, OldKey} /\ draft = NewDraft
    /\ session = NoOrder /\ step = 1 /\ content = "form"
    /\ button = NewButton(draft) /\ polling = FALSE
    /\ dialog = "hidden"
    /\ request = [r \in Slots |-> Idle]

-----------------------------------------------------------------------------
(* The screens.                                                            *)

RenderStepOne(d) == step' = 1 /\ content' = "form" /\ button' = NewButton(d)

\* The details of the session's order.
RenderStepTwo == step' = 2 /\ content' = "details" /\ button' = NoButton /\ polling' = FALSE

\* Polls at once and from then on.  (The mutant polls once.)
RenderWaitingOnce(r, k) ==
    /\ step' = 3 /\ content' = "waiting" /\ button' = NoButton /\ polling' = FALSE
    /\ request' = [request EXCEPT ![r] = LookUp("poll", k)]
RenderWaiting(r, k) ==
    /\ step' = 3 /\ content' = "waiting" /\ button' = NoButton /\ polling' = TRUE
    /\ request' = [request EXCEPT ![r] = LookUp("poll", k)]

\* renderSuccess and renderExpired.  (The mutant takes any outcome for paid.)
OutcomeScreenPaid(status) == "success"
OutcomeScreen(status) ==
    CASE status = "paid" -> "success"
      [] status = "late_payment" -> "late"
      [] OTHER -> "expired"

RenderOutcome(status) ==
    /\ pendingKey' = NoOrder
    /\ polling' = FALSE /\ step' = 4 /\ button' = NoButton
    /\ content' = OutcomeScreen(status)

StartNewPurchase ==
    /\ polling' = FALSE /\ session' = NoOrder
    /\ draft' = NewDraft /\ RenderStepOne(NewDraft)

-----------------------------------------------------------------------------
(* The customer.  The dialog covers the page, so that the button which     *)
(* opens it can be reached only while it is hidden.                        *)

Shows(c) == dialog # "hidden" /\ content = c

\* The form: tickets and source; each change renders the form again.
Edits(d) ==
    {[draft EXCEPT !.tickets = t] :
        t \in {n \in {d.tickets - 1, d.tickets + 1} : 1 <= n /\ n <= MaxTickets}}
    \cup {[draft EXCEPT !.source = s] : s \in Sources}

Edit ==
    /\ Shows("form")
    /\ \E d \in Edits(draft) \ {draft} :
          draft' = d /\ button' = [button EXCEPT !.enabled = Ready(d)]
    /\ UNCHANGED <<order, pendingKey, session, step, content, polling, dialog, request>>

\* CONTINUE on the form sends the order.
Continue(r) ==
    /\ Shows("form") /\ button.enabled /\ Free(r)
    /\ button' = [enabled |-> FALSE, awaits |-> button.awaits \cup {r}]
    /\ request' = [request EXCEPT ![r] =
                      [kind |-> "create", draft |-> draft]]
    /\ UNCHANGED <<order, pendingKey, draft, session, step, content, polling, dialog>>

\* CONTINUE on the details.
Sent(r) ==
    /\ Shows("details") /\ Free(r)
    /\ RenderWaiting(r, session)
    /\ UNCHANGED <<order, pendingKey, draft, session, dialog>>

Back ==
    /\ \/ Shows("details") /\ RenderStepOne(draft) /\ UNCHANGED polling
       \/ Shows("waiting") /\ RenderStepTwo
    /\ UNCHANGED <<order, pendingKey, draft, session, dialog, request>>

Restart ==
    /\ \E c \in {"expired", "late"} : Shows(c)
    /\ StartNewPurchase
    /\ UNCHANGED <<order, pendingKey, dialog, request>>

\* The close button, the backdrop, Escape, and DONE.
Close ==
    /\ dialog = "open" /\ dialog' = "closing"
    /\ polling' = FALSE
    /\ UNCHANGED <<order, pendingKey, draft, session, step, content, button, request>>

CloseTimer ==
    /\ dialog = "closing" /\ dialog' = "hidden"
    /\ UNCHANGED <<order, pendingKey, draft, screen, request>>

Restoring == \E r \in Slots : request[r].kind = "restore"

Open(r) ==
    /\ dialog = "hidden" /\ dialog' = "open" /\ Free(r)
    /\ ReopensWhileRestoring \/ ~Restoring
    /\ IF step = 4 THEN draft' = NewDraft /\ session' = NoOrder
                   ELSE UNCHANGED <<draft, session>>
    /\ \/ step = 3 /\ RenderWaiting(r, session)
       \/ /\ step # 3 /\ session' = NoOrder /\ pendingKey # NoOrder
          /\ step' = 1 /\ content' = "restoring" /\ button' = NoButton
          /\ request' = [request EXCEPT ![r] = LookUp("restore", pendingKey)]
          /\ UNCHANGED polling
       \/ /\ step # 3 /\ (session' # NoOrder \/ pendingKey = NoOrder)
          /\ IF step = 4 THEN RenderStepOne(draft') ELSE UNCHANGED <<step, content, button>>
          /\ UNCHANGED <<polling, request>>
    /\ UNCHANGED <<order, pendingKey>>

PollTimer(r) ==
    /\ polling /\ session # NoOrder /\ step = 3 /\ Free(r)
    /\ request' = [request EXCEPT ![r] = LookUp("poll", session)]
    /\ UNCHANGED <<order, pendingKey, draft, screen, dialog>>

\* The page is loaded again: localStorage remains.
Reload ==
    /\ draft' = NewDraft
    /\ session' = NoOrder /\ RenderStepOne(NewDraft) /\ polling' = FALSE
    /\ dialog' = "hidden"
    /\ request' = [r \in Slots |-> Idle]
    /\ UNCHANGED <<order, pendingKey>>

-----------------------------------------------------------------------------
(* The API and what happens to orders.                                     *)

ServeOrder(r) ==
    /\ request[r].kind = "create"
    /\ \/ /\ ValidateOrderInput(request[r].draft)
          /\ \E o \in Orders :
                /\ order[o] = "none" /\ \A p \in Orders : p < o => order[p] # "none"
                /\ order' = [order EXCEPT ![o] = "pending"]
                /\ request' = [request EXCEPT ![r] = [kind |-> "created", order |-> o]]
       \/ \* refused, or no payment code is left
          /\ ~ValidateOrderInput(request[r].draft) \/ \A o \in Orders : order[o] # "none"
          /\ request' = [request EXCEPT ![r] = [kind |-> "refused"]]
          /\ UNCHANGED order
    /\ UNCHANGED <<pendingKey, draft, screen, dialog>>

\* expirePending, for the orders that are due by now.
ExpirePending ==
    \E due \in SUBSET {o \in Orders : order[o] = "pending"} :
        order' = [o \in Orders |-> IF o \in due THEN "expired" ELSE order[o]]

StatusOf(k, orders) == IF k \in Orders /\ orders[k] # "none" THEN orders[k] ELSE "missing"

\* A poll tells no answer but an outcome from the others.
Answer(kind, status) ==
    IF kind = "poll" /\ status \notin Resolved THEN "unresolved" ELSE status

ServeLookup(r) ==
    /\ request[r].kind \in {"restore", "poll"} /\ request[r].answer = "none"
    /\ ExpirePending
    /\ request' = [request EXCEPT ![r].answer =
                      Answer(request[r].kind, StatusOf(request[r].order, order'))]
    /\ UNCHANGED <<pendingKey, draft, screen, dialog>>

\* What the monitor makes of an order.
Following(status) ==
    CASE status = "pending" -> {"payment_detected", "expired"}
      [] status = "payment_detected" -> {"paid"}
      [] status = "expired" -> {"late_payment"}
      [] OTHER -> {}

OrderMoves(o) ==
    /\ \E status \in Following(order[o]) : order' = [order EXCEPT ![o] = status]
    /\ UNCHANGED <<pendingKey, draft, screen, dialog, request>>

-----------------------------------------------------------------------------
(* Answers.                                                                *)

Release(r) == request' = [request EXCEPT ![r] = Idle]

\* The handler whose form is still shown enables its button again.
CreateFails(r) ==
    /\ button' = IF r \in button.awaits
                 THEN [enabled |-> TRUE, awaits |-> button.awaits \ {r}] ELSE button
    /\ UNCHANGED <<pendingKey, session, step, content, polling>>

\* (The mutant keeps the order in the page alone.)
RememberInPage(o) == session' = o /\ UNCHANGED pendingKey
Remember(o) == session' = o /\ pendingKey' = o

TakeCreated(r) ==
    /\ \/ /\ request[r].kind = "created"
          /\ Remember(request[r].order) /\ RenderStepTwo
       \/ request[r].kind = "refused" /\ CreateFails(r)
    /\ Release(r)
    /\ UNCHANGED <<order, draft, dialog>>

TakeRestored(r) ==
    LET k == request[r].order  status == request[r].answer IN
    /\ request[r].kind = "restore" /\ status # "none"
    /\ \/ /\ status = "missing"
          /\ pendingKey' = NoOrder /\ RenderStepOne(draft)
          /\ Release(r) /\ UNCHANGED <<session, polling>>
       \/ /\ status \in Resolved
          /\ session' = k /\ RenderOutcome(status) /\ Release(r)
       \/ /\ status = "payment_detected"
          /\ session' = k /\ RenderWaiting(r, k) /\ UNCHANGED pendingKey
       \/ /\ status = "pending"
          /\ session' = k /\ RenderStepTwo /\ Release(r) /\ UNCHANGED pendingKey
    /\ UNCHANGED <<order, draft, dialog>>

\* Whether the answer to a poll is still wanted.  (The mutant does not ask
\* which order it is about.)
WantedByAny(k) == step = 3 /\ dialog # "hidden"
Wanted(k) == session = k /\ step = 3 /\ dialog # "hidden"

TakePolled(r) ==
    LET k == request[r].order  status == request[r].answer IN
    /\ request[r].kind = "poll" /\ status # "none"
    /\ IF Wanted(k) /\ status \in Resolved
       THEN session' = k /\ RenderOutcome(status)
       ELSE UNCHANGED <<pendingKey, screen>>
    /\ Release(r)
    /\ UNCHANGED <<order, draft, dialog>>

\* A request fails, before or after the API has served it.
Fail(r) ==
    /\ \/ request[r].kind \in {"create", "created"} /\ CreateFails(r)
       \/ /\ request[r].kind = "restore"
          /\ content' = "failed" /\ button' = NoButton
          /\ UNCHANGED <<pendingKey, session, step, polling>>
       \/ request[r].kind = "poll" /\ UNCHANGED <<pendingKey, screen>>
    /\ Release(r)
    /\ UNCHANGED <<order, draft, dialog>>

Served(r) == ServeOrder(r) \/ ServeLookup(r)
Taken(r) == TakeCreated(r) \/ TakeRestored(r) \/ TakePolled(r)

Next ==
    \/ Edit \/ Back \/ Restart \/ Close \/ CloseTimer \/ Reload
    \/ \E o \in Orders : OrderMoves(o)
    \/ \E r \in Slots :
          \/ Continue(r) \/ Sent(r) \/ Open(r) \/ PollTimer(r)
          \/ Served(r) \/ Taken(r) \/ Fail(r)

Spec == Init /\ [][Next]_vars

\* The timer ticks; requests fail, but not for ever.  What the customer does,
\* and what becomes of an order, is up to them.
Fairness ==
    \A r \in Slots : WF_vars(PollTimer(r)) /\ SF_vars(Served(r)) /\ SF_vars(Taken(r))
FairSpec == Spec /\ Fairness

-----------------------------------------------------------------------------
(* Properties.                                                             *)

\* localStorage keeps the identifier of an order until its outcome is known:
\* it is removed only for an order that is paid, expired or gone.
KeyIsKept ==
    [][pendingKey # NoOrder /\ pendingKey' = NoOrder =>
          StatusOf(pendingKey, order) \in Resolved \cup {"missing"}]_vars

\* The order the customer is asked to pay is the one that a reload restores.
SessionIsRestorable == session # NoOrder /\ step # 4 => pendingKey = session

\* The last screen says what became of the session's order: it is success
\* exactly for a paid order.
OutcomeIsTrue ==
    /\ content = "success" => StatusOf(session, order) = "paid"
    /\ content = "expired" => StatusOf(session, order) \in {"expired", "late_payment"}
    /\ content = "late" => StatusOf(session, order) = "late_payment"

\* A customer who waits with the dialog open sees the outcome of the order,
\* although single polls fail.
WaitsFor(o) == session = o /\ step = 3 /\ dialog = "open"
OutcomeIsShown ==
    \A o \in Orders : WaitsFor(o) /\ order[o] \in Resolved ~> ~WaitsFor(o)
=============================================================================
