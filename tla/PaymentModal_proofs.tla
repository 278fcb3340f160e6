------------------------ MODULE PaymentModal_proofs ------------------------
(***************************************************************************)
(* Proofs about PaymentModal, for any orders, sources and limits and any   *)
(* number of requests in flight, under the one assumption that a customer  *)
(* waits for the answer to a restoring request before reopening the        *)
(* dialog: what the page shows and keeps is always that of one order.      *)
(***************************************************************************)
EXTENDS PaymentModal, TLAPS

-----------------------------------------------------------------------------
(* The inductive invariant, for customers who wait for a restoring request. *)

Outcomes == {"success", "expired", "late"}

\* What is shown fits the step, and there is an order to show.
ScreensAgree ==
    /\ step = 1 <=> content \in {"form", "restoring", "failed"}
    /\ step = 2 <=> content = "details"
    /\ step = 3 <=> content = "waiting"
    /\ step = 4 <=> content \in Outcomes
    /\ step # 1 => session # NoOrder

\* The stored key is the session's, until its outcome is shown.
KeysAgree == IF step = 4 THEN pendingKey = NoOrder
             ELSE session # NoOrder => pendingKey = session

\* A request that restores an order restores the stored one, alone, and the page
\* shows nothing else meanwhile.
RestoresAreAlone ==
    \A r \in Slots : request[r].kind = "restore" =>
          /\ session = NoOrder /\ pendingKey = request[r].order /\ content = "restoring"
          /\ \A q \in Slots : request[q].kind = "restore" => q = r

\* As long as the stored order is not restored, no order is made.
KeyIsRestoredFirst ==
    session = NoOrder /\ pendingKey # NoOrder =>
        /\ \A r \in Slots : request[r].kind \notin {"create", "created"}
        /\ content = "form" => dialog = "hidden"

\* Every key that is held somewhere is that of an order which exists, or of one
\* that never will.
Exists(k) == k \in Orders => order[k] # "none"
KeysExist ==
    /\ Exists(pendingKey) /\ Exists(session)
    /\ \A r \in Slots : request[r].kind \in {"created", "restore", "poll"} =>
                            Exists(request[r].order)

\* An answer is still true of its order when it arrives, for what it decides.
StillTrue(status, k) ==
    /\ status = "missing" => k \notin Orders
    /\ status = "paid" => StatusOf(k, order) = "paid"
    /\ status = "late_payment" => StatusOf(k, order) = "late_payment"
    /\ status = "expired" => StatusOf(k, order) \in {"expired", "late_payment"}
AnswersAreTrue ==
    \A r \in Slots : request[r].kind \in {"restore", "poll"} =>
                         StillTrue(request[r].answer, request[r].order)

IInv == /\ TypeOK /\ ScreensAgree /\ KeysAgree /\ RestoresAreAlone /\ KeyIsRestoredFirst
        /\ KeysExist /\ AnswersAreTrue /\ OutcomeIsTrue

-----------------------------------------------------------------------------
(* Requests.                                                               *)

Requests == Create \cup Created \cup Lookup \cup {Idle}

LEMMA Names ==
    /\ NoOrder \notin Orders /\ NoOrder \notin Keys /\ OldKey \notin Orders
    /\ OldKey \in Keys /\ Orders \subseteq Keys
    BY ModalAssumption DEF Keys

\* What a request is made of, by its kind.
LEMMA RequestKinds ==
    ASSUME NEW q \in Requests
    PROVE  /\ q.kind \in {"idle", "create", "created", "refused", "restore", "poll"}
           /\ q.kind = "idle" => q = Idle
           /\ q.kind = "create" => q \in Create
           /\ q.kind = "created" => q.order \in Orders
           /\ q.kind \in {"restore", "poll"} => q \in Lookup
<1>1. CASE q \in Create
    BY <1>1 DEF Create
<1>2. CASE q \in Created
    BY <1>2 DEF Created
<1>3. CASE q \in Lookup
    BY <1>3 DEF Lookup
<1>4. CASE q = Idle
    BY <1>4 DEF Idle
<1> QED
    BY <1>1, <1>2, <1>3, <1>4 DEF Requests

LEMMA LookupFields ==
    ASSUME NEW q \in Lookup
    PROVE  /\ q.kind \in {"restore", "poll"} /\ q.order \in Keys
           /\ q.answer \in {"none", "missing", "unresolved"} \cup OrderStatus
    BY DEF Lookup

LEMMA RequestTypes ==
    ASSUME TypeOK
    PROVE  request \in [Slots -> Requests]
    BY DEF TypeOK, Requests

\* One slot gets a new content.
LEMMA SlotChanges ==
    ASSUME TypeOK, NEW r \in Slots, NEW q \in Requests,
           request' = [request EXCEPT ![r] = q]
    PROVE  /\ request' \in [Slots -> Requests]
           /\ request'[r] = q /\ \A p \in Slots \ {r} : request'[p] = request[p]
    BY RequestTypes

LEMMA LookUps ==
    ASSUME NEW kind \in {"restore", "poll"}, NEW k \in Keys
    PROVE  /\ LookUp(kind, k) \in Requests
           /\ LookUp(kind, k).kind = kind /\ LookUp(kind, k).order = k
           /\ LookUp(kind, k).answer = "none"
    BY DEF LookUp, Lookup, Requests

\* An answer is put into a request.
LEMMA Answers ==
    ASSUME NEW q \in Lookup, NEW status \in {"missing"} \cup OrderStatus
    PROVE  /\ [q EXCEPT !.answer = Answer(q.kind, status)] \in Requests
           /\ [q EXCEPT !.answer = Answer(q.kind, status)].kind = q.kind
           /\ [q EXCEPT !.answer = Answer(q.kind, status)].order = q.order
           /\ [q EXCEPT !.answer = Answer(q.kind, status)].answer = Answer(q.kind, status)
<1>1. Answer(q.kind, status) \in {"none", "missing", "unresolved"} \cup OrderStatus
    BY DEF Answer
<1>2. [q EXCEPT !.answer = Answer(q.kind, status)] \in Lookup
    BY <1>1 DEF Lookup
<1> QED
    BY <1>2 DEF Lookup, Requests

-----------------------------------------------------------------------------
(* Orders only move on.                                                    *)

OrderMovesOn(o) ==
    \/ order'[o] = order[o]
    \/ order[o] = "none" /\ order'[o] = "pending"
    \/ order'[o] \in Following(order[o])

\* What is kept, whatever moves on.
TruthsRemain ==
    /\ order' \in [Orders -> OrderStatus \cup {"none"}]
    /\ \A k : Exists(k) => Exists(k)'
    /\ \A status, k : StillTrue(status, k) => StillTrue(status, k)'

LEMMA MovesKeepTruths ==
    ASSUME TypeOK, order' \in [Orders -> OrderStatus \cup {"none"}],
           \A o \in Orders : OrderMovesOn(o)
    PROVE  TruthsRemain
<1>1. ASSUME NEW o \in Orders
      PROVE  /\ order[o] # "none" => order'[o] # "none"
             /\ order[o] = "paid" => order'[o] = "paid"
             /\ order[o] = "late_payment" => order'[o] = "late_payment"
             /\ order[o] = "expired" => order'[o] \in {"expired", "late_payment"}
  <2>1. OrderMovesOn(o) /\ order[o] \in OrderStatus \cup {"none"}
      BY DEF TypeOK
  <2> QED
      BY <2>1 DEF OrderMovesOn, Following, OrderStatus
<1>2. \A k : Exists(k) => Exists(k)'
    BY <1>1 DEF Exists
<1>3. \A status, k : StillTrue(status, k) => StillTrue(status, k)'
    BY <1>1 DEF StillTrue, StatusOf
<1> QED
    BY <1>2, <1>3 DEF TruthsRemain

LEMMA NoMoveKeepsTruths ==
    ASSUME TypeOK, UNCHANGED order
    PROVE  TruthsRemain
    BY MovesKeepTruths DEF TypeOK, OrderMovesOn

LEMMA ExpiryKeepsTruths ==
    ASSUME TypeOK, ExpirePending
    PROVE  TruthsRemain
<1>1. PICK due \in SUBSET {o \in Orders : order[o] = "pending"} :
          order' = [o \in Orders |-> IF o \in due THEN "expired" ELSE order[o]]
    BY DEF ExpirePending
<1>2. order' \in [Orders -> OrderStatus \cup {"none"}]
    BY <1>1 DEF TypeOK, OrderStatus
<1>3. \A o \in Orders : OrderMovesOn(o)
    BY <1>1 DEF OrderMovesOn, Following
<1> QED
    BY <1>2, <1>3, MovesKeepTruths

-----------------------------------------------------------------------------
(* What a request holds.                                                   *)

Holds(q) ==
    /\ q.kind \in {"created", "restore", "poll"} => Exists(q.order)
    /\ q.kind \in {"restore", "poll"} => StillTrue(q.answer, q.order)

LEMMA RequestsHold ==
    ASSUME IInv, NEW r \in Slots
    PROVE  Holds(request[r])
    BY DEF IInv, KeysExist, AnswersAreTrue, Holds

\* A lookup that is not answered yet asks for what exists.
LEMMA FreshLookUps ==
    ASSUME NEW k \in Keys, NEW kind \in {"restore", "poll"}, Exists(k)'
    PROVE  Holds(LookUp(kind, k))'
<1>1. LookUp(kind, k).order = k /\ LookUp(kind, k).answer = "none"
    BY LookUps
<1> QED
    BY <1>1 DEF Holds, StillTrue

\* What a request holds remains true.
LEMMA HoldingRemains ==
    ASSUME TruthsRemain, NEW q, Holds(q)
    PROVE  Holds(q)'
    BY DEF TruthsRemain, Holds

\* All requests hold what is true after one of them changed.
LEMMA AllHold ==
    ASSUME IInv, TruthsRemain, NEW r \in Slots, NEW q \in Requests,
           request' = [request EXCEPT ![r] = q], Holds(q)',
           Exists(pendingKey)', Exists(session)'
    PROVE  KeysExist' /\ AnswersAreTrue'
<1>1. ASSUME NEW p \in Slots, NEW q1, q1 = request'[p]
      PROVE  Holds(q1)'
  <2>1. request'[r] = q /\ \A p1 \in Slots \ {r} : request'[p1] = request[p1]
      BY SlotChanges DEF IInv
  <2>2. CASE p = r
      BY <1>1, <2>1, <2>2
  <2>3. CASE p # r
      BY <1>1, <2>1, <2>3, RequestsHold, HoldingRemains
  <2> QED
      BY <2>2, <2>3
<1>2. \A p \in Slots : \A q1 : q1 = request'[p] => Holds(q1)'
    BY <1>1
<1>3. KeysExist'
    BY <1>2 DEF KeysExist, Holds, Exists
<1>4. AnswersAreTrue'
    BY <1>2 DEF AnswersAreTrue, Holds, StillTrue
<1> QED
    BY <1>3, <1>4

-----------------------------------------------------------------------------
(* The customer.                                                           *)

PageTypes ==
    /\ draft \in Draft /\ session \in Keys \cup {NoOrder} /\ step \in 1..4
    /\ content \in {"form", "details", "waiting", "restoring", "failed",
                    "success", "expired", "late"}
    /\ button \in [enabled : BOOLEAN, awaits : SUBSET Slots]
    /\ polling \in BOOLEAN /\ dialog \in {"hidden", "open", "closing"}

LEMMA InvFacts ==
    ASSUME IInv
    PROVE  /\ TypeOK /\ ScreensAgree /\ KeysAgree /\ RestoresAreAlone /\ KeyIsRestoredFirst
           /\ KeysExist /\ AnswersAreTrue /\ OutcomeIsTrue
           /\ PageTypes /\ request \in [Slots -> Requests] /\ pendingKey \in Keys \cup {NoOrder}
           /\ Exists(pendingKey) /\ Exists(session)
    BY RequestTypes DEF IInv, PageTypes, TypeOK, KeysExist

LEMMA NoKeyExists == Exists(NoOrder) /\ Exists(NoOrder)'
    BY Names DEF Exists

LEMMA NoButtonType == NoButton \in [enabled : BOOLEAN, awaits : SUBSET Slots]
    BY DEF NoButton

LEMMA ButtonTypes ==
    ASSUME NEW slots \in SUBSET Slots
    PROVE  /\ [enabled |-> FALSE, awaits |-> slots] \in [enabled : BOOLEAN, awaits : SUBSET Slots]
           /\ [enabled |-> TRUE, awaits |-> slots] \in [enabled : BOOLEAN, awaits : SUBSET Slots]
    OBVIOUS

LEMMA DraftTypes ==
    /\ NewDraft \in Draft
    /\ \A d \in Draft : NewButton(d) \in [enabled : BOOLEAN, awaits : SUBSET Slots]
<1>1. NewDraft \in Draft
    BY ModalAssumption DEF NewDraft, Draft
<1>2. ASSUME NEW d \in Draft
      PROVE  NewButton(d) \in [enabled : BOOLEAN, awaits : SUBSET Slots]
  <2>1. Ready(d) \in BOOLEAN
      BY DEF Ready
  <2> QED
      BY <2>1 DEF NewButton
<1> QED
    BY <1>1, <1>2

\* Moving between screens, while the requests go on.
LEMMA ScreenMoves ==
    ASSUME IInv, UNCHANGED <<order, pendingKey, request>>,
           PageTypes', ScreensAgree', KeysAgree',
           session' = session \/ session' = NoOrder,
           content' \in Outcomes => content' = content /\ session' = session,
           content = "restoring" => content' = content /\ session' = session,
           session' = NoOrder /\ pendingKey # NoOrder =>
               session = NoOrder /\ (content' = "form" => dialog' = "hidden")
    PROVE  IInv'
<1>1. TruthsRemain
    BY InvFacts, NoMoveKeepsTruths
<1>2. TypeOK'
    BY InvFacts DEF PageTypes, TypeOK
<1>3. RestoresAreAlone'
    BY InvFacts DEF RestoresAreAlone
<1>4. KeyIsRestoredFirst'
    BY InvFacts DEF KeyIsRestoredFirst
<1>5. KeysExist'
    BY InvFacts, NoKeyExists DEF KeysExist, Exists
<1>6. AnswersAreTrue'
    BY InvFacts DEF AnswersAreTrue, StillTrue
<1>7. OutcomeIsTrue'
    BY InvFacts DEF OutcomeIsTrue, Outcomes
<1> QED
    BY <1>2, <1>3, <1>4, <1>5, <1>6, <1>7 DEF IInv

LEMMA EditStep ==
    ASSUME IInv, Edit
    PROVE  IInv'
<1>1. PICK d \in Edits(draft) : draft' = d /\ button' = [button EXCEPT !.enabled = Ready(d)]
    BY DEF Edit
<1>2. d \in Draft
    BY <1>1, InvFacts DEF Edits, PageTypes, Draft
<1>3. Ready(d) \in BOOLEAN
    BY DEF Ready
<1>4. PageTypes'
    BY <1>1, <1>2, <1>3, InvFacts DEF Edit, PageTypes
<1>5. ScreensAgree' /\ KeysAgree'
    BY InvFacts DEF Edit, ScreensAgree, KeysAgree
<1> QED
    BY <1>4, <1>5, InvFacts, ScreenMoves DEF Edit, KeyIsRestoredFirst, Shows

LEMMA BackStep ==
    ASSUME IInv, Back
    PROVE  IInv'
<1>1. step \in {2, 3} /\ content \in {"details", "waiting"}
    BY InvFacts DEF Back, Shows, ScreensAgree
<1>2. PageTypes' /\ ScreensAgree' /\ KeysAgree'
  <2>1. CASE RenderStepOne(draft) /\ UNCHANGED polling
    <3>1. draft \in Draft
        BY InvFacts DEF PageTypes
    <3>2. button' \in [enabled : BOOLEAN, awaits : SUBSET Slots]
        BY <2>1, <3>1, DraftTypes DEF RenderStepOne
    <3>3. PageTypes'
        BY <1>1, <2>1, <3>2, InvFacts DEF Back, RenderStepOne, PageTypes
    <3>4. ScreensAgree' /\ KeysAgree'
        BY <1>1, <2>1, InvFacts DEF Back, RenderStepOne, ScreensAgree, KeysAgree, Outcomes
    <3> QED
        BY <3>3, <3>4
  <2>2. CASE RenderStepTwo
    <3>3. polling' \in BOOLEAN
        BY <2>2 DEF RenderStepTwo
    <3>1. PageTypes'
        BY <2>2, <3>3, InvFacts, NoButtonType DEF Back, RenderStepTwo, PageTypes
    <3>2. ScreensAgree' /\ KeysAgree'
        BY <1>1, <2>2, InvFacts DEF Back, RenderStepTwo, ScreensAgree, KeysAgree, Outcomes
    <3> QED
        BY <3>1, <3>2
  <2> QED
      BY <2>1, <2>2 DEF Back
<1>3. content' \in {"form", "details"}
    BY DEF Back, RenderStepOne, RenderStepTwo
<1>4. session # NoOrder
    BY <1>1, InvFacts DEF ScreensAgree
<1> QED
    BY <1>1, <1>2, <1>3, <1>4, ScreenMoves DEF Back, Outcomes

LEMMA RestartStep ==
    ASSUME IInv, Restart
    PROVE  IInv'
<1>1. step = 4 /\ content \in Outcomes /\ pendingKey = NoOrder
    BY InvFacts DEF Restart, Shows, ScreensAgree, KeysAgree, Outcomes
<1>2. PageTypes' /\ ScreensAgree' /\ KeysAgree'
  <2>1. button' = NewButton(NewDraft) /\ draft' = NewDraft /\ polling' = FALSE
      BY DEF Restart, StartNewPurchase, RenderStepOne
  <2>2. polling' \in BOOLEAN
      BY <2>1
  <2>4. PageTypes'
      BY <2>1, <2>2, InvFacts, DraftTypes DEF Restart, StartNewPurchase, RenderStepOne, PageTypes
  <2>3. ScreensAgree' /\ KeysAgree'
      BY <1>1 DEF Restart, StartNewPurchase, RenderStepOne, ScreensAgree, KeysAgree, Outcomes
  <2> QED
      BY <2>3, <2>4
<1>3. content' = "form" /\ session' = NoOrder
    BY DEF Restart, StartNewPurchase, RenderStepOne
<1> QED
    BY <1>1, <1>2, <1>3, ScreenMoves DEF Restart, Outcomes

LEMMA CloseStep ==
    ASSUME IInv, Close \/ CloseTimer \/ UNCHANGED vars
    PROVE  IInv'
<1>1. UNCHANGED <<order, pendingKey, draft, session, step, content, button, request>>
    BY DEF Close, CloseTimer, vars, screen
<1>2. PageTypes'
    BY InvFacts DEF Close, CloseTimer, vars, screen, PageTypes
<1>3. ScreensAgree' /\ KeysAgree'
    BY <1>1, InvFacts DEF ScreensAgree, KeysAgree
<1>4. dialog = "hidden" => dialog' = "hidden"
    BY DEF Close, CloseTimer, vars
<1> QED
    BY <1>1, <1>2, <1>3, <1>4, InvFacts, ScreenMoves DEF KeyIsRestoredFirst

LEMMA ReloadStep ==
    ASSUME IInv, Reload
    PROVE  IInv'
<1>1. \A r \in Slots : request'[r] = Idle
    BY DEF Reload
<1>2. TypeOK'
  <2>1. button' \in [enabled : BOOLEAN, awaits : SUBSET Slots] /\ draft' \in Draft
      BY DraftTypes DEF Reload, RenderStepOne
  <2>2. request' \in [Slots -> Requests]
      BY DEF Reload, Requests
  <2>3. polling' \in BOOLEAN
      BY DEF Reload
  <2> QED
      BY <2>1, <2>2, <2>3, InvFacts DEF Reload, RenderStepOne, TypeOK, Requests
<1>3. ScreensAgree' /\ KeysAgree' /\ OutcomeIsTrue'
    BY InvFacts DEF Reload, RenderStepOne, ScreensAgree, KeysAgree, OutcomeIsTrue, Outcomes
<1>4. RestoresAreAlone' /\ KeyIsRestoredFirst' /\ AnswersAreTrue'
    BY <1>1 DEF Reload, Idle, RestoresAreAlone, KeyIsRestoredFirst, AnswersAreTrue
<1>5. KeysExist'
    BY <1>1, InvFacts, NoKeyExists DEF Reload, Idle, KeysExist, Exists
<1> QED
    BY <1>2, <1>3, <1>4, <1>5 DEF IInv

-----------------------------------------------------------------------------
(* Requests are sent.                                                      *)

LEMMA AllTypes ==
    ASSUME PageTypes', order' \in [Orders -> OrderStatus \cup {"none"}],
           pendingKey' \in Keys \cup {NoOrder}, request' \in [Slots -> Requests]
    PROVE  TypeOK'
    BY DEF PageTypes, TypeOK, Requests

\* A request other than a restoring one is sent, or a slot becomes free, while
\* nothing is restored into the page.
LEMMA RequestSent ==
    ASSUME IInv, UNCHANGED <<order, pendingKey>>,
           NEW r \in Slots, NEW q \in Requests, request' = [request EXCEPT ![r] = q],
           q.kind \in {"idle", "create", "poll"}, Holds(q)',
           PageTypes', ScreensAgree', KeysAgree', OutcomeIsTrue', Exists(session)',
           session' = session,
           content = "restoring" /\ request[r].kind # "restore" => content' = content,
           session = NoOrder /\ pendingKey # NoOrder =>
               q.kind # "create" /\ (content' = "form" => dialog' = "hidden")
    PROVE  IInv'
<1>1. request' \in [Slots -> Requests] /\ request'[r] = q
      /\ \A p \in Slots \ {r} : request'[p] = request[p]
    BY SlotChanges, InvFacts
<1>2. TypeOK'
    BY <1>1, InvFacts, AllTypes DEF TypeOK
<1>3. TruthsRemain /\ Exists(pendingKey)'
    BY InvFacts, NoMoveKeepsTruths DEF Exists
<1>4. KeysExist' /\ AnswersAreTrue'
    BY <1>3, AllHold
<1>5. RestoresAreAlone'
    BY <1>1, InvFacts DEF RestoresAreAlone
<1>6. KeyIsRestoredFirst'
    BY <1>1, InvFacts DEF KeyIsRestoredFirst
<1> QED
    BY <1>2, <1>4, <1>5, <1>6 DEF IInv

LEMMA ContinueStep ==
    ASSUME IInv, NEW r \in Slots, Continue(r)
    PROVE  IInv'
<1>1. PICK q : q = [kind |-> "create", draft |-> draft]
    OBVIOUS
<1>2. q \in Requests /\ q.kind = "create"
    BY <1>1, InvFacts DEF PageTypes, Create, Requests
<1>3. Holds(q)'
    BY <1>2 DEF Holds
<1>4. request' = [request EXCEPT ![r] = q]
    BY <1>1 DEF Continue
<1>5. button' \in [enabled : BOOLEAN, awaits : SUBSET Slots]
  <2>1. button.awaits \cup {r} \in SUBSET Slots
      BY InvFacts DEF PageTypes
  <2>2. button' = [enabled |-> FALSE, awaits |-> button.awaits \cup {r}]
      BY DEF Continue
  <2> QED
      BY <2>1, <2>2, ButtonTypes
<1>6. PageTypes'
    BY <1>5, InvFacts DEF Continue, PageTypes
<1>7. ScreensAgree' /\ KeysAgree' /\ OutcomeIsTrue' /\ Exists(session)'
    BY InvFacts DEF Continue, ScreensAgree, KeysAgree, OutcomeIsTrue, Exists
<1>8. ~(session = NoOrder /\ pendingKey # NoOrder) /\ session' = session /\ content' = content
    BY InvFacts DEF Continue, Shows, KeyIsRestoredFirst
<1> QED
    BY <1>2, <1>3, <1>4, <1>6, <1>7, <1>8, RequestSent DEF Continue

\* A poll is sent, and the wait for the session's order shown.
LEMMA PollStep ==
    ASSUME IInv, NEW r \in Slots, UNCHANGED <<order, pendingKey, draft, session>>,
           dialog' \in {"hidden", "open", "closing"},
           step \in {2, 3}, polling' \in BOOLEAN,
           request' = [request EXCEPT ![r] = LookUp("poll", session)],
           step' = 3, content' = "waiting", button' = NoButton \/ button' = button
    PROVE  IInv'
<1>1. session \in Keys /\ session # NoOrder /\ content # "restoring"
    BY InvFacts DEF ScreensAgree, PageTypes
<1>2. LookUp("poll", session) \in Requests /\ LookUp("poll", session).kind = "poll"
    BY <1>1, LookUps
<1>3. Holds(LookUp("poll", session))'
  <2>1. Exists(session)'
      BY InvFacts DEF Exists
  <2> QED
      BY <1>1, <2>1, FreshLookUps
<1>4. PageTypes'
    BY InvFacts, NoButtonType DEF PageTypes
<1>5. ScreensAgree' /\ KeysAgree' /\ OutcomeIsTrue' /\ Exists(session)'
    BY <1>1, InvFacts DEF ScreensAgree, KeysAgree, OutcomeIsTrue, Outcomes, Exists
<1> QED
    BY <1>1, <1>2, <1>3, <1>4, <1>5, RequestSent

LEMMA SentStep ==
    ASSUME IInv, NEW r \in Slots, Sent(r)
    PROVE  IInv'
<1>1. step = 2 /\ dialog \in {"hidden", "open", "closing"}
    BY InvFacts DEF Sent, Shows, ScreensAgree, PageTypes
<1>2. polling' \in BOOLEAN
    BY DEF Sent, RenderWaiting
<1> QED
    BY <1>1, <1>2, PollStep DEF Sent, RenderWaiting

LEMMA PollTimerStep ==
    ASSUME IInv, NEW r \in Slots, PollTimer(r)
    PROVE  IInv'
<1>1. step = 3 /\ content = "waiting" /\ dialog \in {"hidden", "open", "closing"}
    BY InvFacts DEF PollTimer, ScreensAgree, PageTypes
<1>2. polling' \in BOOLEAN
    BY InvFacts DEF PollTimer, screen, PageTypes
<1> QED
    BY <1>1, <1>2, PollStep DEF PollTimer, screen

LEMMA OpenStep ==
    ASSUME IInv, ~ReopensWhileRestoring, NEW r \in Slots, Open(r)
    PROVE  IInv'
<1>1. CASE step = 3 /\ RenderWaiting(r, session)
  <2>1. UNCHANGED <<order, pendingKey, draft, session>> /\ dialog' = "open"
      BY <1>1 DEF Open
  <2>2. polling' \in BOOLEAN
      BY <1>1 DEF RenderWaiting
  <2> QED
      BY <1>1, <2>1, <2>2, PollStep DEF RenderWaiting
<1>2. CASE /\ step # 3 /\ session' = NoOrder /\ pendingKey # NoOrder
           /\ step' = 1 /\ content' = "restoring" /\ button' = NoButton
           /\ request' = [request EXCEPT ![r] = LookUp("restore", pendingKey)]
           /\ UNCHANGED polling
  <2>1. step # 4 /\ UNCHANGED <<order, pendingKey, draft, session>> /\ dialog' = "open"
      BY <1>2, InvFacts DEF Open, KeysAgree
  <2>2. session = NoOrder /\ step = 1
      BY <1>2, <2>1, InvFacts DEF ScreensAgree
  <2>3. /\ LookUp("restore", pendingKey) \in Requests
        /\ LookUp("restore", pendingKey).kind = "restore"
        /\ LookUp("restore", pendingKey).order = pendingKey
        /\ LookUp("restore", pendingKey).answer = "none"
      BY <1>2, LookUps, InvFacts
  <2>4. request' \in [Slots -> Requests] /\ request'[r] = LookUp("restore", pendingKey)
        /\ \A p \in Slots \ {r} : request'[p] = request[p]
      BY <1>2, <2>3, SlotChanges, InvFacts
  <2>5. \A p \in Slots : request[p].kind # "restore"
      BY DEF Open, Restoring
  <2>6. PageTypes'
      BY <1>2, <2>1, InvFacts, NoButtonType DEF PageTypes
  <2>7. TypeOK'
      BY <2>1, <2>4, <2>6, InvFacts, AllTypes DEF TypeOK
  <2>8. ScreensAgree' /\ KeysAgree' /\ OutcomeIsTrue'
      BY <1>2, <2>1, <2>2 DEF ScreensAgree, KeysAgree, OutcomeIsTrue, Outcomes
  <2>9. RestoresAreAlone'
      BY <1>2, <2>1, <2>3, <2>4, <2>5 DEF RestoresAreAlone
  <2>10. KeyIsRestoredFirst'
      BY <1>2, <2>1, <2>2, <2>3, <2>4, InvFacts DEF KeyIsRestoredFirst
  <2>11. TruthsRemain /\ Exists(pendingKey)' /\ Exists(session)'
      BY <2>1, InvFacts, NoMoveKeepsTruths DEF Exists
  <2>12. Holds(LookUp("restore", pendingKey))'
    <3>1. pendingKey \in Keys /\ pendingKey' = pendingKey
        BY <1>2, <2>1, InvFacts
    <3> QED
        BY <3>1, <2>11, FreshLookUps
  <2>13. KeysExist' /\ AnswersAreTrue'
      BY <1>2, <2>1, <2>3, <2>11, <2>12, AllHold
  <2> QED
      BY <2>7, <2>8, <2>9, <2>10, <2>13 DEF IInv
<1>3. CASE /\ step # 3 /\ (session' # NoOrder \/ pendingKey = NoOrder)
           /\ IF step = 4 THEN RenderStepOne(draft') ELSE UNCHANGED <<step, content, button>>
           /\ UNCHANGED <<polling, request>>
  <2>1. UNCHANGED <<order, pendingKey, request>> /\ dialog' = "open"
      BY <1>3 DEF Open
  <2>2. CASE step = 4
    <3>1. draft' = NewDraft /\ session' = NoOrder /\ step' = 1 /\ content' = "form"
          /\ button' = NewButton(NewDraft)
        BY <1>3, <2>2 DEF Open, RenderStepOne
    <3>2. PageTypes'
        BY <1>3, <2>1, <3>1, DraftTypes, InvFacts DEF PageTypes
    <3>3. pendingKey = NoOrder /\ content # "restoring"
        BY <2>2, InvFacts DEF KeysAgree, ScreensAgree, Outcomes
    <3>4. ScreensAgree' /\ KeysAgree'
        BY <2>1, <3>1, <3>3 DEF ScreensAgree, KeysAgree, Outcomes
    <3> QED
        BY <2>1, <3>1, <3>2, <3>3, <3>4, ScreenMoves DEF Outcomes
  <2>3. CASE step # 4
    <3>1. UNCHANGED <<draft, session, step, content, button, polling>>
        BY <1>3, <2>3 DEF Open
    <3>2. PageTypes'
        BY <2>1, <3>1, InvFacts DEF PageTypes
    <3>3. ScreensAgree' /\ KeysAgree'
        BY <2>1, <3>1, InvFacts DEF ScreensAgree, KeysAgree
    <3> QED
        BY <1>3, <2>1, <3>1, <3>2, <3>3, ScreenMoves
  <2> QED
      BY <2>2, <2>3
<1> QED
    BY <1>1, <1>2, <1>3 DEF Open

-----------------------------------------------------------------------------
(* The API and what happens to orders.                                     *)

LEMMA OutcomeRemains ==
    ASSUME TruthsRemain, OutcomeIsTrue, UNCHANGED <<session, content>>
    PROVE  OutcomeIsTrue'
    BY DEF TruthsRemain, StillTrue, OutcomeIsTrue

\* What the page shows does not change when orders move on.
LEMMA PageRemains ==
    ASSUME IInv, TruthsRemain, UNCHANGED <<pendingKey, draft, screen, dialog>>
    PROVE  /\ PageTypes' /\ ScreensAgree' /\ KeysAgree' /\ OutcomeIsTrue'
           /\ order' \in [Orders -> OrderStatus \cup {"none"}]
           /\ pendingKey' \in Keys \cup {NoOrder}
           /\ Exists(pendingKey)' /\ Exists(session)'
<1>1. UNCHANGED <<session, step, content, button, polling>>
    BY DEF screen
<1>2. PageTypes'
    BY <1>1, InvFacts DEF PageTypes
<1>3. ScreensAgree' /\ KeysAgree'
    BY <1>1, InvFacts DEF ScreensAgree, KeysAgree
<1>4. OutcomeIsTrue'
    BY <1>1, InvFacts, OutcomeRemains
<1>5. Exists(pendingKey)' /\ Exists(session)'
    BY <1>1, InvFacts DEF TruthsRemain, Exists
<1> QED
    BY <1>2, <1>3, <1>4, <1>5, InvFacts DEF TruthsRemain

\* The API serves a request.
LEMMA ServerStep ==
    ASSUME IInv, TruthsRemain, UNCHANGED <<pendingKey, draft, screen, dialog>>,
           NEW r \in Slots, NEW q \in Requests, request' = [request EXCEPT ![r] = q],
           Holds(q)',
           q.kind = "restore" => request[r].kind = "restore" /\ q.order = request[r].order,
           q.kind \in {"create", "created"} => request[r].kind \in {"create", "created"}
    PROVE  IInv'
<1>1. request' \in [Slots -> Requests] /\ request'[r] = q
      /\ \A p \in Slots \ {r} : request'[p] = request[p]
    BY SlotChanges, InvFacts
<1>2. TypeOK'
    BY <1>1, PageRemains, AllTypes
<1>3. KeysExist' /\ AnswersAreTrue'
    BY PageRemains, AllHold
<1>4. RestoresAreAlone'
    BY <1>1, InvFacts DEF RestoresAreAlone, screen
<1>5. KeyIsRestoredFirst'
    BY <1>1, InvFacts DEF KeyIsRestoredFirst, screen
<1> QED
    BY <1>2, <1>3, <1>4, <1>5, PageRemains DEF IInv

LEMMA ServeOrderStep ==
    ASSUME IInv, NEW r \in Slots, ServeOrder(r)
    PROVE  IInv'
<1>1. ASSUME NEW o \in Orders, order[o] = "none", order' = [order EXCEPT ![o] = "pending"],
             request' = [request EXCEPT ![r] = [kind |-> "created", order |-> o]]
      PROVE  IInv'
  <2> DEFINE q == [kind |-> "created", order |-> o]
  <2>1. q \in Requests /\ q.kind = "created" /\ q.order = o
      BY DEF Created, Requests
  <2>2. order' \in [Orders -> OrderStatus \cup {"none"}] /\ order'[o] = "pending"
      BY <1>1, InvFacts DEF TypeOK, OrderStatus
  <2>3. \A p \in Orders : OrderMovesOn(p)
      BY <1>1, InvFacts DEF TypeOK, OrderMovesOn
  <2>4. TruthsRemain
      BY <2>2, <2>3, InvFacts, MovesKeepTruths
  <2>5. Holds(q)'
      BY <2>2 DEF Holds, Exists
  <2>6. request' = [request EXCEPT ![r] = q]
      BY <1>1
  <2> HIDE DEF q
  <2> QED
      BY <2>1, <2>4, <2>5, <2>6, ServerStep DEF ServeOrder
<1>2. CASE request' = [request EXCEPT ![r] = [kind |-> "refused"]] /\ UNCHANGED order
  <2> DEFINE q == [kind |-> "refused"]
  <2>1. q \in Requests /\ q.kind = "refused"
      BY DEF Created, Requests
  <2>2. Holds(q)'
      BY DEF Holds
  <2>3. request' = [request EXCEPT ![r] = q]
      BY <1>2
  <2> HIDE DEF q
  <2> QED
      BY <1>2, <2>1, <2>2, <2>3, InvFacts, NoMoveKeepsTruths, ServerStep DEF ServeOrder
<1> QED
    BY <1>1, <1>2 DEF ServeOrder

\* The answer the API gives is true, and remains so.
LEMMA AnswerHolds ==
    ASSUME TruthsRemain, NEW q \in Lookup, Exists(q.order)', NEW a,
           a = [q EXCEPT !.answer = Answer(q.kind, StatusOf(q.order, order'))],
           a.kind = q.kind, a.order = q.order,
           a.answer = Answer(q.kind, StatusOf(q.order, order'))
    PROVE  Holds(a)'
<1>1. Exists(a.order)'
    BY DEF Exists
<1>2. StillTrue(a.answer, a.order)'
    BY DEF TruthsRemain, OrderStatus, Exists, StillTrue, Answer, StatusOf, Resolved
<1> QED
    BY <1>1, <1>2 DEF Holds

LEMMA ServeLookupStep ==
    ASSUME IInv, NEW r \in Slots, ServeLookup(r)
    PROVE  IInv'
<1> DEFINE k == request[r].order
           a == [request[r] EXCEPT !.answer = Answer(request[r].kind, StatusOf(k, order'))]
<1>1. TruthsRemain
    BY InvFacts, ExpiryKeepsTruths DEF ServeLookup
<1>2. request[r] \in Lookup
    BY InvFacts, RequestKinds DEF ServeLookup
<1>3. StatusOf(k, order') \in {"missing"} \cup OrderStatus
    BY <1>1 DEF TruthsRemain, StatusOf
<1>4. /\ a \in Requests /\ a.kind = request[r].kind /\ a.order = k
      /\ a.answer = Answer(request[r].kind, StatusOf(k, order'))
    BY <1>2, <1>3, Answers
<1>5. request' = [request EXCEPT ![r] = a]
    BY InvFacts DEF ServeLookup
<1>6. ASSUME NEW q, q = a
      PROVE  Holds(q)'
  <2>1. ASSUME NEW p, p = request[r]
        PROVE  Exists(p.order)'
      BY <1>1, <2>1, RequestsHold DEF ServeLookup, Holds, TruthsRemain
  <2>2. PICK p : p = request[r]
      OBVIOUS
  <2> QED
      BY <1>1, <1>2, <1>4, <1>6, <2>1, <2>2, AnswerHolds
<1>7. ASSUME NEW q, q = a
      PROVE  IInv'
    BY <1>1, <1>4, <1>5, <1>6, <1>7, ServerStep DEF ServeLookup
<1> QED
    BY <1>7

LEMMA OrderMovesStep ==
    ASSUME IInv, NEW o \in Orders, OrderMoves(o)
    PROVE  IInv'
<1>1. PICK status \in Following(order[o]) : order' = [order EXCEPT ![o] = status]
    BY DEF OrderMoves
<1>2. status \in OrderStatus
    BY <1>1 DEF Following, OrderStatus
<1>3. order' \in [Orders -> OrderStatus \cup {"none"}]
    BY <1>1, <1>2, InvFacts DEF TypeOK
<1>4. \A p \in Orders : OrderMovesOn(p)
    BY <1>1, InvFacts DEF TypeOK, OrderMovesOn
<1>5. TruthsRemain
    BY <1>3, <1>4, InvFacts, MovesKeepTruths
<1>6. UNCHANGED <<pendingKey, draft, screen, dialog, request>>
    BY DEF OrderMoves
<1>7. TypeOK'
    BY <1>5, <1>6, PageRemains, AllTypes, InvFacts
<1>8. RestoresAreAlone' /\ KeyIsRestoredFirst'
    BY <1>6, InvFacts DEF screen, RestoresAreAlone, KeyIsRestoredFirst
<1>9. ASSUME NEW p \in Slots, NEW q, q = request[p]
      PROVE  Holds(q)'
    BY <1>5, <1>9, RequestsHold, HoldingRemains
<1>10. \A p \in Slots : \A q : q = request'[p] => Holds(q)'
    BY <1>6, <1>9
<1>11. KeysExist' /\ AnswersAreTrue'
    BY <1>5, <1>6, <1>10, PageRemains DEF KeysExist, AnswersAreTrue, Holds, Exists, StillTrue
<1> QED
    BY <1>5, <1>6, <1>7, <1>8, <1>11, PageRemains DEF IInv

-----------------------------------------------------------------------------
(* Answers.                                                                *)

\* The page takes up an order, or an outcome, while nothing else is restored.
LEMMA PageSettled ==
    ASSUME IInv, UNCHANGED order,
           NEW r \in Slots, NEW q \in Requests, request' = [request EXCEPT ![r] = q],
           q.kind \in {"idle", "poll"}, Holds(q)',
           \A p \in Slots \ {r} : request[p].kind # "restore",
           pendingKey' \in Keys \cup {NoOrder},
           PageTypes', ScreensAgree', KeysAgree', OutcomeIsTrue',
           Exists(pendingKey)', Exists(session)',
           session' # NoOrder \/ pendingKey' = NoOrder
    PROVE  IInv'
<1>1. request' \in [Slots -> Requests] /\ request'[r] = q
      /\ \A p \in Slots \ {r} : request'[p] = request[p]
    BY SlotChanges, InvFacts
<1>2. TypeOK'
    BY <1>1, InvFacts, AllTypes DEF TypeOK
<1>3. TruthsRemain
    BY InvFacts, NoMoveKeepsTruths
<1>4. KeysExist' /\ AnswersAreTrue'
    BY <1>3, AllHold
<1>5. RestoresAreAlone'
    BY <1>1 DEF RestoresAreAlone
<1>6. KeyIsRestoredFirst'
    BY DEF KeyIsRestoredFirst
<1> QED
    BY <1>2, <1>4, <1>5, <1>6 DEF IInv

LEMMA IdleHolds == Idle \in Requests /\ Idle.kind = "idle" /\ Holds(Idle)'
    BY DEF Idle, Requests, Holds

LEMMA CreateFailsStep ==
    ASSUME IInv, NEW r \in Slots, CreateFails(r), Release(r),
           request[r].kind \in {"create", "created", "refused"},
           UNCHANGED <<order, draft, dialog>>
    PROVE  IInv'
<1>1. button' \in [enabled : BOOLEAN, awaits : SUBSET Slots]
  <2>1. button.awaits \ {r} \in SUBSET Slots
        /\ button \in [enabled : BOOLEAN, awaits : SUBSET Slots]
      BY InvFacts DEF PageTypes
  <2>2. button' = button \/ button' = [enabled |-> TRUE, awaits |-> button.awaits \ {r}]
      BY DEF CreateFails
  <2> QED
      BY <2>1, <2>2, ButtonTypes
<1>2. UNCHANGED <<pendingKey, session, step, content, polling>>
    BY DEF CreateFails
<1>3. PageTypes'
    BY <1>1, <1>2, InvFacts DEF PageTypes
<1>4. ScreensAgree' /\ KeysAgree' /\ OutcomeIsTrue' /\ Exists(session)'
    BY <1>2, InvFacts DEF ScreensAgree, KeysAgree, OutcomeIsTrue, Exists
<1>5. session = NoOrder /\ pendingKey # NoOrder => (content' = "form" => dialog' = "hidden")
    BY <1>2, InvFacts DEF KeyIsRestoredFirst
<1> QED
    BY <1>2, <1>3, <1>4, <1>5, IdleHolds, RequestSent DEF Release

LEMMA TakeCreatedStep ==
    ASSUME IInv, NEW r \in Slots, TakeCreated(r)
    PROVE  IInv'
<1>1. CASE request[r].kind = "created" /\ Remember(request[r].order) /\ RenderStepTwo
  <2>1. PICK k : k = request[r].order
      OBVIOUS
  <2>2. k \in Orders /\ Exists(k)
      BY <1>1, <2>1, RequestKinds, RequestsHold, InvFacts DEF Holds
  <2>3. session' = k /\ pendingKey' = k /\ k \in Keys /\ k # NoOrder
      BY <1>1, <2>1, <2>2, Names DEF Remember
  <2>4. step' = 2 /\ content' = "details" /\ button' = NoButton
      BY <1>1 DEF RenderStepTwo
  <2>5. polling' \in BOOLEAN
      BY <1>1 DEF RenderStepTwo
  <2>6. UNCHANGED <<order, draft, dialog>> /\ request' = [request EXCEPT ![r] = Idle]
      BY DEF TakeCreated, Release
  <2>7. \A p \in Slots : request[p].kind # "restore"
    <3>1. ASSUME NEW p \in Slots, request[p].kind = "restore"
          PROVE  FALSE
      <4>1. session = NoOrder /\ pendingKey = request[p].order
          BY <3>1, InvFacts DEF RestoresAreAlone
      <4>2. request[p].order # NoOrder
          BY <3>1, InvFacts, RequestKinds, LookupFields, Names
      <4> QED
          BY <1>1, <4>1, <4>2, InvFacts DEF KeyIsRestoredFirst
    <3> QED
        BY <3>1
  <2>8. PageTypes'
      BY <2>3, <2>4, <2>5, <2>6, InvFacts, NoButtonType DEF PageTypes
  <2>9. ScreensAgree' /\ KeysAgree' /\ OutcomeIsTrue'
      BY <2>3, <2>4 DEF ScreensAgree, KeysAgree, OutcomeIsTrue, Outcomes
  <2>10. Exists(session)' /\ Exists(pendingKey)'
      BY <2>2, <2>3, <2>6 DEF Exists
  <2> QED
      BY <2>3, <2>6, <2>7, <2>8, <2>9, <2>10, IdleHolds, PageSettled
<1>2. CASE request[r].kind = "refused" /\ CreateFails(r)
    BY <1>2, CreateFailsStep DEF TakeCreated
<1> QED
    BY <1>1, <1>2 DEF TakeCreated

\* An outcome is shown that is true of the order.
LEMMA OutcomeStep ==
    ASSUME IInv, NEW r \in Slots, NEW k \in Keys, NEW status \in Resolved,
           Exists(k), StillTrue(status, k),
           session' = k, RenderOutcome(status), Release(r),
           \A p \in Slots \ {r} : request[p].kind # "restore",
           UNCHANGED <<order, draft, dialog>>
    PROVE  IInv'
<1>1. /\ pendingKey' = NoOrder /\ step' = 4 /\ button' = NoButton
      /\ content' = OutcomeScreen(status) /\ k # NoOrder
    BY Names DEF RenderOutcome
<1>2. polling' \in BOOLEAN
    BY DEF RenderOutcome
<1>3. content' \in Outcomes
    BY <1>1 DEF OutcomeScreen, Outcomes
<1>4. PageTypes'
    BY <1>1, <1>2, <1>3, InvFacts, NoButtonType DEF PageTypes, Outcomes
<1>5. ScreensAgree' /\ KeysAgree'
    BY <1>1, <1>3 DEF ScreensAgree, KeysAgree, Outcomes
<1>6. OutcomeIsTrue'
    BY <1>1 DEF OutcomeIsTrue, OutcomeScreen, StillTrue, Resolved
<1>7. Exists(session)' /\ Exists(pendingKey)'
    BY <1>1, Names DEF Exists
<1> QED
    BY <1>1, <1>4, <1>5, <1>6, <1>7, IdleHolds, PageSettled DEF Release

\* What is known when the answer to a restoring request arrives.
LEMMA RestoringFacts ==
    ASSUME IInv, NEW r \in Slots, request[r].kind = "restore"
    PROVE  /\ session = NoOrder /\ pendingKey = request[r].order /\ content = "restoring"
           /\ step = 1 /\ pendingKey \in Keys /\ pendingKey # NoOrder
           /\ \A p \in Slots \ {r} : request[p].kind # "restore"
           /\ Exists(pendingKey) /\ StillTrue(request[r].answer, pendingKey)
<1>1. session = NoOrder /\ pendingKey = request[r].order /\ content = "restoring"
      /\ \A p \in Slots \ {r} : request[p].kind # "restore"
    BY InvFacts DEF RestoresAreAlone
<1>2. step = 1
    BY <1>1, InvFacts DEF ScreensAgree
<1>3. request[r].order \in Keys
    BY InvFacts, RequestKinds, LookupFields
<1> QED
    BY <1>1, <1>2, <1>3, Names, RequestsHold DEF Holds

LEMMA TakeRestoredStep ==
    ASSUME IInv, NEW r \in Slots, TakeRestored(r)
    PROVE  IInv'
<1>1. request[r].kind = "restore" /\ UNCHANGED <<order, draft, dialog>>
    BY DEF TakeRestored
<1>2. PICK k : k = request[r].order
    OBVIOUS
<1>3. PICK status : status = request[r].answer
    OBVIOUS
<1>4. /\ session = NoOrder /\ pendingKey = k /\ content = "restoring" /\ step = 1
      /\ k \in Keys /\ k # NoOrder /\ \A p \in Slots \ {r} : request[p].kind # "restore"
      /\ Exists(k) /\ StillTrue(status, k)
    BY <1>1, <1>2, <1>3, RestoringFacts
<1>5. CASE pendingKey' = NoOrder /\ RenderStepOne(draft) /\ Release(r)
           /\ UNCHANGED <<session, polling>>
  <2>1. step' = 1 /\ content' = "form" /\ button' = NewButton(draft)
      BY <1>5 DEF RenderStepOne
  <2>2. button' \in [enabled : BOOLEAN, awaits : SUBSET Slots]
      BY <2>1, DraftTypes, InvFacts DEF PageTypes
  <2>3. PageTypes'
      BY <1>1, <1>5, <2>1, <2>2, InvFacts DEF PageTypes
  <2>4. ScreensAgree' /\ KeysAgree' /\ OutcomeIsTrue'
      BY <1>4, <1>5, <2>1 DEF ScreensAgree, KeysAgree, OutcomeIsTrue, Outcomes
  <2>5. Exists(session)' /\ Exists(pendingKey)'
      BY <1>4, <1>5, Names DEF Exists
  <2> QED
      BY <1>1, <1>4, <1>5, <2>3, <2>4, <2>5, IdleHolds, PageSettled DEF Release
<1>6. CASE status \in Resolved /\ session' = k /\ RenderOutcome(status) /\ Release(r)
    BY <1>1, <1>4, <1>6, OutcomeStep
<1>7. CASE session' = k /\ RenderWaiting(r, k) /\ UNCHANGED pendingKey
  <2>1. PICK q : q = LookUp("poll", k)
      OBVIOUS
  <2>2. Exists(k)'
      BY <1>1, <1>4 DEF Exists
  <2>3. q \in Requests /\ q.kind \in {"idle", "poll"} /\ Holds(q)'
      BY <1>4, <2>1, <2>2, LookUps, FreshLookUps
  <2>4. step' = 3 /\ content' = "waiting" /\ button' = NoButton
        /\ request' = [request EXCEPT ![r] = q]
      BY <1>7, <2>1 DEF RenderWaiting
  <2>5. polling' \in BOOLEAN
      BY <1>7 DEF RenderWaiting
  <2>6. PageTypes'
      BY <1>1, <1>4, <1>7, <2>4, <2>5, InvFacts, NoButtonType DEF PageTypes
  <2>7. ScreensAgree' /\ KeysAgree' /\ OutcomeIsTrue'
      BY <1>4, <1>7, <2>4 DEF ScreensAgree, KeysAgree, OutcomeIsTrue, Outcomes
  <2>8. Exists(session)' /\ Exists(pendingKey)'
      BY <1>4, <1>7, <2>2 DEF Exists
  <2> QED
      BY <1>1, <1>4, <1>7, <2>3, <2>4, <2>6, <2>7, <2>8, PageSettled
<1>8. CASE session' = k /\ RenderStepTwo /\ Release(r) /\ UNCHANGED pendingKey
  <2>1. step' = 2 /\ content' = "details" /\ button' = NoButton
      BY <1>8 DEF RenderStepTwo
  <2>2. polling' \in BOOLEAN
      BY <1>8 DEF RenderStepTwo
  <2>3. PageTypes'
      BY <1>1, <1>4, <1>8, <2>1, <2>2, InvFacts, NoButtonType DEF PageTypes
  <2>4. ScreensAgree' /\ KeysAgree' /\ OutcomeIsTrue'
      BY <1>4, <1>8, <2>1 DEF ScreensAgree, KeysAgree, OutcomeIsTrue, Outcomes
  <2>5. Exists(session)' /\ Exists(pendingKey)'
      BY <1>1, <1>4, <1>8 DEF Exists
  <2> QED
      BY <1>1, <1>4, <1>8, <2>3, <2>4, <2>5, IdleHolds, PageSettled DEF Release
<1> QED
    BY <1>2, <1>3, <1>5, <1>6, <1>7, <1>8 DEF TakeRestored

LEMMA RequestEnds ==
    ASSUME IInv, NEW r \in Slots, Release(r), UNCHANGED <<order, draft, dialog, pendingKey, screen>>,
           request[r].kind = "poll"
    PROVE  IInv'
<1>1. UNCHANGED <<session, step, content, button, polling>>
    BY DEF screen
<1>2. PageTypes' /\ ScreensAgree' /\ KeysAgree' /\ OutcomeIsTrue' /\ Exists(session)'
    BY InvFacts, NoMoveKeepsTruths, PageRemains
<1>3. session = NoOrder /\ pendingKey # NoOrder => (content' = "form" => dialog' = "hidden")
    BY <1>1, InvFacts DEF KeyIsRestoredFirst
<1> QED
    BY <1>1, <1>2, <1>3, IdleHolds, RequestSent DEF Release

LEMMA TakePolledStep ==
    ASSUME IInv, NEW r \in Slots, TakePolled(r)
    PROVE  IInv'
<1>1. request[r].kind = "poll" /\ Release(r) /\ UNCHANGED <<order, draft, dialog>>
    BY DEF TakePolled
<1>2. PICK k : k = request[r].order
    OBVIOUS
<1>3. PICK status : status = request[r].answer
    OBVIOUS
<1>4. CASE Wanted(k) /\ status \in Resolved /\ session' = k /\ RenderOutcome(status)
  <2>1. k \in Keys
      BY <1>1, <1>2, InvFacts, RequestKinds, LookupFields
  <2>2. Exists(k) /\ StillTrue(status, k)
      BY <1>1, <1>2, <1>3, RequestsHold DEF Holds
  <2>3. session # NoOrder
      BY <1>4, <2>1, Names DEF Wanted
  <2>4. \A p \in Slots : request[p].kind # "restore"
      BY <2>3, InvFacts DEF RestoresAreAlone
  <2> QED
      BY <1>1, <1>4, <2>1, <2>2, <2>4, OutcomeStep
<1>5. CASE UNCHANGED <<pendingKey, screen>>
    BY <1>1, <1>5, RequestEnds
<1> QED
    BY <1>2, <1>3, <1>4, <1>5 DEF TakePolled

LEMMA FailStep ==
    ASSUME IInv, NEW r \in Slots, Fail(r)
    PROVE  IInv'
<1>1. Release(r) /\ UNCHANGED <<order, draft, dialog>>
    BY DEF Fail
<1>2. CASE request[r].kind \in {"create", "created"} /\ CreateFails(r)
    BY <1>1, <1>2, CreateFailsStep
<1>3. CASE request[r].kind = "restore" /\ content' = "failed" /\ button' = NoButton
           /\ UNCHANGED <<pendingKey, session, step, polling>>
  <2>1. session = NoOrder /\ content = "restoring" /\ step = 1
      BY <1>3, RestoringFacts
  <2>2. PageTypes'
      BY <1>1, <1>3, InvFacts, NoButtonType DEF PageTypes
  <2>3. ScreensAgree' /\ KeysAgree' /\ OutcomeIsTrue' /\ Exists(session)'
      BY <1>1, <1>3, <2>1, InvFacts DEF ScreensAgree, KeysAgree, OutcomeIsTrue, Outcomes, Exists
  <2> QED
      BY <1>1, <1>3, <2>2, <2>3, IdleHolds, RequestSent DEF Release
<1>4. CASE request[r].kind = "poll" /\ UNCHANGED <<pendingKey, screen>>
    BY <1>1, <1>4, RequestEnds
<1> QED
    BY <1>2, <1>3, <1>4 DEF Fail

-----------------------------------------------------------------------------
(* The invariant.                                                          *)

LEMMA InitIsConsistent == Init => IInv
<1> SUFFICES ASSUME Init PROVE IInv
    OBVIOUS
<1>1. TypeOK
  <2>1. draft \in Draft /\ button \in [enabled : BOOLEAN, awaits : SUBSET Slots]
      BY DraftTypes DEF Init
  <2>2. polling \in BOOLEAN
      BY DEF Init
  <2>3. order \in [Orders -> OrderStatus \cup {"none"}] /\ request \in [Slots -> Requests]
      BY DEF Init, Requests
  <2> QED
      BY <2>1, <2>2, <2>3, Names DEF Init, TypeOK, Requests
<1>2. ScreensAgree /\ KeysAgree /\ OutcomeIsTrue
    BY DEF Init, ScreensAgree, KeysAgree, OutcomeIsTrue, Outcomes
<1>3. RestoresAreAlone /\ KeyIsRestoredFirst /\ AnswersAreTrue
    BY DEF Init, Idle, RestoresAreAlone, KeyIsRestoredFirst, AnswersAreTrue
<1>4. KeysExist
    BY Names DEF Init, Idle, KeysExist, Exists
<1> QED
    BY <1>1, <1>2, <1>3, <1>4 DEF IInv

LEMMA StepIsConsistent ==
    ASSUME IInv, ~ReopensWhileRestoring, [Next]_vars
    PROVE  IInv'
<1>1. CASE Edit
    BY <1>1, EditStep
<1>2. CASE Back
    BY <1>2, BackStep
<1>3. CASE Restart
    BY <1>3, RestartStep
<1>4. CASE Close \/ CloseTimer \/ UNCHANGED vars
    BY <1>4, CloseStep
<1>5. CASE Reload
    BY <1>5, ReloadStep
<1>6. CASE \E o \in Orders : OrderMoves(o)
    BY <1>6, OrderMovesStep
<1>7. ASSUME NEW r \in Slots,
             Continue(r) \/ Sent(r) \/ Open(r) \/ PollTimer(r)
      PROVE  IInv'
    BY <1>7, ContinueStep, SentStep, OpenStep, PollTimerStep
<1>8. ASSUME NEW r \in Slots, Served(r) \/ Taken(r) \/ Fail(r)
      PROVE  IInv'
    BY <1>8, ServeOrderStep, ServeLookupStep, TakeCreatedStep, TakeRestoredStep,
       TakePolledStep, FailStep DEF Served, Taken
<1> QED
    BY <1>1, <1>2, <1>3, <1>4, <1>5, <1>6, <1>7, <1>8 DEF Next

LEMMA AlwaysConsistent == ~ReopensWhileRestoring => (Spec => []IInv)
<1> SUFFICES ASSUME ~ReopensWhileRestoring PROVE Spec => []IInv
    OBVIOUS
<1>1. IInv /\ [Next]_vars => IInv'
    BY StepIsConsistent
<1> QED
    BY <1>1, InitIsConsistent, PTL DEF Spec

-----------------------------------------------------------------------------
(* Theorems.                                                               *)

\* What the page keeps, shows and asks for is always of the kind its handlers
\* expect: a session where one is used, a slot of its own for each request.
THEOREM TypeCorrect == ~ReopensWhileRestoring => (Spec => []TypeOK)
<1>1. IInv => TypeOK
    BY InvFacts
<1> QED
    BY <1>1, AlwaysConsistent, PTL

\* The order the customer is asked to pay (session, at the details and while
\* waiting) is the one whose identifier localStorage holds, so that a reload at
\* any moment finds it again.
THEOREM SessionRestorable == ~ReopensWhileRestoring => (Spec => []SessionIsRestorable)
<1>1. IInv => SessionIsRestorable
    BY InvFacts DEF KeysAgree, SessionIsRestorable
<1> QED
    BY <1>1, AlwaysConsistent, PTL

\* The last screen tells the truth about the session's order, although the
\* answer that led to it was given some time before it was taken.
THEOREM OutcomesAreTrue == ~ReopensWhileRestoring => (Spec => []OutcomeIsTrue)
<1>1. IInv => OutcomeIsTrue
    BY InvFacts
<1> QED
    BY <1>1, AlwaysConsistent, PTL

LEMMA KeyGoesWithOutcome ==
    ASSUME IInv, [Next]_vars, pendingKey # NoOrder, pendingKey' = NoOrder
    PROVE  StatusOf(pendingKey, order) \in Resolved \cup {"missing"}
<1>1. ASSUME NEW k, NEW status, status \in Resolved \/ status = "missing",
             StillTrue(status, k), pendingKey = k
      PROVE  StatusOf(pendingKey, order) \in Resolved \cup {"missing"}
    BY <1>1 DEF StillTrue, StatusOf, Resolved
<1>2. ASSUME NEW r \in Slots, TakeRestored(r)
      PROVE  StatusOf(pendingKey, order) \in Resolved \cup {"missing"}
  <2>1. request[r].answer \in Resolved \/ request[r].answer = "missing"
      BY <1>2 DEF TakeRestored
  <2>2. request[r].kind = "restore"
      BY <1>2 DEF TakeRestored
  <2> QED
      BY <1>1, <2>1, <2>2, RestoringFacts
<1>3. ASSUME NEW r \in Slots, TakePolled(r)
      PROVE  StatusOf(pendingKey, order) \in Resolved \cup {"missing"}
  <2>1. request[r].kind = "poll" /\ Wanted(request[r].order) /\ request[r].answer \in Resolved
      BY <1>3 DEF TakePolled
  <2>2. StillTrue(request[r].answer, request[r].order)
      BY <2>1, RequestsHold DEF Holds
  <2>3. request[r].order \in Keys
      BY <2>1, InvFacts, RequestKinds, LookupFields
  <2>4. pendingKey = request[r].order
      BY <2>1, <2>3, Names, InvFacts DEF Wanted, KeysAgree
  <2> QED
      BY <1>1, <2>1, <2>2, <2>4
<1>4. ASSUME NEW r \in Slots, TakeCreated(r)
      PROVE  FALSE
  <2>1. request[r].kind = "created" /\ pendingKey' = request[r].order
      BY <1>4 DEF TakeCreated, CreateFails, Remember
  <2> QED
      BY <2>1, InvFacts, RequestKinds, Names
<1>5. ASSUME NEW r \in Slots,
             Continue(r) \/ Sent(r) \/ Open(r) \/ PollTimer(r) \/ Served(r) \/ Fail(r)
      PROVE  FALSE
    BY <1>5 DEF Continue, Sent, Open, PollTimer, Served, ServeOrder, ServeLookup, Fail, CreateFails
<1>6. /\ ~ UNCHANGED vars
      /\ ~ \E o \in Orders : OrderMoves(o)
      /\ ~(Edit \/ Back \/ Restart \/ Close \/ CloseTimer \/ Reload)
    BY DEF vars, OrderMoves, Edit, Back, Restart, Close, CloseTimer, Reload
<1>7. PICK r \in Slots : Taken(r)
  <2>1. Next
      BY <1>6
  <2> QED
      BY <2>1, <1>5, <1>6 DEF Next
<1> QED
    BY <1>2, <1>3, <1>4, <1>7 DEF Taken

\* localStorage lets go of an identifier only when its order is paid, expired or
\* unknown to the API, whatever answers are still under way.
THEOREM KeysAreKept == ~ReopensWhileRestoring => (Spec => KeyIsKept)
<1>1. IInv /\ [Next]_vars =>
          [pendingKey # NoOrder /\ pendingKey' = NoOrder =>
               StatusOf(pendingKey, order) \in Resolved \cup {"missing"}]_vars
    BY KeyGoesWithOutcome
<1> QED
    BY <1>1, AlwaysConsistent, PTL DEF Spec, KeyIsKept
=============================================================================
