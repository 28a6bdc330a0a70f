------------------------------ MODULE Payments ------------------------------
(***************************************************************************)
(* MercadoPago payments of online orders.  The provider notifies each      *)
(* payment twice, by two protocols, and may notify again; notifications    *)
(* cross, get lost, or reach a handler that fails and still answers 200.   *)
(* The customer may ask for a verification, which does the same work from  *)
(* another side, and the order may be cancelled or expire at any moment.   *)
(*                                                                         *)
(* A handler reads before its transaction (provider, payments row, order)  *)
(* and again inside it; each read is a step.  The writes of a transaction  *)
(* are one step, because the row of the payment or of the order is locked  *)
(* until it commits.  Stock and coupons are in module Orders.              *)
(***************************************************************************)
EXTENDS Naturals, FiniteSets

CONSTANTS
  Orders,
  Payments,      \* payments at the provider, by external id
  PayOrder,      \* external_reference: the order each payment is for
  Webhooks,      \* notification requests in flight
  Verifiers,     \* verification requests in flight
  MaxFailures,   \* notifications that may be lost or fail (a bound of the model)
  NoPayment

ASSUME PaymentsAssumption ==
  /\ PayOrder \in [Payments -> Orders]
  /\ MaxFailures \in Nat
  /\ NoPayment \notin Payments
  /\ Webhooks \cap Verifiers = {}

Protocols == {"webhook", "feed"}   \* WebHook v1.0 and Feed v2.0
Requests == Webhooks \cup Verifiers

VARIABLES
  status,     \* orders.status
  provider,   \* what the provider says of each payment; "pending" is any
              \* answer but "approved"
  links,      \* orders the provider has a payment link for
  rightAmount,\* payments whose transaction_amount is the order's total
  row,        \* payments.status by external_id, "none" without a row
  trail,      \* order_events: what happened, with which payment
  inbox,      \* notifications on their way
  request,    \* local variables of each request in flight
  failures

vars == <<status, provider, links, rightAmount, row, trail, inbox, request, failures>>

Idle == [step |-> "idle", payment |-> NoPayment, found |-> FALSE]

Request == [step : {"idle", "fetch", "lookup", "find", "write"},
            payment : Payments \cup {NoPayment},
            found : BOOLEAN]

TrailEvent == [event : {"paid", "verified", "late"}, payment : Payments]
              \cup [event : {"cancelled"}, payment : {NoPayment}]

TypeOK ==
  /\ status \in [Orders -> {"pending", "paid", "cancelled"}]
  /\ provider \in [Payments -> {"none", "pending", "approved"}]
  /\ links \subseteq Orders
  /\ rightAmount \subseteq Payments
  /\ row \in [Payments -> {"none", "approved"}]
  /\ trail \in [Orders -> SUBSET TrailEvent]
  /\ inbox \subseteq Payments \X Protocols
  /\ request \in [Requests -> Request]
  /\ failures \in 0..MaxFailures

Init ==
  /\ status = [o \in Orders |-> "pending"]
  /\ provider = [x \in Payments |-> "none"]
  /\ links = {}
  /\ rightAmount = {}
  /\ row = [x \in Payments |-> "none"]
  /\ trail = [o \in Orders |-> {}]
  /\ inbox = {}
  /\ request = [r \in Requests |-> Idle]
  /\ failures = 0

-----------------------------------------------------------------------------
\* The provider and the network.

Notify(x) == inbox' = inbox \cup ({x} \X Protocols)

\* The customer pays by a link; several payments may be started for one order.
StartPayment(x, matches) ==
  /\ provider[x] = "none"
  /\ PayOrder[x] \in links
  /\ provider' = [provider EXCEPT ![x] = "pending"]
  /\ rightAmount' = rightAmount \cup (IF matches THEN {x} ELSE {})
  /\ Notify(x)
  /\ UNCHANGED <<status, links, row, trail, request, failures>>

ApprovePayment(x) ==
  /\ provider[x] = "pending"
  /\ provider' = [provider EXCEPT ![x] = "approved"]
  /\ Notify(x)
  /\ UNCHANGED <<status, links, rightAmount, row, trail, request, failures>>

\* A notification whose answer was late is sent again.
Redeliver(x, n) ==
  /\ provider[x] # "none"
  /\ inbox' = inbox \cup {<<x, n>>}
  /\ UNCHANGED <<status, provider, links, rightAmount, row, trail, request, failures>>

-----------------------------------------------------------------------------
\* The payment links.

\* A link for the order's id; no code of ours takes a link back, so one of an
\* order that was cancelled since can still be paid.
CreatePreference(o) ==
  /\ links' = links \cup {o}
  /\ UNCHANGED <<status, provider, rightAmount, row, trail, inbox, request, failures>>

\* After the transaction of the checkout, which does not read the order again.
\* When the provider fails, the order stays without a link.
LinkAtCheckout(o) ==
  /\ o \notin links
  /\ CreatePreference(o)

\* RetryPayment, for an order read as pending.
RetryPayment(o) ==
  /\ status[o] = "pending"
  /\ CreatePreference(o)

-----------------------------------------------------------------------------
\* ProcessPaymentNotification, called by the webhook controller.

Receive(r, x, n) ==
  /\ request[r].step = "idle"
  /\ <<x, n>> \in inbox
  /\ inbox' = inbox \ {<<x, n>>}
  /\ request' = [request EXCEPT ![r].step = "fetch", ![r].payment = x]
  /\ UNCHANGED <<status, provider, links, rightAmount, row, trail, failures>>

Finish(r) == request' = [request EXCEPT ![r] = Idle]

\* getPaymentInfo and getPreferencePayments: the status the provider answers.
PaymentInfo(x) == provider[x]

\* Mutant: the provider's answer is not looked at.
FetchAnyInfo(r) ==
  /\ request[r].step = "fetch"
  /\ request' = [request EXCEPT ![r].step = "lookup"]
  /\ UNCHANGED <<status, provider, links, rightAmount, row, trail, inbox, failures>>

\* Only an approved payment is of interest.
FetchInfo(r) ==
  /\ request[r].step = "fetch"
  /\ IF PaymentInfo(request[r].payment) = "approved"
       THEN request' = [request EXCEPT ![r].step = "lookup"]
       ELSE Finish(r)
  /\ UNCHANGED <<status, provider, links, rightAmount, row, trail, inbox, failures>>

\* Mutant: a notification for an order that is not pending is ignored.
LookupPending(r) ==
  LET x == request[r].payment IN
  /\ request[r].step = "lookup"
  /\ IF row[x] # "approved" /\ x \in rightAmount /\ status[PayOrder[x]] = "pending"
       THEN request' = [request EXCEPT ![r].step = "find"]
       ELSE Finish(r)
  /\ UNCHANGED <<status, provider, links, rightAmount, row, trail, inbox, failures>>

\* Idempotency, order and amount, all read outside the transaction.
Lookup(r) ==
  LET x == request[r].payment IN
  /\ request[r].step = "lookup"
  /\ IF row[x] # "approved" /\ x \in rightAmount
       THEN request' = [request EXCEPT ![r].step = "find"]
       ELSE Finish(r)
  /\ UNCHANGED <<status, provider, links, rightAmount, row, trail, inbox, failures>>

-----------------------------------------------------------------------------
\* VerifyPayment: an order seen pending, then a search at the provider.

\* The payment the search will return first is chosen with the order.
BeginVerify(r, x) ==
  /\ request[r].step = "idle"
  /\ status[PayOrder[x]] = "pending"
  /\ request' = [request EXCEPT ![r].step = "fetch", ![r].payment = x]
  /\ UNCHANGED <<status, provider, links, rightAmount, row, trail, inbox, failures>>

SearchPayment(r) ==
  LET x == request[r].payment IN
  /\ request[r].step = "fetch"
  /\ IF PaymentInfo(x) = "approved" /\ x \in rightAmount
       THEN request' = [request EXCEPT ![r].step = "find"]
       ELSE Finish(r)
  /\ UNCHANGED <<status, provider, links, rightAmount, row, trail, inbox, failures>>

-----------------------------------------------------------------------------
\* The transaction of both.

\* upsertByExternalId looks for the row first.
FindRow(r) ==
  /\ request[r].step = "find"
  /\ request' = [request EXCEPT ![r].step = "write",
                                ![r].found = (row[request[r].payment] # "none")]
  /\ UNCHANGED <<status, provider, links, rightAmount, row, trail, inbox, failures>>

\* The INSERT meets a row another transaction committed since: the unique
\* constraint aborts this one.
UniqueViolation(r) ==
  /\ request[r].step = "write"
  /\ ~ request[r].found
  /\ row[request[r].payment] # "none"
  /\ Finish(r)
  /\ UNCHANGED <<status, provider, links, rightAmount, row, trail, inbox, failures>>

\* Mutants: the transition from another status than pending.
TransitionedAgain(o) == status[o] = "paid"
TransitionedFromAny(o) == status[o] # "paid"

\* atomicStatusTransition pending -> paid: whether it finds the order pending.
Transitioned(o) == status[o] = "pending"

\* Mutant: the late payment is recorded as a cancellation.
OutcomeAsCancelled(r, o) ==
  {[event |-> IF Transitioned(o) THEN "paid" ELSE "cancelled",
    payment |-> request[r].payment]}

\* A notification that does not find the order pending flags a late payment
\* (the event carries the status read before the transaction); a verification
\* that does not says nothing.
Outcome(r, o) ==
  IF Transitioned(o)
    THEN {[event |-> IF r \in Webhooks THEN "paid" ELSE "verified",
           payment |-> request[r].payment]}
    ELSE IF r \in Webhooks
      THEN {[event |-> "late", payment |-> request[r].payment]}
      ELSE {}

\* The payments table with the payment as the provider has it.
Recorded(x) == [row EXCEPT ![x] = "approved"]

CommitPayment(r) ==
  LET x == request[r].payment
      o == PayOrder[x] IN
  /\ request[r].step = "write"
  /\ request[r].found \/ row[x] = "none"
  /\ row' = Recorded(x)
  /\ status' = [status EXCEPT ![o] = IF Transitioned(o) THEN "paid" ELSE @]
  /\ trail' = [trail EXCEPT ![o] = @ \cup Outcome(r, o)]
  /\ Finish(r)
  /\ UNCHANGED <<provider, links, rightAmount, inbox, failures>>

\* Any call throws.  The controller logs and answers 200: no retry comes.  A
\* notification lost on its way is one whose handler fails at once.
FailWebhook(r) ==
  /\ request[r].step # "idle"
  /\ failures < MaxFailures
  /\ Finish(r)
  /\ failures' = failures + 1
  /\ UNCHANGED <<status, provider, links, rightAmount, row, trail, inbox>>

\* A verification that throws is an error the customer sees.
FailVerify(r) ==
  /\ request[r].step # "idle"
  /\ Finish(r)
  /\ UNCHANGED <<status, provider, links, rightAmount, row, trail, inbox, failures>>

\* The order's cancellation by its customer or by the cron.
CancelOrder(o) ==
  /\ status[o] = "pending"
  /\ status' = [status EXCEPT ![o] = "cancelled"]
  /\ trail' = [trail EXCEPT ![o] = @ \cup
       {[event |-> "cancelled", payment |-> NoPayment]}]
  /\ UNCHANGED <<provider, links, rightAmount, row, inbox, request, failures>>

-----------------------------------------------------------------------------
ProviderNext(x) ==
  \/ \E matches \in BOOLEAN : StartPayment(x, matches)
  \/ ApprovePayment(x)
  \/ \E n \in Protocols : Redeliver(x, n)

TransactionNext(r) == FindRow(r) \/ UniqueViolation(r) \/ CommitPayment(r)

\* What a request does once it has begun, when nothing throws.
WebhookStep(r) == FetchInfo(r) \/ Lookup(r) \/ TransactionNext(r)
VerifyStep(r) == SearchPayment(r) \/ TransactionNext(r)

Next ==
  \/ \E x \in Payments : ProviderNext(x)
  \/ \E r \in Webhooks :
       \/ \E x \in Payments, n \in Protocols : Receive(r, x, n)
       \/ WebhookStep(r)
       \/ FailWebhook(r)
  \/ \E r \in Verifiers :
       \/ \E x \in Payments : BeginVerify(r, x)
       \/ VerifyStep(r)
       \/ FailVerify(r)
  \/ \E o \in Orders : RetryPayment(o) \/ LinkAtCheckout(o) \/ CancelOrder(o)

\* A payment with notifications on their way gets one of them through in the
\* end, however many others compete with it, and a handler that is running
\* goes on.  No customer and no provider has to do anything.
Fairness ==
  /\ \A x \in Payments :
       SF_vars(\E r \in Webhooks, n \in Protocols : Receive(r, x, n))
  /\ \A r \in Webhooks : WF_vars(WebhookStep(r))
  /\ \A r \in Verifiers : WF_vars(VerifyStep(r))

Spec == Init /\ [][Next]_vars /\ Fairness

-----------------------------------------------------------------------------
Has(o, kinds) == {e \in trail[o] : e.event \in kinds}

\* An order is paid only when a payment of its total, approved by the
\* provider, is in the payments table: the amount, the provider's answer and
\* the row are read at three different moments.
PaidIsBacked ==
  \A o \in Orders :
    status[o] = "paid" =>
      \E x \in rightAmount :
        PayOrder[x] = o /\ row[x] = "approved" /\ provider[x] = "approved"

\* A recorded payment has settled its order: no interleaving of notification,
\* verification and cancellation leaves money in the table and the order
\* pending, to be cancelled later as unpaid.
RecordedIsSettled ==
  \A x \in Payments : row[x] = "approved" => status[PayOrder[x]] # "pending"

\* However many payments, notifications and verifications an order gets, it
\* is confirmed once, and never after a cancellation.
ConfirmedOnce ==
  \A o \in Orders : Cardinality(Has(o, {"paid", "verified", "cancelled"})) <= 1

\* The life of an order this module implements.
LifeCycle == INSTANCE OrderLifeCycle WITH
  PaidBy <- [event : {"paid", "verified"}, payment : Payments],
  CancelledBy <- [event : {"cancelled"}, payment : {NoPayment}],
  resolvers <- [o \in Orders |-> Has(o, {"paid", "verified", "cancelled"})]

\* However many payments, notifications and verifications an order gets, one
\* of them or a cancellation resolves it and the others leave it as it is,
\* though all of them read before their transactions
\* (process-payment-notification, verify-payment).
ImplementsLifeCycle == LifeCycle!Spec

\* A payment the provider approved is recorded in the end, although one of
\* its notifications may be lost or fail: the second protocol covers for it.
ApprovedIsRecorded ==
  \A x \in Payments :
    (provider[x] = "approved" /\ x \in rightAmount) ~> row[x] = "approved"

-----------------------------------------------------------------------------
\* What the documentation says and the code does not do.

\* docs/modules/orders.md: a payment accepted for a cancelled order leaves an
\* event that asks for the refund.
LatePaymentFlagged ==
  \A x \in Payments :
    (row[x] = "approved" /\ status[PayOrder[x]] = "cancelled") =>
      \E e \in Has(PayOrder[x], {"late"}) : e.payment = x
=============================================================================
