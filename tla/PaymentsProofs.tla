--------------------------- MODULE PaymentsProofs ---------------------------
(***************************************************************************)
(* The payments of online orders, for every set of orders, payments and    *)
(* requests: an order is paid by a payment that is recorded and of its     *)
(* total, a recorded payment has settled its order, and an order is        *)
(* confirmed or cancelled once.                                            *)
(***************************************************************************)
EXTENDS Payments, FiniteSetTheorems, TLAPS

Settling == {"paid", "verified", "cancelled"}

\* A request that got past the provider works on an approved payment; one
\* that reached the transaction, on a payment of the order's total.  Neither
\* can change any more, which is why reading them outside is enough.
RequestsInform ==
  \A r \in Requests :
    /\ request[r].step # "idle" => request[r].payment \in Payments
    /\ request[r].step \in {"lookup", "find", "write"} =>
         provider[request[r].payment] = "approved"
    /\ request[r].step \in {"find", "write"} => request[r].payment \in rightAmount

\* A pending order has no event that settles it, any other at most one.
SettledByOne ==
  \A o \in Orders :
    /\ status[o] = "pending" => \A e \in trail[o] : e.event \notin Settling
    /\ \A e, f \in trail[o] : e.event \in Settling /\ f.event \in Settling => e = f

PaymentInv ==
  /\ TypeOK
  /\ RequestsInform
  /\ SettledByOne
  /\ PaidIsBacked
  /\ RecordedIsSettled

-----------------------------------------------------------------------------
LEMMA InitInv == Init => PaymentInv
<1> SUFFICES ASSUME Init PROVE PaymentInv
  OBVIOUS
<1> USE PaymentsAssumption DEF Init, Idle
<1>1. TypeOK
  BY DEF TypeOK, Request
<1>2. RequestsInform /\ SettledByOne /\ PaidIsBacked /\ RecordedIsSettled
  BY DEF RequestsInform, SettledByOne, PaidIsBacked, RecordedIsSettled
<1>3. QED
  BY <1>1, <1>2 DEF PaymentInv

\* The provider only ever adds, links and payments: what was approved stays approved, and an
\* amount is fixed when its payment starts.
LEMMA ProviderInv ==
  ASSUME PaymentInv,
         \/ \E x \in Payments : ProviderNext(x)
         \/ \E o \in Orders : LinkAtCheckout(o) \/ RetryPayment(o)
  PROVE  PaymentInv'
<1>1. /\ provider' \in [Payments -> {"none", "pending", "approved"}]
      /\ \A y \in Payments : provider[y] = "approved" => provider'[y] = "approved"
      /\ rightAmount \subseteq rightAmount' /\ rightAmount' \subseteq Payments
      /\ inbox' \subseteq Payments \X Protocols
      /\ links' \subseteq Orders
      /\ UNCHANGED <<status, row, trail, request, failures>>
  <2>1. CASE \E x \in Payments, matches \in BOOLEAN : StartPayment(x, matches)
    BY <2>1 DEF PaymentInv, TypeOK, StartPayment, Notify
  <2>2. CASE \E x \in Payments : ApprovePayment(x)
    BY <2>2 DEF PaymentInv, TypeOK, ApprovePayment, Notify
  <2>3. CASE \E x \in Payments, n \in Protocols : Redeliver(x, n)
    BY <2>3 DEF PaymentInv, TypeOK, Redeliver
  <2>4. CASE \E o \in Orders : LinkAtCheckout(o) \/ RetryPayment(o)
    BY <2>4 DEF PaymentInv, TypeOK, LinkAtCheckout, RetryPayment, CreatePreference
  <2>5. QED
    BY <2>1, <2>2, <2>3, <2>4 DEF ProviderNext
<1>2. TypeOK'
  BY <1>1 DEF PaymentInv, TypeOK
<1>3. RequestsInform'
  BY <1>1 DEF PaymentInv, TypeOK, RequestsInform
<1>4. PaidIsBacked'
  BY <1>1 DEF PaymentInv, PaidIsBacked
<1>5. SettledByOne' /\ RecordedIsSettled'
  BY <1>1 DEF PaymentInv, SettledByOne, RecordedIsSettled
<1>6. QED
  BY <1>2, <1>3, <1>4, <1>5 DEF PaymentInv

\* A step of a request outside its commit: what it may become.
Progresses(r) ==
  \/ request'[r] = Idle
  \/ /\ request'[r].payment \in Payments
     /\ request'[r].step \in {"lookup", "find", "write"} =>
          provider[request'[r].payment] = "approved"
     /\ request'[r].step \in {"find", "write"} => request'[r].payment \in rightAmount

LocalStep(r) ==
  /\ request' \in [Requests -> Request]
  /\ \A n \in Requests \ {r} : request'[n] = request[n]
  /\ Progresses(r)
  /\ inbox' \subseteq inbox
  /\ failures' \in 0..MaxFailures
  /\ UNCHANGED <<status, provider, links, rightAmount, row, trail>>

LEMMA LocalInv ==
  ASSUME PaymentInv, NEW r \in Requests, LocalStep(r)
  PROVE  PaymentInv'
<1>1. TypeOK'
  BY DEF PaymentInv, TypeOK, LocalStep
<1>2. RequestsInform'
  BY DEF PaymentInv, RequestsInform, LocalStep, Progresses, Idle
<1>3. SettledByOne' /\ PaidIsBacked' /\ RecordedIsSettled'
  BY DEF PaymentInv, SettledByOne, PaidIsBacked, RecordedIsSettled, LocalStep
<1>4. QED
  BY <1>1, <1>2, <1>3 DEF PaymentInv

LEMMA FinishIsLocal ==
  ASSUME PaymentInv, NEW r \in Requests, Finish(r)
  PROVE  request' \in [Requests -> Request] /\ request'[r] = Idle
         /\ \A n \in Requests \ {r} : request'[n] = request[n]
<1>1. Idle \in Request
  BY DEF Idle, Request
<1>2. QED
  BY <1>1 DEF PaymentInv, TypeOK, Finish

\* The requests read: every step but the commit is a local one.
LEMMA RequestsAreLocal ==
  ASSUME PaymentInv, NEW r \in Requests,
         \/ \E x \in Payments, n \in Protocols : Receive(r, x, n)
         \/ FetchInfo(r) \/ Lookup(r)
         \/ \E x \in Payments : BeginVerify(r, x)
         \/ SearchPayment(r)
         \/ FindRow(r) \/ UniqueViolation(r)
         \/ FailWebhook(r) \/ FailVerify(r)
  PROVE  LocalStep(r)
<1> USE DEF LocalStep, Progresses
<1>0. /\ request \in [Requests -> Request]
      /\ failures \in 0..MaxFailures
      /\ request[r].step # "idle" => request[r].payment \in Payments
      /\ request[r].step \in {"lookup", "find", "write"} =>
           provider[request[r].payment] = "approved"
      /\ request[r].step \in {"find", "write"} => request[r].payment \in rightAmount
  BY DEF PaymentInv, TypeOK, RequestsInform
<1>1. CASE \E x \in Payments, n \in Protocols : Receive(r, x, n)
  <2>1. PICK x \in Payments, n \in Protocols : Receive(r, x, n)
    BY <1>1
  <2>2. request' = [request EXCEPT ![r].step = "fetch", ![r].payment = x]
    BY <2>1 DEF Receive
  <2>3. request' \in [Requests -> Request]
    BY <1>0, <2>2 DEF Request
  <2>4. /\ request'[r].payment = x /\ request'[r].step = "fetch"
        /\ \A m \in Requests \ {r} : request'[m] = request[m]
    BY <1>0, <2>2 DEF Request
  <2>5. /\ inbox' \subseteq inbox
        /\ UNCHANGED <<status, provider, links, rightAmount, row, trail, failures>>
    BY <2>1 DEF Receive
  <2>6. QED
    BY <1>0, <2>3, <2>4, <2>5
<1>2. CASE FetchInfo(r)
  <2>1. CASE Finish(r)
    BY <1>0, <1>2, <2>1, FinishIsLocal DEF FetchInfo, PaymentInfo
  <2>2. CASE /\ provider[request[r].payment] = "approved"
             /\ request' = [request EXCEPT ![r].step = "lookup"]
    BY <1>0, <1>2, <2>2 DEF FetchInfo, PaymentInfo, Request
  <2>3. QED
    BY <1>2, <2>1, <2>2 DEF FetchInfo, PaymentInfo
<1>3. CASE Lookup(r)
  <2>1. CASE Finish(r)
    BY <1>0, <1>3, <2>1, FinishIsLocal DEF Lookup
  <2>2. CASE /\ request[r].payment \in rightAmount
             /\ request' = [request EXCEPT ![r].step = "find"]
    BY <1>0, <1>3, <2>2 DEF Lookup, Request
  <2>3. QED
    BY <1>3, <2>1, <2>2 DEF Lookup
<1>4. CASE \E x \in Payments : BeginVerify(r, x)
  <2>1. PICK x \in Payments : BeginVerify(r, x)
    BY <1>4
  <2>2. request' = [request EXCEPT ![r].step = "fetch", ![r].payment = x]
    BY <2>1 DEF BeginVerify
  <2>3. request' \in [Requests -> Request]
    BY <1>0, <2>2 DEF Request
  <2>4. /\ request'[r].payment = x /\ request'[r].step = "fetch"
        /\ \A m \in Requests \ {r} : request'[m] = request[m]
    BY <1>0, <2>2 DEF Request
  <2>5. UNCHANGED <<status, provider, links, rightAmount, row, trail, inbox, failures>>
    BY <2>1 DEF BeginVerify
  <2>6. QED
    BY <1>0, <2>3, <2>4, <2>5
<1>5. CASE SearchPayment(r)
  <2>1. CASE Finish(r)
    BY <1>0, <1>5, <2>1, FinishIsLocal DEF SearchPayment, PaymentInfo
  <2>2. CASE /\ provider[request[r].payment] = "approved"
             /\ request[r].payment \in rightAmount
             /\ request' = [request EXCEPT ![r].step = "find"]
    BY <1>0, <1>5, <2>2 DEF SearchPayment, PaymentInfo, Request
  <2>3. QED
    BY <1>5, <2>1, <2>2 DEF SearchPayment, PaymentInfo
<1>6. CASE FindRow(r)
  BY <1>0, <1>6 DEF FindRow, Request
<1>7. CASE UniqueViolation(r)
  BY <1>0, <1>7, FinishIsLocal DEF UniqueViolation
<1>8. CASE FailWebhook(r)
  BY <1>0, <1>8, FinishIsLocal, PaymentsAssumption DEF FailWebhook
<1>9. CASE FailVerify(r)
  BY <1>0, <1>9, FinishIsLocal DEF FailVerify
<1>10. QED
  BY <1>1, <1>2, <1>3, <1>4, <1>5, <1>6, <1>7, <1>8, <1>9

\* The commit: row, status and event are written together, on what the row
\* lock lets it see.
LEMMA CommitInv ==
  ASSUME PaymentInv, NEW r \in Requests, CommitPayment(r)
  PROVE  PaymentInv'
<1> DEFINE x == request[r].payment
           o == PayOrder[x]
<1>1. /\ x \in Payments /\ o \in Orders
      /\ provider[x] = "approved" /\ x \in rightAmount
      /\ r \in Webhooks \/ r \in Verifiers
  BY PaymentsAssumption DEF PaymentInv, RequestsInform, CommitPayment, Requests
<1>2. /\ row' = [row EXCEPT ![x] = "approved"]
      /\ status' = [status EXCEPT ![o] = IF status[o] = "pending" THEN "paid" ELSE @]
      /\ trail' = [trail EXCEPT ![o] = @ \cup Outcome(r, o)]
      /\ Finish(r)
      /\ UNCHANGED <<provider, links, rightAmount, inbox, failures>>
  BY DEF CommitPayment, Transitioned, Recorded
<1>3. /\ Outcome(r, o) \subseteq TrailEvent
      /\ \A e \in Outcome(r, o) : e.event \in {"paid", "verified", "late"}
      /\ \A e, f \in Outcome(r, o) : e = f
      /\ status[o] # "pending" => \A e \in Outcome(r, o) : e.event = "late"
  BY <1>1 DEF Outcome, Transitioned, TrailEvent
<1> HIDE DEF x, o
<1>4. /\ status'[o] # "pending"
      /\ \A n \in Orders \ {o} : status'[n] = status[n] /\ trail'[n] = trail[n]
      /\ trail'[o] = trail[o] \cup Outcome(r, o)
      /\ row'[x] = "approved"
      /\ \A y \in Payments \ {x} : row'[y] = row[y]
  BY <1>1, <1>2 DEF PaymentInv, TypeOK
<1>5. TypeOK'
  <2>1. status' \in [Orders -> {"pending", "paid", "cancelled"}]
    BY <1>1, <1>2 DEF PaymentInv, TypeOK
  <2>2. trail' \in [Orders -> SUBSET TrailEvent]
    BY <1>1, <1>2, <1>3 DEF PaymentInv, TypeOK
  <2>3. row' \in [Payments -> {"none", "approved"}]
    BY <1>1, <1>2 DEF PaymentInv, TypeOK
  <2>4. request' \in [Requests -> Request]
    BY <1>2, FinishIsLocal
  <2>5. QED
    BY <1>2, <2>1, <2>2, <2>3, <2>4 DEF PaymentInv, TypeOK
<1>6. RequestsInform'
  <2>1. request'[r] = Idle /\ \A n \in Requests \ {r} : request'[n] = request[n]
    BY <1>2, FinishIsLocal
  <2>2. QED
    BY <1>2, <2>1 DEF PaymentInv, RequestsInform, Idle
<1>7. SettledByOne'
  <2>1. CASE status[o] = "pending"
    BY <1>1, <1>3, <1>4, <2>1 DEF PaymentInv, SettledByOne, Settling
  <2>2. CASE status[o] # "pending"
    BY <1>1, <1>3, <1>4, <2>2 DEF PaymentInv, SettledByOne, Settling
  <2>3. QED
    BY <2>1, <2>2
<1>8. PaidIsBacked'
  <2> SUFFICES ASSUME NEW n \in Orders, status'[n] = "paid"
               PROVE  \E y \in rightAmount' :
                        PayOrder[y] = n /\ row'[y] = "approved" /\ provider'[y] = "approved"
    BY DEF PaidIsBacked
  <2>1. CASE n = o
    BY <1>1, <1>2, <1>4, <2>1 DEF o
  <2>2. CASE n # o
    BY <1>1, <1>2, <1>4, <2>2 DEF PaymentInv, TypeOK, PaidIsBacked
  <2>3. QED
    BY <2>1, <2>2
<1>9. RecordedIsSettled'
  BY <1>1, <1>4, PaymentsAssumption DEF PaymentInv, RecordedIsSettled, o
<1>10. QED
  BY <1>5, <1>6, <1>7, <1>8, <1>9 DEF PaymentInv

LEMMA CancelInv ==
  ASSUME PaymentInv, NEW o \in Orders, CancelOrder(o)
  PROVE  PaymentInv'
<1> DEFINE e == [event |-> "cancelled", payment |-> NoPayment]
<1>1. /\ status[o] = "pending" /\ status'[o] = "cancelled"
      /\ \A n \in Orders \ {o} : status'[n] = status[n] /\ trail'[n] = trail[n]
      /\ trail'[o] = trail[o] \cup {e}
      /\ UNCHANGED <<provider, links, rightAmount, row, inbox, request, failures>>
  BY DEF PaymentInv, TypeOK, CancelOrder
<1>2. TypeOK'
  <2>1. e \in TrailEvent
    BY DEF TrailEvent
  <2>2. trail' \in [Orders -> SUBSET TrailEvent]
    BY <2>1 DEF PaymentInv, TypeOK, CancelOrder
  <2>3. QED
    BY <2>2 DEF PaymentInv, TypeOK, CancelOrder
<1>3. RequestsInform'
  BY <1>1 DEF PaymentInv, RequestsInform
<1>4. SettledByOne'
  BY <1>1 DEF PaymentInv, SettledByOne, Settling
<1>5. PaidIsBacked' /\ RecordedIsSettled'
  <2>1. \A n \in Orders :
          /\ status'[n] = "paid" => status[n] = "paid"
          /\ status'[n] = "pending" => status[n] = "pending"
    BY <1>1
  <2>2. PaidIsBacked'
    BY <1>1, <2>1 DEF PaymentInv, PaidIsBacked
  <2>3. RecordedIsSettled'
    BY <1>1, <2>1, PaymentsAssumption DEF PaymentInv, RecordedIsSettled
  <2>4. QED
    BY <2>2, <2>3
<1>6. QED
  BY <1>2, <1>3, <1>4, <1>5 DEF PaymentInv

LEMMA NextInv == PaymentInv /\ [Next]_vars => PaymentInv'
<1> SUFFICES ASSUME PaymentInv, [Next]_vars PROVE PaymentInv'
  OBVIOUS
<1>1. CASE \/ \E x \in Payments : ProviderNext(x)
           \/ \E o \in Orders : LinkAtCheckout(o) \/ RetryPayment(o)
  BY <1>1, ProviderInv
<1>2. CASE \E r \in Requests : CommitPayment(r)
  BY <1>2, CommitInv
<1>3. CASE \E r \in Requests :
             \/ \E x \in Payments, n \in Protocols : Receive(r, x, n)
             \/ FetchInfo(r) \/ Lookup(r)
             \/ \E x \in Payments : BeginVerify(r, x)
             \/ SearchPayment(r)
             \/ FindRow(r) \/ UniqueViolation(r)
             \/ FailWebhook(r) \/ FailVerify(r)
  BY <1>3, RequestsAreLocal, LocalInv
<1>4. CASE \E o \in Orders : CancelOrder(o)
  BY <1>4, CancelInv
<1>5. CASE UNCHANGED vars
  BY <1>5 DEF vars, PaymentInv, TypeOK, RequestsInform, SettledByOne,
              PaidIsBacked, RecordedIsSettled
<1>6. QED
  BY <1>1, <1>2, <1>3, <1>4, <1>5
     DEF Next, Requests, WebhookStep, VerifyStep, TransactionNext

THEOREM PaymentsInvariant == Spec => []PaymentInv
BY InitInv, NextInv, PTL DEF Spec

THEOREM PaymentsTyped == Spec => []TypeOK
<1>1. PaymentInv => TypeOK
  BY DEF PaymentInv
<1>2. QED
  BY <1>1, PaymentsInvariant, PTL

\* An order is paid only by an approved, recorded payment of its total.
THEOREM PaidOrdersAreBacked == Spec => []PaidIsBacked
<1>1. PaymentInv => PaidIsBacked
  BY DEF PaymentInv
<1>2. QED
  BY <1>1, PaymentsInvariant, PTL

\* No payment is recorded for an order that stays open.
THEOREM RecordedPaymentsSettle == Spec => []RecordedIsSettled
<1>1. PaymentInv => RecordedIsSettled
  BY DEF PaymentInv
<1>2. QED
  BY <1>1, PaymentsInvariant, PTL

\* However many notifications and verifications race for an order, one event
\* settles it.
THEOREM OrdersConfirmedOnce == Spec => []ConfirmedOnce
<1>1. PaymentInv => ConfirmedOnce
  <2> SUFFICES ASSUME PaymentInv, NEW o \in Orders
               PROVE  Cardinality(Has(o, Settling)) <= 1
    BY DEF ConfirmedOnce, Settling
  <2> DEFINE R == Has(o, Settling)
  <2>1. CASE R = {}
    BY <2>1, FS_EmptySet
  <2>2. CASE R # {}
    <3>1. PICK e : R = {e}
      BY <2>2 DEF PaymentInv, SettledByOne, Has
    <3>2. QED
      BY <3>1, FS_Singleton
  <2>3. QED
    BY <2>1, <2>2
<1>2. QED
  BY <1>1, PaymentsInvariant, PTL

-----------------------------------------------------------------------------
\* The refinement.  The resolvers of the life cycle, under the mapping of
\* module Payments.
LifeResolvers == [o \in Orders |-> Has(o, Settling)]

LEMMA InitLives == Init => LifeCycle!Init
<1> SUFFICES ASSUME Init PROVE LifeCycle!Init
  OBVIOUS
<1>1. status \in [Orders -> {"none", "pending"}]
  BY DEF Init
<1>2. LifeResolvers = [o \in Orders |-> {}]
  BY DEF Init, LifeResolvers, Has
<1>3. QED
  BY <1>1, <1>2 DEF LifeCycle!Init, LifeResolvers, Settling

\* A commit that finds its order pending resolves it; one that does not leaves
\* a late payment at most.
LEMMA CommitLives ==
  ASSUME PaymentInv, NEW r \in Requests, CommitPayment(r)
  PROVE  LifeCycle!Next \/ UNCHANGED LifeCycle!vars
<1> DEFINE x == request[r].payment
           o == PayOrder[x]
<1>1. /\ x \in Payments /\ o \in Orders /\ r \in Webhooks \cup Verifiers
      /\ status' = [status EXCEPT ![o] = IF status[o] = "pending" THEN "paid" ELSE @]
      /\ trail' = [trail EXCEPT ![o] = @ \cup Outcome(r, o)]
  BY PaymentsAssumption DEF PaymentInv, RequestsInform, CommitPayment, Requests, Transitioned
<1>2. PICK n : n = o
  OBVIOUS
<1>3. /\ trail'[n] = trail[n] \cup Outcome(r, n)
      /\ \A m \in Orders \ {n} : trail'[m] = trail[m] /\ Has(m, Settling)' = Has(m, Settling)
  BY <1>1, <1>2 DEF PaymentInv, TypeOK, Has
<1>4. CASE status[n] = "pending"
  <2>1. PICK e : /\ Outcome(r, n) = {e}
                 /\ e \in [event : {"paid", "verified"}, payment : Payments]
    <3>1. PICK e : e = [event |-> IF r \in Webhooks THEN "paid" ELSE "verified", payment |-> x]
      OBVIOUS
    <3>2. e \in [event : {"paid", "verified"}, payment : Payments]
      BY <1>1, <3>1
    <3>3. Outcome(r, n) = {e}
      BY <1>4, <3>1 DEF Outcome, Transitioned
    <3>4. QED
      BY <3>2, <3>3
  <2>2. Has(n, Settling) = {}
    BY <1>1, <1>2, <1>4 DEF PaymentInv, SettledByOne, Has
  <2>3. Has(n, Settling)' = {e}
    BY <1>3, <2>1, <2>2 DEF Has, Settling
  <2>4. LifeResolvers' = [LifeResolvers EXCEPT ![n] = {e}]
    BY <1>3, <2>3 DEF LifeResolvers
  <2>5. status' = [status EXCEPT ![n] = "paid"]
    BY <1>1, <1>2, <1>4
  <2>6. LifeCycle!Resolve(n, e, "paid")
    BY <1>4, <2>4, <2>5 DEF LifeCycle!Resolve, LifeResolvers, Settling
  <2>7. QED
    BY <1>1, <1>2, <2>1, <2>6 DEF LifeCycle!Next
<1>5. CASE status[n] # "pending"
  <2>1. \A e \in Outcome(r, n) : e.event = "late"
    BY <1>5 DEF Outcome, Transitioned
  <2>2. Has(n, Settling)' = Has(n, Settling)
    BY <1>3, <2>1 DEF Has, Settling
  <2>3. LifeResolvers' = LifeResolvers
    BY <1>3, <2>2 DEF LifeResolvers
  <2>4. status' = status
    BY <1>1, <1>2, <1>5 DEF PaymentInv, TypeOK
  <2>5. QED
    BY <2>3, <2>4 DEF LifeCycle!vars, LifeResolvers, Settling
<1>6. QED
  BY <1>4, <1>5

LEMMA CancelLives ==
  ASSUME PaymentInv, NEW o \in Orders, CancelOrder(o)
  PROVE  LifeCycle!Next
<1>1. PICK e : e = [event |-> "cancelled", payment |-> NoPayment]
  OBVIOUS
<1>2. /\ status[o] = "pending" /\ status' = [status EXCEPT ![o] = "cancelled"]
      /\ trail'[o] = trail[o] \cup {e} /\ \A n \in Orders \ {o} : trail'[n] = trail[n]
  BY <1>1 DEF PaymentInv, TypeOK, CancelOrder
<1>3. Has(o, Settling) = {}
  BY <1>2 DEF PaymentInv, SettledByOne, Has
<1>4. Has(o, Settling)' = {e} /\ \A n \in Orders \ {o} : Has(n, Settling)' = Has(n, Settling)
  BY <1>1, <1>2, <1>3 DEF Has, Settling
<1>5. LifeResolvers' = [LifeResolvers EXCEPT ![o] = {e}]
  BY <1>4 DEF LifeResolvers
<1>6. LifeCycle!Resolve(o, e, "cancelled")
  BY <1>2, <1>5 DEF LifeCycle!Resolve, LifeResolvers, Settling
<1>7. QED
  BY <1>1, <1>6 DEF LifeCycle!Next

LEMMA RestLives ==
  ASSUME UNCHANGED <<status, trail>>
  PROVE  UNCHANGED LifeCycle!vars
<1>1. LifeResolvers' = LifeResolvers
  BY DEF LifeResolvers, Has
<1>2. QED
  BY <1>1 DEF LifeCycle!vars, LifeResolvers, Settling

LEMMA StepLives ==
  ASSUME PaymentInv, [Next]_vars
  PROVE  [LifeCycle!Next]_(LifeCycle!vars)
<1>1. \/ UNCHANGED <<status, trail>>
      \/ \E r \in Requests : CommitPayment(r)
      \/ \E o \in Orders : CancelOrder(o)
  BY DEF Next, LinkAtCheckout, RetryPayment, CreatePreference, ProviderNext, StartPayment, ApprovePayment, Redeliver, Receive, WebhookStep,
    FetchInfo, Lookup, VerifyStep, SearchPayment, BeginVerify, TransactionNext, FindRow,
    UniqueViolation, FailWebhook, FailVerify, Requests, vars
<1>2. QED
  BY <1>1, RestLives, CommitLives, CancelLives

\* Notifications and verifications implement the order life cycle, with the
\* payments as what resolves an order: the first commit that finds it pending
\* pays for it, all others leave it as it is.
THEOREM PaymentsFollowLifeCycle == Spec => ImplementsLifeCycle
<1>1. PaymentInv /\ [Next]_vars => [LifeCycle!Next]_(LifeCycle!vars)
  BY StepLives
<1>2. QED
  BY <1>1, InitLives, PaymentsInvariant, PTL DEF Spec, ImplementsLifeCycle, LifeCycle!Spec
=============================================================================
