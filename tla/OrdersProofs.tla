---------------------------- MODULE OrdersProofs ----------------------------
(***************************************************************************)
(* Online orders, for every set of customers, administrators, products and *)
(* coupons and every finite set of orders: the orders are well typed, they *)
(* implement the stock ledger, and the properties of module Orders hold.   *)
(***************************************************************************)
EXTENDS Orders, FiniteSetTheorems, TLAPS

Resolvers == {"payment", "customer", "cron"}

\* An order exists from its commit on, and has no event before.
PlacedRows ==
  \A o \in Orders :
    /\ (request[o].step = "placed") <=> (status[o] # "none")
    /\ request[o].step # "placed" => events[o] = {}

\* No payment, customer or cron has touched an order that is still pending,
\* and at most one of them, once, touched any other.
OneResolver ==
  \A o \in Orders :
    /\ status[o] = "pending" => \A e \in events[o] : e.by \notin Resolvers
    /\ \A e, f \in events[o] : e.by \in Resolvers /\ f.by \in Resolvers => e = f

\* An administrator's request holds a transition of the table, read from an
\* order that exists.
ChangeFromTable ==
  \A a \in Admins :
    change[a].step # "idle" =>
      /\ change[a].order \in Orders
      /\ change[a].from \in Statuses
      /\ change[a].to \in ValidTransitions[change[a].from]
      /\ request[change[a].order].step = "placed"

\* The inductive invariant.  A released order is cancelled, and cancelled has
\* no successor in the table: that is why a stale read cannot revive it, and
\* why a second release cannot happen.
OrderInv ==
  /\ TypeOK
  /\ PlacedRows
  /\ OneResolver
  /\ ChangeFromTable
  /\ ReleasedIsCancelled

-----------------------------------------------------------------------------
\* What the proofs need of the table: no status returns to pending, and a
\* cancelled order stays cancelled.
LEMMA Table ==
  \A s \in Statuses :
    /\ ValidTransitions[s] \subseteq Statuses \ {"pending"}
    /\ s = "cancelled" => ValidTransitions[s] = {}
BY DEF Statuses, ValidTransitions

LEMMA InitInv == Init => OrderInv
<1> SUFFICES ASSUME Init PROVE OrderInv
  OBVIOUS
<1> USE OrdersAssumption DEF Init, Blank, NoChange, Request, Change
<1>1. TypeOK
  BY DEF TypeOK, Cart
<1>2. PlacedRows /\ OneResolver /\ ChangeFromTable /\ ReleasedIsCancelled
  BY DEF PlacedRows, OneResolver, ChangeFromTable, ReleasedIsCancelled, Released
<1>3. QED
  BY <1>1, <1>2 DEF OrderInv

\* The cart is typed and nothing else depends on it.
LEMMA CartInv ==
  ASSUME OrderInv, NEW u \in Users, CartNext(u)
  PROVE  OrderInv'
<1>1. cart' \in [Users -> [Products -> Nat]]
  <2>1. ASSUME NEW p \in Products, NEW q \in 1..InitStock[p],
               AddCartItem(u, p, q) \/ UpdateCartItem(u, p, q)
        PROVE  cart' \in [Users -> [Products -> Nat]]
    <3>1. q \in Nat
      BY OrdersAssumption, <2>1
    <3>2. cart[u][p] + q \in Nat
      BY <3>1, <2>1 DEF OrderInv, TypeOK, Cart
    <3>3. QED
      BY <3>1, <3>2, <2>1 DEF OrderInv, TypeOK, Cart, AddCartItem, UpdateCartItem
  <2>2. ASSUME NEW p \in Products, RemoveCartItem(u, p)
        PROVE  cart' \in [Users -> [Products -> Nat]]
    BY <2>2 DEF OrderInv, TypeOK, Cart, RemoveCartItem
  <2>3. CASE ClearCart(u)
    BY <2>3 DEF OrderInv, TypeOK, Cart, ClearCart, EmptyCart
  <2>4. QED
    BY <2>1, <2>2, <2>3 DEF CartNext
<1>2. UNCHANGED <<stock, uses, request, status, events, change>>
  BY DEF CartNext, AddCartItem, UpdateCartItem, RemoveCartItem, ClearCart
<1>3. QED
  BY <1>1, <1>2 DEF OrderInv, TypeOK, Cart, PlacedRows, OneResolver, ChangeFromTable,
                    ReleasedIsCancelled, Released

\* Until it commits a checkout changes its own local state and no row.
LEMMA ReadingInv ==
  ASSUME OrderInv, NEW o \in Orders,
         \/ \E u \in Users, c \in Coupons \cup {NoCoupon} : BeginCheckout(o, u, c)
         \/ CheckCoupon(o)
         \/ CountCouponOrders(o)
         \/ RollbackCheckout(o)
  PROVE  OrderInv'
<1>1. /\ request' \in [Orders -> Request]
      /\ request[o].step # "placed" /\ request'[o].step # "placed"
      /\ \A n \in Orders \ {o} : request'[n] = request[n]
  <2>1. CASE \E u \in Users, c \in Coupons \cup {NoCoupon} : BeginCheckout(o, u, c)
    BY <2>1 DEF OrderInv, TypeOK, Cart, Request, BeginCheckout
  <2>2. CASE CheckCoupon(o) \/ CountCouponOrders(o)
    <3>1. PICK s \in {"counting", "validated"} :
            request' = [request EXCEPT ![o].step = s]
      BY <2>2 DEF CheckCoupon, CountCouponOrders
    <3>2. request[o].step # "placed"
      BY <2>2 DEF CheckCoupon, CountCouponOrders
    <3>3. QED
      BY <3>1, <3>2 DEF OrderInv, TypeOK, Cart, Request
  <2>3. CASE RollbackCheckout(o)
    BY <2>3 DEF OrderInv, TypeOK, Cart, Request, RollbackCheckout, Blank
  <2>4. QED
    BY <2>1, <2>2, <2>3
<1>2. UNCHANGED <<cart, stock, uses, status, events, change>>
  BY DEF BeginCheckout, CheckCoupon, CountCouponOrders, RollbackCheckout
<1>3. \A n \in Orders : request'[n].step = "placed" <=> request[n].step = "placed"
  BY <1>1
<1>4. TypeOK'
  BY <1>1, <1>2 DEF OrderInv, TypeOK, Cart
<1>5. PlacedRows' /\ OneResolver' /\ ChangeFromTable' /\ ReleasedIsCancelled'
  BY <1>2, <1>3 DEF OrderInv, PlacedRows, OneResolver, ChangeFromTable,
                    ReleasedIsCancelled, Released
<1>6. QED
  BY <1>4, <1>5 DEF OrderInv

\* The commit creates the order with its first event.
LEMMA CommitInv ==
  ASSUME OrderInv, NEW o \in Orders, CommitCheckout(o)
  PROVE  OrderInv'
<1> DEFINE q == request[o].items
<1>1. /\ stock' \in [Products -> Nat]
      /\ uses' \in [Coupons -> Nat]
  <2>1. q \in [Products -> Nat] /\ stock \in [Products -> Nat] /\ uses \in [Coupons -> Nat]
    BY DEF OrderInv, TypeOK, Cart, Request
  <2>2. /\ \A p \in Products : q[p] <= stock[p]
        /\ stock' = [p \in Products |-> stock[p] - q[p]]
        /\ uses' = [k \in Coupons |-> IF k = request[o].coupon THEN uses[k] + 1 ELSE uses[k]]
    BY DEF CommitCheckout, StockDecremented, CouponIncremented
  <2> HIDE DEF q
  <2>3. \A p \in Products : stock[p] - q[p] \in Nat
    BY <2>1, <2>2
  <2>4. QED
    BY <2>1, <2>2, <2>3
<1>2. /\ cart' \in [Users -> [Products -> Nat]]
      /\ request' \in [Orders -> Request]
  <2>1. EmptyCart \in [Products -> Nat]
    BY DEF EmptyCart
  <2>2. cart' \in [Users -> [Products -> Nat]]
    BY <2>1 DEF OrderInv, TypeOK, Cart, CommitCheckout
  <2>3. request' = [request EXCEPT ![o].step = "placed"]
    BY DEF CommitCheckout
  <2>4. request' \in [Orders -> Request]
    BY <2>3 DEF OrderInv, TypeOK, Cart, Request
  <2>5. QED
    BY <2>2, <2>4
<1>3. status' \in [Orders -> Statuses \cup {"none"}] /\ events' \in [Orders -> SUBSET Event]
  BY DEF OrderInv, TypeOK, Cart, CommitCheckout, Statuses, Event
<1>4. TypeOK'
  BY <1>1, <1>2, <1>3 DEF OrderInv, TypeOK, Cart, CommitCheckout
<1>5. /\ status'[o] = "pending" /\ request'[o].step = "placed"
      /\ events'[o] = {[status |-> "pending", by |-> "checkout"]}
      /\ request[o].step = "validated"
      /\ \A n \in Orders \ {o} : /\ status'[n] = status[n]
                                 /\ request'[n] = request[n]
                                 /\ events'[n] = events[n]
      /\ change' = change
  BY DEF OrderInv, TypeOK, Cart, CommitCheckout
<1>6. PlacedRows'
  BY <1>5 DEF OrderInv, PlacedRows
<1>7. OneResolver'
  BY <1>5 DEF OrderInv, OneResolver, Resolvers
<1>8. ChangeFromTable'
  BY <1>5 DEF OrderInv, ChangeFromTable
<1>9. ReleasedIsCancelled'
  BY <1>5 DEF OrderInv, ReleasedIsCancelled, Released
<1>10. QED
  BY <1>4, <1>6, <1>7, <1>8, <1>9 DEF OrderInv

\* What every resolution of a pending order leaves true: it appends an event
\* of a resolver to a trail that had none, and moves the order off pending.
LEMMA ResolveInv ==
  ASSUME OrderInv, NEW o \in Orders, ResolveNext(o)
  PROVE  OrderInv'
<1>1. PICK s \in {"paid", "cancelled"}, who \in Resolvers :
        /\ s = "cancelled" <=> who # "payment"
        /\ StatusTransition(o, "pending", s)
        /\ Record(o, s, who)
        /\ s = "paid" => UNCHANGED <<stock, uses>>
        /\ s = "cancelled" => /\ StockRestored(request[o].items)
                              /\ CouponDecremented(request[o].coupon)
        /\ UNCHANGED <<cart, request, change>>
  BY DEF ResolveNext, CancelOrder, ExpireOrder, Release, ConfirmPayment, Resolvers
<1> DEFINE e == [status |-> s, by |-> who]
<1>2. /\ status[o] = "pending" /\ status'[o] = s
      /\ events'[o] = events[o] \cup {e}
      /\ \A n \in Orders \ {o} : status'[n] = status[n] /\ events'[n] = events[n]
      /\ request' = request /\ change' = change
  BY <1>1 DEF OrderInv, TypeOK, Cart, StatusTransition, Record
<1>3. TypeOK'
  <2>1. stock' \in [Products -> Nat]
    <3>1. \A p \in Products : stock[p] + request[o].items[p] \in Nat
      BY DEF OrderInv, TypeOK, Cart, Request
    <3>2. QED
      BY <1>1, <3>1 DEF OrderInv, TypeOK, Cart, StockRestored
  <2>2. uses' \in [Coupons -> Nat]
    BY <1>1 DEF OrderInv, TypeOK, Cart, CouponDecremented
  <2>3. status' \in [Orders -> Statuses \cup {"none"}]
    BY <1>1 DEF OrderInv, TypeOK, Cart, StatusTransition, Statuses
  <2>4. events' \in [Orders -> SUBSET Event]
    <3>1. e \in Event
      BY <1>1 DEF Event, Statuses, Resolvers
    <3>2. QED
      BY <1>1, <3>1 DEF OrderInv, TypeOK, Cart, Record
  <2>5. QED
    BY <1>1, <2>1, <2>2, <2>3, <2>4 DEF OrderInv, TypeOK, Cart
<1>4. PlacedRows'
  BY <1>1, <1>2 DEF OrderInv, PlacedRows
<1>5. OneResolver'
  BY <1>1, <1>2 DEF OrderInv, OneResolver, Resolvers
<1>6. ChangeFromTable'
  BY <1>2 DEF OrderInv, ChangeFromTable
<1>7. ReleasedIsCancelled'
  <2>1. ~ Released(o)
    BY <1>2 DEF OrderInv, ReleasedIsCancelled
  <2>2. Released(o)' => s = "cancelled"
    BY <1>1, <1>2, <2>1 DEF Released, Resolvers
  <2>3. QED
    BY <1>2, <2>2 DEF OrderInv, ReleasedIsCancelled, Released
<1>8. QED
  BY <1>3, <1>4, <1>5, <1>6, <1>7 DEF OrderInv

\* The administrator's statements: only the second writes the order's status
\* and only the third its trail, with an event that is no resolver's.
LEMMA AdminInv ==
  ASSUME OrderInv, NEW a \in Admins, AdminNext(a)
  PROVE  OrderInv'
<1>1. CASE \E o \in Orders, to \in AdminTargets : ReadForChange(a, o, to)
  <2>1. PICK o \in Orders, to \in AdminTargets : ReadForChange(a, o, to)
    BY <1>1
  <2>2. status[o] \in Statuses /\ to \in Statuses
    BY <2>1, Table DEF OrderInv, TypeOK, Cart, ReadForChange
  <2>3. TypeOK'
    BY <2>1, <2>2 DEF OrderInv, TypeOK, Cart, Change, ReadForChange
  <2>4. ChangeFromTable'
    BY <2>1, <2>2 DEF OrderInv, TypeOK, Cart, ReadForChange, ChangeFromTable, PlacedRows
  <2>5. PlacedRows' /\ OneResolver' /\ ReleasedIsCancelled'
    BY <2>1 DEF OrderInv, ReadForChange, PlacedRows, OneResolver,
                ReleasedIsCancelled, Released
  <2>6. QED
    BY <2>3, <2>4, <2>5 DEF OrderInv
<1>2. CASE ApplyChange(a)
  <2> DEFINE o == change[a].order
             to == change[a].to
  <2>1. /\ o \in Orders /\ to \in Statuses \ {"pending"}
        /\ status[o] # "cancelled"
        /\ request[o].step = "placed"
    BY <1>2, Table DEF OrderInv, ApplyChange, StatusTransition, ChangeFromTable
  <2>2. /\ status'[o] = to
        /\ \A n \in Orders \ {o} : status'[n] = status[n]
        /\ status' \in [Orders -> Statuses \cup {"none"}]
        /\ UNCHANGED <<cart, stock, uses, request, events>>
    BY <1>2, <2>1 DEF OrderInv, TypeOK, Cart, ApplyChange, StatusTransition
  <2>3. /\ change' \in [Admins -> Change]
        /\ \A b \in Admins : /\ change'[b].order = change[b].order
                             /\ change'[b].from = change[b].from
                             /\ change'[b].to = change[b].to
                             /\ change'[b].step = "idle" <=> change[b].step = "idle"
    BY <1>2 DEF OrderInv, TypeOK, Cart, Change, ApplyChange
  <2>4. TypeOK'
    BY <2>2, <2>3 DEF OrderInv, TypeOK, Cart
  <2>5. PlacedRows'
    BY <2>1, <2>2 DEF OrderInv, PlacedRows, Statuses
  <2>6. OneResolver'
    BY <2>1, <2>2 DEF OrderInv, OneResolver
  <2>7. ChangeFromTable'
    BY <2>2, <2>3 DEF OrderInv, ChangeFromTable
  <2>8. ReleasedIsCancelled'
    BY <2>1, <2>2 DEF OrderInv, ReleasedIsCancelled, Released
  <2>9. QED
    BY <2>4, <2>5, <2>6, <2>7, <2>8 DEF OrderInv
<1>3. CASE RecordChange(a)
  <2> DEFINE o == change[a].order
             e == [status |-> change[a].to, by |-> "admin"]
  <2>1. o \in Orders /\ e \in Event /\ request[o].step = "placed"
    BY <1>3, Table DEF OrderInv, RecordChange, ChangeFromTable, Event
  <2>2. /\ events'[o] = events[o] \cup {e}
        /\ \A n \in Orders \ {o} : events'[n] = events[n]
        /\ events' \in [Orders -> SUBSET Event]
        /\ UNCHANGED <<cart, stock, uses, request, status>>
    BY <1>3, <2>1 DEF OrderInv, TypeOK, Cart, RecordChange, Record
  <2>3. TypeOK'
    BY <1>3, <2>2 DEF OrderInv, TypeOK, Cart, Change, RecordChange, NoChange
  <2>4. PlacedRows'
    BY <2>1, <2>2 DEF OrderInv, PlacedRows
  <2>5. OneResolver'
    BY <2>1, <2>2 DEF OrderInv, OneResolver, Resolvers
  <2>6. ChangeFromTable'
    BY <1>3, <2>2 DEF OrderInv, TypeOK, Cart, ChangeFromTable, RecordChange, NoChange
  <2>7. ReleasedIsCancelled'
    BY <2>1, <2>2 DEF OrderInv, ReleasedIsCancelled, Released
  <2>8. QED
    BY <2>3, <2>4, <2>5, <2>6, <2>7 DEF OrderInv
<1>4. CASE AbandonChange(a)
  <2>1. TypeOK'
    BY <1>4 DEF OrderInv, TypeOK, Cart, Change, AbandonChange, NoChange
  <2>2. ChangeFromTable'
    BY <1>4 DEF OrderInv, TypeOK, Cart, AbandonChange, NoChange, ChangeFromTable
  <2>3. PlacedRows' /\ OneResolver' /\ ReleasedIsCancelled'
    BY <1>4 DEF OrderInv, AbandonChange, PlacedRows, OneResolver,
                ReleasedIsCancelled, Released
  <2>4. QED
    BY <2>1, <2>2, <2>3 DEF OrderInv
<1>5. QED
  BY <1>1, <1>2, <1>3, <1>4 DEF AdminNext

LEMMA StutterInv == OrderInv /\ UNCHANGED vars => OrderInv'
BY DEF OrderInv, vars, TypeOK, Cart, PlacedRows, OneResolver, ChangeFromTable,
       ReleasedIsCancelled, Released

LEMMA NextInv == OrderInv /\ [Next]_vars => OrderInv'
BY CartInv, ReadingInv, CommitInv, ResolveInv, AdminInv, StutterInv
   DEF Next, CheckoutNext

\* The invariant holds, and with it the type of the orders, for every
\* interleaving of carts, checkouts, resolutions and administrators.
THEOREM OrdersInvariant == Spec => []OrderInv
BY InitInv, NextInv, PTL DEF Spec

THEOREM OrdersTyped == Spec => []TypeOK
<1>1. OrderInv => TypeOK
  BY DEF OrderInv
<1>2. QED
  BY <1>1, OrdersInvariant, PTL

\* A released order is cancelled for good, whoever races for it.
THEOREM ReleasedOrdersAreCancelled == Spec => []ReleasedIsCancelled
<1>1. OrderInv => ReleasedIsCancelled
  BY DEF OrderInv
<1>2. QED
  BY <1>1, OrdersInvariant, PTL

\* Payment, customer and cron never both take one order.
THEOREM OrdersResolvedOnce == Spec => []ResolvedOnce
<1>1. OrderInv => ResolvedOnce
  <2> SUFFICES ASSUME OrderInv, NEW o \in Orders
               PROVE  Cardinality({e \in events[o] : e.by \in Resolvers}) <= 1
    BY DEF ResolvedOnce, Resolvers
  <2> DEFINE R == {e \in events[o] : e.by \in Resolvers}
  <2>1. CASE R = {}
    BY <2>1, FS_EmptySet
  <2>2. CASE R # {}
    <3>1. PICK e : R = {e}
      BY <2>2 DEF OrderInv, OneResolver
    <3>2. QED
      BY <3>1, FS_Singleton
  <2>3. QED
    BY <2>1, <2>2
<1>2. QED
  BY <1>1, OrdersInvariant, PTL

-----------------------------------------------------------------------------
\* The refinement.  claim and lines of the ledger, under the mapping of
\* module Orders.
Claim == [o \in Orders |-> IF request[o].step # "placed" THEN "free"
                           ELSE IF Released(o) THEN "returned" ELSE "held"]

Lines == [o \in Orders |-> IF request[o].step = "placed" THEN request[o].items
                           ELSE [p \in Products |-> 0]]

LEMMA InitRefines == Init => Ledger!Init
<1> SUFFICES ASSUME Init PROVE Ledger!Init
  OBVIOUS
<1>1. \A o \in Orders : request[o].step # "placed"
  BY DEF Init, Blank
<1>2. stock = InitStock
  BY DEF Init
<1>3. QED
  BY <1>1, <1>2 DEF Ledger!Init, Ledger!NoLines

\* A commit is a reservation of the order's lines.
LEMMA CommitRefines ==
  ASSUME OrderInv, NEW o \in Orders, CommitCheckout(o)
  PROVE  Ledger!Reserve(o)
<1>1. /\ request[o].step # "placed" /\ request'[o].step = "placed"
      /\ request'[o].items = request[o].items
      /\ request[o].items \in [Products -> Nat]
      /\ \A n \in Orders \ {o} : request'[n] = request[n] /\ events'[n] = events[n]
  BY DEF OrderInv, TypeOK, Cart, Request, CommitCheckout
<1>2. ~ Released(o)'
  BY DEF OrderInv, TypeOK, Cart, CommitCheckout, Released
<1>3. \A n \in Orders \ {o} : Released(n)' = Released(n)
  BY <1>1 DEF Released
<1>4. Claim[o] = "free" /\ Claim' = [Claim EXCEPT ![o] = "held"]
  BY <1>1, <1>2, <1>3 DEF Claim
<1>5. Lines'[o] = request[o].items /\ Lines' = [Lines EXCEPT ![o] = Lines'[o]]
  BY <1>1 DEF Lines
<1>6. /\ \A p \in Products : request[o].items[p] <= stock[p]
      /\ stock' = [p \in Products |-> stock[p] - request[o].items[p]]
  BY DEF CommitCheckout, StockDecremented
<1>7. QED
  BY <1>1, <1>4, <1>5, <1>6 DEF Ledger!Reserve, Claim, Lines

\* A cancellation, by the customer or by the cron, is a return.
LEMMA ReleaseRefines ==
  ASSUME OrderInv, NEW o \in Orders, NEW who \in {"customer", "cron"}, Release(o, who)
  PROVE  Ledger!Return(o)
<1>1. /\ status[o] = "pending" /\ request[o].step = "placed"
      /\ UNCHANGED request
      /\ events'[o] = events[o] \cup {[status |-> "cancelled", by |-> who]}
      /\ \A n \in Orders \ {o} : events'[n] = events[n]
  BY DEF OrderInv, TypeOK, Cart, PlacedRows, Release, StatusTransition, Record
<1>2. ~ Released(o) /\ Released(o)'
  <2>1. ~ Released(o)
    BY <1>1 DEF OrderInv, ReleasedIsCancelled
  <2>2. [status |-> "cancelled", by |-> who] \in events'[o]
    BY <1>1
  <2>3. Released(o)'
    BY <2>2 DEF Released
  <2>4. QED
    BY <2>1, <2>3
<1>3. \A n \in Orders \ {o} : Released(n)' = Released(n)
  BY <1>1 DEF Released
<1>4. Claim[o] = "held" /\ Claim' = [Claim EXCEPT ![o] = "returned"]
  BY <1>1, <1>2, <1>3 DEF Claim
<1>5. Lines[o] = request[o].items /\ Lines' = Lines
  BY <1>1 DEF Lines
<1>6. stock' = [p \in Products |-> stock[p] + request[o].items[p]]
  BY DEF Release, StockRestored
<1>7. QED
  BY <1>4, <1>5, <1>6 DEF Ledger!Return, Claim, Lines

\* A step that creates no order and releases none.
Aside ==
  /\ UNCHANGED <<stock, uses>>
  /\ \A o \in Orders : /\ request'[o].step = "placed" <=> request[o].step = "placed"
                       /\ request[o].step = "placed" => request'[o] = request[o]
                       /\ Released(o)' = Released(o)

\* Every step is a commit, a release, or leaves the shelf, the counters, the
\* placed orders and the releases alone.
LEMMA StepKinds ==
  ASSUME OrderInv, [Next]_vars
  PROVE  \/ \E o \in Orders : CommitCheckout(o)
         \/ \E o \in Orders, who \in {"customer", "cron"} : Release(o, who)
         \/ Aside
<1>1. CASE \E u \in Users : CartNext(u)
  <2>1. UNCHANGED <<stock, uses, request, events>>
    BY <1>1 DEF CartNext, AddCartItem, UpdateCartItem, RemoveCartItem, ClearCart
  <2>2. QED
    BY <2>1 DEF Aside, Released
<1>2. CASE \E o \in Orders : \/ \E u \in Users, c \in Coupons \cup {NoCoupon} :
                                  BeginCheckout(o, u, c)
                             \/ CheckCoupon(o)
                             \/ CountCouponOrders(o)
                             \/ RollbackCheckout(o)
  <2>1. PICK o \in Orders : \/ \E u \in Users, c \in Coupons \cup {NoCoupon} :
                                  BeginCheckout(o, u, c)
                            \/ CheckCoupon(o)
                            \/ CountCouponOrders(o)
                            \/ RollbackCheckout(o)
    BY <1>2
  <2>2. /\ UNCHANGED <<stock, uses, events>>
        /\ request[o].step # "placed" /\ request'[o].step # "placed"
        /\ \A n \in Orders \ {o} : request'[n] = request[n]
    BY <2>1 DEF OrderInv, TypeOK, Cart, Request, BeginCheckout, CheckCoupon, CountCouponOrders,
                RollbackCheckout, Blank
  <2>3. QED
    BY <2>2 DEF Aside, Released
<1>3. CASE \E o \in Orders : ConfirmPayment(o)
  <2>1. PICK o \in Orders : ConfirmPayment(o)
    BY <1>3
  <2>2. /\ UNCHANGED <<stock, uses, request>>
        /\ events' = [events EXCEPT ![o] = @ \cup {[status |-> "paid", by |-> "payment"]}]
    BY <2>1 DEF ConfirmPayment, Record
  <2>3. \A n \in Orders : Released(n)' = Released(n)
    BY <2>2 DEF OrderInv, TypeOK, Cart, Released
  <2>4. QED
    BY <2>2, <2>3 DEF Aside
<1>4. CASE \E a \in Admins : AdminNext(a)
  <2>1. PICK a \in Admins : AdminNext(a)
    BY <1>4
  <2>2. UNCHANGED <<stock, uses, request>>
    BY <2>1 DEF AdminNext, ReadForChange, ApplyChange, RecordChange, AbandonChange
  <2>3. \/ UNCHANGED events
        \/ events' = [events EXCEPT ![change[a].order] =
             @ \cup {[status |-> change[a].to, by |-> "admin"]}]
    BY <2>1 DEF AdminNext, ReadForChange, ApplyChange, RecordChange, AbandonChange, Record
  <2>4. \A n \in Orders : Released(n)' = Released(n)
    BY <2>3 DEF OrderInv, TypeOK, Cart, Released
  <2>5. QED
    BY <2>2, <2>4 DEF Aside
<1>5. CASE UNCHANGED vars
  BY <1>5 DEF vars, Aside, Released
<1>6. QED
  BY <1>1, <1>2, <1>3, <1>4, <1>5
     DEF Next, CheckoutNext, ResolveNext, CancelOrder, ExpireOrder

LEMMA AsideStutters ==
  ASSUME Aside
  PROVE  UNCHANGED Ledger!vars
<1>1. Claim' = Claim /\ Lines' = Lines
  BY DEF Claim, Lines, Aside
<1>2. QED
  BY <1>1 DEF Ledger!vars, Claim, Lines, Aside

LEMMA StepRefines ==
  ASSUME OrderInv, [Next]_vars
  PROVE  [Ledger!Next]_(Ledger!vars)
BY StepKinds, CommitRefines, ReleaseRefines, AsideStutters DEF Ledger!Next

\* The online orders implement the stock ledger: create-order reserves,
\* cancel-order and expire-unpaid-orders return, nothing else moves stock.
THEOREM OrdersImplementLedger == Spec => ImplementsLedger
<1>1. OrderInv /\ [Next]_vars => [Ledger!Next]_(Ledger!vars)
  BY StepRefines
<1>2. QED
  BY <1>1, InitRefines, OrdersInvariant, PTL DEF Spec, ImplementsLedger, Ledger!Spec

\* No unit of stock is lost, sold twice or returned twice.
THEOREM OrdersConserveStock == Spec => []StockConserved
<1>1. InitStock \in [Products -> Nat]
  BY OrdersAssumption
<1>2. Ledger!Spec => [](Ledger!TypeOK /\ Ledger!Conserved)
  BY <1>1, Ledger!LedgerConserves
<1>3. StockConserved <=> Ledger!Conserved
  BY DEF StockConserved
<1>4. QED
  BY <1>2, <1>3, OrdersImplementLedger, PTL DEF ImplementsLedger

-----------------------------------------------------------------------------
\* The coupon's counter is the number of orders that hold the coupon: proved
\* by counting, together with the invariant that tells which orders do.
CouponHolders(c) == {o \in Holders : request[o].coupon = c}

LEMMA HoldersFinite ==
  \A c : IsFiniteSet(CouponHolders(c)) /\ Cardinality(CouponHolders(c)) \in Nat
<1>1. \A c : CouponHolders(c) \subseteq Orders
  BY DEF CouponHolders, Holders
<1>2. QED
  BY <1>1, OrdersAssumption, FS_Subset, FS_CardinalityType

LEMMA InitCoupons == Init => CouponAccounting
<1> SUFFICES ASSUME Init, NEW c \in Coupons
             PROVE  /\ uses[c] = Cardinality(CouponHolders(c))
                    /\ MaxUses[c] # NoLimit => uses[c] <= MaxUses[c]
  BY DEF CouponAccounting, CouponHolders
<1>1. CouponHolders(c) = {}
  BY DEF Init, Blank, CouponHolders, Holders
<1>2. uses[c] = 0
  BY DEF Init
<1>3. MaxUses[c] # NoLimit => 0 <= MaxUses[c]
  BY OrdersAssumption
<1>4. QED
  BY <1>1, <1>2, <1>3, FS_EmptySet

\* A commit makes its order a holder of its coupon, and of no other.
LEMMA CommitCoupons ==
  ASSUME OrderInv, CouponAccounting, NEW o \in Orders, CommitCheckout(o)
  PROVE  CouponAccounting'
<1> SUFFICES ASSUME NEW c \in Coupons
             PROVE  /\ uses'[c] = Cardinality(CouponHolders(c)')
                    /\ MaxUses[c] # NoLimit => uses'[c] <= MaxUses[c]
  BY DEF CouponAccounting, CouponHolders
<1> DEFINE H == CouponHolders(c)
<1>1. /\ request[o].step # "placed" /\ request'[o].step = "placed"
      /\ request'[o].coupon = request[o].coupon
      /\ \A n \in Orders \ {o} : request'[n] = request[n] /\ events'[n] = events[n]
  BY DEF OrderInv, TypeOK, Cart, Request, CommitCheckout
<1>2. ~ Released(o)' /\ \A n \in Orders \ {o} : Released(n)' = Released(n)
  BY <1>1 DEF OrderInv, TypeOK, Cart, CommitCheckout, Released
<1>3. /\ uses[c] = Cardinality(H) /\ uses[c] \in Nat
      /\ MaxUses[c] # NoLimit => uses[c] <= MaxUses[c] /\ MaxUses[c] \in Nat
  BY OrdersAssumption DEF OrderInv, TypeOK, Cart, CouponAccounting, CouponHolders
<1>4. /\ IsFiniteSet(H)
      /\ o \notin H
  BY <1>1, HoldersFinite DEF CouponHolders, Holders
<1>5. CASE request[o].coupon = c
  <2>1. CouponHolders(c)' = H \cup {o}
    BY <1>1, <1>2, <1>5 DEF CouponHolders, Holders
  <2>2. Cardinality(H \cup {o}) = Cardinality(H) + 1
    BY <1>4, FS_AddElement
  <2>3. /\ uses'[c] = uses[c] + 1
        /\ MaxUses[c] # NoLimit => uses[c] < MaxUses[c]
    BY <1>5, OrdersAssumption DEF CommitCheckout, CouponIncremented
  <2> HIDE DEF H
  <2>4. QED
    BY <1>3, <2>1, <2>2, <2>3
<1>6. CASE request[o].coupon # c
  <2>1. CouponHolders(c)' = H
    BY <1>1, <1>2, <1>6 DEF CouponHolders, Holders
  <2>2. uses'[c] = uses[c]
    BY <1>6 DEF CommitCheckout, CouponIncremented
  <2>3. QED
    BY <1>3, <2>1, <2>2
<1>7. QED
  BY <1>5, <1>6

\* A release takes its order out of the holders of its coupon, and finds the
\* counter above zero.
LEMMA ReleaseCoupons ==
  ASSUME OrderInv, CouponAccounting, NEW o \in Orders,
         NEW who \in {"customer", "cron"}, Release(o, who)
  PROVE  CouponAccounting'
<1> SUFFICES ASSUME NEW c \in Coupons
             PROVE  /\ uses'[c] = Cardinality(CouponHolders(c)')
                    /\ MaxUses[c] # NoLimit => uses'[c] <= MaxUses[c]
  BY DEF CouponAccounting, CouponHolders
<1> DEFINE H == CouponHolders(c)
<1>1. /\ status[o] = "pending" /\ request[o].step = "placed"
      /\ UNCHANGED request
      /\ [status |-> "cancelled", by |-> who] \in events'[o]
      /\ \A n \in Orders \ {o} : events'[n] = events[n]
  BY DEF OrderInv, TypeOK, Cart, PlacedRows, Release, StatusTransition, Record
<1>2. /\ ~ Released(o)
      /\ \A n \in Orders \ {o} : Released(n)' = Released(n)
  BY <1>1 DEF OrderInv, ReleasedIsCancelled, Released
<1>3. Released(o)'
  BY <1>1 DEF Released
<1>4. /\ uses[c] = Cardinality(H) /\ uses[c] \in Nat
      /\ MaxUses[c] # NoLimit => uses[c] <= MaxUses[c] /\ MaxUses[c] \in Nat
  BY OrdersAssumption DEF OrderInv, TypeOK, Cart, CouponAccounting, CouponHolders
<1>5. IsFiniteSet(H) /\ Cardinality(H) \in Nat
  BY HoldersFinite
<1>6. CASE request[o].coupon = c
  <2>1. o \in H /\ CouponHolders(c)' = H \ {o}
    BY <1>1, <1>2, <1>3, <1>6 DEF CouponHolders, Holders
  <2>2. Cardinality(H \ {o}) = Cardinality(H) - 1 /\ Cardinality(H) # 0
    BY <1>5, <2>1, FS_RemoveElement, FS_EmptySet
  <2>3. uses'[c] = IF uses[c] > 0 THEN uses[c] - 1 ELSE uses[c]
    BY <1>6 DEF Release, CouponDecremented
  <2> HIDE DEF H
  <2>4. uses'[c] = uses[c] - 1
    BY <1>4, <1>5, <2>2, <2>3
  <2>5. QED
    BY <1>4, <1>5, <2>1, <2>2, <2>4
<1>7. CASE request[o].coupon # c
  <2>1. CouponHolders(c)' = H
    BY <1>1, <1>2, <1>7 DEF CouponHolders, Holders
  <2>2. uses'[c] = uses[c]
    BY <1>7 DEF Release, CouponDecremented
  <2>3. QED
    BY <1>4, <2>1, <2>2
<1>8. QED
  BY <1>6, <1>7

LEMMA AsideKeepsCoupons ==
  ASSUME CouponAccounting, Aside
  PROVE  CouponAccounting'
<1>1. \A c : CouponHolders(c)' = CouponHolders(c)
  BY DEF CouponHolders, Holders, Aside
<1>2. QED
  BY <1>1 DEF CouponAccounting, CouponHolders, Aside

\* The counter of a coupon never drifts from the orders that hold it and never
\* passes its limit, for any number of checkouts and cancellations at once.
THEOREM CouponsAccounted == Spec => []CouponAccounting
<1>1. OrderInv /\ CouponAccounting /\ [Next]_vars => CouponAccounting'
  BY StepKinds, CommitCoupons, ReleaseCoupons, AsideKeepsCoupons
<1>2. QED
  BY <1>1, InitCoupons, OrdersInvariant, PTL DEF Spec

-----------------------------------------------------------------------------
\* The life of an order.  The resolvers of the life cycle, under the mapping of
\* module Orders.
LifeResolvers == [o \in Orders |-> Resolving(o)]

LEMMA InitLives == Init => LifeCycle!Init
<1> SUFFICES ASSUME Init PROVE LifeCycle!Init
  OBVIOUS
<1>1. status \in [Orders -> {"none", "pending"}]
  BY DEF Init
<1>2. LifeResolvers = [o \in Orders |-> {}]
  BY DEF Init, LifeResolvers, Resolving
<1>3. QED
  BY <1>1, <1>2 DEF LifeCycle!Init, LifeResolvers

LEMMA CommitLives ==
  ASSUME OrderInv, NEW o \in Orders, CommitCheckout(o)
  PROVE  LifeCycle!Place(o)
<1>1. /\ status[o] = "none" /\ events[o] = {}
      /\ status' = [status EXCEPT ![o] = "pending"]
      /\ events'[o] = {[status |-> "pending", by |-> "checkout"]}
      /\ \A n \in Orders \ {o} : events'[n] = events[n]
  BY DEF OrderInv, TypeOK, Cart, PlacedRows, CommitCheckout
<1>2. \A n \in Orders : Resolving(n)' = Resolving(n)
  BY <1>1 DEF Resolving
<1>3. LifeResolvers' = LifeResolvers
  BY <1>2 DEF LifeResolvers
<1>4. QED
  BY <1>1, <1>3 DEF LifeCycle!Place, LifeResolvers

\* Whoever finds the order pending is the only one its events will name.
LEMMA ResolveLives ==
  ASSUME OrderInv, NEW o \in Orders, NEW to, NEW who \in Resolvers,
         StatusTransition(o, "pending", to), Record(o, to, who)
  PROVE  LifeCycle!Resolve(o, [status |-> to, by |-> who], to)
<1>1. PICK e : e = [status |-> to, by |-> who]
  OBVIOUS
<1>2. /\ status[o] = "pending" /\ status' = [status EXCEPT ![o] = to]
      /\ events'[o] = events[o] \cup {e} /\ \A n \in Orders \ {o} : events'[n] = events[n]
  BY <1>1 DEF OrderInv, TypeOK, Cart, StatusTransition, Record
<1>3. Resolving(o) = {}
  BY <1>2 DEF OrderInv, OneResolver, Resolving, Resolvers
<1>4. /\ Resolving(o)' = {e}
      /\ \A n \in Orders \ {o} : Resolving(n)' = Resolving(n)
  BY <1>1, <1>2, <1>3 DEF Resolving, Resolvers
<1>5. LifeResolvers' = [LifeResolvers EXCEPT ![o] = {e}]
  BY <1>4 DEF LifeResolvers
<1>6. QED
  BY <1>1, <1>2, <1>5 DEF LifeCycle!Resolve, LifeResolvers

\* An administrator moves an order along the table, from a read that may be
\* stale, and records it later.
LEMMA ChangeLives ==
  ASSUME OrderInv, NEW a \in Admins, AdminNext(a)
  PROVE  LifeCycle!Next \/ UNCHANGED LifeCycle!vars
<1> DEFINE o == change[a].order
<1>1. \A n \in Orders : Resolving(n)' = Resolving(n)
  <2>1. \/ UNCHANGED events
        \/ events' = [events EXCEPT ![o] = @ \cup {[status |-> change[a].to, by |-> "admin"]}]
    BY DEF AdminNext, ReadForChange, ApplyChange, RecordChange, AbandonChange, Record
  <2>2. QED
    BY <2>1 DEF OrderInv, TypeOK, Cart, Resolving
<1>2. LifeResolvers' = LifeResolvers
  BY <1>1 DEF LifeResolvers
<1>3. CASE ApplyChange(a)
  <2>1. /\ o \in Orders /\ status[o] \in Statuses
        /\ change[a].to \in ValidTransitions[status[o]]
        /\ status' = [status EXCEPT ![o] = change[a].to]
    BY <1>3 DEF OrderInv, ChangeFromTable, ApplyChange, StatusTransition
  <2>2. /\ status[o] # "none" /\ change[a].to \in Statuses
    BY <2>1, Table DEF Statuses
  <2>3. LifeCycle!Move(o, change[a].to)
    BY <1>2, <2>1, <2>2 DEF LifeCycle!Move, LifeCycle!ValidTransitions, ValidTransitions,
      LifeResolvers
  <2>4. QED
    BY <2>1, <2>2, <2>3 DEF LifeCycle!Next, LifeCycle!Statuses, Statuses
<1>4. CASE ~ApplyChange(a)
  <2>1. UNCHANGED status
    BY <1>4 DEF AdminNext, ReadForChange, RecordChange, AbandonChange
  <2>2. QED
    BY <1>2, <2>1 DEF LifeCycle!vars, LifeResolvers
<1>5. QED
  BY <1>3, <1>4

LEMMA RestLives ==
  ASSUME UNCHANGED <<status, events>>
  PROVE  UNCHANGED LifeCycle!vars
<1>1. LifeResolvers' = LifeResolvers
  BY DEF LifeResolvers, Resolving
<1>2. QED
  BY <1>1 DEF LifeCycle!vars, LifeResolvers

LEMMA StepLives ==
  ASSUME OrderInv, [Next]_vars
  PROVE  [LifeCycle!Next]_(LifeCycle!vars)
<1>1. ASSUME NEW o \in Orders, CommitCheckout(o)
      PROVE  LifeCycle!Next
  BY <1>1, CommitLives DEF LifeCycle!Next
<1>2. ASSUME NEW o \in Orders, ResolveNext(o)
      PROVE  LifeCycle!Next
  <2>1. CASE ConfirmPayment(o)
    <3>1. LifeCycle!Resolve(o, [status |-> "paid", by |-> "payment"], "paid")
      BY <2>1, ResolveLives DEF ConfirmPayment, Resolvers
    <3>2. QED
      BY <3>1 DEF LifeCycle!Next
  <2>2. ASSUME NEW who \in {"customer", "cron"}, Release(o, who)
        PROVE  LifeCycle!Next
    <3>1. LifeCycle!Resolve(o, [status |-> "cancelled", by |-> who], "cancelled")
      BY <2>2, ResolveLives DEF Release, Resolvers
    <3>2. [status |-> "cancelled", by |-> who] \in [status : {"cancelled"}, by : {"customer", "cron"}]
      OBVIOUS
    <3>3. QED
      BY <3>1, <3>2 DEF LifeCycle!Next
  <2>3. QED
    BY <1>2, <2>1, <2>2 DEF ResolveNext, CancelOrder, ExpireOrder
<1>3. CASE UNCHANGED <<status, events>>
  BY <1>3, RestLives
<1>4. ASSUME NEW o \in Orders, CheckoutNext(o)
      PROVE  CommitCheckout(o) \/ UNCHANGED <<status, events>>
  BY <1>4 DEF CheckoutNext, BeginCheckout, CheckCoupon, CountCouponOrders, RollbackCheckout
<1>5. ASSUME NEW u \in Users, CartNext(u)
      PROVE  UNCHANGED <<status, events>>
  BY <1>5 DEF CartNext, AddCartItem, UpdateCartItem, RemoveCartItem, ClearCart
<1>6. QED
  BY <1>1, <1>2, <1>3, <1>4, <1>5, ChangeLives DEF Next, vars

\* Online orders implement the order life cycle: of the payment, the customer
\* and the cron that race for a pending order one resolves it, and no
\* administrator takes it from there but along the table.
THEOREM OrdersFollowLifeCycle == Spec => ImplementsLifeCycle
<1>1. OrderInv /\ [Next]_vars => [LifeCycle!Next]_(LifeCycle!vars)
  BY StepLives
<1>2. QED
  BY <1>1, InitLives, OrdersInvariant, PTL DEF Spec, ImplementsLifeCycle, LifeCycle!Spec
=============================================================================
