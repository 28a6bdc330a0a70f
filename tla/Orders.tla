------------------------------- MODULE Orders -------------------------------
(***************************************************************************)
(* Online orders: the cart, the checkout that turns it into an order, and  *)
(* everything that later resolves a pending order - the payment, the       *)
(* customer's cancellation, the expiration cron, the administrator.        *)
(*                                                                         *)
(* The database runs READ COMMITTED.  A checkout therefore reads in one    *)
(* step and writes in a later one, and other requests run in between.  The *)
(* writes of one transaction are one step: each is an UPDATE whose WHERE   *)
(* is evaluated on the locked row, and the locks are kept until COMMIT.    *)
(*                                                                         *)
(* Data the properties do not tell apart is left out: prices, addresses,   *)
(* snapshots, order numbers, e-mails, the payment preference.              *)
(*                                                                         *)
(* Two writers of an order's status do not heed the table of transitions   *)
(* and are not in this module: an administrator's note that is saved over  *)
(* a change (OrderNotes) and a delivery (PosOrders).  What is said here of *)
(* an order is said of one that neither of them has touched so.            *)
(***************************************************************************)
EXTENDS Naturals, FiniteSets, OrderStatus

CONSTANTS
  Users,            \* customers
  Admins,           \* administrators, one status change in flight each
  Orders,           \* checkouts; one that commits is the order it created
  Products,
  Coupons,
  InitStock,        \* products.stock before the first order
  MaxUses,          \* coupons.max_uses
  MaxUsesPerUser,   \* coupons.max_uses_per_user
  NoLimit,          \* a coupon limit that is NULL
  AdminTargets,     \* the statuses administrators ask for (a bound of the model)
  NoUser, NoCoupon, NoOrder

ASSUME OrdersAssumption ==
  /\ IsFiniteSet(Orders)
  /\ InitStock \in [Products -> Nat]
  /\ NoLimit \notin Nat
  /\ MaxUses \in [Coupons -> Nat \cup {NoLimit}]
  /\ MaxUsesPerUser \in [Coupons -> Nat \cup {NoLimit}]
  /\ AdminTargets \subseteq Statuses
  /\ NoUser \notin Users
  /\ NoCoupon \notin Coupons
  /\ NoOrder \notin Orders

VARIABLES
  cart,      \* cart_items: quantity of each product per user, 0 when absent
  stock,     \* products.stock
  uses,      \* coupons.current_uses
  request,   \* what each checkout has read; the order's columns once placed
  status,    \* orders.status, "none" while the row does not exist
  events,    \* order_events: the status recorded and who recorded it
  change     \* the status change each administrator's request is making

vars == <<cart, stock, uses, request, status, events, change>>

Event == [status : Statuses, by : {"checkout", "payment", "customer", "cron", "admin"}]

Request == [step : {"idle", "read", "counting", "validated", "placed"},
            user : Users \cup {NoUser},
            items : [Products -> Nat],
            coupon : Coupons \cup {NoCoupon}]

Change == [step : {"idle", "read", "moved"},
           order : Orders \cup {NoOrder},
           from : Statuses \cup {"none"},
           to : Statuses \cup {"none"}]

Blank == [step |-> "idle", user |-> NoUser,
          items |-> [p \in Products |-> 0], coupon |-> NoCoupon]

NoChange == [step |-> "idle", order |-> NoOrder, from |-> "none", to |-> "none"]

\* The items of a cart: one per product, with its quantity.
Cart == [Products -> Nat]

TypeOK ==
  /\ cart \in [Users -> Cart]
  /\ stock \in [Products -> Nat]
  /\ uses \in [Coupons -> Nat]
  /\ request \in [Orders -> Request]
  /\ status \in [Orders -> Statuses \cup {"none"}]
  /\ events \in [Orders -> SUBSET Event]
  /\ change \in [Admins -> Change]

Init ==
  /\ cart = [u \in Users |-> [p \in Products |-> 0]]
  /\ stock = InitStock
  /\ uses = [c \in Coupons |-> 0]
  /\ request = [o \in Orders |-> Blank]
  /\ status = [o \in Orders |-> "none"]
  /\ events = [o \in Orders |-> {}]
  /\ change = [a \in Admins |-> NoChange]

-----------------------------------------------------------------------------
\* The cart.  Stock is compared with the quantity asked for, not reserved.
\* Reading and saving are one step here: a save that comes late leaves a cart
\* that another order of these steps leaves, or one no checkout can commit.

AddCartItem(u, p, q) ==
  /\ cart[u][p] + q <= stock[p]
  /\ cart' = [cart EXCEPT ![u][p] = @ + q]
  /\ UNCHANGED <<stock, uses, request, status, events, change>>

UpdateCartItem(u, p, q) ==
  /\ cart[u][p] > 0
  /\ q <= stock[p]
  /\ cart' = [cart EXCEPT ![u][p] = q]
  /\ UNCHANGED <<stock, uses, request, status, events, change>>

RemoveCartItem(u, p) ==
  /\ cart[u][p] > 0
  /\ cart' = [cart EXCEPT ![u][p] = 0]
  /\ UNCHANGED <<stock, uses, request, status, events, change>>

EmptyCart == [p \in Products |-> 0]

ClearCart(u) ==
  /\ \E p \in Products : cart[u][p] > 0
  /\ cart' = [cart EXCEPT ![u] = EmptyCart]
  /\ UNCHANGED <<stock, uses, request, status, events, change>>

-----------------------------------------------------------------------------
\* Checkout.

\* The transaction opens and reads the cart, which must not be empty.
BeginCheckout(o, u, c) ==
  /\ request[o].step = "idle"
  /\ \E p \in Products : cart[u][p] > 0
  /\ request' = [request EXCEPT ![o] =
       [step   |-> IF c = NoCoupon THEN "validated" ELSE "read",
        user   |-> u,
        items  |-> cart[u],
        coupon |-> c]]
  /\ UNCHANGED <<cart, stock, uses, status, events, change>>

\* Orders of a user that count against a coupon's limit per user.
CouponOrders(u, c) ==
  {o \in Orders : /\ status[o] \notin {"none", "cancelled"}
                  /\ request[o].user = u
                  /\ request[o].coupon = c}

\* The coupon row is read, without a lock, and compared with its limit.
CheckCoupon(o) ==
  LET c == request[o].coupon IN
  /\ request[o].step = "read"
  /\ MaxUses[c] # NoLimit => uses[c] < MaxUses[c]
  /\ request' = [request EXCEPT ![o].step =
       IF MaxUsesPerUser[c] = NoLimit THEN "validated" ELSE "counting"]
  /\ UNCHANGED <<cart, stock, uses, status, events, change>>

\* The user's orders with the coupon are counted, the committed ones.
CountCouponOrders(o) ==
  LET c == request[o].coupon IN
  /\ request[o].step = "counting"
  /\ Cardinality(CouponOrders(request[o].user, c)) < MaxUsesPerUser[c]
  /\ request' = [request EXCEPT ![o].step = "validated"]
  /\ UNCHANGED <<cart, stock, uses, status, events, change>>

\* Mutant: the UPDATE without AND stock >= quantity.
StockDecrementedBlindly(q) == stock' = [p \in Products |-> stock[p] - q[p]]

\* atomicStockDecrement of every line: all succeed, or the checkout rolls back.
StockDecremented(q) ==
  /\ \A p \in Products : q[p] <= stock[p]
  /\ stock' = [p \in Products |-> stock[p] - q[p]]

\* Mutant: the UPDATE without the comparison with max_uses.
CouponIncrementedBlindly(c) ==
  uses' = [k \in Coupons |-> IF k = c THEN uses[k] + 1 ELSE uses[k]]

\* incrementUses, which must find the coupon below its limit.
CouponIncremented(c) ==
  /\ (c # NoCoupon /\ MaxUses[c] # NoLimit) => uses[c] < MaxUses[c]
  /\ uses' = [k \in Coupons |-> IF k = c THEN uses[k] + 1 ELSE uses[k]]

\* The order, its lines and its first event are inserted, stock and coupon
\* are taken, and the whole cart is deleted, whatever it holds by now.
CommitCheckout(o) ==
  /\ request[o].step = "validated"
  /\ StockDecremented(request[o].items)
  /\ CouponIncremented(request[o].coupon)
  /\ request' = [request EXCEPT ![o].step = "placed"]
  /\ status' = [status EXCEPT ![o] = "pending"]
  /\ events' = [events EXCEPT ![o] = {[status |-> "pending", by |-> "checkout"]}]
  /\ cart' = [cart EXCEPT ![request[o].user] = EmptyCart]
  /\ UNCHANGED change

\* Any check that fails, any error: the transaction rolls back.
RollbackCheckout(o) ==
  /\ request[o].step \in {"read", "counting", "validated"}
  /\ request' = [request EXCEPT ![o] = Blank]
  /\ UNCHANGED <<cart, stock, uses, status, events, change>>

-----------------------------------------------------------------------------
\* What resolves a pending order.

\* Mutant: the UPDATE names the order and not the status it must have.
StatusOverwritten(o, from, to) ==
  /\ status[o] # "none"
  /\ status' = [status EXCEPT ![o] = to]

\* atomicStatusTransition: UPDATE orders SET status = to WHERE status = from.
StatusTransition(o, from, to) ==
  /\ status[o] = from
  /\ status' = [status EXCEPT ![o] = to]

Record(o, s, who) ==
  events' = [events EXCEPT ![o] = @ \cup {[status |-> s, by |-> who]}]

\* Mutant: one unit restored per line, whatever its quantity.
OneUnitRestored(q) ==
  stock' = [p \in Products |-> stock[p] + (IF q[p] > 0 THEN 1 ELSE 0)]

StockRestored(q) == stock' = [p \in Products |-> stock[p] + q[p]]

\* decrementUses, which leaves a counter that is already 0 alone.
CouponDecremented(c) ==
  uses' = [k \in Coupons |-> IF k = c /\ uses[k] > 0 THEN uses[k] - 1 ELSE uses[k]]

\* The transaction that the customer's cancellation and the cron share.
Release(o, who) ==
  /\ StatusTransition(o, "pending", "cancelled")
  /\ StockRestored(request[o].items)
  /\ CouponDecremented(request[o].coupon)
  /\ Record(o, "cancelled", who)
  /\ UNCHANGED <<cart, request, change>>

CancelOrder(o) == Release(o, "customer")

\* Any pending order may be past the threshold, and the cron's list is only a
\* hint: the order is taken by the status transition.
ExpireOrder(o) == Release(o, "cron")

\* Mutant: the order is marked paid whatever its status.
ConfirmPaymentBlindly(o) ==
  /\ status[o] # "none"
  /\ status' = [status EXCEPT ![o] = "paid"]
  /\ Record(o, "paid", "payment")
  /\ UNCHANGED <<cart, stock, uses, request, change>>

\* The order's side of a payment notification or verification.
ConfirmPayment(o) ==
  /\ StatusTransition(o, "pending", "paid")
  /\ Record(o, "paid", "payment")
  /\ UNCHANGED <<cart, stock, uses, request, change>>

-----------------------------------------------------------------------------
\* The administrator's change of status: three statements, no transaction.

ReadForChange(a, o, to) ==
  /\ change[a].step = "idle"
  /\ status[o] # "none"
  /\ to \in ValidTransitions[status[o]]
  /\ change' = [change EXCEPT ![a] =
       [step |-> "read", order |-> o, from |-> status[o], to |-> to]]
  /\ UNCHANGED <<cart, stock, uses, request, status, events>>

\* Mutant: the status read before is not compared when the row is written.
ApplyStaleChange(a) ==
  /\ change[a].step = "read"
  /\ status' = [status EXCEPT ![change[a].order] = change[a].to]
  /\ change' = [change EXCEPT ![a].step = "moved"]
  /\ UNCHANGED <<cart, stock, uses, request, events>>

ApplyChange(a) ==
  /\ change[a].step = "read"
  /\ StatusTransition(change[a].order, change[a].from, change[a].to)
  /\ change' = [change EXCEPT ![a].step = "moved"]
  /\ UNCHANGED <<cart, stock, uses, request, events>>

RecordChange(a) ==
  /\ change[a].step = "moved"
  /\ Record(change[a].order, change[a].to, "admin")
  /\ change' = [change EXCEPT ![a] = NoChange]
  /\ UNCHANGED <<cart, stock, uses, request, status>>

\* The transition found another status (conflict), or the request died.
AbandonChange(a) ==
  /\ change[a].step # "idle"
  /\ change' = [change EXCEPT ![a] = NoChange]
  /\ UNCHANGED <<cart, stock, uses, request, status, events>>

-----------------------------------------------------------------------------
CartNext(u) ==
  \/ \E p \in Products :
       \/ \E q \in 1..InitStock[p] : AddCartItem(u, p, q) \/ UpdateCartItem(u, p, q)
       \/ RemoveCartItem(u, p)
  \/ ClearCart(u)

CheckoutNext(o) ==
  \/ \E u \in Users, c \in Coupons \cup {NoCoupon} : BeginCheckout(o, u, c)
  \/ CheckCoupon(o)
  \/ CountCouponOrders(o)
  \/ CommitCheckout(o)
  \/ RollbackCheckout(o)

ResolveNext(o) == CancelOrder(o) \/ ExpireOrder(o) \/ ConfirmPayment(o)

AdminNext(a) ==
  \/ \E o \in Orders, to \in AdminTargets : ReadForChange(a, o, to)
  \/ ApplyChange(a)
  \/ RecordChange(a)
  \/ AbandonChange(a)

Next ==
  \/ \E u \in Users : CartNext(u)
  \/ \E o \in Orders : CheckoutNext(o) \/ ResolveNext(o)
  \/ \E a \in Admins : AdminNext(a)

Spec == Init /\ [][Next]_vars

-----------------------------------------------------------------------------
\* The stock of an order went back to the shelf: its events say so, because
\* the event is written by the transaction that restores the stock.
Released(o) ==
  \E e \in events[o] : e.status = "cancelled" /\ e.by \in {"customer", "cron"}

Holders == {o \in Orders : request[o].step = "placed" /\ ~ Released(o)}

\* The inventory this module implements.
Ledger == INSTANCE StockLedger WITH
  claim <- [o \in Orders |-> IF request[o].step # "placed" THEN "free"
                             ELSE IF Released(o) THEN "returned" ELSE "held"],
  lines <- [o \in Orders |-> IF request[o].step = "placed" THEN request[o].items
                             ELSE [p \in Products |-> 0]]

\* A checkout takes every line or none and only what the shelf has, and a
\* cancellation gives back exactly that, once, whatever the requests race:
\* create-order, cancel-order and expire-unpaid-orders implement the ledger.
ImplementsLedger == Ledger!Spec

\* No unit is lost, sold twice or returned twice: what the product rows count
\* and what the unreleased orders hold add up to the stock there was.
StockConserved == Ledger!Conserved

\* coupons.current_uses counts the orders that hold the coupon and nothing
\* else, and stays within max_uses: decrementUses has no order to name, so a
\* second decrement for one order would pass unseen by the row alone.
CouponAccounting ==
  \A c \in Coupons :
    /\ uses[c] = Cardinality({o \in Holders : request[o].coupon = c})
    /\ MaxUses[c] # NoLimit => uses[c] <= MaxUses[c]

\* An order whose stock went back to the shelf is cancelled and stays so: no
\* payment and no change of status asked for on an old read revives it.
ReleasedIsCancelled ==
  \A o \in Orders : Released(o) => status[o] = "cancelled"

\* Payment, customer and cron race for a pending order and one of them gets
\* it: the trail never shows two of their events for an order.
ResolvedOnce ==
  \A o \in Orders :
    Cardinality({e \in events[o] : e.by \in {"payment", "customer", "cron"}}) <= 1

\* The events that resolve an order.
Resolving(o) == {e \in events[o] : e.by \in {"payment", "customer", "cron"}}

\* The life of an order this module implements.
LifeCycle == INSTANCE OrderLifeCycle WITH
  PaidBy <- [status : {"paid"}, by : {"payment"}],
  CancelledBy <- [status : {"cancelled"}, by : {"customer", "cron"}],
  resolvers <- [o \in Orders |-> Resolving(o)]

\* The first payment, customer or cron that finds an order pending resolves it,
\* no other leaves a trace on it, and what administrators do to it, from reads
\* that may be stale, follows the table (process-payment-notification,
\* cancel-order, expire-unpaid-orders and update-order-status).  Notes
\* and shipments, which heed no table, are in OrderNotes and PosOrders.
ImplementsLifeCycle == LifeCycle!Spec

-----------------------------------------------------------------------------
\* What the documentation says and the code does not do.

\* docs/modules/coupons.md: the coupon is locked before it is validated, so
\* that concurrent checkouts cannot both pass the limit per user.
CouponLimitPerUser ==
  \A u \in Users, c \in Coupons :
    MaxUsesPerUser[c] # NoLimit =>
      Cardinality(CouponOrders(u, c)) <= MaxUsesPerUser[c]

\* docs/modules/orders.md: a pending order is cancelled by its customer or by
\* the cron, and both give the stock back.
CancelledReturnsStock ==
  \A o \in Orders : status[o] = "cancelled" => Released(o)
=============================================================================
