------------------------------ MODULE PosOrders ------------------------------
(***************************************************************************)
(* The point of sale and the back office, on the same orders: a sale, its  *)
(* cancellation, its refunds and, of a sale that awaits MercadoPago, the   *)
(* cron's expiration, each one database transaction that locks rows as it  *)
(* goes; the shipments and the administrator's status changes, each a      *)
(* series of statements outside any transaction.                           *)
(*                                                                         *)
(* An UPDATE locks its row until COMMIT and evaluates its WHERE on the     *)
(* committed row once it has the lock.  So the locks are taken one step at *)
(* a time, and what a transaction writes appears whole at its COMMIT.      *)
(* An order is named before it exists; status "none" is an absent row.     *)
(*                                                                         *)
(* An administrator's note on an order saves its row whole: OrderNotes has *)
(* what that undoes, and this module the orders that no note overtakes.    *)
(***************************************************************************)
EXTENDS Integers, FiniteSets, FiniteSetsExt, Sequences, OrderStatus

CONSTANTS
  Tills,        \* requests of the point of sale and orders the cron expires, one
                \* transaction each: numbers, in the order in which they arrive
  Desks,        \* back-office users, one request in flight each
  Orders,       \* numbers, in the order in which sales ask for them
  Coupons,
  Products,     \* product ids: numbers, so that localeCompare is <
  InitStock, MaxUses,
  Requests,     \* the sales asked for: lines, coupon, and the final status its
                \* payment method gives (a bound of the model)
  Parts,        \* the lines a partial refund may name (a bound of the model)
  Kinds,        \* the kinds of transaction (a bound of the model)
  Targets,      \* the statuses an administrator asks for (a bound of the model)
  ParcelTargets,\* the statuses a shipment is given (a bound of the model)
  NoOrder, NoCoupon, NoOne

ParcelStatuses == {"shipped", "in_transit", "delivered"}
Parcels == ParcelStatuses \cup {"none"}
Line == [product : Products, quantity : Nat \ {0}]

ASSUME PosAssumption ==
  /\ Tills \cup Products \cup Orders \subseteq Nat
  /\ IsFiniteSet(Orders)
  /\ Orders \cap Products = {} /\ Coupons \cap (Orders \cup Products) = {}
  /\ InitStock \in [Products -> Nat]
  /\ MaxUses \in [Coupons -> Nat]
  /\ Requests \subseteq [lines : Seq(Line) \ {<<>>}, final : {"paid", "pending"},
                         coupon : Coupons \cup {NoCoupon}]
  /\ Parts \subseteq Seq(Line) \ {<<>>}
  /\ Targets \subseteq Statuses
  /\ ParcelTargets \subseteq ParcelStatuses
  /\ NoOrder \notin Orders /\ NoCoupon \notin Coupons /\ NoOne \notin Tills

VARIABLES
  stock,    \* products.stock
  uses,     \* coupons.current_uses
  status,   \* orders.status
  sale,     \* orders and order_items: the lines sold and the coupon
  events,   \* order_events: the status recorded and who recorded it
  parts,    \* units the partial refunds put back, from their events' metadata
  parcel,   \* shipments.status, "none" while the order has no shipment
  tx,       \* each till's transaction
  lock,     \* the transaction that holds each row's lock
  desk,     \* each back-office request
  passed    \* auxiliary: every status an order has had

vars == <<stock, uses, status, sale, events, parts, parcel, tx, lock, desk, passed>>

Rows == Orders \cup Products \cup Coupons

Sale == [lines : Seq(Line), coupon : Coupons \cup {NoCoupon}]
NoSale == [lines |-> <<>>, coupon |-> NoCoupon]

Event == [status : Statuses,
          by : {"sale", "cancel", "expire", "refund", "partial", "shipment", "admin"}]

\* lines are the units the transaction moves, todo the rows it has to lock.
Transaction ==
  [step : {"idle", "open", "done", "failed"},
   kind : {"none", "sale", "cancel", "expire", "refund", "partial"},
   order : Orders \cup {NoOrder}, from : Statuses \cup {"none"},
   lines : Seq(Line), coupon : Coupons \cup {NoCoupon}, todo : Seq(Rows)]

DeskRequest ==
  [step : {"idle", "read", "reread", "moving", "moved", "lost"},
   kind : {"none", "shipment", "delivery", "admin"},
   order : Orders \cup {NoOrder}, from : Statuses \cup {"none"},
   to : Statuses \cup Parcels]

NoTx == [step |-> "idle", kind |-> "none", order |-> NoOrder, from |-> "none",
         lines |-> <<>>, coupon |-> NoCoupon, todo |-> <<>>]
AtRest == [step |-> "idle", kind |-> "none", order |-> NoOrder,
           from |-> "none", to |-> "none"]

TypeOK ==
  /\ stock \in [Products -> Nat]
  /\ uses \in [Coupons -> Nat]
  /\ status \in [Orders -> Statuses \cup {"none"}]
  /\ sale \in [Orders -> Sale]
  /\ events \in [Orders -> SUBSET Event]
  /\ parts \in [Orders -> [Products -> Nat]]
  /\ parcel \in [Orders -> Parcels]
  /\ tx \in [Tills -> Transaction]
  /\ lock \in [Rows -> Tills \cup {NoOne}]
  /\ desk \in [Desks -> DeskRequest]
  /\ passed \in [Orders -> SUBSET Statuses]

Init ==
  /\ stock = InitStock
  /\ uses = [c \in Coupons |-> 0]
  /\ status = [o \in Orders |-> "none"]
  /\ sale = [o \in Orders |-> NoSale]
  /\ events = [o \in Orders |-> {}]
  /\ parts = [o \in Orders |-> [p \in Products |-> 0]]
  /\ parcel = [o \in Orders |-> "none"]
  /\ tx = [t \in Tills |-> NoTx]
  /\ lock = [r \in Rows |-> NoOne]
  /\ desk = [d \in Desks |-> AtRest]
  /\ passed = [o \in Orders |-> {}]

table == <<stock, uses, status, sale, events, parts, parcel, passed>>

-----------------------------------------------------------------------------
\* The transactions of the point of sale.

Units(lines, p) ==
  MapThenSumSet(LAMBDA i : lines[i].quantity,
                {i \in DOMAIN lines : lines[i].product = p})

ProductRows(lines) == [i \in DOMAIN lines |-> lines[i].product]

\* Mutant: the rows are locked in the order the request lists them.
AsListed(lines) == lines

\* [...items].sort((a, b) => a.productId.localeCompare(b.productId))
\* Line i comes at the n-th place if n - 1 lines come before it.
Sorted(lines) ==
  LET Before(i) == {j \in DOMAIN lines : \/ lines[j].product < lines[i].product
                                         \/ lines[j].product = lines[i].product /\ j < i}
  IN [n \in DOMAIN lines |->
        lines[CHOOSE i \in DOMAIN lines : Cardinality(Before(i)) = n - 1]]

CouponRow(c) == IF c = NoCoupon THEN <<>> ELSE <<c>>

Begin(t, kind, o, from, lines, coupon, todo) ==
  /\ kind \in Kinds
  /\ tx[t] = NoTx
  /\ \A u \in Tills : u < t => tx[u] # NoTx
  /\ tx' = [tx EXCEPT ![t] = [step |-> "open", kind |-> kind, order |-> o,
              from |-> from, lines |-> lines, coupon |-> coupon, todo |-> todo]]
  /\ UNCHANGED <<table, lock, desk>>

\* A sale validates the coupon as it reads it, inserts its order, and locks
\* the products and then the coupon.  from is the status it ends with.
BeginSale(t, o, r) ==
  /\ status[o] = "none"
  /\ \A u \in Tills : tx[u].order # o
  /\ \A n \in Orders : n < o => \E u \in Tills : tx[u].order = n
  /\ r.coupon # NoCoupon => uses[r.coupon] < MaxUses[r.coupon]
  /\ Begin(t, "sale", o, r.final, r.lines, r.coupon,
           ProductRows(Sorted(r.lines)) \o CouponRow(r.coupon))

\* A cancellation locks the order first, by its UPDATE from PAID, and an
\* expiration by its UPDATE from PENDING: the cron lists the pending orders of
\* every channel before it opens their transactions.
BeginUndoing(t, kind, o, from) ==
  Begin(t, kind, o, from, sale[o].lines, sale[o].coupon,
        <<o>> \o ProductRows(Sorted(sale[o].lines)) \o CouponRow(sale[o].coupon))

BeginCancel(t, o) == status[o] # "none" /\ BeginUndoing(t, "cancel", o, "paid")

BeginExpire(t, o) == status[o] = "pending" /\ BeginUndoing(t, "expire", o, "pending")

\* A full refund locks the products first and the order last, by an UPDATE
\* from the status it read when it opened.
BeginRefund(t, o) ==
  /\ status[o] \in {"paid", "processing"}
  /\ Begin(t, "refund", o, status[o], sale[o].lines, NoCoupon,
           ProductRows(Sorted(sale[o].lines)) \o <<o>>)

\* A partial refund names lines of the order, none for more than was sold.
BeginPartial(t, o, lines) ==
  /\ status[o] \in {"paid", "processing"}
  /\ \A i \in DOMAIN lines : \E j \in DOMAIN sale[o].lines :
       /\ sale[o].lines[j].product = lines[i].product
       /\ lines[i].quantity <= sale[o].lines[j].quantity
  /\ Begin(t, "partial", o, status[o], lines, NoCoupon, ProductRows(Sorted(lines)))

NextRow(t) == Head(tx[t].todo)

Waiting(t) ==
  tx[t].step = "open" /\ tx[t].todo # <<>> /\ lock[NextRow(t)] \notin {NoOne, t}

\* Mutant: atomicStatusTransition names the order and not the status.
AcceptsAnyStatus(t, r) ==
  tx[t].kind = "sale" =>
    /\ r \in Products => Units(tx[t].lines, r) <= stock[r]
    /\ r \in Coupons => uses[r] < MaxUses[r]

\* Mutant: atomicStockDecrement without AND stock >= quantity.
AcceptsAnyQuantity(t, r) == r \in Orders => status[r] = tx[t].from

\* The WHERE of the UPDATE that locks row r.
Accepts(t, r) ==
  /\ tx[t].kind = "sale" =>
       /\ r \in Products => Units(tx[t].lines, r) <= stock[r]
       /\ r \in Coupons => uses[r] < MaxUses[r]
  /\ r \in Orders => status[r] = tx[t].from

LockRow(t) ==
  /\ tx[t].step = "open" /\ tx[t].todo # <<>> /\ ~Waiting(t)
  /\ Accepts(t, NextRow(t))
  /\ lock' = [lock EXCEPT ![NextRow(t)] = t]
  /\ tx' = [tx EXCEPT ![t].todo = Tail(@)]
  /\ UNCHANGED <<table, desk>>

\* Mutant: the connection goes back to the pool with its transaction open.
LocksKept(t) == UNCHANGED lock

Released(t) == lock' = [r \in Rows |-> IF lock[r] = t THEN NoOne ELSE lock[r]]

Rollback(t) ==
  /\ tx[t].step = "open"
  /\ tx' = [tx EXCEPT ![t].step = "failed"]
  /\ Released(t)
  /\ UNCHANGED <<table, desk>>

\* The UPDATE changes no row: the use case throws, the cron returns at once.
RejectRow(t) ==
  /\ tx[t].step = "open" /\ tx[t].todo # <<>> /\ ~Waiting(t)
  /\ ~Accepts(t, NextRow(t))
  /\ Rollback(t)

\* An inactive product, a lost connection, the process dying.
FailTx(t) == Rollback(t)

\* Transactions each of which waits for another of them, and no smaller set.
Stuck(S) == S # {} /\ \A t \in S : Waiting(t) /\ lock[NextRow(t)] \in S
Cycle(S) == Stuck(S) /\ \A R \in SUBSET S : Stuck(R) => R = S

\* PostgreSQL aborts one of the transactions that wait for each other.
BreakDeadlock(t) ==
  /\ \E S \in SUBSET Tills : t \in S /\ Cycle(S)
  /\ Rollback(t)

NewStatus(o, s) ==
  /\ status' = [status EXCEPT ![o] = s]
  /\ passed' = [passed EXCEPT ![o] = @ \cup {s}]

Record(o, s, who) ==
  events' = [events EXCEPT ![o] = @ \cup {[status |-> s, by |-> who]}]

Moved(lines, sign) == stock' = [p \in Products |-> stock[p] + sign * Units(lines, p)]

CouponMoved(c, n) ==
  uses' = IF c = NoCoupon THEN uses ELSE [uses EXCEPT ![c] = @ + n]

CommitSale(t) ==
  LET o == tx[t].order IN
  /\ sale' = [sale EXCEPT ![o] = [lines |-> tx[t].lines, coupon |-> tx[t].coupon]]
  /\ Moved(tx[t].lines, -1)
  /\ CouponMoved(tx[t].coupon, 1)
  /\ NewStatus(o, tx[t].from)
  /\ Record(o, tx[t].from, "sale")
  /\ UNCHANGED parts

\* Mutant: the coupon is forgotten when the sale is cancelled or expires.
UndoneKeepingUse(t, who) ==
  LET o == tx[t].order IN
  /\ Moved(tx[t].lines, 1)
  /\ NewStatus(o, "cancelled")
  /\ Record(o, "cancelled", who)
  /\ UNCHANGED <<uses, sale, parts>>

\* decrementUses leaves a counter that is already 0 alone.
Undone(t, who) ==
  LET o == tx[t].order
      c == tx[t].coupon IN
  /\ Moved(tx[t].lines, 1)
  /\ CouponMoved(c, IF c # NoCoupon /\ uses[c] > 0 THEN -1 ELSE 0)
  /\ NewStatus(o, "cancelled")
  /\ Record(o, "cancelled", who)
  /\ UNCHANGED <<sale, parts>>

CommitCancel(t) == Undone(t, "cancel")

CommitExpire(t) == Undone(t, "expire")

\* A refund leaves the coupon used.
CommitRefund(t) ==
  LET o == tx[t].order IN
  /\ Moved(tx[t].lines, 1)
  /\ NewStatus(o, "refunded")
  /\ Record(o, "refunded", "refund")
  /\ UNCHANGED <<uses, sale, parts>>

\* A partial refund leaves the status alone, and its event repeats the one
\* that was read when the transaction opened.
CommitPartial(t) ==
  LET o == tx[t].order IN
  /\ Moved(tx[t].lines, 1)
  /\ parts' = [parts EXCEPT ![o] = [p \in Products |-> @[p] + Units(tx[t].lines, p)]]
  /\ Record(o, tx[t].from, "partial")
  /\ UNCHANGED <<uses, status, sale, passed>>

Commit(t) ==
  /\ tx[t].step = "open" /\ tx[t].todo = <<>>
  /\ \/ tx[t].kind = "sale" /\ CommitSale(t)
     \/ tx[t].kind = "cancel" /\ CommitCancel(t)
     \/ tx[t].kind = "expire" /\ CommitExpire(t)
     \/ tx[t].kind = "refund" /\ CommitRefund(t)
     \/ tx[t].kind = "partial" /\ CommitPartial(t)
  /\ tx' = [tx EXCEPT ![t].step = "done"]
  /\ Released(t)
  /\ UNCHANGED <<parcel, desk>>

-----------------------------------------------------------------------------
\* The back office.  Each statement commits by itself, and may find the order
\* locked, so a status is read in one step and replaced in a later one.

Ask(d, kind, o, from, to, step) ==
  /\ desk[d] = AtRest
  /\ desk' = [desk EXCEPT ![d] = [step |-> step, kind |-> kind, order |-> o,
                                  from |-> from, to |-> to]]
  /\ UNCHANGED <<table, tx, lock>>

\* Creating a shipment: the order is read, PAID or PROCESSING, without one.
BeginShipment(d, o) ==
  /\ status[o] \in {"paid", "processing"}
  /\ parcel[o] = "none"
  /\ Ask(d, "shipment", o, status[o], "shipped", "read")

\* The shipment is stored, unless one was stored meanwhile (orders have one).
StoreShipment(d) ==
  LET o == desk[d].order IN
  /\ desk[d].step = "read" /\ desk[d].kind = "shipment"
  /\ \/ /\ parcel[o] = "none"
        /\ parcel' = [parcel EXCEPT ![o] = "shipped"]
        /\ desk' = [desk EXCEPT ![d].step = "moving"]
     \/ /\ parcel[o] # "none"
        /\ desk' = [desk EXCEPT ![d] = AtRest]
        /\ UNCHANGED parcel
  /\ UNCHANGED <<stock, uses, status, sale, events, parts, tx, lock, passed>>

\* Updating a shipment: it is read, and saved whole with its new status.
BeginDelivery(d, o, s) ==
  /\ parcel[o] # "none"
  /\ Ask(d, "delivery", o, "none", s, "read")

SaveShipment(d) ==
  /\ desk[d].step = "read" /\ desk[d].kind = "delivery"
  /\ parcel' = [parcel EXCEPT ![desk[d].order] = desk[d].to]
  /\ desk' = [desk EXCEPT ![d] =
       IF desk[d].to = "delivered" THEN [desk[d] EXCEPT !.step = "reread"] ELSE AtRest]
  /\ UNCHANGED <<stock, uses, status, sale, events, parts, tx, lock, passed>>

\* A delivered shipment moves its order from whatever status it has.
RereadOrder(d) ==
  /\ desk[d].step = "reread"
  /\ desk' = [desk EXCEPT ![d].step = "moving", ![d].from = status[desk[d].order]]
  /\ UNCHANGED <<table, tx, lock>>

\* An administrator's change, which transitionTo() compares with the table.
BeginChange(d, o, s) ==
  /\ status[o] # "none"
  /\ s \in ValidTransitions[status[o]] \cap Targets
  /\ Ask(d, "admin", o, status[o], s, "moving")

\* WHERE status = from.
StillThere(d) == status[desk[d].order] = desk[d].from

\* Mutant: the event is recorded whether or not the UPDATE changed the row.
GoneOn(d) == [desk EXCEPT ![d].step = "moved"]

\* Without a row changed there is no event: the administrator gets an error,
\* the shipments go on as if nothing had happened.
GivenUp(d) == [desk EXCEPT ![d] = AtRest]

MoveOrder(d) ==
  LET o == desk[d].order IN
  /\ desk[d].step = "moving"
  /\ lock[o] = NoOne
  /\ IF StillThere(d)
     THEN /\ NewStatus(o, desk[d].to)
          /\ desk' = [desk EXCEPT ![d].step = "moved"]
     ELSE desk' = GivenUp(d) /\ UNCHANGED <<status, passed>>
  /\ UNCHANGED <<stock, uses, sale, events, parts, parcel, tx, lock>>

RecordMove(d) ==
  /\ desk[d].step = "moved"
  /\ Record(desk[d].order, desk[d].to, IF desk[d].kind = "admin" THEN "admin" ELSE "shipment")
  /\ desk' = [desk EXCEPT ![d] = AtRest]
  /\ UNCHANGED <<stock, uses, status, sale, parts, parcel, tx, lock, passed>>

\* The process dies between two statements: what was written stays written.
Crash(d) ==
  /\ desk[d].step \notin {"idle", "lost"}
  /\ desk' = [desk EXCEPT ![d] =
       IF desk[d].step = "moved" THEN [desk[d] EXCEPT !.step = "lost"] ELSE AtRest]
  /\ UNCHANGED <<table, tx, lock>>

-----------------------------------------------------------------------------
TillRuns(t) == LockRow(t) \/ RejectRow(t) \/ Commit(t) \/ BreakDeadlock(t)

Next ==
  \/ \E t \in Tills, o \in Orders :
       \/ \E r \in Requests : BeginSale(t, o, r)
       \/ BeginCancel(t, o)
       \/ BeginExpire(t, o)
       \/ BeginRefund(t, o)
       \/ \E l \in Parts : BeginPartial(t, o, l)
  \/ \E t \in Tills : LockRow(t)
  \/ \E t \in Tills : RejectRow(t)
  \/ \E t \in Tills : FailTx(t)
  \/ \E t \in Tills : BreakDeadlock(t)
  \/ \E t \in Tills : Commit(t)
  \/ \E d \in Desks, o \in Orders :
       \/ BeginShipment(d, o)
       \/ \E s \in ParcelTargets : BeginDelivery(d, o, s)
       \/ \E s \in Targets : BeginChange(d, o, s)
  \/ \E d \in Desks : StoreShipment(d)
  \/ \E d \in Desks : SaveShipment(d)
  \/ \E d \in Desks : RereadOrder(d)
  \/ \E d \in Desks : MoveOrder(d)
  \/ \E d \in Desks : RecordMove(d)
  \/ \E d \in Desks : Crash(d)

\* An open transaction runs on: its use case awaits one statement after the
\* other, and PostgreSQL ends every wait cycle.  Nobody has to open one.
Spec == Init /\ [][Next]_vars /\ \A t \in Tills : WF_vars(TillRuns(t))

-----------------------------------------------------------------------------
\* The units of product p that the order's own records say are out.
Out(o, p) ==
  LET sold == Units(sale[o].lines, p)
      back == \E e \in events[o] : e.by \in {"cancel", "expire", "refund"} IN
  sold - (IF back THEN sold ELSE 0) - parts[o][p]

UnitsOut(p) == MapThenSumSet(LAMBDA o : Out(o, p), Orders)

\* The counter of a product is what its orders' records say it should be: a
\* sale takes its units once, each end or return on record gives back once what
\* it names, and nothing moves half or off the record, whatever requests race
\* for the order (create-, cancel- and refund-pos-order, expire-unpaid-orders).
\* It does not bound what the returns of one order add up to: no code does.
StockMatchesHistory ==
  \A p \in Products : stock[p] = InitStock[p] - UnitsOut(p)

\* A coupon's counter is the number of its sales that were not cancelled and
\* did not expire, and never above its limit; a refund keeps the use
\* (cancel-pos-order.use-case.ts, expire-unpaid-orders.use-case.ts).
CouponMatchesSales ==
  \A c \in Coupons :
    /\ uses[c] = Cardinality({o \in Orders :
         /\ sale[o].coupon = c
         /\ \A e \in events[o] : e.by \notin {"cancel", "expire"}})
    /\ uses[c] <= MaxUses[c]

\* Transactions wait for each other only around a full refund, which locks
\* the order last where a cancellation locks it first: sorting the products
\* rules out every other cycle ("deadlock prevention", create-pos-order 224).
OnlyRefundsDeadlock ==
  \A S \in SUBSET Tills : Cycle(S) => \E t \in S : tx[t].kind = "refund"

\* order_events tells no status the order did not have, and misses none but
\* those whose writer is between its UPDATE and its INSERT, or died there.
HistoryFaithful ==
  \A o \in Orders :
    passed[o] = {e.status : e \in events[o]} \cup
      {desk[d].to : d \in {x \in Desks : /\ desk[x].order = o
                                         /\ desk[x].step \in {"moved", "lost"}}}

\* An order that is cancelled or refunded stays so, as the table of transitions
\* says (docs/modules/orders.md 137-146, VALID_TRANSITIONS of order.entity.ts).
\* update-shipment breaks it: a delivery moves the order from any status.
SettledIsFinal ==
  [][\A o \in Orders :
       status[o] \in {"cancelled", "refunded"} => status'[o] = status[o]]_vars

\* Every transaction of the point of sale ends, by COMMIT or ROLLBACK, whatever
\* locks the others hold and whatever the back office does meanwhile.
TransactionsEnd ==
  \A t \in Tills : tx[t].step = "open" ~> tx[t].step \in {"done", "failed"}
=============================================================================
