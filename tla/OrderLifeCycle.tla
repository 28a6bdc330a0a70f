--------------------------- MODULE OrderLifeCycle ---------------------------
(***************************************************************************)
(* What the life of an online order promises until it is shipped: a        *)
(* pending order is resolved by one payment or one cancellation, the first *)
(* to find it pending, and every other change of its status is one of the  *)
(* table.  Abstract specification: the checkout with all that resolves its *)
(* orders, the payment handlers, and the expiration cron each implement it.*)
(* Shipments and notes take no part: a delivery moves an order from any    *)
(* status, against the table (PosOrders, SettledIsFinal), and a note saved *)
(* late puts an old status back (OrderNotes, StatusFollowsTable).          *)
(***************************************************************************)
EXTENDS OrderStatus

CONSTANTS
  Orders,
  PaidBy,       \* what marks an order paid, each a value of its own
  CancelledBy   \* what cancels an order and gives its stock back

VARIABLES
  status,     \* orders.status, "none" before the order exists
  resolvers   \* per order: what resolved it

vars == <<status, resolvers>>

\* An order may be there from the start, still pending.
Init ==
  /\ status \in [Orders -> {"none", "pending"}]
  /\ resolvers = [o \in Orders |-> {}]

Place(o) ==
  /\ status[o] = "none"
  /\ status' = [status EXCEPT ![o] = "pending"]
  /\ UNCHANGED resolvers

Resolve(o, by, to) ==
  /\ status[o] = "pending"
  /\ status' = [status EXCEPT ![o] = to]
  /\ resolvers' = [resolvers EXCEPT ![o] = {by}]

\* The administrator; what has resolved the order stays known.
Move(o, to) ==
  /\ status[o] # "none"
  /\ to \in ValidTransitions[status[o]]
  /\ status' = [status EXCEPT ![o] = to]
  /\ UNCHANGED resolvers

Next ==
  \E o \in Orders :
    \/ Place(o)
    \/ \E by \in PaidBy : Resolve(o, by, "paid")
    \/ \E by \in CancelledBy : Resolve(o, by, "cancelled")
    \/ \E to \in Statuses : Move(o, to)

Spec == Init /\ [][Next]_vars
=============================================================================
