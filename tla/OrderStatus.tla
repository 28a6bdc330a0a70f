---------------------------- MODULE OrderStatus ----------------------------
(***************************************************************************)
(* The life of an order, as domain/entities/order.entity.ts declares it.   *)
(* Shared by every module in which the status of an order changes.         *)
(***************************************************************************)

Statuses ==
  {"pending", "paid", "processing", "shipped", "delivered", "cancelled",
   "refunded"}

\* The table transitionTo() consults before an administrator's change.
ValidTransitions ==
  [ pending    |-> {"paid", "cancelled"},
    paid       |-> {"processing", "shipped", "refunded"},
    processing |-> {"shipped", "refunded"},
    shipped    |-> {"delivered"},
    delivered  |-> {},
    cancelled  |-> {},
    refunded   |-> {} ]
=============================================================================
