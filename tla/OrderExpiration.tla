-------------------------- MODULE OrderExpiration --------------------------
(***************************************************************************)
(* The cron that cancels unpaid orders.  Every fifteen minutes a run lists *)
(* the oldest pending orders past the threshold, a batch at a time, and    *)
(* cancels each in a transaction of its own; an order whose transaction    *)
(* fails is logged and left for later.  Nothing keeps a slow run from      *)
(* overlapping the next one, and customers pay or cancel meanwhile.        *)
(*                                                                         *)
(* What a cancellation does to stock and coupons is in module Orders.      *)
(***************************************************************************)
EXTENDS Naturals, FiniteSets, FiniteSetsExt

CONSTANTS
  NumOrders,   \* orders are numbered in the order of created_at
  Runs,        \* executions of the cron that may overlap
  BatchSize,   \* batchSize
  MaxTotal     \* maxTotal

ASSUME ExpirationAssumption ==
  /\ NumOrders \in Nat
  /\ BatchSize \in Nat \ {0}
  /\ MaxTotal \in Nat \ {0}

VARIABLES
  status,   \* per order: "absent", "pending", "paid", "cancelled", "expired"
  old,      \* orders 1..old were created before the threshold
  run       \* per execution: its step and local variables

vars == <<status, old, run>>

OrderNumbers == 1..NumOrders

Idle == [step |-> "idle", threshold |-> 0, todo |-> {}, batchCount |-> 0,
         totalExpired |-> 0]

\* The limit per run is tested between batches only: a run that skipped some
\* orders may pass maxTotal, by less than a batch (expire-unpaid-orders.use-case.ts).
RunBounded ==
  \A k \in Runs : run[k].totalExpired < MaxTotal + BatchSize

TypeOK ==
  /\ status \in [OrderNumbers -> {"absent", "pending", "paid", "cancelled", "expired"}]
  /\ old \in 0..NumOrders
  /\ run \in [Runs -> [step : {"idle", "list", "batch"},
                       threshold : 0..NumOrders,
                       todo : SUBSET OrderNumbers,
                       batchCount : 0..BatchSize,
                       totalExpired : Nat]]
  /\ RunBounded

Init ==
  /\ status = [i \in OrderNumbers |-> "absent"]
  /\ old = 0
  /\ run = [k \in Runs |-> Idle]

-----------------------------------------------------------------------------
\* Around the cron: checkouts place orders, time passes, orders are resolved.

PlaceOrder(i) ==
  /\ status[i] = "absent"
  /\ \A j \in 1..(i - 1) : status[j] # "absent"
  /\ status' = [status EXCEPT ![i] = "pending"]
  /\ UNCHANGED <<old, run>>

PassThreshold ==
  /\ old < NumOrders
  /\ status[old + 1] # "absent"
  /\ old' = old + 1
  /\ UNCHANGED <<status, run>>

ResolveOrder(i, outcome) ==
  /\ status[i] = "pending"
  /\ status' = [status EXCEPT ![i] = outcome]
  /\ UNCHANGED <<old, run>>

-----------------------------------------------------------------------------
\* One execution of the cron.

\* The threshold is computed once, when the execution starts; its other
\* variables have their initial values since the last one ended.
StartRun(k) ==
  /\ run[k].step = "idle"
  /\ run' = [run EXCEPT ![k].step = "list", ![k].threshold = old]
  /\ UNCHANGED <<status, old>>

\* Mutant: created_at compared with one order too few.
PendingBefore(threshold) == {i \in 1..(threshold - 1) : status[i] = "pending"}

PendingExpired(threshold) == {i \in 1..threshold : status[i] = "pending"}

\* Mutant: the query without its LIMIT.
AllOf(S) == S

\* findPendingExpired: ORDER BY created_at ASC, LIMIT batchSize, no lock.
Oldest(S) == {i \in S : Cardinality({j \in S : j < i}) < BatchSize}

ListBatch(k) ==
  LET orders == Oldest(PendingExpired(run[k].threshold)) IN
  /\ run[k].step = "list"
  /\ run' = [run EXCEPT ![k].step = "batch",
                        ![k].todo = orders,
                        ![k].batchCount = Cardinality(orders)]
  /\ UNCHANGED <<status, old>>

\* i is the order the loop of execution k has reached.
Current(k, i) ==
  /\ run[k].step = "batch"
  /\ run[k].todo # {}
  /\ i = Min(run[k].todo)

\* Mutant: the listed order is cancelled without looking at its status.
ExpireListed(k, i) ==
  /\ Current(k, i)
  /\ status' = [status EXCEPT ![i] = "expired"]
  /\ run' = [run EXCEPT ![k].todo = @ \ {i}, ![k].totalExpired = @ + 1]
  /\ UNCHANGED old

\* The transaction of one order: the status decides again.
ExpireOrder(k, i) ==
  /\ Current(k, i)
  /\ status[i] = "pending"
  /\ status' = [status EXCEPT ![i] = "expired"]
  /\ run' = [run EXCEPT ![k].todo = @ \ {i}, ![k].totalExpired = @ + 1]
  /\ UNCHANGED old

SkipOrder(k, i) ==
  /\ Current(k, i)
  /\ status[i] # "pending"
  /\ run' = [run EXCEPT ![k].todo = @ \ {i}]
  /\ UNCHANGED <<status, old>>

\* The transaction throws: it is rolled back and the loop goes on.  The count
\* is raised before the COMMIT, and stays raised when that is what fails.
FailOrder(k, i) ==
  /\ Current(k, i)
  /\ \E counted \in (IF status[i] = "pending" THEN {0, 1} ELSE {0}) :
       run' = [run EXCEPT ![k].todo = @ \ {i}, ![k].totalExpired = @ + counted]
  /\ UNCHANGED <<status, old>>

\* Mutant: half of the loop's condition.
BelowTotal(k) == run[k].totalExpired < MaxTotal

\* while (batchCount >= batchSize && totalExpired < maxTotal)
MoreBatches(k) ==
  run[k].batchCount >= BatchSize /\ run[k].totalExpired < MaxTotal

EndBatch(k) ==
  /\ run[k].step = "batch"
  /\ run[k].todo = {}
  /\ run' = [run EXCEPT ![k] = IF MoreBatches(k) THEN [@ EXCEPT !.step = "list"]
                                                 ELSE Idle]
  /\ UNCHANGED <<status, old>>

-----------------------------------------------------------------------------
RunNext(k) ==
  \/ StartRun(k)
  \/ ListBatch(k)
  \/ \E i \in OrderNumbers : ExpireOrder(k, i) \/ SkipOrder(k, i) \/ FailOrder(k, i)
  \/ EndBatch(k)

Next ==
  \/ \E i \in OrderNumbers :
       PlaceOrder(i) \/ ResolveOrder(i, "paid") \/ ResolveOrder(i, "cancelled")
  \/ PassThreshold
  \/ \E k \in Runs : RunNext(k)

\* The scheduler starts a run every fifteen minutes and the loop of a run
\* always goes on.  A transaction that fails may succeed the next time: the
\* cancellation of an order that is tried again and again is not refused for
\* ever.  Customers owe nothing.
Fairness ==
  /\ \A k \in Runs : WF_vars(RunNext(k))
  /\ \A i \in OrderNumbers : SF_vars(\E k \in Runs : ExpireOrder(k, i))

Spec == Init /\ [][Next]_vars /\ Fairness

-----------------------------------------------------------------------------
\* A run works from a list that may be stale and may overlap another run: an
\* order that was paid, cancelled or expired meanwhile is left as it is.
SettledStays ==
  [][\A i \in OrderNumbers :
       status[i] \notin {"absent", "pending"} => status'[i] = status[i]]_vars

\* The life of an order, as far as the cron sees it.
LifeCycle == INSTANCE OrderLifeCycle WITH
  Orders <- OrderNumbers,
  PaidBy <- {"paid"},
  CancelledBy <- {"cancelled", "expired"},
  status <- [i \in OrderNumbers |->
               CASE status[i] = "absent" -> "none"
                 [] status[i] = "expired" -> "cancelled"
                 [] OTHER -> status[i]],
  resolvers <- [i \in OrderNumbers |-> {status[i]} \ {"absent", "pending"}]

\* Runs that work from stale lists, overlap, and fail half-way resolve orders
\* as everybody else does: at most once each, and only pending ones
\* (expire-unpaid-orders.use-case.ts).
ImplementsLifeCycle == LifeCycle!Spec

\* Stock does not stay reserved for ever: an order past the threshold that
\* nobody resolves is cancelled, whatever else the cron has to do.
OldOrdersResolved ==
  \A i \in OrderNumbers :
    (i <= old /\ status[i] = "pending") ~> (status[i] # "pending")

\* Every run ends: the loop cannot list the same orders for ever.
RunsEnd == \A k \in Runs : run[k].step # "idle" ~> run[k].step = "idle"
=============================================================================
