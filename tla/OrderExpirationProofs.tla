----------------------- MODULE OrderExpirationProofs -----------------------
(***************************************************************************)
(* The expiration cron, for every number of orders, of overlapping runs,   *)
(* every batch size and every limit: a run never passes maxTotal by a      *)
(* whole batch, and a settled order is left as it is.                      *)
(***************************************************************************)
EXTENDS OrderExpiration, FiniteSetTheorems, TLAPS

\* TypeOK without the bound of a run.
Typed ==
  /\ status \in [OrderNumbers -> {"absent", "pending", "paid", "cancelled", "expired"}]
  /\ old \in 0..NumOrders
  /\ run \in [Runs -> [step : {"idle", "list", "batch"}, threshold : 0..NumOrders,
                       todo : SUBSET OrderNumbers, batchCount : 0..BatchSize,
                       totalExpired : Nat]]

\* What is left of a batch still counts towards the limit: the loop lists a
\* batch only below maxTotal, and cancels no more than it has listed.
BatchLeft ==
  \A k \in Runs :
    /\ run[k].step = "idle" => run[k].totalExpired = 0
    /\ run[k].step = "list" => run[k].totalExpired < MaxTotal
    /\ run[k].step = "batch" =>
         run[k].totalExpired + Cardinality(run[k].todo) < MaxTotal + BatchSize

ExpirationInv == Typed /\ BatchLeft

-----------------------------------------------------------------------------
\* Sets of orders are finite.
LEMMA OrdersFinite ==
  ASSUME NEW S \in SUBSET OrderNumbers
  PROVE  IsFiniteSet(S) /\ Cardinality(S) \in Nat
<1>1. IsFiniteSet(OrderNumbers)
  BY ExpirationAssumption, FS_Interval DEF OrderNumbers
<1>2. QED
  BY <1>1, FS_Subset, FS_CardinalityType

\* A set of orders has an oldest and a newest one.
LEMMA FirstOrder ==
  ASSUME NEW S \in SUBSET Nat, S # {}
  PROVE  \E i \in S : \A j \in S : i <= j
<1>1. PICK i \in S : \A j \in S : <<j, i>> \notin OpToRel(<, Nat)
  BY NatLessThanWellFounded, WFMin
<1>2. ASSUME NEW j \in S PROVE i <= j
  <2>1. <<j, i>> \notin {ss \in Nat \X Nat : ss[1] < ss[2]}
    BY <1>1 DEF OpToRel
  <2>2. j \in Nat /\ i \in Nat
    OBVIOUS
  <2>3. QED
    BY <2>1, <2>2
<1>3. QED
  BY <1>2

LEMMA LastOrder ==
  ASSUME NEW S \in SUBSET OrderNumbers, S # {}
  PROVE  \E i \in S : \A j \in S : j <= i
<1> DEFINE Mirror == {n \in Nat : n <= NumOrders /\ NumOrders - n \in S}
<1> USE ExpirationAssumption DEF OrderNumbers
<1>1. Mirror # {}
  <2>1. PICK i \in S : TRUE
    OBVIOUS
  <2>2. NumOrders - i \in Mirror
    OBVIOUS
  <2>3. QED
    BY <2>2
<1>2. PICK n \in Mirror : \A m \in Mirror : n <= m
  <2> HIDE DEF Mirror
  <2>1. Mirror \in SUBSET Nat
    BY DEF Mirror
  <2>2. QED
    BY <1>1, <2>1, FirstOrder
<1>3. ASSUME NEW j \in S PROVE j <= NumOrders - n
  <2>1. NumOrders - j \in Mirror
    OBVIOUS
  <2>2. QED
    BY <1>2, <2>1
<1>4. QED
  BY <1>2, <1>3

\* The loop's next order is one of the batch.
LEMMA CurrentInBatch ==
  ASSUME Typed, NEW k \in Runs, NEW i, Current(k, i)
  PROVE  i \in run[k].todo
<1>1. run[k].todo \in SUBSET Nat /\ run[k].todo # {}
  BY DEF Typed, Current, OrderNumbers
<1>2. \E x \in run[k].todo : \A y \in run[k].todo : x <= y
  BY <1>1, FirstOrder
<1>3. QED
  BY <1>2 DEF Current, Min

\* The query's LIMIT: of any set of orders, no more than batchSize have fewer
\* than batchSize older ones beside them.
LEMMA BatchLimited ==
  ASSUME NEW S \in SUBSET OrderNumbers
  PROVE  /\ Oldest(S) \in SUBSET S
         /\ Cardinality(Oldest(S)) \in 0..BatchSize
<1>1. Oldest(S) \in SUBSET S
  BY DEF Oldest
<1>2. Cardinality(Oldest(S)) \in Nat
  BY <1>1, OrdersFinite
<1>3. Cardinality(Oldest(S)) <= BatchSize
  <2>1. CASE Oldest(S) = {}
    BY <2>1, FS_EmptySet, ExpirationAssumption
  <2>2. CASE Oldest(S) # {}
    <3>1. PICK i \in Oldest(S) : \A j \in Oldest(S) : j <= i
      BY <1>1, <2>2, LastOrder
    <3> DEFINE Older == {j \in S : j < i}
    <3>2. IsFiniteSet(Older) /\ Cardinality(Older) \in Nat
      BY OrdersFinite
    <3>3. Cardinality(Older) < BatchSize
      BY DEF Oldest
    <3>4. Oldest(S) \ {i} \in SUBSET Older
      <4>1. ASSUME NEW j \in Oldest(S), j # i PROVE j \in S /\ j < i
        <5>1. j \in S /\ i \in S /\ j <= i
          BY <1>1, <3>1
        <5>2. j \in Int /\ i \in Int
          BY <5>1 DEF OrderNumbers
        <5>3. QED
          BY <4>1, <5>1, <5>2
      <4>2. QED
        BY <4>1
    <3>5. Cardinality(Oldest(S) \ {i}) <= Cardinality(Older)
      BY <3>2, <3>4, FS_Subset
    <3>6. Cardinality(Oldest(S) \ {i}) = Cardinality(Oldest(S)) - 1
      BY <1>1, OrdersFinite, FS_RemoveElement
    <3> HIDE DEF Older
    <3>7. QED
      BY <1>2, <3>2, <3>3, <3>5, <3>6, ExpirationAssumption
  <2>3. QED
    BY <2>1, <2>2
<1>4. QED
  BY <1>1, <1>2, <1>3, ExpirationAssumption

-----------------------------------------------------------------------------
LEMMA ExpirationInit == Init => ExpirationInv
<1> SUFFICES ASSUME Init PROVE ExpirationInv
  OBVIOUS
<1>1. Typed
  BY ExpirationAssumption DEF Init, Typed, Idle
<1>2. BatchLeft
  BY DEF Init, BatchLeft, Idle
<1>3. QED
  BY <1>1, <1>2 DEF ExpirationInv

\* Taking an order off the batch: cancelled, it moves from the batch to the
\* total; skipped or failed, it leaves room for the other runs.
TakesOff(k, i, n) ==
  /\ Current(k, i)
  /\ run' = [run EXCEPT ![k] = run'[k]]
  /\ run'[k] \in [step : {"batch"}, threshold : {run[k].threshold},
                  todo : {run[k].todo \ {i}}, batchCount : {run[k].batchCount},
                  totalExpired : {run[k].totalExpired + n}]
  /\ old' = old
  /\ status' = status \/ status' = [status EXCEPT ![i] = "expired"]

LEMMA OrderTaken ==
  ASSUME ExpirationInv, NEW k \in Runs, NEW i \in OrderNumbers,
         NEW n \in {0, 1}, TakesOff(k, i, n)
  PROVE  ExpirationInv'
<1> USE DEF ExpirationInv
<1>1. Typed'
  <2>1. status' \in [OrderNumbers -> {"absent", "pending", "paid", "cancelled", "expired"}]
    BY DEF Typed, TakesOff
  <2>2. run[k].totalExpired + n \in Nat /\ run[k].todo \ {i} \in SUBSET OrderNumbers
    BY DEF Typed
  <2>3. run'[k] \in [step : {"idle", "list", "batch"}, threshold : 0..NumOrders,
                     todo : SUBSET OrderNumbers, batchCount : 0..BatchSize,
                     totalExpired : Nat]
    BY <2>2 DEF Typed, TakesOff
  <2>4. QED
    BY <2>1, <2>3 DEF Typed, TakesOff
<1>2. BatchLeft'
  <2>1. Cardinality(run[k].todo \ {i}) = Cardinality(run[k].todo) - 1
    <3>1. IsFiniteSet(run[k].todo)
      BY OrdersFinite DEF Typed
    <3>2. QED
      BY <3>1, CurrentInBatch, FS_RemoveElement DEF TakesOff
  <2>2. Cardinality(run[k].todo) \in Nat /\ run[k].totalExpired \in Nat
    BY OrdersFinite DEF Typed
  <2>3. /\ run'[k].step = "batch" /\ run[k].step = "batch"
        /\ run'[k].todo = run[k].todo \ {i}
        /\ run'[k].totalExpired = run[k].totalExpired + n
        /\ \A j \in Runs \ {k} : run'[j] = run[j]
    BY DEF Typed, Current, TakesOff
  <2>4. run[k].totalExpired + Cardinality(run[k].todo) < MaxTotal + BatchSize
    BY <2>3 DEF BatchLeft
  <2>5. run'[k].totalExpired + Cardinality(run'[k].todo) < MaxTotal + BatchSize
    BY <2>1, <2>2, <2>3, <2>4, ExpirationAssumption
  <2>6. SUFFICES ASSUME NEW j \in Runs
        PROVE /\ run'[j].step = "idle" => run'[j].totalExpired = 0
              /\ run'[j].step = "list" => run'[j].totalExpired < MaxTotal
              /\ run'[j].step = "batch" =>
                   run'[j].totalExpired + Cardinality(run'[j].todo) < MaxTotal + BatchSize
    BY DEF BatchLeft
  <2>7. CASE j = k
    BY <2>3, <2>5, <2>7
  <2>8. CASE j # k
    BY <2>3, <2>8 DEF BatchLeft
  <2>9. QED
    BY <2>7, <2>8
<1>3. QED
  BY <1>1, <1>2

LEMMA RunKeepsInv ==
  ASSUME ExpirationInv, NEW k \in Runs, RunNext(k)
  PROVE  ExpirationInv'
<1> USE DEF ExpirationInv
<1>1. CASE StartRun(k)
  <2>1. Typed'
    BY <1>1 DEF StartRun, Typed
  <2>2. /\ run'[k].step = "list" /\ run'[k].totalExpired = run[k].totalExpired
        /\ run[k].step = "idle"
        /\ \A j \in Runs \ {k} : run'[j] = run[j]
    BY <1>1 DEF StartRun, Typed
  <2>3. BatchLeft'
    BY <2>2, ExpirationAssumption DEF BatchLeft
  <2>4. QED
    BY <2>1, <2>3
<1>2. CASE ListBatch(k)
  <2> DEFINE orders == Oldest(PendingExpired(run[k].threshold))
  <2>1. orders \in SUBSET OrderNumbers /\ Cardinality(orders) \in 0..BatchSize
    <3>1. PendingExpired(run[k].threshold) \in SUBSET OrderNumbers
      BY ExpirationAssumption DEF PendingExpired, Typed, OrderNumbers
    <3>2. QED
      BY <3>1, BatchLimited
  <2>2. /\ run' = [run EXCEPT ![k].step = "batch", ![k].todo = orders,
                              ![k].batchCount = Cardinality(orders)]
        /\ run[k].step = "list" /\ UNCHANGED <<status, old>>
    BY <1>2 DEF ListBatch
  <2> HIDE DEF orders
  <2>3. Typed'
    BY <2>1, <2>2 DEF Typed
  <2>4. BatchLeft'
    BY <2>1, <2>2, ExpirationAssumption DEF Typed, BatchLeft
  <2>5. QED
    BY <2>3, <2>4
<1>3. ASSUME NEW i \in OrderNumbers, ExpireOrder(k, i)
      PROVE  ExpirationInv'
  <2>1. TakesOff(k, i, 1)
    BY <1>3 DEF ExpireOrder, Current, TakesOff, Typed
  <2>2. QED
    BY <2>1, OrderTaken
<1>4. ASSUME NEW i \in OrderNumbers, SkipOrder(k, i)
      PROVE  ExpirationInv'
  <2>1. TakesOff(k, i, 0)
    BY <1>4 DEF SkipOrder, Current, TakesOff, Typed
  <2>2. QED
    BY <2>1, OrderTaken
<1>5. ASSUME NEW i \in OrderNumbers, FailOrder(k, i)
      PROVE  ExpirationInv'
  <2>1. PICK n \in {0, 1} :
          run' = [run EXCEPT ![k].todo = @ \ {i}, ![k].totalExpired = @ + n]
    BY <1>5 DEF FailOrder
  <2>2. TakesOff(k, i, n)
    <3>1. /\ run[k] \in [step : {"idle", "list", "batch"}, threshold : 0..NumOrders,
                         todo : SUBSET OrderNumbers, batchCount : 0..BatchSize,
                         totalExpired : Nat]
          /\ run \in [Runs -> {run[j] : j \in Runs}]
      BY DEF Typed
    <3>2. Current(k, i) /\ run[k].step = "batch" /\ UNCHANGED <<status, old>>
      BY <1>5 DEF FailOrder, Current
    <3>3. QED
      BY <2>1, <3>1, <3>2 DEF TakesOff
  <2>3. QED
    BY <2>2, OrderTaken
<1>6. CASE EndBatch(k)
  <2>1. CASE MoreBatches(k)
    <3>1. /\ run' = [run EXCEPT ![k].step = "list"] /\ UNCHANGED <<status, old>>
          /\ run[k].totalExpired < MaxTotal
      BY <1>6, <2>1 DEF EndBatch, MoreBatches, Typed
    <3>2. QED
      BY <3>1 DEF Typed, BatchLeft
  <2>2. CASE ~MoreBatches(k)
    <3>1. run' = [run EXCEPT ![k] = Idle] /\ UNCHANGED <<status, old>>
      BY <1>6, <2>2 DEF EndBatch, Typed
    <3>2. QED
      BY <3>1, ExpirationAssumption DEF Typed, BatchLeft, Idle
  <2>3. QED
    BY <2>1, <2>2
<1>7. QED
  BY <1>1, <1>2, <1>3, <1>4, <1>5, <1>6 DEF RunNext

LEMMA StepKeepsInv == ExpirationInv /\ [Next]_vars => ExpirationInv'
<1> SUFFICES ASSUME ExpirationInv, [Next]_vars PROVE ExpirationInv'
  OBVIOUS
<1> USE DEF ExpirationInv
<1>1. ASSUME NEW i \in OrderNumbers, PlaceOrder(i) PROVE ExpirationInv'
  BY <1>1 DEF PlaceOrder, Typed, BatchLeft
<1>2. ASSUME NEW i \in OrderNumbers, NEW outcome \in {"paid", "cancelled"},
             ResolveOrder(i, outcome)
      PROVE  ExpirationInv'
  BY <1>2 DEF ResolveOrder, Typed, BatchLeft
<1>3. CASE PassThreshold
  BY <1>3, ExpirationAssumption DEF PassThreshold, Typed, BatchLeft
<1>4. ASSUME NEW k \in Runs, RunNext(k) PROVE ExpirationInv'
  BY <1>4, RunKeepsInv
<1>5. CASE UNCHANGED vars
  BY <1>5 DEF vars, Typed, BatchLeft
<1>6. QED
  BY <1>1, <1>2, <1>3, <1>4, <1>5 DEF Next

-----------------------------------------------------------------------------
LEMMA ExpirationInvariant == Spec => []ExpirationInv
<1>1. QED
  BY ExpirationInit, StepKeepsInv, PTL DEF Spec

\* A run cancels fewer than maxTotal + batchSize orders: maxTotal is tested
\* between batches only (expire-unpaid-orders.use-case.ts).
THEOREM RunsBounded == Spec => []RunBounded
<1>1. ExpirationInv => RunBounded
  <2> SUFFICES ASSUME ExpirationInv, NEW k \in Runs
               PROVE  run[k].totalExpired < MaxTotal + BatchSize
    BY DEF RunBounded
  <2>1. /\ run[k].totalExpired \in Nat
        /\ run[k].step \in {"idle", "list", "batch"}
        /\ run[k].todo \in SUBSET OrderNumbers
    BY DEF ExpirationInv, Typed
  <2>2. Cardinality(run[k].todo) \in Nat
    BY <2>1, OrdersFinite
  <2>3. QED
    BY <2>1, <2>2, ExpirationAssumption DEF ExpirationInv, BatchLeft
<1>2. QED
  BY <1>1, ExpirationInvariant, PTL

\* The state of the cron stays well typed: in particular a batch never holds
\* more than batchSize orders (findPendingExpired), and a run keeps its bound.
THEOREM ExpirationTyped == Spec => []TypeOK
<1>1. ExpirationInv /\ RunBounded => TypeOK
  BY DEF ExpirationInv, Typed, TypeOK
<1>2. QED
  BY <1>1, ExpirationInvariant, RunsBounded, PTL

-----------------------------------------------------------------------------
\* How the status of an order changes: a checkout places it, or somebody finds
\* it pending and resolves it.  Listing, skipping and failing leave it alone.
Placed(i) ==
  status[i] = "absent" /\ status' = [status EXCEPT ![i] = "pending"]

Resolved(i, outcome) ==
  status[i] = "pending" /\ status' = [status EXCEPT ![i] = outcome]

LEMMA StatusChanges ==
  ASSUME [Next]_vars
  PROVE  \/ UNCHANGED status
         \/ \E i \in OrderNumbers :
              Placed(i) \/ \E outcome \in {"paid", "cancelled", "expired"} : Resolved(i, outcome)
<1>1. ASSUME NEW k \in Runs, RunNext(k)
      PROVE  UNCHANGED status \/ \E i \in OrderNumbers : Resolved(i, "expired")
  BY <1>1 DEF RunNext, StartRun, ListBatch, ExpireOrder, SkipOrder, FailOrder, EndBatch, Resolved
<1>2. ASSUME NEW i \in OrderNumbers, NEW outcome \in {"paid", "cancelled"}
      PROVE  /\ PlaceOrder(i) => Placed(i)
             /\ ResolveOrder(i, outcome) => Resolved(i, outcome)
  BY DEF PlaceOrder, ResolveOrder, Placed, Resolved
<1>3. PassThreshold => UNCHANGED status
  BY DEF PassThreshold
<1>4. QED
  BY <1>1, <1>2, <1>3 DEF vars, Next

\* An order paid, cancelled or expired meanwhile is left as it is, whatever
\* list a run works from and however many runs overlap.
THEOREM SettledOrdersStay == Spec => SettledStays
<1>1. ASSUME ExpirationInv, [Next]_vars, NEW i \in OrderNumbers,
             status[i] \notin {"absent", "pending"}
      PROVE  status'[i] = status[i]
  BY <1>1, StatusChanges DEF ExpirationInv, Typed, Placed, Resolved
<1>2. ExpirationInv /\ [Next]_vars =>
        [\A i \in OrderNumbers :
           status[i] \notin {"absent", "pending"} => status'[i] = status[i]]_vars
  BY <1>1
<1>3. QED
  BY <1>2, ExpirationInvariant, PTL DEF Spec, SettledStays

-----------------------------------------------------------------------------
\* The refinement.  status and resolvers of the life cycle, under the mapping
\* of module OrderExpiration.
LifeStatus == [i \in OrderNumbers |-> CASE status[i] = "absent" -> "none"
                                        [] status[i] = "expired" -> "cancelled"
                                        [] OTHER -> status[i]]

LifeResolvers == [i \in OrderNumbers |-> {status[i]} \ {"absent", "pending"}]

LEMMA InitLives == Init => LifeCycle!Init
<1> SUFFICES ASSUME Init PROVE LifeCycle!Init
  OBVIOUS
<1>1. \A i \in OrderNumbers : status[i] = "absent"
  BY DEF Init
<1>2. LifeStatus \in [OrderNumbers -> {"none", "pending"}]
  BY <1>1 DEF LifeStatus
<1>3. LifeResolvers = [i \in OrderNumbers |-> {}]
  BY <1>1 DEF LifeResolvers
<1>4. QED
  BY <1>2, <1>3 DEF LifeCycle!Init, LifeStatus, LifeResolvers

\* A checkout places an order.
LEMMA PlaceLives ==
  ASSUME Typed, NEW i \in OrderNumbers, Placed(i)
  PROVE  LifeCycle!Place(i)
<1>1. /\ status[i] = "absent" /\ status'[i] = "pending"
      /\ \A j \in OrderNumbers \ {i} : status'[j] = status[j]
  BY DEF Typed, Placed
<1>2. LifeStatus[i] = "none" /\ LifeStatus' = [LifeStatus EXCEPT ![i] = "pending"]
  BY <1>1 DEF LifeStatus
<1>3. LifeResolvers' = LifeResolvers
  BY <1>1 DEF LifeResolvers
<1>4. QED
  BY <1>2, <1>3 DEF LifeCycle!Place, LifeStatus, LifeResolvers

\* A payment, a customer or a run resolves it.
LEMMA ResolveLives ==
  ASSUME Typed, NEW i \in OrderNumbers, NEW to \in {"paid", "cancelled", "expired"},
         Resolved(i, to)
  PROVE  LifeCycle!Resolve(i, to, IF to = "paid" THEN "paid" ELSE "cancelled")
<1>1. /\ status[i] = "pending" /\ status'[i] = to
      /\ \A j \in OrderNumbers \ {i} : status'[j] = status[j]
  BY DEF Typed, Resolved
<1>2. /\ LifeStatus[i] = "pending"
      /\ LifeStatus' = [LifeStatus EXCEPT ![i] = IF to = "paid" THEN "paid" ELSE "cancelled"]
  BY <1>1 DEF LifeStatus
<1>3. LifeResolvers' = [LifeResolvers EXCEPT ![i] = {to}]
  BY <1>1 DEF LifeResolvers
<1>4. QED
  BY <1>2, <1>3 DEF LifeCycle!Resolve, LifeStatus, LifeResolvers

LEMMA RestLives ==
  ASSUME UNCHANGED status
  PROVE  UNCHANGED LifeCycle!vars
<1>1. LifeStatus' = LifeStatus /\ LifeResolvers' = LifeResolvers
  BY DEF LifeStatus, LifeResolvers
<1>2. QED
  BY <1>1 DEF LifeCycle!vars, LifeStatus, LifeResolvers

LEMMA StepLives ==
  ASSUME ExpirationInv, [Next]_vars
  PROVE  [LifeCycle!Next]_(LifeCycle!vars)
<1>1. ASSUME NEW i \in OrderNumbers
      PROVE  /\ Placed(i) => LifeCycle!Next
             /\ \A to \in {"paid", "cancelled", "expired"} : Resolved(i, to) => LifeCycle!Next
  BY PlaceLives, ResolveLives DEF ExpirationInv, LifeCycle!Next
<1>2. QED
  BY <1>1, StatusChanges, RestLives

\* Runs that overlap and work from stale lists implement the order life cycle:
\* what somebody resolved meanwhile they leave alone, and what they resolve
\* nobody resolves again.
THEOREM RunsFollowLifeCycle == Spec => ImplementsLifeCycle
<1>1. ExpirationInv /\ [Next]_vars => [LifeCycle!Next]_(LifeCycle!vars)
  BY StepLives
<1>2. QED
  BY <1>1, InitLives, ExpirationInvariant, PTL DEF Spec, ImplementsLifeCycle, LifeCycle!Spec
=============================================================================
