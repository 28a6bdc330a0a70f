------------------------- MODULE CashRegisterProofs -------------------------
(***************************************************************************)
(* The cash register, for every set of staff, registers, sales and         *)
(* requests and every size of the pool: a staff member has one register    *)
(* open at most, no order number is given twice, and a closing misses only *)
(* what was in flight when it began.                                       *)
(***************************************************************************)
EXTENDS CashRegister, FiniteSetTheorems, TLAPS

\* The sales that hold a connection of the pool.
Holders == {s \in Sales : sale[s].step \in {"numbering", "numbered"}}

\* The pool never gives out more connections than it has.
PoolInv == IsFiniteSet(Holders) /\ Cardinality(Holders) <= PoolSize

\* TypeOK without the count of free connections.
Typed ==
  /\ counter \in Nat
  /\ register \in [Registers -> Register]
  /\ movement \in [Requests -> Registers \cup {NoRegister}]
  /\ sale \in [Sales -> CashSale]
  /\ request \in [Requests -> RegisterRequest]
  /\ \A q \in Requests :
       request[q].step \in {"moving", "closing", "adding", "summed"} =>
         request[q].register \in Registers

\* Numbers are those the counter has passed, each of them given once.
NumbersBelow ==
  /\ \A s \in Sales : sale[s].number <= counter
  /\ \A s \in Sales : sale[s].step = "idle" => sale[s].number = 0
  /\ \A s, n \in Sales : sale[s].number # 0 /\ s # n => sale[s].number # sale[n].number

\* A sale is committed with a number.
CommittedNumbered ==
  \A s \in Sales : sale[s].step \in {"numbered", "paid", "shipped", "cancelled"} =>
    sale[s].number # 0

OneOpen == \A st \in Staff, q, r \in Registers : q \in OpenOf(st) /\ r \in OpenOf(st) => q = r

-----------------------------------------------------------------------------
\* What a step may change.

SaleStep ==
  \/ \E s \in Sales : AskConnection(s)
  \/ \E s \in Sales : BeginTransaction(s)
  \/ \E s \in Sales : TakeNumber(s)
  \/ \E s \in Sales : CommitSale(s)
  \/ \E s \in Sales : TimeoutSale(s)
  \/ \E s \in Sales : RollbackSale(s)
  \/ \E s \in Sales : ShipSale(s)
  \/ \E s \in Sales : CancelSale(s)

RegisterStep ==
  \/ \E q \in Requests : BeginOpen(q)
  \/ \E q \in Requests, r \in Registers : StoreOpening(q, r)
  \/ \E q \in Requests : BeginMovement(q)
  \/ \E q \in Requests : StoreMovement(q)
  \/ \E q \in Requests : BeginClose(q)
  \/ \E q \in Requests : ReadMovements(q)
  \/ \E q \in Requests : SumSales(q)
  \/ \E q \in Requests : StoreClosing(q)
  \/ \E q \in Requests : CrashRequest(q)

LEMMA Steps == Next <=> SaleStep \/ RegisterStep
  BY DEF Next, SaleStep, RegisterStep

\* A step of a sale moves that sale alone, and gives it a number or none.
SaleMoves(s, step, number) ==
  /\ sale' = [sale EXCEPT ![s] = sale'[s]]
  /\ sale'[s] \in CashSale
  /\ sale'[s].step = step /\ sale'[s].number = number
  /\ UNCHANGED <<register, movement, request>>

LEMMA SaleStepMoves ==
  ASSUME Typed, SaleStep
  PROVE  \E s \in Sales :
    \/ SaleMoves(s, "numbering", sale[s].number) /\ Free > 0 /\ counter' = counter
    \/ SaleMoves(s, "numbered", counter + 1) /\ sale[s].step = "numbering" /\ counter' = counter + 1
    \/ \E step \in {"asking", "paid", "shipped", "cancelled", "failed"} :
         SaleMoves(s, step, sale[s].number) /\ counter' = counter
<1> USE RegisterAssumption DEF Typed, CashSale, SaleMoves
<1>1. ASSUME NEW s \in Sales, AskConnection(s)
      PROVE  SaleMoves(s, "asking", sale[s].number) /\ counter' = counter
  BY <1>1 DEF AskConnection
<1>2. ASSUME NEW s \in Sales, BeginTransaction(s)
      PROVE  SaleMoves(s, "numbering", sale[s].number) /\ Free > 0 /\ counter' = counter
  BY <1>2 DEF BeginTransaction, HasConnection
<1>3. ASSUME NEW s \in Sales, TakeNumber(s)
      PROVE  SaleMoves(s, "numbered", counter + 1) /\ sale[s].step = "numbering" /\ counter' = counter + 1
  <2>1. counter' = counter + 1 /\ counter + 1 \in Nat
    BY <1>3 DEF TakeNumber, NumberTaken
  <2>2. /\ sale[s].step = "numbering" /\ UNCHANGED <<register, movement, request>>
        /\ sale' = [sale EXCEPT ![s].step = "numbered", ![s].number = counter + 1]
    BY <1>3, <2>1 DEF TakeNumber
  <2>3. QED
    BY <2>1, <2>2
<1>4. ASSUME NEW s \in Sales, CommitSale(s)
      PROVE  SaleMoves(s, "paid", sale[s].number) /\ counter' = counter
  BY <1>4 DEF CommitSale
<1>5. ASSUME NEW s \in Sales, TimeoutSale(s) \/ RollbackSale(s)
      PROVE  SaleMoves(s, "failed", sale[s].number) /\ counter' = counter
  BY <1>5 DEF TimeoutSale, RollbackSale, SaleFailed
<1>6. ASSUME NEW s \in Sales, ShipSale(s)
      PROVE  SaleMoves(s, "shipped", sale[s].number) /\ counter' = counter
  BY <1>6 DEF ShipSale
<1>7. ASSUME NEW s \in Sales, CancelSale(s)
      PROVE  SaleMoves(s, "cancelled", sale[s].number) /\ counter' = counter
  BY <1>7 DEF CancelSale
<1> HIDE DEF Typed, CashSale, SaleMoves
<1>8. QED
  BY <1>1, <1>2, <1>3, <1>4, <1>5, <1>6, <1>7 DEF SaleStep

\* What a new request is: its local variables are set, the database is not.
LEMMA AskMoves ==
  ASSUME Typed, NEW q \in Requests, NEW step \in {"opening", "moving", "closing"},
         NEW r \in Registers \cup {NoRegister}, NEW there \in SUBSET Item,
         Ask(q, step, r, there)
  PROVE  /\ request' = [request EXCEPT ![q] = request'[q]]
         /\ request'[q] \in RegisterRequest
         /\ request'[q].step = step /\ request'[q].register = r
         /\ request'[q].there = there
         /\ UNCHANGED <<register, movement, sale, counter>>
<1>1. Dated \in SUBSET Sales /\ Cashier[q] \in Staff
  BY RegisterAssumption DEF Dated
<1>2. QED
  BY <1>1 DEF Typed, Ask, RegisterRequest

LEMMA ItemsTyped ==
  ASSUME Typed, NEW r \in Registers
  PROVE  MovementsOf(r) \in SUBSET Item /\ SalesOf(r) \in SUBSET Item
  BY DEF MovementsOf, SalesOf, Item

LEMMA EndedTyped == Ended \in RegisterRequest /\ Ended.step = "done"
<1>1. Ended = [step |-> "done", staff |-> NoStaff, register |-> NoRegister,
               openedAt |-> {}, counted |-> {}, there |-> {}]
  BY DEF Ended, NoRequest
<1>2. QED
  BY <1>1 DEF RegisterRequest
-----------------------------------------------------------------------------
\* Types, and the connections of the pool.

LEMMA InitTyped == Init => Typed /\ PoolInv
<1> SUFFICES ASSUME Init PROVE Typed /\ PoolInv
  OBVIOUS
<1> USE RegisterAssumption
<1>1. Typed
  <2>1. Unopened \in Register
    BY DEF Unopened, Register
  <2>2. NoSale \in CashSale
    BY DEF NoSale, CashSale
  <2>3. NoRequest \in RegisterRequest /\ NoRequest.step = "idle"
    BY DEF NoRequest, RegisterRequest
  <2>4. QED
    BY <2>1, <2>2, <2>3 DEF Init, Typed
<1>2. Holders = {}
  BY DEF Init, Holders, NoSale
<1>3. QED
  BY <1>1, <1>2, FS_EmptySet DEF PoolInv

LEMMA TypedStep ==
  ASSUME Typed, [Next]_vars
  PROVE  Typed'
<1>1. CASE SaleStep
  <2>1. PICK s \in Sales :
          (\E step, number : SaleMoves(s, step, number)) /\ counter' \in {counter, counter + 1}
    BY <1>1, SaleStepMoves
  <2>2. QED
    BY <2>1 DEF SaleMoves, Typed
<1>2. ASSUME NEW q \in Requests, NEW step \in {"opening", "moving", "closing"},
             NEW r \in Registers \cup {NoRegister}, NEW there \in SUBSET Item,
             Ask(q, step, r, there), step # "opening" => r \in Registers
      PROVE  Typed'
  <2>1. /\ request' = [request EXCEPT ![q] = request'[q]]
        /\ request'[q] \in RegisterRequest
        /\ request'[q].step = step /\ request'[q].register = r
        /\ UNCHANGED <<register, movement, sale, counter>>
    BY <1>2, AskMoves
  <2>2. request' \in [Requests -> RegisterRequest]
    BY <2>1 DEF Typed
  <2>3. ASSUME NEW p \in Requests, request'[p].step \in {"moving", "closing", "adding", "summed"}
        PROVE  request'[p].register \in Registers
    <3>1. CASE p = q
      BY <1>2, <2>1, <2>3, <3>1
    <3>2. CASE p # q
      BY <2>1, <2>3, <3>2 DEF Typed
    <3>3. QED
      BY <3>1, <3>2
  <2>4. QED
    BY <2>1, <2>2, <2>3 DEF Typed
<1>3. CASE \E q \in Requests : BeginOpen(q) \/ BeginMovement(q) \/ BeginClose(q)
  <2>1. PICK q \in Requests : BeginOpen(q) \/ BeginMovement(q) \/ BeginClose(q)
    BY <1>3
  <2>2. CASE BeginOpen(q)
    BY <1>2, <2>2 DEF BeginOpen
  <2>3. CASE BeginMovement(q)
    BY <1>2, <2>3 DEF BeginMovement, OpenOf
  <2>4. CASE BeginClose(q)
    <3>1. PICK r \in Registers :
            \E there \in SUBSET Item : Ask(q, "closing", r, there)
      <4>1. ASSUME NEW r \in Registers
            PROVE  MovementsOf(r) \cup {i \in {"sale"} \X Sales :
                     /\ sale[i[2]].staff = register[r].staff
                     /\ sale[i[2]].step \in {"paid", "shipped"}
                     /\ i[2] \notin register[r].openedAt} \in SUBSET Item
        BY ItemsTyped DEF Item
      <4>2. QED
        BY <2>4, <4>1 DEF BeginClose, OpenOf
    <3>2. QED
      BY <1>2, <3>1
  <2>5. QED
    BY <2>1, <2>2, <2>3, <2>4
<1>4. ASSUME NEW q \in Requests, NEW r \in Registers, StoreOpening(q, r) PROVE Typed'
  <2>1. Dated \in SUBSET Sales
    BY DEF Dated
  <2>2. request[q].staff \in Staff \cup {NoStaff} /\ request[q].openedAt \in SUBSET Sales
    BY DEF Typed, RegisterRequest
  <2>3. register' \in [Registers -> Register]
    BY <1>4, <2>1, <2>2 DEF StoreOpening, Typed, Register
  <2>4. QED
    BY <1>4, <2>3, EndedTyped DEF StoreOpening, Typed
<1>5. ASSUME NEW q \in Requests, StoreMovement(q) PROVE Typed'
  BY <1>5, EndedTyped DEF StoreMovement, Typed
<1>6. ASSUME NEW q \in Requests, ReadMovements(q) PROVE Typed'
  <2>1. request[q].register \in Registers
    BY <1>6 DEF ReadMovements, Typed
  <2>2. MovementsOf(request[q].register) \in SUBSET Item
    BY <2>1, ItemsTyped
  <2>3. request'[q] \in RegisterRequest /\ request'[q].register \in Registers
    BY <1>6, <2>1, <2>2 DEF ReadMovements, Typed, RegisterRequest
  <2>4. request' = [request EXCEPT ![q] = request'[q]]
    BY <1>6 DEF ReadMovements, Typed
  <2>5. request' \in [Requests -> RegisterRequest]
    BY <2>3, <2>4 DEF Typed
  <2>6. QED
    BY <1>6, <2>3, <2>4, <2>5 DEF ReadMovements, Typed
<1>7. ASSUME NEW q \in Requests, SumSales(q) PROVE Typed'
  <2>1. request[q].register \in Registers
    BY <1>7 DEF SumSales, Typed
  <2>2. request[q].counted \cup SalesOf(request[q].register) \in SUBSET Item
    BY <2>1, ItemsTyped DEF Typed, RegisterRequest
  <2>3. request'[q] \in RegisterRequest /\ request'[q].register \in Registers
    BY <1>7, <2>1, <2>2 DEF SumSales, Typed, RegisterRequest
  <2>4. request' = [request EXCEPT ![q] = request'[q]]
    BY <1>7 DEF SumSales, Typed
  <2>5. request' \in [Requests -> RegisterRequest]
    BY <2>3, <2>4 DEF Typed
  <2>6. QED
    BY <1>7, <2>3, <2>4, <2>5 DEF SumSales, Typed
<1>8. ASSUME NEW q \in Requests, StoreClosing(q) PROVE Typed'
  <2>1. /\ request[q].register \in Registers
        /\ request[q].counted \in SUBSET Item /\ request[q].there \in SUBSET Item
    BY <1>8 DEF StoreClosing, Typed, RegisterRequest
  <2>2. register' \in [Registers -> Register]
    <3> DEFINE r == request[q].register
    <3>1. register' = [register EXCEPT ![r].state = "closed",
            ![r].counted = request[q].counted, ![r].there = request[q].there,
            ![r].again = register[r].state = "closed"]
      BY <1>8 DEF StoreClosing
    <3>2. register[r] \in Register /\ r \in Registers
      BY <2>1 DEF Typed
    <3> HIDE DEF r
    <3>3. register'[r] \in Register
      BY <2>1, <3>1, <3>2 DEF Typed, Register
    <3>4. QED
      BY <3>1, <3>3 DEF Typed
  <2>3. QED
    BY <1>8, <2>2, EndedTyped DEF StoreClosing, Typed
<1>9. ASSUME NEW q \in Requests, CrashRequest(q) PROVE Typed'
  BY <1>9, EndedTyped DEF CrashRequest, Typed
<1>10. CASE UNCHANGED vars
  BY <1>10 DEF vars, Typed
<1>11. QED
  BY <1>1, <1>3, <1>4, <1>5, <1>6, <1>7, <1>8, <1>9, <1>10, Steps DEF RegisterStep

\* A connection is taken only when the pool has one; the order number's is
\* given back before its step ends.
LEMMA PoolStep ==
  ASSUME Typed, PoolInv, [Next]_vars
  PROVE  PoolInv'
<1>1. CASE UNCHANGED sale
  BY <1>1 DEF PoolInv, Holders
<1>2. CASE SaleStep
  <2>1. PICK s \in Sales :
    \/ SaleMoves(s, "numbering", sale[s].number) /\ Free > 0
    \/ SaleMoves(s, "numbered", counter + 1) /\ sale[s].step = "numbering"
    \/ \E step \in {"asking", "paid", "shipped", "cancelled", "failed"} :
         SaleMoves(s, step, sale[s].number)
    BY <1>2, SaleStepMoves
  <2>2. \A n \in Sales \ {s} : sale'[n] = sale[n]
    BY <2>1 DEF SaleMoves, Typed
  <2>3. IsFiniteSet(Holders) /\ Cardinality(Holders) \in Nat
    BY FS_CardinalityType DEF PoolInv
  <2>4. CASE SaleMoves(s, "numbering", sale[s].number) /\ Free > 0
    <3>1. Holders' = Holders \cup {s}
      BY <2>2, <2>4 DEF Holders, SaleMoves
    <3>2. Cardinality(Holders) < PoolSize
      BY <2>3, <2>4, RegisterAssumption DEF Free, Holders
    <3>3. /\ IsFiniteSet(Holders \cup {s})
          /\ Cardinality(Holders \cup {s}) <= Cardinality(Holders) + 1
      <4>1. /\ IsFiniteSet(Holders \cup {s})
            /\ Cardinality(Holders \cup {s}) =
                 IF s \in Holders THEN Cardinality(Holders) ELSE Cardinality(Holders) + 1
        BY <2>3, FS_AddElement
      <4>2. QED
        BY <2>3, <4>1
    <3>4. Cardinality(Holders) + 1 <= PoolSize
      BY <2>3, <3>2, RegisterAssumption
    <3>5. Cardinality(Holders \cup {s}) \in Nat
      BY <3>3, FS_CardinalityType
    <3> HIDE DEF Holders
    <3>6. QED
      BY <2>3, <3>1, <3>3, <3>4, <3>5, RegisterAssumption DEF PoolInv
  <2>5. CASE SaleMoves(s, "numbered", counter + 1) /\ sale[s].step = "numbering"
    <3>1. Holders' = Holders
      BY <2>2, <2>5 DEF Holders, SaleMoves
    <3>2. QED
      BY <3>1 DEF PoolInv
  <2>6. CASE \E step \in {"asking", "paid", "shipped", "cancelled", "failed"} :
               SaleMoves(s, step, sale[s].number)
    <3>1. Holders' = Holders \ {s}
      BY <2>2, <2>6 DEF Holders, SaleMoves
    <3>2. /\ IsFiniteSet(Holders \ {s})
          /\ Cardinality(Holders \ {s}) <= Cardinality(Holders)
          /\ Cardinality(Holders \ {s}) \in Nat
      <4>1. Holders \ {s} \in SUBSET Holders
        OBVIOUS
      <4>2. QED
        BY <2>3, <4>1, FS_Subset, FS_CardinalityType
    <3>3. QED
      BY <2>3, <3>1, <3>2, RegisterAssumption DEF PoolInv
  <2>7. QED
    BY <2>1, <2>4, <2>5, <2>6
<1>3. CASE RegisterStep
  <2>1. UNCHANGED sale
    BY <1>3 DEF RegisterStep, BeginOpen, BeginMovement, BeginClose, Ask, StoreOpening,
      StoreMovement, ReadMovements, SumSales, StoreClosing, CrashRequest
  <2>2. QED
    BY <1>1, <2>1
<1>4. QED
  BY <1>1, <1>2, <1>3, Steps DEF vars
-----------------------------------------------------------------------------
\* Order numbers.

LEMMA NumbersStep ==
  ASSUME Typed, NumbersBelow, [Next]_vars
  PROVE  NumbersBelow'
<1>1. CASE SaleStep
  <2>1. PICK s \in Sales :
    \/ /\ \E step \in {"numbering", "asking", "paid", "shipped", "cancelled", "failed"} :
            SaleMoves(s, step, sale[s].number)
       /\ counter' = counter
    \/ SaleMoves(s, "numbered", counter + 1) /\ counter' = counter + 1
    BY <1>1, SaleStepMoves
  <2>2. \A n \in Sales : counter \in Nat /\ sale[n].number \in Nat
    BY DEF Typed, CashSale
  <2>3. \A n \in Sales \ {s} : sale'[n] = sale[n]
    BY <2>1 DEF SaleMoves, Typed
  <2>4. CASE counter' = counter /\ sale'[s].number = sale[s].number /\ sale'[s].step # "idle"
    BY <2>2, <2>3, <2>4 DEF NumbersBelow
  <2>5. CASE /\ counter' = counter + 1 /\ sale'[s].number = counter + 1
             /\ sale'[s].step # "idle"
    <3>1. \A n \in Sales : sale'[n].number <= counter'
      BY <2>2, <2>3, <2>5 DEF NumbersBelow
    <3>2. \A n \in Sales : sale'[n].step = "idle" => sale'[n].number = 0
      BY <2>3, <2>5 DEF NumbersBelow
    <3>3. \A n \in Sales \ {s} : sale'[n].number # sale'[s].number
      BY <2>2, <2>3, <2>5 DEF NumbersBelow
    <3>4. \A n, m \in Sales \ {s} :
            sale'[n].number # 0 /\ n # m => sale'[n].number # sale'[m].number
      BY <2>3 DEF NumbersBelow
    <3>5. QED
      BY <3>1, <3>2, <3>3, <3>4 DEF NumbersBelow
  <2>6. QED
    BY <2>1, <2>4, <2>5 DEF SaleMoves
<1>2. CASE UNCHANGED <<sale, counter>>
  BY <1>2 DEF NumbersBelow
<1>3. CASE RegisterStep
  <2>1. UNCHANGED <<sale, counter>>
    BY <1>3 DEF RegisterStep, BeginOpen, BeginMovement, BeginClose, Ask, StoreOpening,
      StoreMovement, ReadMovements, SumSales, StoreClosing, CrashRequest
  <2>2. QED
    BY <1>2, <2>1
<1>4. QED
  BY <1>1, <1>2, <1>3, Steps DEF vars

LEMMA CommittedStep ==
  ASSUME Typed, CommittedNumbered, [Next]_vars
  PROVE  CommittedNumbered'
<1> USE DEF Typed, CashSale, CommittedNumbered
<1>1. CASE UNCHANGED sale
  BY <1>1
<1>2. ASSUME NEW s \in Sales, AskConnection(s) \/ BeginTransaction(s)
      PROVE  CommittedNumbered'
  BY <1>2 DEF AskConnection, BeginTransaction
<1>3. ASSUME NEW s \in Sales, TakeNumber(s)
      PROVE  CommittedNumbered'
  <2>1. counter' # 0
    BY <1>3 DEF TakeNumber, NumberTaken
  <2>2. QED
    BY <1>3, <2>1 DEF TakeNumber
<1>4. ASSUME NEW s \in Sales,
             TimeoutSale(s) \/ RollbackSale(s) \/ CommitSale(s) \/ ShipSale(s) \/ CancelSale(s)
      PROVE  CommittedNumbered'
  BY <1>4 DEF CommitSale, ShipSale, CancelSale, TimeoutSale, RollbackSale, SaleFailed
<1> HIDE DEF Typed, CashSale, CommittedNumbered
<1>5. CASE SaleStep
  BY <1>2, <1>3, <1>4, <1>5 DEF SaleStep
<1>6. CASE RegisterStep
  <2>1. UNCHANGED sale
    BY <1>6 DEF RegisterStep, BeginOpen, BeginMovement, BeginClose, Ask, StoreOpening,
      StoreMovement, ReadMovements, SumSales, StoreClosing, CrashRequest
  <2>2. QED
    BY <1>1, <2>1
<1>7. QED
  BY <1>1, <1>5, <1>6, Steps DEF vars

\* What a step does to a sale that has a number: it keeps one and its staff,
\* and once it is committed it can only be shipped or cancelled for good.
LEMMA SalesStay ==
  ASSUME Typed, NumbersBelow, [Next]_vars, NEW s \in Sales
  PROVE  /\ sale[s].number # 0 => sale'[s].number # 0 /\ sale'[s].staff = sale[s].staff
         /\ sale[s].step \in {"paid", "shipped", "cancelled"} =>
              /\ sale'[s].step \in {"paid", "shipped", "cancelled"}
              /\ sale'[s].staff = sale[s].staff
         /\ sale[s].step = "cancelled" => sale'[s].step = "cancelled"
<1> USE DEF Typed, CashSale
<1>1. CASE UNCHANGED sale
  BY <1>1
<1>2. ASSUME NEW n \in Sales, AskConnection(n) PROVE sale'[s] = sale[s] \/ sale[s].step = "idle"
  BY <1>2 DEF AskConnection
<1>3. ASSUME NEW n \in Sales, TakeNumber(n)
      PROVE  \/ sale'[s] = sale[s]
             \/ /\ sale[s].step = "numbering" /\ sale'[s].number # 0
                /\ sale'[s].staff = sale[s].staff
  <2>1. counter' # 0
    BY <1>3 DEF TakeNumber, NumberTaken
  <2>2. QED
    BY <1>3, <2>1 DEF TakeNumber
<1>4. ASSUME NEW n \in Sales,
             BeginTransaction(n) \/ CommitSale(n) \/ TimeoutSale(n) \/ RollbackSale(n)
      PROVE  \/ sale'[s] = sale[s]
             \/ /\ sale[s].step \in {"asking", "numbering", "numbered"}
                /\ sale'[s].number = sale[s].number /\ sale'[s].staff = sale[s].staff
  BY <1>4 DEF BeginTransaction, CommitSale, TimeoutSale, TimedOut, RollbackSale, SaleFailed
<1>5. ASSUME NEW n \in Sales, ShipSale(n) \/ CancelSale(n)
      PROVE  \/ sale'[s] = sale[s]
             \/ /\ sale[s].step = "paid" /\ sale'[s].step \in {"shipped", "cancelled"}
                /\ sale'[s].number = sale[s].number /\ sale'[s].staff = sale[s].staff
  BY <1>5 DEF ShipSale, CancelSale
<1>6. CASE RegisterStep
  <2>1. UNCHANGED sale
    BY <1>6 DEF RegisterStep, BeginOpen, BeginMovement, BeginClose, Ask, StoreOpening,
      StoreMovement, ReadMovements, SumSales, StoreClosing, CrashRequest
  <2>2. QED
    BY <1>1, <2>1
<1> HIDE DEF Typed, CashSale
<1>7. CASE SaleStep
  BY <1>2, <1>3, <1>4, <1>5, <1>7 DEF SaleStep, NumbersBelow
<1>8. QED
  BY <1>1, <1>6, <1>7, Steps DEF vars

-----------------------------------------------------------------------------
\* The rows of the registers.

LEMMA RegisterWrites ==
  ASSUME [Next]_vars
  PROVE  \/ UNCHANGED register
         \/ \E q \in Requests, r \in Registers : StoreOpening(q, r)
         \/ \E q \in Requests : StoreClosing(q)
<1>1. CASE SaleStep
  BY <1>1 DEF SaleStep, AskConnection, BeginTransaction, TakeNumber, CommitSale,
    TimeoutSale, RollbackSale, SaleFailed, ShipSale, CancelSale
<1>2. CASE RegisterStep
  BY <1>2 DEF RegisterStep, BeginOpen, BeginMovement, BeginClose, Ask, StoreMovement,
    ReadMovements, SumSales, CrashRequest
<1>3. QED
  BY <1>1, <1>2, Steps DEF vars

\* A row that exists keeps its staff and its instants, and a closed one stays closed.
LEMMA RegistersStay ==
  ASSUME Typed, [Next]_vars, NEW r \in Registers, register[r].state # "none"
  PROVE  /\ register'[r].state # "none"
         /\ register'[r].staff = register[r].staff
         /\ register'[r].openedAt = register[r].openedAt
         /\ register'[r].stored = register[r].stored
         /\ register[r].state = "closed" => register'[r].state = "closed"
<1> USE DEF Typed, Register
<1>1. ASSUME NEW q \in Requests, NEW n \in Registers, StoreOpening(q, n)
      PROVE  register'[r] = register[r]
  BY <1>1 DEF StoreOpening
<1>2. ASSUME NEW q \in Requests, StoreClosing(q)
      PROVE  \/ register'[r] = register[r]
             \/ /\ register'[r].state = "closed"
                /\ register'[r].staff = register[r].staff
                /\ register'[r].openedAt = register[r].openedAt
                /\ register'[r].stored = register[r].stored
  BY <1>2 DEF StoreClosing
<1> HIDE DEF Typed, Register
<1>3. QED
  BY <1>1, <1>2, RegisterWrites

\* What an opening stores.
LEMMA OpeningStores ==
  ASSUME Typed, NEW q \in Requests, NEW r \in Registers, StoreOpening(q, r)
  PROVE  /\ \A n \in Registers \ {r} : register'[n] = register[n]
         /\ \/ UNCHANGED register
            \/ /\ OpenOf(request[q].staff) = {} /\ register[r].state = "none"
               /\ register'[r].state = "open"
               /\ register'[r].staff = request[q].staff
               /\ register'[r].stored = Dated
               /\ register'[r].counted = register[r].counted
  BY DEF Typed, Register, StoreOpening, IndexAllows

\* What a closing stores.
LEMMA ClosingStores ==
  ASSUME Typed, NEW q \in Requests, StoreClosing(q)
  PROVE  LET r == request[q].register IN
         /\ r \in Registers /\ request[q].step = "summed"
         /\ \A n \in Registers \ {r} : register'[n] = register[n]
         /\ register'[r].state = "closed"
         /\ register'[r].counted = request[q].counted
         /\ register'[r].there = request[q].there
         /\ register'[r].again = (register[r].state = "closed")
<1>1. request[q].register \in Registers /\ request[q].step = "summed"
  BY DEF StoreClosing, Typed
<1>2. QED
  BY <1>1 DEF StoreClosing, Typed, Register

LEMMA OneOpenStep ==
  ASSUME Typed, OneOpen, [Next]_vars
  PROVE  OneOpen'
<1>1. CASE UNCHANGED register
  BY <1>1 DEF OneOpen, OpenOf
<1>2. ASSUME NEW q \in Requests, NEW r \in Registers, StoreOpening(q, r)
      PROVE  OneOpen'
  BY <1>1, <1>2, OpeningStores DEF OneOpen, OpenOf
<1>3. ASSUME NEW q \in Requests, StoreClosing(q)
      PROVE  OneOpen'
  BY <1>3, ClosingStores DEF OneOpen, OpenOf
<1>4. QED
  BY <1>1, <1>2, <1>3, RegisterWrites
-----------------------------------------------------------------------------
\* What the closings count.

\* The requests that work on a register work on one that exists.
WorksOnRegister ==
  \A q \in Requests :
    request[q].step \in {"closing", "adding", "summed"} =>
      register[request[q].register].state # "none"

\* A sale that was counted is one of the register's staff, and dated.
SalesCounted ==
  /\ \A q \in Requests, s \in Sales : <<"sale", s>> \in request[q].counted =>
       /\ request[q].step = "summed" /\ sale[s].number # 0
       /\ sale[s].staff = register[request[q].register].staff
  /\ \A r \in Registers, s \in Sales : <<"sale", s>> \in register[r].counted =>
       /\ register[r].state = "closed" /\ sale[s].number # 0
       /\ sale[s].staff = register[r].staff

\* Register r was stored when q had counted its sales, but for a late rewriting.
CountedBefore(q, r) ==
  /\ register[q].state = "closed"
  /\ \/ register[q].again
     \/ \A s \in Sales : <<"sale", s>> \in register[q].counted => s \in register[r].stored

\* Of two registers of one staff member, one was counted before the other was
\* stored: they are never open together.
OneBeforeTheOther ==
  \A q, r \in Registers :
    /\ q # r /\ register[q].state # "none" /\ register[r].state # "none"
    /\ register[q].staff = register[r].staff
    => CountedBefore(q, r) \/ CountedBefore(r, q)

CountInv == WorksOnRegister /\ SalesCounted /\ OneBeforeTheOther

\* What the requests of a register do to their local variables.
LEMMA RequestMoves ==
  ASSUME Typed, [Next]_vars, NEW q \in Requests
  PROVE  \/ request'[q] = request[q]
         \/ /\ request[q].step = "idle" /\ request'[q].counted = request[q].counted
            /\ request'[q].step \in {"opening", "moving"}
         \/ /\ request[q].step = "idle" /\ request'[q].counted = request[q].counted
            /\ request'[q].step = "closing" /\ BeginClose(q)
         \/ /\ request[q].step = "closing" /\ request'[q].step = "adding" /\ ReadMovements(q)
            /\ request'[q].counted = MovementsOf(request[q].register)
            /\ request'[q].register = request[q].register
            /\ request'[q].there = request[q].there
         \/ /\ request[q].step = "adding" /\ request'[q].step = "summed" /\ SumSales(q)
            /\ request'[q].counted = request[q].counted \cup SalesOf(request[q].register)
            /\ request'[q].register = request[q].register
            /\ request'[q].there = request[q].there
         \/ request'[q] = Ended
<1> USE DEF Typed, RegisterRequest
<1>1. CASE UNCHANGED request
  BY <1>1
<1>2. CASE SaleStep
  <2>1. UNCHANGED request
    BY <1>2 DEF SaleStep, AskConnection, BeginTransaction, TakeNumber, CommitSale,
      TimeoutSale, RollbackSale, SaleFailed, ShipSale, CancelSale
  <2>2. QED
    BY <1>1, <2>1
<1>3. ASSUME NEW p \in Requests, NEW r, NEW step, NEW there, Ask(p, step, r, there), p # q
      PROVE  request'[q] = request[q]
  BY <1>3 DEF Ask
<1>4. ASSUME NEW r, NEW step, NEW there, Ask(q, step, r, there)
      PROVE  /\ request[q].step = "idle" /\ request'[q].counted = request[q].counted
             /\ request'[q].step = step
  BY <1>4 DEF Ask
<1>5. ASSUME NEW p \in Requests, BeginOpen(p) \/ BeginMovement(p)
      PROVE  \/ request'[q] = request[q]
             \/ /\ request[q].step = "idle" /\ request'[q].counted = request[q].counted
                /\ request'[q].step \in {"opening", "moving"}
  BY <1>3, <1>4, <1>5 DEF BeginOpen, BeginMovement
<1>6. ASSUME NEW p \in Requests, BeginClose(p)
      PROVE  \/ request'[q] = request[q]
             \/ /\ request[q].step = "idle" /\ request'[q].counted = request[q].counted
                /\ request'[q].step = "closing" /\ BeginClose(q)
  <2>1. CASE p = q
    <3>1. PICK r, there : Ask(q, "closing", r, there)
      BY <1>6, <2>1 DEF BeginClose
    <3>2. QED
      BY <1>4, <1>6, <2>1, <3>1
  <2>2. CASE p # q
    <3>1. PICK r, there : Ask(p, "closing", r, there)
      BY <1>6 DEF BeginClose
    <3>2. QED
      BY <1>3, <2>2, <3>1
  <2>3. QED
    BY <2>1, <2>2
<1>7. ASSUME NEW p \in Requests, ReadMovements(p), p = q
      PROVE  /\ request[q].step = "closing" /\ request'[q].step = "adding"
             /\ request'[q].counted = MovementsOf(request[q].register)
             /\ request'[q].register = request[q].register
             /\ request'[q].there = request[q].there
  BY <1>7 DEF ReadMovements
<1>8. ASSUME NEW p \in Requests, SumSales(p), p = q
      PROVE  /\ request[q].step = "adding" /\ request'[q].step = "summed"
             /\ request'[q].counted = request[q].counted \cup SalesOf(request[q].register)
             /\ request'[q].register = request[q].register
             /\ request'[q].there = request[q].there
  BY <1>8 DEF SumSales
<1>9. ASSUME NEW p \in Requests, p # q, ReadMovements(p) \/ SumSales(p)
      PROVE  request'[q] = request[q]
  BY <1>9 DEF ReadMovements, SumSales
<1>10. ASSUME NEW p \in Requests, NEW r \in Registers,
              \/ StoreOpening(p, r) \/ StoreMovement(p) \/ StoreClosing(p) \/ CrashRequest(p)
       PROVE  request'[q] = request[q] \/ request'[q] = Ended
  BY <1>10 DEF StoreOpening, StoreMovement, StoreClosing, CrashRequest
<1>11. ASSUME NEW p \in Requests, StoreMovement(p) \/ StoreClosing(p) \/ CrashRequest(p)
       PROVE  request'[q] = request[q] \/ request'[q] = Ended
  BY <1>11 DEF StoreMovement, StoreClosing, CrashRequest
<1> HIDE DEF Typed, RegisterRequest
<1>12. CASE RegisterStep
  <2>1. CASE \E p \in Requests : ReadMovements(p)
    BY <1>7, <1>9, <2>1
  <2>2. CASE \E p \in Requests : SumSales(p)
    BY <1>8, <1>9, <2>2
  <2>3. QED
    BY <1>5, <1>6, <1>10, <1>11, <1>12, <2>1, <2>2 DEF RegisterStep
<1>13. QED
  BY <1>1, <1>2, <1>12, Steps DEF vars
LEMMA WorksStep ==
  ASSUME Typed, WorksOnRegister, [Next]_vars
  PROVE  WorksOnRegister'
<1> SUFFICES ASSUME NEW q \in Requests, request'[q].step \in {"closing", "adding", "summed"}
             PROVE  register'[request'[q].register].state # "none"
  BY DEF WorksOnRegister
<1>1. CASE /\ request[q].step \in {"closing", "adding", "summed"}
           /\ request'[q].register = request[q].register
  <2>1. request[q].register \in Registers
    BY <1>1 DEF Typed
  <2>2. QED
    BY <1>1, <2>1, RegistersStay DEF WorksOnRegister
<1>2. CASE BeginClose(q)
  <2>1. PICK r \in OpenOf(Cashier[q]) : \E there : Ask(q, "closing", r, there)
    BY <1>2 DEF BeginClose
  <2>2. register[r].state = "open" /\ r \in Registers /\ UNCHANGED register
    BY <2>1 DEF OpenOf, Ask
  <2>3. request'[q].register = r
    BY <2>1 DEF Ask, Typed, RegisterRequest
  <2>4. QED
    BY <2>2, <2>3
<1>3. QED
  BY <1>1, <1>2, RequestMoves, EndedTyped

LEMMA SalesCountedStep ==
  ASSUME Typed, NumbersBelow, CommittedNumbered, WorksOnRegister, SalesCounted, [Next]_vars
  PROVE  SalesCounted'
<1>1. ASSUME NEW q \in Requests, NEW s \in Sales, <<"sale", s>> \in request'[q].counted
      PROVE  /\ request'[q].step = "summed" /\ sale'[s].number # 0
             /\ sale'[s].staff = register'[request'[q].register].staff
  <2>1. CASE request'[q] = request[q]
    <3>1. /\ request[q].step = "summed" /\ sale[s].number # 0
          /\ sale[s].staff = register[request[q].register].staff
      BY <1>1, <2>1 DEF SalesCounted
    <3>2. /\ request[q].register \in Registers
          /\ register[request[q].register].state # "none"
      BY <3>1 DEF Typed, WorksOnRegister
    <3>3. QED
      BY <2>1, <3>1, <3>2, SalesStay, RegistersStay
  <2>2. CASE /\ request'[q].counted = request[q].counted
             /\ request[q].step = "idle"
    BY <1>1, <2>2 DEF SalesCounted
  <2>3. CASE request'[q].counted = MovementsOf(request[q].register)
    BY <1>1, <2>3 DEF MovementsOf
  <2>4. CASE /\ request[q].step = "adding" /\ request'[q].step = "summed" /\ SumSales(q)
             /\ request'[q].counted = request[q].counted \cup SalesOf(request[q].register)
             /\ request'[q].register = request[q].register
    <3>1. <<"sale", s>> \in SalesOf(request[q].register)
      BY <1>1, <2>4 DEF SalesCounted
    <3>2. /\ sale[s].staff = register[request[q].register].staff
          /\ sale[s].step \in {"paid", "shipped"}
      BY <3>1 DEF SalesOf
    <3>3. sale[s].number # 0
      BY <3>2 DEF CommittedNumbered
    <3>4. UNCHANGED <<sale, register>>
      BY <2>4 DEF SumSales
    <3>5. QED
      BY <2>4, <3>2, <3>3, <3>4
  <2>5. CASE request'[q] = Ended
    BY <1>1, <2>5 DEF Ended, NoRequest
  <2>6. QED
    BY <2>1, <2>2, <2>3, <2>4, <2>5, RequestMoves
<1>2. ASSUME NEW r \in Registers, NEW s \in Sales, <<"sale", s>> \in register'[r].counted
      PROVE  /\ register'[r].state = "closed" /\ sale'[s].number # 0
             /\ sale'[s].staff = register'[r].staff
  <2>1. CASE <<"sale", s>> \in register[r].counted
    <3>1. /\ register[r].state = "closed" /\ sale[s].number # 0
          /\ sale[s].staff = register[r].staff
      BY <2>1 DEF SalesCounted
    <3>2. QED
      BY <3>1, SalesStay, RegistersStay
  <2>2. CASE <<"sale", s>> \notin register[r].counted
    <3>1. ASSUME NEW q \in Requests, NEW n \in Registers, StoreOpening(q, n)
          PROVE  FALSE
      BY <1>2, <2>2, <3>1, OpeningStores
    <3>2. PICK q \in Requests : StoreClosing(q)
      BY <1>2, <2>2, <3>1, RegisterWrites
    <3>3. /\ r = request[q].register /\ register'[r].state = "closed"
          /\ <<"sale", s>> \in request[q].counted /\ request[q].step = "summed"
      BY <1>2, <2>2, <3>2, ClosingStores
    <3>4. sale[s].number # 0 /\ sale[s].staff = register[r].staff
      BY <3>3 DEF SalesCounted
    <3>5. register[r].state # "none"
      BY <3>3 DEF WorksOnRegister
    <3>6. QED
      BY <3>3, <3>4, <3>5, SalesStay, RegistersStay
  <2>3. QED
    BY <2>1, <2>2
<1>3. QED
  BY <1>1, <1>2 DEF SalesCounted

LEMMA OneBeforeStep ==
  ASSUME Typed, NumbersBelow, WorksOnRegister, SalesCounted, OneBeforeTheOther,
         [Next]_vars
  PROVE  OneBeforeTheOther'
<1>1. CASE UNCHANGED register
  BY <1>1 DEF OneBeforeTheOther, CountedBefore
\* A register is stored when every other one of its staff is closed, and what
\* those have counted was dated by then.
<1>2. ASSUME NEW p \in Requests, NEW n \in Registers, StoreOpening(p, n),
             ~ UNCHANGED register
      PROVE  OneBeforeTheOther'
  <2>1. /\ \A m \in Registers \ {n} : register'[m] = register[m]
        /\ OpenOf(request[p].staff) = {}
        /\ register'[n].staff = request[p].staff /\ register'[n].stored = Dated
    BY <1>2, OpeningStores
  <2>2. ASSUME NEW q \in Registers, q # n, register[q].state # "none",
               register[q].staff = register'[n].staff
        PROVE  CountedBefore(q, n)'
    <3>1. register[q].state = "closed"
      BY <2>1, <2>2 DEF OpenOf, Typed, Register
    <3>2. \A s \in Sales : <<"sale", s>> \in register[q].counted => s \in Dated
      BY DEF SalesCounted, Dated
    <3>3. QED
      BY <2>1, <2>2, <3>1, <3>2 DEF CountedBefore
  <2>3. ASSUME NEW q \in Registers, NEW r \in Registers, q # n, r # n, CountedBefore(q, r)
        PROVE  CountedBefore(q, r)'
    BY <2>1, <2>3 DEF CountedBefore
  <2>4. QED
    BY <2>1, <2>2, <2>3 DEF OneBeforeTheOther
\* A closing keeps what was stored; a late one is marked.
<1>3. ASSUME NEW p \in Requests, StoreClosing(p)
      PROVE  OneBeforeTheOther'
  <2> DEFINE n == request[p].register
  <2>1. /\ n \in Registers /\ register'[n].state = "closed"
        /\ \A m \in Registers \ {n} : register'[m] = register[m]
        /\ register'[n].again = (register[n].state = "closed")
        /\ register[n].state # "none"
    BY <1>3, ClosingStores DEF WorksOnRegister
  <2> HIDE DEF n
  <2>2. \A m \in Registers : register[m].state # "none" =>
          register'[m].staff = register[m].staff /\ register'[m].stored = register[m].stored
    BY RegistersStay
  <2>3. \A m \in Registers : register'[m].state # "none" => register[m].state # "none"
    BY <2>1
  <2>4. ASSUME NEW q \in Registers, NEW r \in Registers, q # r,
               register[q].state # "none", register[r].state # "none", CountedBefore(q, r)
        PROVE  CountedBefore(q, r)'
    <3>1. CASE q = n
      BY <2>1, <2>4, <3>1 DEF CountedBefore
    <3>2. CASE q # n
      BY <2>1, <2>2, <2>4, <3>2 DEF CountedBefore
    <3>3. QED
      BY <3>1, <3>2
  <2>5. QED
    BY <2>2, <2>3, <2>4 DEF OneBeforeTheOther
<1>4. QED
  BY <1>1, <1>2, <1>3, RegisterWrites
-----------------------------------------------------------------------------
\* What a closing misses.

Kept(s) == sale[s].step \in {"paid", "shipped", "cancelled"}

\* A movement that was stored is never stored elsewhere.
MovementsStay ==
  \A m \in Requests : movement[m] # NoRegister => request[m].step = "done"

\* What was there when a closing began is still there, and is counted when its
\* turn comes, but for sales cancelled meanwhile.
ClosingMisses ==
  \A q \in Requests : request[q].step \in {"closing", "adding", "summed"} =>
    LET r == request[q].register IN
    /\ request[q].there \in SUBSET (({"movement"} \X Requests) \cup ({"sale"} \X Sales))
    /\ \A m \in Requests : <<"movement", m>> \in request[q].there =>
         /\ movement[m] = r
         /\ request[q].step # "closing" => <<"movement", m>> \in request[q].counted
    /\ \A s \in Sales : <<"sale", s>> \in request[q].there =>
         /\ Kept(s) /\ sale[s].staff = register[r].staff /\ s \notin register[r].openedAt
         /\ request[q].step = "summed" =>
              <<"sale", s>> \in request[q].counted \/ sale[s].step = "cancelled"

LEMMA MovementsStep ==
  ASSUME Typed, MovementsStay, [Next]_vars
  PROVE  /\ MovementsStay'
         /\ \A m \in Requests : movement[m] # NoRegister => movement'[m] = movement[m]
<1>1. \A m \in Requests : request[m].step = "done" => request'[m].step = "done"
  BY RequestMoves, EndedTyped
<1>2. CASE UNCHANGED movement
  BY <1>1, <1>2 DEF MovementsStay
<1>3. ASSUME NEW q \in Requests, StoreMovement(q)
      PROVE  /\ MovementsStay'
             /\ \A m \in Requests : movement[m] # NoRegister => movement'[m] = movement[m]
  <2>1. /\ request[q].step = "moving" /\ request'[q].step = "done"
        /\ \A m \in Requests \ {q} : movement'[m] = movement[m]
    BY <1>3, EndedTyped DEF StoreMovement, Typed
  <2>2. QED
    BY <1>1, <2>1 DEF MovementsStay
<1>4. UNCHANGED movement \/ \E q \in Requests : StoreMovement(q)
  <2>1. CASE SaleStep
    BY <2>1 DEF SaleStep, AskConnection, BeginTransaction, TakeNumber, CommitSale,
      TimeoutSale, RollbackSale, SaleFailed, ShipSale, CancelSale
  <2>2. CASE RegisterStep
    BY <2>2 DEF RegisterStep, BeginOpen, BeginMovement, BeginClose, Ask, StoreOpening,
      ReadMovements, SumSales, StoreClosing, CrashRequest
  <2>3. QED
    BY <2>1, <2>2, Steps DEF vars
<1>5. QED
  BY <1>2, <1>3, <1>4

\* The items there are when a closing begins.
LEMMA ClosingBegins ==
  ASSUME Typed, NEW q \in Requests, BeginClose(q)
  PROVE  /\ UNCHANGED <<register, movement, sale>>
         /\ request'[q].step = "closing"
         /\ LET r == request'[q].register IN
            /\ r \in Registers
            /\ request'[q].there = MovementsOf(r) \cup {i \in {"sale"} \X Sales :
                 /\ sale[i[2]].staff = register[r].staff
                 /\ sale[i[2]].step \in {"paid", "shipped"}
                 /\ i[2] \notin register[r].openedAt}
<1>1. PICK r \in OpenOf(Cashier[q]) :
        Ask(q, "closing", r, MovementsOf(r) \cup {i \in {"sale"} \X Sales :
          /\ sale[i[2]].staff = register[r].staff
          /\ sale[i[2]].step \in {"paid", "shipped"}
          /\ i[2] \notin register[r].openedAt})
  BY DEF BeginClose
<1>2. r \in Registers
  BY DEF OpenOf
<1>3. ASSUME NEW there, Ask(q, "closing", r, there)
      PROVE  /\ UNCHANGED <<register, movement, sale>> /\ request'[q].step = "closing"
             /\ request'[q].register = r /\ request'[q].there = there
  BY <1>3 DEF Ask, Typed, RegisterRequest
<1>4. QED
  BY <1>1, <1>2, <1>3

LEMMA MissesStep ==
  ASSUME Typed, NumbersBelow, WorksOnRegister, MovementsStay, ClosingMisses, [Next]_vars
  PROVE  ClosingMisses'
<1> DEFINE Holds(q) ==
      LET r == request[q].register IN
      /\ request[q].there \in SUBSET (({"movement"} \X Requests) \cup ({"sale"} \X Sales))
      /\ \A m \in Requests : <<"movement", m>> \in request[q].there =>
           /\ movement[m] = r
           /\ request[q].step # "closing" => <<"movement", m>> \in request[q].counted
      /\ \A s \in Sales : <<"sale", s>> \in request[q].there =>
           /\ Kept(s) /\ sale[s].staff = register[r].staff /\ s \notin register[r].openedAt
           /\ request[q].step = "summed" =>
                <<"sale", s>> \in request[q].counted \/ sale[s].step = "cancelled"
<1> SUFFICES ASSUME NEW q \in Requests, request'[q].step \in {"closing", "adding", "summed"}
             PROVE  Holds(q)'
  BY DEF ClosingMisses
\* What the rest of the step leaves of the items.
<1>1. ASSUME request[q].step \in {"closing", "adding", "summed"}
      PROVE  /\ \A m \in Requests : <<"movement", m>> \in request[q].there =>
                  movement'[m] = request[q].register
             /\ \A s \in Sales : <<"sale", s>> \in request[q].there =>
                  /\ Kept(s)' /\ sale'[s].staff = register'[request[q].register].staff
                  /\ s \notin register'[request[q].register].openedAt
                  /\ sale[s].step = "cancelled" => sale'[s].step = "cancelled"
  <2>1. /\ request[q].register \in Registers
        /\ register[request[q].register].state # "none"
    BY <1>1 DEF Typed, WorksOnRegister
  <2>2. request[q].register # NoRegister
    BY <2>1, RegisterAssumption
  <2>3. \A m \in Requests : <<"movement", m>> \in request[q].there =>
          movement[m] = request[q].register
    BY <1>1 DEF ClosingMisses
  <2>4. \A s \in Sales : <<"sale", s>> \in request[q].there =>
          /\ sale[s].step \in {"paid", "shipped", "cancelled"}
          /\ sale[s].staff = register[request[q].register].staff
          /\ s \notin register[request[q].register].openedAt
    BY <1>1 DEF ClosingMisses, Kept
  <2>5. QED
    BY <2>1, <2>2, <2>3, <2>4, MovementsStep, SalesStay, RegistersStay DEF Kept
<1>2. CASE request'[q] = request[q]
  <2>1. Holds(q)
    BY <1>2 DEF ClosingMisses
  <2>2. QED
    BY <1>1, <1>2, <2>1
<1>3. CASE BeginClose(q)
  <2>1. MovementsOf(request'[q].register) \in SUBSET ({"movement"} \X Requests)
    BY DEF MovementsOf
  <2>2. \A m \in Requests : <<"movement", m>> \in request'[q].there =>
          movement'[m] = request'[q].register
    BY <1>3, ClosingBegins DEF MovementsOf
  <2>3. \A s \in Sales : <<"sale", s>> \in request'[q].there =>
          /\ Kept(s)' /\ sale'[s].staff = register'[request'[q].register].staff
          /\ s \notin register'[request'[q].register].openedAt
    BY <1>3, ClosingBegins DEF MovementsOf, Kept
  <2>4. request'[q].there \in SUBSET (({"movement"} \X Requests) \cup ({"sale"} \X Sales))
    BY <1>3, <2>1, ClosingBegins
  <2>5. QED
    BY <1>3, <2>2, <2>3, <2>4, ClosingBegins
<1>4. CASE /\ request[q].step = "closing" /\ request'[q].step = "adding" /\ ReadMovements(q)
           /\ request'[q].counted = MovementsOf(request[q].register)
           /\ request'[q].register = request[q].register
           /\ request'[q].there = request[q].there
  <2>1. Holds(q)
    BY <1>4 DEF ClosingMisses
  <2>2. \A m \in Requests : <<"movement", m>> \in request[q].there =>
          <<"movement", m>> \in request'[q].counted
    BY <1>4, <2>1 DEF MovementsOf
  <2>3. QED
    BY <1>1, <1>4, <2>1, <2>2
<1>5. CASE /\ request[q].step = "adding" /\ request'[q].step = "summed" /\ SumSales(q)
           /\ request'[q].counted = request[q].counted \cup SalesOf(request[q].register)
           /\ request'[q].register = request[q].register
           /\ request'[q].there = request[q].there
  <2>1. Holds(q)
    BY <1>5 DEF ClosingMisses
  <2>2. \A s \in Sales : <<"sale", s>> \in request[q].there =>
          <<"sale", s>> \in request'[q].counted \/ sale[s].step = "cancelled"
    BY <1>5, <2>1 DEF SalesOf, Kept
  <2>3. QED
    BY <1>1, <1>5, <2>1, <2>2
<1>6. QED
  BY <1>2, <1>3, <1>4, <1>5, RequestMoves, EndedTyped
\* NothingMissed, with the sales named.
MissedCancelled ==
  \A r \in Registers : register[r].state = "closed" =>
    \A i \in register[r].there \ register[r].counted :
      \E s \in Sales : i = <<"sale", s>> /\ sale[s].step = "cancelled"

LEMMA MissedStep ==
  ASSUME Typed, NumbersBelow, ClosingMisses, MissedCancelled, [Next]_vars
  PROVE  MissedCancelled'
<1> SUFFICES ASSUME NEW r \in Registers, register'[r].state = "closed",
                    NEW i \in register'[r].there \ register'[r].counted
             PROVE  \E s \in Sales : i = <<"sale", s>> /\ sale'[s].step = "cancelled"
  BY DEF MissedCancelled
<1>1. ASSUME NEW s \in Sales, sale[s].step = "cancelled" PROVE sale'[s].step = "cancelled"
  BY <1>1, SalesStay
<1>2. CASE register'[r] = register[r]
  BY <1>1, <1>2 DEF MissedCancelled
<1>3. CASE register'[r] # register[r]
  <2>1. ASSUME NEW q \in Requests, NEW n \in Registers, StoreOpening(q, n) PROVE FALSE
    BY <1>3, <2>1, OpeningStores
  <2>2. PICK q \in Requests : StoreClosing(q)
    BY <1>3, <2>1, RegisterWrites
  <2>3. /\ request[q].step = "summed" /\ i \in request[q].there \ request[q].counted
    BY <1>3, <2>2, ClosingStores
  <2>4. PICK s \in Sales : i = <<"sale", s>>
    BY <2>3 DEF ClosingMisses
  <2>5. sale[s].step = "cancelled"
    BY <2>3, <2>4 DEF ClosingMisses
  <2>6. QED
    BY <1>1, <2>4, <2>5
<1>4. QED
  BY <1>2, <1>3

-----------------------------------------------------------------------------
RegisterInv ==
  /\ Typed /\ PoolInv /\ NumbersBelow /\ CommittedNumbered /\ OneOpen
  /\ WorksOnRegister /\ SalesCounted /\ OneBeforeTheOther
  /\ MovementsStay /\ ClosingMisses /\ MissedCancelled

LEMMA RegisterInvInit == Init => RegisterInv
<1> SUFFICES ASSUME Init PROVE RegisterInv
  OBVIOUS
<1>1. Typed /\ PoolInv
  BY InitTyped
<1>2. /\ \A s \in Sales : sale[s].step = "idle" /\ sale[s].number = 0
      /\ \A q \in Requests : request[q].step = "idle" /\ request[q].counted = {}
      /\ \A r \in Registers : register[r].state = "none" /\ register[r].counted = {}
      /\ \A q \in Requests : movement[q] = NoRegister
      /\ counter = 0
  BY DEF Init, NoSale, NoRequest, Unopened
<1>3. NumbersBelow /\ CommittedNumbered
  BY <1>2 DEF NumbersBelow, CommittedNumbered
<1>4. OneOpen /\ WorksOnRegister /\ SalesCounted /\ OneBeforeTheOther
  BY <1>2 DEF OneOpen, OpenOf, WorksOnRegister, SalesCounted, OneBeforeTheOther
<1>5. MovementsStay /\ ClosingMisses /\ MissedCancelled
  BY <1>2 DEF MovementsStay, ClosingMisses, MissedCancelled
<1>6. QED
  BY <1>1, <1>3, <1>4, <1>5 DEF RegisterInv

LEMMA RegisterInvStep == RegisterInv /\ [Next]_vars => RegisterInv'
<1> SUFFICES ASSUME RegisterInv, [Next]_vars PROVE RegisterInv'
  OBVIOUS
<1> USE DEF RegisterInv
<1>1. Typed' /\ PoolInv'
  BY TypedStep, PoolStep
<1>2. NumbersBelow' /\ CommittedNumbered'
  BY NumbersStep, CommittedStep
<1>3. OneOpen' /\ WorksOnRegister' /\ SalesCounted' /\ OneBeforeTheOther'
  BY OneOpenStep, WorksStep, SalesCountedStep, OneBeforeStep
<1>4. MovementsStay' /\ ClosingMisses' /\ MissedCancelled'
  BY MovementsStep, MissesStep, MissedStep
<1>5. QED
  BY <1>1, <1>2, <1>3, <1>4

LEMMA RegisterInvariant == Spec => []RegisterInv
<1>1. QED
  BY RegisterInvInit, RegisterInvStep, PTL DEF Spec

-----------------------------------------------------------------------------
\* The state of registers, sales and pool stays well typed: the pool never
\* gives out more connections than it has (app.module.ts).
THEOREM RegisterTyped == Spec => []TypeOK
<1>1. RegisterInv => TypeOK
  <2> SUFFICES ASSUME RegisterInv PROVE TypeOK
    OBVIOUS
  <2>1. Free \in 0..PoolSize
    <3>1. Cardinality(Holders) \in Nat /\ Cardinality(Holders) <= PoolSize
      BY FS_CardinalityType DEF RegisterInv, PoolInv
    <3>2. Free = PoolSize - Cardinality(Holders)
      BY DEF Free, Holders
    <3> HIDE DEF Holders
    <3>3. QED
      BY <3>1, <3>2, RegisterAssumption
  <2>2. QED
    BY <2>1 DEF RegisterInv, Typed, TypeOK
<1>2. QED
  BY <1>1, RegisterInvariant, PTL

\* A staff member never has two registers open, however many requests race
\* past the check of open-cash-register.use-case.ts: the index decides.
THEOREM OneRegisterOpen == Spec => []OneOpenPerStaff
<1>1. RegisterInv => OneOpenPerStaff
  <2> SUFFICES ASSUME RegisterInv, NEW st \in Staff
               PROVE  Cardinality(OpenOf(st)) <= 1
    BY DEF OneOpenPerStaff
  <2>1. \A q, r \in OpenOf(st) : q = r
    BY DEF RegisterInv, OneOpen, OpenOf
  <2>2. CASE OpenOf(st) = {}
    BY <2>2, FS_EmptySet
  <2>3. CASE OpenOf(st) # {}
    <3>1. PICK r \in OpenOf(st) : TRUE
      BY <2>3
    <3>2. OpenOf(st) = {r}
      BY <2>1, <3>1
    <3>3. Cardinality({r}) = 1
      BY FS_Singleton
    <3> HIDE DEF OpenOf
    <3>4. QED
      BY <3>2, <3>3
  <2>4. QED
    BY <2>2, <2>3
<1>2. QED
  BY <1>1, RegisterInvariant, PTL

\* No order number is given twice, whatever the pool, the rollbacks and the
\* order in which sales commit (order-number-generator.ts).
THEOREM OrderNumbersUnique == Spec => []NumbersUnique
<1>1. RegisterInv => NumbersUnique
  BY DEF RegisterInv, NumbersBelow, NumbersUnique
<1>2. QED
  BY <1>1, RegisterInvariant, PTL

\* No cash is counted in two registers but for the two races the property
\* names, for any number of registers, sales and closings
\* (close-cash-register.use-case.ts).
THEOREM CashCountedOnce == Spec => []CountedOnce
<1>1. RegisterInv => CountedOnce
  <2> SUFFICES ASSUME RegisterInv, NEW s \in Sales, NEW q \in Registers, NEW r \in Registers,
                      q # r,
                      <<"sale", s>> \in register[q].counted,
                      <<"sale", s>> \in register[r].counted
               PROVE  \/ s \in register[q].stored \cup register[r].stored
                      \/ register[q].again \/ register[r].again
    BY DEF CountedOnce
  <2>1. /\ register[q].state = "closed" /\ register[r].state = "closed"
        /\ register[q].staff = register[r].staff
    BY DEF RegisterInv, SalesCounted
  <2>2. CountedBefore(q, r) \/ CountedBefore(r, q)
    BY <2>1 DEF RegisterInv, OneBeforeTheOther
  <2>3. QED
    BY <2>2 DEF CountedBefore
<1>2. QED
  BY <1>1, RegisterInvariant, PTL

\* What a closed register does not expect was in flight when its closing began,
\* or a sale cancelled since (close-cash-register.use-case.ts).
THEOREM ClosingsMissNothing == Spec => []NothingMissed
<1>1. RegisterInv => NothingMissed
  BY DEF RegisterInv, MissedCancelled, NothingMissed
<1>2. QED
  BY <1>1, RegisterInvariant, PTL
=============================================================================
