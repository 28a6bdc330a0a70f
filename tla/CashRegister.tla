---------------------------- MODULE CashRegister ----------------------------
(***************************************************************************)
(* The cash register and the sales it has to account for.                  *)
(*                                                                         *)
(* A sale holds a pooled connection from the start of its transaction and  *)
(* asks the pool for a second one, on which the order number is taken and  *)
(* committed.  A register is opened, moved and closed by requests of       *)
(* several statements each.  Amounts are left out: the amount a closing    *)
(* expects is the set of the sales and movements it adds up.  So are       *)
(* clocks: an instant is the set of the sales that were dated by then.     *)
(***************************************************************************)
EXTENDS Integers, FiniteSets

CONSTANTS
  Staff,
  Registers,   \* cash_registers rows: numbers, in the order of their ids
  Sales,       \* cash sales: numbers, in the order in which they are asked for
  Requests,    \* requests to the register: numbers, in the order they arrive
  Seller,      \* who makes each sale (a bound of the model)
  Cashier,     \* who makes each request (a bound of the model)
  PoolSize,    \* extra.max of the data source
  NoStaff, NoRegister

ASSUME RegisterAssumption ==
  /\ Registers \cup Sales \cup Requests \subseteq Nat
  /\ Seller \in [Sales -> Staff] /\ Cashier \in [Requests -> Staff]
  /\ PoolSize \in Nat \ {0}
  /\ NoStaff \notin Staff /\ NoRegister \notin Registers

VARIABLES
  register,  \* cash_registers
  movement,  \* cash_movements: one at most per request
  sale,      \* orders paid in cash, and the requests that make them
  counter,   \* order_number_counters.last_number of the day
  request    \* the register's requests

vars == <<register, movement, sale, counter, request>>

Item == {"sale", "movement"} \X (Sales \cup Requests)

\* openedAt is an instant, counted is expected_amount.  Auxiliary are stored,
\* the instant the row appeared, there, the items there were to count when the
\* closing that wrote the row began, and again: it was a second closing.
Register ==
  [state : {"none", "open", "closed"}, staff : Staff \cup {NoStaff},
   openedAt : SUBSET Sales, counted : SUBSET Item, stored : SUBSET Sales,
   there : SUBSET Item, again : BOOLEAN]

CashSale ==
  [step : {"idle", "asking", "numbering", "numbered", "paid", "shipped", "cancelled", "failed"},
   staff : Staff \cup {NoStaff}, number : Nat]

RegisterRequest ==
  [step : {"idle", "opening", "moving", "closing", "adding", "summed", "done"},
   staff : Staff \cup {NoStaff}, register : Registers \cup {NoRegister},
   openedAt : SUBSET Sales, counted : SUBSET Item, there : SUBSET Item]

Unopened == [state |-> "none", staff |-> NoStaff, openedAt |-> {}, counted |-> {},
             stored |-> {}, there |-> {}, again |-> FALSE]
NoSale == [step |-> "idle", staff |-> NoStaff, number |-> 0]
NoRequest == [step |-> "idle", staff |-> NoStaff, register |-> NoRegister,
              openedAt |-> {}, counted |-> {}, there |-> {}]

Ended == [NoRequest EXCEPT !.step = "done"]

\* Connections no sale holds.
Free == PoolSize - Cardinality({s \in Sales : sale[s].step \in {"numbering", "numbered"}})

TypeOK ==
  /\ counter \in Nat
  /\ register \in [Registers -> Register]
  /\ movement \in [Requests -> Registers \cup {NoRegister}]
  /\ sale \in [Sales -> CashSale]
  /\ request \in [Requests -> RegisterRequest]
  /\ Free \in 0..PoolSize
  /\ \A q \in Requests :
       request[q].step \in {"moving", "closing", "adding", "summed"} =>
         request[q].register \in Registers

Init ==
  /\ counter = 0
  /\ register = [r \in Registers |-> Unopened]
  /\ movement = [q \in Requests |-> NoRegister]
  /\ sale = [s \in Sales |-> NoSale]
  /\ request = [q \in Requests |-> NoRequest]

\* The sales dated so far: what this instant is compared by.
Dated == {s \in Sales : sale[s].number # 0}

-----------------------------------------------------------------------------
\* A cash sale: the transaction's connection, then the order number's.

\* extra: { max: 20 }
HasConnection == Free > 0

AskConnection(s) ==
  /\ sale[s].step = "idle"
  /\ \A n \in Sales : n < s => sale[n].step # "idle"
  /\ sale' = [sale EXCEPT ![s].step = "asking", ![s].staff = Seller[s]]
  /\ UNCHANGED <<register, movement, counter, request>>

BeginTransaction(s) ==
  /\ sale[s].step = "asking" /\ HasConnection
  /\ sale' = [sale EXCEPT ![s].step = "numbering"]
  /\ UNCHANGED <<register, movement, counter, request>>

\* Mutant: ON CONFLICT DO NOTHING, and the number is read back.
NumberReadBack == counter' = IF counter = 0 THEN 1 ELSE counter

\* INSERT ... ON CONFLICT DO UPDATE SET last_number = last_number + 1
NumberTaken == counter' = counter + 1

\* The number is committed at once; Order.create dates the order.
TakeNumber(s) ==
  /\ sale[s].step = "numbering" /\ HasConnection
  /\ NumberTaken
  /\ sale' = [sale EXCEPT ![s].step = "numbered", ![s].number = counter']
  /\ UNCHANGED <<register, movement, request>>

CommitSale(s) ==
  /\ sale[s].step = "numbered"
  /\ sale' = [sale EXCEPT ![s].step = "paid"]
  /\ UNCHANGED <<register, movement, counter, request>>

SaleFailed(s) ==
  /\ sale' = [sale EXCEPT ![s].step = "failed"]
  /\ UNCHANGED <<register, movement, counter, request>>

\* Mutant: connectionTimeoutMillis is not set, and pg waits forever.
NeverTimedOut(s) == FALSE

\* No connection for 5 seconds: the pool gives up, the use case throws.
TimedOut(s) == sale[s].step \in {"asking", "numbering"} /\ ~HasConnection

TimeoutSale(s) == TimedOut(s) /\ SaleFailed(s)

\* A check that fails, an error: the transaction rolls back, the number is lost.
RollbackSale(s) == sale[s].step \in {"numbering", "numbered"} /\ SaleFailed(s)

\* What happens to a sale's order later on (PosOrders has it in full).
ShipSale(s) ==
  /\ sale[s].step = "paid"
  /\ sale' = [sale EXCEPT ![s].step = "shipped"]
  /\ UNCHANGED <<register, movement, counter, request>>

CancelSale(s) ==
  /\ sale[s].step = "paid"
  /\ sale' = [sale EXCEPT ![s].step = "cancelled"]
  /\ UNCHANGED <<register, movement, counter, request>>

-----------------------------------------------------------------------------
\* The register.

OpenOf(st) == {r \in Registers : register[r].state = "open" /\ register[r].staff = st}

Ask(q, step, r, there) ==
  /\ request[q].step = "idle"
  /\ \A p \in Requests : p < q => request[p].step # "idle"
  /\ request' = [request EXCEPT
       ![q].step = step, ![q].staff = Cashier[q], ![q].register = r,
       ![q].openedAt = IF step = "opening" THEN Dated ELSE {}, ![q].there = there]
  /\ UNCHANGED <<register, movement, sale, counter>>

\* No register of the staff is open; openedAt is set before the row is stored.
BeginOpen(q) == OpenOf(Cashier[q]) = {} /\ Ask(q, "opening", NoRegister, {})

\* Mutant: the index on (staff_id) WHERE status = 'open' is not unique.
AnyStored(st) == TRUE

\* uniq_open_cash_register_per_staff
IndexAllows(st) == OpenOf(st) = {}

StoreOpening(q, r) ==
  LET st == request[q].staff IN
  /\ request[q].step = "opening"
  /\ register[r].state = "none"
  /\ \A n \in Registers : n < r => register[n].state # "none"
  /\ IF IndexAllows(st)
     THEN register' = [register EXCEPT
            ![r].state = "open", ![r].staff = st,
            ![r].openedAt = request[q].openedAt, ![r].stored = Dated]
     ELSE UNCHANGED register
  /\ request' = [request EXCEPT ![q] = Ended]
  /\ UNCHANGED <<movement, sale, counter>>

\* Mutant: findOpenByStaff is not checked for null.
BeginMovementAnywhere(q) == Ask(q, "moving", NoRegister, {})

\* A movement goes to the register found open, closed by now or not.
BeginMovement(q) == \E r \in OpenOf(Cashier[q]) : Ask(q, "moving", r, {})

StoreMovement(q) ==
  /\ request[q].step = "moving"
  /\ movement' = [movement EXCEPT ![q] = request[q].register]
  /\ request' = [request EXCEPT ![q] = Ended]
  /\ UNCHANGED <<register, sale, counter>>

\* The movements and the sales of register r, as far as they are committed.
MovementsOf(r) == {"movement"} \X {m \in Requests : movement[m] = r}

\* Mutant: only the sales that are still PAID.
SalesStillPaid(r) ==
  {"sale"} \X {s \in Sales : /\ sale[s].staff = register[r].staff
                            /\ sale[s].step = "paid"
                            /\ s \notin register[r].openedAt}

\* sumCashSalesByStaffBetween(openedAt, now)
SalesOf(r) ==
  {"sale"} \X {s \in Sales : /\ sale[s].staff = register[r].staff
                            /\ sale[s].step \in {"paid", "shipped"}
                            /\ s \notin register[r].openedAt}

BeginClose(q) ==
  \E r \in OpenOf(Cashier[q]) :
    Ask(q, "closing", r,
        MovementsOf(r) \cup {i \in {"sale"} \X Sales :
          /\ sale[i[2]].staff = register[r].staff
          /\ sale[i[2]].step \in {"paid", "shipped"}
          /\ i[2] \notin register[r].openedAt})

ReadMovements(q) ==
  /\ request[q].step = "closing"
  /\ request' = [request EXCEPT ![q].step = "adding",
                               ![q].counted = MovementsOf(request[q].register)]
  /\ UNCHANGED <<register, movement, sale, counter>>

SumSales(q) ==
  /\ request[q].step = "adding"
  /\ request' = [request EXCEPT ![q].step = "summed",
                               ![q].counted = @ \cup SalesOf(request[q].register)]
  /\ UNCHANGED <<register, movement, sale, counter>>

\* The row read at the start is closed and saved whole, whatever it is by now.
StoreClosing(q) ==
  LET r == request[q].register IN
  /\ request[q].step = "summed"
  /\ register' = [register EXCEPT
       ![r].state = "closed",
       ![r].counted = request[q].counted, ![r].there = request[q].there,
       ![r].again = register[r].state = "closed"]
  /\ request' = [request EXCEPT ![q] = Ended]
  /\ UNCHANGED <<movement, sale, counter>>

\* A request dies between two statements.
CrashRequest(q) ==
  /\ request[q].step \notin {"idle", "done"}
  /\ request' = [request EXCEPT ![q] = Ended]
  /\ UNCHANGED <<register, movement, sale, counter>>

-----------------------------------------------------------------------------
SaleRuns(s) == BeginTransaction(s) \/ TakeNumber(s) \/ CommitSale(s) \/ TimeoutSale(s)

Next ==
  \/ \E s \in Sales : AskConnection(s)
  \/ \E s \in Sales : BeginTransaction(s)
  \/ \E s \in Sales : TakeNumber(s)
  \/ \E s \in Sales : CommitSale(s)
  \/ \E s \in Sales : TimeoutSale(s)
  \/ \E s \in Sales : RollbackSale(s)
  \/ \E s \in Sales : ShipSale(s)
  \/ \E s \in Sales : CancelSale(s)
  \/ \E q \in Requests : BeginOpen(q)
  \/ \E q \in Requests, r \in Registers : StoreOpening(q, r)
  \/ \E q \in Requests : BeginMovement(q)
  \/ \E q \in Requests : StoreMovement(q)
  \/ \E q \in Requests : BeginClose(q)
  \/ \E q \in Requests : ReadMovements(q)
  \/ \E q \in Requests : SumSales(q)
  \/ \E q \in Requests : StoreClosing(q)
  \/ \E q \in Requests : CrashRequest(q)

\* A sale that was asked for runs on, or its wait for a connection times out.
Spec == Init /\ [][Next]_vars /\ \A s \in Sales : WF_vars(SaleRuns(s))

-----------------------------------------------------------------------------
\* "Solo puede haber una caja abierta por staff a la vez" (pos.md): whatever
\* requests of open-cash-register race, the index leaves one of them.
OneOpenPerStaff == \A st \in Staff : Cardinality(OpenOf(st)) <= 1

\* No cash is expected from two registers, but for a sale made while one of
\* them was being opened (a row dated before it is stored can reach back over
\* a register that was opened and closed meanwhile) and for a register that a
\* second, late closing has written again.
CountedOnce ==
  \A s \in Sales, q, r \in Registers :
    /\ q # r
    /\ <<"sale", s>> \in register[q].counted \cap register[r].counted
    => \/ s \in register[q].stored \cup register[r].stored
       \/ register[q].again \/ register[r].again

\* A closed register expects every movement and every cash sale of its staff
\* that was there when the closing began, and was not cancelled since; what it
\* misses was stored after the closing began (close-cash-register.use-case.ts).
NothingMissed ==
  \A r \in Registers : register[r].state = "closed" =>
    \A i \in register[r].there \ register[r].counted :
      i[1] = "sale" /\ sale[i[2]].step = "cancelled"

\* No two sales carry one order number, and a number once given is not given
\* again, though the transactions that asked for them commit in any order or
\* roll back (order-number-generator.ts on a connection of its own).
NumbersUnique ==
  \A s, n \in Sales : sale[s].number # 0 /\ s # n =>
    sale[s].number # sale[n].number /\ sale[s].number <= counter

\* Every sale ends, though all of the pool's connections may be held by sales
\* that wait for another one: the pool's timeout breaks that wait.
SalesEnd ==
  \A s \in Sales : sale[s].step \in {"asking", "numbering", "numbered"} ~>
    sale[s].step \in {"paid", "shipped", "cancelled", "failed"}
=============================================================================
