---------------------------- MODULE StockLedger ----------------------------
(***************************************************************************)
(* What the inventory promises, whoever sells from it: an order reserves   *)
(* all of its lines or none, only what is on the shelf, and once; what it  *)
(* reserved goes back whole, and once.  Nothing else moves a counter.      *)
(* Abstract specification: the modules that sell implement it.             *)
(***************************************************************************)
EXTENDS Naturals, FiniteSetTheorems, TLAPS

CONSTANTS
  Orders,     \* orders that may ever reserve
  Products,
  InitStock   \* units of each product before the first order

VARIABLES
  stock,      \* units of each product still on the shelf
  claim,      \* per order: "free", "held" or "returned"
  lines       \* per order: the units of each product it reserved

vars == <<stock, claim, lines>>

NoLines == [p \in Products |-> 0]

TypeOK ==
  /\ stock \in [Products -> Nat]
  /\ claim \in [Orders -> {"free", "held", "returned"}]
  /\ lines \in [Orders -> [Products -> Nat]]

Init ==
  /\ stock = InitStock
  /\ claim = [o \in Orders |-> "free"]
  /\ lines = [o \in Orders |-> NoLines]

Reserve(o) ==
  /\ claim[o] = "free"
  /\ lines'[o] \in [Products -> Nat]
  /\ lines' = [lines EXCEPT ![o] = lines'[o]]
  /\ \A p \in Products : lines'[o][p] <= stock[p]
  /\ stock' = [p \in Products |-> stock[p] - lines'[o][p]]
  /\ claim' = [claim EXCEPT ![o] = "held"]

Return(o) ==
  /\ claim[o] = "held"
  /\ stock' = [p \in Products |-> stock[p] + lines[o][p]]
  /\ claim' = [claim EXCEPT ![o] = "returned"]
  /\ UNCHANGED lines

Next == \E o \in Orders : Reserve(o) \/ Return(o)

Spec == Init /\ [][Next]_vars

-----------------------------------------------------------------------------
\* The units an order holds, each with a name of its own: a set, so that the
\* units of several orders can be counted together.
HeldUnits(o, p) ==
  {o} \X (IF claim[o] = "held" THEN 1..lines[o][p] ELSE {})

AllHeldUnits(p) == UNION {HeldUnits(o, p) : o \in Orders}

\* Every unit is either on the shelf or held by exactly one order.
Conserved ==
  \A p \in Products : stock[p] + Cardinality(AllHeldUnits(p)) = InitStock[p]
-----------------------------------------------------------------------------
(***************************************************************************)
(* Conservation holds of the ledger for every set of orders and products.  *)
(* It is proved by counting: a reservation adds as many units to the held  *)
(* set as it takes from the shelf, a return removes as many as it puts     *)
(* back, and the units of different orders are different.                  *)
(***************************************************************************)

Accounted ==
  /\ TypeOK
  /\ \A p \in Products : IsFiniteSet(AllHeldUnits(p))
  /\ Conserved

\* A line of q units is q units.
LEMMA UnitsOfLine ==
  ASSUME NEW o, NEW q \in Nat
  PROVE  IsFiniteSet({o} \X (1..q)) /\ Cardinality({o} \X (1..q)) = q
<1> DEFINE U == {o} \X (1..q)
           f == [n \in 1..q |-> <<o, n>>]
<1>1. f \in [1..q -> U]
  OBVIOUS
<1>2. \A m, n \in 1..q : f[m] = f[n] => m = n
  OBVIOUS
<1>3. \A u \in U : \E n \in 1..q : f[n] = u
  OBVIOUS
<1> HIDE DEF f, U
<1>4. ExistsBijection(1..q, U)
  BY <1>1, <1>2, <1>3 DEF ExistsBijection, Bijection, Injection, IsInjective, Surjection
<1>5. IsFiniteSet(1..q) /\ Cardinality(1..q) = q
  BY FS_Interval, 1 \in Int, q \in Int
<1>6. IsFiniteSet(U) /\ Cardinality(U) = q
  BY <1>4, <1>5, FS_Bijection
<1>7. QED
  BY <1>6 DEF U

\* Adding to a finite set of units those of an order that has none in it.
LEMMA AddUnits ==
  ASSUME NEW S, IsFiniteSet(S), NEW o, NEW q \in Nat,
         S \cap ({o} \X (1..q)) = {}
  PROVE  /\ IsFiniteSet(S \cup ({o} \X (1..q)))
         /\ Cardinality(S \cup ({o} \X (1..q))) = Cardinality(S) + q
<1> DEFINE U == {o} \X (1..q)
<1>1. IsFiniteSet(U) /\ Cardinality(U) = q
  BY UnitsOfLine
<1>2. Cardinality(S) \in Nat /\ Cardinality({}) = 0
  BY FS_CardinalityType, FS_EmptySet
<1>3. S \cap U = {}
  OBVIOUS
<1> HIDE DEF U
<1>4. /\ IsFiniteSet(S \cup U)
      /\ Cardinality(S \cup U) = Cardinality(S) + Cardinality(U) - Cardinality(S \cap U)
  BY <1>1, FS_Union
<1>5. Cardinality(S \cap U) = 0
  BY <1>2, <1>3, Zenon
<1>6. Cardinality(S \cup U) = Cardinality(S) + q
  BY <1>1, <1>2, <1>4, <1>5
<1>7. QED
  BY <1>4, <1>6 DEF U

\* The units held by every order but one, in the state and after a step that
\* touches that order only.
OthersUnits(o, p) == UNION {HeldUnits(n, p) : n \in Orders \ {o}}

LEMMA SplitUnits ==
  ASSUME NEW o \in Orders, NEW p
  PROVE  /\ AllHeldUnits(p) = OthersUnits(o, p) \cup HeldUnits(o, p)
         /\ AllHeldUnits(p)' = OthersUnits(o, p)' \cup HeldUnits(o, p)'
         /\ OthersUnits(o, p) \cap ({o} \X Nat) = {}
<1>1. ASSUME NEW H(_)
      PROVE  UNION {H(n) : n \in Orders} =
               (UNION {H(n) : n \in Orders \ {o}}) \cup H(o)
  OBVIOUS
<1>2. AllHeldUnits(p) = OthersUnits(o, p) \cup HeldUnits(o, p)
  BY <1>1 DEF AllHeldUnits, OthersUnits
<1>3. AllHeldUnits(p)' = OthersUnits(o, p)' \cup HeldUnits(o, p)'
  BY <1>1 DEF AllHeldUnits, OthersUnits
<1>4. OthersUnits(o, p) \cap ({o} \X Nat) = {}
  BY DEF OthersUnits, HeldUnits
<1>5. QED
  BY <1>2, <1>3, <1>4

LEMMA InitAccounted ==
  ASSUME InitStock \in [Products -> Nat], Init
  PROVE  Accounted
<1>1. TypeOK
  BY DEF Init, TypeOK, NoLines
<1>2. ASSUME NEW p \in Products
      PROVE  IsFiniteSet(AllHeldUnits(p)) /\ Cardinality(AllHeldUnits(p)) = 0
  <2>1. AllHeldUnits(p) = {}
    BY DEF Init, AllHeldUnits, HeldUnits
  <2>2. QED
    BY <2>1, FS_EmptySet
<1>3. \A p \in Products : stock[p] = InitStock[p] /\ InitStock[p] \in Nat
  BY DEF Init
<1>4. QED
  BY <1>1, <1>2, <1>3 DEF Accounted, Conserved

\* A reservation makes the order's lines held units of its own.
LEMMA ReserveAccounted ==
  ASSUME Accounted, NEW o \in Orders, Reserve(o)
  PROVE  Accounted'
<1>1. TypeOK'
  <2>1. \A p \in Products : stock[p] - lines'[o][p] \in Nat
    BY DEF Accounted, TypeOK, Reserve
  <2>2. QED
    BY <2>1 DEF Accounted, TypeOK, Reserve
<1>2. ASSUME NEW p \in Products
      PROVE  /\ IsFiniteSet(AllHeldUnits(p)')
             /\ stock'[p] + Cardinality(AllHeldUnits(p)') = InitStock[p]
  <2> DEFINE q == lines'[o][p]
             S == OthersUnits(o, p)
  <2>1. q \in Nat /\ stock[p] \in Nat /\ stock'[p] = stock[p] - q
    BY DEF Accounted, TypeOK, Reserve
  <2>2. HeldUnits(o, p) = {} /\ HeldUnits(o, p)' = {o} \X (1..q)
    BY DEF Accounted, TypeOK, Reserve, HeldUnits
  <2>3. S' = S
    BY DEF Accounted, TypeOK, Reserve, HeldUnits, OthersUnits
  <2>4. AllHeldUnits(p) = S /\ AllHeldUnits(p)' = S \cup ({o} \X (1..q))
    BY <2>2, <2>3, SplitUnits
  <2>5. S \cap ({o} \X (1..q)) = {}
    BY SplitUnits
  <2>6. IsFiniteSet(S) /\ stock[p] + Cardinality(S) = InitStock[p]
    BY <2>4 DEF Accounted, Conserved
  <2>7. Cardinality(S) \in Nat
    BY <2>6, FS_CardinalityType
  <2> HIDE DEF S, q
  <2>8. /\ IsFiniteSet(S \cup ({o} \X (1..q)))
        /\ Cardinality(S \cup ({o} \X (1..q))) = Cardinality(S) + q
    BY <2>1, <2>5, <2>6, AddUnits
  <2>9. QED
    BY <2>1, <2>4, <2>6, <2>7, <2>8
<1>3. QED
  BY <1>1, <1>2 DEF Accounted, Conserved

\* A return takes exactly the order's lines out of the held units.
LEMMA ReturnAccounted ==
  ASSUME Accounted, NEW o \in Orders, Return(o)
  PROVE  Accounted'
<1>1. TypeOK'
  <2>1. \A p \in Products : stock[p] + lines[o][p] \in Nat
    BY DEF Accounted, TypeOK
  <2>2. QED
    BY <2>1 DEF Accounted, TypeOK, Return
<1>2. ASSUME NEW p \in Products
      PROVE  /\ IsFiniteSet(AllHeldUnits(p)')
             /\ stock'[p] + Cardinality(AllHeldUnits(p)') = InitStock[p]
  <2> DEFINE q == lines[o][p]
             S == OthersUnits(o, p)
  <2>1. q \in Nat /\ stock[p] \in Nat /\ stock'[p] = stock[p] + q
    BY DEF Accounted, TypeOK, Return
  <2>2. HeldUnits(o, p) = {o} \X (1..q) /\ HeldUnits(o, p)' = {}
    BY DEF Accounted, TypeOK, Return, HeldUnits
  <2>3. S' = S
    BY DEF Accounted, TypeOK, Return, HeldUnits, OthersUnits
  <2>4. AllHeldUnits(p) = S \cup ({o} \X (1..q)) /\ AllHeldUnits(p)' = S
    BY <2>2, <2>3, SplitUnits
  <2>5. S \cap ({o} \X (1..q)) = {}
    BY SplitUnits
  <2> HIDE DEF S, q
  <2>6. /\ IsFiniteSet(S \cup ({o} \X (1..q)))
        /\ stock[p] + Cardinality(S \cup ({o} \X (1..q))) = InitStock[p]
    BY <2>4 DEF Accounted, Conserved
  <2>7. IsFiniteSet(S)
    BY <2>6, FS_Subset, S \subseteq S \cup ({o} \X (1..q))
  <2>8. Cardinality(S) \in Nat
    BY <2>7, FS_CardinalityType
  <2>9. Cardinality(S \cup ({o} \X (1..q))) = Cardinality(S) + q
    BY <2>1, <2>5, <2>7, AddUnits
  <2>10. QED
    BY <2>1, <2>4, <2>6, <2>7, <2>8, <2>9
<1>3. QED
  BY <1>1, <1>2 DEF Accounted, Conserved

LEMMA StutterAccounted ==
  ASSUME Accounted, UNCHANGED vars
  PROVE  Accounted'
BY DEF Accounted, vars, TypeOK, Conserved, AllHeldUnits, HeldUnits

\* No unit is lost, reserved twice or returned twice, for any set of orders
\* and products: what create-order and the two cancellations must achieve.
THEOREM LedgerConserves ==
  ASSUME InitStock \in [Products -> Nat]
  PROVE  Spec => [](TypeOK /\ Conserved)
<1>1. Init => Accounted
  BY InitAccounted
<1>2. Accounted /\ [Next]_vars => Accounted'
  BY ReserveAccounted, ReturnAccounted, StutterAccounted DEF Next
<1>3. Accounted => TypeOK /\ Conserved
  BY DEF Accounted
<1>4. QED
  BY <1>1, <1>2, <1>3, PTL DEF Spec
=============================================================================
