-------------------------- MODULE PosOrdersProofs --------------------------
(***************************************************************************)
(* The point of sale and the back office, for every number of tills, desks,*)
(* orders, products and coupons: the stock and the coupons are what the    *)
(* orders' records say, a cancelled or refunded order is left only by its  *)
(* delivery, the events of an order tell its history, and only full        *)
(* refunds make the transactions wait in a circle.                         *)
(***************************************************************************)
EXTENDS PosOrders, SequenceTheorems, FiniteSetTheorems, TLAPS

Shapes ==
  /\ status \in [Orders -> Statuses \cup {"none"}]
  /\ sale \in [Orders -> Sale]
  /\ events \in [Orders -> SUBSET Event]
  /\ parcel \in [Orders -> Parcels]
  /\ passed \in [Orders -> SUBSET Statuses]
  /\ tx \in [Tills -> Transaction]
  /\ DOMAIN lock = Rows
  /\ desk \in [Desks -> DeskRequest]

\* A status is one the order has had, and a shipment is of an order.
Passed ==
  \A o \in Orders :
    /\ status[o] # "none" => status[o] \in passed[o]
    /\ parcel[o] # "none" => status[o] # "none"

ToLock(q, r) == \E i \in 1..Len(q.todo) : q.todo[i] = r

\* A transaction that ends an order has locked it, in the status it is to leave,
\* or has yet to lock it.
EndsLocked(t) ==
  tx[t].step = "open" /\ tx[t].kind \in {"cancel", "expire", "refund"} =>
    /\ tx[t].order \in Orders /\ tx[t].from \in {"paid", "pending", "processing"}
    /\ \/ ToLock(tx[t], tx[t].order)
       \/ lock[tx[t].order] = t /\ status[tx[t].order] = tx[t].from

\* A sale is alone with its order, which does not exist yet.
SaleAlone(t) ==
  tx[t].step = "open" /\ tx[t].kind = "sale" =>
    /\ tx[t].order \in Orders /\ tx[t].from \in {"paid", "pending"}
    /\ status[tx[t].order] = "none"
    /\ \A u \in Tills \ {t} : tx[u].order # tx[t].order

\* A partial refund repeats a status the order had.
PartialSeen(t) ==
  tx[t].step = "open" /\ tx[t].kind = "partial" =>
    tx[t].order \in Orders /\ tx[t].from \in passed[tx[t].order]

\* What the back office has read, and will ask for.
DeskHolds(d) ==
  desk[d].step \in {"read", "reread", "moving", "moved"} =>
    /\ desk[d].order \in Orders
    /\ status[desk[d].order] # "none"
    /\ desk[d].step = "reread" => desk[d].kind = "delivery"
    /\ \/ /\ desk[d].kind = "shipment" /\ desk[d].to = "shipped"
          /\ desk[d].from \in {"paid", "processing"}
       \/ /\ desk[d].kind = "delivery" /\ parcel[desk[d].order] # "none"
          /\ desk[d].to \in ParcelStatuses
          /\ desk[d].step # "read" => desk[d].to = "delivered"
       \/ /\ desk[d].kind = "admin" /\ desk[d].from \in Statuses
          /\ desk[d].to \in ValidTransitions[desk[d].from]

PosInv ==
  /\ Shapes
  /\ Passed
  /\ \A t \in Tills : EndsLocked(t) /\ SaleAlone(t) /\ PartialSeen(t)
  /\ \A d \in Desks : DeskHolds(d)
  /\ HistoryFaithful

-----------------------------------------------------------------------------
\* Sums over finite sets.

\* Induction over the naturals, of a set: if m were left out, adding 1 would map
\* the members of the set up to m into themselves without reaching 0.
LEMMA SetInduction ==
  ASSUME NEW S, 0 \in S, \A n \in Nat : n \in S => n + 1 \in S
  PROVE  Nat \subseteq S
<1> SUFFICES ASSUME NEW m \in Nat, m \notin S
             PROVE  FALSE
  OBVIOUS
<1> DEFINE T == S \cap (0..m)
           f == [x \in T |-> x + 1]
<1>1. IsFiniteSet(T)
  <2>1. T \in SUBSET Nat /\ \A x \in T : x <= m
    OBVIOUS
  <2> HIDE DEF T
  <2>2. QED
    BY <2>1, FS_BoundedSetOfNaturals
<1>2. f \in Injection(T, T)
  <2>1. ASSUME NEW x \in T PROVE x + 1 \in T
    OBVIOUS
  <2>2. QED
    BY <2>1 DEF Injection, IsInjective
<1>3. f \in Surjection(T, T)
  BY <1>1, <1>2, FS_Injection
<1>4. 0 \in T
  OBVIOUS
<1>5. PICK x \in T : f[x] = 0
  BY <1>3, <1>4 DEF Surjection
<1>6. QED
  BY <1>5

Some(s) == CHOOSE x \in s : TRUE

\* What the fold of MapThenSumSet is a fixpoint of.
Folds(g, S, f) ==
  g = [s \in SUBSET S |-> IF s = {} THEN 0 ELSE f[Some(s)] + g[s \ {Some(s)}]]

LEMMA SomeIn == \A s : s # {} => Some(s) \in s
BY DEF Some

LEMMA FoldOf ==
  ASSUME NEW S, NEW f, NEW g, Folds(g, S, f)
  PROVE  /\ g[{}] = 0
         /\ \A s \in SUBSET S : s # {} => g[s] = f[Some(s)] + g[s \ {Some(s)}]
<1> SUFFICES ASSUME NEW s \in SUBSET S
             PROVE  g[s] = IF s = {} THEN 0 ELSE f[Some(s)] + g[s \ {Some(s)}]
  BY DEF Folds
<1>1. QED
  BY DEF Folds

LEMMA FoldExists ==
  ASSUME NEW S, IsFiniteSet(S), NEW f
  PROVE  \E g : Folds(g, S, f)
<1> DEFINE Small(n) == {s \in SUBSET S : Cardinality(s) <= n}
           Eq(g, s) == g[s] = IF s = {} THEN 0 ELSE f[Some(s)] + g[s \ {Some(s)}]
           Good(g, n) == g = [s \in SUBSET S |-> g[s]] /\ \A s \in Small(n) : Eq(g, s)
           Ns == {n \in Nat : \E g : Good(g, n)}
<1>1. \A s \in SUBSET S : IsFiniteSet(s) /\ Cardinality(s) \in Nat /\ Cardinality(s) <= Cardinality(S)
  BY FS_Subset, FS_CardinalityType
<1>2. \A s \in SUBSET S : s # {} =>
        /\ s \ {Some(s)} \in SUBSET S
        /\ Cardinality(s \ {Some(s)}) = Cardinality(s) - 1
  BY <1>1, FS_RemoveElement, SomeIn
<1>3. 0 \in Ns
  <2> DEFINE g == [s \in SUBSET S |-> 0]
  <2>1. \A s \in Small(0) : s = {}
    BY <1>1, FS_EmptySet
  <2>2. \A s \in Small(0) : Eq(g, s)
    BY <2>1
  <2>3. g = [s \in SUBSET S |-> g[s]]
    OBVIOUS
  <2>4. QED
    BY <2>2, <2>3
<1>4. ASSUME NEW n \in Nat, n \in Ns
      PROVE  n + 1 \in Ns
  <2>1. PICK g : g = [s \in SUBSET S |-> g[s]] /\ \A s \in Small(n) : Eq(g, s)
    BY <1>4
  <2> DEFINE h == [s \in SUBSET S |-> IF s = {} THEN 0 ELSE f[Some(s)] + g[s \ {Some(s)}]]
  <2>2. \A s \in Small(n) : h[s] = g[s]
    BY <2>1
  <2>3. ASSUME NEW s \in Small(n + 1)
        PROVE  Eq(h, s)
    <3>1. CASE s = {}
      BY <3>1
    <3>2. CASE s # {}
      <4>1. s \ {Some(s)} \in Small(n)
        BY <1>1, <1>2, <3>2
      <4>2. h[s \ {Some(s)}] = g[s \ {Some(s)}]
        BY <2>2, <4>1
      <4>3. h[s] = f[Some(s)] + g[s \ {Some(s)}]
        BY <3>2
      <4> HIDE DEF h
      <4>4. QED
        BY <3>2, <4>2, <4>3
    <3>3. QED
      BY <3>1, <3>2
  <2>4. h = [s \in SUBSET S |-> h[s]]
    OBVIOUS
  <2>5. Good(h, n + 1)
    BY <2>3, <2>4
  <2> HIDE DEF h, Good
  <2>6. QED
    BY <2>5
<1>5. Cardinality(S) \in Ns
  <2> HIDE DEF Ns
  <2>1. QED
    BY <1>3, <1>4, SetInduction, FS_CardinalityType
<1>6. PICK g : g = [s \in SUBSET S |-> g[s]] /\ \A s \in Small(Cardinality(S)) : Eq(g, s)
  BY <1>5
<1>7. \A s \in SUBSET S : Eq(g, s)
  BY <1>1, <1>6
<1>8. g = [s \in SUBSET S |-> IF s = {} THEN 0 ELSE f[Some(s)] + g[s \ {Some(s)}]]
  BY <1>6, <1>7
<1>9. QED
  BY <1>8 DEF Folds

\* The value of a fold at a set does not depend on the order of its members.
LEMMA FoldTypes ==
  ASSUME NEW N, 0 \in N, \A x, y \in N : x + y \in N,
         NEW S, IsFiniteSet(S), NEW f \in [S -> N], NEW g, Folds(g, S, f)
  PROVE  \A s \in SUBSET S : g[s] \in N
<1> DEFINE Ns == {n \in Nat : \A s \in SUBSET S : Cardinality(s) = n => g[s] \in N}
<1>1. \A s \in SUBSET S : IsFiniteSet(s) /\ Cardinality(s) \in Nat
  BY FS_Subset, FS_CardinalityType
<1>2. /\ g[{}] = 0
      /\ \A s \in SUBSET S : s # {} => g[s] = f[Some(s)] + g[s \ {Some(s)}]
  BY FoldOf
<1>3. 0 \in Ns
  BY <1>1, <1>2, FS_EmptySet
<1>4. ASSUME NEW n \in Nat, n \in Ns
      PROVE  n + 1 \in Ns
  <2> SUFFICES ASSUME NEW s \in SUBSET S, Cardinality(s) = n + 1
               PROVE  g[s] \in N
    OBVIOUS
  <2>1. s # {} /\ Some(s) \in s
    BY FS_EmptySet, SomeIn
  <2>2. s \ {Some(s)} \in SUBSET S /\ Cardinality(s \ {Some(s)}) = n
    <3>1. Cardinality(s \ {Some(s)}) = Cardinality(s) - 1
      BY <1>1, <2>1, FS_RemoveElement
    <3>2. QED
      BY <3>1
  <2>3. g[s \ {Some(s)}] \in N /\ f[Some(s)] \in N
    BY <1>4, <2>1, <2>2
  <2>4. QED
    BY <1>2, <2>1, <2>3
<1>5. Nat \subseteq Ns
  <2> HIDE DEF Ns
  <2>1. QED
    BY <1>3, <1>4, SetInduction
<1>6. QED
  BY <1>1, <1>5

LEMMA FoldTakesOut ==
  ASSUME NEW S, IsFiniteSet(S), NEW f \in [S -> Int], NEW g, Folds(g, S, f),
         NEW t \in SUBSET S, NEW y \in t
  PROVE  g[t] = f[y] + g[t \ {y}]
<1> DEFINE Ns == {n \in Nat : \A s \in SUBSET S : \A x \in s :
                    Cardinality(s) = n => g[s] = f[x] + g[s \ {x}]}
<1>1. \A s \in SUBSET S : IsFiniteSet(s) /\ Cardinality(s) \in Nat /\ g[s] \in Int
  BY FoldTypes, FS_Subset, FS_CardinalityType
<1>2. \A s \in SUBSET S : s # {} => g[s] = f[Some(s)] + g[s \ {Some(s)}]
  BY FoldOf
<1>3. 0 \in Ns
  BY <1>1, FS_EmptySet
<1>4. ASSUME NEW n \in Nat, n \in Ns
      PROVE  n + 1 \in Ns
  <2> SUFFICES ASSUME NEW s \in SUBSET S, NEW x \in s, Cardinality(s) = n + 1
               PROVE  g[s] = f[x] + g[s \ {x}]
    OBVIOUS
  <2>1. PICK c : c = Some(s)
    OBVIOUS
  <2>2. c \in s /\ g[s] = f[c] + g[s \ {c}]
    BY <1>2, <2>1, SomeIn
  <2>3. CASE c = x
    BY <2>2, <2>3
  <2>4. CASE c # x
    <3>1. Cardinality(s \ {c}) = n /\ Cardinality(s \ {x}) = n
      BY <1>1, <2>2, FS_RemoveElement
    <3>2. g[s \ {c}] = f[x] + g[(s \ {c}) \ {x}]
      BY <1>4, <2>2, <2>4, <3>1
    <3>3. g[s \ {x}] = f[c] + g[(s \ {x}) \ {c}]
      BY <1>4, <2>2, <2>4, <3>1
    <3>4. (s \ {c}) \ {x} = (s \ {x}) \ {c}
      OBVIOUS
    <3>5. f[c] \in Int /\ f[x] \in Int /\ g[(s \ {x}) \ {c}] \in Int
      BY <1>1, <2>2
    <3>6. QED
      <4>1. PICK r : r = g[(s \ {x}) \ {c}]
        OBVIOUS
      <4>2. g[s \ {c}] = f[x] + r /\ g[s \ {x}] = f[c] + r /\ r \in Int
        BY <3>2, <3>3, <3>4, <3>5, <4>1
      <4>3. QED
        BY <2>2, <3>5, <4>2
  <2>5. QED
    BY <2>3, <2>4
<1>5. Nat \subseteq Ns
  <2> HIDE DEF Ns
  <2>1. QED
    BY <1>3, <1>4, SetInduction
<1>6. QED
  BY <1>1, <1>5

\* Two folds of functions that agree on a set agree there.
LEMMA FoldsAgree ==
  ASSUME NEW S, IsFiniteSet(S), NEW f \in [S -> Int], NEW h \in [S -> Int],
         NEW g, Folds(g, S, f), NEW k, Folds(k, S, h),
         NEW t \in SUBSET S, \A x \in t : f[x] = h[x]
  PROVE  g[t] = k[t]
<1> DEFINE Ns == {n \in Nat : \A s \in SUBSET t : Cardinality(s) = n => g[s] = k[s]}
<1>1. \A s \in SUBSET t : IsFiniteSet(s) /\ Cardinality(s) \in Nat
  BY FS_Subset, FS_CardinalityType
<1>2. /\ g[{}] = 0 /\ k[{}] = 0
      /\ \A s \in SUBSET S : s # {} => g[s] = f[Some(s)] + g[s \ {Some(s)}]
      /\ \A s \in SUBSET S : s # {} => k[s] = h[Some(s)] + k[s \ {Some(s)}]
  <2>1. g[{}] = 0 /\ \A s \in SUBSET S : s # {} => g[s] = f[Some(s)] + g[s \ {Some(s)}]
    BY FoldOf
  <2>2. k[{}] = 0 /\ \A s \in SUBSET S : s # {} => k[s] = h[Some(s)] + k[s \ {Some(s)}]
    BY FoldOf
  <2>3. QED
    BY <2>1, <2>2
<1>3. 0 \in Ns
  BY <1>1, <1>2, FS_EmptySet
<1>4. ASSUME NEW n \in Nat, n \in Ns
      PROVE  n + 1 \in Ns
  <2> SUFFICES ASSUME NEW s \in SUBSET t, Cardinality(s) = n + 1
               PROVE  g[s] = k[s]
    OBVIOUS
  <2>1. s # {} /\ Some(s) \in s
    BY FS_EmptySet, SomeIn
  <2>2. s \ {Some(s)} \in SUBSET t /\ Cardinality(s \ {Some(s)}) = n
    BY <1>1, <2>1, FS_RemoveElement
  <2>3. g[s \ {Some(s)}] = k[s \ {Some(s)}] /\ f[Some(s)] = h[Some(s)]
    BY <1>4, <2>1, <2>2
  <2>4. QED
    BY <1>2, <2>1, <2>3
<1>5. Nat \subseteq Ns
  <2> HIDE DEF Ns
  <2>1. QED
    BY <1>3, <1>4, SetInduction
<1>6. QED
  BY <1>1, <1>5

\* A sum changes by as much as the one term that changes.
LEMMA FoldChanges ==
  ASSUME NEW S, IsFiniteSet(S), NEW f \in [S -> Int], NEW h \in [S -> Int],
         NEW g, Folds(g, S, f), NEW k, Folds(k, S, h),
         NEW y \in S, \A x \in S \ {y} : f[x] = h[x]
  PROVE  g[S] \in Int /\ k[S] = g[S] + h[y] - f[y]
<1>1. g[S] = f[y] + g[S \ {y}] /\ k[S] = h[y] + k[S \ {y}]
  BY FoldTakesOut
<1>2. g[S \ {y}] = k[S \ {y}]
  BY FoldsAgree
<1>3. g[S] \in Int /\ g[S \ {y}] \in Int /\ f[y] \in Int /\ h[y] \in Int
  BY FoldTypes
<1>4. QED
  BY <1>1, <1>2, <1>3

LEMMA FoldOfZeros ==
  ASSUME NEW S, IsFiniteSet(S), NEW f \in [S -> Int], \A x \in S : f[x] = 0,
         NEW g, Folds(g, S, f)
  PROVE  g[S] = 0
<1> DEFINE k == [s \in SUBSET S |-> 0]
<1>1. Folds(k, S, f)
  <2>1. \A s \in SUBSET S : s # {} => f[Some(s)] + k[s \ {Some(s)}] = 0
    BY SomeIn
  <2>2. k = [s \in SUBSET S |-> IF s = {} THEN 0 ELSE f[Some(s)] + k[s \ {Some(s)}]]
    BY <2>1
  <2>3. QED
    BY <2>2 DEF Folds
<1> HIDE DEF k
<1>2. g[S] = k[S]
  BY <1>1, FoldsAgree
<1>3. QED
  BY <1>2 DEF k

-----------------------------------------------------------------------------
\* The lists of rows to lock.

LEMMA Ids ==
  /\ Orders \subseteq Rows /\ Products \subseteq Rows /\ Coupons \subseteq Rows
  /\ NoOne \notin Tills /\ NoOrder \notin Orders
BY PosAssumption DEF Rows

\* Whether a line comes before another: by its product, or by its place.
Earlier(lines, j, i) == \/ lines[j].product < lines[i].product
                        \/ lines[j].product = lines[i].product /\ j < i
Place(lines, i) == Cardinality({j \in DOMAIN lines : Earlier(lines, j, i)}) + 1

\* Every place is that of one line, so the list sorted is the list rearranged.
LEMMA Places ==
  ASSUME NEW lines \in Seq(Line)
  PROVE  /\ \A i \in 1..Len(lines) : Place(lines, i) \in 1..Len(lines)
         /\ \A m \in 1..Len(lines) : \E i \in 1..Len(lines) : Place(lines, i) = m
         /\ \A i, j \in 1..Len(lines) :
              /\ Place(lines, i) = Place(lines, j) => i = j
              /\ Earlier(lines, i, j) => Place(lines, i) < Place(lines, j)
<1> DEFINE D == 1..Len(lines)
           B(i) == {j \in D : Earlier(lines, j, i)}
           f == [i \in D |-> Cardinality(B(i)) + 1]
<1>1. Len(lines) \in Nat /\ DOMAIN lines = D /\ \A i \in D : lines[i].product \in Nat
  <2>1. \A i \in DOMAIN lines : lines[i] \in Line
    BY ElementOfSeq, LenProperties
  <2>2. QED
    BY <2>1, LenProperties, PosAssumption DEF Line
<1>2. \A i \in D : Place(lines, i) = f[i]
  BY <1>1 DEF Place
<1>3. IsFiniteSet(D) /\ Cardinality(D) = Len(lines)
  BY <1>1, FS_Interval
<1>4. \A i \in D : IsFiniteSet(B(i)) /\ Cardinality(B(i)) \in Nat
  BY <1>3, FS_Subset, FS_CardinalityType
<1>5. \A i, j \in D : /\ ~Earlier(lines, i, i)
                      /\ i # j => Earlier(lines, i, j) \/ Earlier(lines, j, i)
                      /\ \A k \in D : Earlier(lines, k, i) /\ Earlier(lines, i, j) => Earlier(lines, k, j)
  BY <1>1 DEF Earlier
<1>6. ASSUME NEW i \in D
      PROVE  f[i] \in D
  <2>1. IsFiniteSet(D \ {i}) /\ Cardinality(D \ {i}) = Len(lines) - 1
    BY <1>3, FS_RemoveElement
  <2>2. B(i) \in SUBSET (D \ {i})
    BY <1>5
  <2> HIDE DEF B, D
  <2>3. Cardinality(B(i)) <= Len(lines) - 1
    BY <2>1, <2>2, FS_Subset
  <2>4. QED
    BY <1>1, <1>4, <2>3 DEF D
<1>7. ASSUME NEW i \in D, NEW j \in D, Earlier(lines, i, j)
      PROVE  f[i] < f[j]
  <2>1. B(i) \in SUBSET B(j) /\ i \in B(j) /\ i \notin B(i)
    BY <1>5, <1>7
  <2> HIDE DEF B
  <2>2. Cardinality(B(i)) <= Cardinality(B(j)) /\ Cardinality(B(i)) # Cardinality(B(j))
    BY <1>4, <2>1, FS_Subset
  <2>3. QED
    BY <1>4, <2>2
<1>8. \A i, j \in D : f[i] = f[j] => i = j
  <2>1. \A i \in D : f[i] \in Nat
    BY <1>4
  <2> HIDE DEF f
  <2>2. QED
    BY <1>5, <1>7, <2>1
<1> HIDE DEF f
<1>9. f \in Injection(D, D)
  <2>1. f \in [D -> D]
    BY <1>6 DEF f
  <2>2. QED
    BY <1>8, <2>1 DEF Injection, IsInjective
<1> HIDE DEF D
<1>10. f \in Surjection(D, D)
  BY <1>3, <1>9, FS_Injection
<1>11. \A m \in D : \E i \in D : f[i] = m
  BY <1>10 DEF Surjection
<1>12. /\ \A i \in D : Place(lines, i) \in D
       /\ \A m \in D : \E i \in D : Place(lines, i) = m
       /\ \A i, j \in D : /\ Place(lines, i) = Place(lines, j) => i = j
                          /\ Earlier(lines, i, j) => Place(lines, i) < Place(lines, j)
  <2>1. \A i \in D : Place(lines, i) \in D
    BY <1>2, <1>6
  <2>2. \A m \in D : \E i \in D : Place(lines, i) = m
    BY <1>2, <1>11
  <2>3. \A i, j \in D : Place(lines, i) = Place(lines, j) => i = j
    BY <1>2, <1>8
  <2>4. \A i, j \in D : Earlier(lines, i, j) => Place(lines, i) < Place(lines, j)
    BY <1>2, <1>7
  <2>5. QED
    BY <2>1, <2>2, <2>3, <2>4
<1>13. QED
  BY <1>12 DEF D

LEMMA SortedRearranges ==
  ASSUME NEW lines \in Seq(Line)
  PROVE  /\ Sorted(lines) \in [1..Len(lines) -> Line]
         /\ \A i \in 1..Len(lines) : \E m \in 1..Len(lines) : Sorted(lines)[m] = lines[i]
         /\ \A m, k \in 1..Len(lines) : m < k => Sorted(lines)[m].product <= Sorted(lines)[k].product
<1> DEFINE D == DOMAIN lines
           At(m) == CHOOSE i \in D : Place(lines, i) = m
<1>1. Len(lines) \in Nat /\ D = 1..Len(lines) /\ \A i \in D : lines[i] \in Line /\ lines[i].product \in Nat
  <2>1. \A i \in DOMAIN lines : lines[i] \in Line
    BY ElementOfSeq, LenProperties
  <2>2. QED
    BY <2>1, LenProperties, PosAssumption DEF Line
<1>2. \A m \in D : At(m) \in D /\ Place(lines, At(m)) = m
  BY Places
<1>3. Sorted(lines) = [m \in D |-> lines[At(m)]]
  <2>1. \A i \in D, m \in D : 
          (Cardinality({j \in D : Earlier(lines, j, i)}) = m - 1) <=> Place(lines, i) = m
    <3>1. \A i \in D : Place(lines, i) \in Int /\ Place(lines, i) = Cardinality({j \in D : Earlier(lines, j, i)}) + 1
      BY <1>1, Places DEF Place
    <3>2. IsFiniteSet(D)
      BY <1>1, FS_Interval
    <3>3. \A i \in D : Cardinality({j \in D : Earlier(lines, j, i)}) \in Nat
      BY <3>2, FS_Subset, FS_CardinalityType
    <3>4. QED
      BY <3>1, <3>3
  <2>2. \A m \in D : (CHOOSE i \in D : Cardinality({j \in D : Earlier(lines, j, i)}) = m - 1) = At(m)
    BY <2>1
  <2>3. Sorted(lines) = [m \in D |->
          lines[CHOOSE i \in D : Cardinality({j \in D : Earlier(lines, j, i)}) = m - 1]]
    BY DEF Sorted, Earlier
  <2> HIDE DEF At
  <2>4. QED
    BY <2>2, <2>3
<1>4. \A i \in D : At(Place(lines, i)) = i /\ Place(lines, i) \in D
  BY <1>2, Places
<1> HIDE DEF At
<1>5. ASSUME NEW m \in D, NEW k \in D, m < k
      PROVE  lines[At(m)].product <= lines[At(k)].product
  <2>1. ~Earlier(lines, At(k), At(m))
    BY <1>1, <1>2, <1>5, Places
  <2>2. QED
    BY <1>1, <1>2, <2>1 DEF Earlier
<1>6. Sorted(lines) \in [D -> Line]
  BY <1>1, <1>2, <1>3
<1>7. \A i \in D : Sorted(lines)[Place(lines, i)] = lines[i] /\ Place(lines, i) \in D
  BY <1>3, <1>4
<1>8. \A m, k \in D : m < k => Sorted(lines)[m].product <= Sorted(lines)[k].product
  BY <1>3, <1>5
<1>9. QED
  BY <1>6, <1>7, <1>8

\* The rows of a sorted list are its products, in their order, and all of them.
LEMMA SortedRows ==
  ASSUME NEW lines \in Seq(Line)
  PROVE  /\ ProductRows(Sorted(lines)) \in Seq(Rows)
         /\ ProductRows(Sorted(lines)) \in [1..Len(lines) -> Products]
         /\ Len(ProductRows(Sorted(lines))) = Len(lines) /\ Len(lines) \in Nat
         /\ \A i \in 1..Len(lines) : \E m \in 1..Len(lines) :
              ProductRows(Sorted(lines))[m] = lines[i].product
         /\ \A m, k \in 1..Len(lines) : m < k =>
              ProductRows(Sorted(lines))[m] <= ProductRows(Sorted(lines))[k]
<1> DEFINE rows == ProductRows(Sorted(lines))
<1>1. Len(lines) \in Nat
  BY LenProperties
<1>2. /\ Sorted(lines) \in [1..Len(lines) -> Line]
      /\ \A i \in 1..Len(lines) : \E m \in 1..Len(lines) : Sorted(lines)[m] = lines[i]
      /\ \A m, k \in 1..Len(lines) : m < k => Sorted(lines)[m].product <= Sorted(lines)[k].product
  BY SortedRearranges
<1>3. \A m \in 1..Len(lines) : Sorted(lines)[m].product \in Products
  BY <1>2 DEF Line
<1>4. rows = [m \in 1..Len(lines) |-> Sorted(lines)[m].product]
  BY <1>2 DEF ProductRows
<1>5. rows \in [1..Len(lines) -> Products] /\ rows \in [1..Len(lines) -> Rows]
  BY <1>3, <1>4, Ids
<1>6. /\ \A i \in 1..Len(lines) : \E m \in 1..Len(lines) : rows[m] = lines[i].product
      /\ \A m, k \in 1..Len(lines) : m < k => rows[m] <= rows[k]
  BY <1>2, <1>4
<1> HIDE DEF rows
<1>7. rows \in Seq(Rows) /\ Len(rows) = Len(lines)
  BY <1>1, <1>5
<1>8. QED
  BY <1>1, <1>5, <1>6, <1>7 DEF rows

LEMMA ListsAreSequences ==
  ASSUME NEW lines \in Seq(Line), NEW c \in Coupons \cup {NoCoupon}
  PROVE  ProductRows(Sorted(lines)) \in Seq(Rows) /\ CouponRow(c) \in Seq(Rows)
BY SortedRows, Ids DEF CouponRow

\* Taking the first row off a list leaves the others.
LEMMA TailKeeps ==
  ASSUME NEW s \in Seq(Rows), s # <<>>
  PROVE  /\ Tail(s) \in Seq(Rows)
         /\ \A r : (\E i \in 1..Len(s) : s[i] = r) =>
              r = Head(s) \/ \E i \in 1..Len(Tail(s)) : Tail(s)[i] = r
<1>1. Len(s) \in Nat \ {0} /\ Tail(s) \in Seq(Rows) /\ Head(s) = s[1]
      /\ Len(Tail(s)) = Len(s) - 1 /\ \A i \in 1..(Len(s) - 1) : Tail(s)[i] = s[i + 1]
  BY EmptySeq, HeadTailProperties
<1>2. ASSUME NEW i \in 1..Len(s), i # 1
      PROVE  \E j \in 1..Len(Tail(s)) : Tail(s)[j] = s[i]
  <2>1. i - 1 \in 1..(Len(s) - 1)
    BY <1>1, <1>2
  <2>2. QED
    BY <1>1, <2>1
<1>3. QED
  BY <1>1, <1>2

LEMMA Table ==
  /\ \A s \in Statuses : ValidTransitions[s] \subseteq Statuses
  /\ \A s \in {"cancelled", "refunded", "delivered"} : ValidTransitions[s] = {}
  /\ {"paid", "pending", "processing", "cancelled", "refunded", "shipped", "delivered"}
       \subseteq Statuses
  /\ "none" \notin Statuses
BY DEF Statuses, ValidTransitions

-----------------------------------------------------------------------------
\* What a step leaves alone.

OrdersStay == UNCHANGED <<status, parcel, passed>>

LEMMA OthersKept ==
  ASSUME NEW t \in Tills, EndsLocked(t), SaleAlone(t), PartialSeen(t), OrdersStay,
         tx'[t] = tx[t], \A r \in Rows : lock[r] = t => lock'[r] = t
  PROVE  EndsLocked(t)' /\ PartialSeen(t)'
<1>1. EndsLocked(t)'
  BY Ids DEF EndsLocked, ToLock, OrdersStay
<1>2. PartialSeen(t)'
  BY DEF PartialSeen, OrdersStay
<1>3. QED
  BY <1>1, <1>2

LEMMA DeskKept ==
  ASSUME NEW d \in Desks, DeskHolds(d), desk'[d] = desk[d],
         \A o \in Orders : (status[o] # "none" => status'[o] # "none")
                           /\ (parcel[o] # "none" => parcel'[o] # "none")
  PROVE  DeskHolds(d)'
BY DEF DeskHolds

\* An event that is recorded, or about to be, is of a status the order had.
LEMMA HistoryKept ==
  ASSUME HistoryFaithful, UNCHANGED <<events, passed>>,
         \A d \in Desks : /\ desk'[d].step \in {"moved", "lost"} <=> desk[d].step \in {"moved", "lost"}
                          /\ desk[d].step \in {"moved", "lost"} =>
                               desk'[d].order = desk[d].order /\ desk'[d].to = desk[d].to
  PROVE  HistoryFaithful'
<1> SUFFICES ASSUME NEW o \in Orders
             PROVE  passed'[o] = {e.status : e \in events'[o]} \cup
                      {desk'[d].to : d \in {x \in Desks : desk'[x].order = o /\ desk'[x].step \in {"moved", "lost"}}}
  BY DEF HistoryFaithful
<1>1. {x \in Desks : desk'[x].order = o /\ desk'[x].step \in {"moved", "lost"}}
      = {x \in Desks : desk[x].order = o /\ desk[x].step \in {"moved", "lost"}}
  OBVIOUS
<1>2. QED
  BY <1>1 DEF HistoryFaithful

-----------------------------------------------------------------------------
\* The point of sale.

\* Opening a transaction: what it has read is true of its order.
LEMMA BeginPreserves ==
  ASSUME PosInv, NEW t \in Tills, NEW o \in Orders,
         NEW kind \in {"sale", "cancel", "expire", "refund", "partial"}, NEW from \in Statuses,
         NEW lines \in Seq(Line), NEW c \in Coupons \cup {NoCoupon}, NEW todo \in Seq(Rows),
         Begin(t, kind, o, from, lines, c, todo),
         kind \in {"cancel", "expire", "refund"} =>
           from \in {"paid", "pending", "processing"} /\ \E i \in 1..Len(todo) : todo[i] = o,
         kind # "sale" => status[o] # "none",
         kind = "sale" => /\ status[o] = "none" /\ from \in {"paid", "pending"}
                          /\ \A u \in Tills : tx[u].order # o,
         kind = "partial" => from \in passed[o]
  PROVE  PosInv'
<1> DEFINE q == [step |-> "open", kind |-> kind, order |-> o, from |-> from,
                 lines |-> lines, coupon |-> c, todo |-> todo]
<1>1. Shapes
  BY DEF PosInv
<1>2. /\ q \in Transaction /\ q.step = "open" /\ q.kind = kind /\ q.order = o
      /\ q.from = from /\ q.todo = todo
  BY DEF Transaction
<1>3. tx' = [tx EXCEPT ![t] = q] /\ UNCHANGED <<table, lock, desk>>
  BY DEF Begin
<1> HIDE DEF q
<1>4. /\ tx' \in [Tills -> Transaction] /\ tx'[t] = q
      /\ \A u \in Tills \ {t} : tx'[u] = tx[u]
  BY <1>1, <1>2, <1>3 DEF Shapes
<1>5. Shapes' /\ Passed' /\ OrdersStay
  BY <1>1, <1>3, <1>4 DEF PosInv, Shapes, Passed, table, OrdersStay
<1>6. EndsLocked(t)' /\ SaleAlone(t)' /\ PartialSeen(t)'
  <2>1. EndsLocked(t)'
    BY <1>2, <1>4 DEF EndsLocked, ToLock
  <2>2. SaleAlone(t)'
    BY <1>2, <1>4, <1>5 DEF SaleAlone, OrdersStay
  <2>3. PartialSeen(t)'
    BY <1>2, <1>4, <1>5 DEF PartialSeen, OrdersStay
  <2>4. QED
    BY <2>1, <2>2, <2>3
<1>7. ASSUME NEW u \in Tills \ {t}
      PROVE  EndsLocked(u)' /\ SaleAlone(u)' /\ PartialSeen(u)'
  <2>1. EndsLocked(u) /\ SaleAlone(u) /\ PartialSeen(u)
    BY DEF PosInv
  <2>2. EndsLocked(u)' /\ PartialSeen(u)'
    BY <1>3, <1>4, <1>5, <2>1, OthersKept
  <2>3. SaleAlone(u)'
    <3>1. SUFFICES ASSUME tx[u].step = "open", tx[u].kind = "sale"
                   PROVE  SaleAlone(u)'
      BY <1>4 DEF SaleAlone
    <3>2. tx[u].order # o
      BY <2>1, <3>1 DEF SaleAlone
    <3>3. QED
      BY <1>2, <1>4, <1>5, <2>1, <3>2 DEF SaleAlone, OrdersStay
  <2>4. QED
    BY <2>2, <2>3
<1>8. \A d \in Desks : DeskHolds(d)'
  BY <1>3, <1>5, DeskKept DEF PosInv, OrdersStay
<1>9. HistoryFaithful'
  BY <1>3, HistoryKept DEF PosInv, table
<1>10. QED
  BY <1>5, <1>6, <1>7, <1>8, <1>9 DEF PosInv

LEMMA BeginningsPreserve ==
  ASSUME PosInv, NEW t \in Tills, NEW o \in Orders,
         \/ \E r \in Requests : BeginSale(t, o, r)
         \/ BeginCancel(t, o) \/ BeginExpire(t, o)
         \/ BeginRefund(t, o)
         \/ \E l \in Parts : BeginPartial(t, o, l)
  PROVE  PosInv'
<1>1. /\ sale[o].lines \in Seq(Line) /\ sale[o].coupon \in Coupons \cup {NoCoupon}
      /\ status[o] # "none" => status[o] \in passed[o]
      /\ status[o] \in Statuses \cup {"none"}
  BY DEF PosInv, Shapes, Passed, Sale
<1>2. /\ ProductRows(Sorted(sale[o].lines)) \in Seq(Rows)
      /\ CouponRow(sale[o].coupon) \in Seq(Rows)
      /\ <<o>> \in Seq(Rows) /\ NoCoupon \in Coupons \cup {NoCoupon}
  BY <1>1, ListsAreSequences, Ids
<1>3. ASSUME NEW r \in Requests, BeginSale(t, o, r)
      PROVE  PosInv'
  <2>1. /\ r.lines \in Seq(Line) /\ r.coupon \in Coupons \cup {NoCoupon}
        /\ r.final \in {"paid", "pending"}
    BY PosAssumption
  <2>2. ProductRows(Sorted(r.lines)) \o CouponRow(r.coupon) \in Seq(Rows)
    BY <2>1, ListsAreSequences, ConcatProperties
  <2>3. QED
    BY <1>3, <2>1, <2>2, Table, BeginPreserves DEF BeginSale
<1>4. ASSUME NEW kind \in {"cancel", "expire"}, NEW from \in {"paid", "pending"},
             status[o] # "none", BeginUndoing(t, kind, o, from)
      PROVE  PosInv'
  <2> DEFINE rest == ProductRows(Sorted(sale[o].lines))
             todo == <<o>> \o rest \o CouponRow(sale[o].coupon)
  <2>1. <<o>> \o rest \in Seq(Rows) /\ Len(<<o>> \o rest) >= 1 /\ (<<o>> \o rest)[1] = o
    BY <1>2, ConcatProperties
  <2>2. todo \in Seq(Rows) /\ Len(todo) >= 1 /\ todo[1] = o
    BY <1>2, <2>1, ConcatProperties
  <2>3. Len(todo) \in Nat
    BY <2>2
  <2>4. \E i \in 1..Len(todo) : todo[i] = o
    BY <2>2, <2>3
  <2>5. Begin(t, kind, o, from, sale[o].lines, sale[o].coupon, todo) /\ status[o] # "none"
    BY <1>4 DEF BeginUndoing
  <2> HIDE DEF todo
  <2>6. QED
    BY <1>1, <2>2, <2>4, <2>5, Table, BeginPreserves
<1>5. CASE BeginRefund(t, o)
  <2> DEFINE rest == ProductRows(Sorted(sale[o].lines))
             todo == rest \o <<o>>
  <2>1. Len(rest) \in Nat /\ todo \in Seq(Rows) /\ Len(todo) = Len(rest) + 1
        /\ todo[Len(rest) + 1] = o
    BY <1>2, ConcatProperties
  <2>2. \E i \in 1..Len(todo) : todo[i] = o
    BY <2>1
  <2>3. /\ Begin(t, "refund", o, status[o], sale[o].lines, NoCoupon, todo)
        /\ status[o] \in {"paid", "processing"}
    BY <1>5 DEF BeginRefund
  <2> HIDE DEF todo
  <2>4. QED
    BY <1>1, <1>2, <2>1, <2>2, <2>3, Table, BeginPreserves
<1>6. ASSUME NEW l \in Parts, BeginPartial(t, o, l)
      PROVE  PosInv'
  <2>1. l \in Seq(Line) /\ ProductRows(Sorted(l)) \in Seq(Rows)
    BY <1>2, PosAssumption, ListsAreSequences
  <2>2. QED
    BY <1>1, <1>2, <1>6, <2>1, Table, BeginPreserves DEF BeginPartial
<1>7. QED
  BY <1>3, <1>4, <1>5, <1>6 DEF BeginCancel, BeginExpire

\* A lock is taken: what is locked is as the UPDATE wants it, and what others
\* had locked is another row.
LEMMA LockPreserves ==
  ASSUME PosInv, NEW t \in Tills, LockRow(t)
  PROVE  PosInv'
<1> DEFINE h == NextRow(t)
           q == [tx[t] EXCEPT !.todo = Tail(@)]
<1>1. Shapes /\ tx[t] \in Transaction /\ tx[t].todo \in Seq(Rows) /\ tx[t].todo # <<>>
  BY DEF PosInv, Shapes, Transaction, LockRow
<1>2. /\ Tail(tx[t].todo) \in Seq(Rows) /\ h = Head(tx[t].todo)
      /\ \A r : ToLock(tx[t], r) => r = h \/ \E i \in 1..Len(Tail(tx[t].todo)) : Tail(tx[t].todo)[i] = r
  BY <1>1, TailKeeps DEF NextRow, ToLock
<1>3. /\ q \in Transaction /\ q.step = tx[t].step /\ q.kind = tx[t].kind
      /\ q.order = tx[t].order /\ q.from = tx[t].from /\ q.todo = Tail(tx[t].todo)
  BY <1>1, <1>2 DEF Transaction
<1>4. /\ tx' = [tx EXCEPT ![t] = q] /\ lock' = [lock EXCEPT ![h] = t]
      /\ UNCHANGED <<table, desk>>
  BY DEF LockRow
<1>5. lock[h] \in {NoOne, t} /\ (h \in Orders => status[h] = tx[t].from)
  BY <1>1 DEF LockRow, Waiting, Accepts
<1> HIDE DEF h, q
<1>6. /\ tx' \in [Tills -> Transaction] /\ tx'[t] = q
      /\ \A u \in Tills \ {t} : tx'[u] = tx[u]
  BY <1>1, <1>3, <1>4 DEF Shapes
<1>7. Shapes' /\ Passed' /\ OrdersStay
  BY <1>1, <1>4, <1>6 DEF PosInv, Shapes, Passed, table, OrdersStay
<1>8. \A r \in Rows : /\ lock[r] = t \/ r = h => lock'[r] = t
                      /\ \A u \in Tills \ {t} : lock[r] = u => lock'[r] = u
  BY <1>1, <1>4, <1>5, Ids DEF Shapes
<1>9. EndsLocked(t) /\ SaleAlone(t) /\ PartialSeen(t)
  BY DEF PosInv
<1>10. EndsLocked(t)'
  <2>1. SUFFICES ASSUME tx[t].step = "open", tx[t].kind \in {"cancel", "expire", "refund"},
                        ~\E i \in 1..Len(Tail(tx[t].todo)) : Tail(tx[t].todo)[i] = tx[t].order
                 PROVE  lock'[tx[t].order] = t /\ status'[tx[t].order] = tx[t].from
    BY <1>3, <1>6, <1>9 DEF EndsLocked, ToLock
  <2>2. tx[t].order \in Orders /\ tx[t].order \in Rows
    BY <1>9, <2>1, Ids DEF EndsLocked
  <2>3. CASE tx[t].order = h
    BY <1>5, <1>7, <1>8, <2>2, <2>3 DEF OrdersStay
  <2>4. CASE tx[t].order # h
    BY <1>2, <1>7, <1>8, <1>9, <2>1, <2>2, <2>4 DEF EndsLocked, OrdersStay
  <2>5. QED
    BY <2>3, <2>4
<1>11. SaleAlone(t)' /\ PartialSeen(t)'
  <2>1. SaleAlone(t)'
    BY <1>3, <1>6, <1>7, <1>9 DEF SaleAlone, OrdersStay
  <2>2. PartialSeen(t)'
    BY <1>3, <1>6, <1>7, <1>9 DEF PartialSeen, OrdersStay
  <2>3. QED
    BY <2>1, <2>2
<1>12. ASSUME NEW u \in Tills \ {t}
       PROVE  EndsLocked(u)' /\ SaleAlone(u)' /\ PartialSeen(u)'
  <2>1. EndsLocked(u) /\ SaleAlone(u) /\ PartialSeen(u)
    BY DEF PosInv
  <2>2. EndsLocked(u)' /\ PartialSeen(u)'
    BY <1>6, <1>7, <1>8, <2>1, OthersKept
  <2>3. SaleAlone(u)'
    BY <1>3, <1>6, <1>7, <2>1 DEF SaleAlone, OrdersStay
  <2>4. QED
    BY <2>2, <2>3
<1>13. \A d \in Desks : DeskHolds(d)'
  BY <1>4, <1>7, DeskKept DEF PosInv, OrdersStay
<1>14. HistoryFaithful'
  BY <1>4, HistoryKept DEF PosInv, table
<1>15. QED
  BY <1>7, <1>10, <1>11, <1>12, <1>13, <1>14 DEF PosInv

\* The end of a transaction, good or bad, leaves the others and their locks.
LEMMA EndKeeps ==
  ASSUME Shapes, NEW t \in Tills, NEW step \in {"done", "failed"},
         tx' = [tx EXCEPT ![t].step = step], Released(t)
  PROVE  /\ tx' \in [Tills -> Transaction] /\ tx'[t].step = step
         /\ \A u \in Tills : tx'[u].order = tx[u].order
         /\ \A u \in Tills \ {t} : tx'[u] = tx[u]
         /\ DOMAIN lock' = Rows
         /\ \A r \in Rows, u \in Tills \ {t} : lock[r] = u => lock'[r] = u
<1>1. tx[t] \in Transaction
  BY DEF Shapes
<1>2. [tx[t] EXCEPT !.step = step] \in Transaction
  BY <1>1 DEF Transaction
<1>3. tx' = [tx EXCEPT ![t] = [tx[t] EXCEPT !.step = step]]
  OBVIOUS
<1>4. /\ tx' \in [Tills -> Transaction] /\ tx'[t] = [tx[t] EXCEPT !.step = step]
      /\ \A u \in Tills \ {t} : tx'[u] = tx[u]
  BY <1>2, <1>3 DEF Shapes
<1>5. tx'[t].step = step /\ tx'[t].order = tx[t].order
  BY <1>1, <1>4 DEF Transaction
<1>6. DOMAIN lock' = Rows /\ \A r \in Rows, u \in Tills \ {t} : lock[r] = u => lock'[r] = u
  BY DEF Released
<1>7. QED
  BY <1>4, <1>5, <1>6

LEMMA RollbackPreserves ==
  ASSUME PosInv, NEW t \in Tills, Rollback(t)
  PROVE  PosInv'
<1>1. Shapes /\ tx' = [tx EXCEPT ![t].step = "failed"] /\ Released(t) /\ UNCHANGED <<table, desk>>
  BY DEF PosInv, Rollback
<1>2. /\ tx' \in [Tills -> Transaction] /\ tx'[t].step = "failed"
      /\ \A u \in Tills : tx'[u].order = tx[u].order
      /\ \A u \in Tills \ {t} : tx'[u] = tx[u]
      /\ DOMAIN lock' = Rows
      /\ \A r \in Rows, u \in Tills \ {t} : lock[r] = u => lock'[r] = u
  BY <1>1, EndKeeps
<1>3. Shapes' /\ Passed' /\ OrdersStay
  BY <1>1, <1>2 DEF PosInv, Shapes, Passed, table, OrdersStay
<1>4. EndsLocked(t)' /\ SaleAlone(t)' /\ PartialSeen(t)'
  BY <1>2 DEF EndsLocked, SaleAlone, PartialSeen
<1>5. ASSUME NEW u \in Tills \ {t}
      PROVE  EndsLocked(u)' /\ SaleAlone(u)' /\ PartialSeen(u)'
  <2>1. EndsLocked(u) /\ SaleAlone(u) /\ PartialSeen(u)
    BY DEF PosInv
  <2>2. EndsLocked(u)' /\ PartialSeen(u)'
    BY <1>2, <1>3, <2>1, OthersKept
  <2>3. SaleAlone(u)'
    BY <1>2, <1>3, <2>1 DEF SaleAlone, OrdersStay
  <2>4. QED
    BY <2>2, <2>3
<1>6. \A d \in Desks : DeskHolds(d)'
  BY <1>1, <1>3, DeskKept DEF PosInv, OrdersStay
<1>7. HistoryFaithful'
  BY <1>1, HistoryKept DEF PosInv, table
<1>8. QED
  BY <1>3, <1>4, <1>5, <1>6, <1>7 DEF PosInv

\* An event recorded with a status the order has, or is given with it.
LEMMA RecordedKeeps ==
  ASSUME HistoryFaithful, Shapes, NEW o \in Orders, NEW s \in Statuses,
         NEW who \in {"sale", "cancel", "expire", "refund", "partial"},
         Record(o, s, who), UNCHANGED desk,
         \/ passed' = [passed EXCEPT ![o] = @ \cup {s}]
         \/ s \in passed[o] /\ UNCHANGED passed
  PROVE  /\ HistoryFaithful'
         /\ events' \in [Orders -> SUBSET Event] /\ passed' \in [Orders -> SUBSET Statuses]
         /\ \A n \in Orders : passed[n] \subseteq passed'[n]
<1> DEFINE e == [status |-> s, by |-> who]
           M(n) == {desk[d].to : d \in {x \in Desks : desk[x].order = n /\ desk[x].step \in {"moved", "lost"}}}
<1>1. e \in Event /\ e.status = s
  BY DEF Event
<1>2. events' = [events EXCEPT ![o] = @ \cup {e}]
  BY DEF Record
<1> HIDE DEF e
<1>3. /\ events' \in [Orders -> SUBSET Event] /\ passed' \in [Orders -> SUBSET Statuses]
      /\ \A n \in Orders : passed[n] \subseteq passed'[n]
  BY <1>1, <1>2 DEF Shapes
<1>4. ASSUME NEW n \in Orders
      PROVE  passed'[n] = {f.status : f \in events'[n]} \cup M(n)
  <2>1. passed[n] = {f.status : f \in events[n]} \cup M(n)
    BY DEF HistoryFaithful
  <2>2. CASE n = o
    <3>1. events'[n] = events[n] \cup {e} /\ passed'[n] = passed[n] \cup {s}
      BY <1>2, <2>2 DEF Shapes
    <3>2. {f.status : f \in events'[n]} = {f.status : f \in events[n]} \cup {s}
      BY <1>1, <3>1
    <3>3. QED
      BY <2>1, <3>1, <3>2
  <2>3. CASE n # o
    BY <1>2, <2>1, <2>3 DEF Shapes
  <2>4. QED
    BY <2>2, <2>3
<1>5. HistoryFaithful'
  BY <1>4 DEF HistoryFaithful
<1>6. QED
  BY <1>3, <1>5

\* A step leaves a cancelled or refunded order as it is, unless it delivers it.
LeftByDelivery ==
  \A o \in Orders :
    status[o] \in {"cancelled", "refunded"} /\ status'[o] # status[o] =>
      status'[o] = "delivered" /\ parcel[o] # "none"

\* A COMMIT moves the order the transaction has locked, or has just inserted:
\* from none, pending, paid or processing.
LEMMA CommitPreserves ==
  ASSUME PosInv, NEW t \in Tills, Commit(t)
  PROVE  PosInv' /\ LeftByDelivery
<1> DEFINE o == tx[t].order
<1>1. /\ Shapes /\ Passed /\ HistoryFaithful
      /\ EndsLocked(t) /\ SaleAlone(t) /\ PartialSeen(t)
  BY DEF PosInv
<1>2. /\ tx' = [tx EXCEPT ![t].step = "done"] /\ Released(t) /\ UNCHANGED <<parcel, desk>>
      /\ tx[t].step = "open" /\ ~ToLock(tx[t], o)
  BY EmptySeq DEF Commit, ToLock
<1>3. /\ tx' \in [Tills -> Transaction] /\ tx'[t].step = "done"
      /\ \A u \in Tills : tx'[u].order = tx[u].order
      /\ \A u \in Tills \ {t} : tx'[u] = tx[u]
      /\ DOMAIN lock' = Rows
      /\ \A r \in Rows, u \in Tills \ {t} : lock[r] = u => lock'[r] = u
  BY <1>1, <1>2, EndKeeps
<1>4. /\ o \in Orders
      /\ \E s \in Statuses, who \in {"sale", "cancel", "expire", "refund", "partial"} :
           /\ Record(o, s, who)
           /\ \/ passed' = [passed EXCEPT ![o] = @ \cup {s}]
              \/ s \in passed[o] /\ UNCHANGED passed
  <2>1. CASE tx[t].kind = "sale" /\ CommitSale(t)
    BY <1>1, <1>2, <2>1, Table DEF SaleAlone, CommitSale, NewStatus
  <2>2. CASE \/ tx[t].kind = "cancel" /\ CommitCancel(t)
             \/ tx[t].kind = "expire" /\ CommitExpire(t)
    BY <1>1, <1>2, <2>2, Table DEF EndsLocked, CommitCancel, CommitExpire, Undone, NewStatus
  <2>3. CASE tx[t].kind = "refund" /\ CommitRefund(t)
    BY <1>1, <1>2, <2>3, Table DEF EndsLocked, CommitRefund, NewStatus
  <2>4. CASE tx[t].kind = "partial" /\ CommitPartial(t)
    BY <1>1, <1>2, <2>4 DEF PartialSeen, CommitPartial, Shapes
  <2>5. QED
    BY <2>1, <2>2, <2>3, <2>4 DEF Commit
<1>5. \/ /\ status[o] = "none" \/ (status[o] \in {"paid", "pending", "processing"} /\ lock[o] = t)
         /\ \E s \in Statuses : /\ status' = [status EXCEPT ![o] = s]
                                /\ passed' = [passed EXCEPT ![o] = @ \cup {s}]
         /\ \A u \in Tills \ {t} : status[o] = "none" => tx[u].order # o
      \/ UNCHANGED <<status, passed>>
  <2>1. CASE tx[t].kind = "sale" /\ CommitSale(t)
    BY <1>1, <1>2, <2>1, Table DEF SaleAlone, CommitSale, NewStatus
  <2>2. CASE \/ tx[t].kind = "cancel" /\ CommitCancel(t)
             \/ tx[t].kind = "expire" /\ CommitExpire(t)
    BY <1>1, <1>2, <2>2, Table DEF EndsLocked, CommitCancel, CommitExpire, Undone, NewStatus
  <2>3. CASE tx[t].kind = "refund" /\ CommitRefund(t)
    BY <1>1, <1>2, <2>3, Table DEF EndsLocked, CommitRefund, NewStatus
  <2>4. CASE tx[t].kind = "partial" /\ CommitPartial(t)
    BY <2>4 DEF CommitPartial
  <2>5. QED
    BY <2>1, <2>2, <2>3, <2>4 DEF Commit
<1>6. sale' \in [Orders -> Sale]
  <2>1. [lines |-> tx[t].lines, coupon |-> tx[t].coupon] \in Sale
    BY <1>1 DEF Shapes, Transaction, Sale
  <2>2. QED
    BY <1>1, <2>1 DEF Shapes, Commit, CommitSale, CommitCancel, CommitExpire, Undone,
      CommitRefund, CommitPartial
<1>7. /\ HistoryFaithful'
      /\ events' \in [Orders -> SUBSET Event] /\ passed' \in [Orders -> SUBSET Statuses]
      /\ \A n \in Orders : passed[n] \subseteq passed'[n]
  BY <1>1, <1>2, <1>4, RecordedKeeps
<1> HIDE DEF o
<1>8. /\ status' \in [Orders -> Statuses \cup {"none"}]
      /\ \A n \in Orders : status[n] # "none" => status'[n] # "none"
      /\ \A n \in Orders \ {o} : status'[n] = status[n]
  BY <1>1, <1>4, <1>5, Table DEF Shapes
<1>9. Shapes'
  BY <1>1, <1>2, <1>3, <1>6, <1>7, <1>8 DEF Shapes
<1>10. Passed'
  BY <1>1, <1>2, <1>4, <1>5, <1>7, <1>8 DEF Passed, Shapes
<1>11. EndsLocked(t)' /\ SaleAlone(t)' /\ PartialSeen(t)'
  BY <1>3 DEF EndsLocked, SaleAlone, PartialSeen
<1>12. ASSUME NEW u \in Tills \ {t}
       PROVE  EndsLocked(u)' /\ SaleAlone(u)' /\ PartialSeen(u)'
  <2>1. EndsLocked(u) /\ SaleAlone(u) /\ PartialSeen(u)
    BY DEF PosInv
  <2>2. EndsLocked(u)'
    <3>1. SUFFICES ASSUME tx[u].step = "open", tx[u].kind \in {"cancel", "expire", "refund"},
                          ~ToLock(tx[u], tx[u].order)
                   PROVE  lock'[tx[u].order] = u /\ status'[tx[u].order] = tx[u].from
      BY <1>3, <2>1 DEF EndsLocked
    <3>2. /\ tx[u].order \in Orders /\ tx[u].order \in Rows
          /\ lock[tx[u].order] = u /\ status[tx[u].order] = tx[u].from
      BY <2>1, <3>1, Ids DEF EndsLocked
    <3>3. lock'[tx[u].order] = u
      BY <1>3, <3>2
    <3>4. tx[u].order # o \/ UNCHANGED status
      BY <1>5, <3>2
    <3>5. QED
      BY <1>8, <3>2, <3>3, <3>4
  <2>3. SaleAlone(u)'
    <3>1. SUFFICES ASSUME tx[u].step = "open", tx[u].kind = "sale"
                   PROVE  SaleAlone(u)'
      BY <1>3 DEF SaleAlone
    <3>2. tx[u].order \in Orders /\ status[tx[u].order] = "none"
      BY <2>1, <3>1 DEF SaleAlone
    <3>3. tx[u].order # o \/ UNCHANGED status
      BY <1>5, <3>2
    <3>4. QED
      BY <1>3, <1>8, <2>1, <3>2, <3>3 DEF SaleAlone
  <2>4. PartialSeen(u)'
    BY <1>3, <1>7, <2>1 DEF PartialSeen
  <2>5. QED
    BY <2>2, <2>3, <2>4
<1>13. \A d \in Desks : DeskHolds(d)'
  BY <1>2, <1>8, DeskKept DEF PosInv
<1>14. LeftByDelivery
  BY <1>5, <1>8 DEF LeftByDelivery
<1>15. QED
  BY <1>7, <1>9, <1>10, <1>11, <1>12, <1>13, <1>14 DEF PosInv

-----------------------------------------------------------------------------
\* The back office.

\* The point of sale goes on holding what it holds.
LEMMA TillsKept ==
  ASSUME PosInv, UNCHANGED <<tx, lock>>,
         \A o \in Orders : /\ passed[o] \subseteq passed'[o]
                           /\ status'[o] = status[o] \/ (lock[o] = NoOne /\ status[o] # "none")
  PROVE  \A t \in Tills : EndsLocked(t)' /\ SaleAlone(t)' /\ PartialSeen(t)'
<1> SUFFICES ASSUME NEW t \in Tills
             PROVE  EndsLocked(t)' /\ SaleAlone(t)' /\ PartialSeen(t)'
  OBVIOUS
<1>1. EndsLocked(t) /\ SaleAlone(t) /\ PartialSeen(t)
  BY DEF PosInv
<1>2. EndsLocked(t)'
  BY <1>1, Ids DEF EndsLocked, ToLock
<1>3. SaleAlone(t)'
  BY <1>1 DEF SaleAlone
<1>4. PartialSeen(t)'
  BY <1>1 DEF PartialSeen
<1>5. QED
  BY <1>2, <1>3, <1>4

\* A request of the back office goes to its next statement, and no event or
\* status of an order is written.
LEMMA DeskMoves ==
  ASSUME PosInv, NEW d \in Desks, NEW q \in DeskRequest, desk' = [desk EXCEPT ![d] = q],
         UNCHANGED <<status, sale, events, tx, lock, passed>>,
         parcel' \in [Orders -> Parcels],
         \A o \in Orders : /\ parcel[o] # "none" => parcel'[o] # "none"
                           /\ parcel'[o] # "none" => status[o] # "none",
         DeskHolds(d)',
         \/ desk[d].step \notin {"moved", "lost"} /\ q.step \notin {"moved", "lost"}
         \/ /\ desk[d].step = "moved" /\ q.step = "lost"
            /\ q.order = desk[d].order /\ q.to = desk[d].to
  PROVE  PosInv' /\ LeftByDelivery
<1>1. Shapes /\ Passed /\ HistoryFaithful
  BY DEF PosInv
<1>2. /\ desk' \in [Desks -> DeskRequest] /\ desk'[d] = q
      /\ \A x \in Desks \ {d} : desk'[x] = desk[x]
  BY <1>1 DEF Shapes
<1>3. Shapes' /\ Passed'
  BY <1>1, <1>2 DEF Shapes, Passed
<1>4. \A t \in Tills : EndsLocked(t)' /\ SaleAlone(t)' /\ PartialSeen(t)'
  BY TillsKept
<1>5. \A x \in Desks : DeskHolds(x)'
  BY <1>2, DeskKept DEF PosInv
<1>6. HistoryFaithful'
  BY <1>1, <1>2, HistoryKept
<1>7. LeftByDelivery
  BY DEF LeftByDelivery
<1>8. QED
  BY <1>3, <1>4, <1>5, <1>6, <1>7 DEF PosInv

LEMMA RestTyped == AtRest \in DeskRequest /\ AtRest.step = "idle"
BY DEF AtRest, DeskRequest, Parcels

LEMMA StepWritten ==
  ASSUME NEW k \in DeskRequest, NEW s \in {"reread", "moving", "moved", "lost"}
  PROVE  LET q == [k EXCEPT !.step = s]
         IN  q \in DeskRequest /\ q.step = s /\ q.kind = k.kind /\ q.order = k.order
             /\ q.from = k.from /\ q.to = k.to
BY DEF DeskRequest

LEMMA AskPreserves ==
  ASSUME PosInv, NEW d \in Desks, NEW o \in Orders,
         \/ BeginShipment(d, o)
         \/ \E s \in ParcelTargets : BeginDelivery(d, o, s)
         \/ \E s \in Targets : BeginChange(d, o, s)
  PROVE  PosInv' /\ LeftByDelivery
<1>1. Shapes /\ Passed
  BY DEF PosInv
<1>2. ASSUME NEW kind \in {"shipment", "delivery", "admin"}, NEW from \in Statuses \cup {"none"},
             NEW to \in Statuses \cup Parcels, NEW step \in {"read", "moving"},
             Ask(d, kind, o, from, to, step), status[o] # "none",
             \/ kind = "shipment" /\ to = "shipped" /\ from \in {"paid", "processing"}
             \/ kind = "delivery" /\ parcel[o] # "none" /\ to \in ParcelStatuses /\ step = "read"
             \/ kind = "admin" /\ from \in Statuses /\ to \in ValidTransitions[from]
      PROVE  PosInv' /\ LeftByDelivery
  <2> DEFINE q == [step |-> step, kind |-> kind, order |-> o, from |-> from, to |-> to]
  <2>1. /\ q \in DeskRequest /\ q.step = step /\ q.kind = kind /\ q.order = o
        /\ q.from = from /\ q.to = to
    BY DEF DeskRequest
  <2>2. /\ desk' = [desk EXCEPT ![d] = q] /\ UNCHANGED <<table, tx, lock>>
        /\ desk[d].step = "idle"
    BY <1>2, RestTyped DEF Ask
  <2> HIDE DEF q
  <2>3. desk'[d] = q
    BY <1>1, <2>2 DEF Shapes
  <2>4. DeskHolds(d)'
    BY <1>2, <2>1, <2>2, <2>3 DEF DeskHolds, table
  <2>5. parcel' \in [Orders -> Parcels]
        /\ \A n \in Orders : /\ parcel[n] # "none" => parcel'[n] # "none"
                             /\ parcel'[n] # "none" => status[n] # "none"
    BY <1>1, <2>2 DEF Shapes, Passed, table
  <2>6. UNCHANGED <<status, sale, events, tx, lock, passed>>
    BY <2>2 DEF table
  <2>7. QED
    BY <2>1, <2>2, <2>4, <2>5, <2>6, DeskMoves
<1>3. CASE BeginShipment(d, o)
  BY <1>2, <1>3, Table DEF BeginShipment
<1>4. ASSUME NEW s \in ParcelTargets, BeginDelivery(d, o, s)
      PROVE  PosInv' /\ LeftByDelivery
  <2>1. s \in ParcelStatuses /\ s \in Parcels
    BY PosAssumption DEF Parcels
  <2>2. QED
    BY <1>1, <1>2, <1>4, <2>1 DEF BeginDelivery, Passed
<1>5. ASSUME NEW s \in Targets, BeginChange(d, o, s)
      PROVE  PosInv' /\ LeftByDelivery
  <2>1. status[o] \in Statuses /\ s \in ValidTransitions[status[o]] /\ s \in Statuses
    BY <1>1, <1>5, PosAssumption DEF BeginChange, Shapes
  <2>2. QED
    BY <1>2, <1>5, <2>1, Table DEF BeginChange
<1>6. QED
  BY <1>3, <1>4, <1>5

LEMMA ShipmentPreserves ==
  ASSUME PosInv, NEW d \in Desks,
         StoreShipment(d) \/ SaveShipment(d) \/ RereadOrder(d) \/ Crash(d)
  PROVE  PosInv' /\ LeftByDelivery
<1>1. Shapes /\ Passed /\ DeskHolds(d) /\ desk[d] \in DeskRequest
  BY DEF PosInv, Shapes
<1>2. ASSUME desk' = [desk EXCEPT ![d] = AtRest], desk[d].step \notin {"moved", "lost"},
             UNCHANGED <<status, sale, events, tx, lock, passed>>,
             parcel' \in [Orders -> Parcels],
             \A o \in Orders : /\ parcel[o] # "none" => parcel'[o] # "none"
                               /\ parcel'[o] # "none" => status[o] # "none"
      PROVE  PosInv' /\ LeftByDelivery
  <2>1. DeskHolds(d)'
    BY <1>1, <1>2, RestTyped DEF DeskHolds, Shapes
  <2>2. QED
    BY <1>2, <2>1, RestTyped, DeskMoves
<1>3. CASE StoreShipment(d)
  <2> DEFINE o == desk[d].order
             q == [desk[d] EXCEPT !.step = "moving"]
  <2>1. /\ desk[d].step = "read" /\ desk[d].kind = "shipment"
        /\ UNCHANGED <<status, sale, events, tx, lock, passed>>
        /\ o \in Orders /\ status[o] # "none"
        /\ desk[d].to = "shipped" /\ desk[d].from \in {"paid", "processing"}
    BY <1>1, <1>3 DEF StoreShipment, DeskHolds
  <2>2. CASE parcel' = [parcel EXCEPT ![o] = "shipped"] /\ desk' = [desk EXCEPT ![d].step = "moving"]
    <3>1. /\ q \in DeskRequest /\ q.step = "moving" /\ q.kind = "shipment" /\ q.order = o
          /\ q.from = desk[d].from /\ q.to = "shipped"
      BY <1>1, <2>1, StepWritten
    <3>2. desk' = [desk EXCEPT ![d] = q]
      BY <2>2
    <3> HIDE DEF q
    <3>3. desk'[d] = q
      BY <1>1, <3>2 DEF Shapes
    <3>4. parcel' \in [Orders -> Parcels]
          /\ \A n \in Orders : /\ parcel[n] # "none" => parcel'[n] # "none"
                               /\ parcel'[n] # "none" => status[n] # "none"
      BY <1>1, <2>1, <2>2 DEF Shapes, Passed, Parcels, ParcelStatuses
    <3>5. DeskHolds(d)'
      BY <2>1, <3>1, <3>3 DEF DeskHolds
    <3>6. QED
      BY <2>1, <3>1, <3>2, <3>4, <3>5, DeskMoves
  <2>3. CASE desk' = [desk EXCEPT ![d] = AtRest] /\ UNCHANGED parcel
    BY <1>1, <1>2, <2>1, <2>3 DEF Shapes, Passed
  <2>4. QED
    BY <1>3, <2>2, <2>3 DEF StoreShipment
<1>4. CASE SaveShipment(d)
  <2> DEFINE o == desk[d].order
             q == [desk[d] EXCEPT !.step = "reread"]
  <2>1. /\ desk[d].step = "read" /\ desk[d].kind = "delivery"
        /\ UNCHANGED <<status, sale, events, tx, lock, passed>>
        /\ o \in Orders /\ status[o] # "none" /\ desk[d].to \in ParcelStatuses
        /\ parcel' = [parcel EXCEPT ![o] = desk[d].to]
    BY <1>1, <1>4 DEF SaveShipment, DeskHolds
  <2>2. parcel' \in [Orders -> Parcels] /\ parcel'[o] # "none"
        /\ \A n \in Orders : /\ parcel[n] # "none" => parcel'[n] # "none"
                             /\ parcel'[n] # "none" => status[n] # "none"
    BY <1>1, <2>1 DEF Shapes, Passed, Parcels, ParcelStatuses
  <2>3. CASE desk[d].to = "delivered"
    <3>1. /\ q \in DeskRequest /\ q.step = "reread" /\ q.kind = "delivery" /\ q.order = o
          /\ q.to = "delivered"
      BY <1>1, <2>1, <2>3, StepWritten
    <3>2. desk' = [desk EXCEPT ![d] = q]
      BY <1>4, <2>3 DEF SaveShipment
    <3> HIDE DEF q
    <3>3. desk'[d] = q
      BY <1>1, <3>2 DEF Shapes
    <3>4. DeskHolds(d)'
      BY <2>1, <2>2, <2>3, <3>1, <3>3 DEF DeskHolds
    <3>5. QED
      BY <2>1, <2>2, <3>1, <3>2, <3>4, DeskMoves
  <2>4. CASE desk[d].to # "delivered"
    <3>1. desk' = [desk EXCEPT ![d] = AtRest]
      BY <1>4, <2>4 DEF SaveShipment
    <3>2. QED
      BY <1>2, <2>1, <2>2, <3>1
  <2>5. QED
    BY <2>3, <2>4
<1>5. CASE RereadOrder(d)
  <2> DEFINE o == desk[d].order
             k == [desk[d] EXCEPT !.step = "moving"]
             q == [k EXCEPT !.from = status[o]]
  <2>1. /\ desk[d].step = "reread" /\ UNCHANGED <<table, tx, lock>>
        /\ o \in Orders /\ status[o] \in Statuses
    BY <1>1, <1>5 DEF RereadOrder, DeskHolds, Shapes
  <2>2. /\ k \in DeskRequest /\ k.step = "moving" /\ k.kind = desk[d].kind /\ k.order = o
        /\ k.from = desk[d].from /\ k.to = desk[d].to
    BY <1>1, StepWritten
  <2>3. desk' = [desk EXCEPT ![d] = q]
    BY <1>5 DEF RereadOrder
  <2> HIDE DEF k
  <2>4. /\ q \in DeskRequest /\ q.step = "moving" /\ q.kind = desk[d].kind /\ q.order = o
        /\ q.from = status[o] /\ q.to = desk[d].to
    BY <2>1, <2>2 DEF DeskRequest
  <2> HIDE DEF q
  <2>5. desk'[d] = q
    BY <1>1, <2>3 DEF Shapes
  <2>6. desk[d].kind = "delivery"
    BY <1>1, <1>5 DEF RereadOrder, DeskHolds
  <2>7. DeskHolds(d)'
    BY <1>1, <2>1, <2>4, <2>5, <2>6 DEF DeskHolds, table
  <2>8. UNCHANGED <<status, sale, events, tx, lock, passed>> /\ parcel' \in [Orders -> Parcels]
        /\ \A n \in Orders : /\ parcel[n] # "none" => parcel'[n] # "none"
                             /\ parcel'[n] # "none" => status[n] # "none"
    BY <1>1, <2>1 DEF table, Shapes, Passed
  <2>9. QED
    BY <2>1, <2>3, <2>4, <2>7, <2>8, DeskMoves
<1>6. CASE Crash(d)
  <2>1. UNCHANGED <<status, sale, events, tx, lock, passed>> /\ parcel' \in [Orders -> Parcels]
        /\ \A n \in Orders : /\ parcel[n] # "none" => parcel'[n] # "none"
                             /\ parcel'[n] # "none" => status[n] # "none"
    BY <1>1, <1>6 DEF Crash, table, Shapes, Passed
  <2>2. CASE desk[d].step = "moved"
    <3> DEFINE q == [desk[d] EXCEPT !.step = "lost"]
    <3>1. q \in DeskRequest /\ q.step = "lost" /\ q.order = desk[d].order /\ q.to = desk[d].to
      BY <1>1, StepWritten
    <3>2. desk' = [desk EXCEPT ![d] = q]
      BY <1>6, <2>2 DEF Crash
    <3> HIDE DEF q
    <3>3. DeskHolds(d)'
      BY <1>1, <3>1, <3>2 DEF DeskHolds, Shapes
    <3>4. QED
      BY <2>1, <2>2, <3>1, <3>2, <3>3, DeskMoves
  <2>3. CASE desk[d].step # "moved"
    BY <1>2, <1>6, <2>1, <2>3 DEF Crash
  <2>4. QED
    BY <2>2, <2>3
<1>7. QED
  BY <1>3, <1>4, <1>5, <1>6

\* A status is replaced: the WHERE holds, so it is still the one the request
\* has read, and no transaction has the order locked.
LEMMA MovePreserves ==
  ASSUME PosInv, NEW d \in Desks, MoveOrder(d)
  PROVE  PosInv' /\ LeftByDelivery
<1> DEFINE o == desk[d].order
           s == desk[d].to
<1>1. /\ Shapes /\ Passed /\ HistoryFaithful /\ DeskHolds(d) /\ desk[d] \in DeskRequest
      /\ \A t \in Tills : EndsLocked(t) /\ SaleAlone(t) /\ PartialSeen(t)
  BY DEF PosInv, Shapes
<1>2. /\ desk[d].step = "moving" /\ lock[o] = NoOne /\ o \in Orders /\ status[o] # "none"
      /\ UNCHANGED <<sale, events, parcel, tx, lock>>
  BY <1>1 DEF MoveOrder, DeskHolds
<1>3. CASE ~StillThere(d)
  <2>1. desk' = [desk EXCEPT ![d] = AtRest] /\ UNCHANGED <<status, passed>>
    BY <1>3 DEF MoveOrder, GivenUp
  <2>2. DeskHolds(d)'
    BY <1>1, <2>1, RestTyped DEF DeskHolds, Shapes
  <2>3. parcel' \in [Orders -> Parcels]
        /\ \A n \in Orders : /\ parcel[n] # "none" => parcel'[n] # "none"
                             /\ parcel'[n] # "none" => status[n] # "none"
    BY <1>1, <1>2 DEF Shapes, Passed
  <2>4. QED
    BY <1>2, <2>1, <2>2, <2>3, RestTyped, DeskMoves
<1>4. CASE StillThere(d)
  <2> DEFINE q == [desk[d] EXCEPT !.step = "moved"]
  <2>1. /\ q \in DeskRequest /\ q.step = "moved" /\ q.kind = desk[d].kind /\ q.order = o
        /\ q.from = desk[d].from /\ q.to = s
    BY <1>1, StepWritten
  <2>2. /\ desk' = [desk EXCEPT ![d] = q]
        /\ status' = [status EXCEPT ![o] = s]
        /\ passed' = [passed EXCEPT ![o] = @ \cup {s}]
    BY <1>4 DEF MoveOrder, NewStatus
  <2> HIDE DEF q
  <2>3. desk' \in [Desks -> DeskRequest] /\ desk'[d] = q /\ \A x \in Desks \ {d} : desk'[x] = desk[x]
    BY <1>1, <2>1, <2>2 DEF Shapes
  <2>4. s \in Statuses
    BY <1>1, <1>2, Table DEF DeskHolds
  <2>5. /\ status' \in [Orders -> Statuses \cup {"none"}] /\ passed' \in [Orders -> SUBSET Statuses]
        /\ status'[o] = s /\ passed'[o] = passed[o] \cup {s}
        /\ \A n \in Orders \ {o} : status'[n] = status[n] /\ passed'[n] = passed[n]
    BY <1>1, <1>2, <2>2, <2>4 DEF Shapes
  <2>6. Shapes'
    BY <1>1, <1>2, <2>3, <2>5 DEF Shapes
  <2>7. Passed'
    BY <1>1, <1>2, <2>4, <2>5, Table DEF Passed
  <2>8. \A t \in Tills : EndsLocked(t)' /\ SaleAlone(t)' /\ PartialSeen(t)'
    BY <1>2, <2>5, TillsKept
  <2>9. ASSUME NEW x \in Desks
        PROVE  DeskHolds(x)'
    <3>1. CASE x = d
      BY <1>1, <1>2, <2>1, <2>3, <2>4, <2>5, <3>1, Table DEF DeskHolds
    <3>2. CASE x # d
      <4>1. \A n \in Orders : status[n] # "none" => status'[n] # "none"
        BY <1>2, <2>4, <2>5, Table
      <4>2. QED
        BY <1>2, <2>3, <3>2, <4>1, DeskKept DEF PosInv
    <3>3. QED
      BY <3>1, <3>2
  <2>10. HistoryFaithful'
    <3> DEFINE M(n) == {x \in Desks : desk[x].order = n /\ desk[x].step \in {"moved", "lost"}}
               N(n) == {x \in Desks : desk'[x].order = n /\ desk'[x].step \in {"moved", "lost"}}
    <3> SUFFICES ASSUME NEW n \in Orders
                 PROVE  passed'[n] = {e.status : e \in events'[n]} \cup {desk'[x].to : x \in N(n)}
      BY DEF HistoryFaithful
    <3>1. passed[n] = {e.status : e \in events[n]} \cup {desk[x].to : x \in M(n)}
      BY <1>1 DEF HistoryFaithful
    <3>2. CASE n = o
      <4>1. N(n) = M(n) \cup {d} /\ d \notin M(n)
        BY <1>2, <2>1, <2>3, <3>2
      <4>2. {desk'[x].to : x \in N(n)} = {desk[x].to : x \in M(n)} \cup {s}
        BY <2>1, <2>3, <4>1
      <4>3. QED
        BY <1>2, <2>5, <3>1, <3>2, <4>2
    <3>3. CASE n # o
      <4>1. N(n) = M(n) /\ d \notin M(n)
        BY <1>2, <2>1, <2>3, <3>3
      <4>2. {desk'[x].to : x \in N(n)} = {desk[x].to : x \in M(n)}
        BY <2>3, <4>1
      <4>3. QED
        BY <1>2, <2>5, <3>1, <3>3, <4>2
    <3>4. QED
      BY <3>2, <3>3
  <2>11. LeftByDelivery
    <3>1. status[o] = desk[d].from
      BY <1>4 DEF StillThere
    <3>2. status[o] \in {"cancelled", "refunded"} => s = "delivered" /\ parcel[o] # "none"
      BY <1>1, <1>2, <3>1, Table DEF DeskHolds
    <3>3. QED
      BY <2>5, <3>2 DEF LeftByDelivery
  <2>12. QED
    BY <2>6, <2>7, <2>8, <2>9, <2>10, <2>11 DEF PosInv
<1>5. QED
  BY <1>3, <1>4

\* The event of a change whose UPDATE went through.
LEMMA RecordPreserves ==
  ASSUME PosInv, NEW d \in Desks, RecordMove(d)
  PROVE  PosInv' /\ LeftByDelivery
<1> DEFINE o == desk[d].order
           s == desk[d].to
           who == IF desk[d].kind = "admin" THEN "admin" ELSE "shipment"
           e == [status |-> s, by |-> who]
<1>1. Shapes /\ Passed /\ HistoryFaithful /\ DeskHolds(d)
  BY DEF PosInv
<1>2. /\ desk[d].step = "moved" /\ o \in Orders
      /\ desk' = [desk EXCEPT ![d] = AtRest] /\ events' = [events EXCEPT ![o] = @ \cup {e}]
      /\ UNCHANGED <<status, sale, parcel, tx, lock, passed>>
  BY <1>1 DEF RecordMove, DeskHolds, Record
<1>3. s \in Statuses
  BY <1>1, <1>2, Table DEF DeskHolds
<1>4. e \in Event /\ e.status = s
  BY <1>3 DEF Event
<1> HIDE DEF e
<1>5. desk' \in [Desks -> DeskRequest] /\ desk'[d] = AtRest /\ \A x \in Desks \ {d} : desk'[x] = desk[x]
  BY <1>1, <1>2, RestTyped DEF Shapes
<1>6. events' \in [Orders -> SUBSET Event] /\ events'[o] = events[o] \cup {e}
      /\ \A n \in Orders \ {o} : events'[n] = events[n]
  BY <1>1, <1>2, <1>4 DEF Shapes
<1>7. Shapes' /\ Passed'
  BY <1>1, <1>2, <1>5, <1>6 DEF Shapes, Passed
<1>8. \A t \in Tills : EndsLocked(t)' /\ SaleAlone(t)' /\ PartialSeen(t)'
  BY <1>2, TillsKept
<1>9. \A x \in Desks : DeskHolds(x)'
  <2>1. DeskHolds(d)'
    BY <1>5, RestTyped DEF DeskHolds
  <2>2. QED
    BY <1>2, <1>5, <2>1, DeskKept DEF PosInv
<1>10. HistoryFaithful'
  <2> DEFINE M(n) == {x \in Desks : desk[x].order = n /\ desk[x].step \in {"moved", "lost"}}
             N(n) == {x \in Desks : desk'[x].order = n /\ desk'[x].step \in {"moved", "lost"}}
  <2> SUFFICES ASSUME NEW n \in Orders
               PROVE  passed'[n] = {f.status : f \in events'[n]} \cup {desk'[x].to : x \in N(n)}
    BY DEF HistoryFaithful
  <2>1. passed[n] = {f.status : f \in events[n]} \cup {desk[x].to : x \in M(n)}
    BY <1>1 DEF HistoryFaithful
  <2>2. CASE n = o
    <3>1. M(n) = N(n) \cup {d} /\ d \notin N(n)
      BY <1>2, <1>5, <2>2, RestTyped
    <3>2. {desk[x].to : x \in M(n)} = {desk'[x].to : x \in N(n)} \cup {s}
      BY <1>5, <3>1
    <3>3. {f.status : f \in events'[n]} = {f.status : f \in events[n]} \cup {s}
      BY <1>4, <1>6, <2>2
    <3>4. QED
      BY <1>2, <2>1, <3>2, <3>3
  <2>3. CASE n # o
    <3>1. M(n) = N(n) /\ d \notin M(n)
      BY <1>2, <1>5, <2>3, RestTyped
    <3>2. {desk[x].to : x \in M(n)} = {desk'[x].to : x \in N(n)}
      BY <1>5, <3>1
    <3>3. QED
      BY <1>2, <1>6, <2>1, <2>3, <3>2
  <2>4. QED
    BY <2>2, <2>3
<1>11. LeftByDelivery
  BY <1>2 DEF LeftByDelivery
<1>12. QED
  BY <1>7, <1>8, <1>9, <1>10, <1>11 DEF PosInv

-----------------------------------------------------------------------------
LEMMA PosStarts == Init => PosInv
<1> SUFFICES ASSUME Init PROVE PosInv
  OBVIOUS
<1>1. NoTx \in Transaction /\ NoTx.step = "idle"
  BY EmptySeq DEF NoTx, Transaction
<1>2. NoSale \in Sale
  BY EmptySeq DEF NoSale, Sale
<1>3. Shapes
  BY <1>1, <1>2, RestTyped DEF Init, Shapes, Parcels
<1>4. Passed
  BY DEF Init, Passed
<1>5. \A t \in Tills : EndsLocked(t) /\ SaleAlone(t) /\ PartialSeen(t)
  BY <1>1 DEF Init, EndsLocked, SaleAlone, PartialSeen
<1>6. \A d \in Desks : DeskHolds(d)
  BY RestTyped DEF Init, DeskHolds
<1>7. HistoryFaithful
  BY RestTyped DEF Init, HistoryFaithful
<1>8. QED
  BY <1>3, <1>4, <1>5, <1>6, <1>7 DEF PosInv

LEMMA PosSteps == PosInv /\ [Next]_vars => PosInv' /\ LeftByDelivery
<1> SUFFICES ASSUME PosInv, [Next]_vars
             PROVE  PosInv' /\ LeftByDelivery
  OBVIOUS
<1>1. ASSUME NEW t \in Tills,
             \/ \E o \in Orders :
                  \/ \E r \in Requests : BeginSale(t, o, r)
                  \/ BeginCancel(t, o) \/ BeginExpire(t, o) \/ BeginRefund(t, o)
                  \/ \E l \in Parts : BeginPartial(t, o, l)
             \/ LockRow(t) \/ RejectRow(t) \/ FailTx(t) \/ BreakDeadlock(t)
      PROVE  PosInv' /\ LeftByDelivery
  <2>1. UNCHANGED status
    BY <1>1 DEF BeginSale, BeginUndoing, BeginCancel, BeginExpire, BeginRefund, BeginPartial,
      Begin, LockRow, RejectRow, FailTx, BreakDeadlock, Rollback, table
  <2>2. LeftByDelivery
    BY <2>1 DEF LeftByDelivery
  <2>3. PosInv'
    BY <1>1, BeginningsPreserve, LockPreserves, RollbackPreserves
      DEF RejectRow, FailTx, BreakDeadlock
  <2>4. QED
    BY <2>2, <2>3
<1>2. ASSUME NEW d \in Desks,
             \/ \E o \in Orders :
                  \/ BeginShipment(d, o)
                  \/ \E s \in ParcelTargets : BeginDelivery(d, o, s)
                  \/ \E s \in Targets : BeginChange(d, o, s)
             \/ StoreShipment(d) \/ SaveShipment(d) \/ RereadOrder(d) \/ Crash(d)
             \/ MoveOrder(d) \/ RecordMove(d)
      PROVE  PosInv' /\ LeftByDelivery
  BY <1>2, AskPreserves, ShipmentPreserves, MovePreserves, RecordPreserves
<1>3. CASE UNCHANGED vars
  <2>1. Shapes' /\ Passed'
    BY <1>3 DEF vars, PosInv, Shapes, Passed
  <2>2. \A t \in Tills : EndsLocked(t)' /\ SaleAlone(t)' /\ PartialSeen(t)'
    BY <1>3 DEF vars, PosInv, EndsLocked, SaleAlone, PartialSeen, ToLock
  <2>3. \A d \in Desks : DeskHolds(d)'
    BY <1>3 DEF vars, PosInv, DeskHolds
  <2>4. HistoryFaithful'
    BY <1>3, HistoryKept DEF vars, PosInv
  <2>5. LeftByDelivery
    BY <1>3 DEF vars, LeftByDelivery
  <2>6. QED
    BY <2>1, <2>2, <2>3, <2>4, <2>5 DEF PosInv
<1>4. QED
  BY <1>1, <1>2, <1>3, CommitPreserves DEF Next

-----------------------------------------------------------------------------
\* The coupons.

Cancelled(o) == \E e \in events[o] : e.by \in {"cancel", "expire"}
Holders(c) == {o \in Orders : sale[o].coupon = c /\ ~Cancelled(o)}

\* An order that is not there has no coupon; one that was cancelled stays so,
\* or is delivered.
RowsOfCoupons ==
  /\ uses \in [Coupons -> Nat]
  /\ \A c \in Coupons : uses[c] = Cardinality(Holders(c)) /\ uses[c] <= MaxUses[c]
  /\ \A o \in Orders : status[o] = "none" => sale[o].coupon = NoCoupon
  /\ \A o \in Orders : Cancelled(o) => status[o] \in {"cancelled", "delivered"}

\* A sale has locked its coupon with a use left, or has yet to lock it.
UseLeft(t) ==
  tx[t].step = "open" /\ tx[t].kind = "sale" /\ tx[t].coupon # NoCoupon =>
    \/ ToLock(tx[t], tx[t].coupon)
    \/ lock[tx[t].coupon] = t /\ uses[tx[t].coupon] < MaxUses[tx[t].coupon]

\* A cancellation or an expiration gives back the coupon of its order.
CouponOfOrder(t) ==
  tx[t].step = "open" /\ tx[t].kind \in {"cancel", "expire"} =>
    /\ status[tx[t].order] # "none"
    /\ tx[t].coupon = sale[tx[t].order].coupon

CouponInv == RowsOfCoupons /\ \A t \in Tills : UseLeft(t) /\ CouponOfOrder(t)

\* No step but a COMMIT of a sale or a cancellation disturbs the counters.
LEMMA CounterKept ==
  ASSUME RowsOfCoupons, UNCHANGED <<uses, sale>>,
         \A o \in Orders :
           /\ Cancelled(o)' <=> Cancelled(o)
           /\ \/ status'[o] = status[o]
              \/ /\ status'[o] # "none" /\ status[o] # "none"
                 /\ Cancelled(o) => status'[o] \in {"cancelled", "delivered"}
  PROVE  RowsOfCoupons'
<1>1. ASSUME NEW c \in Coupons
      PROVE  Holders(c)' = Holders(c)
  BY DEF Holders
<1>2. QED
  BY <1>1 DEF RowsOfCoupons

LEMMA TillCouponsKept ==
  ASSUME PosInv, CouponInv, NEW t \in Tills, UNCHANGED <<uses, sale>>, tx'[t] = tx[t],
         \A r \in Rows : lock[r] = t => lock'[r] = t,
         \A o \in Orders : status[o] # "none" => status'[o] # "none"
  PROVE  UseLeft(t)' /\ CouponOfOrder(t)'
<1>1. tx[t] \in Transaction
  BY DEF PosInv, Shapes
<1>2. tx[t].coupon # NoCoupon => tx[t].coupon \in Rows
  BY <1>1 DEF Transaction, Rows
<1>3. UseLeft(t)'
  BY <1>2 DEF CouponInv, UseLeft, ToLock
<1>4. EndsLocked(t) /\ CouponOfOrder(t)
  BY DEF PosInv, CouponInv
<1>5. CouponOfOrder(t)'
  BY <1>4 DEF CouponOfOrder, EndsLocked
<1>6. QED
  BY <1>3, <1>5

\* Opening a transaction.
LEMMA BeginKeepsCoupons ==
  ASSUME PosInv, CouponInv, NEW t \in Tills, NEW o \in Orders,
         \/ \E r \in Requests : BeginSale(t, o, r)
         \/ BeginCancel(t, o) \/ BeginExpire(t, o)
         \/ BeginRefund(t, o)
         \/ \E l \in Parts : BeginPartial(t, o, l)
  PROVE  CouponInv'
<1>1. Shapes
  BY DEF PosInv
<1>2. UNCHANGED <<table, lock, desk>> /\ \A u \in Tills \ {t} : tx'[u] = tx[u]
  BY <1>1 DEF Shapes, BeginSale, BeginUndoing, BeginCancel, BeginExpire, BeginRefund,
    BeginPartial, Begin
<1>3. RowsOfCoupons'
  BY <1>2, CounterKept DEF table, CouponInv, Cancelled
<1>4. \A u \in Tills \ {t} : UseLeft(u)' /\ CouponOfOrder(u)'
  BY <1>2, TillCouponsKept DEF table
<1>5. ASSUME NEW kind, NEW from, NEW lines, NEW c, NEW todo,
             Begin(t, kind, o, from, lines, c, todo),
             kind = "sale" /\ c # NoCoupon => \E i \in 1..Len(todo) : todo[i] = c,
             kind \in {"cancel", "expire"} => status[o] # "none" /\ c = sale[o].coupon
      PROVE  CouponInv'
  <2> DEFINE q == [step |-> "open", kind |-> kind, order |-> o, from |-> from,
                   lines |-> lines, coupon |-> c, todo |-> todo]
  <2>1. q.kind = kind /\ q.order = o /\ q.coupon = c /\ q.todo = todo
    OBVIOUS
  <2>2. tx' = [tx EXCEPT ![t] = q]
    BY <1>5 DEF Begin
  <2> HIDE DEF q
  <2>3. tx'[t] = q
    BY <1>1, <2>2 DEF Shapes
  <2>4. UseLeft(t)'
    BY <1>5, <2>1, <2>3 DEF UseLeft, ToLock
  <2>5. CouponOfOrder(t)'
    BY <1>2, <1>5, <2>1, <2>3 DEF CouponOfOrder, table
  <2>6. QED
    BY <1>3, <1>4, <2>4, <2>5 DEF CouponInv
<1>6. ASSUME NEW r \in Requests, BeginSale(t, o, r)
      PROVE  CouponInv'
  <2> DEFINE rest == ProductRows(Sorted(r.lines))
             todo == rest \o CouponRow(r.coupon)
  <2>1. r.lines \in Seq(Line) /\ r.coupon \in Coupons \cup {NoCoupon}
    BY PosAssumption
  <2>2. rest \in Seq(Rows) /\ CouponRow(r.coupon) \in Seq(Rows)
    BY <2>1, ListsAreSequences
  <2>3. ASSUME r.coupon # NoCoupon
        PROVE  \E i \in 1..Len(todo) : todo[i] = r.coupon
    <3>1. CouponRow(r.coupon) = <<r.coupon>> /\ r.coupon \in Rows
      BY <2>1, <2>3, Ids DEF CouponRow
    <3> HIDE DEF rest
    <3>2. <<r.coupon>> \in Seq(Rows) /\ Len(<<r.coupon>>) = 1 /\ <<r.coupon>>[1] = r.coupon
      BY <3>1
    <3>3. Len(rest) \in Nat /\ Len(rest \o <<r.coupon>>) = Len(rest) + 1
          /\ (rest \o <<r.coupon>>)[Len(rest) + 1] = r.coupon
      BY <2>2, <3>2, ConcatProperties
    <3>4. QED
      BY <3>1, <3>3
  <2>4. Begin(t, "sale", o, r.final, r.lines, r.coupon, todo)
    BY <1>6 DEF BeginSale
  <2> HIDE DEF todo
  <2>5. QED
    BY <1>5, <2>3, <2>4
<1>7. ASSUME NEW kind \in {"cancel", "expire"}, NEW from \in {"paid", "pending"},
             status[o] # "none", BeginUndoing(t, kind, o, from)
      PROVE  CouponInv'
  <2> DEFINE todo == <<o>> \o ProductRows(Sorted(sale[o].lines)) \o CouponRow(sale[o].coupon)
  <2>1. Begin(t, kind, o, from, sale[o].lines, sale[o].coupon, todo) /\ status[o] # "none"
    BY <1>7 DEF BeginUndoing
  <2> HIDE DEF todo
  <2>2. QED
    BY <1>5, <2>1
<1>8. CASE BeginRefund(t, o)
  <2> DEFINE todo == ProductRows(Sorted(sale[o].lines)) \o <<o>>
  <2>1. Begin(t, "refund", o, status[o], sale[o].lines, NoCoupon, todo)
    BY <1>8 DEF BeginRefund
  <2> HIDE DEF todo
  <2>2. QED
    BY <1>5, <2>1
<1>9. ASSUME NEW l \in Parts, BeginPartial(t, o, l)
      PROVE  CouponInv'
  BY <1>5, <1>9 DEF BeginPartial
<1>10. QED
  BY <1>6, <1>7, <1>8, <1>9 DEF BeginCancel, BeginExpire

LEMMA LockKeepsCoupons ==
  ASSUME PosInv, CouponInv, NEW t \in Tills, LockRow(t)
  PROVE  CouponInv'
<1> DEFINE h == NextRow(t)
           q == [tx[t] EXCEPT !.todo = Tail(@)]
<1>1. Shapes /\ tx[t] \in Transaction /\ tx[t].todo \in Seq(Rows) /\ tx[t].todo # <<>>
  BY DEF PosInv, Shapes, Transaction, LockRow
<1>2. /\ h = Head(tx[t].todo)
      /\ \A r : ToLock(tx[t], r) => r = h \/ \E i \in 1..Len(Tail(tx[t].todo)) : Tail(tx[t].todo)[i] = r
  BY <1>1, TailKeeps DEF NextRow, ToLock
<1>3. /\ q.step = tx[t].step /\ q.kind = tx[t].kind /\ q.coupon = tx[t].coupon
      /\ q.order = tx[t].order /\ q.todo = Tail(tx[t].todo)
  BY <1>1 DEF Transaction
<1>4. /\ tx' = [tx EXCEPT ![t] = q] /\ lock' = [lock EXCEPT ![h] = t]
      /\ UNCHANGED <<table, desk>>
  BY DEF LockRow
<1>5. /\ lock[h] \in {NoOne, t}
      /\ tx[t].kind = "sale" /\ h \in Coupons => uses[h] < MaxUses[h]
  BY <1>1 DEF LockRow, Waiting, Accepts
<1> HIDE DEF h, q
<1>6. tx'[t] = q /\ \A u \in Tills \ {t} : tx'[u] = tx[u]
  BY <1>1, <1>4 DEF Shapes
<1>7. \A r \in Rows : /\ lock[r] = t \/ r = h => lock'[r] = t
                      /\ \A u \in Tills \ {t} : lock[r] = u => lock'[r] = u
  BY <1>1, <1>4, <1>5, Ids DEF Shapes
<1>8. RowsOfCoupons'
  BY <1>4, CounterKept DEF table, CouponInv, Cancelled
<1>9. \A u \in Tills \ {t} : UseLeft(u)' /\ CouponOfOrder(u)'
  BY <1>4, <1>6, <1>7, TillCouponsKept DEF table
<1>10. UseLeft(t)'
  <2>1. SUFFICES ASSUME tx[t].step = "open", tx[t].kind = "sale", tx[t].coupon # NoCoupon,
                        ~\E i \in 1..Len(Tail(tx[t].todo)) : Tail(tx[t].todo)[i] = tx[t].coupon
                 PROVE  lock'[tx[t].coupon] = t /\ uses'[tx[t].coupon] < MaxUses[tx[t].coupon]
    BY <1>3, <1>6 DEF UseLeft, ToLock
  <2>2. tx[t].coupon \in Coupons /\ tx[t].coupon \in Rows /\ UNCHANGED uses
    BY <1>1, <1>4, <2>1 DEF Transaction, Rows, table
  <2>3. CASE tx[t].coupon = h
    BY <1>5, <1>7, <2>1, <2>2, <2>3
  <2>4. CASE tx[t].coupon # h
    BY <1>2, <1>7, <2>1, <2>2, <2>4 DEF CouponInv, UseLeft
  <2>5. QED
    BY <2>3, <2>4
<1>11. CouponOfOrder(t)'
  BY <1>3, <1>4, <1>6 DEF CouponInv, CouponOfOrder, table
<1>12. QED
  BY <1>8, <1>9, <1>10, <1>11 DEF CouponInv

LEMMA RollbackKeepsCoupons ==
  ASSUME PosInv, CouponInv, NEW t \in Tills, Rollback(t)
  PROVE  CouponInv'
<1>1. Shapes /\ tx' = [tx EXCEPT ![t].step = "failed"] /\ Released(t) /\ UNCHANGED <<table, desk>>
  BY DEF PosInv, Rollback
<1>2. /\ tx'[t].step = "failed" /\ \A u \in Tills \ {t} : tx'[u] = tx[u]
      /\ \A r \in Rows, u \in Tills \ {t} : lock[r] = u => lock'[r] = u
  BY <1>1, EndKeeps
<1>3. RowsOfCoupons'
  BY <1>1, CounterKept DEF table, CouponInv, Cancelled
<1>4. \A u \in Tills \ {t} : UseLeft(u)' /\ CouponOfOrder(u)'
  BY <1>1, <1>2, TillCouponsKept DEF table
<1>5. UseLeft(t)' /\ CouponOfOrder(t)'
  BY <1>2 DEF UseLeft, CouponOfOrder
<1>6. QED
  BY <1>3, <1>4, <1>5 DEF CouponInv

LEMMA DeskKeepsCoupons ==
  ASSUME PosInv, CouponInv, UNCHANGED <<uses, sale, tx, lock>>,
         \A o \in Orders :
           /\ Cancelled(o)' <=> Cancelled(o)
           /\ \/ status'[o] = status[o]
              \/ /\ status'[o] # "none" /\ status[o] # "none"
                 /\ Cancelled(o) => status'[o] \in {"cancelled", "delivered"}
  PROVE  CouponInv'
<1>1. RowsOfCoupons'
  BY CounterKept DEF CouponInv
<1>2. \A t \in Tills : UseLeft(t)' /\ CouponOfOrder(t)'
  BY TillCouponsKept
<1>3. QED
  BY <1>1, <1>2 DEF CouponInv

\* A COMMIT counts its sale, or takes its cancelled order off the count.
LEMMA CommitKeepsCoupons ==
  ASSUME PosInv, CouponInv, NEW t \in Tills, Commit(t)
  PROVE  CouponInv'
<1>0. PICK o, c : o = tx[t].order /\ c = tx[t].coupon
  OBVIOUS
<1> USE <1>0
<1>1. /\ Shapes /\ EndsLocked(t) /\ SaleAlone(t) /\ PartialSeen(t)
      /\ RowsOfCoupons /\ UseLeft(t) /\ CouponOfOrder(t)
  BY DEF PosInv, CouponInv
<1>2. /\ tx' = [tx EXCEPT ![t].step = "done"] /\ Released(t) /\ UNCHANGED <<parcel, desk>>
      /\ tx[t].step = "open" /\ \A r : ~ToLock(tx[t], r)
  BY EmptySeq DEF Commit, ToLock
<1>3. /\ tx'[t].step = "done" /\ \A u \in Tills \ {t} : tx'[u] = tx[u]
      /\ \A r \in Rows, u \in Tills \ {t} : lock[r] = u => lock'[r] = u
  BY <1>1, <1>2, EndKeeps
<1>4. c \in Coupons \cup {NoCoupon} /\ tx[t].lines \in Seq(Line)
  BY <1>1 DEF Shapes, Transaction
<1>5. /\ uses \in [Coupons -> Nat] /\ MaxUses \in [Coupons -> Nat]
      /\ \A x \in Coupons : x # NoCoupon /\ uses[x] \in Nat /\ MaxUses[x] \in Nat
  BY <1>1, PosAssumption DEF RowsOfCoupons
<1>10. \A x \in Coupons : IsFiniteSet(Holders(x))
  BY PosAssumption, FS_Subset DEF Holders
<1>11. \A x \in Coupons : uses[x] = Cardinality(Holders(x)) /\ uses[x] <= MaxUses[x]
  BY <1>1 DEF RowsOfCoupons
<1>6. /\ RowsOfCoupons'
      /\ \A n \in Orders : status[n] # "none" => status'[n] # "none" /\ sale'[n] = sale[n]
      /\ \A x \in Coupons : uses'[x] <= uses[x] \/ lock[x] = t
  <2>1. CASE tx[t].kind = "sale" /\ CommitSale(t)
    <3> DEFINE new == [lines |-> tx[t].lines, coupon |-> c]
               e == [status |-> tx[t].from, by |-> "sale"]
    <3>1. /\ o \in Orders /\ status[o] = "none" /\ tx[t].from \in Statuses /\ tx[t].from # "none"
          /\ sale[o].coupon = NoCoupon /\ ~Cancelled(o)
          /\ c # NoCoupon => lock[c] = t /\ uses[c] < MaxUses[c]
      BY <1>1, <1>2, <2>1, Table DEF SaleAlone, RowsOfCoupons, UseLeft
    <3>2. /\ sale' = [sale EXCEPT ![o] = new] /\ new.coupon = c
          /\ uses' = IF c = NoCoupon THEN uses ELSE [uses EXCEPT ![c] = @ + 1]
          /\ status' = [status EXCEPT ![o] = tx[t].from]
          /\ events' = [events EXCEPT ![o] = @ \cup {e}] /\ e.by = "sale"
      BY <2>1 DEF CommitSale, CouponMoved, NewStatus, Record
    <3> HIDE DEF new, e
    <3>3. /\ sale'[o] = new /\ \A n \in Orders \ {o} : sale'[n] = sale[n]
          /\ status'[o] = tx[t].from /\ \A n \in Orders \ {o} : status'[n] = status[n]
          /\ events'[o] = events[o] \cup {e} /\ \A n \in Orders \ {o} : events'[n] = events[n]
      BY <1>1, <3>1, <3>2 DEF Shapes
    <3>4. \A n \in Orders : Cancelled(n)' <=> Cancelled(n)
      BY <3>2, <3>3 DEF Cancelled
    <3>5. \A x \in Coupons \ {c} : Holders(x)' = Holders(x)
      BY <1>5, <3>1, <3>2, <3>3, <3>4 DEF Holders
    <3>6. c \in Coupons => Holders(c)' = Holders(c) \cup {o} /\ o \notin Holders(c)
      BY <1>5, <3>1, <3>2, <3>3, <3>4 DEF Holders
    <3>7. c \in Coupons => Cardinality(Holders(c)') = Cardinality(Holders(c)) + 1
      BY <1>10, <3>6, FS_AddElement
    <3>8. /\ uses' \in [Coupons -> Nat]
          /\ \A x \in Coupons \ {c} : uses'[x] = uses[x]
          /\ c \in Coupons => uses'[c] = uses[c] + 1
      BY <1>1, <1>4, <1>5, <3>2 DEF RowsOfCoupons
    <3>9. \A x \in Coupons : uses'[x] = Cardinality(Holders(x)') /\ uses'[x] <= MaxUses[x]
      <4>1. ASSUME NEW x \in Coupons, x # c
            PROVE  uses'[x] = Cardinality(Holders(x)') /\ uses'[x] <= MaxUses[x]
        BY <1>11, <3>5, <3>8, <4>1
      <4>2. CASE c \in Coupons
        <5>1. uses'[c] = Cardinality(Holders(c)')
          BY <1>11, <3>7, <3>8, <4>2
        <5>2. uses'[c] <= MaxUses[c]
          BY <1>5, <3>1, <3>8, <4>2
        <5>3. QED
          BY <4>1, <5>1, <5>2
      <4>3. CASE c \notin Coupons
        BY <4>1, <4>3
      <4>4. QED
        BY <4>2, <4>3
    <3>10. \A n \in Orders : status'[n] = "none" => sale'[n].coupon = NoCoupon
      BY <1>1, <3>1, <3>3 DEF RowsOfCoupons
    <3>11. \A n \in Orders : Cancelled(n)' => status'[n] \in {"cancelled", "delivered"}
      BY <1>1, <3>1, <3>3, <3>4 DEF RowsOfCoupons
    <3>12. RowsOfCoupons'
      BY <3>8, <3>9, <3>10, <3>11 DEF RowsOfCoupons
    <3>13. \A n \in Orders : status[n] # "none" => status'[n] # "none" /\ sale'[n] = sale[n]
      BY <3>1, <3>3
    <3>14. \A x \in Coupons : uses'[x] <= uses[x] \/ lock[x] = t
      BY <1>5, <3>1, <3>8
    <3>15. QED
      BY <3>12, <3>13, <3>14
  <2>2. ASSUME NEW who \in {"cancel", "expire"}, tx[t].kind = who, Undone(t, who)
        PROVE  /\ RowsOfCoupons'
               /\ \A n \in Orders : status[n] # "none" => status'[n] # "none" /\ sale'[n] = sale[n]
               /\ \A x \in Coupons : uses'[x] <= uses[x] \/ lock[x] = t
    <3> DEFINE e == [status |-> "cancelled", by |-> who]
    <3>1. /\ o \in Orders /\ status[o] \in {"paid", "pending", "processing"}
          /\ sale[o].coupon = c /\ ~Cancelled(o)
      BY <1>1, <1>2, <2>2 DEF EndsLocked, RowsOfCoupons, CouponOfOrder
    <3>2. /\ UNCHANGED sale
          /\ uses' = IF c = NoCoupon THEN uses
                     ELSE [uses EXCEPT ![c] = @ + (IF c # NoCoupon /\ uses[c] > 0 THEN -1 ELSE 0)]
          /\ status' = [status EXCEPT ![o] = "cancelled"]
          /\ events' = [events EXCEPT ![o] = @ \cup {e}] /\ e.by = who
      BY <2>2 DEF Undone, CouponMoved, NewStatus, Record
    <3> HIDE DEF e
    <3>3. /\ status'[o] = "cancelled" /\ \A n \in Orders \ {o} : status'[n] = status[n]
          /\ events'[o] = events[o] \cup {e} /\ \A n \in Orders \ {o} : events'[n] = events[n]
      BY <1>1, <3>1, <3>2 DEF Shapes
    <3>4. Cancelled(o)' /\ \A n \in Orders \ {o} : Cancelled(n)' <=> Cancelled(n)
      BY <3>2, <3>3 DEF Cancelled
    <3>5. \A x \in Coupons \ {c} : Holders(x)' = Holders(x)
      BY <3>1, <3>2, <3>4 DEF Holders
    <3>6. c \in Coupons => o \in Holders(c) /\ Holders(c)' = Holders(c) \ {o}
      BY <3>1, <3>2, <3>4 DEF Holders
    <3>7. c \in Coupons => Cardinality(Holders(c)') = Cardinality(Holders(c)) - 1
      BY <1>10, <3>6, FS_RemoveElement
    <3>8. c \in Coupons => uses[c] > 0
      <4>1. SUFFICES ASSUME c \in Coupons PROVE Cardinality(Holders(c)) # 0
        BY <1>5, <1>11
      <4>2. QED
        BY <1>10, <3>6, <4>1, FS_EmptySet
    <3>9. /\ uses' \in [Coupons -> Nat]
          /\ \A x \in Coupons \ {c} : uses'[x] = uses[x]
          /\ c \in Coupons => uses'[c] = uses[c] - 1
      BY <1>1, <1>4, <1>5, <3>2, <3>8 DEF RowsOfCoupons
    <3>10. \A x \in Coupons : uses'[x] = Cardinality(Holders(x)') /\ uses'[x] <= MaxUses[x]
      <4>1. ASSUME NEW x \in Coupons, x # c
            PROVE  uses'[x] = Cardinality(Holders(x)') /\ uses'[x] <= MaxUses[x]
        BY <1>11, <3>5, <3>9, <4>1
      <4>2. CASE c \in Coupons
        <5>1. uses'[c] = Cardinality(Holders(c)')
          BY <1>11, <3>7, <3>9, <4>2
        <5>2. uses'[c] <= MaxUses[c]
          BY <1>5, <1>11, <3>9, <4>2
        <5>3. QED
          BY <4>1, <5>1, <5>2
      <4>3. CASE c \notin Coupons
        BY <4>1, <4>3
      <4>4. QED
        BY <4>2, <4>3
    <3>11. \A n \in Orders : status'[n] = "none" => sale'[n].coupon = NoCoupon
      BY <1>1, <3>2, <3>3 DEF RowsOfCoupons
    <3>12. \A n \in Orders : Cancelled(n)' => status'[n] \in {"cancelled", "delivered"}
      BY <1>1, <3>3, <3>4 DEF RowsOfCoupons
    <3>13. RowsOfCoupons'
      BY <3>9, <3>10, <3>11, <3>12 DEF RowsOfCoupons
    <3>14. \A n \in Orders : status[n] # "none" => status'[n] # "none" /\ sale'[n] = sale[n]
      BY <3>2, <3>3
    <3>15. \A x \in Coupons : uses'[x] <= uses[x] \/ lock[x] = t
      BY <1>5, <3>9
    <3>16. QED
      BY <3>13, <3>14, <3>15
  <2>3. ASSUME NEW s, NEW who \in {"refund", "partial"}, Record(o, s, who), UNCHANGED <<uses, sale>>,
               \/ UNCHANGED status
               \/ /\ o \in Orders /\ status[o] \in {"paid", "pending", "processing"}
                  /\ status' = [status EXCEPT ![o] = "refunded"]
        PROVE  /\ RowsOfCoupons'
               /\ \A n \in Orders : status[n] # "none" => status'[n] # "none" /\ sale'[n] = sale[n]
               /\ \A x \in Coupons : uses'[x] <= uses[x] \/ lock[x] = t
    <3>1. \A n \in Orders : Cancelled(n)' <=> Cancelled(n)
      BY <1>1, <2>3 DEF Record, Cancelled, Shapes
    <3>2. \A n \in Orders :
            \/ status'[n] = status[n]
            \/ status'[n] # "none" /\ status[n] # "none" /\ ~Cancelled(n)
      BY <1>1, <2>3 DEF Shapes, RowsOfCoupons
    <3>3. RowsOfCoupons'
      BY <1>1, <2>3, <3>1, <3>2, CounterKept
    <3>4. QED
      BY <1>5, <2>3, <3>2, <3>3
  <2>4. CASE tx[t].kind = "refund" /\ CommitRefund(t)
    BY <1>1, <1>2, <2>3, <2>4 DEF EndsLocked, CommitRefund, NewStatus
  <2>5. CASE tx[t].kind = "partial" /\ CommitPartial(t)
    BY <2>3, <2>5 DEF CommitPartial
  <2>6. QED
    BY <2>1, <2>2, <2>4, <2>5 DEF Commit, CommitCancel, CommitExpire
<1>7. UseLeft(t)' /\ CouponOfOrder(t)'
  BY <1>3 DEF UseLeft, CouponOfOrder
<1>8. ASSUME NEW u \in Tills \ {t}
      PROVE  UseLeft(u)' /\ CouponOfOrder(u)'
  <2>1. UseLeft(u) /\ CouponOfOrder(u) /\ EndsLocked(u)
    BY DEF CouponInv, PosInv
  <2>2. UseLeft(u)'
    <3> DEFINE x == tx[u].coupon
    <3>1. SUFFICES ASSUME tx[u].step = "open", tx[u].kind = "sale", x # NoCoupon, ~ToLock(tx[u], x)
                   PROVE  lock'[x] = u /\ uses'[x] < MaxUses[x]
      BY <1>3 DEF UseLeft
    <3>2. lock[x] = u /\ uses[x] < MaxUses[x]
      BY <2>1, <3>1 DEF UseLeft
    <3>3. x \in Coupons /\ x \in Rows
      BY <1>1, <3>1 DEF Shapes, Transaction, Rows
    <3> HIDE DEF x
    <3>4. uses'[x] <= uses[x]
      BY <1>6, <3>2, <3>3
    <3>5. uses'[x] \in Nat
      BY <1>6, <3>3 DEF RowsOfCoupons
    <3>6. uses'[x] < MaxUses[x]
      BY <1>5, <3>2, <3>3, <3>4, <3>5
    <3>7. QED
      BY <1>3, <3>2, <3>3, <3>6
  <2>3. CouponOfOrder(u)'
    BY <1>3, <1>6, <2>1 DEF CouponOfOrder, EndsLocked
  <2>4. QED
    BY <2>2, <2>3
<1>9. QED
  BY <1>6, <1>7, <1>8 DEF CouponInv

\* The back office moves no coupon, and a cancelled order only to delivered.
LEMMA BackOfficeKeepsCoupons ==
  ASSUME PosInv, CouponInv, NEW d \in Desks,
         \/ \E o \in Orders :
              \/ BeginShipment(d, o)
              \/ \E s \in ParcelTargets : BeginDelivery(d, o, s)
              \/ \E s \in Targets : BeginChange(d, o, s)
         \/ StoreShipment(d) \/ SaveShipment(d) \/ RereadOrder(d) \/ Crash(d)
         \/ MoveOrder(d) \/ RecordMove(d)
  PROVE  CouponInv'
<1>1. Shapes /\ DeskHolds(d)
  BY DEF PosInv, Shapes
<1>2. UNCHANGED <<uses, sale, tx, lock>>
  BY DEF BeginShipment, BeginDelivery, BeginChange, Ask, StoreShipment, SaveShipment,
    RereadOrder, Crash, MoveOrder, RecordMove, table
<1>3. CASE MoveOrder(d) /\ StillThere(d)
  <2>0. PICK o : o = desk[d].order
    OBVIOUS
  <2> USE <2>0
  <2>1. /\ desk[d].step = "moving" /\ o \in Orders /\ status[o] = desk[d].from /\ status[o] # "none"
        /\ status' = [status EXCEPT ![o] = desk[d].to] /\ UNCHANGED events
    BY <1>1, <1>3 DEF MoveOrder, StillThere, NewStatus, DeskHolds
  <2>2. /\ desk[d].to # "none"
        /\ status[o] \in {"cancelled", "delivered"} => desk[d].to = "delivered"
    BY <1>1, <2>1, Table DEF DeskHolds, ParcelStatuses
  <2>3. Cancelled(o) => status[o] \in {"cancelled", "delivered"}
    BY <2>1 DEF CouponInv, RowsOfCoupons
  <2>4. \A n \in Orders : Cancelled(n)' <=> Cancelled(n)
    BY <2>1 DEF Cancelled
  <2>5. \A n \in Orders :
          \/ status'[n] = status[n]
          \/ /\ status'[n] # "none" /\ status[n] # "none"
             /\ Cancelled(n) => status'[n] \in {"cancelled", "delivered"}
    BY <1>1, <2>1, <2>2, <2>3 DEF Shapes
  <2>6. QED
    BY <1>2, <2>4, <2>5, DeskKeepsCoupons
<1>4. CASE RecordMove(d)
  <2>1. UNCHANGED status /\ \A n \in Orders : Cancelled(n)' <=> Cancelled(n)
    BY <1>1, <1>4 DEF RecordMove, Record, Cancelled, Shapes
  <2>2. QED
    BY <1>2, <2>1, DeskKeepsCoupons
<1>5. CASE ~RecordMove(d) /\ ~(MoveOrder(d) /\ StillThere(d))
  <2>1. UNCHANGED <<status, events>>
    BY <1>5 DEF BeginShipment, BeginDelivery, BeginChange, Ask, StoreShipment, SaveShipment,
      RereadOrder, Crash, MoveOrder, table
  <2>2. \A n \in Orders : Cancelled(n)' <=> Cancelled(n)
    BY <2>1 DEF Cancelled
  <2>3. QED
    BY <1>2, <2>1, <2>2, DeskKeepsCoupons
<1>6. QED
  BY <1>3, <1>4, <1>5

LEMMA CouponsStart == Init => CouponInv
<1> SUFFICES ASSUME Init PROVE CouponInv
  OBVIOUS
<1>1. NoCoupon \notin Coupons /\ MaxUses \in [Coupons -> Nat]
  BY PosAssumption
<1>2. \A o \in Orders : sale[o].coupon = NoCoupon /\ status[o] = "none" /\ ~Cancelled(o)
  BY DEF Init, NoSale, Cancelled
<1>3. \A c \in Coupons : Holders(c) = {}
  BY <1>1, <1>2 DEF Holders
<1>4. RowsOfCoupons
  BY <1>1, <1>2, <1>3, FS_EmptySet DEF Init, RowsOfCoupons
<1>5. \A t \in Tills : UseLeft(t) /\ CouponOfOrder(t)
  BY DEF Init, NoTx, UseLeft, CouponOfOrder
<1>6. QED
  BY <1>4, <1>5 DEF CouponInv

LEMMA CouponSteps == PosInv /\ CouponInv /\ [Next]_vars => CouponInv'
<1> SUFFICES ASSUME PosInv, CouponInv, [Next]_vars
             PROVE  CouponInv'
  OBVIOUS
<1>1. CASE UNCHANGED vars
  <2>1. \A o \in Orders : Cancelled(o)' <=> Cancelled(o)
    BY <1>1 DEF vars, Cancelled
  <2>2. QED
    BY <1>1, <2>1, DeskKeepsCoupons DEF vars
<1>2. ASSUME NEW t \in Tills, RejectRow(t) \/ FailTx(t) \/ BreakDeadlock(t)
      PROVE  CouponInv'
  BY <1>2, RollbackKeepsCoupons DEF RejectRow, FailTx, BreakDeadlock
<1>3. QED
  BY <1>1, <1>2, BeginKeepsCoupons, LockKeepsCoupons, CommitKeepsCoupons,
    BackOfficeKeepsCoupons DEF Next

-----------------------------------------------------------------------------
\* The locks.

\* The order in which every transaction but a full refund locks rows: an
\* order, then products by their ids, then a coupon.
Below(r, s) ==
  \/ r \in Orders /\ s \in Products \cup Coupons
  \/ r \in Products /\ s \in Coupons
  \/ r \in Products /\ s \in Products /\ r < s

Upto(r, s) == r = s \/ Below(r, s)
Ascending(rows) == \A i, j \in 1..Len(rows) : i < j => Upto(rows[i], rows[j])

LocksAscend(t) ==
  tx[t].step = "open" /\ tx[t].kind # "refund" =>
    /\ Ascending(tx[t].todo)
    /\ \A r \in Rows : lock[r] = t => \A i \in 1..Len(tx[t].todo) : Upto(r, tx[t].todo[i])

\* Locks are held by open transactions only.
LockInv ==
  /\ lock \in [Rows -> Tills \cup {NoOne}]
  /\ \A r \in Rows : lock[r] # NoOne => tx[lock[r]].step = "open"
  /\ \A t \in Tills : LocksAscend(t)

LEMMA BelowIsAnOrder ==
  /\ \A r : ~Below(r, r)
  /\ \A r, s, q : Below(r, s) /\ Below(s, q) => Below(r, q)
<1>1. \A r : /\ r \in Products => r \in Nat /\ r \notin Orders /\ r \notin Coupons
             /\ r \in Orders => r \notin Coupons
  BY PosAssumption
<1>2. \A r : ~Below(r, r)
  BY <1>1 DEF Below
<1>3. ASSUME NEW r, NEW s, NEW q, Below(r, s), Below(s, q)
      PROVE  Below(r, q)
  BY <1>1, <1>3 DEF Below
<1>4. QED
  BY <1>2, <1>3

\* One list after another ascends if both do, and the first is below the second.
LEMMA AscendingJoin ==
  ASSUME NEW a \in Seq(Rows), NEW b \in Seq(Rows), Ascending(a), Ascending(b),
         \A i \in 1..Len(a), j \in 1..Len(b) : Upto(a[i], b[j])
  PROVE  /\ Ascending(a \o b) /\ a \o b \in Seq(Rows)
         /\ Len(a \o b) = Len(a) + Len(b) /\ Len(a) \in Nat /\ Len(b) \in Nat
         /\ \A i \in 1..Len(a) : (a \o b)[i] = a[i]
         /\ \A j \in 1..Len(b) : (a \o b)[Len(a) + j] = b[j]
<1>1. /\ Len(a) \in Nat /\ Len(b) \in Nat
      /\ a \o b \in Seq(Rows) /\ Len(a \o b) = Len(a) + Len(b)
      /\ \A i \in 1..(Len(a) + Len(b)) : (a \o b)[i] = IF i <= Len(a) THEN a[i] ELSE b[i - Len(a)]
  BY ConcatProperties
<1>2. ASSUME NEW i \in 1..Len(a \o b), NEW j \in 1..Len(a \o b), i < j
      PROVE  Upto((a \o b)[i], (a \o b)[j])
  <2>1. CASE j <= Len(a)
    <3>1. i \in 1..Len(a) /\ j \in 1..Len(a) /\ (a \o b)[i] = a[i] /\ (a \o b)[j] = a[j]
      BY <1>1, <1>2, <2>1
    <3>2. QED
      BY <1>2, <3>1 DEF Ascending
  <2>2. CASE i <= Len(a) /\ ~(j <= Len(a))
    <3>1. i \in 1..Len(a) /\ j - Len(a) \in 1..Len(b) /\ (a \o b)[i] = a[i] /\ (a \o b)[j] = b[j - Len(a)]
      BY <1>1, <1>2, <2>2
    <3>2. QED
      BY <3>1
  <2>3. CASE ~(i <= Len(a))
    <3>1. /\ i - Len(a) \in 1..Len(b) /\ j - Len(a) \in 1..Len(b) /\ i - Len(a) < j - Len(a)
          /\ (a \o b)[i] = b[i - Len(a)] /\ (a \o b)[j] = b[j - Len(a)]
      BY <1>1, <1>2, <2>3
    <3>2. QED
      BY <3>1 DEF Ascending
  <2>4. QED
    BY <2>1, <2>2, <2>3
<1>3. \A i \in 1..Len(a) : (a \o b)[i] = a[i]
  BY <1>1
<1>4. \A j \in 1..Len(b) : (a \o b)[Len(a) + j] = b[j]
  BY <1>1
<1>5. QED
  BY <1>1, <1>2, <1>3, <1>4 DEF Ascending

\* "deadlock prevention": the products sorted, and the coupon after them.
LEMMA TillRowsAscend ==
  ASSUME NEW lines \in Seq(Line), NEW c \in Coupons \cup {NoCoupon}
  PROVE  LET todo == ProductRows(Sorted(lines)) \o CouponRow(c) IN
         /\ Ascending(ProductRows(Sorted(lines)))
         /\ todo \in Seq(Rows) /\ Ascending(todo)
         /\ \A i \in 1..Len(todo) : todo[i] \in Products \cup Coupons
         /\ \A i \in 1..Len(lines) : \E m \in 1..Len(todo) : todo[m] = lines[i].product
<1> DEFINE rows == ProductRows(Sorted(lines))
           last == CouponRow(c)
           todo == rows \o last
<1>1. /\ rows \in Seq(Rows) /\ rows \in [1..Len(lines) -> Products]
      /\ Len(rows) = Len(lines) /\ Len(lines) \in Nat
      /\ \A i \in 1..Len(lines) : \E m \in 1..Len(lines) : rows[m] = lines[i].product
      /\ \A m, k \in 1..Len(lines) : m < k => rows[m] <= rows[k]
  BY SortedRows
<1> HIDE DEF rows
<1>2. Ascending(rows)
  <2>1. SUFFICES ASSUME NEW m \in 1..Len(lines), NEW k \in 1..Len(lines), m < k
                 PROVE  Upto(rows[m], rows[k])
    BY <1>1 DEF Ascending
  <2>2. rows[m] <= rows[k] /\ rows[m] \in Products /\ rows[k] \in Products
    BY <1>1, <2>1
  <2>3. rows[m] \in Nat /\ rows[k] \in Nat
    BY <2>2, PosAssumption
  <2>4. QED
    BY <2>2, <2>3 DEF Upto, Below
<1>3. /\ last \in Seq(Rows) /\ Len(last) \in 0..1
      /\ \A j \in 1..Len(last) : last[j] \in Coupons
  BY Ids DEF CouponRow
<1> HIDE DEF last
<1>4. Ascending(last)
  BY <1>3 DEF Ascending
<1>5. \A i \in 1..Len(rows), j \in 1..Len(last) : Upto(rows[i], last[j])
  BY <1>1, <1>3 DEF Upto, Below
<1>6. /\ Ascending(todo) /\ todo \in Seq(Rows) /\ Len(todo) = Len(rows) + Len(last)
      /\ \A i \in 1..Len(rows) : todo[i] = rows[i]
      /\ \A j \in 1..Len(last) : todo[Len(rows) + j] = last[j]
  BY <1>1, <1>2, <1>3, <1>4, <1>5, AscendingJoin
<1> HIDE DEF todo
<1>7. ASSUME NEW i \in 1..Len(todo)
      PROVE  todo[i] \in Products \cup Coupons
  <2>1. CASE i <= Len(rows)
    <3>1. Len(rows) \in Nat /\ Len(todo) \in Nat
      BY <1>1, <1>3, <1>6
    <3>2. i \in 1..Len(rows)
      BY <2>1, <3>1
    <3>3. rows[i] \in Products
      BY <1>1, <3>2
    <3>4. QED
      BY <1>6, <3>2, <3>3
  <2>2. CASE ~(i <= Len(rows))
    <3>1. i - Len(rows) \in 1..Len(last) /\ i = Len(rows) + (i - Len(rows))
      BY <1>1, <1>3, <1>6, <1>7, <2>2
    <3>2. QED
      BY <1>3, <1>6, <3>1
  <2>3. QED
    BY <2>1, <2>2
<1>8. ASSUME NEW i \in 1..Len(lines)
      PROVE  \E m \in 1..Len(todo) : todo[m] = lines[i].product
  <2>1. PICK m \in 1..Len(lines) : rows[m] = lines[i].product
    BY <1>1
  <2>2. m \in 1..Len(todo) /\ todo[m] = rows[m]
    BY <1>1, <1>3, <1>6
  <2>3. QED
    BY <2>1, <2>2
<1>9. QED
  BY <1>2, <1>6, <1>7, <1>8 DEF todo, rows, last

\* A transaction that opens holds no lock, and will take its locks in order.
LEMMA BeginLocks ==
  ASSUME Shapes, LockInv, NEW t \in Tills, NEW kind, NEW o, NEW from, NEW lines, NEW c, NEW todo,
         Begin(t, kind, o, from, lines, c, todo), kind # "refund" => Ascending(todo)
  PROVE  LockInv'
<1> DEFINE q == [step |-> "open", kind |-> kind, order |-> o, from |-> from,
                 lines |-> lines, coupon |-> c, todo |-> todo]
<1>1. q.step = "open" /\ q.kind = kind /\ q.todo = todo
  OBVIOUS
<1>2. tx' = [tx EXCEPT ![t] = q] /\ UNCHANGED lock /\ tx[t].step = "idle"
  BY DEF Begin, NoTx
<1> HIDE DEF q
<1>3. tx'[t] = q /\ \A u \in Tills \ {t} : tx'[u] = tx[u]
  BY <1>2 DEF Shapes
<1>4. \A r \in Rows : lock[r] # t
  BY <1>2, Ids DEF LockInv
<1>5. LocksAscend(t)'
  BY <1>1, <1>2, <1>3, <1>4 DEF LocksAscend
<1>6. \A u \in Tills \ {t} : LocksAscend(u)'
  BY <1>2, <1>3 DEF LockInv, LocksAscend
<1>7. \A r \in Rows : lock'[r] # NoOne => tx'[lock'[r]].step = "open"
  BY <1>2, <1>3, <1>4 DEF LockInv
<1>8. QED
  BY <1>2, <1>5, <1>6, <1>7 DEF LockInv

LEMMA BeginningsLock ==
  ASSUME PosInv, LockInv, NEW t \in Tills, NEW o \in Orders,
         \/ \E r \in Requests : BeginSale(t, o, r)
         \/ BeginCancel(t, o) \/ BeginExpire(t, o)
         \/ BeginRefund(t, o)
         \/ \E l \in Parts : BeginPartial(t, o, l)
  PROVE  LockInv'
<1>1. Shapes /\ sale[o].lines \in Seq(Line) /\ sale[o].coupon \in Coupons \cup {NoCoupon}
  BY DEF PosInv, Shapes, Sale
<1>2. ASSUME NEW r \in Requests, BeginSale(t, o, r)
      PROVE  LockInv'
  <2> DEFINE todo == ProductRows(Sorted(r.lines)) \o CouponRow(r.coupon)
  <2>1. r.lines \in Seq(Line) /\ r.coupon \in Coupons \cup {NoCoupon}
    BY PosAssumption
  <2>2. Ascending(todo)
    BY <2>1, TillRowsAscend
  <2>3. Begin(t, "sale", o, r.final, r.lines, r.coupon, todo)
    BY <1>2 DEF BeginSale
  <2> HIDE DEF todo
  <2>4. QED
    BY <1>1, <2>2, <2>3, BeginLocks
<1>3. ASSUME NEW kind \in {"cancel", "expire"}, NEW from \in {"paid", "pending"},
             BeginUndoing(t, kind, o, from)
      PROVE  LockInv'
  <2> DEFINE rest == ProductRows(Sorted(sale[o].lines)) \o CouponRow(sale[o].coupon)
             todo == <<o>> \o ProductRows(Sorted(sale[o].lines)) \o CouponRow(sale[o].coupon)
  <2>1. /\ rest \in Seq(Rows) /\ Ascending(rest)
        /\ \A i \in 1..Len(rest) : rest[i] \in Products \cup Coupons
    BY <1>1, TillRowsAscend
  <2>2. /\ ProductRows(Sorted(sale[o].lines)) \in Seq(Rows) /\ CouponRow(sale[o].coupon) \in Seq(Rows)
        /\ <<o>> \in Seq(Rows)
    BY <1>1, ListsAreSequences, Ids
  <2>3. todo = <<o>> \o rest
    BY <2>2, ConcatAssociative
  <2>4. Begin(t, kind, o, from, sale[o].lines, sale[o].coupon, todo)
    BY <1>3 DEF BeginUndoing
  <2> HIDE DEF rest, todo
  <2>5. Len(<<o>>) = 1 /\ <<o>>[1] = o /\ Ascending(<<o>>)
    BY DEF Ascending
  <2>6. \A i \in 1..Len(<<o>>), j \in 1..Len(rest) : Upto(<<o>>[i], rest[j])
    BY <2>1, <2>5 DEF Upto, Below
  <2>7. Ascending(todo)
    BY <2>1, <2>2, <2>3, <2>5, <2>6, AscendingJoin
  <2>8. QED
    BY <1>1, <2>4, <2>7, BeginLocks
<1>4. CASE BeginRefund(t, o)
  <2> DEFINE todo == ProductRows(Sorted(sale[o].lines)) \o <<o>>
  <2>1. Begin(t, "refund", o, status[o], sale[o].lines, NoCoupon, todo)
    BY <1>4 DEF BeginRefund
  <2> HIDE DEF todo
  <2>2. QED
    BY <1>1, <2>1, BeginLocks
<1>5. ASSUME NEW l \in Parts, BeginPartial(t, o, l)
      PROVE  LockInv'
  <2>1. l \in Seq(Line) /\ NoCoupon \in Coupons \cup {NoCoupon}
    BY PosAssumption
  <2>2. Ascending(ProductRows(Sorted(l)))
    BY <2>1, TillRowsAscend
  <2>3. QED
    BY <1>1, <1>5, <2>2, BeginLocks DEF BeginPartial
<1>6. QED
  BY <1>2, <1>3, <1>4, <1>5 DEF BeginCancel, BeginExpire

\* The row that is locked next is above those that are held, and below those
\* that are yet to be locked.
LEMMA LockKeepsOrder ==
  ASSUME PosInv, LockInv, NEW t \in Tills, LockRow(t)
  PROVE  LockInv'
<1> DEFINE h == NextRow(t)
           q == [tx[t] EXCEPT !.todo = Tail(@)]
<1>1. Shapes /\ tx[t] \in Transaction /\ tx[t].todo \in Seq(Rows) /\ tx[t].todo # <<>>
  BY DEF PosInv, Shapes, Transaction, LockRow
<1>2. /\ Len(tx[t].todo) \in Nat \ {0} /\ h = tx[t].todo[1] /\ h \in Rows
      /\ Len(Tail(tx[t].todo)) = Len(tx[t].todo) - 1
      /\ \A i \in 1..(Len(tx[t].todo) - 1) : Tail(tx[t].todo)[i] = tx[t].todo[i + 1]
  BY <1>1, EmptySeq, HeadTailProperties DEF NextRow
<1>3. q.step = tx[t].step /\ q.kind = tx[t].kind /\ q.todo = Tail(tx[t].todo) /\ tx[t].step = "open"
  BY <1>1 DEF Transaction, LockRow
<1>4. tx' = [tx EXCEPT ![t] = q] /\ lock' = [lock EXCEPT ![h] = t]
  BY DEF LockRow
<1>5. lock[h] \in {NoOne, t}
  BY <1>1 DEF LockRow, Waiting
<1> HIDE DEF h, q
<1>6. tx'[t] = q /\ \A u \in Tills \ {t} : tx'[u] = tx[u]
  BY <1>1, <1>4 DEF Shapes
<1>7. /\ lock' \in [Rows -> Tills \cup {NoOne}] /\ lock'[h] = t
      /\ \A r \in Rows \ {h} : lock'[r] = lock[r]
  BY <1>2, <1>4 DEF LockInv
<1>8. \A r \in Rows : lock'[r] # NoOne => tx'[lock'[r]].step = "open"
  BY <1>3, <1>6, <1>7 DEF LockInv
<1>9. LocksAscend(t)'
  <2>1. SUFFICES ASSUME tx[t].kind # "refund"
                 PROVE  /\ Ascending(Tail(tx[t].todo))
                        /\ \A r \in Rows : lock'[r] = t =>
                             \A i \in 1..Len(Tail(tx[t].todo)) : Upto(r, Tail(tx[t].todo)[i])
    BY <1>3, <1>6 DEF LocksAscend
  <2>2. /\ Ascending(tx[t].todo)
        /\ \A r \in Rows : lock[r] = t => \A i \in 1..Len(tx[t].todo) : Upto(r, tx[t].todo[i])
    BY <1>3, <2>1 DEF LockInv, LocksAscend
  <2>3. \A i \in 1..Len(Tail(tx[t].todo)) :
          i + 1 \in 2..Len(tx[t].todo) /\ Tail(tx[t].todo)[i] = tx[t].todo[i + 1]
    BY <1>2
  <2>4. Ascending(Tail(tx[t].todo))
    BY <1>2, <2>2, <2>3 DEF Ascending
  <2>5. \A i \in 1..Len(Tail(tx[t].todo)) : Upto(h, Tail(tx[t].todo)[i])
    BY <1>2, <2>2, <2>3 DEF Ascending
  <2>6. ASSUME NEW r \in Rows \ {h}, lock'[r] = t, NEW i \in 1..Len(Tail(tx[t].todo))
        PROVE  Upto(r, Tail(tx[t].todo)[i])
    BY <1>2, <1>7, <2>2, <2>3, <2>6
  <2>7. QED
    BY <2>4, <2>5, <2>6
<1>10. ASSUME NEW u \in Tills \ {t}
       PROVE  LocksAscend(u)'
  <2>1. LocksAscend(u) /\ \A r \in Rows : lock'[r] = u => lock[r] = u
    BY <1>7 DEF LockInv
  <2>2. QED
    BY <1>6, <2>1 DEF LocksAscend
<1>11. QED
  BY <1>7, <1>8, <1>9, <1>10 DEF LockInv

LEMMA EndReleases ==
  ASSUME Shapes, LockInv, NEW t \in Tills, NEW step \in {"done", "failed"},
         tx' = [tx EXCEPT ![t].step = step], Released(t)
  PROVE  LockInv'
<1>1. tx'[t].step = step /\ \A u \in Tills \ {t} : tx'[u] = tx[u]
  BY EndKeeps
<1>2. /\ lock' \in [Rows -> Tills \cup {NoOne}]
      /\ \A r \in Rows : lock'[r] = NoOne \/ (lock'[r] = lock[r] /\ lock[r] # t)
  BY DEF LockInv, Released
<1>3. \A r \in Rows : lock'[r] # NoOne => tx'[lock'[r]].step = "open"
  BY <1>1, <1>2 DEF LockInv
<1>4. LocksAscend(t)'
  BY <1>1 DEF LocksAscend
<1>5. ASSUME NEW u \in Tills \ {t}
      PROVE  LocksAscend(u)'
  <2>1. LocksAscend(u) /\ \A r \in Rows : lock'[r] = u => lock[r] = u
    BY <1>2, Ids DEF LockInv
  <2>2. QED
    BY <1>1, <2>1 DEF LocksAscend
<1>6. QED
  BY <1>2, <1>3, <1>4, <1>5 DEF LockInv

LEMMA LocksStart == Init => LockInv
<1> SUFFICES ASSUME Init PROVE LockInv
  OBVIOUS
<1>1. \A t \in Tills : tx[t].step = "idle"
  BY DEF Init, NoTx
<1>2. QED
  BY <1>1 DEF Init, LockInv, LocksAscend

LEMMA LockSteps == PosInv /\ LockInv /\ [Next]_vars => LockInv'
<1> SUFFICES ASSUME PosInv, LockInv, [Next]_vars
             PROVE  LockInv'
  OBVIOUS
<1>1. Shapes
  BY DEF PosInv
<1>2. CASE UNCHANGED <<tx, lock>>
  BY <1>2 DEF LockInv, LocksAscend
<1>3. ASSUME NEW t \in Tills, RejectRow(t) \/ FailTx(t) \/ BreakDeadlock(t) \/ Commit(t)
      PROVE  LockInv'
  BY <1>1, <1>3, EndReleases DEF RejectRow, FailTx, BreakDeadlock, Rollback, Commit
<1>4. ASSUME NEW d \in Desks,
             \/ \E o \in Orders :
                  \/ BeginShipment(d, o)
                  \/ \E s \in ParcelTargets : BeginDelivery(d, o, s)
                  \/ \E s \in Targets : BeginChange(d, o, s)
             \/ StoreShipment(d) \/ SaveShipment(d) \/ RereadOrder(d) \/ Crash(d)
             \/ MoveOrder(d) \/ RecordMove(d)
      PROVE  UNCHANGED <<tx, lock>>
  BY <1>4 DEF BeginShipment, BeginDelivery, BeginChange, Ask, StoreShipment, SaveShipment,
    RereadOrder, Crash, MoveOrder, RecordMove
<1>5. QED
  BY <1>2, <1>3, <1>4, BeginningsLock, LockKeepsOrder DEF Next, vars

\* Along a wait, the rows waited for ascend, so that no transaction of a cycle
\* without full refunds is above the others.
LEMMA CyclesHaveRefunds ==
  ASSUME Shapes, LockInv
  PROVE  OnlyRefundsDeadlock
<1> SUFFICES ASSUME NEW S \in SUBSET Tills, Cycle(S), \A t \in S : tx[t].kind # "refund"
             PROVE  FALSE
  BY DEF OnlyRefundsDeadlock
<1>1. S # {} /\ \A t \in S : Waiting(t) /\ lock[NextRow(t)] \in S
  BY DEF Cycle, Stuck
<1>2. ASSUME NEW t \in S
      PROVE  Below(NextRow(t), NextRow(lock[NextRow(t)]))
  <2>0. PICK u, r, s : u = lock[NextRow(t)] /\ r = NextRow(t) /\ s = NextRow(lock[NextRow(t)])
    OBVIOUS
  <2>1. u \in S /\ u \in Tills /\ Waiting(u) /\ Waiting(t) /\ lock[r] = u /\ s = NextRow(u)
    BY <1>1, <2>0
  <2>2. /\ tx[t].todo \in Seq(Rows) /\ tx[t].todo # <<>>
        /\ tx[u].todo \in Seq(Rows) /\ tx[u].todo # <<>>
    BY <2>1 DEF Waiting, Shapes, Transaction
  <2>3. r \in Rows /\ s = tx[u].todo[1] /\ 1 \in 1..Len(tx[u].todo)
    <3>1. Len(tx[u].todo) \in Nat \ {0} /\ Head(tx[u].todo) = tx[u].todo[1]
      BY <2>2, EmptySeq, HeadTailProperties
    <3>2. Head(tx[t].todo) \in Rows
      BY <2>2, EmptySeq, HeadTailProperties
    <3>3. QED
      BY <2>0, <2>1, <3>1, <3>2 DEF NextRow
  <2>4. tx[u].step = "open" /\ tx[u].kind # "refund" /\ lock[s] # u
    BY <2>1 DEF Waiting
  <2>5. Upto(r, s)
    BY <2>1, <2>3, <2>4 DEF LockInv, LocksAscend
  <2>6. r # s
    BY <2>1, <2>4
  <2>7. QED
    BY <2>0, <2>5, <2>6 DEF Upto
<1>3. PICK t \in S : TRUE
  BY <1>1
<1> DEFINE R == {u \in S : Below(NextRow(t), NextRow(u))}
<1>4. lock[NextRow(t)] \in R
  BY <1>1, <1>2
<1>5. \A u \in R : Waiting(u) /\ lock[NextRow(u)] \in R
  BY <1>1, <1>2, BelowIsAnOrder
<1>6. R \in SUBSET S /\ Stuck(R)
  BY <1>4, <1>5 DEF Stuck
<1>7. R = S
  BY <1>6 DEF Cycle
<1>8. QED
  BY <1>7, BelowIsAnOrder

-----------------------------------------------------------------------------
\* The units.

LinesOf(lines, p) == {i \in DOMAIN lines : lines[i].product = p}
Quantities(lines, p) == [i \in LinesOf(lines, p) |-> lines[i].quantity]

LEMMA UnitsFold ==
  ASSUME NEW lines, NEW p, IsFiniteSet(DOMAIN lines)
  PROVE  \E g : /\ Folds(g, LinesOf(lines, p), Quantities(lines, p))
                /\ Units(lines, p) = g[LinesOf(lines, p)]
<1> DEFINE D == LinesOf(lines, p)
           f == Quantities(lines, p)
           P(h) == h = [s \in SUBSET D |-> IF s = {} THEN 0
                          ELSE lines[CHOOSE x \in s : TRUE].quantity + h[s \ {CHOOSE x \in s : TRUE}]]
<1>1. PICK g : Folds(g, D, f)
  BY FoldExists, FS_Subset DEF LinesOf
<1>2. ASSUME NEW h
      PROVE  P(h) <=> Folds(h, D, f)
  <2>1. \A s \in SUBSET D : s # {} => f[Some(s)] = lines[CHOOSE x \in s : TRUE].quantity
    BY SomeIn DEF Some, Quantities
  <2>2. QED
    BY <2>1 DEF Some, Folds
<1>3. P(CHOOSE h : P(h))
  <2>1. P(g)
    BY <1>1, <1>2
  <2> HIDE DEF P
  <2>2. QED
    BY <2>1, Zenon
<1>4. Units(lines, p) = (CHOOSE h : P(h))[D]
  BY DEF Units, MapThenSumSet, MapThenFoldSet, LinesOf
<1>5. QED
  BY <1>2, <1>3, <1>4

\* A list has a whole number of units of a product, and none if it does not
\* name the product.
LEMMA UnitsCount ==
  ASSUME NEW lines \in Seq(Line), NEW p
  PROVE  /\ Units(lines, p) \in Nat
         /\ Units(lines, p) # 0 => \E i \in 1..Len(lines) : lines[i].product = p
<1> DEFINE D == LinesOf(lines, p)
           f == Quantities(lines, p)
<1>1. /\ Len(lines) \in Nat /\ DOMAIN lines = 1..Len(lines)
      /\ \A i \in DOMAIN lines : lines[i].quantity \in Nat
  <2>1. \A i \in DOMAIN lines : lines[i] \in Line
    BY ElementOfSeq, LenProperties
  <2>2. QED
    BY <2>1, LenProperties DEF Line
<1>2. IsFiniteSet(DOMAIN lines) /\ IsFiniteSet(D)
  <2>1. IsFiniteSet(DOMAIN lines) /\ D \in SUBSET DOMAIN lines
    BY <1>1, FS_Interval DEF LinesOf
  <2>2. QED
    BY <2>1, FS_Subset
<1>3. PICK g : Folds(g, D, f) /\ Units(lines, p) = g[D]
  BY <1>2, UnitsFold
<1>4. f \in [D -> Nat]
  BY <1>1 DEF LinesOf, Quantities
<1>5. D = {} \/ \E i \in 1..Len(lines) : lines[i].product = p
  BY <1>1 DEF LinesOf
<1> HIDE DEF f, D
<1>6. g[D] \in Nat
  <2>1. Folds(g, D, f) /\ 0 \in Nat /\ \A x, y \in Nat : x + y \in Nat
    BY <1>3
  <2>2. \A s \in SUBSET D : g[s] \in Nat
    BY <1>2, <1>4, <2>1, FoldTypes
  <2>3. QED
    BY <2>2
<1>7. g[{}] = 0
  BY <1>3, FoldOf
<1>8. QED
  BY <1>3, <1>5, <1>6, <1>7

LEMMA NoUnits == \A p : Units(<<>>, p) = 0
<1>1. <<>> \in Seq(Line) /\ Len(<<>>) = 0
  BY EmptySeq
<1>2. ASSUME NEW p
      PROVE  Units(<<>>, p) # 0 => \E i \in 1..Len(<<>>) : <<>>[i].product = p
  BY <1>1, UnitsCount
<1>3. QED
  BY <1>1, <1>2

\* The sum of what is out of a product, in the state and in the next one.
OutOf(p) == [o \in Orders |-> Out(o, p)]
SumsAreFolds ==
  \A p : \E g : Folds(g, Orders, OutOf(p)) /\ UnitsOut(p) = g[Orders]

LEMMA SumsFold == SumsAreFolds
<1> SUFFICES ASSUME NEW p
             PROVE  \E g : /\ Folds(g, Orders, OutOf(p))
                           /\ UnitsOut(p) = g[Orders]
  BY DEF SumsAreFolds
<1> DEFINE f == OutOf(p)
           P(h) == h = [s \in SUBSET Orders |-> IF s = {} THEN 0
                          ELSE Out(CHOOSE x \in s : TRUE, p) + h[s \ {CHOOSE x \in s : TRUE}]]
<1>1. PICK g : Folds(g, Orders, f)
  BY FoldExists, PosAssumption
<1>2. ASSUME NEW h
      PROVE  P(h) <=> Folds(h, Orders, f)
  <2>1. \A s \in SUBSET Orders : s # {} => f[Some(s)] = Out(CHOOSE x \in s : TRUE, p)
    BY SomeIn DEF Some, OutOf
  <2>2. QED
    BY <2>1 DEF Some, Folds
<1>3. P(CHOOSE h : P(h))
  <2>1. P(g)
    BY <1>1, <1>2
  <2> HIDE DEF P
  <2>2. QED
    BY <2>1, Zenon
<1>4. UnitsOut(p) = (CHOOSE h : P(h))[Orders]
  BY DEF UnitsOut, MapThenSumSet, MapThenFoldSet
<1>5. QED
  BY <1>2, <1>3, <1>4

LEMMA SumsFoldNext == SumsAreFolds'
BY SumsFold, PTL
\* An order that is not there has sold nothing; one whose units are back has
\* been cancelled or refunded, and can only be delivered after that.
Ended(o) == \E e \in events[o] : e.by \in {"cancel", "expire", "refund"}

OrderLines ==
  /\ stock \in [Products -> Nat]
  /\ parts \in [Orders -> [Products -> Nat]]
  /\ \A o \in Orders :
       /\ status[o] = "none" => sale[o].lines = <<>> /\ \A p \in Products : parts[o][p] = 0
       /\ Ended(o) => status[o] \in {"cancelled", "refunded", "delivered"}

\* A sale has locked each product it sells with enough units, or has yet to.
StockLeft(t) ==
  tx[t].step = "open" /\ tx[t].kind = "sale" =>
    \A p \in Products :
      \/ Units(tx[t].lines, p) = 0
      \/ ToLock(tx[t], p)
      \/ lock[p] = t /\ Units(tx[t].lines, p) <= stock[p]

\* What undoes or refunds a sale is of an order that exists, and what ends the
\* order puts back what it sold.
LinesOfOrder(t) ==
  tx[t].step = "open" /\ tx[t].kind \in {"cancel", "expire", "refund", "partial"} =>
    /\ status[tx[t].order] # "none"
    /\ tx[t].kind # "partial" => tx[t].lines = sale[tx[t].order].lines

StockInv ==
  /\ OrderLines
  /\ StockMatchesHistory
  /\ \A t \in Tills : StockLeft(t) /\ LinesOfOrder(t)

LEMMA OutTyped ==
  ASSUME Shapes, OrderLines, NEW o \in Orders, NEW p \in Products
  PROVE  /\ Units(sale[o].lines, p) \in Nat /\ parts[o][p] \in Nat /\ Out(o, p) \in Int
         /\ Out(o, p) = (IF Ended(o) THEN 0 ELSE Units(sale[o].lines, p)) - parts[o][p]
<1>1. sale[o].lines \in Seq(Line)
  BY DEF Shapes, Sale
<1>2. Units(sale[o].lines, p) \in Nat /\ parts[o][p] \in Nat
  BY <1>1, UnitsCount DEF OrderLines
<1>3. QED
  BY <1>2 DEF Out, Ended

\* The sum of what is out moves by as much as one order's share of it.
LEMMA SumMoves ==
  ASSUME NEW p, NEW o \in Orders, \A n \in Orders : Out(n, p) \in Int /\ Out(n, p)' \in Int,
         \A n \in Orders \ {o} : Out(n, p)' = Out(n, p)
  PROVE  UnitsOut(p) \in Int /\ UnitsOut(p)' = UnitsOut(p) + Out(o, p)' - Out(o, p)
<1>1. PICK f, h : f = OutOf(p) /\ h = OutOf(p)'
  OBVIOUS
<1>2. PICK g : Folds(g, Orders, f) /\ UnitsOut(p) = g[Orders]
  BY <1>1, SumsFold DEF SumsAreFolds
<1>3. PICK k : Folds(k, Orders, h) /\ UnitsOut(p)' = k[Orders]
  BY <1>1, SumsFoldNext DEF SumsAreFolds
<1>4. /\ f \in [Orders -> Int] /\ h \in [Orders -> Int]
      /\ f[o] = Out(o, p) /\ h[o] = Out(o, p)'
      /\ \A n \in Orders \ {o} : f[n] = h[n]
  BY <1>1 DEF OutOf
<1>5. IsFiniteSet(Orders)
  BY PosAssumption
<1>6. g[Orders] \in Int /\ k[Orders] = g[Orders] + h[o] - f[o]
  BY <1>2, <1>3, <1>4, <1>5, FoldChanges
<1>7. QED
  BY <1>2, <1>3, <1>4, <1>6

\* No step but a COMMIT disturbs the counters.
LEMMA StockKept ==
  ASSUME Shapes, OrderLines, StockMatchesHistory, UNCHANGED <<stock, sale, parts>>,
         \A o \in Orders :
           /\ Ended(o)' <=> Ended(o)
           /\ \/ status'[o] = status[o]
              \/ /\ status'[o] # "none" /\ status[o] # "none"
                 /\ Ended(o) => status'[o] = "delivered"
  PROVE  OrderLines' /\ StockMatchesHistory'
<1>1. OrderLines'
  BY DEF OrderLines
<1>2. ASSUME NEW p \in Products
      PROVE  stock'[p] = InitStock[p] - UnitsOut(p)'
  <2>1. \A n \in Orders : Out(n, p)' = Out(n, p)
    BY DEF Out, Ended
  <2>2. \A n \in Orders : OutOf(p)[n] \in Int
    BY OutTyped DEF OutOf
  <2>3. PICK f : f = OutOf(p) /\ f = OutOf(p)' /\ f \in [Orders -> Int]
    BY <2>1, <2>2 DEF OutOf
  <2>4. PICK g : Folds(g, Orders, f) /\ UnitsOut(p) = g[Orders]
    BY <2>3, SumsFold DEF SumsAreFolds
  <2>5. PICK k : Folds(k, Orders, f) /\ UnitsOut(p)' = k[Orders]
    BY <2>3, SumsFoldNext DEF SumsAreFolds
  <2>6. IsFiniteSet(Orders) /\ Orders \in SUBSET Orders
    BY PosAssumption
  <2>7. g[Orders] = k[Orders]
    BY <2>3, <2>4, <2>5, <2>6, FoldsAgree
  <2>8. stock[p] = InitStock[p] - g[Orders]
    BY <2>4 DEF StockMatchesHistory
  <2>9. QED
    BY <2>5, <2>7, <2>8
<1>3. StockMatchesHistory'
  BY <1>2 DEF StockMatchesHistory
<1>4. QED
  BY <1>1, <1>3

LEMMA TillStockKept ==
  ASSUME PosInv, StockInv, NEW t \in Tills, UNCHANGED <<stock, sale>>, tx'[t] = tx[t],
         \A r \in Rows : lock[r] = t => lock'[r] = t,
         \A o \in Orders : status[o] # "none" => status'[o] # "none"
  PROVE  StockLeft(t)' /\ LinesOfOrder(t)'
<1>1. StockLeft(t)'
  BY Ids DEF StockInv, StockLeft, ToLock
<1>2. EndsLocked(t) /\ PartialSeen(t) /\ LinesOfOrder(t)
  BY DEF PosInv, StockInv
<1>3. LinesOfOrder(t)'
  BY <1>2 DEF LinesOfOrder, EndsLocked, PartialSeen
<1>4. QED
  BY <1>1, <1>3

LEMMA BeginKeepsStock ==
  ASSUME PosInv, StockInv, NEW t \in Tills, NEW o \in Orders,
         \/ \E r \in Requests : BeginSale(t, o, r)
         \/ BeginCancel(t, o) \/ BeginExpire(t, o)
         \/ BeginRefund(t, o)
         \/ \E l \in Parts : BeginPartial(t, o, l)
  PROVE  StockInv'
<1>1. Shapes /\ OrderLines /\ StockMatchesHistory
  BY DEF PosInv, StockInv
<1>2. UNCHANGED <<table, lock, desk>> /\ \A u \in Tills \ {t} : tx'[u] = tx[u]
  BY <1>1 DEF Shapes, BeginSale, BeginUndoing, BeginCancel, BeginExpire, BeginRefund,
    BeginPartial, Begin
<1>3. OrderLines' /\ StockMatchesHistory'
  <2>1. UNCHANGED <<stock, sale, parts, status>> /\ \A n \in Orders : Ended(n)' <=> Ended(n)
    BY <1>2 DEF table, Ended
  <2>2. QED
    BY <1>1, <2>1, StockKept
<1>4. \A u \in Tills \ {t} : StockLeft(u)' /\ LinesOfOrder(u)'
  BY <1>2, TillStockKept DEF table
<1>5. ASSUME NEW kind, NEW from, NEW lines, NEW c, NEW todo,
             Begin(t, kind, o, from, lines, c, todo),
             kind = "sale" => \A p \in Products : Units(lines, p) # 0 =>
                                \E i \in 1..Len(todo) : todo[i] = p,
             kind # "sale" => status[o] # "none",
             kind \in {"cancel", "expire", "refund"} => lines = sale[o].lines
      PROVE  StockInv'
  <2> DEFINE q == [step |-> "open", kind |-> kind, order |-> o, from |-> from,
                   lines |-> lines, coupon |-> c, todo |-> todo]
  <2>1. q.kind = kind /\ q.order = o /\ q.lines = lines /\ q.todo = todo
    OBVIOUS
  <2>2. tx' = [tx EXCEPT ![t] = q]
    BY <1>5 DEF Begin
  <2> HIDE DEF q
  <2>3. tx'[t] = q
    BY <1>1, <2>2 DEF Shapes
  <2>4. StockLeft(t)'
    BY <1>5, <2>1, <2>3 DEF StockLeft, ToLock
  <2>5. LinesOfOrder(t)'
    BY <1>2, <1>5, <2>1, <2>3 DEF LinesOfOrder, table
  <2>6. QED
    BY <1>3, <1>4, <2>4, <2>5 DEF StockInv
<1>6. ASSUME NEW r \in Requests, BeginSale(t, o, r)
      PROVE  StockInv'
  <2> DEFINE todo == ProductRows(Sorted(r.lines)) \o CouponRow(r.coupon)
  <2>1. r.lines \in Seq(Line) /\ r.coupon \in Coupons \cup {NoCoupon}
    BY PosAssumption
  <2>2. \A i \in 1..Len(r.lines) : \E m \in 1..Len(todo) : todo[m] = r.lines[i].product
    BY <2>1, TillRowsAscend
  <2>3. Begin(t, "sale", o, r.final, r.lines, r.coupon, todo)
    BY <1>6 DEF BeginSale
  <2> HIDE DEF todo
  <2>4. ASSUME NEW p \in Products, Units(r.lines, p) # 0
        PROVE  \E i \in 1..Len(todo) : todo[i] = p
    <3>1. PICK i \in 1..Len(r.lines) : r.lines[i].product = p
      BY <2>1, <2>4, UnitsCount
    <3>2. QED
      BY <2>2, <3>1
  <2>5. QED
    BY <1>5, <2>3, <2>4
<1>7. ASSUME NEW kind \in {"cancel", "expire"}, NEW from \in {"paid", "pending"},
             status[o] # "none", BeginUndoing(t, kind, o, from)
      PROVE  StockInv'
  <2> DEFINE todo == <<o>> \o ProductRows(Sorted(sale[o].lines)) \o CouponRow(sale[o].coupon)
  <2>1. Begin(t, kind, o, from, sale[o].lines, sale[o].coupon, todo) /\ status[o] # "none"
    BY <1>7 DEF BeginUndoing
  <2> HIDE DEF todo
  <2>2. QED
    BY <1>5, <2>1
<1>8. CASE BeginRefund(t, o)
  <2> DEFINE todo == ProductRows(Sorted(sale[o].lines)) \o <<o>>
  <2>1. Begin(t, "refund", o, status[o], sale[o].lines, NoCoupon, todo) /\ status[o] # "none"
    BY <1>8 DEF BeginRefund
  <2> HIDE DEF todo
  <2>2. QED
    BY <1>5, <2>1
<1>9. ASSUME NEW l \in Parts, BeginPartial(t, o, l)
      PROVE  StockInv'
  BY <1>5, <1>9 DEF BeginPartial
<1>10. QED
  BY <1>6, <1>7, <1>8, <1>9 DEF BeginCancel, BeginExpire

\* AND stock >= quantity, on the row that is locked.
LEMMA LockKeepsStock ==
  ASSUME PosInv, StockInv, NEW t \in Tills, LockRow(t)
  PROVE  StockInv'
<1> DEFINE h == NextRow(t)
           q == [tx[t] EXCEPT !.todo = Tail(@)]
<1>1. Shapes /\ tx[t] \in Transaction /\ tx[t].todo \in Seq(Rows) /\ tx[t].todo # <<>>
  BY DEF PosInv, Shapes, Transaction, LockRow
<1>2. /\ h = Head(tx[t].todo)
      /\ \A r : ToLock(tx[t], r) => r = h \/ \E i \in 1..Len(Tail(tx[t].todo)) : Tail(tx[t].todo)[i] = r
  BY <1>1, TailKeeps DEF NextRow, ToLock
<1>3. /\ q.step = tx[t].step /\ q.kind = tx[t].kind /\ q.lines = tx[t].lines
      /\ q.order = tx[t].order /\ q.todo = Tail(tx[t].todo)
  BY <1>1 DEF Transaction
<1>4. /\ tx' = [tx EXCEPT ![t] = q] /\ lock' = [lock EXCEPT ![h] = t]
      /\ UNCHANGED <<table, desk>>
  BY DEF LockRow
<1>5. /\ lock[h] \in {NoOne, t}
      /\ tx[t].kind = "sale" /\ h \in Products => Units(tx[t].lines, h) <= stock[h]
  BY <1>1 DEF LockRow, Waiting, Accepts
<1> HIDE DEF h, q
<1>6. tx'[t] = q /\ \A u \in Tills \ {t} : tx'[u] = tx[u]
  BY <1>1, <1>4 DEF Shapes
<1>7. \A r \in Rows : /\ lock[r] = t \/ r = h => lock'[r] = t
                      /\ \A u \in Tills \ {t} : lock[r] = u => lock'[r] = u
  BY <1>1, <1>4, <1>5, Ids DEF Shapes
<1>8. OrderLines' /\ StockMatchesHistory'
  <2>1. UNCHANGED <<stock, sale, parts, status>> /\ \A n \in Orders : Ended(n)' <=> Ended(n)
    BY <1>4 DEF table, Ended
  <2>2. QED
    BY <1>1, <2>1, StockKept DEF StockInv
<1>9. \A u \in Tills \ {t} : StockLeft(u)' /\ LinesOfOrder(u)'
  BY <1>4, <1>6, <1>7, TillStockKept DEF table
<1>10. StockLeft(t)'
  <2>1. SUFFICES ASSUME tx[t].step = "open", tx[t].kind = "sale",
                        NEW p \in Products, Units(tx[t].lines, p) # 0,
                        ~\E i \in 1..Len(Tail(tx[t].todo)) : Tail(tx[t].todo)[i] = p
                 PROVE  lock'[p] = t /\ Units(tx[t].lines, p) <= stock'[p]
    BY <1>3, <1>6 DEF StockLeft, ToLock
  <2>2. p \in Rows /\ UNCHANGED stock
    BY <1>4, Ids DEF table
  <2>3. CASE p = h
    BY <1>5, <1>7, <2>1, <2>2, <2>3
  <2>4. CASE p # h
    BY <1>2, <1>7, <2>1, <2>2, <2>4 DEF StockInv, StockLeft
  <2>5. QED
    BY <2>3, <2>4
<1>11. LinesOfOrder(t)'
  BY <1>3, <1>4, <1>6 DEF StockInv, LinesOfOrder, table
<1>12. QED
  BY <1>8, <1>9, <1>10, <1>11 DEF StockInv

LEMMA RollbackKeepsStock ==
  ASSUME PosInv, StockInv, NEW t \in Tills, Rollback(t)
  PROVE  StockInv'
<1>1. Shapes /\ tx' = [tx EXCEPT ![t].step = "failed"] /\ Released(t) /\ UNCHANGED <<table, desk>>
  BY DEF PosInv, Rollback
<1>2. /\ tx'[t].step = "failed" /\ \A u \in Tills \ {t} : tx'[u] = tx[u]
      /\ \A r \in Rows, u \in Tills \ {t} : lock[r] = u => lock'[r] = u
  BY <1>1, EndKeeps
<1>3. OrderLines' /\ StockMatchesHistory'
  <2>1. UNCHANGED <<stock, sale, parts, status>> /\ \A n \in Orders : Ended(n)' <=> Ended(n)
    BY <1>1 DEF table, Ended
  <2>2. QED
    BY <1>1, <2>1, StockKept DEF StockInv
<1>4. \A u \in Tills \ {t} : StockLeft(u)' /\ LinesOfOrder(u)'
  BY <1>1, <1>2, TillStockKept DEF table
<1>5. StockLeft(t)' /\ LinesOfOrder(t)'
  BY <1>2 DEF StockLeft, LinesOfOrder
<1>6. QED
  BY <1>3, <1>4, <1>5 DEF StockInv

LEMMA DeskKeepsStock ==
  ASSUME PosInv, StockInv, UNCHANGED <<stock, sale, parts, tx, lock>>,
         \A o \in Orders :
           /\ Ended(o)' <=> Ended(o)
           /\ \/ status'[o] = status[o]
              \/ /\ status'[o] # "none" /\ status[o] # "none"
                 /\ Ended(o) => status'[o] = "delivered"
  PROVE  StockInv'
<1>1. OrderLines' /\ StockMatchesHistory'
  BY StockKept DEF PosInv, StockInv
<1>2. \A t \in Tills : StockLeft(t)' /\ LinesOfOrder(t)'
  BY TillStockKept
<1>3. QED
  BY <1>1, <1>2 DEF StockInv

\* The back office moves no unit, and an ended order only to delivered.
LEMMA BackOfficeKeepsStock ==
  ASSUME PosInv, StockInv, NEW d \in Desks,
         \/ \E o \in Orders :
              \/ BeginShipment(d, o)
              \/ \E s \in ParcelTargets : BeginDelivery(d, o, s)
              \/ \E s \in Targets : BeginChange(d, o, s)
         \/ StoreShipment(d) \/ SaveShipment(d) \/ RereadOrder(d) \/ Crash(d)
         \/ MoveOrder(d) \/ RecordMove(d)
  PROVE  StockInv'
<1>1. Shapes /\ DeskHolds(d)
  BY DEF PosInv, Shapes
<1>2. UNCHANGED <<stock, sale, parts, tx, lock>>
  BY DEF BeginShipment, BeginDelivery, BeginChange, Ask, StoreShipment, SaveShipment,
    RereadOrder, Crash, MoveOrder, RecordMove, table
<1>3. CASE MoveOrder(d) /\ StillThere(d)
  <2>0. PICK o : o = desk[d].order
    OBVIOUS
  <2> USE <2>0
  <2>1. /\ desk[d].step = "moving" /\ o \in Orders /\ status[o] = desk[d].from /\ status[o] # "none"
        /\ status' = [status EXCEPT ![o] = desk[d].to] /\ UNCHANGED events
    BY <1>1, <1>3 DEF MoveOrder, StillThere, NewStatus, DeskHolds
  <2>2. /\ desk[d].to # "none"
        /\ status[o] \in {"cancelled", "refunded", "delivered"} => desk[d].to = "delivered"
    BY <1>1, <2>1, Table DEF DeskHolds, ParcelStatuses
  <2>3. Ended(o) => status[o] \in {"cancelled", "refunded", "delivered"}
    BY <2>1 DEF StockInv, OrderLines
  <2>4. \A n \in Orders : Ended(n)' <=> Ended(n)
    BY <2>1 DEF Ended
  <2>5. \A n \in Orders :
          \/ status'[n] = status[n]
          \/ /\ status'[n] # "none" /\ status[n] # "none"
             /\ Ended(n) => status'[n] = "delivered"
    BY <1>1, <2>1, <2>2, <2>3 DEF Shapes
  <2>6. QED
    BY <1>2, <2>4, <2>5, DeskKeepsStock
<1>4. CASE RecordMove(d)
  <2>1. UNCHANGED status /\ \A n \in Orders : Ended(n)' <=> Ended(n)
    BY <1>1, <1>4 DEF RecordMove, Record, Ended, Shapes
  <2>2. QED
    BY <1>2, <2>1, DeskKeepsStock
<1>5. CASE ~RecordMove(d) /\ ~(MoveOrder(d) /\ StillThere(d))
  <2>1. UNCHANGED <<status, events>>
    BY <1>5 DEF BeginShipment, BeginDelivery, BeginChange, Ask, StoreShipment, SaveShipment,
      RereadOrder, Crash, MoveOrder, table
  <2>2. \A n \in Orders : Ended(n)' <=> Ended(n)
    BY <2>1 DEF Ended
  <2>3. QED
    BY <1>2, <2>1, <2>2, DeskKeepsStock
<1>6. QED
  BY <1>3, <1>4, <1>5

\* A COMMIT moves the stock by as much as what its order has out.
LEMMA CommitKeepsStock ==
  ASSUME PosInv, StockInv, NEW t \in Tills, Commit(t)
  PROVE  StockInv'
<1>0. PICK o, lines : o = tx[t].order /\ lines = tx[t].lines
  OBVIOUS
<1> USE <1>0
<1>1. /\ Shapes /\ EndsLocked(t) /\ SaleAlone(t) /\ PartialSeen(t) /\ Passed
      /\ OrderLines /\ StockMatchesHistory /\ StockLeft(t) /\ LinesOfOrder(t)
  BY DEF PosInv, StockInv
<1>2. /\ tx' = [tx EXCEPT ![t].step = "done"] /\ Released(t) /\ UNCHANGED <<parcel, desk>>
      /\ tx[t].step = "open" /\ \A r : ~ToLock(tx[t], r)
  BY EmptySeq DEF Commit, ToLock
<1>3. /\ tx'[t].step = "done" /\ \A u \in Tills \ {t} : tx'[u] = tx[u]
      /\ \A r \in Rows, u \in Tills \ {t} : lock[r] = u => lock'[r] = u
  BY <1>1, <1>2, EndKeeps
<1>4. /\ lines \in Seq(Line)
      /\ \A p \in Products : Units(lines, p) \in Nat /\ stock[p] \in Nat /\ InitStock[p] \in Int
  <2>1. lines \in Seq(Line)
    BY <1>1 DEF Shapes, Transaction
  <2>2. QED
    BY <1>1, <2>1, UnitsCount, PosAssumption DEF OrderLines
<1>5. Shapes'
  BY CommitPreserves DEF PosInv
<1>6. /\ o \in Orders
      /\ \A n \in Orders \ {o} : status'[n] = status[n] /\ sale'[n] = sale[n]
                                 /\ events'[n] = events[n] /\ parts'[n] = parts[n]
      /\ \A p \in Products :
           /\ stock'[p] \in Nat
           /\ stock'[p] = stock[p] + Out(o, p) - Out(o, p)'
           /\ stock'[p] >= stock[p] \/ lock[p] = t
      /\ parts' \in [Orders -> [Products -> Nat]]
      /\ status'[o] # "none" /\ (status[o] # "none" => sale'[o] = sale[o])
      /\ Ended(o)' => status'[o] \in {"cancelled", "refunded", "delivered"}
  <2>1. CASE tx[t].kind = "sale" /\ CommitSale(t)
    <3> DEFINE new == [lines |-> lines, coupon |-> tx[t].coupon]
               e == [status |-> tx[t].from, by |-> "sale"]
    <3>1. /\ o \in Orders /\ status[o] = "none" /\ tx[t].from # "none" /\ ~Ended(o)
          /\ sale[o].lines = <<>> /\ \A p \in Products : parts[o][p] = 0
      BY <1>1, <1>2, <2>1 DEF SaleAlone, OrderLines
    <3>2. /\ sale' = [sale EXCEPT ![o] = new] /\ new.lines = lines /\ UNCHANGED parts
          /\ status' = [status EXCEPT ![o] = tx[t].from]
          /\ events' = [events EXCEPT ![o] = @ \cup {e}] /\ e.by = "sale"
      BY <2>1 DEF CommitSale, NewStatus, Record
    <3>moved. stock' = [p \in Products |-> stock[p] + (-1) * Units(lines, p)]
      BY <2>1 DEF CommitSale, Moved
    <3> HIDE DEF new, e
    <3>3. /\ sale'[o].lines = lines /\ \A n \in Orders \ {o} : sale'[n] = sale[n]
          /\ status'[o] # "none" /\ \A n \in Orders \ {o} : status'[n] = status[n]
          /\ events'[o] = events[o] \cup {e} /\ \A n \in Orders \ {o} : events'[n] = events[n]
      BY <1>1, <3>1, <3>2 DEF Shapes
    <3>4. ~Ended(o)'
      BY <3>1, <3>2, <3>3 DEF Ended
    <3>5. ASSUME NEW p \in Products
          PROVE  /\ stock'[p] \in Nat
                 /\ stock'[p] = stock[p] + Out(o, p) - Out(o, p)'
                 /\ stock'[p] >= stock[p] \/ lock[p] = t
      <4>1. Out(o, p) = 0
        BY <3>1, NoUnits DEF Out
      <4>2. parts'[o][p] = 0 /\ Units(sale'[o].lines, p) = Units(lines, p) /\ Units(lines, p) \in Nat
        BY <1>4, <3>1, <3>2, <3>3
      <4>3. Out(o, p)' = Units(lines, p)
        BY <3>4, <4>2 DEF Out, Ended
      <4>4. Units(lines, p) = 0 \/ (lock[p] = t /\ Units(lines, p) <= stock[p])
        BY <1>1, <1>2, <2>1 DEF StockLeft
      <4>5. stock'[p] = stock[p] - Units(lines, p)
        BY <1>4, <3>moved
      <4>6. QED
        BY <1>4, <4>1, <4>3, <4>4, <4>5
    <3>6. parts' \in [Orders -> [Products -> Nat]]
      BY <1>1, <3>2 DEF OrderLines
    <3>7. QED
      BY <3>1, <3>2, <3>3, <3>4, <3>5, <3>6
  <2>2. CASE \/ tx[t].kind = "cancel" /\ CommitCancel(t)
             \/ tx[t].kind = "expire" /\ CommitExpire(t)
             \/ tx[t].kind = "refund" /\ CommitRefund(t)
    <3>0. PICK s \in {"cancelled", "refunded"}, who \in {"cancel", "expire", "refund"} :
            NewStatus(o, s) /\ Record(o, s, who) /\ UNCHANGED <<sale, parts>>
      BY <2>2 DEF CommitCancel, CommitExpire, Undone, CommitRefund
    <3> DEFINE e == [status |-> s, by |-> who]
    <3>1. /\ e.by \in {"cancel", "expire", "refund"}
          /\ UNCHANGED <<sale, parts>> /\ status' = [status EXCEPT ![o] = s]
          /\ events' = [events EXCEPT ![o] = @ \cup {e}]
      BY <3>0 DEF NewStatus, Record
    <3> HIDE DEF e
    <3>moved. stock' = [p \in Products |-> stock[p] + 1 * Units(lines, p)]
      BY <2>2 DEF CommitCancel, CommitExpire, Undone, CommitRefund, Moved
    <3>2. /\ o \in Orders /\ status[o] \in {"paid", "pending", "processing"} /\ ~Ended(o)
          /\ lines = sale[o].lines
      BY <1>1, <1>2, <2>2 DEF EndsLocked, OrderLines, LinesOfOrder
    <3>3. /\ status'[o] = s /\ \A n \in Orders \ {o} : status'[n] = status[n]
          /\ events'[o] = events[o] \cup {e} /\ \A n \in Orders \ {o} : events'[n] = events[n]
      BY <1>1, <3>1, <3>2 DEF Shapes
    <3>4. Ended(o)'
      BY <3>1, <3>3 DEF Ended
    <3>5. ASSUME NEW p \in Products
          PROVE  /\ stock'[p] \in Nat
                 /\ stock'[p] = stock[p] + Out(o, p) - Out(o, p)'
                 /\ stock'[p] >= stock[p] \/ lock[p] = t
      <4>1. Out(o, p) = Units(lines, p) - parts[o][p] /\ parts[o][p] \in Nat
        BY <1>1, <3>2, OutTyped
      <4>2. Out(o, p)' = Units(lines, p) - Units(lines, p) - parts[o][p]
        BY <3>1, <3>2, <3>4 DEF Out, Ended
      <4>3. stock'[p] = stock[p] + Units(lines, p)
        BY <1>4, <3>moved
      <4>4. QED
        BY <1>4, <4>1, <4>2, <4>3
    <3>6. parts' \in [Orders -> [Products -> Nat]]
      BY <1>1, <3>1 DEF OrderLines
    <3>7. QED
      BY <3>1, <3>2, <3>3, <3>5, <3>6
  <2>3. CASE tx[t].kind = "partial" /\ CommitPartial(t)
    <3> DEFINE e == [status |-> tx[t].from, by |-> "partial"]
               back == [p \in Products |-> parts[o][p] + Units(lines, p)]
    <3>1. /\ o \in Orders /\ tx[t].from \in passed[o]
      BY <1>1, <1>2, <2>3 DEF PartialSeen
    <3>2. /\ UNCHANGED <<sale, status>> /\ parts' = [parts EXCEPT ![o] = back]
          /\ events' = [events EXCEPT ![o] = @ \cup {e}] /\ e.by = "partial"
          /\ stock' = [p \in Products |-> stock[p] + 1 * Units(lines, p)]
      BY <2>3 DEF CommitPartial, Record, Moved
    <3>3. back \in [Products -> Nat] /\ \A p \in Products : back[p] = parts[o][p] + Units(lines, p)
      BY <1>1, <1>4, <3>1 DEF OrderLines
    <3> HIDE DEF e, back
    <3>4. /\ events'[o] = events[o] \cup {e} /\ \A n \in Orders \ {o} : events'[n] = events[n]
          /\ parts'[o] = back /\ \A n \in Orders \ {o} : parts'[n] = parts[n]
          /\ parts' \in [Orders -> [Products -> Nat]]
      BY <1>1, <3>1, <3>2, <3>3 DEF Shapes, OrderLines
    <3>5. Ended(o)' <=> Ended(o)
      BY <3>2, <3>4 DEF Ended
    <3>6. ASSUME NEW p \in Products
          PROVE  /\ stock'[p] \in Nat
                 /\ stock'[p] = stock[p] + Out(o, p) - Out(o, p)'
                 /\ stock'[p] >= stock[p] \/ lock[p] = t
      <4>1. PICK a : a = IF Ended(o) THEN 0 ELSE Units(sale[o].lines, p)
        OBVIOUS
      <4>2. /\ a \in Int /\ parts[o][p] \in Nat /\ Out(o, p) = a - parts[o][p]
            /\ Units(sale[o].lines, p) \in Nat
        BY <1>1, <3>1, <4>1, OutTyped
      <4>3. Out(o, p)' = (IF Ended(o)' THEN 0 ELSE Units(sale[o].lines, p)) - parts'[o][p]
        BY <3>2, <4>2 DEF Out, Ended
      <4>4. Out(o, p)' = a - parts'[o][p] /\ parts'[o][p] = parts[o][p] + Units(lines, p)
        BY <3>3, <3>4, <3>5, <4>1, <4>3
      <4>5. stock'[p] = stock[p] + Units(lines, p)
        BY <1>4, <3>2
      <4>6. QED
        BY <1>4, <4>2, <4>4, <4>5
    <3>7. status[o] # "none" /\ (Ended(o)' => status'[o] \in {"cancelled", "refunded", "delivered"})
      BY <1>1, <1>2, <2>3, <3>1, <3>2, <3>5 DEF LinesOfOrder, OrderLines
    <3>8. QED
      BY <3>1, <3>2, <3>4, <3>6, <3>7
  <2>4. QED
    BY <2>1, <2>2, <2>3 DEF Commit
<1>7. OrderLines'
  <2>1. stock' \in [Products -> Nat]
    <3>1. stock' = [p \in Products |-> stock'[p]]
      BY DEF Commit, CommitSale, CommitCancel, CommitExpire, Undone, CommitRefund,
        CommitPartial, Moved
    <3>2. QED
      BY <1>6, <3>1
  <2>2. ASSUME NEW n \in Orders
        PROVE  /\ status'[n] = "none" => sale'[n].lines = <<>> /\ \A p \in Products : parts'[n][p] = 0
               /\ Ended(n)' => status'[n] \in {"cancelled", "refunded", "delivered"}
    BY <1>1, <1>6 DEF OrderLines, Ended
  <2>3. QED
    BY <1>6, <2>1, <2>2 DEF OrderLines
<1>8. StockMatchesHistory'
  <2>1. SUFFICES ASSUME NEW p \in Products
                 PROVE  stock'[p] = InitStock[p] - UnitsOut(p)'
    BY DEF StockMatchesHistory
  <2>2. \A n \in Orders : Out(n, p) \in Int
    BY <1>1, OutTyped
  <2>3. ASSUME NEW n \in Orders
        PROVE  Out(n, p)' \in Int
    <3>1. sale'[n].lines \in Seq(Line) /\ parts'[n][p] \in Nat
      BY <1>5, <1>6 DEF Shapes, Sale
    <3>2. Units(sale'[n].lines, p) \in Nat
      BY <3>1, UnitsCount
    <3>3. QED
      BY <3>1, <3>2 DEF Out
  <2>4. \A n \in Orders \ {o} : Out(n, p)' = Out(n, p)
    BY <1>6 DEF Out
  <2>5. UnitsOut(p) \in Int /\ UnitsOut(p)' = UnitsOut(p) + Out(o, p)' - Out(o, p)
    BY <1>6, <2>2, <2>3, <2>4, SumMoves
  <2>6. stock[p] = InitStock[p] - UnitsOut(p)
    BY <1>1 DEF StockMatchesHistory
  <2>7. PICK a, b : a = Out(o, p) /\ b = Out(o, p)'
    OBVIOUS
  <2>8. /\ a \in Int /\ b \in Int /\ stock'[p] = stock[p] + a - b
        /\ UnitsOut(p)' = UnitsOut(p) + b - a
    BY <1>6, <2>2, <2>3, <2>5, <2>7
  <2>9. QED
    BY <1>4, <2>5, <2>6, <2>8
<1>9. StockLeft(t)' /\ LinesOfOrder(t)'
  BY <1>3 DEF StockLeft, LinesOfOrder
<1>10. ASSUME NEW u \in Tills \ {t}
       PROVE  StockLeft(u)' /\ LinesOfOrder(u)'
  <2>1. /\ StockLeft(u) /\ LinesOfOrder(u) /\ EndsLocked(u) /\ PartialSeen(u)
        /\ tx[u].lines \in Seq(Line)
    BY <1>1 DEF PosInv, StockInv, Shapes, Transaction
  <2>2. StockLeft(u)'
    <3>1. SUFFICES ASSUME tx[u].step = "open", tx[u].kind = "sale", NEW p \in Products,
                          Units(tx[u].lines, p) # 0, ~ToLock(tx[u], p)
                   PROVE  lock'[p] = u /\ Units(tx[u].lines, p) <= stock'[p]
      BY <1>3 DEF StockLeft
    <3>2. lock[p] = u /\ Units(tx[u].lines, p) <= stock[p]
      BY <2>1, <3>1 DEF StockLeft
    <3>3. stock'[p] >= stock[p] /\ stock'[p] \in Nat
      BY <1>6, <3>2
    <3>4. Units(tx[u].lines, p) \in Nat
      BY <2>1, UnitsCount
    <3>5. lock'[p] = u
      BY <1>3, <3>2, Ids
    <3>6. QED
      BY <1>4, <3>2, <3>3, <3>4, <3>5
  <2>3. LinesOfOrder(u)'
    BY <1>3, <1>6, <2>1 DEF LinesOfOrder, EndsLocked, PartialSeen
  <2>4. QED
    BY <2>2, <2>3
<1>11. QED
  BY <1>7, <1>8, <1>9, <1>10 DEF StockInv

LEMMA StockStarts == Init => StockInv
<1> SUFFICES ASSUME Init PROVE StockInv
  OBVIOUS
<1>1. /\ \A o \in Orders : sale[o].lines = <<>> /\ status[o] = "none" /\ ~Ended(o)
      /\ \A o \in Orders, p \in Products : parts[o][p] = 0
  BY DEF Init, NoSale, Ended
<1>2. OrderLines
  BY <1>1, PosAssumption DEF Init, OrderLines
<1>3. ASSUME NEW p \in Products
      PROVE  stock[p] = InitStock[p] - UnitsOut(p)
  <2>1. \A o \in Orders : Out(o, p) = 0
    BY <1>1, NoUnits DEF Out
  <2>2. PICK f : f = OutOf(p) /\ f \in [Orders -> Int] /\ \A o \in Orders : f[o] = 0
    <3>1. OutOf(p) \in [Orders -> Int] /\ \A o \in Orders : OutOf(p)[o] = 0
      BY <2>1 DEF OutOf
    <3>2. QED
      BY <3>1
  <2>3. PICK g : Folds(g, Orders, f) /\ UnitsOut(p) = g[Orders]
    BY <2>2, SumsFold DEF SumsAreFolds
  <2>4. IsFiniteSet(Orders)
    BY PosAssumption
  <2>5. UnitsOut(p) = 0
    BY <2>2, <2>3, <2>4, FoldOfZeros
  <2>6. stock[p] = InitStock[p] /\ InitStock[p] \in Nat
    BY PosAssumption DEF Init
  <2>7. QED
    BY <2>5, <2>6
<1>4. StockMatchesHistory
  BY <1>3 DEF StockMatchesHistory
<1>5. \A t \in Tills : StockLeft(t) /\ LinesOfOrder(t)
  BY DEF Init, NoTx, StockLeft, LinesOfOrder
<1>6. QED
  BY <1>2, <1>4, <1>5 DEF StockInv

LEMMA StockSteps == PosInv /\ StockInv /\ [Next]_vars => StockInv'
<1> SUFFICES ASSUME PosInv, StockInv, [Next]_vars
             PROVE  StockInv'
  OBVIOUS
<1>1. CASE UNCHANGED vars
  <2>1. \A o \in Orders : Ended(o)' <=> Ended(o)
    BY <1>1 DEF vars, Ended
  <2>2. QED
    BY <1>1, <2>1, DeskKeepsStock DEF vars
<1>2. ASSUME NEW t \in Tills, RejectRow(t) \/ FailTx(t) \/ BreakDeadlock(t)
      PROVE  StockInv'
  BY <1>2, RollbackKeepsStock DEF RejectRow, FailTx, BreakDeadlock
<1>3. QED
  BY <1>1, <1>2, BeginKeepsStock, LockKeepsStock, CommitKeepsStock,
    BackOfficeKeepsStock DEF Next


-----------------------------------------------------------------------------
LEMMA PosHolds == Spec => [](PosInv /\ CouponInv /\ LockInv /\ StockInv)
BY PosStarts, PosSteps, CouponsStart, CouponSteps, LocksStart, LockSteps,
  StockStarts, StockSteps, PTL DEF Spec

\* An order's events tell the statuses it has had, and miss only one that the
\* back office is about to record, or died before it could.
THEOREM EventsTellHistory == Spec => []HistoryFaithful
<1>1. PosInv => HistoryFaithful
  BY DEF PosInv
<1>2. QED
  BY <1>1, PosHolds, PTL

\* Where SettledIsFinal can fail, and where it cannot: no sale, cancellation,
\* expiration, refund or administrator changes an order that is cancelled or
\* refunded, whatever they race with; only a shipment's delivery does.
THEOREM OnlyDeliveryLeavesSettled == Spec => [][LeftByDelivery]_vars
<1>1. PosInv /\ [Next]_vars => [LeftByDelivery]_vars
  BY PosSteps
<1>2. QED
  BY <1>1, PosHolds, PTL DEF Spec

\* A coupon's counter is the number of its sales that were neither cancelled nor
\* expired, and never passes its limit, whatever tills sell and roll back at once.
THEOREM CouponsMatchSales == Spec => []CouponMatchesSales
<1>1. CouponInv => CouponMatchesSales
  <2> SUFFICES ASSUME CouponInv, NEW c \in Coupons
               PROVE  /\ uses[c] = Cardinality({o \in Orders :
                           /\ sale[o].coupon = c
                           /\ \A e \in events[o] : e.by \notin {"cancel", "expire"}})
                      /\ uses[c] <= MaxUses[c]
    BY DEF CouponMatchesSales
  <2>1. Holders(c) = {o \in Orders :
           sale[o].coupon = c /\ \A e \in events[o] : e.by \notin {"cancel", "expire"}}
    BY DEF Holders, Cancelled
  <2>2. QED
    BY <2>1 DEF CouponInv, RowsOfCoupons
<1>2. QED
  BY <1>1, PosHolds, PTL

\* Every state is well formed; no counter is ever below zero.
THEOREM PosTyped == Spec => []TypeOK
<1>1. PosInv /\ CouponInv /\ LockInv /\ StockInv => TypeOK
  BY DEF TypeOK, PosInv, Shapes, CouponInv, RowsOfCoupons, LockInv, StockInv, OrderLines
<1>2. QED
  BY <1>1, PosHolds, PTL

\* The stock is what the records of the orders say: each sale takes its units
\* once, each end or return on record gives its units back once, and nothing
\* moves half or off the record, whatever requests race for the same order.
THEOREM StockMatchesRecords == Spec => []StockMatchesHistory
<1>1. StockInv => StockMatchesHistory
  BY DEF StockInv
<1>2. QED
  BY <1>1, PosHolds, PTL

\* Sorting the products is enough: transactions that wait for each other in a
\* circle always include a full refund, the one that locks its order last.
THEOREM DeadlocksNeedRefunds == Spec => []OnlyRefundsDeadlock
<1>1. PosInv /\ LockInv => OnlyRefundsDeadlock
  BY CyclesHaveRefunds DEF PosInv
<1>2. QED
  BY <1>1, PosHolds, PTL
=============================================================================
