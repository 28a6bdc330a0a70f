--------------------------- MODULE CatalogProofs ---------------------------
(***************************************************************************)
(* The back office, for every set of rows, editors, authors and keys: the  *)
(* foreign keys and indexes keep what the use cases check too early, only  *)
(* overlapping requests lose a change of a count, and a rating computed by *)
(* a request that runs alone is right.                                     *)
(***************************************************************************)
EXTENDS Catalog, TLAPS

\* A request that computes a product's rating anew.
RatingSteps == {"averaging", "counting", "rereading", "rating"}

\* A row that is not there has left nothing behind.
RowsBlank == \A r \in Rows :
  ~row[r].exists => row[r] = Absent /\ serial[r] = 0 /\ r \notin drifted

\* A review is of a product that is there; products are never deleted.
ReviewsFit == \A u \in Customers, p \in Products :
  /\ review[<<u, p>>].state = "none" => review[<<u, p>>] = NoReview
  /\ review[<<u, p>>].state # "none" => row[p].exists /\ review[<<u, p>>].stars \in Stars

\* What a request holds is fit to be written, whatever overlaps.
Fits(q) ==
  /\ q.step # "idle" => q.row \in Rows
  /\ q.step = "idle" => ~q.alone
  /\ q.step \in {"read", "rating"} =>
       q.new.exists /\ (q.row \in Products => q.new.parent # NoCategory)
  /\ q.step = "deleting" => q.row \notin Products
  /\ q.step \in RatingSteps \cup {"approving", "removing"} =>
       q.row \in Products /\ row[q.row].exists /\ q.by \in Customers
  /\ q.step = "removing" => q.mark = {}
  /\ q.mark # {} => q.by \in Customers /\ \E n \in Stars : q.mark = {<<q.by, n>>}

\* The approved reviews of its product, as request q sees them.
SeenBy(q) == {m \in Approved(q.row) : q.mark = {} \/ m[1] # q.by} \cup q.mark

\* What a request has read is still so, while it runs alone.
AsRead(q) ==
  q.alone =>
    /\ q.step = "read" =>
         /\ q.sets \/ q.new.count = row[q.row].count + q.adds
         /\ q.new.rating = row[q.row].rating
    /\ q.step = "rating" => q.new.count = row[q.row].count
    /\ q.step \in {"counting", "rereading", "rating"} => q.new.rating.average = SeenBy(q)
    /\ q.step \in {"rereading", "rating"} => q.new.rating.total = SeenBy(q)
    /\ q.step = "removing" => (q.adds = 1 <=> review[<<q.by, q.row>>].state = "approved")

\* A request that runs alone has its row for itself.
Lone(e) ==
  edit[e].alone => \A x \in Editors \ {e} : edit[x].row # edit[e].row

RequestsFit == \A e \in Editors : Fits(edit[e]) /\ AsRead(edit[e]) /\ Lone(e)

\* A product's rating is right, or a removal is about to set it.
Rated(p) == row[p].rating = [average |-> Approved(p), total |-> Approved(p)]
Owed(p) == \E e \in Editors :
  edit[e].row = p /\ edit[e].mark = {} /\ edit[e].step \in RatingSteps

RatingsHold == \A p \in Products \ unrated : Rated(p) \/ Owed(p)

CatalogInv ==
  /\ TypeOK /\ RowsBlank /\ ReviewsFit /\ RequestsFit
  /\ ReferencesResolve /\ KeysUnique /\ CountsKept /\ RatingsHold

-----------------------------------------------------------------------------
\* The tables.

LEMMA TablesApart ==
  /\ Categories \subseteq Rows /\ Products \subseteq Rows /\ Coupons \subseteq Rows
  /\ Banners \subseteq Rows /\ Settings \subseteq Rows /\ NoRow \notin Rows
  /\ Products \cap Categories = {} /\ Products \cap Coupons = {}
  /\ Products \cap Banners = {} /\ Products \cap Settings = {}
<1>1. /\ Tables[1] = Categories /\ Tables[2] = Products /\ Tables[3] = Coupons
      /\ Tables[4] = Banners /\ Tables[5] = Settings
  BY DEF Tables
<1>2. /\ Tables[2] \cap Tables[1] = {} /\ Tables[2] \cap Tables[3] = {}
      /\ Tables[2] \cap Tables[4] = {} /\ Tables[2] \cap Tables[5] = {}
  BY RowsAssumption
<1>3. QED
  BY <1>1, <1>2, RowsAssumption DEF Rows

LEMMA KindsApart ==
  ASSUME NEW c \in Categories, NEW p \in Products
  PROVE  Kind(c) # Kind(p)
<1>1. Tables[1] = Categories /\ Tables[2] = Products
  BY DEF Tables
<1>2. \A i \in 1..5 : (c \in Tables[i] <=> i = 1) /\ (p \in Tables[i] <=> i = 2)
  BY <1>1, RowsAssumption
<1>3. (CHOOSE i \in 1..5 : c \in Tables[i]) = 1 /\ (CHOOSE i \in 1..5 : p \in Tables[i]) = 2
  BY <1>2
<1>4. QED
  BY <1>1, <1>2, <1>3 DEF Kind

LEMMA RowsOfATable ==
  ASSUME NEW r \in Rows
  PROVE  /\ r \in Kind(r) /\ Kind(r) \subseteq Rows
         /\ \A n \in Kind(r) : Kind(n) = Kind(r)
<1>1. /\ Tables[1] = Categories /\ Tables[2] = Products /\ Tables[3] = Coupons
      /\ Tables[4] = Banners /\ Tables[5] = Settings
  BY DEF Tables
<1>2. \E i \in 1..5 : r \in Tables[i]
  BY <1>1 DEF Rows
<1>3. PICK i \in 1..5 : i = (CHOOSE j \in 1..5 : r \in Tables[j]) /\ r \in Tables[i]
  BY <1>2
<1>4. Kind(r) = Tables[i]
  BY <1>3 DEF Kind
<1>5. Tables[i] \subseteq Rows
  BY <1>1, <1>3 DEF Rows
<1>6. ASSUME NEW n \in Tables[i]
      PROVE  Kind(n) = Tables[i]
  <2>1. \A j \in 1..5 : n \in Tables[j] => j = i
    BY <1>6, RowsAssumption
  <2>2. (CHOOSE j \in 1..5 : n \in Tables[j]) = i
    BY <1>6, <2>1
  <2>3. QED
    BY <2>2 DEF Kind
<1>7. QED
  BY <1>3, <1>4, <1>5, <1>6

-----------------------------------------------------------------------------
\* The requests.

LEMMA Blank ==
  /\ Absent \in Row /\ ~Absent.exists /\ Absent.count = 0 /\ Absent.rating = NoRating
  /\ Absent.parent = NoCategory
  /\ NoRating \in Rating
  /\ NoEdit \in Edit /\ NoEdit.step = "idle" /\ NoEdit.row = NoRow /\ NoEdit.alone = FALSE
  /\ NoEdit.mark = {} /\ NoEdit.new = Absent /\ NoEdit.adds = 0 /\ NoEdit.by = NoCustomer
  /\ NoEdit.sets = FALSE
  /\ NoReview \in Review /\ NoReview.state = "none"
<1>1. NoRating \in Rating
  BY DEF NoRating, Rating
<1>2. Absent \in Row
  BY <1>1, CatalogAssumption DEF Absent, Row
<1>3. NoEdit \in Edit
  BY <1>2 DEF NoEdit, Edit
<1>4. QED
  BY <1>1, <1>2, <1>3 DEF Absent, NoEdit, NoReview, Review

SameButAlone(p, q) ==
  /\ p.step = q.step /\ p.row = q.row /\ p.new = q.new
  /\ p.by = q.by /\ p.mark = q.mark /\ p.adds = q.adds /\ p.sets = q.sets

\* A row is as it was, and the reviews of it.
Still(r) ==
  /\ row'[r].count = row[r].count /\ row'[r].rating = row[r].rating
  /\ \A u \in Customers : r \in Products => review'[<<u, r>>] = review[<<u, r>>]

\* A request that goes on waiting; it is told when its row changes.
Waits(x) ==
  /\ edit'[x] \in Edit /\ SameButAlone(edit'[x], edit[x])
  /\ edit'[x].alone => edit[x].alone /\ Still(edit[x].row)

\* Products stay.
Steady == \A p \in Products : row[p].exists => row'[p].exists

LEMMA DisturbTells ==
  ASSUME TypeOK, NEW r
  PROVE  /\ Disturb(r) \in [Editors -> Edit]
         /\ \A x \in Editors :
              /\ SameButAlone(Disturb(r)[x], edit[x])
              /\ Disturb(r)[x].alone => edit[x].alone /\ edit[x].row # r
<1>1. ASSUME NEW x \in Editors
      PROVE  LET q == [edit[x] EXCEPT !.alone = @ /\ edit[x].row # r]
             IN  q \in Edit /\ SameButAlone(q, edit[x]) /\ (q.alone => edit[x].alone /\ edit[x].row # r)
  <2>1. edit[x] \in Edit
    BY DEF TypeOK
  <2>2. PICK b \in BOOLEAN : b = (edit[x].alone /\ edit[x].row # r)
    OBVIOUS
  <2>3. PICK q : q = [edit[x] EXCEPT !.alone = b]
    OBVIOUS
  <2>4. q \in Edit /\ SameButAlone(q, edit[x]) /\ q.alone = b
    BY <2>1, <2>3 DEF Edit, SameButAlone
  <2>5. q = [edit[x] EXCEPT !.alone = @ /\ edit[x].row # r]
    BY <2>2, <2>3
  <2>6. QED
    BY <2>2, <2>4, <2>5
<1>2. QED
  BY <1>1 DEF Disturb

LEMMA SeenStays ==
  ASSUME NEW q, q.row \in Products, \A u \in Customers : review'[<<u, q.row>>] = review[<<u, q.row>>]
  PROVE  SeenBy(q)' = SeenBy(q)
<1>1. Approved(q.row)' = Approved(q.row)
  BY DEF Approved, Mark
<1>2. QED
  BY <1>1 DEF SeenBy

\* What a waiting request has read still holds.
LEMMA WaitingKeeps ==
  ASSUME Steady, NEW x \in Editors, Waits(x), Fits(edit[x]), AsRead(edit[x]), edit[x] \in Edit
  PROVE  Fits(edit[x])' /\ AsRead(edit[x])'
<1>1. PICK q \in Edit, p \in Edit : q = edit[x] /\ p = edit'[x]
  BY DEF Waits
<1>2. SameButAlone(p, q) /\ Fits(q) /\ AsRead(q)
  BY <1>1 DEF Waits
<1>3. (p.alone => q.alone /\ Still(q.row)) /\ p.alone \in BOOLEAN
  BY <1>1 DEF Waits, Edit
<1>4. Fits(p)'
  BY <1>2, <1>3 DEF Fits, SameButAlone, Steady, RatingSteps
<1>5. AsRead(p)'
  <2>1. SUFFICES ASSUME p.alone PROVE AsRead(p)'
    BY DEF AsRead
  <2>2. q.alone /\ Still(q.row)
    BY <1>3, <2>1
  <2>3. q.step \in {"counting", "rereading", "rating", "removing"} =>
           q.row \in Products /\ q.by \in Customers
    BY <1>2 DEF Fits, RatingSteps
  <2>4. q.row \in Products => SeenBy(q)' = SeenBy(q)
    BY <2>2, SeenStays DEF Still
  <2>5. SeenBy(p)' = SeenBy(q)'
    BY <1>2 DEF SameButAlone, SeenBy
  <2>6. QED
    BY <1>2, <2>2, <2>3, <2>4, <2>5 DEF AsRead, SameButAlone, Still
<1>6. QED
  BY <1>1, <1>4, <1>5 DEF Fits, AsRead, SeenBy

LEMMA WaitingLone ==
  ASSUME NEW x \in Editors, Waits(x), Fits(edit[x]), Lone(x),
         \A y \in Editors \ {x} :
           \/ edit'[y].row = edit[y].row \/ edit'[y].row = NoRow
           \/ edit'[x].alone => edit'[y].row # edit[x].row
  PROVE  Lone(x)'
<1>1. edit'[x].row = edit[x].row /\ (edit'[x].alone => edit[x].alone)
  BY DEF Waits, SameButAlone
<1>2. edit[x].alone => edit[x].row # NoRow
  BY TablesApart DEF Fits
<1>3. QED
  BY <1>1, <1>2 DEF Lone

-----------------------------------------------------------------------------
\* The rows.

LEMMA RowWritten ==
  ASSUME CatalogInv, NEW r \in Rows, NEW n \in Row, n.exists,
         KeyFree(r, n.key), r \in Products => n.parent # NoCategory,
         r \in Products \cup Categories => ParentFound(n.parent),
         row' = [row EXCEPT ![r] = n]
  PROVE  row' \in [Rows -> Row] /\ ReferencesResolve' /\ KeysUnique'
<1>1. row \in [Rows -> Row] /\ ReferencesResolve /\ KeysUnique
  BY DEF CatalogInv, RequestsFit, TypeOK
<1>2. row'[r] = n /\ \A s \in Rows \ {r} : row'[s] = row[s]
  BY <1>1
<1>3. row' \in [Rows -> Row]
  BY <1>1
<1>4. \A c \in Categories \cup {NoCategory} : ParentFound(c) => ParentFound(c)'
  BY <1>2, TablesApart DEF ParentFound
<1>5. \A s \in Rows : row[s].parent \in Categories \cup {NoCategory}
  BY <1>1 DEF Row
<1>6. n.parent \in Categories \cup {NoCategory}
  BY DEF Row
<1>7. ReferencesResolve'
  <2>1. ASSUME NEW s \in Products \cup Categories, row'[s].exists
        PROVE  ParentFound(row[s].parent)' /\ (s \in Products => row'[s].parent # NoCategory)
    <3>1. CASE s = r
      BY <1>2, <1>4, <1>6, <3>1 DEF ParentFound
    <3>2. CASE s # r
      <4>1. s \in Rows /\ row'[s] = row[s]
        BY <1>2, <3>2, TablesApart
      <4>2. ParentFound(row[s].parent) /\ (s \in Products => row[s].parent # NoCategory)
        BY <1>1, <2>1, <4>1 DEF ReferencesResolve
      <4>3. QED
        BY <1>4, <1>5, <4>1, <4>2 DEF ParentFound
    <3>3. QED
      BY <3>1, <3>2
  <2>2. QED
    BY <2>1 DEF ReferencesResolve
<1>8. KeysUnique'
  <2>1. ASSUME NEW s \in Rows, row'[s].exists, row'[s].key # NoKey,
               NEW m \in Kind(s) \ {s}, row'[m].exists
        PROVE  row'[m].key # row'[s].key
    <3>1. m \in Rows /\ s \in Kind(m)
      BY <2>1, RowsOfATable
    <3>2. CASE s = r
      BY <1>2, <2>1, <3>1, <3>2 DEF KeyFree
    <3>3. CASE m = r
      <4>1. row'[m].key # NoKey => row'[s].key # row'[m].key
        BY <1>2, <2>1, <3>1, <3>3 DEF KeyFree
      <4>2. QED
        BY <2>1, <4>1
    <3>4. CASE s # r /\ m # r
      BY <1>1, <1>2, <2>1, <3>1, <3>4 DEF KeysUnique, KeyFree
    <3>5. QED
      BY <3>2, <3>3, <3>4
  <2>2. QED
    BY <2>1 DEF KeysUnique, KeyFree
<1>9. QED
  BY <1>3, <1>7, <1>8

\* Row r's count is written: it is stated, added to, or no longer accounted for.
CountGoes(r, n, k, alone, sets) ==
  /\ row' = [row EXCEPT ![r] = n]
  /\ serial' = [serial EXCEPT ![r] = IF alone /\ sets THEN n.count ELSE Sum(r, k, alone)]
  /\ drifted' = IF ~alone THEN drifted \cup {r} ELSE IF sets THEN drifted \ {r} ELSE drifted

LEMMA CountWritten ==
  ASSUME CatalogInv, NEW r \in Rows, NEW n \in Row, n.exists, NEW k \in Int,
         NEW b \in BOOLEAN, NEW c \in BOOLEAN, CountGoes(r, n, k, b, c),
         b => c \/ n.count = row[r].count + k
  PROVE  /\ serial' \in [Rows -> Int] /\ drifted' \subseteq Rows
         /\ CountsKept' /\ RowsBlank'
<1>1. /\ row \in [Rows -> Row] /\ serial \in [Rows -> Int] /\ drifted \subseteq Rows
      /\ RowsBlank /\ CountsKept
  BY DEF CatalogInv, RequestsFit, TypeOK
<1>2. row'[r] = n /\ \A s \in Rows \ {r} : row'[s] = row[s]
  BY <1>1 DEF CountGoes
<1>3. PICK v : v = IF b /\ c THEN n.count ELSE Sum(r, k, b)
  OBVIOUS
<1>4. v \in Int /\ serial' = [serial EXCEPT ![r] = v]
  BY <1>1, <1>3 DEF CountGoes, Sum, Row
<1>5. serial' \in [Rows -> Int] /\ serial'[r] = v /\ \A s \in Rows \ {r} : serial'[s] = serial[s]
  BY <1>1, <1>4
<1>6. r \notin drifted => row[r].count = serial[r]
  BY <1>1, Blank DEF RowsBlank, CountsKept
<1>7. r \notin drifted' => n.count = v
  BY <1>3, <1>6 DEF CountGoes, Sum
<1>8. drifted' \subseteq Rows /\ \A s \in Rows \ {r} : s \in drifted' <=> s \in drifted
  BY <1>1 DEF CountGoes
<1>9. CountsKept'
  BY <1>1, <1>2, <1>5, <1>7, <1>8 DEF CountsKept
<1>10. RowsBlank'
  BY <1>1, <1>2, <1>5, <1>8 DEF RowsBlank
<1>11. QED
  BY <1>5, <1>8, <1>9, <1>10

LEMMA Parts ==
  ASSUME CatalogInv
  PROVE  /\ TypeOK /\ RowsBlank /\ ReviewsFit /\ RequestsFit
         /\ ReferencesResolve /\ KeysUnique /\ CountsKept /\ RatingsHold
BY DEF CatalogInv

LEMMA Whole ==
  ASSUME TypeOK', RowsBlank', ReviewsFit', RequestsFit',
         ReferencesResolve', KeysUnique', CountsKept', RatingsHold'
  PROVE  CatalogInv'
BY DEF CatalogInv

LEMMA OwedStays ==
  ASSUME NEW p, NEW e, edit[e].row # p \/ edit[e].mark # {} \/ edit[e].step \notin RatingSteps,
         \A x \in Editors \ {e} : SameButAlone(edit'[x], edit[x]), Owed(p)
  PROVE  Owed(p)'
BY DEF Owed, SameButAlone

LEMMA RatedStays ==
  ASSUME NEW p \in Products, Still(p), Rated(p)
  PROVE  Rated(p)'
<1>1. Approved(p)' = Approved(p)
  BY DEF Still, Approved, Mark
<1>2. QED
  BY <1>1 DEF Rated, Still

-----------------------------------------------------------------------------
\* What a step leaves of the requests.

LEMMA RequestsKept ==
  ASSUME CatalogInv, Steady, NEW e \in Editors, NEW q \in Edit, edit' \in [Editors -> Edit],
         edit'[e] = q, Fits(q)', AsRead(q)', \A x \in Editors \ {e} : Waits(x),
         \/ q.row = NoRow /\ ~q.alone
         \/ q.row = edit[e].row /\ (q.alone => edit[e].alone)
         \/ /\ q.alone => \A x \in Editors \ {e} : edit[x].row # q.row
            /\ \A x \in Editors \ {e} : edit'[x].alone => edit[x].row # q.row
  PROVE  RequestsFit'
<1>1. \A x \in Editors : Fits(edit[x]) /\ AsRead(edit[x]) /\ Lone(x) /\ edit[x] \in Edit
  BY DEF CatalogInv, RequestsFit, TypeOK
<1>2. \A x \in Editors \ {e} : edit'[x].row = edit[x].row
  BY DEF Waits, SameButAlone
<1>3. Fits(edit[e])' /\ AsRead(edit[e])'
  BY DEF Fits, AsRead, SeenBy
<1>4. Lone(e)'
  BY <1>1, <1>2 DEF Lone
<1>5. ASSUME NEW x \in Editors \ {e}
      PROVE  Fits(edit[x])' /\ AsRead(edit[x])' /\ Lone(x)'
  <2>1. Fits(edit[x])' /\ AsRead(edit[x])'
    BY <1>1, <1>5, WaitingKeeps
  <2>2. Lone(x)'
    BY <1>1, <1>2, <1>5, WaitingLone
  <2>3. QED
    BY <2>1, <2>2
<1>6. QED
  BY <1>3, <1>4, <1>5 DEF RequestsFit

LEMMA NobodyHome == Fits(NoEdit) /\ AsRead(NoEdit) /\ Fits(NoEdit)' /\ AsRead(NoEdit)'
BY Blank DEF Fits, AsRead, RatingSteps

\* Tables, reviews and what is known of the counts stay.
TablesStay == UNCHANGED <<row, review, serial, drifted, family>>

LEMMA TablesKept ==
  ASSUME CatalogInv, TablesStay
  PROVE  /\ Steady /\ \A r \in Rows : Still(r)
         /\ RowsBlank' /\ ReviewsFit' /\ ReferencesResolve' /\ KeysUnique' /\ CountsKept'
         /\ edit' \in [Editors -> Edit] /\ unrated' \subseteq Products => TypeOK'
         /\ \A p \in Products : Rated(p) => Rated(p)'
<1> USE DEF TablesStay
<1>1. Steady /\ \A r \in Rows : Still(r)
  BY DEF Steady, Still
<1>2. RowsBlank' /\ ReviewsFit' /\ CountsKept'
  BY Parts DEF RowsBlank, ReviewsFit, CountsKept
<1>3. ReferencesResolve' /\ KeysUnique'
  BY DEF CatalogInv, ReferencesResolve, KeysUnique, KeyFree, ParentFound
<1>4. edit' \in [Editors -> Edit] /\ unrated' \subseteq Products => TypeOK'
  BY DEF CatalogInv, RequestsFit, TypeOK
<1>5. \A p \in Products : Rated(p) => Rated(p)'
  BY DEF Rated, Approved
<1>6. QED
  BY <1>1, <1>2, <1>3, <1>4, <1>5

LEMMA BeginKeeps ==
  ASSUME CatalogInv, NEW e \in Editors, edit[e].step = "idle", NEW q \in Edit,
         q.row \in Rows, Fits(q), AsRead(q), q.alone => \A x \in Editors : edit[x].row # q.row,
         edit' = [Disturb(q.row) EXCEPT ![e] = q], TablesStay, UNCHANGED unrated
  PROVE  CatalogInv'
<1>1. /\ Disturb(q.row) \in [Editors -> Edit]
      /\ \A x \in Editors :
              /\ SameButAlone(Disturb(q.row)[x], edit[x])
              /\ Disturb(q.row)[x].alone => edit[x].alone /\ edit[x].row # q.row
  BY DisturbTells DEF CatalogInv
<1>2. /\ edit' \in [Editors -> Edit] /\ edit'[e] = q
      /\ \A x \in Editors \ {e} : edit'[x] = Disturb(q.row)[x]
  BY <1>1
<1>3. /\ Steady /\ \A r \in Rows : Still(r)
      /\ RowsBlank' /\ ReviewsFit' /\ ReferencesResolve' /\ KeysUnique' /\ CountsKept'
      /\ TypeOK'
      /\ \A p \in Products : Rated(p) => Rated(p)'
  BY <1>2, TablesKept DEF CatalogInv, RequestsFit, TypeOK
<1>4. \A x \in Editors : Fits(edit[x])
  BY DEF CatalogInv, RequestsFit
<1>5. \A x \in Editors \ {e} : Waits(x)
  BY <1>1, <1>2, <1>3, <1>4 DEF Waits, Fits
<1>6. Fits(q)' /\ AsRead(q)'
  BY DEF TablesStay, Fits, AsRead, SeenBy, Approved
<1>7. RequestsFit'
  BY <1>1, <1>2, <1>3, <1>5, <1>6, RequestsKept
<1>8. RatingsHold'
  <2>1. ASSUME NEW p \in Products, Owed(p)
        PROVE  Owed(p)'
    BY <1>5, <2>1, OwedStays DEF Waits, RatingSteps
  <2>2. QED
    BY <1>3, <2>1, Parts DEF RatingsHold, TablesStay
<1>9. QED
  BY <1>3, <1>7, <1>8, Whole

LEMMA ReadBegins ==
  ASSUME CatalogInv, NEW e \in Editors, NEW r \in Rows, NEW new \in Row, NEW adds \in Int,
         NEW sets \in BOOLEAN, Begin(e, r, "read", new, NoCustomer, adds, sets),
         new.exists, r \in Products => new.parent # NoCategory,
         sets \/ new.count = row[r].count + adds, new.rating = row[r].rating
  PROVE  CatalogInv'
<1>1. PICK b \in BOOLEAN : b = (\A x \in Editors : edit[x].row # r)
  OBVIOUS
<1>2. PICK q : q = [step |-> "read", row |-> r, new |-> new, by |-> NoCustomer, mark |-> {},
                    adds |-> adds, sets |-> sets, alone |-> b]
  OBVIOUS
<1>3. q \in Edit
  BY <1>2 DEF Edit
<1>4. Fits(q) /\ AsRead(q)
  BY <1>2 DEF Fits, AsRead, RatingSteps
<1>5. /\ edit[e].step = "idle" /\ TablesStay /\ UNCHANGED unrated
      /\ edit' = [Disturb(r) EXCEPT ![e] = q]
  BY <1>1, <1>2 DEF Begin, TablesStay
<1>6. q.row = r /\ q.alone = b
  BY <1>2
<1>7. QED
  BY <1>1, <1>3, <1>4, <1>5, <1>6, BeginKeeps

LEMMA EditBegins ==
  ASSUME CatalogInv, NEW e \in Editors, NEW r \in Rows, NEW new \in Row, NEW adds \in Int,
         BeginEdit(e, r, new, adds), new.exists, r \in Products => new.parent # NoCategory,
         new.count = row[r].count + adds, new.rating = row[r].rating
  PROVE  CatalogInv'
<1>1. PICK none \in BOOLEAN : none = FALSE
  OBVIOUS
<1>2. Begin(e, r, "read", new, NoCustomer, adds, none)
  BY <1>1 DEF BeginEdit
<1>3. QED
  BY <1>2, ReadBegins

LEMMA DeletionBegins ==
  ASSUME CatalogInv, NEW e \in Editors, NEW r \in Rows \ Products,
         Begin(e, r, "deleting", Absent, NoCustomer, 0, FALSE)
  PROVE  CatalogInv'
<1>1. PICK b \in BOOLEAN : b = (\A x \in Editors : edit[x].row # r)
  OBVIOUS
<1>2. PICK q : q = [step |-> "deleting", row |-> r, new |-> Absent, by |-> NoCustomer, mark |-> {},
                    adds |-> 0, sets |-> FALSE, alone |-> b]
  OBVIOUS
<1>3. q \in Edit
  BY <1>2, Blank DEF Edit
<1>4. Fits(q) /\ AsRead(q)
  BY <1>2 DEF Fits, AsRead, RatingSteps
<1>5. /\ edit[e].step = "idle" /\ TablesStay /\ UNCHANGED unrated
      /\ edit' = [Disturb(r) EXCEPT ![e] = q]
  BY <1>1, <1>2 DEF Begin, TablesStay
<1>6. q.row = r /\ q.alone = b
  BY <1>2
<1>7. QED
  BY <1>1, <1>3, <1>4, <1>5, <1>6, BeginKeeps

LEMMA RemovalBegins ==
  ASSUME CatalogInv, NEW e \in Editors, NEW u \in Customers, NEW p \in Products,
         BeginRemoval(e, u, p)
  PROVE  CatalogInv'
<1>1. PICK b \in BOOLEAN : b = (\A x \in Editors : edit[x].row # p)
  OBVIOUS
<1>2. PICK n : n = IF review[<<u, p>>].state = "approved" THEN 1 ELSE 0
  OBVIOUS
<1>3. PICK q : q = [step |-> "removing", row |-> p, new |-> Absent, by |-> u, mark |-> {},
                    adds |-> n, sets |-> FALSE, alone |-> b]
  OBVIOUS
<1>4. q \in Edit /\ p \in Rows
  BY <1>2, <1>3, Blank, TablesApart DEF Edit
<1>5. row[p].exists
  BY Parts DEF BeginRemoval, ReviewsFit
<1>6. Fits(q) /\ AsRead(q)
  BY <1>2, <1>3, <1>4, <1>5 DEF Fits, AsRead, RatingSteps
<1>7. /\ edit[e].step = "idle" /\ TablesStay /\ UNCHANGED unrated
      /\ edit' = [Disturb(p) EXCEPT ![e] = q]
  BY <1>1, <1>2, <1>3 DEF BeginRemoval, Begin, TablesStay
<1>8. q.row = p /\ q.alone = b
  BY <1>3
<1>9. QED
  BY <1>1, <1>4, <1>6, <1>7, <1>8, BeginKeeps

LEMMA ApprovalBegins ==
  ASSUME CatalogInv, NEW e \in Editors, NEW u \in Customers, NEW p \in Products,
         BeginApproval(e, u, p)
  PROVE  CatalogInv'
<1>1. PICK b \in BOOLEAN : b = (\A x \in Editors : edit[x].row # p)
  OBVIOUS
<1>2. PICK n : n = review[<<u, p>>].stars
  OBVIOUS
<1>3. PICK q : q = [NoEdit EXCEPT !.step = "approving", !.row = p, !.by = u,
                                  !.mark = {<<u, n>>}, !.alone = b]
  OBVIOUS
<1>4. row[p].exists /\ n \in Stars
  BY <1>2, Parts DEF BeginApproval, ReviewsFit
<1>5. {<<u, n>>} \in SUBSET Mark
  BY <1>4 DEF Mark
<1>6. /\ q.step = "approving" /\ q.row = p /\ q.by = u /\ q.mark = {<<u, n>>} /\ q.alone = b
      /\ q \in Edit /\ p \in Rows
  BY <1>3, <1>5, Blank, TablesApart DEF NoEdit, Edit
<1>7. Fits(q) /\ AsRead(q)
  BY <1>4, <1>6 DEF Fits, AsRead, RatingSteps
<1>8. /\ edit[e].step = "idle" /\ TablesStay /\ UNCHANGED unrated
      /\ edit' = [Disturb(p) EXCEPT ![e] = q]
  BY <1>1, <1>2, <1>3 DEF BeginApproval, TablesStay
<1>9. QED
  BY <1>1, <1>6, <1>7, <1>8, BeginKeeps

\* The rows as they are first made.
Made(new, n, c) ==
  new \in Row /\ new.exists /\ new.count = n /\ new.rating = NoRating /\ new.parent = c

LEMMA RowsMade ==
  ASSUME NEW k \in Keys \cup {NoKey}, NEW c \in Categories \cup {NoCategory}
  PROVE  /\ Made(New(k, c), 0, c)
         /\ \A n \in 0..MaxCount : Made([New(k, c) EXCEPT !.count = n], n, c)
         /\ \A a \in BOOLEAN : Made([New(k, c) EXCEPT !.active = a], 0, c)
<1>1. PICK w : w = New(k, c)
  OBVIOUS
<1>2. w = [exists |-> TRUE, active |-> TRUE, count |-> 0, key |-> k, parent |-> c, rating |-> NoRating]
  BY <1>1 DEF New, Absent
<1>3. w \in Row
  BY <1>2, Blank, CatalogAssumption DEF Row
<1>4. ASSUME NEW n \in 0..MaxCount
      PROVE  Made([w EXCEPT !.count = n], n, c)
  BY <1>2, <1>3 DEF Row, Made
<1>5. ASSUME NEW a \in BOOLEAN
      PROVE  Made([w EXCEPT !.active = a], 0, c)
  BY <1>2, <1>3 DEF Row, Made
<1>6. Made(w, 0, c)
  BY <1>2, <1>3 DEF Made
<1>7. QED
  BY <1>1, <1>4, <1>5, <1>6

LEMMA SettingsMade == Made(DefaultSettings, 0, NoCategory)
<1>1. PICK w : w = Absent
  OBVIOUS
<1>2. w \in Row /\ w.count = 0 /\ w.rating = NoRating /\ w.parent = NoCategory
  BY <1>1, Blank
<1>3. Made([w EXCEPT !.exists = TRUE], 0, NoCategory)
  BY <1>2 DEF Row, Made
<1>4. QED
  BY <1>1, <1>3 DEF DefaultSettings

LEMMA StartsKeep ==
  ASSUME CatalogInv, NEW e \in Editors, EditorStarts(e)
  PROVE  CatalogInv'
<1> USE CatalogAssumption
<1>1. /\ row \in [Rows -> Row] /\ ReferencesResolve
      /\ \A r \in Rows : ~row[r].exists => row[r] = Absent
  BY DEF CatalogInv, TypeOK, RowsBlank
<1>2. ASSUME NEW p \in Products, NEW k \in Keys, NEW c \in Categories, CreateProduct(e, p, k, c, 1)
      PROVE  CatalogInv'
  <2>1. PICK new : new = NewProduct(k, c, 1)
    OBVIOUS
  <2>2. new \in Row /\ new.exists /\ new.count = 1 /\ new.rating = NoRating /\ new.parent = c
    BY <2>1, RowsMade DEF NewProduct, Made
  <2>3. row[p] = Absent /\ p \in Rows
    BY <1>1, <1>2, TablesApart DEF CreateProduct, Fresh
  <2>4. BeginEdit(e, p, new, 1)
    BY <1>2, <2>1 DEF CreateProduct
  <2>5. new.count = row[p].count + 1 /\ new.rating = row[p].rating
    BY <2>2, <2>3, Blank
  <2>6. QED
    BY <2>2, <2>3, <2>4, <2>5, EditBegins
<1>3. ASSUME NEW r \in Rows, NEW new \in Row, BeginEdit(e, r, new, 0), new.exists,
             new.count = row[r].count, new.rating = row[r].rating,
             r \in Products => new.parent # NoCategory
      PROVE  CatalogInv'
  <2>1. row[r].count \in Int
    BY <1>1 DEF Row
  <2>2. QED
    BY <1>3, <2>1, EditBegins
<1>4. ASSUME NEW r \in Rows, NEW w \in Row, w = row[r], w.exists \/ r \notin Products,
             NEW new \in Row, new.exists,
             new.count = w.count, new.rating = w.rating,
             new.parent = w.parent \/ new.parent \in Categories \/ r \notin Products,
             BeginEdit(e, r, new, 0)
      PROVE  CatalogInv'
  <2>1. r \in Products => new.parent # NoCategory
    BY <1>1, <1>4, CatalogAssumption DEF ReferencesResolve
  <2>2. QED
    BY <1>3, <1>4, <2>1
<1>5. \A r \in Rows : \E w \in Row : w = row[r]
  BY <1>1
<1>6. ASSUME NEW p \in Products, NEW k \in Keys, NEW c \in Categories, NEW a \in BOOLEAN,
             NEW n \in 0..MaxCount, NEW sets \in BOOLEAN, UpdateProduct(e, p, k, c, a, n, sets)
      PROVE  CatalogInv'
  <2>1. PICK w \in Row : w = row[p]
    BY <1>5, TablesApart
  <2>2. PICK new : new = [w EXCEPT !.key = k, !.parent = c, !.active = a, !.count = n]
    OBVIOUS
  <2>3. /\ new \in Row /\ new.exists = w.exists /\ new.parent = c
        /\ new.count = n /\ new.rating = w.rating
    BY <2>1, <2>2 DEF Row
  <2>4. /\ Begin(e, p, "read", new, NoCustomer, 0, sets) /\ w.exists
        /\ sets \/ n = w.count
    BY <1>6, <2>1, <2>2 DEF UpdateProduct, ProductEdited
  <2>5. w.count \in Int /\ c # NoCategory /\ p \in Rows
    BY <2>1, TablesApart DEF Row
  <2>6. sets \/ new.count = row[p].count + 0
    BY <2>1, <2>3, <2>4, <2>5
  <2>7. /\ p \in Rows /\ new \in Row /\ 0 \in Int /\ new.exists /\ new.parent # NoCategory
        /\ new.rating = row[p].rating /\ Begin(e, p, "read", new, NoCustomer, 0, sets)
    BY <2>1, <2>3, <2>4, <2>5
  <2>8. QED
    BY <2>6, <2>7, ReadBegins
<1>7. ASSUME NEW p \in Products, NEW q \in {-1, 1}, AdjustStock(e, p, q)
      PROVE  CatalogInv'
  <2>1. PICK w \in Row : w = row[p]
    BY <1>5, TablesApart
  <2>2. PICK n : n = w.count + q
    OBVIOUS
  <2>3. n \in 0..MaxCount /\ w.exists /\ q \in Int
    BY <1>7, <2>1, <2>2 DEF AdjustStock
  <2>4. PICK new : new = [w EXCEPT !.count = n]
    OBVIOUS
  <2>5. /\ new \in Row /\ new.exists = w.exists /\ new.parent = w.parent /\ new.key = w.key
        /\ new.count = n /\ new.rating = w.rating
    BY <2>1, <2>3, <2>4 DEF Row
  <2>6. BeginEdit(e, p, new, q)
    BY <1>7, <2>1, <2>2, <2>4 DEF AdjustStock
  <2>7. w.parent # NoCategory
    BY <1>1, <2>1, <2>3 DEF ReferencesResolve
  <2>8. QED
    BY <2>1, <2>2, <2>3, <2>5, <2>6, <2>7, EditBegins, TablesApart
<1>8. ASSUME NEW p \in Products, DeleteProduct(e, p)
      PROVE  CatalogInv'
  <2>1. PICK w \in Row : w = row[p]
    BY <1>5, TablesApart
  <2>2. PICK new : new = [w EXCEPT !.active = FALSE]
    OBVIOUS
  <2>3. /\ new \in Row /\ new.exists = w.exists /\ new.parent = w.parent
        /\ new.count = w.count /\ new.rating = w.rating
    BY <2>1, <2>2 DEF Row
  <2>4. BeginEdit(e, p, new, 0) /\ w.exists
    BY <1>8, <2>1, <2>2 DEF DeleteProduct
  <2>5. QED
    BY <1>4, <2>1, <2>3, <2>4, TablesApart
<1>9. ASSUME NEW c \in Categories, NEW k \in Keys, NEW n \in Categories \cup {NoCategory},
             UpdateCategory(e, c, k, n)
      PROVE  CatalogInv'
  <2>1. PICK w \in Row : w = row[c]
    BY <1>5, TablesApart
  <2>2. PICK new : new = [w EXCEPT !.key = k, !.parent = n]
    OBVIOUS
  <2>3. /\ new \in Row /\ new.exists = w.exists
        /\ new.count = w.count /\ new.rating = w.rating
    BY <2>1, <2>2 DEF Row
  <2>4. BeginEdit(e, c, new, 0) /\ w.exists
    BY <1>9, <2>1, <2>2 DEF UpdateCategory, CategoryEdited
  <2>5. QED
    BY <1>4, <2>1, <2>3, <2>4, TablesApart
<1>10. ASSUME NEW c \in Coupons, NEW k \in Keys, NEW a \in BOOLEAN, UpdateCoupon(e, c, k, a)
       PROVE  CatalogInv'
  <2>1. PICK w \in Row : w = row[c]
    BY <1>5, TablesApart
  <2>2. PICK new : new = [w EXCEPT !.key = k, !.active = a]
    OBVIOUS
  <2>3. /\ new \in Row /\ new.exists = w.exists
        /\ new.count = w.count /\ new.rating = w.rating
    BY <2>1, <2>2 DEF Row
  <2>4. BeginEdit(e, c, new, 0) /\ w.exists
    BY <1>10, <2>1, <2>2 DEF UpdateCoupon, CouponEdited
  <2>5. QED
    BY <1>4, <2>1, <2>3, <2>4, TablesApart
<1>11. ASSUME NEW b \in Banners, NEW a \in BOOLEAN, UpdateBanner(e, b, a)
       PROVE  CatalogInv'
  <2>1. PICK w \in Row : w = row[b]
    BY <1>5, TablesApart
  <2>2. PICK new : new = [w EXCEPT !.active = a]
    OBVIOUS
  <2>3. /\ new \in Row /\ new.exists = w.exists
        /\ new.count = w.count /\ new.rating = w.rating
    BY <2>1, <2>2 DEF Row
  <2>4. BeginEdit(e, b, new, 0) /\ w.exists
    BY <1>11, <2>1, <2>2 DEF UpdateBanner, BannerEdited
  <2>5. QED
    BY <1>4, <2>1, <2>3, <2>4, TablesApart
<1>12. ASSUME NEW s \in Settings, NEW a \in BOOLEAN, UpdateStoreSettings(e, s, a)
       PROVE  CatalogInv'
  <2>1. PICK w \in Row : w = row[s]
    BY <1>5, TablesApart
  <2>2. PICK new : new = [w EXCEPT !.exists = TRUE, !.active = a]
    OBVIOUS
  <2>3. /\ new \in Row /\ new.exists
        /\ new.count = w.count /\ new.rating = w.rating
    BY <2>1, <2>2 DEF Row
  <2>4. BeginEdit(e, s, new, 0)
    BY <1>12, <2>1, <2>2 DEF UpdateStoreSettings, SettingsEdited
  <2>5. s \in Rows \ Products
    BY TablesApart
  <2>6. QED
    BY <1>4, <2>1, <2>3, <2>4, <2>5
<1>13. ASSUME NEW r \in Rows \ Products, ~row[r].exists, NEW new \in Row, new.exists,
              new.count = 0, new.rating = NoRating, BeginEdit(e, r, new, 0)
       PROVE  CatalogInv'
  <2>1. row[r] = Absent
    BY <1>1, <1>13
  <2>2. QED
    BY <1>3, <1>13, <2>1, Blank
<1>14. ASSUME NEW c \in Categories, NEW k \in Keys, NEW n \in Categories \cup {NoCategory},
              CreateCategory(e, c, k, n)
       PROVE  CatalogInv'
  <2>1. PICK new : new = NewCategory(k, n)
    OBVIOUS
  <2>2. new \in Row /\ new.exists /\ new.count = 0 /\ new.rating = NoRating
    BY <2>1, RowsMade DEF NewCategory, Made
  <2>3. BeginEdit(e, c, new, 0) /\ ~row[c].exists
    BY <1>14, <2>1 DEF CreateCategory, Fresh
  <2>4. QED
    BY <1>13, <2>2, <2>3, TablesApart
<1>15. ASSUME NEW c \in Coupons, NEW k \in Keys, CreateCoupon(e, c, k)
       PROVE  CatalogInv'
  <2>1. PICK new : new = NewCoupon(k)
    OBVIOUS
  <2>2. new \in Row /\ new.exists /\ new.count = 0 /\ new.rating = NoRating
    BY <2>1, RowsMade DEF NewCoupon, Made
  <2>3. BeginEdit(e, c, new, 0) /\ ~row[c].exists
    BY <1>15, <2>1 DEF CreateCoupon, Fresh
  <2>4. QED
    BY <1>13, <2>2, <2>3, TablesApart
<1>16. ASSUME NEW b \in Banners, NEW a \in BOOLEAN, CreateBanner(e, b, a)
       PROVE  CatalogInv'
  <2>1. PICK new : new = NewBanner(a)
    OBVIOUS
  <2>2. new \in Row /\ new.exists /\ new.count = 0 /\ new.rating = NoRating
    BY <2>1, RowsMade DEF NewBanner, Made
  <2>3. BeginEdit(e, b, new, 0) /\ ~row[b].exists
    BY <1>16, <2>1 DEF CreateBanner, Fresh
  <2>4. QED
    BY <1>13, <2>2, <2>3, TablesApart
<1>17. ASSUME NEW s \in Settings, GetStoreSettings(e, s)
       PROVE  CatalogInv'
  <2>1. PICK new : new = DefaultSettings
    OBVIOUS
  <2>2. new \in Row /\ new.exists /\ new.count = 0 /\ new.rating = NoRating
    BY <2>1, SettingsMade DEF Made
  <2>3. BeginEdit(e, s, new, 0) /\ ~row[s].exists
    BY <1>17, <2>1 DEF GetStoreSettings
  <2>4. QED
    BY <1>13, <2>2, <2>3, TablesApart
<1>18. ASSUME NEW c \in Categories, DeleteCategory(e, c)
       PROVE  CatalogInv'
  BY <1>18, DeletionBegins, TablesApart DEF DeleteCategory
<1>19. ASSUME NEW r \in Coupons \cup Banners, DeleteAny(e, r)
       PROVE  CatalogInv'
  BY <1>19, DeletionBegins, TablesApart DEF DeleteAny
<1>20. ASSUME NEW u \in Customers, NEW p \in Products, BeginApproval(e, u, p) \/ BeginRemoval(e, u, p)
       PROVE  CatalogInv'
  BY <1>20, ApprovalBegins, RemovalBegins
<1>21. QED
  BY <1>2, <1>6, <1>7, <1>8, <1>9, <1>10, <1>11, <1>12, <1>14, <1>15, <1>16, <1>17, <1>18,
    <1>19, <1>20 DEF EditorStarts, DeleteCoupon, DeleteBanner

-----------------------------------------------------------------------------
\* The statements that only read, and requests that end with nothing written.

LEMMA MoveKeeps ==
  ASSUME CatalogInv, NEW e \in Editors, NEW q \in Edit, edit' = [edit EXCEPT ![e] = q],
         TablesStay, UNCHANGED unrated, q.row = edit[e].row, q.alone = edit[e].alone,
         q.mark = edit[e].mark, q.step \in RatingSteps, Fits(q), AsRead(q)
  PROVE  CatalogInv'
<1>1. TypeOK /\ edit \in [Editors -> Edit] /\ unrated \subseteq Products
  BY DEF CatalogInv, RequestsFit, TypeOK
<1>2. edit' \in [Editors -> Edit] /\ edit'[e] = q /\ \A x \in Editors \ {e} : edit'[x] = edit[x]
  BY <1>1
<1>3. /\ Steady /\ \A r \in Rows : Still(r)
      /\ RowsBlank' /\ ReviewsFit' /\ ReferencesResolve' /\ KeysUnique' /\ CountsKept'
      /\ TypeOK'
      /\ \A p \in Products : Rated(p) => Rated(p)'
  BY <1>1, <1>2, TablesKept
<1>4. \A x \in Editors \ {e} : Waits(x)
  BY <1>1, <1>2, <1>3, Parts DEF Waits, SameButAlone, RequestsFit, Fits
<1>5. Fits(q)' /\ AsRead(q)'
  BY DEF TablesStay, Fits, AsRead, SeenBy, Approved
<1>6. RequestsFit'
  BY <1>2, <1>3, <1>4, <1>5, RequestsKept
<1>7. RatingsHold'
  <2>1. ASSUME NEW p \in Products, Owed(p)
        PROVE  Owed(p)'
    <3>1. PICK x \in Editors : edit[x].row = p /\ edit[x].mark = {} /\ edit[x].step \in RatingSteps
      BY <2>1 DEF Owed
    <3>2. edit'[x].row = p /\ edit'[x].mark = {} /\ edit'[x].step \in RatingSteps
      BY <1>2, <3>1
    <3>3. QED
      BY <3>2 DEF Owed
  <2>2. QED
    BY <1>3, <2>1, Parts DEF RatingsHold
<1>8. QED
  BY <1>3, <1>6, <1>7, Whole

LEMMA AverageKeeps ==
  ASSUME CatalogInv, NEW e \in Editors, AverageReviews(e)
  PROVE  CatalogInv'
<1>1. PICK g \in Edit : g = edit[e] /\ Fits(g) /\ AsRead(g)
  BY DEF CatalogInv, RequestsFit, TypeOK
<1>2. PICK A : A = SeenBy(g)
  OBVIOUS
<1>3. Seen(e) = A /\ A \in SUBSET Mark
  BY <1>1, <1>2 DEF SeenBy, Seen, Approved, Edit
<1>4. PICK n : n = [g.new EXCEPT !.rating = [g.new.rating EXCEPT !.average = A]]
  OBVIOUS
<1>5. n \in Row /\ n.rating.average = A
  BY <1>1, <1>3, <1>4 DEF Edit, Row, Rating
<1>6. PICK q : q = [g EXCEPT !.step = "counting", !.new = n]
  OBVIOUS
<1>7. /\ q \in Edit /\ q.step = "counting" /\ q.new = n /\ q.row = g.row /\ q.by = g.by
      /\ q.mark = g.mark /\ q.alone = g.alone
  BY <1>1, <1>5, <1>6 DEF Edit
<1>8. edit' = [edit EXCEPT ![e] = q] /\ TablesStay /\ UNCHANGED unrated
      /\ g.step \in {"approving", "averaging"}
  BY <1>1, <1>3, <1>4, <1>6 DEF AverageReviews, TablesStay, Edit, Row, Rating
<1>9. Fits(q)
  BY <1>1, <1>7, <1>8 DEF Fits, RatingSteps
<1>10. AsRead(q)
  BY <1>2, <1>5, <1>7 DEF AsRead, SeenBy
<1>11. QED
  BY <1>1, <1>7, <1>8, <1>9, <1>10, MoveKeeps DEF RatingSteps

LEMMA CountKeeps ==
  ASSUME CatalogInv, NEW e \in Editors, CountReviews(e)
  PROVE  CatalogInv'
<1>1. PICK g \in Edit : g = edit[e] /\ Fits(g) /\ AsRead(g)
  BY DEF CatalogInv, RequestsFit, TypeOK
<1>2. PICK A : A = SeenBy(g)
  OBVIOUS
<1>3. Seen(e) = A /\ A \in SUBSET Mark
  BY <1>1, <1>2 DEF SeenBy, Seen, Approved, Edit
<1>4. PICK n : n = [g.new EXCEPT !.rating = [g.new.rating EXCEPT !.total = A]]
  OBVIOUS
<1>5. n \in Row /\ n.rating.total = A /\ n.rating.average = g.new.rating.average
  BY <1>1, <1>3, <1>4 DEF Edit, Row, Rating
<1>6. PICK q : q = [g EXCEPT !.step = "rereading", !.new = n]
  OBVIOUS
<1>7. /\ q \in Edit /\ q.step = "rereading" /\ q.new = n /\ q.row = g.row /\ q.by = g.by
      /\ q.mark = g.mark /\ q.alone = g.alone
  BY <1>1, <1>5, <1>6 DEF Edit
<1>8. edit' = [edit EXCEPT ![e] = q] /\ TablesStay /\ UNCHANGED unrated /\ g.step = "counting"
  BY <1>1, <1>3, <1>4, <1>6 DEF CountReviews, TablesStay, Edit, Row, Rating
<1>9. Fits(q)
  BY <1>1, <1>7, <1>8 DEF Fits, RatingSteps
<1>10. AsRead(q)
  <2>1. SeenBy(q) = SeenBy(g)
    BY <1>7 DEF SeenBy
  <2>2. QED
    BY <1>1, <1>2, <1>5, <1>7, <1>8, <2>1 DEF AsRead
<1>11. QED
  BY <1>1, <1>7, <1>8, <1>9, <1>10, MoveKeeps DEF RatingSteps

LEMMA RereadKeeps ==
  ASSUME CatalogInv, NEW e \in Editors, RereadProduct(e)
  PROVE  CatalogInv'
<1>1. PICK g \in Edit : g = edit[e] /\ Fits(g) /\ AsRead(g)
  BY DEF CatalogInv, RequestsFit, TypeOK
<1>2. g.step = "rereading" /\ g.row \in Rows /\ row[g.row] \in Row
  BY <1>1 DEF RereadProduct, Fits, CatalogInv, RequestsFit, TypeOK
<1>3. PICK w \in Row, t \in Rating : w = row[g.row] /\ t = g.new.rating
  BY <1>1, <1>2 DEF Edit, Row
<1>4. PICK n : n = [w EXCEPT !.rating = t]
  OBVIOUS
<1>5. /\ n \in Row /\ n.rating = t /\ n.count = w.count /\ n.key = w.key
      /\ n.parent = w.parent /\ n.exists = w.exists
  BY <1>3, <1>4 DEF Row
<1>6. PICK q : q = [g EXCEPT !.step = "rating", !.new = n]
  OBVIOUS
<1>7. /\ q \in Edit /\ q.step = "rating" /\ q.new = n /\ q.row = g.row /\ q.by = g.by
      /\ q.mark = g.mark /\ q.alone = g.alone
  BY <1>1, <1>5, <1>6 DEF Edit
<1>8. edit' = [edit EXCEPT ![e] = q] /\ TablesStay /\ UNCHANGED unrated
  BY <1>1, <1>3, <1>4, <1>6 DEF RereadProduct, TablesStay, Edit
<1>9. Fits(q)
  <2>1. w.exists /\ w.parent # NoCategory
    BY <1>1, <1>2, <1>3, Parts DEF Fits, RatingSteps, ReferencesResolve
  <2>2. QED
    BY <1>1, <1>2, <1>5, <1>7, <2>1 DEF Fits, RatingSteps
<1>10. AsRead(q)
  <2>1. SeenBy(q) = SeenBy(g)
    BY <1>7 DEF SeenBy
  <2>2. QED
    BY <1>1, <1>2, <1>3, <1>5, <1>7, <2>1 DEF AsRead
<1>11. QED
  BY <1>1, <1>7, <1>8, <1>9, <1>10, MoveKeeps DEF RatingSteps

LEMMA LeaveKeeps ==
  ASSUME CatalogInv, NEW e \in Editors, edit' = Ended(e), TablesStay,
         unrated \subseteq unrated', unrated' \subseteq Products,
         edit[e].mark = {} /\ edit[e].step \in RatingSteps => edit[e].row \in unrated'
  PROVE  CatalogInv'
<1>1. edit \in [Editors -> Edit]
  BY DEF CatalogInv, RequestsFit, TypeOK
<1>2. edit' \in [Editors -> Edit] /\ edit'[e] = NoEdit /\ \A x \in Editors \ {e} : edit'[x] = edit[x]
  BY <1>1, Blank DEF Ended
<1>3. /\ Steady /\ \A r \in Rows : Still(r)
      /\ RowsBlank' /\ ReviewsFit' /\ ReferencesResolve' /\ KeysUnique' /\ CountsKept'
      /\ TypeOK'
      /\ \A p \in Products : Rated(p) => Rated(p)'
  BY <1>1, <1>2, TablesKept
<1>4. \A x \in Editors \ {e} : Waits(x)
  BY <1>1, <1>2, <1>3, Parts DEF Waits, SameButAlone, RequestsFit, Fits
<1>5. RequestsFit'
  BY <1>2, <1>3, <1>4, NobodyHome, Blank, RequestsKept
<1>6. RatingsHold'
  <2>1. ASSUME NEW p \in Products \ unrated', Owed(p)
        PROVE  Owed(p)'
    BY <1>4, <2>1, OwedStays DEF Waits
  <2>2. QED
    BY <1>3, <2>1, Parts DEF RatingsHold
<1>7. QED
  BY <1>3, <1>5, <1>6, Whole

LEMMA AbandonKeeps ==
  ASSUME CatalogInv, NEW e \in Editors, Abandoned(e)
  PROVE  CatalogInv'
<1>1. Fits(edit[e]) /\ unrated \subseteq Products
  BY DEF CatalogInv, RequestsFit, TypeOK
<1>2. edit[e].step \in RatingSteps => edit[e].row \in Products
  BY <1>1 DEF Fits
<1>3. edit' = Ended(e) /\ TablesStay
  BY DEF Abandoned, TablesStay
<1>4. unrated' = IF edit[e].step \in RatingSteps /\ edit[e].mark = {}
                 THEN unrated \cup {edit[e].row} ELSE unrated
  BY DEF Abandoned, RatingSteps
<1>5. QED
  BY <1>1, <1>2, <1>3, <1>4, LeaveKeeps

-----------------------------------------------------------------------------
\* The statements that write.

LEMMA DisturbedWaits ==
  ASSUME CatalogInv, NEW x \in Editors, NEW r, edit'[x] = Disturb(r)[x],
         \A s \in Rows \ {r} : Still(s)
  PROVE  Waits(x)
<1>1. /\ Disturb(r) \in [Editors -> Edit] /\ SameButAlone(Disturb(r)[x], edit[x])
      /\ Disturb(r)[x].alone => edit[x].alone /\ edit[x].row # r
  BY DisturbTells DEF CatalogInv
<1>2. edit[x].alone => edit[x].row \in Rows
  BY DEF CatalogInv, RequestsFit, Fits
<1>3. QED
  BY <1>1, <1>2 DEF Waits

LEMMA EndedTells ==
  ASSUME CatalogInv, NEW e \in Editors, NEW r, edit' = EndedAlone(e, r)
  PROVE  /\ edit' \in [Editors -> Edit] /\ edit'[e] = NoEdit
         /\ \A x \in Editors \ {e} : edit'[x] = Disturb(r)[x]
<1>1. Disturb(r) \in [Editors -> Edit]
  BY DisturbTells DEF CatalogInv
<1>2. QED
  BY <1>1, Blank DEF EndedAlone

\* A statement on row r that ends its request.
LEMMA EndedRequests ==
  ASSUME CatalogInv, NEW e \in Editors, NEW r, edit' = EndedAlone(e, r), Steady,
         \A s \in Rows \ {r} : Still(s)
  PROVE  edit' \in [Editors -> Edit] /\ RequestsFit' /\ \A x \in Editors \ {e} : Waits(x)
<1>1. \A x \in Editors \ {e} : Waits(x)
  BY EndedTells, DisturbedWaits
<1>2. QED
  BY <1>1, EndedTells, NobodyHome, Blank, RequestsKept

\* Whoever has a row for himself: nobody else owes its rating.
LEMMA OwedElsewhere ==
  ASSUME CatalogInv, NEW e \in Editors, edit[e].alone, Owed(edit[e].row)
  PROVE  edit[e].mark = {} /\ edit[e].step \in RatingSteps
BY DEF CatalogInv, RequestsFit, Owed, Lone

\* The ratings of the other products, when row r is written.
LEMMA OtherRatings ==
  ASSUME CatalogInv, NEW e \in Editors, NEW r, \A x \in Editors \ {e} : Waits(x),
         edit[e].row = r, \A s \in Rows \ {r} : Still(s),
         NEW p \in Products \ {r}, Rated(p) \/ Owed(p)
  PROVE  Rated(p)' \/ Owed(p)'
<1>1. CASE Rated(p)
  BY <1>1, RatedStays, TablesApart
<1>2. CASE Owed(p)
  BY <1>2, OwedStays DEF Waits
<1>3. QED
  BY <1>1, <1>2

LEMMA SaveKeeps ==
  ASSUME CatalogInv, NEW e \in Editors, SaveRow(e)
  PROVE  CatalogInv'
<1>1. PICK q \in Edit : q = edit[e] /\ Fits(q) /\ AsRead(q)
  BY DEF CatalogInv, RequestsFit, TypeOK
<1>2. PICK r \in Rows, n \in Row : r = q.row /\ n = q.new
  BY <1>1 DEF SaveRow, Fits, Edit
<1>3. /\ TypeOK /\ RowsBlank /\ ReviewsFit /\ RatingsHold /\ row \in [Rows -> Row]
      /\ unrated \subseteq Products
  BY Parts DEF TypeOK
<1>4. /\ q.step = "read" /\ n.exists /\ q.adds \in Int
      /\ q.alone \in BOOLEAN /\ q.sets \in BOOLEAN
      /\ r \in Products => n.parent # NoCategory
  BY <1>1, <1>2 DEF SaveRow, Fits, Edit
<1>5. CASE ~(KeyUnique(r, n.key) /\ ReferenceHolds(n.parent))
  <2>1. edit' = Ended(e) /\ TablesStay /\ UNCHANGED unrated
    BY <1>1, <1>2, <1>5 DEF SaveRow, TablesStay
  <2>2. QED
    BY <1>1, <1>3, <1>4, <2>1, LeaveKeeps DEF RatingSteps
<1>6. CASE KeyUnique(r, n.key) /\ ReferenceHolds(n.parent)
  <2>1. /\ CountGoes(r, n, q.adds, q.alone, q.sets)
        /\ unrated' = (IF q.alone THEN unrated ELSE unrated \cup ({r} \cap Products))
        /\ edit' = EndedAlone(e, r) /\ UNCHANGED <<review, family>>
    BY <1>1, <1>2, <1>6 DEF SaveRow, CountGoes
  <2>2. row'[r] = n /\ \A s \in Rows \ {r} : row'[s] = row[s]
    BY <1>3, <2>1 DEF CountGoes
  <2>3. row' \in [Rows -> Row] /\ ReferencesResolve' /\ KeysUnique'
    BY <1>4, <1>6, <2>1, RowWritten DEF KeyUnique, ReferenceHolds, CountGoes
  <2>4. q.alone =>
          (q.sets \/ n.count = row[r].count + q.adds) /\ n.rating = row[r].rating
    BY <1>1, <1>2, <1>4 DEF AsRead
  <2>5. serial' \in [Rows -> Int] /\ drifted' \subseteq Rows /\ CountsKept' /\ RowsBlank'
    BY <1>4, <2>1, <2>4, CountWritten
  <2>6. Steady /\ \A s \in Rows \ {r} : Still(s)
    BY <1>4, <2>1, <2>2, TablesApart DEF Steady, Still
  <2>7. ReviewsFit'
    BY <1>3, <2>1, <2>6 DEF ReviewsFit, Steady
  <2>8. edit' \in [Editors -> Edit] /\ RequestsFit' /\ \A x \in Editors \ {e} : Waits(x)
    BY <2>1, <2>6, EndedRequests
  <2>9. RatingsHold'
    <3>1. ASSUME NEW p \in Products \ unrated', p = r
          PROVE  Rated(p)'
      <4>1. q.alone /\ p \notin unrated
        BY <2>1, <3>1
      <4>2. ~Owed(p)
        BY <1>1, <1>2, <1>4, <3>1, <4>1, OwedElsewhere DEF RatingSteps
      <4>3. Rated(p)
        BY <1>3, <4>1, <4>2 DEF RatingsHold
      <4>4. Approved(p)' = Approved(p)
        BY <2>1 DEF Approved
      <4>5. QED
        BY <2>2, <2>4, <3>1, <4>1, <4>3, <4>4 DEF Rated
    <3>2. ASSUME NEW p \in Products \ unrated', p # r
          PROVE  Rated(p)' \/ Owed(p)'
      <4>1. p \notin unrated
        BY <2>1, <3>2
      <4>2. QED
        BY <1>1, <1>2, <1>3, <2>6, <2>8, <3>2, <4>1, OtherRatings DEF RatingsHold
    <3>3. QED
      BY <3>1, <3>2 DEF RatingsHold
  <2>10. TypeOK'
    BY <1>3, <2>1, <2>3, <2>5, <2>8 DEF TypeOK
  <2>11. QED
    BY <2>3, <2>5, <2>7, <2>8, <2>9, <2>10, Whole
<1>7. QED
  BY <1>5, <1>6

LEMMA RemoveRowKeeps ==
  ASSUME CatalogInv, NEW e \in Editors, RemoveRow(e)
  PROVE  CatalogInv'
<1>1. PICK q \in Edit : q = edit[e] /\ Fits(q)
  BY DEF CatalogInv, RequestsFit, TypeOK
<1>2. PICK r \in Rows \ Products : r = q.row /\ q.step = "deleting"
  BY <1>1 DEF RemoveRow, Fits
<1>3. /\ TypeOK /\ RowsBlank /\ ReviewsFit /\ RatingsHold /\ row \in [Rows -> Row]
      /\ ReferencesResolve /\ KeysUnique /\ CountsKept
      /\ unrated \subseteq Products /\ serial \in [Rows -> Int] /\ drifted \subseteq Rows
  BY Parts DEF TypeOK
<1>4. CASE HasProducts(r)
  <2>1. edit' = Ended(e) /\ TablesStay /\ UNCHANGED unrated
    BY <1>1, <1>2, <1>4 DEF RemoveRow, TablesStay
  <2>2. QED
    BY <1>1, <1>2, <1>3, <2>1, LeaveKeeps DEF RatingSteps
<1>5. CASE ~HasProducts(r)
  <2>1. /\ row' = [n \in Rows |-> IF n = r THEN Absent
                   ELSE IF row[n].parent = r THEN [row[n] EXCEPT !.parent = NoCategory]
                   ELSE row[n]]
        /\ serial' = [serial EXCEPT ![r] = 0] /\ drifted' = drifted \ {r}
        /\ edit' = EndedAlone(e, r) /\ UNCHANGED <<review, unrated, family>>
    BY <1>1, <1>2, <1>5 DEF RemoveRow
  <2>2. ASSUME NEW n \in Rows \ {r}
        PROVE  /\ row'[n] \in Row /\ row'[n].exists = row[n].exists
               /\ row'[n].count = row[n].count /\ row'[n].key = row[n].key
               /\ row'[n].rating = row[n].rating
               /\ row'[n].parent = IF row[n].parent = r THEN NoCategory ELSE row[n].parent
               /\ row[n] = Absent => row'[n] = Absent
    <3>1. PICK w \in Row : w = row[n]
      BY <1>3
    <3>2. PICK v : v = [w EXCEPT !.parent = NoCategory]
      OBVIOUS
    <3>3. /\ v \in Row /\ v.exists = w.exists /\ v.count = w.count /\ v.key = w.key
          /\ v.rating = w.rating /\ v.parent = NoCategory
      BY <3>1, <3>2 DEF Row
    <3>4. w.parent = NoCategory => v = w
      BY <3>1, <3>2 DEF Row
    <3>5. row'[n] = IF w.parent = r THEN v ELSE w
      BY <2>1, <3>1, <3>2
    <3>6. QED
      BY <3>1, <3>3, <3>4, <3>5, Blank
  <2>3. row'[r] = Absent
    BY <2>1
  <2>4. row' \in [Rows -> Row]
    <3>1. row' = [n \in Rows |-> row'[n]]
      BY <2>1
    <3>2. \A n \in Rows : row'[n] \in Row
      BY <2>2, <2>3, Blank
    <3>3. QED
      BY <3>1, <3>2
  <2>5. ReferencesResolve'
    <3>1. ASSUME NEW s \in Products \cup Categories, row'[s].exists
          PROVE  /\ row'[s].parent # NoCategory => row'[row'[s].parent].exists
                 /\ s \in Products => row'[s].parent # NoCategory
      <4>1. s \in Rows \ {r} /\ row[s].exists
        BY <2>2, <2>3, <3>1, Blank, TablesApart
      <4>2. /\ row[s].parent # NoCategory => row[row[s].parent].exists
            /\ s \in Products => row[s].parent # NoCategory /\ row[s].parent # r
        BY <1>3, <1>5, <3>1, <4>1 DEF ReferencesResolve, ParentFound, HasProducts
      <4>3. row[s].parent # NoCategory => row[s].parent \in Rows
        BY <1>3, <4>1, TablesApart DEF Row
      <4>4. QED
        BY <2>2, <4>1, <4>2, <4>3
    <3>2. QED
      BY <3>1 DEF ReferencesResolve, ParentFound
  <2>6. KeysUnique'
    <3>1. ASSUME NEW s \in Rows, row'[s].exists, row'[s].key # NoKey,
                 NEW m \in Kind(s) \ {s}, row'[m].exists
          PROVE  row'[m].key # row'[s].key
      <4>1. m \in Rows
        BY <3>1, RowsOfATable
      <4>2. s # r /\ m # r
        BY <2>3, <3>1, Blank
      <4>3. QED
        BY <1>3, <2>2, <3>1, <4>1, <4>2 DEF KeysUnique, KeyFree
    <3>2. QED
      BY <3>1 DEF KeysUnique, KeyFree
  <2>7. serial' \in [Rows -> Int] /\ serial'[r] = 0 /\ \A s \in Rows \ {r} : serial'[s] = serial[s]
    BY <1>3, <2>1
  <2>8. CountsKept'
    BY <1>3, <2>1, <2>2, <2>3, <2>7, Blank DEF CountsKept
  <2>9. RowsBlank'
    BY <1>3, <2>1, <2>2, <2>3, <2>7 DEF RowsBlank
  <2>10. Steady /\ \A s \in Rows \ {r} : Still(s)
    BY <1>2, <2>1, <2>2, TablesApart DEF Steady, Still
  <2>11. ReviewsFit'
    BY <1>3, <2>1, <2>10 DEF ReviewsFit, Steady
  <2>12. edit' \in [Editors -> Edit] /\ RequestsFit' /\ \A x \in Editors \ {e} : Waits(x)
    BY <2>1, <2>10, EndedRequests
  <2>13. RatingsHold'
    <3>1. ASSUME NEW p \in Products \ unrated'
          PROVE  Rated(p)' \/ Owed(p)'
      BY <1>1, <1>2, <1>3, <2>1, <2>10, <2>12, OtherRatings DEF RatingsHold
    <3>2. QED
      BY <3>1 DEF RatingsHold
  <2>14. TypeOK'
    BY <1>3, <2>1, <2>4, <2>7, <2>12 DEF TypeOK
  <2>15. QED
    BY <2>5, <2>6, <2>8, <2>9, <2>11, <2>12, <2>13, <2>14, Whole
<1>6. QED
  BY <1>4, <1>5

\* A statement of a customer's tells whoever is editing row r.
LEMMA DisturbedRequests ==
  ASSUME CatalogInv, NEW r, edit' = Disturb(r), Steady, \A s \in Rows \ {r} : Still(s)
  PROVE  /\ edit' \in [Editors -> Edit] /\ RequestsFit'
         /\ \A p \in Products : Owed(p) => Owed(p)'
<1>1. edit' \in [Editors -> Edit]
  BY DisturbTells DEF CatalogInv
<1>2. \A x \in Editors : Waits(x)
  BY DisturbedWaits
<1>3. RequestsFit'
  <2>1. ASSUME NEW x \in Editors
        PROVE  Fits(edit[x])' /\ AsRead(edit[x])' /\ Lone(x)'
    <3>1. Fits(edit[x]) /\ AsRead(edit[x]) /\ Lone(x) /\ edit[x] \in Edit
      BY DEF CatalogInv, RequestsFit, TypeOK
    <3>2. \A y \in Editors : edit'[y].row = edit[y].row
      BY <1>2 DEF Waits, SameButAlone
    <3>3. QED
      BY <1>2, <3>1, <3>2, WaitingKeeps, WaitingLone
  <2>2. QED
    BY <2>1 DEF RequestsFit
<1>4. \A p \in Products : Owed(p) => Owed(p)'
  BY <1>2 DEF Owed, Waits, SameButAlone
<1>5. QED
  BY <1>1, <1>3, <1>4

LEMMA ChangeCountKeeps ==
  ASSUME CatalogInv, NEW r \in Rows, NEW k \in Int, ChangeCount(r, k)
  PROVE  CatalogInv'
<1>1. /\ TypeOK /\ RowsBlank /\ ReviewsFit /\ RatingsHold /\ row \in [Rows -> Row]
      /\ ReferencesResolve /\ KeysUnique /\ unrated \subseteq Products
  BY Parts DEF TypeOK
<1>2. PICK w \in Row : w = row[r]
  BY <1>1
<1>3. PICK c : c = w.count + k
  OBVIOUS
<1>4. c \in 0..MaxCount /\ w.exists
  BY <1>2, <1>3 DEF ChangeCount, CountAllowed
<1>5. PICK n : n = [w EXCEPT !.count = c]
  OBVIOUS
<1>6. /\ n \in Row /\ n.exists /\ n.count = c /\ n.key = w.key /\ n.parent = w.parent
      /\ n.rating = w.rating
  BY <1>4, <1>5 DEF Row
<1>7. /\ row' = [row EXCEPT ![r] = n] /\ edit' = Disturb(r)
      /\ serial' = [serial EXCEPT ![r] = Sum(r, k, TRUE)]
      /\ UNCHANGED <<review, drifted, unrated, family>>
  BY <1>1, <1>2, <1>3, <1>5 DEF ChangeCount
<1>8. row'[r] = n /\ \A s \in Rows \ {r} : row'[s] = row[s]
  BY <1>1, <1>7
<1>9. row' \in [Rows -> Row] /\ ReferencesResolve' /\ KeysUnique'
  <2>1. KeyFree(r, n.key)
    BY <1>1, <1>2, <1>4, <1>6 DEF KeysUnique
  <2>2. /\ r \in Products \cup Categories => ParentFound(n.parent)
        /\ r \in Products => n.parent # NoCategory
    BY <1>1, <1>2, <1>4, <1>6 DEF ReferencesResolve
  <2>3. QED
    BY <1>6, <1>7, <2>1, <2>2, RowWritten
<1>10. serial' \in [Rows -> Int] /\ CountsKept' /\ RowsBlank'
  <2>1. CountGoes(r, n, k, TRUE, FALSE)
    BY <1>7 DEF CountGoes
  <2>2. QED
    BY <1>2, <1>3, <1>6, <2>1, CountWritten
<1>11. Steady /\ \A s \in Rows \ {r} : Still(s)
  BY <1>2, <1>6, <1>7, <1>8, TablesApart DEF Steady, Still
<1>12. ReviewsFit'
  BY <1>1, <1>7, <1>11 DEF ReviewsFit, Steady
<1>13. /\ edit' \in [Editors -> Edit] /\ RequestsFit'
       /\ \A p \in Products : Owed(p) => Owed(p)'
  BY <1>7, <1>11, DisturbedRequests
<1>14. RatingsHold'
  <2>1. ASSUME NEW p \in Products, Rated(p)
        PROVE  Rated(p)'
    <3>1. row'[p].rating = row[p].rating
      BY <1>2, <1>6, <1>8, TablesApart
    <3>2. Approved(p)' = Approved(p)
      BY <1>7 DEF Approved
    <3>3. QED
      BY <2>1, <3>1, <3>2 DEF Rated
  <2>2. QED
    BY <1>1, <1>7, <1>13, <2>1 DEF RatingsHold
<1>15. TypeOK'
  BY <1>1, <1>7, <1>9, <1>10, <1>13 DEF TypeOK
<1>16. QED
  BY <1>9, <1>10, <1>12, <1>13, <1>14, <1>15, Whole

LEMMA ChangeReviewKeeps ==
  ASSUME CatalogInv, NEW u \in Customers, NEW p \in Products, NEW new \in Review,
         ChangeReview(u, p, new), row[p].exists,
         new = NoReview \/ (new.state = "pending" /\ new.stars \in Stars)
  PROVE  CatalogInv'
<1>1. /\ TypeOK /\ RowsBlank /\ ReviewsFit /\ RatingsHold /\ CountsKept
      /\ ReferencesResolve /\ KeysUnique /\ unrated \subseteq Products
      /\ review \in [Customers \X Products -> Review]
  BY Parts DEF TypeOK
<1>2. /\ review' = [review EXCEPT ![<<u, p>>] = new] /\ edit' = Disturb(p)
      /\ unrated' = (IF review[<<u, p>>].state = "approved" THEN unrated \cup {p} ELSE unrated)
      /\ UNCHANGED <<row, serial, drifted, family>>
  BY DEF ChangeReview
<1>3. /\ review' \in [Customers \X Products -> Review]
      /\ review'[<<u, p>>] = new
      /\ \A v \in Customers, r \in Products : v # u \/ r # p => review'[<<v, r>>] = review[<<v, r>>]
  BY <1>1, <1>2
<1>4. Steady /\ \A s \in Rows \ {p} : Still(s)
  BY <1>2, <1>3 DEF Steady, Still
<1>5. ReviewsFit'
  <2>1. ASSUME NEW v \in Customers, NEW r \in Products
        PROVE  /\ review'[<<v, r>>].state = "none" => review'[<<v, r>>] = NoReview
               /\ review'[<<v, r>>].state # "none" =>
                    row'[r].exists /\ review'[<<v, r>>].stars \in Stars
    <3>1. CASE v = u /\ r = p
      BY <1>2, <1>3, <3>1, Blank
    <3>2. CASE v # u \/ r # p
      BY <1>1, <1>2, <1>3, <3>2 DEF ReviewsFit
    <3>3. QED
      BY <3>1, <3>2
  <2>2. QED
    BY <2>1 DEF ReviewsFit
<1>6. /\ edit' \in [Editors -> Edit] /\ RequestsFit'
      /\ \A r \in Products : Owed(r) => Owed(r)'
  BY <1>2, <1>4, DisturbedRequests
<1>7. RatingsHold'
  <2>1. ASSUME NEW r \in Products \ unrated', Rated(r)
        PROVE  Rated(r)'
    <3>1. CASE r # p
      BY <1>4, <2>1, <3>1, RatedStays, TablesApart
    <3>2. CASE r = p
      <4>1. review[<<u, p>>].state # "approved" /\ review'[<<u, p>>].state # "approved"
        BY <1>2, <1>3, <2>1, <3>2, Blank
      <4>2. Approved(p)' = Approved(p)
        BY <1>3, <4>1 DEF Approved, Mark
      <4>3. QED
        BY <1>2, <2>1, <3>2, <4>2 DEF Rated
    <3>3. QED
      BY <3>1, <3>2
  <2>2. QED
    BY <1>1, <1>2, <1>6, <2>1 DEF RatingsHold
<1>8. RowsBlank' /\ CountsKept' /\ ReferencesResolve' /\ KeysUnique'
  BY <1>1, <1>2 DEF RowsBlank, CountsKept, ReferencesResolve, KeysUnique, KeyFree, ParentFound
<1>9. TypeOK'
  BY <1>1, <1>2, <1>3, <1>6 DEF TypeOK
<1>10. QED
  BY <1>5, <1>6, <1>7, <1>8, <1>9, Whole

LEMMA AuthorKeeps ==
  ASSUME CatalogInv, NEW u \in Customers, NEW p \in Products,
         \/ \E n \in Stars : CreateReview(u, p, n) \/ UpdateReview(u, p, n)
         \/ DeleteOwnReview(u, p)
  PROVE  CatalogInv'
<1>1. row[p].exists
  BY Parts DEF CreateReview, UpdateReview, DeleteOwnReview, ReviewsFit
<1>2. ASSUME NEW n \in Stars, ChangeReview(u, p, [state |-> "pending", stars |-> n])
      PROVE  CatalogInv'
  <2>1. PICK new : new = [state |-> "pending", stars |-> n]
    OBVIOUS
  <2>2. new \in Review /\ new.state = "pending" /\ new.stars = n
    BY <2>1 DEF Review
  <2>3. QED
    BY <1>1, <1>2, <2>1, <2>2, ChangeReviewKeeps
<1>3. CASE ChangeReview(u, p, NoReview)
  BY <1>1, <1>3, ChangeReviewKeeps, Blank
<1>4. QED
  BY <1>2, <1>3 DEF CreateReview, UpdateReview, DeleteOwnReview

\* The approved reviews once the approval, or the rating anew, is committed.
LEMMA ApprovedAfter ==
  ASSUME NEW q \in Edit, NEW p \in Products, q.row = p, NEW n,
         q.mark # {} => n \in Stars /\ q.by \in Customers /\ q.mark = {<<q.by, n>>},
         \A u \in Customers : review'[<<u, p>>] =
           IF q.mark # {} /\ u = q.by THEN [state |-> "approved", stars |-> n]
           ELSE review[<<u, p>>]
  PROVE  Approved(p)' = SeenBy(q)
<1>1. Approved(p)' =
        {m \in Mark : review'[<<m[1], p>>].state = "approved" /\ review'[<<m[1], p>>].stars = m[2]}
  BY DEF Approved
<1>2. SeenBy(q) =
        {m \in Mark : /\ review[<<m[1], p>>].state = "approved" /\ review[<<m[1], p>>].stars = m[2]
                      /\ q.mark = {} \/ m[1] # q.by} \cup q.mark
  BY DEF SeenBy, Approved
<1>3. CASE q.mark = {}
  BY <1>1, <1>2, <1>3 DEF Mark
<1>4. CASE q.mark # {}
  <2>1. <<q.by, n>> \in Mark
    BY <1>4 DEF Mark
  <2>2. ASSUME NEW m \in Mark
        PROVE  m \in Approved(p)' <=> m \in SeenBy(q)
    <3>1. PICK u \in Customers, k \in Stars : m = <<u, k>>
      BY DEF Mark
    <3>2. m[1] = u /\ m[2] = k /\ (m = <<q.by, n>> <=> u = q.by /\ k = n)
      BY <3>1
    <3>3. CASE u = q.by
      BY <1>1, <1>2, <1>4, <3>2, <3>3
    <3>4. CASE u # q.by
      BY <1>1, <1>2, <1>4, <3>2, <3>4
    <3>5. QED
      BY <3>3, <3>4
  <2>3. Approved(p)' \subseteq Mark /\ SeenBy(q) \subseteq Mark
    BY <1>1, <1>2, <1>4, <2>1
  <2>4. QED
    BY <2>2, <2>3
<1>5. QED
  BY <1>3, <1>4

LEMMA SaveRatingKeeps ==
  ASSUME CatalogInv, NEW e \in Editors, SaveRating(e)
  PROVE  CatalogInv'
<1>1. PICK q \in Edit : q = edit[e] /\ Fits(q) /\ AsRead(q)
  BY DEF CatalogInv, RequestsFit, TypeOK
<1>2. PICK p \in Products, n \in Row : p = q.row /\ n = q.new /\ p \in Rows
  BY <1>1, TablesApart DEF SaveRating, Fits, Edit, RatingSteps
<1>3. /\ TypeOK /\ RowsBlank /\ ReviewsFit /\ RatingsHold /\ row \in [Rows -> Row]
      /\ ReferencesResolve /\ KeysUnique /\ CountsKept /\ unrated \subseteq Products
      /\ review \in [Customers \X Products -> Review]
  BY Parts DEF TypeOK
<1>4. /\ q.step = "rating" /\ n.exists /\ q.alone \in BOOLEAN
      /\ row[p].exists /\ n.parent # NoCategory
      /\ KeyFree(p, n.key) /\ ParentFound(n.parent)
  BY <1>1, <1>2 DEF SaveRating, Fits, Edit, RatingSteps, KeyUnique, ReferenceHolds
<1>5. PICK s : s = CHOOSE k \in Stars : <<q.by, k>> \in q.mark
  OBVIOUS
<1>6. q.mark # {} => s \in Stars /\ q.by \in Customers /\ q.mark = {<<q.by, s>>}
  <2>1. SUFFICES ASSUME q.mark # {}
                 PROVE  s \in Stars /\ q.by \in Customers /\ q.mark = {<<q.by, s>>}
    OBVIOUS
  <2>2. PICK k \in Stars : q.by \in Customers /\ q.mark = {<<q.by, k>>}
    BY <1>1, <2>1 DEF Fits
  <2>3. \A j : <<q.by, j>> \in q.mark <=> j = k
    BY <2>2
  <2>4. s = k
    BY <1>5, <2>3
  <2>5. QED
    BY <2>2, <2>4
<1>7. /\ row' = [row EXCEPT ![p] = n] /\ serial' = [serial EXCEPT ![p] = Sum(p, 0, q.alone)]
      /\ drifted' = (IF q.alone THEN drifted ELSE drifted \cup {p})
      /\ unrated' = (IF q.alone THEN unrated \ {p} ELSE unrated \cup {p})
      /\ edit' = EndedAlone(e, p) /\ UNCHANGED family
      /\ review' = [x \in Customers \X Products |->
           IF q.mark # {} /\ x = <<q.by, p>> THEN [state |-> "approved", stars |-> s] ELSE review[x]]
  BY <1>1, <1>2, <1>5 DEF SaveRating
<1>8. \A u \in Customers, r \in Products :
        review'[<<u, r>>] =
          IF q.mark # {} /\ u = q.by /\ r = p THEN [state |-> "approved", stars |-> s]
          ELSE review[<<u, r>>]
  BY <1>7
<1>9. review' \in [Customers \X Products -> Review]
  <2>1. q.mark # {} => [state |-> "approved", stars |-> s] \in Review
    BY <1>6 DEF Review
  <2>2. QED
    BY <1>3, <1>7, <2>1
<1>10. row'[p] = n /\ \A r \in Rows \ {p} : row'[r] = row[r]
  BY <1>2, <1>3, <1>7
<1>11. row' \in [Rows -> Row] /\ ReferencesResolve' /\ KeysUnique'
  BY <1>2, <1>4, <1>7, RowWritten
<1>12. q.alone => n.count = row[p].count + 0
  <2>1. row[p].count \in Int
    BY <1>2, <1>3 DEF Row
  <2>2. QED
    BY <1>1, <1>2, <1>4, <2>1 DEF AsRead
<1>13. serial' \in [Rows -> Int] /\ drifted' \subseteq Rows /\ CountsKept' /\ RowsBlank'
  <2>1. CountGoes(p, n, 0, q.alone, FALSE)
    BY <1>4, <1>7 DEF CountGoes
  <2>2. p \in Rows /\ n.exists /\ q.alone \in BOOLEAN /\ 0 \in Int
    BY <1>2, <1>4
  <2>3. QED
    BY <1>12, <2>1, <2>2, CountWritten
<1>14. Steady /\ \A r \in Rows \ {p} : Still(r)
  <2>1. Steady
    BY <1>2, <1>4, <1>7, <1>10, TablesApart DEF Steady
  <2>2. ASSUME NEW r \in Rows \ {p}
        PROVE  Still(r)
    BY <1>8, <1>10 DEF Still
  <2>3. QED
    BY <2>1, <2>2
<1>15. ReviewsFit'
  <2>1. ASSUME NEW u \in Customers, NEW r \in Products
        PROVE  /\ review'[<<u, r>>].state = "none" => review'[<<u, r>>] = NoReview
               /\ review'[<<u, r>>].state # "none" =>
                    row'[r].exists /\ review'[<<u, r>>].stars \in Stars
    <3>1. CASE q.mark # {} /\ u = q.by /\ r = p
      BY <1>4, <1>6, <1>8, <1>10, <3>1
    <3>2. CASE ~(q.mark # {} /\ u = q.by /\ r = p)
      BY <1>3, <1>8, <1>14, <3>2 DEF ReviewsFit, Steady
    <3>3. QED
      BY <3>1, <3>2
  <2>2. QED
    BY <2>1 DEF ReviewsFit
<1>16. edit' \in [Editors -> Edit] /\ RequestsFit' /\ \A x \in Editors \ {e} : Waits(x)
  BY <1>7, <1>14, EndedRequests
<1>17. RatingsHold'
  <2>1. ASSUME NEW r \in Products \ unrated', r = p
        PROVE  Rated(r)'
    <3>1. q.alone
      BY <1>4, <1>7, <2>1
    <3>2. n.rating.average = SeenBy(q) /\ n.rating.total = SeenBy(q) /\ n.rating \in Rating
      BY <1>1, <1>2, <1>4, <3>1 DEF AsRead, Row
    <3>3. Approved(p)' = SeenBy(q)
      BY <1>2, <1>6, <1>8, ApprovedAfter
    <3>4. n.rating = [average |-> SeenBy(q), total |-> SeenBy(q)]
      BY <3>2 DEF Rating
    <3>5. QED
      BY <1>10, <2>1, <3>3, <3>4 DEF Rated
  <2>2. ASSUME NEW r \in Products \ unrated', r # p
        PROVE  Rated(r)' \/ Owed(r)'
    <3>1. r \notin unrated
      BY <1>7, <2>2
    <3>2. Rated(r) \/ Owed(r)
      BY <1>3, <3>1 DEF RatingsHold
    <3>3. QED
      BY <1>1, <1>2, <1>14, <1>16, <2>2, <3>2, OtherRatings
  <2>3. QED
    BY <2>1, <2>2 DEF RatingsHold
<1>18. TypeOK'
  <2>1. unrated' \subseteq Products
    BY <1>3, <1>7
  <2>2. QED
    BY <1>3, <1>7, <1>9, <1>11, <1>13, <1>16, <2>1 DEF TypeOK
<1>19. QED
  BY <1>11, <1>13, <1>15, <1>16, <1>17, <1>18, Whole

LEMMA RemoveReviewKeeps ==
  ASSUME CatalogInv, NEW e \in Editors, RemoveReview(e)
  PROVE  CatalogInv'
<1>1. PICK q \in Edit : q = edit[e] /\ Fits(q) /\ AsRead(q)
  BY DEF CatalogInv, RequestsFit, TypeOK
<1>2. /\ q.step = "removing" /\ q.mark = {} /\ q.row \in Products /\ q.by \in Customers
      /\ row[q.row].exists /\ q.alone \in BOOLEAN
  BY <1>1 DEF RemoveReview, Fits, Edit
<1>3. PICK p \in Products, u \in Customers : p = q.row /\ u = q.by /\ p \in Rows
  BY <1>2, TablesApart
<1>4. /\ TypeOK /\ RowsBlank /\ ReviewsFit /\ RatingsHold /\ CountsKept
      /\ ReferencesResolve /\ KeysUnique /\ unrated \subseteq Products
      /\ review \in [Customers \X Products -> Review]
  BY Parts DEF TypeOK
<1>5. /\ review' = [review EXCEPT ![<<u, p>>] = NoReview]
      /\ unrated' = (IF q.alone THEN unrated ELSE unrated \cup {p})
      /\ UNCHANGED <<row, serial, drifted, family>>
      /\ edit' = IF q.adds = 1
                 THEN [Disturb(p) EXCEPT ![e] = [q EXCEPT !.step = "averaging"]]
                 ELSE EndedAlone(e, p)
  <2>1. PICK x : x = <<edit[e].by, edit[e].row>>
    OBVIOUS
  <2>2. x = <<u, p>> /\ x[1] = u /\ x[2] = p
    BY <1>1, <1>3, <2>1
  <2>3. /\ review' = [review EXCEPT ![x] = NoReview]
        /\ unrated' = (IF edit[e].alone THEN unrated ELSE unrated \cup {x[2]})
        /\ edit' = (IF edit[e].adds = 1
                    THEN [Disturb(x[2]) EXCEPT ![e] = [edit[e] EXCEPT !.step = "averaging"]]
                    ELSE EndedAlone(e, x[2]))
        /\ UNCHANGED <<row, serial, drifted, family>>
    BY <2>1, Zenon DEF RemoveReview
  <2>4. QED
    BY <1>1, <2>2, <2>3
<1>6. /\ review' \in [Customers \X Products -> Review] /\ review'[<<u, p>>] = NoReview
      /\ \A v \in Customers, r \in Products : v # u \/ r # p => review'[<<v, r>>] = review[<<v, r>>]
  BY <1>4, <1>5, Blank
<1>7. Steady /\ \A s \in Rows \ {p} : Still(s)
  BY <1>5, <1>6 DEF Steady, Still
<1>8. ReviewsFit'
  <2>1. ASSUME NEW v \in Customers, NEW r \in Products
        PROVE  /\ review'[<<v, r>>].state = "none" => review'[<<v, r>>] = NoReview
               /\ review'[<<v, r>>].state # "none" =>
                    row'[r].exists /\ review'[<<v, r>>].stars \in Stars
    <3>1. CASE v = u /\ r = p
      BY <1>6, <3>1, Blank
    <3>2. CASE v # u \/ r # p
      BY <1>4, <1>5, <1>6, <3>2 DEF ReviewsFit
    <3>3. QED
      BY <3>1, <3>2
  <2>2. QED
    BY <2>1 DEF ReviewsFit
<1>9. RowsBlank' /\ CountsKept' /\ ReferencesResolve' /\ KeysUnique'
  BY <1>4, <1>5 DEF RowsBlank, CountsKept, ReferencesResolve, KeysUnique, KeyFree, ParentFound
<1>10. PICK a : a = [q EXCEPT !.step = "averaging"]
  OBVIOUS
<1>11. /\ a \in Edit /\ a.step = "averaging" /\ a.row = q.row /\ a.by = q.by /\ a.mark = q.mark
       /\ a.alone = q.alone
  BY <1>10 DEF Edit
<1>12. edit' \in [Editors -> Edit] /\ RequestsFit' /\ \A x \in Editors \ {e} : Waits(x)
  <2>1. CASE q.adds = 1
    <3>1. edit' = [Disturb(p) EXCEPT ![e] = a]
      BY <1>5, <1>10, <2>1
    <3>2. /\ edit' \in [Editors -> Edit] /\ edit'[e] = a
          /\ \A x \in Editors \ {e} : edit'[x] = Disturb(p)[x]
      BY <1>4, <1>11, <3>1, DisturbTells
    <3>3. \A x \in Editors \ {e} : Waits(x)
      BY <1>7, <3>2, DisturbedWaits
    <3>4. Fits(a)'
      BY <1>2, <1>5, <1>11, TablesApart DEF Fits, RatingSteps
    <3>5. AsRead(a)'
      BY <1>11 DEF AsRead
    <3>6. QED
      BY <1>1, <1>7, <1>11, <3>2, <3>3, <3>4, <3>5, RequestsKept
  <2>2. CASE q.adds # 1
    BY <1>5, <1>7, <2>2, EndedRequests
  <2>3. QED
    BY <2>1, <2>2
<1>13. RatingsHold'
  <2>1. ASSUME NEW r \in Products \ unrated', r = p
        PROVE  Rated(r)' \/ Owed(r)'
    <3>1. q.alone /\ p \notin unrated
      BY <1>2, <1>5, <2>1
    <3>2. CASE q.adds = 1
      <4>1. edit'[e] = a
        <5>1. Disturb(p) \in [Editors -> Edit]
          BY <1>4, DisturbTells
        <5>2. QED
          BY <1>5, <1>10, <3>2, <5>1
      <4>2. QED
        BY <1>2, <1>3, <1>11, <2>1, <4>1 DEF Owed, RatingSteps
    <3>3. CASE q.adds # 1
      <4>1. review[<<u, p>>].state # "approved"
        BY <1>1, <1>2, <1>3, <3>1, <3>3 DEF AsRead
      <4>2. Approved(p)' = Approved(p)
        BY <1>6, <4>1, Blank DEF Approved, Mark
      <4>3. ~Owed(p)
        BY <1>1, <1>2, <1>3, <3>1, OwedElsewhere DEF RatingSteps
      <4>4. Rated(p)
        BY <1>4, <3>1, <4>3 DEF RatingsHold
      <4>5. QED
        BY <1>5, <2>1, <4>2, <4>4 DEF Rated
    <3>4. QED
      BY <3>2, <3>3
  <2>2. ASSUME NEW r \in Products \ unrated', r # p
        PROVE  Rated(r)' \/ Owed(r)'
    <3>1. r \notin unrated
      BY <1>5, <2>2
    <3>2. Rated(r) \/ Owed(r)
      BY <1>4, <3>1 DEF RatingsHold
    <3>3. QED
      BY <1>1, <1>3, <1>7, <1>12, <2>2, <3>2, OtherRatings
  <2>3. QED
    BY <2>1, <2>2 DEF RatingsHold
<1>14. TypeOK'
  <2>1. unrated' \subseteq Products
    BY <1>4, <1>5
  <2>2. QED
    BY <1>4, <1>5, <1>6, <1>12, <2>1 DEF TypeOK
<1>15. QED
  BY <1>8, <1>9, <1>12, <1>13, <1>14, Whole

-----------------------------------------------------------------------------
LEMMA CatalogStarts == Init => CatalogInv
<1> SUFFICES ASSUME Init PROVE CatalogInv
  OBVIOUS
<1>1. PICK c \in Categories, p \in Products, k \in Keys :
        row = [r \in Rows |->
          IF r = c THEN [Absent EXCEPT !.exists = TRUE, !.key = k, !.active = TRUE]
          ELSE IF r = p THEN [Absent EXCEPT !.exists = TRUE, !.key = k,
                                            !.active = TRUE, !.parent = c]
          ELSE Absent]
  BY DEF Init
<1>2. /\ serial = [r \in Rows |-> 0] /\ review = [x \in Customers \X Products |-> NoReview]
      /\ edit = [e \in Editors |-> NoEdit] /\ drifted = {} /\ unrated = {} /\ family \in Families
  BY DEF Init
<1>3. PICK w : w = Absent
  OBVIOUS
<1>4. PICK n, m : /\ n = [w EXCEPT !.exists = TRUE, !.key = k, !.active = TRUE]
                  /\ m = [w EXCEPT !.exists = TRUE, !.key = k, !.active = TRUE, !.parent = c]
  OBVIOUS
<1>5. /\ w \in Row /\ ~w.exists /\ w.count = 0 /\ w.rating = NoRating /\ w.parent = NoCategory
      /\ n \in Row /\ n.exists /\ n.count = 0 /\ n.rating = NoRating /\ n.parent = NoCategory
      /\ m \in Row /\ m.exists /\ m.count = 0 /\ m.rating = NoRating /\ m.parent = c
  BY <1>3, <1>4, Blank DEF Row
<1>6. row = [r \in Rows |-> IF r = c THEN n ELSE IF r = p THEN m ELSE w]
  BY <1>1, <1>3, <1>4
<1>7. c \in Rows /\ p \in Rows /\ c # p /\ c # NoCategory /\ c \notin Products
  BY TablesApart, CatalogAssumption
<1>8. TypeOK
  BY <1>2, <1>5, <1>6, Blank DEF TypeOK
<1>9. RowsBlank /\ ReviewsFit
  BY <1>2, <1>3, <1>5, <1>6, Blank DEF RowsBlank, ReviewsFit
<1>10. \A e \in Editors : Fits(edit[e]) /\ AsRead(edit[e]) /\ Lone(e)
  BY <1>2, NobodyHome, Blank DEF Lone
<1>11. ReferencesResolve
  BY <1>5, <1>6, <1>7, TablesApart DEF ReferencesResolve, ParentFound
<1>12. KeysUnique
  <2>1. ASSUME NEW s \in Rows, row[s].exists, NEW j \in Kind(s) \ {s}, row[j].exists
        PROVE  FALSE
    <3>1. j \in Rows /\ s \in {c, p} /\ j \in {c, p}
      BY <1>5, <1>6, <2>1, RowsOfATable
    <3>2. Kind(c) = Kind(p)
      BY <2>1, <3>1, RowsOfATable
    <3>3. QED
      BY <1>7, <3>2, KindsApart
  <2>2. QED
    BY <2>1 DEF KeysUnique, KeyFree
<1>13. CountsKept
  BY <1>2, <1>5, <1>6 DEF CountsKept
<1>14. ASSUME NEW r \in Products
       PROVE  Rated(r)
  <2>1. Approved(r) = {}
    BY <1>2, Blank DEF Approved, Mark
  <2>2. row[r].rating = NoRating
    BY <1>5, <1>6, TablesApart
  <2>3. QED
    BY <2>1, <2>2 DEF Rated, NoRating
<1>15. QED
  BY <1>8, <1>9, <1>10, <1>11, <1>12, <1>13, <1>14 DEF CatalogInv, RequestsFit, RatingsHold

LEMMA CatalogSteps == CatalogInv /\ [Next]_vars => CatalogInv'
<1> SUFFICES ASSUME CatalogInv, [Next]_vars PROVE CatalogInv'
  OBVIOUS
<1>1. CASE UNCHANGED vars
  <2>1. TablesStay /\ UNCHANGED <<edit, unrated>>
    BY <1>1 DEF vars, TablesStay
  <2>2. edit \in [Editors -> Edit] /\ unrated \subseteq Products
    BY DEF CatalogInv, RequestsFit, TypeOK
  <2>3. /\ RowsBlank' /\ ReviewsFit' /\ ReferencesResolve' /\ KeysUnique' /\ CountsKept'
        /\ TypeOK' /\ \A p \in Products : Rated(p) => Rated(p)'
    BY <2>1, <2>2, TablesKept
  <2>4. RequestsFit'
    BY <2>1, Parts DEF TablesStay, RequestsFit, Fits, AsRead, SeenBy, Approved, Lone
  <2>5. RatingsHold'
    BY <2>1, <2>3, Parts DEF RatingsHold, Owed
  <2>6. QED
    BY <2>3, <2>4, <2>5, Whole
<1>2. ASSUME NEW p \in Products, Sell(p)
      PROVE  CatalogInv'
  BY <1>2, ChangeCountKeeps, TablesApart DEF Sell
<1>3. ASSUME NEW c \in Coupons, Redeem(c)
      PROVE  CatalogInv'
  BY <1>3, ChangeCountKeeps, TablesApart DEF Redeem
<1>4. CASE \E e \in Editors :
             \/ EditorStarts(e) \/ SaveRow(e) \/ RemoveRow(e) \/ AverageReviews(e)
             \/ CountReviews(e) \/ RereadProduct(e) \/ SaveRating(e) \/ RejectRating(e)
             \/ RemoveReview(e) \/ Crash(e)
  BY <1>4, StartsKeep, SaveKeeps, RemoveRowKeeps, AverageKeeps, CountKeeps, RereadKeeps,
    SaveRatingKeeps, RemoveReviewKeeps, AbandonKeeps DEF RejectRating, Crash
<1>5. CASE \E u \in Customers, p \in Products :
             \/ \E n \in Stars : CreateReview(u, p, n) \/ UpdateReview(u, p, n)
             \/ DeleteOwnReview(u, p)
  BY <1>5, AuthorKeeps
<1>6. QED
  BY <1>1, <1>2, <1>3, <1>4, <1>5 DEF Next

LEMMA CatalogHolds == Spec => []CatalogInv
BY CatalogStarts, CatalogSteps, PTL DEF Spec

-----------------------------------------------------------------------------
\* Rows, reviews and the requests' entities keep the types of their columns:
\* no stock or number of uses leaves its range by a save.
THEOREM CatalogTyped == Spec => []TypeOK
<1>1. CatalogInv => TypeOK
  BY DEF CatalogInv
<1>2. QED
  BY <1>1, CatalogHolds, PTL

\* Every product's category and every category's parent is there, though the
\* use cases check it long before they save.
THEOREM ReferencesAlwaysResolve == Spec => []ReferencesResolve
<1>1. CatalogInv => ReferencesResolve
  BY DEF CatalogInv
<1>2. QED
  BY <1>1, CatalogHolds, PTL

\* No two rows of a table share a slug or a code, whatever requests race.
THEOREM KeysStayUnique == Spec => []KeysUnique
<1>1. CatalogInv => KeysUnique
  BY DEF CatalogInv
<1>2. QED
  BY <1>1, CatalogHolds, PTL

\* A count is what the sales, redemptions, adjustments and stated stocks make of
\* it, until an overlapping save of its row and again after a lone statement of
\* the stock.
THEOREM CountsAreKept == Spec => []CountsKept
<1>1. CatalogInv => CountsKept
  BY DEF CatalogInv
<1>2. QED
  BY <1>1, CatalogHolds, PTL

\* A lone approval or removal leaves the rating the approved reviews give.
THEOREM RatingsAreRepaired == Spec => []RatingRepaired
<1>1. CatalogInv => RatingRepaired
  BY DEF CatalogInv, RatingsHold, Rated, Owed, RatingRepaired
<1>2. QED
  BY <1>1, CatalogHolds, PTL
=============================================================================
