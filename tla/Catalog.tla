------------------------------- MODULE Catalog -------------------------------
(***************************************************************************)
(* What the back office edits: categories, products, coupons, banners, the *)
(* store's settings - and the reviews, whose approval rewrites a product.  *)
(*                                                                         *)
(* All of it is edited in one way.  A use case reads a row into an entity, *)
(* changes the entity and saves it: every column is written back as it was *)
(* read, but for those the request changes, and a row deleted meanwhile is *)
(* inserted again.  Sales and redemptions change single columns of the     *)
(* same rows by an UPDATE of their own, beside all of this.                *)
(*                                                                         *)
(* active stands for the columns of a row that only its editors change.    *)
(***************************************************************************)
EXTENDS Integers, FiniteSets

CONSTANTS
  Categories, Products, Coupons, Banners, Settings,
  Customers,    \* the authors of reviews, one review each of a product
  Editors,      \* back-office users, one request in flight each
  Keys,         \* slugs and codes
  Stars,        \* the ratings given (a bound of the model)
  MaxCount,     \* the largest stock and number of uses (a bound of the model)
  Families,     \* sets of use cases, by name, and of the fields that update-product
                \* is asked to change: those of one set run together (a bound of
                \* the model, to check parts of the store at a time)
  NoKey, NoCategory, NoRow, NoCustomer

ASSUME CatalogAssumption ==
  /\ MaxCount \in Nat \ {0}
  /\ NoKey \notin Keys /\ NoCategory \notin Categories /\ NoCustomer \notin Customers

Rows == Categories \cup Products \cup Coupons \cup Banners \cup Settings

\* The tables; a row is known by its id, and is in one of them.
Tables == <<Categories, Products, Coupons, Banners, Settings>>

ASSUME RowsAssumption ==
  /\ NoRow \notin Rows
  /\ \A i, j \in 1..5 : i # j => Tables[i] \cap Tables[j] = {}

VARIABLES
  row,       \* the tables of the five kinds of row
  review,    \* reviews
  edit,      \* each editor's request
  serial,    \* auxiliary: count as the requests' changes make it
  drifted,   \* auxiliary: rows saved by a request that did not run alone
  unrated,   \* auxiliary: products whose rating no lone request has set since
             \* something else changed their reviews
  family     \* the use cases that run

vars == <<row, review, edit, serial, drifted, unrated, family>>

\* A rating is kept as the marks it was computed from: the average's and the
\* count's, which are read by two statements.
Mark == Customers \X Stars
Rating == [average : SUBSET Mark, total : SUBSET Mark]

\* count is products.stock or coupons.current_uses; key is the slug or code;
\* parent is products.category_id or categories.parent_id.
Row == [exists : BOOLEAN, active : BOOLEAN, count : 0..MaxCount,
        key : Keys \cup {NoKey}, parent : Categories \cup {NoCategory}, rating : Rating]

Review == [state : {"none", "pending", "approved"}, stars : Stars \cup {0}]

\* adds is what the request adds to the count; sets says that it states it.
Edit == [step : {"idle", "read", "deleting", "approving", "removing", "averaging",
                 "counting", "rereading", "rating"},
         row : Rows \cup {NoRow}, new : Row, by : Customers \cup {NoCustomer},
         mark : SUBSET Mark, adds : Int, sets : BOOLEAN, alone : BOOLEAN]

NoRating == [average |-> {}, total |-> {}]
Absent == [exists |-> FALSE, active |-> FALSE, count |-> 0, key |-> NoKey,
           parent |-> NoCategory, rating |-> NoRating]
NoReview == [state |-> "none", stars |-> 0]
NoEdit == [step |-> "idle", row |-> NoRow, new |-> Absent, by |-> NoCustomer,
           mark |-> {}, adds |-> 0, sets |-> FALSE, alone |-> FALSE]

TypeOK ==
  /\ row \in [Rows -> Row]
  /\ review \in [Customers \X Products -> Review]
  /\ edit \in [Editors -> Edit]
  /\ serial \in [Rows -> Int]
  /\ drifted \subseteq Rows /\ unrated \subseteq Products
  /\ family \in Families

\* A store with its first category and an empty shelf of its first product.
Init ==
  \E c \in Categories, p \in Products, k \in Keys :
    /\ row = [r \in Rows |->
         IF r = c THEN [Absent EXCEPT !.exists = TRUE, !.key = k, !.active = TRUE]
         ELSE IF r = p THEN [Absent EXCEPT !.exists = TRUE, !.key = k,
                                           !.active = TRUE, !.parent = c]
         ELSE Absent]
    /\ serial = [r \in Rows |-> 0]
    /\ review = [x \in Customers \X Products |-> NoReview]
    /\ edit = [e \in Editors |-> NoEdit]
    /\ drifted = {} /\ unrated = {}
    /\ family \in Families

-----------------------------------------------------------------------------
\* Reading a row and saving it whole.

Kind(r) == Tables[CHOOSE i \in 1..5 : r \in Tables[i]]

\* A row that may be made: its id is nobody else's.
Fresh(r) == ~row[r].exists /\ \A e \in Editors : edit[e].row # r

KeyFree(r, k) ==
  k # NoKey => \A n \in Kind(r) \ {r} : row[n].exists => row[n].key # k

ParentFound(c) == c # NoCategory => row[c].exists

\* Every other request under way on row r no longer runs alone.
Disturb(r) == [e \in Editors |-> [edit[e] EXCEPT !.alone = @ /\ edit[e].row # r]]

\* A use case has read row r, checked its input and changed the entity to new.
Begin(e, r, step, new, u, adds, sets) ==
  /\ edit[e].step = "idle"
  /\ edit' = [Disturb(r) EXCEPT ![e] =
       [step |-> step, row |-> r, new |-> new, by |-> u, mark |-> {}, adds |-> adds,
        sets |-> sets, alone |-> \A x \in Editors : edit[x].row # r]]
  /\ UNCHANGED <<row, review, serial, drifted, unrated, family>>

BeginEdit(e, r, new, adds) == Begin(e, r, "read", new, NoCustomer, adds, FALSE)

\* The rows as their entities are first made.
New(k, parent) ==
  [Absent EXCEPT !.exists = TRUE, !.active = TRUE, !.key = k, !.parent = parent]
NewProduct(k, c, n) == [New(k, c) EXCEPT !.count = n]
NewCategory(k, parent) == New(k, parent)
NewCoupon(k) == New(k, NoCategory)
NewBanner(a) == [New(NoKey, NoCategory) EXCEPT !.active = a]
DefaultSettings == [Absent EXCEPT !.exists = TRUE]

\* The entities' update methods, on the row as it was read.
ProductEdited(p, k, c, a, n) ==
  [row[p] EXCEPT !.key = k, !.parent = c, !.active = a, !.count = n]
CategoryEdited(c, k, parent) == [row[c] EXCEPT !.key = k, !.parent = parent]
CouponEdited(c, k, a) == [row[c] EXCEPT !.key = k, !.active = a]
BannerEdited(b, a) == [row[b] EXCEPT !.active = a]
SettingsEdited(s, a) == [row[s] EXCEPT !.exists = TRUE, !.active = a]

CreateProduct(e, p, k, c, n) ==
  /\ "create-product" \in family
  /\ Fresh(p) /\ KeyFree(p, k) /\ row[c].exists
  /\ BeginEdit(e, p, NewProduct(k, c, n), n)

Asks(field, new, old) == new # old => field \in family

\* The request may state the stock: n, whatever the product has.
UpdateProduct(e, p, k, c, a, n, sets) ==
  /\ "update-product" \in family
  /\ row[p].exists /\ KeyFree(p, k) /\ row[c].exists
  /\ Asks("slug", k, row[p].key) /\ Asks("category", c, row[p].parent)
  /\ Asks("active", a, row[p].active)
  /\ IF sets THEN "stock" \in family ELSE n = row[p].count
  /\ Begin(e, p, "read", ProductEdited(p, k, c, a, n), NoCustomer, 0, sets)

\* Product.adjustStock, which refuses to go below zero.
AdjustStock(e, p, q) ==
  /\ "adjust-stock" \in family
  /\ row[p].exists /\ row[p].count + q \in 0..MaxCount
  /\ BeginEdit(e, p, [row[p] EXCEPT !.count = @ + q], q)

\* Deleting a product deactivates it.
DeleteProduct(e, p) ==
  /\ "delete-product" \in family
  /\ row[p].exists
  /\ BeginEdit(e, p, [row[p] EXCEPT !.active = FALSE], 0)

CreateCategory(e, c, k, parent) ==
  /\ "create-category" \in family
  /\ Fresh(c) /\ KeyFree(c, k) /\ ParentFound(parent)
  /\ BeginEdit(e, c, NewCategory(k, parent), 0)

\* A category is not its own parent; longer cycles are not looked for.
UpdateCategory(e, c, k, parent) ==
  /\ "update-category" \in family
  /\ row[c].exists /\ KeyFree(c, k) /\ ParentFound(parent) /\ parent # c
  /\ BeginEdit(e, c, CategoryEdited(c, k, parent), 0)

CreateCoupon(e, c, k) ==
  /\ "create-coupon" \in family
  /\ Fresh(c) /\ KeyFree(c, k)
  /\ BeginEdit(e, c, NewCoupon(k), 0)

\* Mutant: the coupon is made anew from the request.
RemakeCoupon(e, c, k, a) ==
  /\ "update-coupon" \in family
  /\ row[c].exists /\ KeyFree(c, k)
  /\ BeginEdit(e, c, [row[c] EXCEPT !.key = k, !.active = a, !.count = 0], 0)

UpdateCoupon(e, c, k, a) ==
  /\ "update-coupon" \in family
  /\ row[c].exists /\ KeyFree(c, k)
  /\ BeginEdit(e, c, CouponEdited(c, k, a), 0)

CreateBanner(e, b, a) ==
  /\ "create-banner" \in family
  /\ Fresh(b)
  /\ BeginEdit(e, b, NewBanner(a), 0)

UpdateBanner(e, b, a) ==
  /\ "update-banner" \in family
  /\ row[b].exists
  /\ BeginEdit(e, b, BannerEdited(b, a), 0)

\* The settings are one row, made with defaults by whoever asks for it first.
GetStoreSettings(e, s) ==
  /\ "get-settings" \in family
  /\ ~row[s].exists
  /\ BeginEdit(e, s, DefaultSettings, 0)

UpdateStoreSettings(e, s, a) ==
  /\ "update-settings" \in family
  /\ BeginEdit(e, s, SettingsEdited(s, a), 0)

\* Mutant: the slug is checked by the use case, and not by an index.
KeyUnchecked(r, k) == TRUE

\* UNIQUE (slug), UNIQUE (code): asked again as the row is written.
KeyUnique(r, k) == KeyFree(r, k)

\* Mutant: no foreign key on category_id and parent_id.
ReferenceUnchecked(c) == TRUE

\* fk_products_category, fk_categories_parent
ReferenceHolds(c) == ParentFound(c)

Ended(e) == [edit EXCEPT ![e] = NoEdit]
EndedAlone(e, r) == [Disturb(r) EXCEPT ![e] = NoEdit]

\* The sum of a row's changes, kept for as long as its saves do not overlap.
Sum(r, n, alone) == IF alone /\ r \notin drifted THEN serial[r] + n ELSE 0

SaveRow(e) ==
  LET r == edit[e].row
      new == edit[e].new IN
  /\ edit[e].step = "read"
  /\ IF KeyUnique(r, new.key) /\ ReferenceHolds(new.parent)
     THEN /\ row' = [row EXCEPT ![r] = new]
          /\ serial' = [serial EXCEPT ![r] = IF edit[e].alone /\ edit[e].sets
                           THEN new.count ELSE Sum(r, edit[e].adds, edit[e].alone)]
          /\ drifted' = IF ~edit[e].alone THEN drifted \cup {r}
                        ELSE IF edit[e].sets THEN drifted \ {r} ELSE drifted
          /\ unrated' = IF edit[e].alone THEN unrated ELSE unrated \cup ({r} \cap Products)
          /\ edit' = EndedAlone(e, r)
     ELSE /\ edit' = Ended(e)
          /\ UNCHANGED <<row, serial, drifted, unrated>>
  /\ UNCHANGED <<review, family>>

-----------------------------------------------------------------------------
\* Deleting a row.

HasProducts(c) == \E p \in Products : row[p].exists /\ row[p].parent = c
HasSubcategories(c) == \E n \in Categories : row[n].exists /\ row[n].parent = c

DeleteCategory(e, c) ==
  /\ "delete-category" \in family
  /\ row[c].exists /\ ~HasProducts(c) /\ ~HasSubcategories(c)
  /\ Begin(e, c, "deleting", Absent, NoCustomer, 0, FALSE)

DeleteAny(e, r) ==
  row[r].exists /\ Begin(e, r, "deleting", Absent, NoCustomer, 0, FALSE)

DeleteCoupon(e, c) == "delete-coupon" \in family /\ DeleteAny(e, c)
DeleteBanner(e, b) == "delete-banner" \in family /\ DeleteAny(e, b)

\* DELETE: products restrict it, subcategories lose their parent.
RemoveRow(e) ==
  LET r == edit[e].row IN
  /\ edit[e].step = "deleting"
  /\ IF HasProducts(r)
     THEN edit' = Ended(e) /\ UNCHANGED <<row, serial, drifted>>
     ELSE /\ row' = [n \in Rows |->
               IF n = r THEN Absent
               ELSE IF row[n].parent = r THEN [row[n] EXCEPT !.parent = NoCategory]
               ELSE row[n]]
          /\ serial' = [serial EXCEPT ![r] = 0]
          /\ drifted' = drifted \ {r}
          /\ edit' = EndedAlone(e, r)
  /\ UNCHANGED <<review, unrated, family>>

-----------------------------------------------------------------------------
\* The counters, which sales and redemptions change by one UPDATE.

\* Mutant: the UPDATE without AND stock >= quantity.
CountUnchecked(n) == n <= MaxCount

\* stock >= quantity; current_uses < max_uses, and a bound on any stock.
CountAllowed(n) == n \in 0..MaxCount

ChangeCount(r, n) ==
  /\ row[r].exists /\ CountAllowed(row[r].count + n)
  /\ row' = [row EXCEPT ![r].count = @ + n]
  /\ serial' = [serial EXCEPT ![r] = Sum(r, n, TRUE)]
  /\ edit' = Disturb(r)
  /\ UNCHANGED <<review, drifted, unrated, family>>

Sell(p) == "sell" \in family /\ ChangeCount(p, -1)
Redeem(c) == "redeem" \in family /\ ChangeCount(c, 1)

-----------------------------------------------------------------------------
\* Reviews.

\* The approvals that hold the lock of the review of p by u.
Locked(u, p) ==
  \E e \in Editors : /\ edit[e].row = p /\ edit[e].by = u
                     /\ edit[e].mark # {} /\ edit[e].step \in {"counting", "rereading", "rating"}

Approved(p) ==
  {m \in Mark : review[<<m[1], p>>].state = "approved" /\ review[<<m[1], p>>].stars = m[2]}

\* Mutant: the reviews that wait for approval count too.
AllMarks(e) ==
  {m \in Mark : review[<<m[1], edit[e].row>>].stars = m[2]} \cup edit[e].mark

\* The approved reviews as e's request sees them: an approval sees its own.
Seen(e) ==
  {m \in Approved(edit[e].row) : edit[e].mark = {} \/ m[1] # edit[e].by} \cup edit[e].mark

\* What the author of a review does: each reads and writes its row only.
ChangeReview(u, p, new) ==
  /\ "reviews" \in family
  /\ ~Locked(u, p)
  /\ review' = [review EXCEPT ![<<u, p>>] = new]
  /\ unrated' = IF review[<<u, p>>].state = "approved" THEN unrated \cup {p} ELSE unrated
  /\ edit' = Disturb(p)
  /\ UNCHANGED <<row, serial, drifted, family>>

CreateReview(u, p, n) ==
  /\ row[p].exists /\ review[<<u, p>>] = NoReview
  /\ ChangeReview(u, p, [state |-> "pending", stars |-> n])

\* An edited review waits for approval again; the rating keeps its old mark.
UpdateReview(u, p, n) ==
  /\ review[<<u, p>>] # NoReview
  /\ ChangeReview(u, p, [state |-> "pending", stars |-> n])

DeleteOwnReview(u, p) ==
  /\ review[<<u, p>>] # NoReview
  /\ ChangeReview(u, p, NoReview)

\* An approval reads the review, then opens a transaction.
BeginApproval(e, u, p) ==
  /\ "approve-review" \in family
  /\ review[<<u, p>>] # NoReview
  /\ edit[e].step = "idle"
  /\ edit' = [Disturb(p) EXCEPT ![e] = [NoEdit EXCEPT
       !.step = "approving", !.row = p, !.by = u, !.mark = {<<u, review[<<u, p>>].stars>>},
       !.alone = \A x \in Editors : edit[x].row # p]]
  /\ UNCHANGED <<row, review, serial, drifted, unrated, family>>

\* The review is saved, which locks it, and the average is read.
AverageReviews(e) ==
  /\ edit[e].step \in {"approving", "averaging"}
  /\ edit[e].mark # {} => ~Locked(edit[e].by, edit[e].row)
  /\ edit' = [edit EXCEPT ![e].step = "counting", ![e].new.rating.average = Seen(e)]
  /\ UNCHANGED <<row, review, serial, drifted, unrated, family>>

CountReviews(e) ==
  /\ edit[e].step = "counting"
  /\ edit' = [edit EXCEPT ![e].step = "rereading", ![e].new.rating.total = Seen(e)]
  /\ UNCHANGED <<row, review, serial, drifted, unrated, family>>

RereadProduct(e) ==
  /\ edit[e].step = "rereading"
  /\ edit' = [edit EXCEPT ![e].step = "rating",
       ![e].new = [row[edit[e].row] EXCEPT !.rating = edit[e].new.rating]]
  /\ UNCHANGED <<row, review, serial, drifted, unrated, family>>

\* What is left of a request that goes no further: of a transaction nothing, of
\* a removal perhaps the review deleted and the rating as it was.
Abandoned(e) ==
  /\ unrated' = IF /\ edit[e].step \in {"averaging", "counting", "rereading", "rating"}
                   /\ edit[e].mark = {}
                THEN unrated \cup {edit[e].row} ELSE unrated
  /\ edit' = Ended(e)
  /\ UNCHANGED <<row, review, serial, drifted, family>>

\* The product is saved whole; an approval commits its review with it.
SaveRating(e) ==
  LET p == edit[e].row
      new == edit[e].new IN
  /\ edit[e].step = "rating"
  /\ KeyUnique(p, new.key) /\ ReferenceHolds(new.parent)
  /\ row' = [row EXCEPT ![p] = new]
  /\ review' = [x \in Customers \X Products |->
       IF edit[e].mark # {} /\ x = <<edit[e].by, p>>
       THEN [state |-> "approved", stars |-> CHOOSE n \in Stars : <<edit[e].by, n>> \in edit[e].mark]
       ELSE review[x]]
  /\ drifted' = IF edit[e].alone THEN drifted ELSE drifted \cup {p}
  /\ unrated' = IF edit[e].alone THEN unrated \ {p} ELSE unrated \cup {p}
  /\ serial' = [serial EXCEPT ![p] = Sum(p, 0, edit[e].alone)]
  /\ edit' = EndedAlone(e, p)
  /\ UNCHANGED family

\* The index or the foreign key refuses the row as it was read.
RejectRating(e) ==
  /\ edit[e].step = "rating"
  /\ ~(KeyUnique(edit[e].row, edit[e].new.key) /\ ReferenceHolds(edit[e].new.parent))
  /\ Abandoned(e)

\* An administrator's removal reads the review, deletes it, and computes the
\* rating anew, in statements of their own, if the review read was approved.
BeginRemoval(e, u, p) ==
  /\ "delete-review" \in family
  /\ review[<<u, p>>] # NoReview
  /\ Begin(e, p, "removing", Absent, u,
           IF review[<<u, p>>].state = "approved" THEN 1 ELSE 0, FALSE)

RemoveReview(e) ==
  LET x == <<edit[e].by, edit[e].row>> IN
  /\ edit[e].step = "removing"
  /\ ~Locked(x[1], x[2])
  /\ review' = [review EXCEPT ![x] = NoReview]
  /\ unrated' = IF edit[e].alone THEN unrated ELSE unrated \cup {x[2]}
  /\ edit' = IF edit[e].adds = 1
             THEN [Disturb(x[2]) EXCEPT ![e] = [edit[e] EXCEPT !.step = "averaging"]]
             ELSE EndedAlone(e, x[2])
  /\ UNCHANGED <<row, serial, drifted, family>>

\* The process dies.
Crash(e) == edit[e].step # "idle" /\ Abandoned(e)

-----------------------------------------------------------------------------
EditorStarts(e) ==
  \/ \E p \in Products :
       \/ \E k \in Keys, c \in Categories :
            \/ CreateProduct(e, p, k, c, 1)
            \/ \E a, sets \in BOOLEAN, n \in 0..MaxCount : UpdateProduct(e, p, k, c, a, n, sets)
       \/ \E q \in {-1, 1} : AdjustStock(e, p, q)
       \/ DeleteProduct(e, p)
       \/ \E u \in Customers : BeginApproval(e, u, p) \/ BeginRemoval(e, u, p)
  \/ \E c \in Categories :
       \/ \E k \in Keys, n \in Categories \cup {NoCategory} :
            CreateCategory(e, c, k, n) \/ UpdateCategory(e, c, k, n)
       \/ DeleteCategory(e, c)
  \/ \E c \in Coupons, k \in Keys :
       CreateCoupon(e, c, k) \/ \E a \in BOOLEAN : UpdateCoupon(e, c, k, a)
  \/ \E b \in Banners, a \in BOOLEAN : CreateBanner(e, b, a) \/ UpdateBanner(e, b, a)
  \/ \E c \in Coupons : DeleteCoupon(e, c)
  \/ \E b \in Banners : DeleteBanner(e, b)
  \/ \E s \in Settings :
       GetStoreSettings(e, s) \/ \E a \in BOOLEAN : UpdateStoreSettings(e, s, a)

Next ==
  \/ \E e \in Editors : EditorStarts(e)
  \/ \E e \in Editors : SaveRow(e)
  \/ \E e \in Editors : RemoveRow(e)
  \/ \E e \in Editors : AverageReviews(e)
  \/ \E e \in Editors : CountReviews(e)
  \/ \E e \in Editors : RereadProduct(e)
  \/ \E e \in Editors : SaveRating(e)
  \/ \E e \in Editors : RejectRating(e)
  \/ \E e \in Editors : RemoveReview(e)
  \/ \E e \in Editors : Crash(e)
  \/ \E p \in Products : Sell(p)
  \/ \E c \in Coupons : Redeem(c)
  \/ \E u \in Customers, p \in Products :
       \/ \E n \in Stars : CreateReview(u, p, n) \/ UpdateReview(u, p, n)
       \/ DeleteOwnReview(u, p)

Spec == Init /\ [][Next]_vars

-----------------------------------------------------------------------------
\* A product's category and a category's parent exist, whatever deletions,
\* creations and moves race, and though a late save can insert a deleted
\* category again: the foreign keys see to what the use cases check too early.
ReferencesResolve ==
  \A r \in Products \cup Categories :
    /\ row[r].exists => ParentFound(row[r].parent)
    /\ row[r].exists /\ r \in Products => row[r].parent # NoCategory

\* No two products or categories share a slug, no two coupons a code.
KeysUnique ==
  \A r \in Rows : row[r].exists => KeyFree(r, row[r].key)

\* A stock or a number of uses is what sales, redemptions, adjustments and the
\* stocks stated by update-product make it, one after the other, until the row
\* is saved whole by a request that overlapped with another change of it - and
\* again once a lone update-product states the stock: no other save of the row,
\* by an edit, a deletion or a moderation, loses or keeps back a change.
CountsKept ==
  \A r \in Rows \ drifted : row[r].exists => row[r].count = serial[r]

\* An approval, or the removal of an approved review, that runs alone leaves
\* the product's rating right, whatever overlaps, crashes and authors' changes
\* had made of it before (approve-review, delete-review).
RatingRepaired ==
  \A p \in Products \ unrated :
    (\A e \in Editors : edit[e].row # p) =>
      row[p].rating = [average |-> Approved(p), total |-> Approved(p)]
=============================================================================
