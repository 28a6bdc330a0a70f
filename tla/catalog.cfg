SPECIFICATION Spec
CONSTANTS
  Categories = {c1, c2}
  Products = {p1, p2}
  Coupons = {k1}
  Banners = {b1}
  Settings = {s1}
  Customers = {u1, u2}
  Editors = {e1, e2}
  Keys = {x, y}
  Stars <- MCStars
  MaxCount = 1
  Families <- MCFamilies
  NoKey = NoKey
  NoCategory = NoCategory
  NoRow = NoRow
  NoCustomer = NoCustomer
SYMMETRY Symmetry
INVARIANTS TypeOK ReferencesResolve KeysUnique CountsKept RatingRepaired
