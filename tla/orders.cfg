\* Two customers, two checkouts, two products: the races for stock, coupon
\* and pending orders, with one administrator.
SPECIFICATION Spec
CONSTANTS
  u1 = u1  u2 = u2  p1 = p1  p2 = p2  c1 = c1  o1 = o1  o2 = o2  o3 = o3  a1 = a1
  Users = {u1, u2}
  Admins = {a1}
  Orders = {o1, o2}
  Products = {p1, p2}
  Coupons = {c1}
  InitStock <- MCStock
  MaxUses <- OneUse
  MaxUsesPerUser <- OnePerUser
  AdminTargets = {"paid", "cancelled", "refunded"}
  NoLimit = NoLimit
  NoUser = NoUser
  NoCoupon = NoCoupon
  NoOrder = NoOrder
SYMMETRY MCSymmetry
INVARIANTS
  TypeOK StockConserved CouponAccounting ReleasedIsCancelled
PROPERTIES ImplementsLedger ImplementsLifeCycle
\* The orders of the model are finite: when all are resolved nothing is left to do.
CHECK_DEADLOCK FALSE
