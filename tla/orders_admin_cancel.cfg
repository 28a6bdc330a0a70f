\* One order and an administrator who cancels it.
SPECIFICATION Spec
CONSTANTS
  u1 = u1  u2 = u2  p1 = p1  p2 = p2  c1 = c1  o1 = o1  o2 = o2  o3 = o3  a1 = a1
  Users = {u1}
  Admins = {a1}
  Orders = {o1}
  Products = {p1}
  Coupons = {}
  InitStock <- OneProductStock
  MaxUses <- NoCoupons
  MaxUsesPerUser <- NoCoupons
  AdminTargets = {"paid", "cancelled"}
  NoLimit = NoLimit
  NoUser = NoUser
  NoCoupon = NoCoupon
  NoOrder = NoOrder
INVARIANT CancelledReturnsStock
\* The orders of the model are finite.
CHECK_DEADLOCK FALSE
