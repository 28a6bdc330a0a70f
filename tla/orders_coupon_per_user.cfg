\* One customer, two checkouts at once, a coupon for one use per customer.
SPECIFICATION Spec
CONSTANTS
  u1 = u1  u2 = u2  p1 = p1  p2 = p2  c1 = c1  o1 = o1  o2 = o2  o3 = o3  a1 = a1
  Users = {u1}
  Admins = {}
  Orders = {o1, o2}
  Products = {p1}
  Coupons = {c1}
  InitStock <- OneProductStock
  MaxUses <- TwoUses
  MaxUsesPerUser <- OnePerUser
  AdminTargets = {}
  NoLimit = NoLimit
  NoUser = NoUser
  NoCoupon = NoCoupon
  NoOrder = NoOrder
INVARIANT CouponLimitPerUser
\* The orders of the model are finite.
CHECK_DEADLOCK FALSE
