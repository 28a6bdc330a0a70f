\* One order, its payment or cancellation, and a note on it.
SPECIFICATION NotesSpec
CONSTANTS
  u1 = u1  p1 = p1  o1 = o1  w1 = w1
  Users = {u1}
  Admins = {}
  Orders = {o1}
  Products = {p1}
  Coupons = {}
  InitStock <- OneProductStock
  MaxUses <- NoCoupons
  MaxUsesPerUser <- NoCoupons
  AdminTargets = {}
  Writers = {w1}
  NoLimit = NoLimit
  NoUser = NoUser
  NoCoupon = NoCoupon
  NoOrder = NoOrder
PROPERTY StatusFollowsTable
\* The orders of the model are finite.
CHECK_DEADLOCK FALSE
