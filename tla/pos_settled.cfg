SPECIFICATION Spec
CONSTANTS
  Tills = {1, 2}
  Desks = {d1}
  Orders = {11}
  Coupons = {c1}
  Products <- MCProducts
  InitStock <- MCInitStock
  MaxUses <- MCMaxUses
  Requests <- MCRequests
  Parts <- MCParts
  Kinds = {"sale", "cancel"}
  Targets <- MCTargets
  ParcelTargets = {"delivered"}
  NoOrder = NoOrder
  NoCoupon = NoCoupon
  NoOne = NoOne
CHECK_DEADLOCK FALSE
PROPERTIES SettledIsFinal
