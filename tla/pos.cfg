SPECIFICATION Spec
CONSTANTS
  Tills = {1, 2, 3}
  Desks = {d1}
  Orders = {11, 12}
  Coupons = {c1}
  Products <- MCProducts
  InitStock <- MCInitStock
  MaxUses <- MCMaxUses
  Requests <- MCRequests
  Parts <- MCParts
  Kinds = {"sale", "cancel", "expire", "refund", "partial"}
  Targets <- MCTargets
  ParcelTargets = {"delivered"}
  NoOrder = NoOrder
  NoCoupon = NoCoupon
  NoOne = NoOne
CHECK_DEADLOCK FALSE
INVARIANTS TypeOK StockMatchesHistory CouponMatchesSales OnlyRefundsDeadlock HistoryFaithful
PROPERTIES TransactionsEnd
