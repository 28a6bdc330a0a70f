-------------------------------- MODULE MCPos --------------------------------
\* Two orders, two products and one coupon, for TLC.
EXTENDS PosOrders, TLC

MCProducts == {1, 2}
MCInitStock == 1 :> 3 @@ 2 :> 2
MCMaxUses == [c \in Coupons |-> 1]
MCTargets == {"processing"}

L(p, q) == [product |-> p, quantity |-> q]
\* The same two products in either order, so that only sorting aligns them; two
\* sales compete for the coupon, one of them a MercadoPago sale that stays pending.
MCRequests == {
  [lines |-> <<L(1, 2), L(2, 1)>>, coupon |-> CHOOSE c \in Coupons : TRUE, final |-> "paid"],
  [lines |-> <<L(2, 1), L(1, 1)>>, coupon |-> NoCoupon, final |-> "paid"],
  [lines |-> <<L(2, 1), L(1, 1)>>, coupon |-> CHOOSE c \in Coupons : TRUE, final |-> "pending"]}
MCParts == {<<L(1, 1)>>}
=============================================================================
