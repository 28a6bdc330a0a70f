------------------------------ MODULE MCOrders ------------------------------
EXTENDS Orders, TLC

CONSTANTS u1, u2, p1, p2, c1, o1, o2, o3, a1

\* Two units of one product, one of the other: orders compete for both.
MCStock == p1 :> 2 @@ p2 :> 1
OneProductStock == p1 :> 2

OneUse == c1 :> 1
TwoUses == c1 :> 2
OnePerUser == c1 :> 1
NoCoupons == <<>>

MCSymmetry == Permutations(Orders) \cup Permutations(Users)
=============================================================================
