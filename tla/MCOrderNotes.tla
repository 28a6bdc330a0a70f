---------------------------- MODULE MCOrderNotes ----------------------------
EXTENDS OrderNotes, TLC

CONSTANTS u1, p1, o1, w1

OneProductStock == p1 :> 2
NoCoupons == <<>>
=============================================================================
