----------------------------- MODULE MCPayments -----------------------------
EXTENDS Payments, TLC

CONSTANTS o1, x1, x2

\* Two payments started for one order; one payment.
TwoPayments == x1 :> o1 @@ x2 :> o1
OnePayment == x1 :> o1
=============================================================================
