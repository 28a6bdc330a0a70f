----------------------------- MODULE MCRegister -----------------------------
\* The register's rows, sales and requests as numbers, for TLC.
EXTENDS CashRegister, TLC

CONSTANTS a, b

MCRegisters == 1..2
MCSales == 1..2
MCRequests == 1..4
MCSeller == 1 :> a @@ 2 :> b
MCCashier == 1 :> a @@ 2 :> a @@ 3 :> a @@ 4 :> a
=============================================================================
