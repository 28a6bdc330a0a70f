SPECIFICATION Spec
CONSTANTS
  a = a
  b = b
  Staff = {a, b}
  Seller <- MCSeller
  Cashier <- MCCashier
  Registers <- MCRegisters
  Sales <- MCSales
  Requests <- MCRequests
  PoolSize = 2
  NoStaff = NoStaff
  NoRegister = NoRegister
CHECK_DEADLOCK FALSE
INVARIANTS TypeOK OneOpenPerStaff CountedOnce NothingMissed NumbersUnique
PROPERTIES SalesEnd
