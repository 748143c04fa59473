SPECIFICATION Spec
CONSTANTS
  Txn = {t1, t2, t3}
  MaxId = 1
  Rows <- MCRows
  Cart <- MCCart
  OrderCart <- MCOrderCart
SYMMETRY LockSymmetry
INVARIANTS NoDeadlock
