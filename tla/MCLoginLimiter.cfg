SPECIFICATION Spec
CONSTANTS
  Login = {l1, l2, l3, l4, l5}
  User = {u1}
  IP = {i1}
  IPWindow = 1
  IPMax = 4
  FailureWindow = 2
  MaxFailures = 2
  LockDuration = 2
  SweepEvery = 3
  Horizon = 4
  Null = Null
SYMMETRY LoginSymmetry
INVARIANTS SlotsReturned GuessesBounded AddressBounded
PROPERTIES LockHolds
CHECK_DEADLOCK FALSE
