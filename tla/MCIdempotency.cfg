SPECIFICATION Spec
CONSTANTS
  Request = {x1, x2, x3}
  Key = {k1, k2}
  Body = {b1, b2}
  TTL = 2
  Lag = 1
  Horizon = 6
  Null = Null
SYMMETRY KeySymmetry
INVARIANTS TypeOK OneOrderPerKey AnswersMatch KeptWhileAlive
CHECK_DEADLOCK FALSE
