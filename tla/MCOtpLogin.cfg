SPECIFICATION Spec
CONSTANTS
  Request = {r1, r2, r3}
  Try = {v1, v2}
  Phone = {p1}
  IP = {i1}
  PhoneCooldown = 1
  PhoneWindow = 4
  PhoneMax = 2
  IPWindow = 2
  IPMax = 2
  VerifyWindow = 4
  VerifyMax = 1
  SweepEvery = 2
  TTL = 1
  MaxAttempts = 1
  Second = 2
  Horizon = 4
  Null = Null
SYMMETRY OtpSymmetry
INVARIANTS TypeOK OneTimelyCode GuessesPerCode SendsBounded WaitIsRight
CHECK_DEADLOCK FALSE
