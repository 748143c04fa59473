SPECIFICATION Spec
CONSTANTS
  Null = Null
  p1 = p1  p2 = p2  c1 = c1  c2 = c2  k1 = k1
  Order = {o1, o2}
  Person = {p1, p2}
  Local = {p1, p2}
  Category = {c1, c2}
  Rule = {1, 2}
  Coupon = {k1}
  Eligible <- MCEligible
  Capacity <- SeatCapacity
  TierRows <- SeatTiers
  CouponRows <- SeatCoupons
  Windows <- MCWindows
  Account = {a1}
  Txn = {t1}
  Proof = {f1}
  Reachable = {}
  MaxParticipants = 2
  UploadWindow = 1
  ReuploadWindow = 1
  ReminderWindow = 1
  OffsetMax = 1
  BatchSize = 1
  Lag = 0
  Overpay = 0
  Horizon = 2
SYMMETRY SeatSymmetry
INVARIANTS TypeOK OrderRowsAgree CountersConserved NeverOversold OneActiveRegistration
PROPERTIES ImplementsLedger CreatedWhileOpen
CHECK_DEADLOCK FALSE
