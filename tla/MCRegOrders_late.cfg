SPECIFICATION Spec
CONSTANTS
  Null = Null
  p1 = p1  p2 = p2  c1 = c1  c2 = c2  k1 = k1
  Order = {o1}
  Person = {p1, p2}
  Local = {p1}
  Category = {c1}
  Rule = {1}
  Coupon = {}
  Eligible <- PayEligible
  Capacity <- PayCapacity
  TierRows <- LateTiers
  CouponRows <- MCNothing
  Windows <- MCWindows
  Account = {a1}
  Txn = {t1}
  Proof = {f1}
  Reachable = {}
  MaxParticipants = 1
  UploadWindow = 1
  ReuploadWindow = 1
  ReminderWindow = 1
  OffsetMax = 1
  BatchSize = 1
  Lag = 1
  Overpay = 0
  Horizon = 2
PROPERTY NoLateUpload
CHECK_DEADLOCK FALSE
