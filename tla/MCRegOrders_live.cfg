SPECIFICATION FairSpec
CONSTANTS
  Null = Null
  p1 = p1  p2 = p2  c1 = c1  c2 = c2  k1 = k1
  Order = {o1, o2}
  Person = {p1, p2}
  Local = {p1}
  Category = {c1}
  Rule = {1, 2}
  Coupon = {}
  Eligible <- PayEligible
  Capacity <- PayCapacity
  TierRows <- PayTiers
  CouponRows <- MCNothing
  Windows <- MCClosing
  Account = {a1}
  Txn = {t1}
  Proof = {f1, f2}
  Reachable = {}
  MaxParticipants = 1
  UploadWindow = 1
  ReuploadWindow = 1
  ReminderWindow = 1
  OffsetMax = 1
  BatchSize = 2
  Lag = 0
  Overpay = 0
  Horizon = 3
PROPERTIES ReservationsSettle
CHECK_DEADLOCK FALSE
