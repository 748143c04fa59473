SPECIFICATION Spec
CONSTANTS
  Null = Null
  p1 = p1  p2 = p2  c1 = c1  c2 = c2  k1 = k1
  Order = {o1, o2}
  Person = {p1, p2}
  Local = {p1}
  Category = {c1}
  Rule = {1, 2}
  Coupon = {}
  Eligible <- PayEligible
  Capacity <- PayCapacity
  TierRows <- PayTiers
  CouponRows <- MCNothing
  Windows <- MCWindows
  Account = {a1}
  Txn = {t1, t2}
  Proof = {f1, f2, f3}
  Reachable = {o1}
  MaxParticipants = 1
  UploadWindow = 1
  ReuploadWindow = 1
  ReminderWindow = 1
  OffsetMax = 1
  BatchSize = 1
  Lag = 0
  Overpay = 1
  Horizon = 3
SYMMETRY PaySymmetry
INVARIANTS AmountsIdentify ReviewNeverStuck MoneyMatches NoticesTell
PROPERTIES NeverExpiredEarly
CHECK_DEADLOCK FALSE
