SPECIFICATION FairOutsideSpec
CONSTANTS
  Upload = {proof, code}
  Qr = {code}
  FirstQr = first
  Notice = {proof, reminder, unlinked}
  Txn = {t1, t2}
  Reachable = {proof, reminder}
  SendMaxAttempts = 2
  NONE = NONE
INVARIANTS ImagesMatchRows OneJobPerNotice ResendsExplained NoSilentLoss
PROPERTIES NoticesSettle
CHECK_DEADLOCK FALSE
