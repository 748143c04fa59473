SPECIFICATION OutsideSpec
CONSTANTS
  Upload = {proof}
  Qr = {}
  FirstQr = first
  Notice = {proof}
  Txn = {t1}
  Reachable = {proof}
  SendMaxAttempts = 2
  NONE = NONE
INVARIANTS DiscardedOnlyFailed
CHECK_DEADLOCK FALSE
