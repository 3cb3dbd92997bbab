SPECIFICATION Spec
CONSTANTS
  Requests = {r1, r2}
  RecoveryCodes = {1}
  MaxRows = 1
  MaxTime = 2
INVARIANT RecoveryCodeOnce
CHECK_DEADLOCK FALSE
