SPECIFICATION Spec
CONSTANTS
  Codes = {c1}
  Mailboxes = {m1}
  Purposes = {"chat"}
  Requests = {r1, r2}
  MaxAttempts = 2
  CodeTTL = 1
  Kept = 0
  MaxTime = 2
  MaxCrashes = 1
  Nil = Nil
INVARIANT ChatLeavesNothing
CHECK_DEADLOCK FALSE
