SPECIFICATION Spec
CONSTANTS
  Tickets = {t1, t2}
  Existing = {t1}
  Agents = {a1}
  Details = {d1}
  CustomStatuses = {c1}
  Category <- OpenCategory
  CategoryValues = {"solved"}
  FirstWithin = 1
  ResolveWithin = 1
  Nil = Nil
  Procs <- TwoProcs
  Duties <- TwoProcDuties
  StatusValues = {c1}
  RuleValues = {"escalated", c1}
  SnoozeFor = {1}
  ScanLimit = 2
  ForeignKeys = TRUE
  MaxTime = 0
  MaxJobs = 3
  MaxCrashes = 0
  t1 = t1
  t2 = t2
  t3 = t3
  w1 = w1
  w2 = w2
  waker = waker
  checker = checker
  c1 = c1
INVARIANT TypeOK
INVARIANT SnoozeFieldsTogether
INVARIANT MergedOutOfScope
INVARIANT CustomAtAnchor
INVARIANT NoDeletedStatus
CHECK_DEADLOCK FALSE
