SPECIFICATION Spec
CONSTANTS
  Tickets = {t1, t2}
  Existing = {t1}
  Agents = {a1}
  Details = {d1, d2}
  CustomStatuses = {c1}
  Category <- OneCategory
  CategoryValues = {}
  FirstWithin = 1
  ResolveWithin = 1
  Nil = Nil
  Procs <- OneProc
  Duties <- OneProcDuties
  StatusValues = {"resolved", "closed", "open"}
  RuleValues = {"resolved"}
  SnoozeFor = {1}
  ScanLimit = 2
  ForeignKeys = TRUE
  MaxTime = 2
  MaxJobs = 3
  MaxCrashes = 1
  t1 = t1
  t2 = t2
  t3 = t3
  w1 = w1
  w2 = w2
  waker = waker
  checker = checker
  c1 = c1
SYMMETRY DetailsAlike
INVARIANT AnsweredIsStamped
PROPERTY FirstResponseKept
PROPERTY WokenOnTime
INVARIANT NoMergeCycle
CHECK_DEADLOCK FALSE
