SPECIFICATION Spec
CONSTANTS
  Tickets = {t1}
  Existing = {t1}
  Agents = {a1}
  Details = {d1}
  CustomStatuses = {}
  Category <- OneCategory
  CategoryValues = {}
  FirstWithin = 1
  ResolveWithin = 1
  Nil = Nil
  Procs <- Tickers
  Duties <- TickerDuties
  StatusValues = {"resolved"}
  RuleValues = {}
  SnoozeFor = {1}
  ScanLimit = 2
  ForeignKeys = TRUE
  MaxTime = 2
  MaxJobs = 1
  MaxCrashes = 0
  t1 = t1
  t2 = t2
  t3 = t3
  w1 = w1
  w2 = w2
  waker = waker
  checker = checker
  c1 = c1
INVARIANT BreachAnnouncedOnce
CHECK_DEADLOCK FALSE
