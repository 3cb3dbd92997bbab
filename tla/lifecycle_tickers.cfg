SPECIFICATION FairSpec
CONSTANTS
  Tickets = {t1, t2}
  Existing = {t1}
  Agents = {a1}
  Details = {d1}
  CustomStatuses = {}
  Category <- OneCategory
  CategoryValues = {}
  FirstWithin = 1
  ResolveWithin = 1
  Nil = Nil
  Procs <- Tickers
  Duties <- TickerDuties
  StatusValues = {"resolved", "reopened"}
  RuleValues = {}
  SnoozeFor = {1}
  ScanLimit = 1
  ForeignKeys = TRUE
  MaxTime = 3
  MaxJobs = 2
  MaxCrashes = 0
  t1 = t1
  t2 = t2
  t3 = t3
  w1 = w1
  w2 = w2
  waker = waker
  checker = checker
  c1 = c1
INVARIANT FlagMeansAnnounced
PROPERTY SnoozesEnd
PROPERTY BreachesAnnounced
CHECK_DEADLOCK FALSE
