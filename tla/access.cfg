SPECIFICATION AccessSpec
CONSTANTS
  Codes = {p1, p2}
  Mailboxes = {m1}
  Purposes = {"ticket", "chat", "lookup"}
  Requests = {r1, r2}
  Pair = {p1, p2}
  MaxAttempts = 2
  CodeTTL = 1
  Kept = 0
  MaxTime = 2
  MaxCrashes = 1
  Nil = Nil
  Tickets = {"t1", "t2"}
  Chats = {"t1"}
  Guests = {p1, p2}
  GrantTTL = 1
  RejectLegacy = FALSE
  MaxIssued = 2
  TokensTime = 1
  Keys <- AllKeys
  Limit <- KeyLimit
  Paths <- AllPaths
  Strict <- Budget
  Window = 2
  SweepAfter = 2
  Errors = TRUE
  MaxHits = 3
  LimitsTime = 3
  RecoveryCodes = {1}
  MaxRows = 2
  FactorTime = 1
  Browsers = {"b1"}
  SamlRequests = {"r1"}
  Messages = {p1, p2}
  Emails = {"e1"}
  HostRoles = {}
  Untils = {1}
  Skew = 1
  TTL = 1
  SignOnTime = 2
  MaxSignIns = 2
  Users = {"u1", "u2"}
  Ids = {p1, p2}
  Slugs = {"s1", "s2"}
  System = {"s1"}
  Perms = {"m"}
  Manage = "m"
  ScopeRequests = {"s1"}
  Viewers = {"u1"}
  Departments = {"d1"}
  ScopeOptions <- Restrictions
  Identities <- HostSays
  Filings <- TicketFilings
  RowIds <- TableIds
  Picks <- RowAtATime
  ForeignKeys = TRUE
  Reuses = FALSE
INVARIANT AccessTypeOK
INVARIANT FiveGuesses
INVARIANT NothingLeftBehind
INVARIANT GuestsHold
INVARIANT StaffHolds
PROPERTY IsCodeOnce
PROPERTY AreFixedWindows
PROPERTY StepsKeepAccess
SYMMETRY Alike
CHECK_DEADLOCK FALSE
