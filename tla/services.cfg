SPECIFICATION Spec
CONSTANTS
  Workers = {w1, w2}
  Nil = Nil
  PerSecond = 2
  Tickets = {"t1"}
  Agents = {p1, p2}
  Users = {p1, p2}
  Plugins = {p1, p2}
  Callers = {"h1", "h2"}
  PluginAdmins = {"h1"}
  Requests = {"r1"}
  Ctx = {"x1"}
  MaxGens = 2
  MaxCalls <- Calls
  MaxCtx = 1
  StoreValues = {"v1", "v2"}
  StoreCalls = 3
  Source <- Pages
  Host = Host
  HostUsers = {Host}
  Admins = {"a1"}
  MaxRuns = 2
  MaxAsks = 2
  ImportFaults = 1
  FieldIds = {"i1", "i2"}
  Categories = {"open"}
  MaxSlug = 2
  FieldWrites = 4
  Customer = "c"
  PanelTime = 2
  MaxReplies = 2
  MaxClicks = 1
  Subjects = {"s1"}
  Visits = {"q1", "q2", "q3"}
  Throttle = 1
  Window = 3
  Slowest = 2
  PresenceTime = 8
  Hooks = {p1, p2}
  HookEvents = {"e1"}
  HostNames = {"n1"}
  MaxAttempts = 2
  HookEdits = 2
  MaxRetries = 1
  Clients = {"u1"}
  Streams = {w1, w2}
  Publishers = {"p1"}
  Channels = {"c1"}
  BufferSize = 1
  MaxSubscribers = 2
  Restricted = TRUE
  MaxEvents = 3
  MaxChanges = 2
  ViewNames = {"n1"}
  Reuses = FALSE
  MaxViews = 3
  MaxPosition = 2
  ViewWrites = 3
  Messages <- Inbox
  MailTickets = {"t1", "t2"}
  Addresses = {"a1", "a2"}
  MailFaults = 1
  MailEdits = 1
INVARIANT TypeOK
INVARIANT PluginsHold
INVARIANT ImportHolds
INVARIANT DeskHolds
INVARIANT TrafficHolds
PROPERTY ActsForItsCall
PROPERTY StepsKeepRows
SYMMETRY Alike
CHECK_DEADLOCK FALSE
