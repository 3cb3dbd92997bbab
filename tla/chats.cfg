SPECIFICATION FairSpec
CONSTANTS
  Chats = {c1, c2, c3}
  Agents = {a1}
  Procs = {w1, w2}
  Sweepers = {w2}
  MaxChats = 1
  WaitLimit = 0
  IdleLimit = 0
  Nil = Nil
  MaxTime = 1
  MaxJobs = 3
  MaxCrashes = 1
INVARIANT TypeOK
INVARIANT RoutingKeepsLimit
INVARIANT SessionAndTicketAgree
PROPERTY WaitingChatsEnd
CHECK_DEADLOCK FALSE
