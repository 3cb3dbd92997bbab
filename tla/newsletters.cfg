SPECIFICATION FairSpec
CONSTANTS
  Campaigns = {n1}
  Contacts = {k1}
  Workers = {w1}
  Handlers = {h1}
  Rate = 1
  ClaimTimeout = 1
  FirstWait = 1
  SecondWait = 1
  Threshold = 1
  PauseAt = 1
  Nil = Nil
  MaxRows = 2
  MaxJobs = 3
  MaxCrashes = 1
INVARIANT TypeOK
INVARIANT MailedOnce
INVARIANT SentIsDone
PROPERTY RefusedNotPlanned
PROPERTY DeliveriesSettle
CHECK_DEADLOCK FALSE
