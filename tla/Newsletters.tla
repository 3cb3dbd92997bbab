------------------------------ MODULE Newsletters ------------------------------
(***************************************************************************)
(* Newsletter campaigns and their deliveries (services/newsletter,          *)
(* handlers/newsletter.go).  A plan writes one delivery row per recipient;  *)
(* each replica's minute worker reclaims rows claimed too long ago, claims  *)
(* pending ones up to its rate limit, mails them and writes each row back   *)
(* whole; open, click, bounce and complaint callbacks read a row and write  *)
(* it back whole beside it.  Nothing is a transaction: each statement is an *)
(* action here.                                                             *)
(***************************************************************************)
EXTENDS Naturals, FiniteSets

CONSTANTS
  Campaigns,      \* escalated_newsletters
  Contacts,       \* the members of the target list, one address each
  Workers,        \* the minute workers, one a replica
  Handlers,       \* goroutines of the admin screens and the callbacks
  Rate,           \* RateLimitPerMinute
  ClaimTimeout,   \* ClaimTimeoutMinutes
  FirstWait, SecondWait,   \* minutes before the second and the third attempt
  Threshold,      \* AutoPauseThreshold, and the bounces among them
  PauseAt,        \* at which the bounce rate is reached
  Nil,
  MaxRows, MaxJobs, MaxCrashes   \* bounds of delivery rows, requests, crashes

ASSUME NewsletterConstants ==
  /\ Rate \in Nat \ {0} /\ ClaimTimeout \in Nat \ {0} /\ Threshold \in Nat \ {0}
  /\ FirstWait \in Nat \ {0} /\ SecondWait \in Nat \ {0} /\ PauseAt \in 0..Threshold
  /\ Workers \cap Handlers = {} /\ Nil \notin Nat
  /\ MaxRows \in Nat /\ MaxJobs \in Nat /\ MaxCrashes \in Nat

Procs == Workers \cup Handlers
Ids == 1..MaxRows
MaxAttempts == 3
Backoff == <<FirstWait, SecondWait>>
LongestWait == IF Backoff[1] > Backoff[2] THEN Backoff[1] ELSE Backoff[2]

VARIABLES
  campaigns,    \* the status of each campaign
  rows,         \* escalated_newsletter_deliveries, by id
  suppressed,   \* the address list in the setting newsletter.suppressed_emails
  optedOut,     \* contacts with marketing_opt_out_at
  spent,        \* what each worker has claimed in this minute
  job,          \* what each goroutine is in the middle of
  mails,        \* how often a delivery has been mailed, see MailsCounted
  refused,      \* addresses whose bounce or complaint has been recorded
  apart,        \* no two goroutines have overlapped and none has crashed
  jobs, crashes

vars == <<campaigns, rows, suppressed, optedOut, spent, job, mails, refused, apart, jobs, crashes>>

Open == {"pending", "queued"}
Finished == {"sent", "bounced", "complained", "failed"}

\* claimed: minutes since claimed_at; wait: minutes to next_attempt_at.  A row
\* still to be mailed has an attempt left, and carries a claim iff queued.
Row ==
  {r \in [camp : Campaigns, contact : Contacts, status : Open \cup Finished,
          attempts : Nat, claimed : 0..(ClaimTimeout + 1) \cup {Nil},
          wait : 0..LongestWait] :
     /\ r.status \in Open => r.attempts < MaxAttempts
     /\ r.status = "queued" => r.claimed # Nil
     /\ r.status = "pending" => r.claimed = Nil}

Steps == {"idle", "plan", "recipients", "insert", "reclaim", "pick", "take", "mail", "save",
          "finalize", "finish", "judge", "pause", "track", "suppress", "listed"}

\* camps: campaigns to plan, finish or pause; camp: the one being planned;
\* todo: contacts to insert; ids: rows claimed; id and row: the delivery in
\* memory; list: the suppression list in memory; contact: the address to add.
Job == [step : Steps, camps : SUBSET Campaigns, camp : Campaigns \cup {Nil},
        todo : SUBSET Contacts, ids : SUBSET Ids, id : Ids \cup {Nil},
        row : Row \cup {Nil}, list : SUBSET Contacts, contact : Contacts \cup {Nil}]

\* No row, no goroutine's row: NULL is none of them.
ASSUME NilIsNothing == Nil \notin Row

Idle == [step |-> "idle", camps |-> {}, camp |-> Nil, todo |-> {}, ids |-> {}, id |-> Nil,
         row |-> Nil, list |-> {}, contact |-> Nil]

Written == {i \in Ids : rows[i] # Nil}

Init ==
  /\ campaigns = [n \in Campaigns |-> "draft"]
  /\ rows = [i \in Ids |-> Nil]
  /\ suppressed = {} /\ optedOut = {}
  /\ spent = [p \in Workers |-> 0]
  /\ job = [p \in Procs |-> Idle]
  /\ mails = [i \in Ids |-> 0] /\ refused = {} /\ apart = TRUE
  /\ jobs = 0 /\ crashes = 0

\* A second mail is told from the first only where MailedOnce speaks of it.
MailsCounted == IF apart THEN 2 ELSE 1

-----------------------------------------------------------------------------
At(p, step) == job[p].step = step
Goes(p, j) == job' = [job EXCEPT ![p] = j]

Begin(p, j) ==
  /\ At(p, "idle") /\ Goes(p, j)
  /\ apart' = (apart /\ \A q \in Procs : At(q, "idle"))

Request(p, j) == /\ p \in Handlers /\ jobs < MaxJobs /\ jobs' = jobs + 1
                 /\ Begin(p, j)

\* Fault: only the times are cleared.
SentStillQueued(r) == [r EXCEPT !.claimed = 0, !.wait = 0]

\* What dispatchOne makes of a row: mailed, or failed and put back or given up.
Sent(r) == [r EXCEPT !.status = "sent", !.claimed = Nil, !.wait = 0]

\* Fault: one attempt too many is put back.
FailedLate(r) ==
  IF r.attempts + 1 > MaxAttempts
  THEN [r EXCEPT !.status = "failed", !.attempts = @ + 1, !.claimed = Nil, !.wait = 0]
  ELSE [r EXCEPT !.status = "pending", !.attempts = @ + 1, !.claimed = Nil,
                 !.wait = Backoff[IF r.attempts = 0 THEN 1 ELSE 2]]

Failed(r) ==
  IF r.attempts + 1 >= MaxAttempts
  THEN [r EXCEPT !.status = "failed", !.attempts = @ + 1, !.claimed = Nil, !.wait = 0]
  ELSE [r EXCEPT !.status = "pending", !.attempts = @ + 1, !.claimed = Nil,
                 !.wait = Backoff[r.attempts + 1]]

-----------------------------------------------------------------------------
\* CampaignStore, CampaignUpdate: any status but by the dispatcher's, whatever
\* it was; sending is planned by the request itself.
SaveCampaign(p, n) ==
  /\ \E status \in {"draft", "scheduled", "sending"} :
       /\ campaigns' = [campaigns EXCEPT ![n] = status]
       /\ Request(p, IF status = "sending" THEN [Idle EXCEPT !.step = "plan", !.camp = n] ELSE Idle)
  /\ UNCHANGED <<rows, suppressed, optedOut, spent, mails, refused, crashes>>

\* UnsubscribeStore: rows already planned are mailed all the same.
Unsubscribe(p, i) ==
  /\ mails[i] > 0
  /\ Request(p, Idle)
  /\ optedOut' = optedOut \cup {rows[i].contact}
  /\ UNCHANGED <<campaigns, rows, suppressed, spent, mails, refused, crashes>>

\* RecordOpen and RecordClick, by the pixel, the link or the provider's webhook,
\* of a row not bounced, complained of or failed: the columns they set decide
\* nothing, but the whole row is written ...
RecordOpen(p, i) ==
  /\ mails[i] > 0
  /\ rows[i].status \notin {"bounced", "complained", "failed"}
  /\ Request(p, [Idle EXCEPT !.step = "track", !.id = i, !.row = rows[i]])
  /\ UNCHANGED <<campaigns, rows, suppressed, optedOut, spent, mails, refused, crashes>>

\* ... and RecordBounce and RecordComplaint.
RecordRefusal(p, i) ==
  /\ mails[i] > 0
  /\ \E how \in {"bounced", "complained"} \ {rows[i].status} :
       Request(p, [Idle EXCEPT !.step = "track", !.id = i, !.row = [rows[i] EXCEPT !.status = how]])
  /\ UNCHANGED <<campaigns, rows, suppressed, optedOut, spent, mails, refused, crashes>>

\* Fault: the address of a complaint is not suppressed.
SuppressBounces(p) ==
  LET j == job[p]
  IN  /\ At(p, "track")
      /\ rows' = [rows EXCEPT ![j.id] = j.row]
      /\ IF j.row.status \in {"bounced", "complained"}
         THEN /\ refused' = refused \cup {j.row.contact}
              /\ Goes(p, IF j.row.status = "bounced"
                         THEN [Idle EXCEPT !.step = "suppress", !.contact = j.row.contact] ELSE Idle)
         ELSE UNCHANGED refused /\ Goes(p, Idle)
      /\ UNCHANGED <<campaigns, suppressed, optedOut, spent, mails, apart, jobs, crashes>>

\* UpdateDelivery by the tracker: every column as read.
Track(p) ==
  LET j == job[p]
  IN  /\ At(p, "track")
      /\ rows' = [rows EXCEPT ![j.id] = j.row]
      /\ IF j.row.status \in {"bounced", "complained"}
         THEN /\ refused' = refused \cup {j.row.contact}
              /\ Goes(p, [Idle EXCEPT !.step = "suppress", !.contact = j.row.contact])
         ELSE UNCHANGED refused /\ Goes(p, Idle)
      /\ UNCHANGED <<campaigns, suppressed, optedOut, spent, mails, apart, jobs, crashes>>

\* BounceSuppressionStore.mark: the list is read ...
LoadList(p) ==
  LET j == job[p]
  IN  /\ At(p, "suppress")
      /\ Goes(p, IF j.contact \in suppressed THEN Idle
                 ELSE [j EXCEPT !.step = "listed", !.list = suppressed])
      /\ UNCHANGED <<campaigns, rows, suppressed, optedOut, spent, mails, refused, apart, jobs, crashes>>

\* ... and written back with the address.
StoreList(p) ==
  /\ At(p, "listed")
  /\ suppressed' = job[p].list \cup {job[p].contact}
  /\ Goes(p, Idle)
  /\ UNCHANGED <<campaigns, rows, optedOut, spent, mails, refused, apart, jobs, crashes>>

-----------------------------------------------------------------------------
\* NewsletterPlanner.Plan: the status first ...
SetSending(p) ==
  LET j == job[p]
  IN  /\ At(p, "plan")
      /\ campaigns' = [campaigns EXCEPT ![j.camp] = "sending"]
      /\ Goes(p, [j EXCEPT !.step = "recipients"])
      /\ UNCHANGED <<rows, suppressed, optedOut, spent, mails, refused, apart, jobs, crashes>>

\* The plan is over: a worker goes on to its next campaign due, or to its batch.
Planned(p, j) == IF p \in Handlers THEN Idle
                 ELSE IF j.camps = {} THEN [Idle EXCEPT !.step = "reclaim"]
                 ELSE LET n == CHOOSE n \in j.camps : TRUE
                      IN  [Idle EXCEPT !.step = "plan", !.camp = n, !.camps = j.camps \ {n}]

\* ... then who of the list may be sent to ...
Recipients(p) ==
  LET j == job[p]
      sendable == Contacts \ (optedOut \cup suppressed)
  IN  /\ At(p, "recipients")
      /\ Goes(p, IF sendable = {} THEN Planned(p, j)
                 ELSE [j EXCEPT !.step = "insert", !.todo = sendable])
      /\ UNCHANGED <<campaigns, rows, suppressed, optedOut, spent, mails, refused, apart, jobs, crashes>>

\* ... and a row for each, under the next id; an insert that fails ends the plan,
\* and the tick with it.  The bound MaxRows is such a failure.
InsertDelivery(p) ==
  LET j == job[p]
      left(c) == [j EXCEPT !.todo = @ \ {c}]
  IN  /\ At(p, "insert")
      /\ \/ /\ Written # Ids
            /\ \E c \in j.todo :
                 /\ rows' = [rows EXCEPT ![Cardinality(Written) + 1] =
                               [camp |-> j.camp, contact |-> c, status |-> "pending",
                                attempts |-> 0, claimed |-> Nil, wait |-> 0]]
                 /\ Goes(p, IF j.todo = {c} THEN Planned(p, left(c)) ELSE left(c))
         \/ UNCHANGED rows /\ Goes(p, Idle)
      /\ UNCHANGED <<campaigns, suppressed, optedOut, spent, mails, refused, apart, jobs, crashes>>

-----------------------------------------------------------------------------
Stuck(i) == rows[i].status = "queued" /\ rows[i].claimed > ClaimTimeout
Ready(i) == rows[i].status = "pending" /\ rows[i].wait = 0

\* Worker.Tick: the scheduled campaigns that are due are planned, then a batch is
\* dispatched.  A tick that finds nothing to do is no step.
Tick(p) ==
  /\ p \in Workers
  /\ \E due \in SUBSET {n \in Campaigns : campaigns[n] = "scheduled"} :
       /\ \/ due # {}
          \/ \E i \in Written : Stuck(i) \/ Ready(i)
          \/ \E n \in Campaigns : campaigns[n] = "sending"
       /\ Begin(p, Planned(p, [Idle EXCEPT !.camps = due]))
  /\ UNCHANGED <<campaigns, rows, suppressed, optedOut, spent, mails, refused, jobs, crashes>>

\* Fault: a claim is never given up.
ReclaimNone(p) ==
  /\ At(p, "reclaim")
  /\ Goes(p, [Idle EXCEPT !.step = "pick"])
  /\ UNCHANGED <<campaigns, rows, suppressed, optedOut, spent, mails, refused, apart, jobs, crashes>>

\* reclaimStuckRows: one UPDATE.
Reclaim(p) ==
  /\ At(p, "reclaim")
  /\ rows' = [i \in Ids |-> IF i \in Written /\ Stuck(i)
                            THEN [rows[i] EXCEPT !.status = "pending", !.claimed = Nil] ELSE rows[i]]
  /\ Goes(p, [Idle EXCEPT !.step = "pick"])
  /\ UNCHANGED <<campaigns, suppressed, optedOut, spent, mails, refused, apart, jobs, crashes>>

\* The first k of a set of ids.
First(S, k) == {i \in S : Cardinality({h \in S : h <= i}) <= k}

\* claim: the ids are read, whatever the status of their campaigns ...
Pick(p) ==
  LET ids == First({i \in Written : Ready(i)}, Rate - spent[p])
  IN  /\ At(p, "pick")
      /\ Goes(p, IF ids = {} THEN [Idle EXCEPT !.step = "finalize"]
                 ELSE [Idle EXCEPT !.step = "take", !.ids = ids])
      /\ UNCHANGED <<campaigns, rows, suppressed, optedOut, spent, mails, refused, apart, jobs, crashes>>

\* ... and those still pending queued; all that were read are dispatched.
Take(p) ==
  LET j == job[p]
  IN  /\ At(p, "take")
      /\ rows' = [i \in Ids |-> IF i \in j.ids /\ rows[i].status = "pending"
                                THEN [rows[i] EXCEPT !.status = "queued", !.claimed = 0] ELSE rows[i]]
      /\ spent' = [spent EXCEPT ![p] = IF @ + Cardinality(j.ids) > Rate THEN Rate
                                       ELSE @ + Cardinality(j.ids)]
      /\ Goes(p, [j EXCEPT !.step = "mail"])
      /\ UNCHANGED <<campaigns, suppressed, optedOut, mails, refused, apart, jobs, crashes>>

\* dispatchOne: the row is read and mailed, or the mailer fails ...
Mail(p) ==
  LET j == job[p]
  IN  /\ At(p, "mail")
      /\ \E i \in First(j.ids, 1) :
           \/ /\ mails' = [mails EXCEPT ![i] = IF @ < MailsCounted THEN @ + 1 ELSE @]
              /\ Goes(p, [j EXCEPT !.step = "save", !.id = i, !.row = Sent(rows[i]),
                                   !.ids = @ \ {i}])
           \/ /\ UNCHANGED mails
              /\ Goes(p, [j EXCEPT !.step = "save", !.id = i, !.row = Failed(rows[i]),
                                   !.ids = @ \ {i}])
      /\ UNCHANGED <<campaigns, rows, suppressed, optedOut, spent, refused, apart, jobs, crashes>>

\* ... and the row written back.
SaveDelivery(p) ==
  LET j == job[p]
  IN  /\ At(p, "save")
      /\ rows' = [rows EXCEPT ![j.id] = j.row]
      /\ Goes(p, [Idle EXCEPT !.step = IF j.ids = {} THEN "finalize" ELSE "mail", !.ids = j.ids])
      /\ UNCHANGED <<campaigns, suppressed, optedOut, spent, mails, refused, apart, jobs, crashes>>

RowsOf(n) == {i \in Written : rows[i].camp = n}
Sending == {n \in Campaigns : campaigns[n] = "sending"}

\* Fault: a row waiting for its next attempt is not counted.
CountQueuedOnly(p) ==
  LET done == {n \in Sending : \A i \in RowsOf(n) : rows[i].status # "queued"}
  IN  /\ At(p, "finalize")
      /\ Goes(p, [Idle EXCEPT !.step = IF done = {} THEN "judge" ELSE "finish", !.camps = done])
      /\ UNCHANGED <<campaigns, rows, suppressed, optedOut, spent, mails, refused, apart, jobs, crashes>>

\* finalizeCompleted: the campaigns with nothing pending or queued ...
Finalize(p) ==
  LET done == {n \in Sending : \A i \in RowsOf(n) : rows[i].status \notin Open}
  IN  /\ At(p, "finalize")
      /\ Goes(p, [Idle EXCEPT !.step = IF done = {} THEN "judge" ELSE "finish", !.camps = done])
      /\ UNCHANGED <<campaigns, rows, suppressed, optedOut, spent, mails, refused, apart, jobs, crashes>>

\* ... are sent.
SetSent(p) ==
  LET j == job[p]
  IN  /\ At(p, "finish")
      /\ \E n \in j.camps :
           /\ campaigns' = [campaigns EXCEPT ![n] = "sent"]
           /\ Goes(p, [j EXCEPT !.step = IF j.camps = {n} THEN "judge" ELSE "finish",
                                !.camps = @ \ {n}])
      /\ UNCHANGED <<rows, suppressed, optedOut, spent, mails, refused, apart, jobs, crashes>>

\* autoPause: the first Threshold rows that are finished decide ...
TooManyBounces(n) ==
  LET first == First({i \in RowsOf(n) : rows[i].status \in Finished}, Threshold)
  IN  /\ Cardinality(first) = Threshold
      /\ Cardinality({i \in first : rows[i].status = "bounced"}) >= PauseAt

Judge(p) ==
  LET bad == {n \in Sending : TooManyBounces(n)}
  IN  /\ At(p, "judge")
      /\ Goes(p, IF bad = {} THEN Idle ELSE [Idle EXCEPT !.step = "pause", !.camps = bad])
      /\ UNCHANGED <<campaigns, rows, suppressed, optedOut, spent, mails, refused, apart, jobs, crashes>>

\* ... and the campaign is paused.
SetPaused(p) ==
  LET j == job[p]
  IN  /\ At(p, "pause")
      /\ \E n \in j.camps :
           /\ campaigns' = [campaigns EXCEPT ![n] = "paused"]
           /\ Goes(p, IF j.camps = {n} THEN Idle ELSE [j EXCEPT !.camps = @ \ {n}])
      /\ UNCHANGED <<rows, suppressed, optedOut, spent, mails, refused, apart, jobs, crashes>>

-----------------------------------------------------------------------------
\* A minute passes.  The batch reads the clock once: its three queries are taken
\* to be over within the minute, the mails may take any time.
Aged(r) == [r EXCEPT !.wait = IF @ > 0 THEN @ - 1 ELSE 0,
                     !.claimed = IF @ = Nil \/ @ > ClaimTimeout THEN @ ELSE @ + 1]

Minute ==
  /\ \A p \in Workers : job[p].step \notin {"reclaim", "pick", "take"}
  /\ rows' = [i \in Ids |-> IF i \in Written THEN Aged(rows[i]) ELSE Nil]
  /\ spent' = [p \in Workers |-> 0]
  /\ UNCHANGED <<campaigns, suppressed, optedOut, job, mails, refused, apart, jobs, crashes>>

Crash(p) ==
  /\ crashes < MaxCrashes /\ ~At(p, "idle")
  /\ crashes' = crashes + 1
  /\ apart' = FALSE
  /\ Goes(p, Idle)
  /\ UNCHANGED <<campaigns, rows, suppressed, optedOut, spent, mails, refused, jobs>>

Callbacks(p) == \E i \in Written : Unsubscribe(p, i) \/ RecordOpen(p, i) \/ RecordRefusal(p, i)

Proceed(p) ==
  \/ Track(p) \/ LoadList(p) \/ StoreList(p)
  \/ SetSending(p) \/ Recipients(p) \/ InsertDelivery(p)
  \/ Reclaim(p) \/ Pick(p) \/ Take(p) \/ Mail(p) \/ SaveDelivery(p)
  \/ Finalize(p) \/ SetSent(p) \/ Judge(p) \/ SetPaused(p)

Next ==
  \/ Minute
  \/ \E p \in Procs : \/ \E n \in Campaigns : SaveCampaign(p, n)
                      \/ Callbacks(p) \/ Tick(p) \/ Proceed(p) \/ Crash(p)

Spec == Init /\ [][Next]_vars

\* Time passes (between the batches, hence SF), a running goroutine is scheduled
\* and the worker keeps ticking.
FairSpec == /\ Spec
            /\ SF_vars(Minute)
            /\ \A p \in Procs : WF_vars(Proceed(p))
            /\ \A p \in Workers : WF_vars(Tick(p))

-----------------------------------------------------------------------------
\* Among the types: whichever stale row the worker and the callbacks write last
\* (UpdateDelivery), a row still to be mailed has an attempt left and is claimed
\* exactly while it is queued.
TypeOK ==
  /\ campaigns \in [Campaigns -> {"draft", "scheduled", "sending", "sent", "paused"}]
  /\ rows \in [Ids -> Row \cup {Nil}]
  /\ suppressed \subseteq Contacts /\ optedOut \subseteq Contacts /\ refused \subseteq Contacts
  /\ spent \in [Workers -> 0..Rate]
  /\ job \in [Procs -> Job]
  /\ mails \in [Ids -> 0..2]
  /\ apart \in BOOLEAN /\ jobs \in Nat /\ crashes \in Nat

\* A delivery is mailed once, as long as no two goroutines overlap and none
\* crashes: claims, retries and timeouts alone never mail it again.
MailedOnce == apart => \A i \in Ids : mails[i] < 2

\* Under the same condition a campaign marked sent has nothing left to send.
SentIsDone ==
  apart => \A n \in Campaigns : campaigns[n] = "sent"
                                  => \A i \in RowsOf(n) : rows[i].status \notin Open

\* Under the same condition no campaign plans a delivery to an address that has
\* bounced or complained.
RefusedNotPlanned ==
  [][apart => \A i \in Ids : rows[i] = Nil /\ rows'[i] # Nil => rows'[i].contact \notin refused]_vars

\* Every delivery planned is mailed or given up in the end, whatever crashes,
\* overlaps or overwrites whom: claims time out and attempts run out.
DeliveriesSettle ==
  \A i \in Ids : (rows[i] # Nil /\ rows[i].status \in Open)
                   ~> (rows[i] # Nil /\ rows[i].status \in Finished)
=============================================================================
