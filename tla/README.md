# A verification project for escalated-go

escalated-go is a support-desk library embedded in a Go host program: tickets
and their rules, guest access by e-mail codes, live chat, newsletters, plugins,
imports, mail, webhooks, reports. It runs as request handlers and a few tickers
in one or more replicas over one SQL database, and nearly all of its hard
behaviour comes from one habit: **a row is read, changed in memory and written
back whole, with no lock, no version and usually no transaction**. The modules
here model the parts where that habit (or a deliberate defence against it)
decides whether the system is right, and, beside them, the pure rules (filters,
scopes, permissions, routes, reports, conditions) on which everything else leans.
TLC checks them on small instances; TLAPS proves the main safety properties for
all constants.

Run from this directory: `tlc -config access.cfg MCAccess.tla`,
`tlapm TicketLifecycleProofs.tla`, and so on; `PROJECT.json` lists every run,
theorem, mapped definition, hazard and finding.

## 1. Inventory

| Component | State | Operations | Hard behaviour | What makes it correct |
|---|---|---|---|---|
| Ticket lifecycle (`services/ticket_service.go`, `ticket_mutations.go`, `ticket_statuses.go`, agent handlers) | `escalated_tickets`, `escalated_ticket_statuses` | create, reply, assign, edit, change status, delete a custom status or move it to another category | whole-row writes over each other | paired columns stay paired; a deleted status is on no ticket; a custom status stands beside the built-in one of a category it has had; the first response is stamped once |
| Merge (`services/ticket_merge.go`) | the same rows | find target, merge | lookup outside the transaction | no cycles; a merged ticket is out of the rules |
| Snooze (`services/snooze_service.go`) | `snoozed_until`, `status_before_snooze` | snooze, unsnooze, wake | the waker acts on a list | woken when due, and always in the end |
| SLA (`services/sla_service.go`) | `sla_breached`, deadlines | check, announce | six listings of the newest 200, stale rows | announced if a scan can reach it, and once |
| Rules (`automation_runner.go`, `escalation_service.go`, `workflow_runner.go`, `workflow_engine.go`) | rows in the rules' scope, logs, delayed actions | match, act, delay, log | matching its own results; actions that start workflows | only open tickets match; an event's workflows run in order on the ticket as it was |
| Guest codes (`services/guest_access.go`, `handlers/guest_verification.go`) | `escalated_guest_verifications` | draw, guess, consume, release, purge | concurrent guesses, failed writes, crashes | five guesses, one use |
| Guest and chat tokens (`guest_access.go`, `chat_tokens.go`) | nonce, expiry and token of a ticket; token hash of a session | look up, issue, move | mailbox edited in between | one key a ticket, for its own mailbox |
| Rate limits (`middleware/guest_rate_limit.go`) | a map of windows | hit, sweep | sweep of a full map, two keys hit in turn | never more than the limit |
| Two-factor (`access/twofactor.go`, gate) | enrolment rows, session marks | set up, confirm, challenge, recover, disable | one code in two requests | a code works once, who enrolled is challenged |
| Single sign-on (`access/sso.go`, `handlers/sso.go`) | message ids, state cookie, users | start, call back, claim, prune | one assertion in two callbacks | a message signs in once |
| Roles and permissions (`access/store.go`, `routes.go`, `enforce.go`) | roles, permissions, user roles | save, delete, replace | edits beside checks | who has a role has one that exists; no dead route entry |
| Schedules and business hours (`services/business_hours.go`) | none | open windows, deadlines | overnight hours, holidays, clock changes | a deadline is the minutes of opening after the start |
| Routing and escalation rules (`escalation_service.go`, `chat_routing_service.go`, `chat_availability_service.go`, skills) | none | find tickets, pick an agent | lists that differ between asking and picking | who is given a chat is under the limit and has the skills |
| Ticket access scopes (`ticketaccess/`) | the actor of a request; the ticket tables and `department_agent`, which others write | read, look up the parents named, insert, update, delete | parents looked up before the statement runs; rows that move, memberships that end | a restricted agent reads what is in scope and no less, and writes in it; nothing comes into scope by their hand |
| Chat (`chat_session_service.go`, `chat_routing_service.go`) | `escalated_chat_sessions` and the chat tickets | start, route, accept, transfer, message, end, rate, two sweeps | count and assignment apart; stale messages | limit kept up to the overlap; session and ticket agree; nobody waits for ever |
| Newsletters (`services/newsletter`) | campaigns, deliveries, the suppression setting | plan, claim, mail, retry, reclaim, finalize, pause, track | several replicas, crashes, callbacks beside the worker | mailed once; settled in the end; refused addresses left out |
| Plugins (`plugins/`) | activation rows, store rows, one runtime process, calls in flight | activate, call, answer, `ctx.*`, cron, filters | time-outs racing answers over one pipe, restarts | an answer reaches its own call; a plugin acts for the call it serves |
| Import jobs (`services/import.go`) | job row, source map, entities | start, pause, resume, cancel, run | overlapping runs, a stop in the middle | nothing left out, nothing overcounted |
| Inbound e-mail (`services/email`) | tickets, replies | resolve, reply, reopen, create | redelivery, agents in between | a message replies only in its sender's ticket |
| Webhooks (`webhook_dispatcher.go`) | webhooks, deliveries | dispatch, retry, edit, delete | names that move, rows edited during a run | every subscriber served, none reached at a private address |
| Broadcasting (`broadcaster.go`, `handlers/broadcasting.go`) | subscribers, bounded buffers | subscribe, publish, check, write, leave | a reconnect; sight changing under way | what is written may be seen, once and in order |
| Agent panel (`services/agent_panel.go`, `store/unread.go`) | read marks, notifications, presence | reply, read, mark, visit | seconds; slow handlers | told once; what is unread shows |
| Custom fields, objects, statuses (`custom_fields.go`, `ticket_statuses.go`) | definitions, values, records | create, rename, write, delete | slug and parent checked before the write | one slug each; nothing hangs on what is gone |
| Saved views (`handlers/saved_views.go`) | views | create, share, reorder, delete | whole-row updates | a view changes by its owner's hand |
| Lists, stores, subjects, schedules, audit (`store/`) | rows | list, save, synchronise | two dialects, builders of arguments | both list what the filter means |
| Schema and retention (`migrations/`, `retention_service.go`) | all tables | migrate, seed, delete, purge | half of the cascades are code | nothing points at what is gone, but what is listed |
| Reports (`handlers/report*.go`) | none | count, average, rank | boundaries of periods | equal to a plain definition |
| Routers (`router/`) | none | mount | two tables of the same routes | no conflict, the same answer, every staff route gated |
| Not modelled: notification mail, API tokens, capacity counters, ratings, macros and canned responses, knowledge base, attachments, admin reference data, widget script, UI, sample host | | one statement each, or presentation | | |

`PROJECT.json` assigns every source file to one of 40 components with its status.

**How they interact.** Handlers and tickers share only the database and, within a
process, the rate-limit map, the routing lock, the subscriber map, the plugin
bridge and the minute counter of the newsletter dispatcher. A guest code authorises
a write of the ticket service or the chat service (`GuestCodes` models the write as
succeeding or failing; `TicketLifecycle` and `ChatSessions` model what it does). A
chat has a ticket: `ChatSessions` writes it beside the session, `TicketLifecycle` has
the same write among its operations (`ChatOver`). Rules, the waker, the SLA check and
handlers meet on ticket rows. A change of a ticket is announced to workflows,
webhooks, plugins, streams and the agent panel after it is written; each of these is
modelled from the announcement on. Tickers are started by the host
(`StartSnoozeWaker` in `services/snooze_service.go`, `StartSLAChecker`,
`StartNewsletterDispatcher` and others in `escalated.go`); the chat sweeps are called
by the host only.

## 2. Modules

Concurrent components:

| Module | Models | State to code |
|---|---|---|
| `TicketLifecycle` | the ticket row, what each operation makes of one (pure operators), and goroutines over the table | `Row` = the columns of `models.Ticket` that decide anything, `Details` every free column; `tickets`, `statusRows`, `category` = tables; `job` = a goroutine's local variables between two statements; `announced`, `responses`, `anchors` (what each custom status's categories have meant) = history |
| `CodeOnce` | the promise: a code is drawn, held by one, written once or handed back | abstract |
| `GuestCodes` | requests guessing, consuming, writing, releasing | `codes` = the table; `req` = a request between two statements; `compared`, `finished`, `tickets` = history |
| `GuestTokens` | lookup and issue, the legacy chat token move | `rows`, `sessions`, `grants` (what was handed out) |
| `FixedWindows` | the promise: one counter a key, per fixed window | abstract |
| `RateLimit` | map, sweep, middleware, code budget | `windows` = the map; `left` = keys a request has still to hit |
| `TwoFactor` | one user's enrolment under overlapping requests | `rows` = enrolments by id; `req`; `accepted`, `used`, `told`, `raced` = history |
| `SignOn` | callbacks of OAuth, SAML and JWT, in half seconds | `ids` = `sso_message_ids`, whose expiries are whole seconds; `settings`, `cookie`, `users`; `signedIn`, `answered` = history |
| `Roles` | role edits and users' roles | `role`, `has` = tables; `job` = a change between its checks and its transaction |
| `TicketScope` | requests of restricted agents, everybody else's statements, the host | `db` = the ticket tables; `members` = `department_agent`; `directory` = the host's users; `work` = the actor of a request and its statement with the parents still to look up; `drawn`, `overlapped` = history |
| `ChatSessions` | sessions, their tickets, handlers and sweeps | `sessions`, `tickets` = tables; `job`; `since`, `byHand`, `apart` = history |
| `Newsletters` | campaigns, deliveries, workers, callbacks | `campaigns`, `rows`, `suppressed`, `optedOut`; `spent` = the dispatcher's minute counter; `job`; `mails`, `refused`, `apart` = history |
| `PluginBridge` | the host's callers, the runtime process, `ctx.*` calls | `row` = activation rows; `runtime` = process number, liveness, last id; `job` = a caller between two steps; `ctx` = goroutines answering the plugin |
| `PluginStore` | key-value calls of plugins | `rows` = `escalated_plugin_store`; `work`; `settled` = what may be read |
| `ImportJobs` | one import job, its admin and its runs | `row`, `map`, `entities` = tables; `run` = a run with its own copy of the job; `ghost` = failed records, overlap |
| `CustomFields` | definitions, values, records, statuses on tickets | the tables; `worker`; `enforced` = whether the database enforces foreign keys |
| `AgentPanel` | replies, read marks, notifications | `tickets`, `reads`, `notes`; `sees` = who may view; `late` = activity set back (history) |
| `Presence` | a customer's last visit | `seen` = the row; `visit` = a request; `last` = history |
| `Webhooks` | dispatch runs, retries, edits | `hooks`, `deliveries`; `dns` = where names point; `run` = a run with its snapshot; `reached` = history |
| `Broadcaster` | streams and publishers | `subscribers` = the map; `stream` = a subscriber with its buffer and its handler's place; `publish` = a publisher with whom it has yet to send to |
| `SavedViews` | views under overlapping requests | `views`; `work` = the row a request has read |
| `InboundMail` | posts of one provider | `tickets`, `replies`, `opened`; `post` = a message between two statements |

Pure rules, each a function of the code beside what it means (`...Says`):

| Module | Rules |
|---|---|
| `PluginRules` | cron schedules, store queries, filters, replies, routes, menus, the ticket writes of `ctx.tickets` |
| `AccessRules` | permissions route by route, the two-factor gate, the attempt limiter |
| `BusinessHours` | opening windows through overnight hours, holidays and a clock change; deadlines; which schedule a ticket is under |
| `RoutingRules` | what automations and escalation rules find, whom a chat is given to, what a visitor is told, who has the skills |
| `RouteMounts` | the routes of both routers, precedence, embedding |
| `Schema` | tables, keys, the deletes of the code, the purge, seeding |
| `Reports` | periods, averages, percentiles, scores, breakdowns |
| `FieldRules` | validation and display of custom values, forms, order, statuses |
| `TicketLists` | the ticket filters of both dialects, the inbox and its tiles, the dashboard |
| `DeskTables` | columns each statement names, filter builders, references, tags, views, subjects, schedules, audit |
| `WorkflowRules` | conditions, the workflows of an event, actions, dry runs, the policy of a ticket |

Two modules compose the parts that share no state, so that one run and one theorem
speak of all of them: `Access` (guest codes, tokens, rate limits, two-factor, sign-on,
roles, agents' scopes) and `Services` (bridge, store, imports, custom fields, panel, presence,
webhooks, streams, views, mail). A variable `part`, never changed, says which component
a behaviour is of; each component keeps its own variables under their own names
(`INSTANCE ... WITH`), and the variables of the others stay empty. A property of a
composition is a conjunction with one conjunct a part, and each part's state space is
the one it has alone.

`TicketLifecycleProofs`, `ChatSessionsProofs`, `NewslettersProofs`, `GuestCodesProofs`,
`AccessProofs`, `DeskProofs` and `ServicesProofs` hold the theorems and their proofs.
`MC*` modules give values that a `.cfg` cannot write (sequences, records, symmetry);
`ChatSessions` and `Newsletters` need none and are checked as they stand. `MCRules`
asks the pure rules: a state is one question (`rule`) with one input (`in`), all of
them initial.

In every concurrent module **one action is one SQL statement or transaction** (or
one section under a mutex), and what a goroutine holds between two of them is its
`job`/`req`/`work` record. A `Crash` drops a record and nothing else. `apart` is true
until two goroutines have been busy at once or one has crashed: properties that
the code keeps only without overlap are stated under it, so that both halves show,
what holds always and what only the absence of overlap gives.

Definitions marked `Fault:` are plausible slips of the definition below them; no
specification uses them. Each is named by a mutant, and shows that the property
beside it can fail.

## 3. The runs

| Run | Question | Result |
|---|---|---|
| `lifecycle_serial` | everything in one process, crashes between statements: is each documented promise kept? | answered tickets stamped, stamps kept, snoozes woken on time, no merge cycle |
| `lifecycle_concurrent` | two handlers that also run the rules: what survives lost updates? | types, snooze columns paired, merged tickets out of scope, a custom status beside an anchor of its own while categories change, deleted statuses gone |
| `lifecycle_tickers` | a handler beside the waker and the SLA checker, under fairness | no flag without an announcement; snoozes end; breaches among the tickets a scan lists are announced |
| `chats` | two handlers, one of which sweeps, three chats, a crash | rows whole, limit kept up to the overlap, session and ticket agree, no endless wait |
| `newsletters` | worker and handler over two deliveries, a crash | rows whole; without overlap mailed once, finished only when done, refused addresses not planned; always settled |
| `access` | guest codes, tokens, rate limits, two-factor, sign-on, roles, agents' scopes | `FiveGuesses`, `NothingLeftBehind`, refinement of `CodeOnce`; one key a ticket and moved tokens gone, limits kept (`GuestsHold`); refinement of `FixedWindows`; codes and assertions once, enrolment enforced, roles that exist, reads and recipients exactly in scope (`StaffHolds`); what no step may do, a restricted agent's statements among them (`StepsKeepAccess`) |
| `services` | plugins, imports, custom fields, panel, presence, webhooks, streams, views, inbound mail | own answers and last writes (`PluginsHold`), `ctx.*` for its own call (`ActsForItsCall`), complete imports (`ImportHolds`), slugs, values, reads and presence (`DeskHolds`), traffic out and in (`TrafficHolds`), whole deletes and owners' views (`StepsKeepRows`) |
| `rules` | 900 000 questions to the pure rules | each rule means what it says, and both dialects and both routers agree |
| `breach_announced_twice` | violation of "once per ticket" | a stale write clears the flag |
| `chat_start_leaves_ticket` | violation of "handed back if the write fails" for chats | the ticket is already there |
| `recovery_code_twice` | violation of "single-use" | two requests read the list before either writes it |
| `stream_taken_over` | violation of "the new subscriber replaces the old" | the replaced stream unsubscribes the name |

### Bounds, and why they are enough

- *Goroutines*: two at once. Every property lost to overlap needs one stale write
  over one fresh write, which two goroutines give; `RoutingKeepsLimit` counts
  goroutines in its statement, and the proofs cover any number. `Presence` has three
  visits, since a slow first one has two later ones to race.
- *Rows*: two tickets for a merge (one created during the run) and for the tickers, with
  `ScanLimit = 1` where the code has 200, so that a newer ticket can push an overdue one off
  the list (2 in the other runs, which is all there are); three chats for one agent with a
  limit of one, so the limit can be passed; two deliveries, so that a second plan follows a
  refusal; two webhooks, plugins, users, roles, fields.
- *Time*: a clock to 2 with deadlines of 1 reaches before, at and after each
  deadline; `Newsletters` counts minutes to the claim time-out and one past it,
  and has no clock bound at all; `AgentPanel` and `Presence` have two ticks a second,
  since rows keep whole seconds.
- *Jobs* (`MaxJobs`): three requests or callbacks: enough for write, stale write
  and a third to see it. Tickers and steps of a request are not bounded by it.
- *Crashes, faults*: at most one; a second only repeats the first at a later step.
- *Codes and guesses*: `MaxAttempts` is 2 where the code has 5: below it, at it
  and over it are all reached; the proofs have any number.
- *Newsletters*: `Rate`, `ClaimTimeout`, `Threshold` of 1 and back-offs of one
  minute; `MaxAttempts` is the code's 3. A row beyond `MaxRows` is an insert error.
- `lifecycle_concurrent` has no clock (`MaxTime = 0`): due times are covered by
  `lifecycle_serial` and `lifecycle_tickers`.
- *access*: tokens have a clock of 1 with lifetimes of 1 (before and at the end); sign-on
  counts half seconds, a half standing for any fraction, with assertions that end on a
  second and between two, and leaves a message alone once it has signed in twice
  (`MaxSignIns`); rate limits have a clock of 3 with a window of 2 and a map swept at two
  entries, so a sweep meets live and dead windows. Scopes have one request (another one
  changes no more than the unrestricted statements beside it), two tickets, a reply and an
  attachment; statements insert any of them, and update and delete the first ticket and the
  reply; ids are not given again. Other tables, statements that pick many rows, updates and
  deletes of attachments are left to the theorem, which takes any.
- *services*: two calls to the first runtime process and one to the second, so a late
  answer meets the next call and the same id at another process; an import of three
  types with a two-page type, two runs, two requests of the admin and one fault; two
  replies and one click of an agent on the panel (an assignment, a reading, a ticket moved
  out of sight); one buffer place and three events, so that one is lost; three writes to
  views with three ids.
- *business hours*: a calendar of its own, a day of 4 ticks, a week of 3 days, a year of
  6, one clock change: windows that are empty, whole, overnight, adjacent to a holiday or
  to the change all occur; the limits of the search (3660 days) become 12.
- *rules*: every value that a comparison tells apart (below, at, above; absent, good,
  bad, NaN; each operator), in inputs of one to three elements. The dashboard's cuts at 50
  and 5 are 1 and 2 over six tickets, so that the newest breaches are not the open ones.

`CHECK_DEADLOCK FALSE` throughout: with its requests used up, an idle system
really stops. Symmetry is used only in runs with no liveness property, on sets whose
members nothing tells apart.

### Fairness, and why the code justifies it

- `WF` on each statement of a busy goroutine: Go schedules it and the database
  answers (a request that is stuck for ever is a crash).
- `WF` on the clock of `TicketLifecycle`, and `SF` on the minute of `Newsletters`, which
  does not pass inside the three short queries that open a batch: time passes.
  `ChatSessions` asks nothing of its clock.
- `WF` on the waker's and the SLA checker's ticks and on the newsletter worker's:
  `time.NewTicker` loops of `services/snooze_service.go:140`, `escalated.go:515`,
  `services/newsletter/services.go:679`.
- `WF` on `MarkAbandonedSessions`: nothing in the library calls it, so this one is
  an assumption about the host. `CloseIdleSessions` has no fairness, nor does any
  request, any rule run or any callback. The modules of `access` and `services` state
  safety only.

## 4. What is proved

Every theorem is `Spec => ...` for any value of the constants that satisfies the
module's assumptions; TLC checked each invariant on the small instance first. All
arguments have one shape. **A row about to be written comes from memory**, so the
inductive invariant speaks of every copy of a row, in the table and in the memory of
every goroutine, and says of each half-done job what its next statement needs. One
lemma per action shows that the invariant survives it, one conjunct at a time.

**`TicketLifecycleProofs`** (`RowConstants`, `LifecycleConstants`). Whatever overlaps
or crashes, `TypeOK`, `SnoozeFieldsTogether`, `MergedOutOfScope` and `CustomAtAnchor`
hold: the invariant `IInv` says that every row in the table and in memory is sound
(`RowSound`), and each operation keeps a single row sound; lost updates cannot matter,
since a stale row is a sound row. A category that changes leaves the tickets where they
are, so `CustomAtAnchor` speaks of all the anchors a custom status has had, a set that
only grows, and what is written next takes the anchor of the category of the moment
(`Anchored`). That is why these survive where "announced once"
does not: they speak of one row at one time. `DeletedStatusGone` adds that, with
`ForeignKeys`, a row with a deleted custom status is refused by the database.
`FlagIsAnnounced` follows each flag to the goroutine that set it. Under `Serial` (one
goroutine, the hypothesis `lifecycle_serial` runs with, crashes included) the
invariant `SInv` adds that what the goroutine holds in memory is still so when it
writes; from it follow `FirstResponseKept`, `AnsweredIsStamped`, `WokenOnTime` and
`NoMergeCycle`, the last because the target of a merge is still unmerged when the
merge commits, and no write changes where a merged ticket leads. The violation runs and section 5
show that `Serial` is needed.

**`ChatSessionsProofs`** (`ChatConstants`). `TypeOK`. `RoutingKeepsLimit`: a chat that
was routed is in the table or in one goroutine's memory; routing finds the table below
the limit; each goroutine remembers one chat at most; so the limit is passed by no more
than the other goroutines. `SessionAndTicketAgree`: while nothing overlapped, a job
half-way between the two rows holds what will make them match.

**`NewslettersProofs`** (`NewsletterConstants`). `TypeOK` however stale the rows
that are written back. `MailedOnce`, `SentIsDone` and `RefusedNotPlanned`: while nothing
overlapped or crashed there is one busy job, and what it has read is still so.

**`GuestCodesProofs`** (`CodesConstants`). `FiveGuesses`, `ConsumedOnce`, `OneHolder`,
`NothingLeftBehind`, and the refinement `IsCodeOnce`. The invariant counts: the guesses
compared plus those counted and not yet compared never exceed the attempts on the row,
because the row is incremented by a conditional UPDATE before the comparison; a held or
written code is used while its row lives; a code used was compared.

**`AccessProofs`** (`AccessConstants`): every property of the run `access`, each part
first and then the composition, which implements `GuestCodes` (`AccessHasCodes`) so
that what is proved of codes holds of it.

- *Tokens*: a nonce is drawn once, and a row with a nonce has lost its permanent
  token; so one key opens a ticket, and a key handed out and good is ended only by a new
  grant to its mailbox or a change of that mailbox.
- *Limits*: a key is due a hit at most as often as there are requests about to hit it,
  so nobody's budget is used by another; the swept map implements `FixedWindows`, since a
  window swept was over and a fresh one is what the next hit would have made.
- *Two-factor*: the steps accepted for a live enrolment are not after the step on its
  row, and a step is claimed by a conditional UPDATE, so a code works once. While changes
  of the enrolment do not overlap, the row a user was told of is the newest and
  confirmed, and who is told is challenged.
- *Sign-on*: a request is remembered, being answered, or answered, one of the three;
  the row of a claimed message stays until the last second of its validity, in which the
  prune takes it while the assertion still passes (section 5); up to there it is claimed once,
  and a signed request is answered once whatever the second.
- *Roles*: no two roles share a slug; the system's roles are all there and are exactly
  those with the system's slugs; a deletion under way is of another; who changes
  their own roles has seen one that manages among them.
- *Scopes*: the projections recurse over the tables, two levels below tickets, so the
  recursion ends (`ProjectionEquation`) and what is read is what hangs from tickets in
  scope (`Reads`) in any tables whatever. The invariant says that rows have the columns of
  their table, that every parent a row or a statement names was given out at some time,
  and that a parent already looked up is still in sight unless somebody else changed
  something meanwhile. So a row that a statement hangs is in scope where nothing
  changed beside it, and where no id is given twice (`~Reuses`) a new row meets no
  older row that names it, so no statement brings a row into scope.

**`DeskProofs`** and **`ServicesProofs`** (`ServicesConstants`): every property of the
run `services`. `TypeOK` and `StepsKeepRows` are proved where the database does not
give an id twice (`~Reuses`, which the run has too: an `INTEGER PRIMARY KEY` of SQLite
may, see section 5).

- *Bridge*: processes only follow one another, and each gives out ids one after
  another, so no two calls wait under one id of one process and an answer that is late
  finds nobody.
- *Store*: a call that overlapped none has found the row that a get answers from; what a
  get may answer is always among what may be read (`settled`).
- *Imports*: what is behind the cursor of any copy of the row was met: it is in the
  source map, it failed, or it has no id; what was met stays so, and counters count
  mapped records of their type. With one run at a time and every lookup answered,
  what was created is mapped or its run is about to map it.
- *Custom fields*: a slug is unique by the index whatever was checked before, and what
  hangs on a row was written while foreign keys found it.
- *Panel*: a reply in a handler's hands is nobody else's and has been told to no one; a
  ticket's activity is no older than a reply that was told, unless a slower handler set
  it back.
- *Presence*: the row covers a visit but for the throttle, a second's cut and the
  slowest visit.
- *Views*: what a request loaded is gone or still its user's.
- *Mail*: what a post knows of the ticket it found still holds when it writes: agents change
  a ticket's status or delete it, and its requester stays; a post does one thing and is over.
- *Webhooks*: whoever was subscribed when a run began is waiting, being sent to or
  served; attempts before the current one got no good answer.
- *Streams*: written, held and buffered events of a publisher are in its order and behind
  it; a stream that runs and is not closed is the one in the map.

Only model-checked: liveness (`SnoozesEnd`, `BreachesAnnounced`, `WaitingChatsEnd`,
`DeliveriesSettle`), which needs fairness and `ENABLED`, out of the prover's reach; and
the pure rules (`PluginsAgree`, `AccessAgrees`, `DataAgrees`, `ListsAgree`), which
recurse over data and would need induction the provers do not have here.

## 5. Where the code and its documentation part

Shown by a run each:

- A breach is announced twice: a stale write clears the flag (`services/sla_service.go:77`).
- A failed chat start hands the code back and leaves its ticket (`docs/guest-access.md:40`).
- A recovery code is accepted twice by overlapping requests (`access/twofactor.go:219-220,
  252`, against `:236`).
- A reconnecting user's old stream closes the new one as it ends
  (`handlers/broadcasting.go:56`, against `services/broadcaster_test.go:137-161`).

Met while modelling, and kept out of the properties instead of hidden by them:

*Tickets and rules*

- Rules match tickets that they resolved themselves (`services/escalation_service.go:137`;
  `RulesMatchOpen`). An escalation rule reads a status or priority slug as 0 (`toInt`),
  where `ticket_mutations.go:272-274` and the changelog have both forms; "hours_since_assigned"
  judges `updated_at`; `sla_breached` ignores its value; an unknown field matches all; `%`
  and `_` of a text are patterns.
- The waker re-checks only the status: a ticket woken and snoozed anew after the
  list is woken early when handlers overlap.
- Under overlap a merge can go into a ticket merged meanwhile (`MergesIntoUnmerged`).
- Ending a chat sets the status to open and leaves a custom status of another
  category, so `CustomAtAnchor` excludes chats.
- A custom status moved to another category leaves its tickets with the built-in status of
  the old one, as the comment of `TicketStatusService.Update` says
  (`services/ticket_statuses.go:206-229`): the pair can disagree for as long as nobody
  changes the ticket's status.
- An SLA scan lists the newest 200 tickets of a status and pages no further
  (`services/sla_service.go:64`, `store/sqlite.go:278-291`): with more than that open, an
  older overdue ticket is neither flagged nor announced. `BreachesAnnounced` speaks of
  tickets as long as they are among the newest `ScanLimit` of their status.
- With foreign keys off (SQLite unless the host turns them on) a stale write puts
  a deleted custom status back; `NoDeletedStatus` is checked with them on.
- A signed-in requester's own public reply, by mail too, stamps the first response
  (`services/ticket_service.go:408-412`).
- `docs/ui-pages.md:256` says policies have no business-hours mode; the code has one. The
  fallback to calendar time also applies to a target of more than 3660 days of windows.
- Workflows: a dry run says that actions after a delay would execute; a blank
  `assign_agent` under restricted access is an error; a number that does not read is 0;
  later workflows of an event see the ticket as before the first; nothing in the library
  drains the delayed actions; tag actions run workflows again, without end if two undo
  each other.
- "Never below zero" (`capacity_service.go`) is false of two overlapping decrements.

*Guests, chats, access*

- A right guess that is the last one allowed cannot be retried after its write
  fails: the guesses stay counted.
- A crash between the two statements of a chat-token move leaves the ticket's copy
  good; nothing clears it later (`MovedTokenGone` excludes crashes). A lookup that fails
  half-way has ended earlier grants for grants nobody received.
- A chat handed back to the queue is abandoned for its age from its creation
  (`chat_session_service.go:378`; `AbandonedWaitedLong`).
- `endSession` and `MarkAbandonedSessions` stamp `chat_ended_at` on the ticket
  (`chat_session_service.go:329, 398`), but no store writes the field and there is no such
  column: the stamp is lost, and `IsChatActive` of a ticket read back does not see the
  end. `ChatSessions` has no such field, and `SessionAndTicketAgree` compares the
  statuses alone.
- Two overlapping ratings of one chat are both accepted; a message written from a
  stale session can make an ended chat active again; the legacy widget message
  route does not look whether the chat has ended.
- A routing rule with no limit shows its agents as available and gives them no chats; with
  restricted access the round-robin index refers to lists that differ by ticket.
- Sign-on: a claimed assertion is stored with whole seconds (`sso.go:691`) and pruned once
  they are over (`:655`), while its validity is compared to fractions of one (`:415-422`): in
  the last second of an assertion with a fractional `NotOnOrAfter` a copy is accepted again,
  although by the comment at `:300-303` its id "has not been accepted before". Only an assertion that
  answers no request is concerned: `AnsweredOnce` holds of requests. JWT times are whole
  seconds already.
- Two-factor: a `Setup` that overlaps a `Confirm` can leave a told user unchallenged; the
  recovery list is written back whole.
- The custom-action routes are mounted by the chi router only; `ServeMux` answers an unknown
  GET under `agent/` with the dashboard, and a host pattern that conflicts panics at start.

- A restricted agent's statement looks up the parents it names before it runs. A ticket
  that is moved in between gets the reply all the same (`docs/ticket-access-and-routing.md`:
  "inserts and moves of children check their parents"): `WritesInScope` speaks of what
  is hung only where nobody changed anything beside the statement.
- Only replies and attachments are removed with their ticket by the database, where
  foreign keys are on; the others stay and hang from nothing. Where an id is given
  again they hang from the new ticket, so `NothingGained` asks for `~Reuses`.
- A ticket's department is only checked as it is before an update: an agent can file it
  out of their own scope.

*Newsletters, mail, webhooks, streams*

- Nothing makes (campaign, contact) unique, so planning a campaign again mails everybody
  again; claims ignore the campaign's status, so a paused or re-drafted campaign goes on
  being mailed; a plan racing `finalizeCompleted` is marked sent early; a stale open
  re-queues a sent row and it is mailed again; two bounces at once lose an address of the
  suppression list; a crash in the middle of a plan leaves a partial plan that nothing
  resumes.
- Inbound mail: a redelivery is not recognised, so it replies again; a ticket resolved
  between the load and the reply is not reopened, and a reopen overwrites any status set
  meanwhile; `InboundRouter.domain` is never used.
- Webhooks: a run keeps the URL, secret and activity it read; `RetryDelivery` sends to an
  inactive one; any answer counts as delivered; a result that cannot be recorded leaves the
  delivery as if nobody had answered; a crash loses what was not served; a row of
  `webhook_deliveries` can be left between the two deletes (it has no foreign key).
- Streams: at `MaxSubscribers` a reconnect that would replace is refused; what is buffered
  when a channel is taken away is still checked, but for the one event between check and
  write; a full buffer drops.

*Agents, fields, imports, plugins*

- Unread is judged by whole seconds; two overlapping replies can set the activity back; the
  assignee told is the one loaded. A presence window below the throttle of 30 seconds
  shows active customers as offline.
- Saved views: with SQLite an id can be given again, and a late update of a deleted view
  lands on another user's new one; the update writes back a stale position; two creations
  share a position.
- Custom fields: in PostgreSQL two concurrent default statuses both stay default
  (`ticket_statuses.go:150-152` says one); values validated before a field was deleted
  stay where foreign keys are off; a number of an object's record accepts "NaN" and "Inf" (a
  ticket's does not, `custom_fields.go:298-303`). A number sent as text is stored as it was
  written, shown as a float, and stored in the canonical form when the page sends it back.
- Workflow conditions read "NaN" as a number (`workflow_engine.go:231-246`): it is neither
  less than, equal to nor greater than any other, so a condition and its opposite both fail.
- Lists: the "sla_breaching" tile counts the open ones among the newest 50 breached tickets
  (`handlers/agent.go:116, 130`), so old breaches behind 50 closed ones do not show; an
  unknown status filter is ignored but still turns off "open only"; sorts have no tie-break.
- Stores: an empty text where the migration has a JSON column (`migrations.go:80-81`);
  `SyncSubjects` and `ReorderSavedViews` stop half-way on an error; `DeleteTag` is two
  statements.
- Retention: `ticket_reads` and links of custom objects stay when foreign keys are off; a
  ticket reopened between the listing and the delete goes; the deletion of a workflow
  leaves its delayed actions.
- Reports: a period of more than 90 days charts the oldest 90; a satisfaction rate may pass
  100 %; an average of 0 hours loses its weight in the score.
- Imports: a source-map lookup that fails is taken for "not there"
  (`services/import.go:452`), so a resumed run creates the record again; the map's unique
  index then refuses its row and the record is counted as failed. A status that cannot be
  read stops nothing, and a failing last `Save` leaves the row as a crash would. A double
  resume creates twice; a record's entity and its map row are not one transaction; `Save`
  writes a stale row over a pause or a cancel (`services/import.go:318-320` says otherwise);
  a job cut off by a crash stays "importing" until it is paused.
- Plugins: ids restart with the process; a `ctx` call can outlive its host call;
  `plugin_store` has no unique index, and `configSet` reads the whole, finds the row again and
  writes the whole, so keys are lost.

## 6. Abstractions

- Free text, names, addresses, labels and presentation are model values or left out.
- In `TicketLifecycle` automation, escalation and workflow conditions match any subset of
  their scope, and in `ChatSessions` routing picks any agent below the limit or none;
  `WorkflowRules` and `RoutingRules` give the conditions themselves.
- A rule's action on one ticket (`ActNext`, `RunWorkflow`) resolves the status and
  writes in one step where the code does both with one statement after a read of
  reference data.
- A sweep that finds nothing is no step. `Consume` reads its clock once.
- The host's edit of a ticket's mailbox (`HostEditsMailbox`) is outside the library
  and modelled from how `guest_access.go` expects it.
- Rate limits: the memory store of one process; one window length; a client is a key.
- Chats: refusals by `CanViewUser` and store errors on reads are not modelled; a
  message or an end is the union of the routes that send one; other edits of a
  chat's ticket are in `TicketLifecycle`.
- Newsletters: the reads of list, opt-outs and suppressions are one step, as are the
  two queries of `finalizeCompleted` and of `autoPause`, and the read of a row with
  its mail; the three queries that open a batch (reclaim, select, claim) are over
  within their minute, since the code reads the clock once for them; `scheduled_at` is
  "any subset of the scheduled campaigns is due"; summary counters, which nothing reads
  back, are left out; the list's members are constant.
- The parts of `Access` share no state in the code but the clock and the users, nor do those
  of `Services`: what one does to another is an input of that other. Their
  compositions run one part at a time and state safety only.
- Plugins are those of the Node runtime; a native plugin is Go code of the host.
- Not modelled: see the notes in `PROJECT.json`. Pure presentation, read-only
  queries, one-statement reference data, and verification done by libraries.

## 7. What is left

Modelled next, in this order: capacity counters beside assignment (increments and decrements
that overlap); a macro as a sequence of `TicketLifecycle` operations that stops at its
first error; SLA warnings beside breaches; the attachments of a reply that fails.

Proved next: `BusinessHours`, `RoutingRules` and `Schema` have operators that do not recurse, whose
lemmas could be stated for all inputs once the recursion beside them is written as functions; and
what `Reuses` breaks in `SavedViews` could be bounded (a view of an id given again is changed
only by a request that had loaded the old one).
