--------------------------- MODULE TicketLifecycle ---------------------------
(***************************************************************************)
(* Concurrent use of one tickets table.  A request handler, the snooze      *)
(* waker, the SLA checker and the rule runners all read a ticket, compute   *)
(* the new row in memory and write every column of it back                  *)
(* (store.UpdateTicket), with no lock and no version check: the read and    *)
(* the write are separate steps here, and whatever another process wrote    *)
(* in between is overwritten.  Only the merge transaction, the deletion of  *)
(* a custom status and the rules' direct UPDATEs change a row in one step.  *)
(*                                                                          *)
(* The first part is what each operation makes of a row it has read, from   *)
(* the row of store.GetTicket to that handed to store.UpdateTicket          *)
(* (models/ticket.go, models/ticket_status.go and the services that edit a  *)
(* ticket); the rest puts the reads and writes of the callers in between.   *)
(***************************************************************************)
EXTENDS Naturals, Sequences, FiniteSets

CONSTANTS
  Tickets,         \* ticket ids
  Agents,          \* user ids a ticket can be assigned to
  Details,         \* values of a plainly edited column (priority, department, ...)
  CustomStatuses,  \* ids of the custom rows of ticket_statuses
  Category,        \* the category each custom status starts in ...
  CategoryValues,  \* ... and those administrators move it to
  FirstWithin,     \* default SLA policy: time to the first response ...
  ResolveWithin,   \* ... and to the resolution
  Nil,             \* a NULL column

  Existing,       \* tickets already open when the behaviour starts
  Procs,          \* the goroutines of every replica of the host program
  Duties,         \* what each runs: see DutyNames
  StatusValues,   \* status inputs of requests (built-in names, custom statuses)
  RuleValues,     \* statuses that automations and workflows set
  SnoozeFor,      \* snooze lengths requests ask for
  ScanLimit,      \* tickets an SLA scan lists of one status (200 in the code)
  ForeignKeys,    \* does the database enforce them (SQLite only on request)
  MaxTime,        \* bound of the clock
  MaxJobs,        \* bound of the number of requests
  MaxCrashes      \* bound of the number of crashes

-----------------------------------------------------------------------------
(* The row of escalated_tickets and what each operation makes of it.         *)

BuiltIn == {"open", "in_progress", "waiting_on_customer", "waiting_on_agent",
            "escalated", "resolved", "closed", "reopened", "snoozed", "live"}

Categories == {"new", "open", "pending", "on_hold", "solved"}

\* Ticket.IsOpen, and the statuses SLAService.openTickets scans, in its order.
OpenStatuses == {"open", "in_progress", "waiting_on_customer", "waiting_on_agent",
                 "escalated", "reopened"}
SlaOpenStatuses == <<"open", "in_progress", "waiting_on_customer", "waiting_on_agent",
                     "escalated", "reopened">>

Time == Nat \cup {Nil}

Row ==
  [status          : BuiltIn,
   custom          : CustomStatuses \cup {Nil},   \* ticket_status_id
   assignee        : Agents \cup {Nil},           \* assigned_to
   detail          : Details,
   created         : Nat,                         \* created_at
   merged          : Tickets \cup {Nil},          \* merged_into_id
   firstDue        : Time,                        \* sla_first_response_due_at
   resolutionDue   : Time,                        \* sla_resolution_due_at
   breached        : BOOLEAN,                     \* sla_breached
   firstResponseAt : Time,
   resolvedAt      : Time,
   closedAt        : Time,
   snoozedUntil    : Time,
   before          : OpenStatuses \cup {Nil},     \* status_before_snooze
   chat            : BOOLEAN]                     \* opened by ChatSessionService.StartSession

ASSUME RowConstants ==
  /\ Category \in [CustomStatuses -> Categories] /\ CategoryValues \subseteq Categories
  /\ FirstWithin \in Nat /\ ResolveWithin \in Nat
  /\ CustomStatuses \cap BuiltIn = {}
  /\ Nil \notin Nat \cup Tickets \cup Agents \cup Details \cup CustomStatuses \cup BuiltIn
  /\ Nil \notin Row

-----------------------------------------------------------------------------
VARIABLES
  category,  \* the category column of each custom status
  anchors    \* (history) the anchors of every category it has had

CategoryAnchor(k) == CASE k = "pending" -> "waiting_on_customer"
                       [] k = "on_hold" -> "in_progress"
                       [] k = "solved"  -> "resolved"
                       [] OTHER         -> "open"

\* What a ticket that takes custom status c now is set to.
Anchor(c) == CategoryAnchor(category[c])

\* TicketStatusService.Resolve and resolveStatusDirect: a built-in name, or a
\* custom slug, which stands for its anchor and is recorded beside it.
Resolve(v) == IF v \in CustomStatuses THEN [status |-> Anchor(v), custom |-> v]
                                      ELSE [status |-> v, custom |-> Nil]

\* TicketService.Create: open, with the default policy's deadlines.
NewTicket(d, at) ==
  [status |-> "open", custom |-> Nil, assignee |-> Nil, detail |-> d,
   created |-> at, merged |-> Nil,
   firstDue |-> at + FirstWithin, resolutionDue |-> at + ResolveWithin,
   breached |-> FALSE, firstResponseAt |-> Nil, resolvedAt |-> Nil, closedAt |-> Nil,
   snoozedUntil |-> Nil, before |-> Nil, chat |-> FALSE]

\* ChatSessionService.StartSession: live, and no SLA clock.
NewChat(d, at) == [NewTicket(d, at) EXCEPT !.status = "live", !.firstDue = Nil,
                                           !.resolutionDue = Nil, !.chat = TRUE]

\* TicketService.Assign: an open ticket also goes in progress.
Assigned(r, a) ==
  IF r.status = "open"
  THEN [r EXCEPT !.assignee = a, !.status = "in_progress", !.custom = Nil]
  ELSE [r EXCEPT !.assignee = a]

Unassigned(r) == [r EXCEPT !.assignee = Nil]

Edited(r, d) == [r EXCEPT !.detail = d]

\* TicketService.changeStatus: resolved_at and closed_at are stamped the first
\* time and never cleared; the snooze columns are left alone.
WithStatus(r, v, at) ==
  LET new == Resolve(v)
  IN  [r EXCEPT !.status = new.status, !.custom = new.custom,
                !.resolvedAt = IF new.status = "resolved" /\ @ = Nil THEN at ELSE @,
                !.closedAt = IF new.status = "closed" /\ @ = Nil THEN at ELSE @]

\* UPDATE ... SET status, ticket_status_id by a rule: no timestamp.
DirectStatus(r, v) ==
  [r EXCEPT !.status = Resolve(v).status, !.custom = Resolve(v).custom]

\* Fault: only an open ticket's first answer is stamped.
StampOpenOnly(r, at) ==
  [r EXCEPT !.firstResponseAt = IF r.status = "open" THEN at ELSE @]

\* TicketService.AddReply, once the reply is in.
Responded(r, at) == [r EXCEPT !.firstResponseAt = at]

\* SnoozeService.SnoozeTicket and UnsnoozeTicket.
Snoozed(r, until) == [r EXCEPT !.before = r.status, !.status = "snoozed",
                               !.custom = Nil, !.snoozedUntil = until]
\* Fault: the status to wake to is kept.
AwakeKeepsBefore(r) == [r EXCEPT !.status = IF r.before # Nil THEN r.before ELSE "open",
                                 !.snoozedUntil = Nil, !.custom = Nil]

Awake(r) == [r EXCEPT !.status = IF r.before # Nil THEN r.before ELSE "open",
                      !.snoozedUntil = Nil, !.before = Nil, !.custom = Nil]

\* SLAService.CheckBreaches' two tests and the flag it sets.
Overdue(r, at) ==
  \/ r.firstDue # Nil /\ r.firstResponseAt = Nil /\ at > r.firstDue
  \/ r.resolutionDue # Nil /\ r.resolvedAt = Nil /\ at > r.resolutionDue
Breached(r) == [r EXCEPT !.breached = TRUE]

\* SLAService.ApplyPolicy (base is now): new deadlines, the flag stays.
WithPolicy(r, at) == [r EXCEPT !.firstDue = at + FirstWithin,
                               !.resolutionDue = at + ResolveWithin]

\* Faults: a merged ticket keeps its custom status, or gets no closed_at.
MergedKeepsCustom(r, target, at) ==
  [r EXCEPT !.status = "closed", !.merged = target, !.closedAt = IF @ = Nil THEN at ELSE @]
MergedUnstamped(r, target, at) ==
  [r EXCEPT !.status = "closed", !.custom = Nil, !.merged = target]

\* TicketMergeService.Merge on the source row.
MergedInto(r, target, at) ==
  [r EXCEPT !.status = "closed", !.custom = Nil, !.merged = target,
            !.closedAt = IF @ = Nil THEN at ELSE @]

\* ChatSessionService.endSession: open again, whatever it was, and the custom
\* status is not cleared.
ChatOver(r) == [r EXCEPT !.status = "open"]

\* The WHERE clause of EscalationService and AutomationRunner.
RuleScope(r) == r.resolvedAt = Nil /\ r.closedAt = Nil

\* Fault: due one tick early.
DueEarly(r, at) == r.status = "snoozed" /\ r.snoozedUntil # Nil /\ r.snoozedUntil <= at + 1

\* The WHERE clause of Store.ListSnoozedDueBefore.
SnoozeDue(r, at) == r.status = "snoozed" /\ r.snoozedUntil # Nil /\ r.snoozedUntil <= at
-----------------------------------------------------------------------------
(* The goroutines that read and write it.                                   *)

DutyNames == {"requests", "wake", "sla", "rules"}

ASSUME LifecycleConstants ==
  /\ Existing \subseteq Tickets
  /\ Duties \in [Procs -> SUBSET DutyNames]
  /\ StatusValues \cup RuleValues \subseteq BuiltIn \cup CustomStatuses
  /\ SnoozeFor \subseteq Nat \ {0} /\ ForeignKeys \in BOOLEAN /\ ScanLimit \in Nat \ {0}
  /\ MaxTime \in Nat /\ MaxJobs \in Nat /\ MaxCrashes \in Nat

VARIABLES
  tickets,     \* escalated_tickets: a row, or Nil before it is created
  statusRows,  \* the custom rows of escalated_ticket_statuses
  now,         \* the clock
  job,         \* what each goroutine is in the middle of
  announced,   \* how often sla.breached was fired for a ticket (2: twice or more)
  responses,   \* tickets with a public reply of a named author (AddReply's authorType)
  jobs, crashes

vars == <<tickets, statusRows, category, anchors, now, job, announced, responses, jobs, crashes>>

Steps == {"idle", "save", "reply", "unsnooze", "resnooze", "merge",
          "wake", "wakeSave", "scan", "check", "checkSave", "announce", "act", "actSave"}

\* row is the row in memory, to be written to ticket tk; todo the tickets a
\* sweep still has to visit and rows what it listed of them; at the time read
\* (or the new snooze time), scanned the number of statuses listed, target the
\* merge target, value the rule's status.
Job == [step    : Steps,
        tk      : Tickets \cup {Nil},
        row     : Row \cup {Nil},
        todo    : SUBSET Tickets,
        rows    : [Tickets -> Row \cup {Nil}],
        at      : Nat,
        scanned : 0..Len(SlaOpenStatuses),
        target  : Tickets \cup {Nil},
        value   : BuiltIn \cup CustomStatuses \cup {Nil}]

NoRows == [t \in Tickets |-> Nil]
Idle == [step |-> "idle", tk |-> Nil, row |-> Nil, todo |-> {}, rows |-> NoRows, at |-> 0,
         scanned |-> 0, target |-> Nil, value |-> Nil]

Created == {t \in Tickets : tickets[t] # Nil}

Init ==
  /\ \E d \in Details :
       tickets = [t \in Tickets |-> IF t \in Existing THEN NewTicket(d, 0) ELSE Nil]
  /\ statusRows = CustomStatuses
  /\ category = Category
  /\ anchors = [c \in CustomStatuses |-> {CategoryAnchor(Category[c])}]
  /\ now = 0
  /\ job = [p \in Procs |-> Idle]
  /\ announced = [t \in Tickets |-> 0]
  /\ responses = {}
  /\ jobs = 0 /\ crashes = 0

-----------------------------------------------------------------------------
Free(p, duty) == job[p].step = "idle" /\ duty \in Duties[p]

\* A request begins.
Request(p) == Free(p, "requests") /\ jobs < MaxJobs /\ jobs' = jobs + 1

\* A request that has read ticket t and will write r.
WillSave(p, t, r) ==
  /\ job' = [job EXCEPT ![p] = [Idle EXCEPT !.step = "save", !.tk = t, !.row = r]]
  /\ UNCHANGED <<tickets, statusRows, category, anchors, now, announced, responses, crashes>>

\* store.UpdateTicket: the row in memory replaces every column, unless its
\* custom status is gone and the database minds.
Writable(p) == ForeignKeys => job[p].row.custom \in statusRows \cup {Nil}
Write(p) == tickets' = IF Writable(p)
                       THEN [tickets EXCEPT ![job[p].tk] = job[p].row] ELSE tickets

\* TicketService.Create, ChatSessionService.StartSession: one INSERT.
Create(p, t) ==
  /\ Request(p) /\ tickets[t] = Nil
  /\ \E d \in Details : \E r \in {NewTicket(d, now), NewChat(d, now)} :
        tickets' = [tickets EXCEPT ![t] = r]
  /\ UNCHANGED <<statusRows, category, anchors, now, job, announced, responses, crashes>>

Assign(p, t) ==
  /\ Request(p) /\ t \in Created
  /\ \E a \in Agents : WillSave(p, t, Assigned(tickets[t], a))

Unassign(p, t) ==
  /\ Request(p) /\ t \in Created
  /\ tickets[t].assignee # Nil
  /\ WillSave(p, t, Unassigned(tickets[t]))

\* ChangePriority, ChangeDepartment, UpdateDetails.
EditDetail(p, t) ==
  /\ Request(p) /\ t \in Created
  /\ \E d \in Details \ {tickets[t].detail} : WillSave(p, t, Edited(tickets[t], d))

ChangeStatus(p, t) ==
  /\ Request(p) /\ t \in Created
  /\ \E v \in StatusValues \cap (BuiltIn \cup statusRows) :
        WillSave(p, t, WithStatus(tickets[t], v, now))

ApplyPolicy(p, t) ==
  /\ Request(p) /\ t \in Created
  /\ WillSave(p, t, WithPolicy(tickets[t], now))

\* The ticket part of endSession and MarkAbandonedSessions.
EndChat(p, t) ==
  /\ Request(p) /\ t \in Created
  /\ tickets[t].chat
  /\ WillSave(p, t, ChatOver(tickets[t]))

\* AddReply, public and with an author (an agent, or a requester signed in or
\* writing by email): the ticket is read first ...
AddReply(p, t) ==
  /\ Request(p) /\ t \in Created
  /\ job' = [job EXCEPT ![p] = [Idle EXCEPT !.step = "reply", !.tk = t, !.row = tickets[t]]]
  /\ UNCHANGED <<tickets, statusRows, category, anchors, now, announced, responses, crashes>>

\* Fault: every reply moves first_response_at.
StampEveryReply(p) ==
  LET j == job[p]
  IN  /\ j.step = "reply"
      /\ responses' = responses \cup {j.tk}
      /\ job' = [job EXCEPT ![p] = [j EXCEPT !.step = "save", !.row = Responded(j.row, now)]]
      /\ UNCHANGED <<tickets, statusRows, category, anchors, now, announced, jobs, crashes>>

\* ... the reply inserted, and the row read before written if it was the first.
InsertReply(p) ==
  LET j == job[p]
  IN  /\ j.step = "reply"
      /\ responses' = responses \cup {j.tk}
      /\ job' = [job EXCEPT ![p] =
                   IF j.row.firstResponseAt = Nil
                   THEN [j EXCEPT !.step = "save", !.row = Responded(j.row, now)]
                   ELSE Idle]
      /\ UNCHANGED <<tickets, statusRows, category, anchors, now, announced, jobs, crashes>>

\* Fault: a ticket in any status can be snoozed.
SnoozeAny(p, t) ==
  /\ Request(p) /\ t \in Created
  /\ \E d \in SnoozeFor : WillSave(p, t, Snoozed(tickets[t], now + d))

\* AgentHandler.Snooze: an open ticket is snoozed; for a snoozed one the
\* handler unsnoozes it first and snoozes it again.
Snooze(p, t) ==
  /\ Request(p) /\ t \in Created
  /\ \E d \in SnoozeFor :
       \/ /\ tickets[t].status \in OpenStatuses
          /\ WillSave(p, t, Snoozed(tickets[t], now + d))
       \/ /\ tickets[t].status = "snoozed"
          /\ job' = [job EXCEPT ![p] = [Idle EXCEPT !.step = "unsnooze", !.tk = t,
                                        !.row = Awake(tickets[t]), !.at = now + d]]
          /\ UNCHANGED <<tickets, statusRows, category, anchors, now, announced, responses, crashes>>

\* The first save of a re-snooze: an error ends the request.
SaveUnsnooze(p) ==
  /\ job[p].step = "unsnooze"
  /\ Write(p)
  /\ job' = [job EXCEPT ![p] =
               IF Writable(p)
               THEN [Idle EXCEPT !.step = "resnooze", !.tk = job[p].tk, !.at = job[p].at]
               ELSE Idle]
  /\ UNCHANGED <<statusRows, category, anchors, now, announced, responses, jobs, crashes>>

\* SnoozeTicket then reads the row again and refuses one that is not open or a
\* time that has passed.
Resnooze(p) ==
  LET j == job[p]
  IN  /\ j.step = "resnooze"
      /\ job' = [job EXCEPT ![p] =
                   IF tickets[j.tk].status \in OpenStatuses /\ j.at >= now
                   THEN [Idle EXCEPT !.step = "save", !.tk = j.tk,
                                     !.row = Snoozed(tickets[j.tk], j.at)]
                   ELSE Idle]
      /\ UNCHANGED <<tickets, statusRows, category, anchors, now, announced, responses, jobs, crashes>>

Unsnooze(p, t) ==
  /\ Request(p) /\ t \in Created
  /\ tickets[t].status = "snoozed"
  /\ WillSave(p, t, Awake(tickets[t]))

Save(p) ==
  /\ job[p].step = "save"
  /\ Write(p)
  /\ job' = [job EXCEPT ![p] = Idle]
  /\ UNCHANGED <<statusRows, category, anchors, now, announced, responses, jobs, crashes>>

\* Fault: a target that was merged away is accepted.
FindAnyTarget(p, t) ==
  /\ Request(p) /\ t \in Created
  /\ \E target \in Created \ {t} :
       job' = [job EXCEPT ![p] = [Idle EXCEPT !.step = "merge", !.tk = t, !.target = target]]
  /\ UNCHANGED <<tickets, statusRows, category, anchors, now, announced, responses, crashes>>

\* TicketMergeService.Merge: the source and target are looked up outside the
\* transaction ...
FindMerge(p, t) ==
  /\ Request(p) /\ t \in Created
  /\ \E target \in Created \ {t} :
       /\ tickets[target].merged = Nil
       /\ job' = [job EXCEPT ![p] = [Idle EXCEPT !.step = "merge", !.tk = t, !.target = target]]
  /\ UNCHANGED <<tickets, statusRows, category, anchors, now, announced, responses, crashes>>

\* ... which closes the source whatever either has become since.
CommitMerge(p) ==
  LET j == job[p]
  IN  /\ j.step = "merge"
      /\ tickets' = [tickets EXCEPT ![j.tk] = MergedInto(@, j.target, now)]
      /\ job' = [job EXCEPT ![p] = Idle]
      /\ UNCHANGED <<statusRows, category, anchors, now, announced, responses, jobs, crashes>>

\* Fault: the tickets are left to a foreign key that only guards new writes.
DeleteRowOnly(p, c) ==
  /\ Request(p) /\ c \in statusRows
  /\ statusRows' = statusRows \ {c}
  /\ UNCHANGED <<tickets, category, anchors, now, job, announced, responses, crashes>>

\* TicketStatusService.Delete, a transaction.
DeleteStatus(p, c) ==
  /\ Request(p) /\ c \in statusRows
  /\ statusRows' = statusRows \ {c}
  /\ tickets' = [t \in Tickets |-> IF t \in Created /\ tickets[t].custom = c
                                   THEN [tickets[t] EXCEPT !.custom = Nil] ELSE tickets[t]]
  /\ UNCHANGED <<category, anchors, now, job, announced, responses, crashes>>

\* TicketStatusService.Update: the tickets in the status, and the rows read of
\* them, keep the built-in status its old category gave them.
UpdateStatus(p, c) ==
  /\ Request(p) /\ c \in statusRows
  /\ \E k \in CategoryValues \ {category[c]} :
       /\ category' = [category EXCEPT ![c] = k]
       /\ anchors' = [anchors EXCEPT ![c] = @ \cup {CategoryAnchor(k)}]
  /\ UNCHANGED <<tickets, statusRows, now, job, announced, responses, crashes>>

-----------------------------------------------------------------------------
\* Fault: a ticket is listed only in the very tick it falls due.
ListSnoozedNow(p) ==
  LET due == {t \in Created : SnoozeDue(tickets[t], now) /\ tickets[t].snoozedUntil = now}
  IN  /\ Free(p, "wake") /\ due # {}
      /\ job' = [job EXCEPT ![p] = [Idle EXCEPT !.step = "wake", !.todo = due]]
      /\ UNCHANGED <<tickets, statusRows, category, anchors, now, announced, responses, jobs, crashes>>

\* SnoozeService.WakeExpiredSnoozes: list the tickets due ...
ListSnoozed(p) ==
  LET due == {t \in Created : SnoozeDue(tickets[t], now)}
  IN  /\ Free(p, "wake") /\ due # {}
      /\ job' = [job EXCEPT ![p] = [Idle EXCEPT !.step = "wake", !.todo = due]]
      /\ UNCHANGED <<tickets, statusRows, category, anchors, now, announced, responses, jobs, crashes>>

\* A sweep goes on to the next of its tickets, or is over.
Continue(step, j) == IF j.todo = {} THEN Idle
                     ELSE [j EXCEPT !.step = step, !.tk = Nil, !.row = Nil]

\* ... then UnsnoozeTicket each: read, and skip one no longer snoozed (the time
\* it is snoozed until is not looked at again) ...
WakeNext(p) ==
  LET j == job[p]
      rest(t) == [j EXCEPT !.todo = @ \ {t}]
  IN  /\ j.step = "wake"
      /\ \E t \in j.todo :
           job' = [job EXCEPT ![p] =
                     IF tickets[t].status = "snoozed"
                     THEN [rest(t) EXCEPT !.step = "wakeSave", !.tk = t, !.row = Awake(tickets[t])]
                     ELSE Continue("wake", rest(t))]
      /\ UNCHANGED <<tickets, statusRows, category, anchors, now, announced, responses, jobs, crashes>>

\* ... and write.
SaveAwake(p) ==
  /\ job[p].step = "wakeSave"
  /\ Write(p)
  /\ job' = [job EXCEPT ![p] = Continue("wake", job[p])]
  /\ UNCHANGED <<statusRows, category, anchors, now, announced, responses, jobs, crashes>>

\* SLAService.CheckBreaches: the clock is read once ...
StartCheck(p) ==
  /\ Free(p, "sla") /\ Created # {}
  /\ job' = [job EXCEPT ![p] = [Idle EXCEPT !.step = "scan", !.at = now]]
  /\ UNCHANGED <<tickets, statusRows, category, anchors, now, announced, responses, jobs, crashes>>

\* Store.ListTickets of one status as openTickets asks for it: the newest
\* ScanLimit of them, in no known order when they are equally old.
Listings(status) ==
  LET all == {t \in Created : tickets[t].status = status}
  IN  {found \in SUBSET all :
         /\ Cardinality(found) <= ScanLimit
         /\ found # all => Cardinality(found) = ScanLimit
         /\ \A t \in found, u \in all \ found : tickets[t].created >= tickets[u].created}

\* Fault: the last status of the list is never looked at.
ScanButLast(p) ==
  LET j == job[p]
      n == j.scanned + 1
  IN  /\ j.step = "scan"
      /\ \/ /\ n >= Len(SlaOpenStatuses)
            /\ job' = [job EXCEPT ![p] = Idle]
         \/ /\ n < Len(SlaOpenStatuses)
            /\ \E found \in Listings(SlaOpenStatuses[n]) :
                 job' = [job EXCEPT ![p] =
                   [j EXCEPT !.scanned = n, !.todo = found,
                             !.rows = [t \in Tickets |-> IF t \in found THEN tickets[t] ELSE Nil],
                             !.step = IF found = {} THEN "scan" ELSE "check"]]
      /\ UNCHANGED <<tickets, statusRows, category, anchors, now, announced, responses, jobs, crashes>>

\* ... each open status is listed in turn ...
ScanStatus(p) ==
  LET j == job[p]
      n == j.scanned + 1
  IN  /\ j.step = "scan"
      /\ \/ /\ n > Len(SlaOpenStatuses)
            /\ job' = [job EXCEPT ![p] = Idle]
         \/ /\ n <= Len(SlaOpenStatuses)
            /\ \E found \in Listings(SlaOpenStatuses[n]) :
                 job' = [job EXCEPT ![p] =
                   [j EXCEPT !.scanned = n, !.todo = found,
                             !.rows = [t \in Tickets |-> IF t \in found THEN tickets[t] ELSE Nil],
                             !.step = IF found = {} THEN "scan" ELSE "check"]]
      /\ UNCHANGED <<tickets, statusRows, category, anchors, now, announced, responses, jobs, crashes>>

\* On to the next listed ticket, or the next status.
Checked(j) == [j EXCEPT !.step = IF j.todo = {} THEN "scan" ELSE "check",
                        !.tk = Nil, !.row = Nil]

\* ... and its tickets are judged by the rows listed.
CheckNext(p) ==
  LET j == job[p]
      rest(t) == [j EXCEPT !.todo = @ \ {t}, !.rows[t] = Nil]
  IN  /\ j.step = "check"
      /\ \E t \in j.todo :
           job' = [job EXCEPT ![p] =
                     IF ~j.rows[t].breached /\ Overdue(j.rows[t], j.at)
                     THEN [rest(t) EXCEPT !.step = "checkSave", !.tk = t,
                                          !.row = Breached(j.rows[t])]
                     ELSE Checked(rest(t))]
      /\ UNCHANGED <<tickets, statusRows, category, anchors, now, announced, responses, jobs, crashes>>

\* Fault: an unassigned ticket's breach is flagged and not announced.
SaveBreachQuietly(p) ==
  LET j == job[p]
  IN  /\ j.step = "checkSave"
      /\ Write(p)
      /\ job' = [job EXCEPT ![p] = IF Writable(p) /\ j.row.assignee # Nil
                                   THEN [j EXCEPT !.step = "announce"] ELSE Checked(j)]
      /\ UNCHANGED <<statusRows, category, anchors, now, announced, responses, jobs, crashes>>

\* The flag is written with the rest of the listed row ...
SaveBreach(p) ==
  LET j == job[p]
  IN  /\ j.step = "checkSave"
      /\ Write(p)
      /\ job' = [job EXCEPT ![p] = IF Writable(p) THEN [j EXCEPT !.step = "announce"]
                                                  ELSE Checked(j)]
      /\ UNCHANGED <<statusRows, category, anchors, now, announced, responses, jobs, crashes>>

\* ... and sla.breached fired.
Announce(p) ==
  LET j == job[p]
  IN  /\ j.step = "announce"
      /\ announced' = [announced EXCEPT ![j.tk] = IF @ < 2 THEN @ + 1 ELSE @]
      /\ job' = [job EXCEPT ![p] = Checked(j)]
      /\ UNCHANGED <<tickets, statusRows, category, anchors, now, responses, jobs, crashes>>

\* AutomationRunner.runOne, EscalationService.evaluateOne: the ids the rule
\* matches; its action is a status, or an agent.
MatchRule(p) ==
  LET matched == {t \in Created : RuleScope(tickets[t])}
  IN  /\ Free(p, "rules") /\ matched # {}
      /\ \E v \in RuleValues \cap (BuiltIn \cup statusRows), ids \in SUBSET matched \ {{}} :
           job' = [job EXCEPT ![p] = [Idle EXCEPT !.step = "act", !.value = v,
                                                  !.todo = ids]]
      /\ UNCHANGED <<tickets, statusRows, category, anchors, now, announced, responses, jobs, crashes>>

\* The action on one matched ticket: an automation writes the status columns in
\* place, an escalation goes through TicketService.ChangeStatus.
ActNext(p) ==
  LET j == job[p]
      rest(t) == [j EXCEPT !.todo = @ \ {t}]
  IN  /\ j.step = "act"
      /\ \E t \in j.todo :
           \/ /\ j.value \in BuiltIn \cup statusRows
              /\ tickets' = [tickets EXCEPT ![t] = DirectStatus(@, j.value)]
              /\ job' = [job EXCEPT ![p] = Continue("act", rest(t))]
           \/ /\ j.value = "escalated"
              /\ job' = [job EXCEPT ![p] = [rest(t) EXCEPT !.step = "actSave", !.tk = t,
                                            !.row = WithStatus(tickets[t], j.value, now)]]
              /\ UNCHANGED tickets
           \/ /\ j.value \notin BuiltIn \cup statusRows   \* ErrInvalidStatus, logged
              /\ job' = [job EXCEPT ![p] = Continue("act", rest(t))]
              /\ UNCHANGED tickets
      /\ UNCHANGED <<statusRows, category, anchors, now, announced, responses, jobs, crashes>>

SaveAct(p) ==
  /\ job[p].step = "actSave"
  /\ Write(p)
  /\ job' = [job EXCEPT ![p] = Continue("act", job[p])]
  /\ UNCHANGED <<statusRows, category, anchors, now, announced, responses, jobs, crashes>>

\* WorkflowRunner.runAction change_status: the event's ticket, in place.
RunWorkflow(p) ==
  /\ Free(p, "rules")
  /\ \E t \in Created, v \in RuleValues \cap (BuiltIn \cup statusRows) :
       tickets' = [tickets EXCEPT ![t] = DirectStatus(@, v)]
  /\ UNCHANGED <<statusRows, category, anchors, now, job, announced, responses, jobs, crashes>>

-----------------------------------------------------------------------------
Tick ==
  /\ now < MaxTime
  /\ now' = now + 1
  /\ UNCHANGED <<tickets, statusRows, category, anchors, job, announced, responses, jobs, crashes>>

\* A process stops: what it had only in memory is gone.
Crash(p) ==
  /\ crashes < MaxCrashes /\ job[p].step # "idle"
  /\ crashes' = crashes + 1
  /\ job' = [job EXCEPT ![p] = Idle]
  /\ UNCHANGED <<tickets, statusRows, category, anchors, now, announced, responses, jobs>>

Begin(p) ==
  \/ \E t \in Tickets : \/ Create(p, t) \/ Assign(p, t) \/ Unassign(p, t)
                        \/ EditDetail(p, t) \/ ChangeStatus(p, t) \/ ApplyPolicy(p, t)
                        \/ EndChat(p, t) \/ AddReply(p, t) \/ Snooze(p, t)
                        \/ Unsnooze(p, t) \/ FindMerge(p, t)
  \/ \E c \in CustomStatuses : DeleteStatus(p, c) \/ UpdateStatus(p, c)

Finish(p) == Save(p) \/ InsertReply(p) \/ SaveUnsnooze(p) \/ Resnooze(p) \/ CommitMerge(p)

Wake(p) == ListSnoozed(p) \/ WakeNext(p) \/ SaveAwake(p)

Check(p) == StartCheck(p) \/ ScanStatus(p) \/ CheckNext(p) \/ SaveBreach(p) \/ Announce(p)

Rules(p) == MatchRule(p) \/ ActNext(p) \/ SaveAct(p) \/ RunWorkflow(p)

Next == Tick \/ \E p \in Procs : Begin(p) \/ Finish(p) \/ Wake(p) \/ Check(p) \/ Rules(p) \/ Crash(p)

Spec == Init /\ [][Next]_vars

\* A running goroutine is scheduled, and the waker's and the checker's tickers
\* keep firing; nobody has to make a request or run the rules.
FairSpec == /\ Spec
            /\ WF_vars(Tick)
            /\ \A p \in Procs : /\ WF_vars(Finish(p)) /\ WF_vars(Wake(p)) /\ WF_vars(Check(p))
                                /\ WF_vars(ActNext(p) \/ SaveAct(p))

-----------------------------------------------------------------------------
TypeOK ==
  /\ tickets \in [Tickets -> Row \cup {Nil}]
  /\ statusRows \subseteq CustomStatuses
  /\ category \in [CustomStatuses -> Categories]
  /\ anchors \in [CustomStatuses -> SUBSET BuiltIn]
  /\ now \in Nat
  /\ job \in [Procs -> Job]
  /\ announced \in [Tickets -> 0..2]
  /\ responses \subseteq Tickets
  /\ jobs \in Nat /\ crashes \in Nat

\* One goroutine runs everything: nothing overlaps.
Serial == \A p, q \in Procs : p = q

\* Whatever was overwritten by whom, the snooze columns of a row (snoozed_until,
\* status_before_snooze) are set together and cleared together, so a snoozed
\* ticket with a date has an open status to wake to: rows are written whole and
\* the rules' direct UPDATEs leave those columns alone.
SnoozeFieldsTogether ==
  \A t \in Created : (tickets[t].snoozedUntil = Nil) <=> (tickets[t].before = Nil)

\* A merged ticket has a closed_at and is not its own target, even when a stale
\* handler has since written its status back: it never matches an automation or
\* escalation rule again.
MergedOutOfScope ==
  \A t \in Created : tickets[t].merged # Nil => ~RuleScope(tickets[t]) /\ tickets[t].merged # t

\* "The integer status column stays the source of truth, and ticket_status_id
\* records the sub-status" (models/ticket_status.go); "tickets already in the
\* status keep their built-in status when its category changes"
\* (TicketStatusService.Update).  So on a ticket that is not a chat the built-in
\* status beside a custom one is the anchor of a category that status has had,
\* whatever stale rows are written: never one that some other operation set.
CustomAtAnchor ==
  \A t \in Created : tickets[t].custom # Nil /\ ~tickets[t].chat
                       => tickets[t].status \in anchors[tickets[t].custom]

\* A deleted custom status is on no ticket (TicketStatusService.Delete: "its
\* tickets keep their built-in status and lose the custom one").
NoDeletedStatus ==
  \A t \in Created : tickets[t].custom \in statusRows \cup {Nil}

\* The breach flag silences later checks, so it must not be set without the
\* announcement made or under way (or lost in a crash), even when a stale
\* handler carries it into a later row.
FlagMeansAnnounced ==
  \A t \in Created : tickets[t].breached =>
     \/ announced[t] > 0 \/ crashes > 0
     \/ \E p \in Procs : job[p].step = "announce" /\ job[p].tk = t

\* CheckBreaches "fires sla.breached once per ticket".
BreachAnnouncedOnce == \A t \in Tickets : announced[t] < 2

\* first_response_at, once set, is neither cleared nor moved.
FirstResponseKept ==
  [][\A t \in Created : tickets[t].firstResponseAt # Nil
       => tickets'[t].firstResponseAt = tickets[t].firstResponseAt]_vars

\* A ticket with such a reply carries its first_response_at: with no request
\* under way and none lost in a crash, the first-response clock has stopped.
AnsweredIsStamped ==
  (crashes = 0 /\ \A p \in Procs : job[p].step = "idle")
    => \A t \in responses : tickets[t].firstResponseAt # Nil

\* Following merged_into_id ends: no set of tickets is merged entirely into itself.
NoMergeCycle ==
  \A S \in SUBSET Created : S # {} => \E t \in S : tickets[t].merged \notin S

\* "Merge merges the source ticket into the unmerged ticket whose reference is
\* targetReference": at the commit the target is not merged itself.
MergesIntoUnmerged ==
  [][\A t \in Created : tickets'[t].merged \notin {Nil, tickets[t].merged}
       => tickets[tickets'[t].merged].merged = Nil]_vars

\* "The ticket is snoozed until then" (AgentHandler.Snooze): the waker changes
\* only tickets whose time has come.
WokenOnTime ==
  [][\A p \in Procs : job[p].step = "wakeSave" /\ tickets' # tickets
       => tickets[job[p].tk].snoozedUntil \in 0..now]_vars

\* Rules are "scoped to open tickets (not resolved or closed)".
RulesMatchOpen ==
  [][\A p \in Procs : job[p].step = "idle" /\ job'[p].step = "act"
       => \A t \in job'[p].todo : tickets[t].status \notin {"resolved", "closed"}]_vars

\* A snooze that has run out ends: every ticket due is woken or snoozed anew,
\* whatever stale rows are written back meanwhile.
SnoozesEnd == \A t \in Tickets :
  (t \in Created /\ SnoozeDue(tickets[t], now))
    ~> (t \in Created /\ ~SnoozeDue(tickets[t], now))

\* An overdue open ticket that a scan of its status cannot miss: fewer than
\* ScanLimit others of that status are as new or newer.
InBreach(t) ==
  /\ t \in Created /\ tickets[t].status \in OpenStatuses /\ Overdue(tickets[t], now)
  /\ Cardinality({u \in Created \ {t} : /\ tickets[u].status = tickets[t].status
                                        /\ tickets[u].created >= tickets[t].created}) < ScanLimit

\* A ticket in breach is announced, unless it is dealt with first, the checker
\* crashes, or newer tickets crowd it out of the scan (SLAService.openTickets
\* lists the newest 200 of a status and looks at no other).
BreachesAnnounced ==
  \A t \in Tickets : InBreach(t) ~> (announced[t] > 0 \/ crashes > 0 \/ ~InBreach(t))
=============================================================================
