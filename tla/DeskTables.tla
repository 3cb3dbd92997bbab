----------------------------- MODULE DeskTables -----------------------------
(***************************************************************************)
(* The stores' tables: the columns each statement names, what a row is after *)
(* it, and the queries whose answers need more than a key. (store/,          *)
(* services/newsletter/sqlstore.go, audit_log_store.go,                      *)
(* ticket_subject_service.go.)                                              *)
(*                                                                         *)
(* A statement names its columns in order and its arguments in the same      *)
(* order, in both dialects; the i-th destination of a scan is the i-th       *)
(* column. Times are numbers, 0 for NULL.                                   *)
(***************************************************************************)
EXTENDS Integers, Sequences, FiniteSets, SequencesExt

Nil == "nil"
Table(select, insert, update) == [select |-> select, insert |-> insert, update |-> update]
Stamps == <<"created_at", "updated_at">>

TicketText == <<"subject", "description", "status", "priority", "ticket_type", "account_type", "account_id">>
TicketGuest == <<"requester_type", "requester_id", "guest_name", "guest_email", "guest_token", "contact_id">>
TicketWork ==
  <<"assigned_to", "department_id", "sla_policy_id", "merged_into_id", "sla_first_response_due_at", "sla_resolution_due_at", "sla_breached",
    "first_response_at", "resolved_at", "closed_at", "metadata">>
TicketLater == <<"ticket_status_id", "snoozed_until", "snoozed_by", "status_before_snooze">>
\* The five queries that read a ticket name the same columns.
TicketSelect == <<"id", "reference">> \o TicketText \o TicketGuest \o TicketWork \o Stamps \o TicketLater
TicketInsert == <<"reference">> \o TicketText \o TicketGuest \o TicketWork \o Stamps
TicketUpdate == TicketText \o TicketWork \o <<"updated_at">> \o TicketLater
Tickets == Table(TicketSelect, TicketInsert, TicketUpdate)

Replies ==
  LET columns == <<"ticket_id", "body", "author_type", "author_id", "is_internal", "is_system", "is_pinned">> \o Stamps
  IN  Table(<<"id">> \o columns, columns, <<"body", "is_internal", "is_pinned", "updated_at">>)
Departments ==
  LET text == <<"name", "slug", "description", "email", "is_active", "default_sla_policy_id">>
  IN  Table(<<"id">> \o text \o Stamps \o <<"business_schedule_id">>, text \o Stamps \o <<"business_schedule_id">>,
            text \o <<"updated_at", "business_schedule_id">>)
Tags ==
  LET text == <<"name", "slug", "color", "description">>
  IN  Table(<<"id">> \o text \o Stamps, text \o Stamps, text \o <<"updated_at">>)
SLAPolicies ==
  LET text == <<"name", "description", "first_response_hours", "resolution_hours", "is_active", "is_default">>
      more == <<"department_id", "ticket_type", "business_hours_only", "business_schedule_id">>
  IN  Table(<<"id">> \o text \o Stamps \o more, text \o Stamps \o more, text \o <<"updated_at">> \o more)
Activities ==
  LET columns == <<"ticket_id", "action", "causer_type", "causer_id", "details", "created_at">>
  IN  Table(<<"id">> \o columns, columns, <<>>)
SavedViews ==
  LET columns == <<"name", "filters", "user_id", "is_shared", "is_default", "position", "icon", "color">> \o Stamps
  IN  Table(<<"id">> \o columns, columns, <<"name", "filters", "is_shared", "is_default", "position", "icon", "color", "updated_at">>)
Attachments ==
  LET columns == <<"ticket_id", "reply_id", "original_filename", "mime_type", "size", "storage_path", "created_at">>
  IN  Table(<<"id">> \o columns, columns, <<>>)
Contacts ==
  LET columns == <<"email", "name", "user_id", "metadata">> \o Stamps
  IN  Table(<<"id">> \o columns, columns, <<"name", "updated_at">>)
Subjects ==
  LET columns == <<"ticket_id", "subject_type", "subject_id", "role", "position">> \o Stamps
  IN  Table(<<"id">> \o columns, columns, <<"role", "position", "updated_at">>)
ChatSessions ==
  LET columns == <<"ticket_id", "status", "agent_id", "visitor_user_agent", "visitor_ip", "visitor_page_url", "agent_joined_at",
                   "last_activity_at", "ended_at", "created_at">>
  IN  Table(<<"id">> \o columns, columns, <<"status", "agent_id", "agent_joined_at", "last_activity_at", "ended_at">>)
ChatMessages ==
  LET columns == <<"chat_session_id", "sender_type", "sender_id", "body", "created_at">>
  IN  Table(<<"id">> \o columns, columns, <<>>)
ChatRules ==
  LET columns == <<"name", "strategy", "department_id", "agent_ids", "priority", "max_concurrent_chats", "is_active">>
  IN  Table(<<"id">> \o columns \o <<"created_at">>, columns \o <<"created_at">>, columns)
BusinessSchedules ==
  LET columns == <<"name", "timezone", "hours", "is_default", "is_active">>
  IN  Table(<<"id">> \o columns \o Stamps, columns \o Stamps, columns \o <<"updated_at">>)
AuditLogs ==
  LET columns == <<"action", "entity_type", "entity_id", "performer_type", "performer_id", "old_values", "new_values", "ip_address",
                   "user_agent", "created_at">>
  IN  Table(<<"id">> \o columns, columns, <<>>)

\* The campaign store writes the stamps itself (CURRENT_TIMESTAMP).
NewsletterText ==
  <<"subject", "from_email", "from_name", "reply_to", "target_list_id", "template_id", "theme", "body_markdown", "status", "scheduled_at">>
Campaigns ==
  Table(<<"id">> \o NewsletterText \o <<"sent_at", "created_by", "sent_by", "summary_total", "summary_sent", "summary_opened", "summary_clicked",
         "summary_bounced", "summary_complained">> \o Stamps,
        NewsletterText \o <<"created_by", "sent_by">> \o Stamps, NewsletterText \o <<"updated_at">>)
Lists ==
  LET columns == <<"name", "description", "kind", "filter_json", "created_by">> \o Stamps
  IN  Table(<<"id">> \o columns, columns, <<"name", "description", "filter_json", "updated_at">>)
Templates ==
  LET text == <<"name", "theme", "subject_template", "body_markdown", "merge_fields_schema">>
  IN  Table(<<"id">> \o text \o <<"created_by">> \o Stamps, text \o <<"created_by">> \o Stamps, text \o <<"updated_at">>)
Deliveries ==
  LET progress == <<"sent_at", "opened_at", "last_clicked_at", "clicks_count", "bounce_reason", "failure_reason", "attempt_count", "claimed_at",
                    "next_attempt_at">>
  IN  Table(<<"id", "newsletter_id", "contact_id", "email_at_send", "status", "tracking_token">> \o progress \o <<"is_test", "created_at">>,
            <<"newsletter_id", "contact_id", "email_at_send", "status", "tracking_token", "attempt_count", "is_test", "created_at">>,
            <<"status">> \o progress)
Subscribers ==
  LET columns == <<"email", "name", "user_id", "metadata", "marketing_opt_out_at">> \o Stamps
  IN  Table(<<"id">> \o columns, columns, <<"marketing_opt_out_at", "updated_at">>)

Tables ==
  {Tickets, Replies, Departments, Tags, SLAPolicies, Activities, SavedViews, Attachments, Contacts, Subjects, ChatSessions, ChatMessages, ChatRules,
   BusinessSchedules, AuditLogs, Campaigns, Lists, Templates, Deliveries, Subscribers}
Columns(t) == ToSet(t.select) \cup ToSet(t.insert) \cup ToSet(t.update)

\* o is the program's object; a column a query does not name stays zero in it.
Stored(t, o) == [c \in Columns(t) |-> IF c = "id" THEN "new" ELSE IF c \in ToSet(t.insert) THEN o[c] ELSE "default"]
Read(t, row) == [c \in Columns(t) |-> IF c \in ToSet(t.select) THEN row[c] ELSE "zero"]
Updated(t, row, o) == [c \in Columns(t) |-> IF c \in ToSet(t.update) THEN o[c] ELSE row[c]]
-----------------------------------------------------------------------------
(* Statements put together clause by clause. A filter is a function from the *)
(* clauses asked for to their arguments; step is how far the number of the   *)
(* next $n moves after a clause, its width for the ? of SQLite.             *)

Where(order, f, step) ==
  LET add(q, k) == [where |-> Append(q.where, [key |-> k, markers |-> [i \in DOMAIN f[k] |-> q.next + i]]), args |-> q.args \o f[k],
                    next |-> q.next + step[k]]
  IN  FoldLeft(add, [where |-> <<>>, args |-> <<>>, next |-> 0], SelectSeq(order, LAMBDA k : k \in DOMAIN f))
Admits(key, values, row) ==
  CASE key = "is_test" -> ~row.is_test [] key = "active" -> row.status \in values [] OTHER -> row[key] \in values
Matches(q, row) ==
  \A i \in DOMAIN q.where : Admits(q.where[i].key, {q.args[m] : m \in ToSet(q.where[i].markers)}, row)

ReplyClauses == <<"ticket_id", "is_internal", "is_system", "is_pinned">>
SqliteListReplies(f) == Where(ReplyClauses, f, [k \in DOMAIN f |-> 1])
\* The last clause does not move the number: none comes after it.
PostgresListReplies(f) == Where(ReplyClauses, f, [k \in DOMAIN f |-> IF k = "is_pinned" THEN 0 ELSE 1])

SessionClauses == <<"active", "status", "agent_id">>
SqliteListChatSessions(f) == Where(SessionClauses, f, [k \in DOMAIN f |-> Len(f[k])])
\* Fault: the two statuses of the active clause count as one.
PostgresActiveAsOne(f) == Where(SessionClauses, f, [k \in DOMAIN f |-> IF k = "agent_id" THEN 0 ELSE 1])

PostgresListChatSessions(f) == Where(SessionClauses, f, [k \in DOMAIN f |-> IF k = "agent_id" THEN 0 ELSE Len(f[k])])

DeliveryClauses == <<"newsletter_id", "status", "is_test">>
ListDeliveries(f) == Where(DeliveryClauses, f, [k \in DOMAIN f |-> IF k = "newsletter_id" THEN 1 ELSE 0])
-----------------------------------------------------------------------------
(* References. draws are the references generated; taken those stored; an    *)
(* insert may also fail for another reason. The outcome is the reference the *)
(* ticket keeps, Nil for none, and whether the row was stored.              *)

ticketReferenceAttempts == 3
insertTicket(given, draws, taken, fails) ==
  LET tries == 1..ticketReferenceAttempts
      stops(i) == draws[i] \notin taken \/ i \in fails
      first == {i \in tries : stops(i) /\ \A j \in 1..(i - 1) : ~stops(j)}
  IN  IF given # Nil THEN [reference |-> given, stored |-> given \notin taken /\ 1 \notin fails]
      ELSE IF \E i \in first : i \notin fails THEN [reference |-> draws[CHOOSE i \in first : TRUE], stored |-> TRUE]
      ELSE [reference |-> Nil, stored |-> FALSE]

\* A reply touches its ticket; a failure to is ignored.
CreateReply(db, r, now, touches) ==
  [replies |-> db.replies \cup {[ticket_id |-> r, created_at |-> now]},
   tickets |-> {IF t.id = r /\ touches THEN [t EXCEPT !.updated_at = now] ELSE t : t \in db.tickets}]
ReplyOrder(replies, descending) ==
  SetToSortSeq(replies, LAMBDA r, s : IF descending THEN r.created_at > s.created_at ELSE r.created_at < s.created_at)

GetDefaultSLAPolicy(policies) ==
  LET candidates == {x \in policies : x.is_default /\ x.is_active /\ x.department_id = Nil /\ x.ticket_type = Nil}
  IN  {x \in candidates : \A y \in candidates : x.id <= y.id}

\* db: tags [id, name] and pairs <<ticket, tag>>. The first of DeleteTag's two
\* statements may fail and is not waited for.
AddTagToTicket(db, ticket, tag) == [db EXCEPT !.pairs = @ \cup {<<ticket, tag>>}]
RemoveTagFromTicket(db, ticket, tag) == [db EXCEPT !.pairs = @ \ {<<ticket, tag>>}]
DeleteTag(db, tag, unpairs) ==
  [tags |-> {t \in db.tags : t.id # tag}, pairs |-> IF unpairs THEN {x \in db.pairs : x[2] # tag} ELSE db.pairs]
GetTicketTags(db, ticket) == SetToSortSeq({t \in db.tags : <<ticket, t.id>> \in db.pairs}, LAMBDA s, t : s.name < t.name)

ListActivities(rows, ticket, limit) ==
  LET newest == SetToSortSeq({a \in rows : a.ticket_id = ticket}, LAMBDA a, b : a.created_at > b.created_at)
      n == IF limit = 0 THEN 20 ELSE limit
  IN  SubSeq(newest, 1, IF Len(newest) < n THEN Len(newest) ELSE n)

Visible(views, user) == {v \in views : v.user_id = user \/ v.is_shared}
ListSavedViews(views, user) ==
  SetToSortSeq(Visible(views, user), LAMBDA v, w : v.position < w.position \/ (v.position = w.position /\ v.id < w.id))
ReorderSavedViews(views, user, ids) ==
  LET move(vs, i) == {IF v.id = ids[i] /\ (v.user_id = user \/ v.is_shared) THEN [v EXCEPT !.position = i - 1] ELSE v : v \in vs}
  IN  FoldLeft(move, views, [i \in DOMAIN ids |-> i])

\* tickets: id to [merged, split], 0 for none.
ListRelatedTickets(tickets, id) ==
  {k \in DOMAIN tickets \ {id} : \/ tickets[k].merged = id \/ tickets[k].split = id
                                 \/ id \in DOMAIN tickets /\ k \in {tickets[id].merged, tickets[id].split}}

\* A department's rules first, then the global ones, each by priority.
ListActiveChatRoutingRules(rules, department) ==
  LET place(r) == <<IF r.department_id = Nil THEN 1 ELSE 0, 9 - r.priority, r.id>>
      before(r, s) == \E k \in 1..3 : place(r)[k] < place(s)[k] /\ \A j \in 1..(k - 1) : place(r)[j] = place(s)[j]
  IN  SetToSortSeq({r \in rules : r.is_active /\ (department # Nil => r.department_id \in {department, Nil})}, before)
-----------------------------------------------------------------------------
(* Subjects. links: [id, ticket, subject, role, position]; next the id the   *)
(* table gives next. SQLite gives an id and reads the row again.            *)

SameSubject(l, m) == l.ticket = m.ticket /\ l.subject = m.subject
PostgresUpsertTicketSubjectLink(links, l, next) ==
  LET old == {k \in links : SameSubject(k, l)}
      row == IF old = {} THEN [l EXCEPT !.id = next] ELSE [(CHOOSE k \in old : TRUE) EXCEPT !.role = l.role, !.position = l.position]
  IN  [links |-> (links \ old) \cup {row}, returned |-> row]
\* last is what LastInsertId answers: after an update, the id given before.
SqliteUpsertTicketSubjectLink(links, l, next, last) ==
  LET after == PostgresUpsertTicketSubjectLink(links, l, next).links
      kept == [l EXCEPT !.id = IF l.id # 0 THEN l.id ELSE last]
  IN  [links |-> after, returned |-> CHOOSE k \in after : SameSubject(k, kept)]

MaxTicketSubjectPosition(links, ticket) ==
  LET taken == {l.position : l \in {x \in links : x.ticket = ticket}}
  IN  IF taken = {} THEN -1 ELSE CHOOSE n \in taken : \A m \in taken : m <= n
\* type of a subject is its first letter here: allowed is the set of subjects
\* whose type is in the list, empty for an empty list; found those resolved.
AttachSubject(db, ticket, subject, role, position, allowed, enforce, found) ==
  IF (subject \notin allowed /\ (enforce \/ allowed # {})) \/ subject \notin found THEN [db |-> db, ok |-> FALSE]
  ELSE LET at == IF position = <<>> THEN MaxTicketSubjectPosition(db.links, ticket) + 1 ELSE position[1]
           done == PostgresUpsertTicketSubjectLink(db.links, [id |-> 0, ticket |-> ticket, subject |-> subject, role |-> role, position |-> at], db.next)
       IN  [db |-> [links |-> done.links, next |-> db.next + 1], ok |-> TRUE]
DetachSubject(db, ticket, id) == [db EXCEPT !.links = {l \in @ : ~(l.id = id /\ l.ticket = ticket)}]
\* Everything goes first; the first reference that cannot be attached ends it.
SyncSubjects(db, ticket, refs, allowed, enforce, found) ==
  LET attach(s, i) == IF ~s.ok THEN s ELSE AttachSubject(s.db, ticket, refs[i].subject, refs[i].role, <<i - 1>>, allowed, enforce, found)
  IN  FoldLeft(attach, [db |-> [db EXCEPT !.links = {l \in @ : l.ticket # ticket}], ok |-> TRUE], [i \in DOMAIN refs |-> i])
-----------------------------------------------------------------------------
(* Schedules and the audit log.                                             *)

\* db: schedules [id, is_default, is_active], days <<schedule, date>>.
writeSchedule(db, s, dates) ==
  [schedules |-> {IF x.id # s.id /\ s.is_default THEN [x EXCEPT !.is_default = FALSE] ELSE x : x \in {y \in db.schedules : y.id # s.id} \cup {s}},
   days |-> {d \in db.days : d[1] # s.id} \cup {<<s.id, d>> : d \in dates}]
GetDefaultBusinessSchedule(db) ==
  LET found == {s \in db.schedules : s.is_default /\ s.is_active} IN {s \in found : \A r \in found : s.id <= r.id}

AuditClauses == <<"performer", "action", "entity">>
ListAuditLogs(rows, f, from, to, page, perPage) ==
  LET size == IF perPage = 0 THEN 50 ELSE perPage
      nth == IF page = 0 THEN 1 ELSE page
      kept == {l \in rows : /\ \A k \in ToSet(AuditClauses) : f[k] # "" => l[k] = f[k]
                            /\ (from # 0 => l.at >= from) /\ (to # 0 => l.at < to)}
      newest == SetToSortSeq(kept, LAMBDA l, m : l.at > m.at \/ (l.at = m.at /\ l.id > m.id))
      last == IF nth * size < Len(newest) THEN nth * size ELSE Len(newest)
  IN  [rows |-> SubSeq(newest, (nth - 1) * size + 1, last), total |-> Len(newest)]

\* A value is [kind, at]: an object's at maps keys to values, a list's at is a
\* sequence. Keys are "secret" ones or others.
SensitiveKeys == {"secret"}
Redacted == [kind |-> "text", at |-> "[REDACTED]"]
RECURSIVE redactAuditValue(_)
redactAuditValue(v) ==
  CASE v.kind = "object" -> [v EXCEPT !.at = [k \in DOMAIN v.at |-> IF k \in SensitiveKeys THEN Redacted ELSE redactAuditValue(v.at[k])]]
    [] v.kind = "list" -> [v EXCEPT !.at = [i \in DOMAIN v.at |-> redactAuditValue(v.at[i])]]
    [] OTHER -> v
-----------------------------------------------------------------------------
\* A row that is read, changed in one column and written back is changed in
\* that column, if the update writes it, and blanked in none.
TableSays(t, c) ==
  LET row == Stored(t, [k \in Columns(t) |-> <<"given", k>>])
      held == [Read(t, row) EXCEPT ![c] = "changed"]
  IN  /\ c \in ToSet(t.insert) => Read(t, row)[c] = <<"given", c>>
      /\ Updated(t, row, held) = [row EXCEPT ![c] = IF c \in ToSet(t.update) THEN "changed" ELSE @]
      /\ Len(t.insert) = Cardinality(ToSet(t.insert)) /\ "id" \notin ToSet(t.insert) \cup ToSet(t.update)

\* Both dialects list the rows every clause of the filter admits.
BuilderSays(f, row, q) ==
  Matches(q, row) <=> \A k \in DOMAIN f : Admits(k, ToSet(f[k]), row)

\* A generated reference is stored once or not at all; a given one is never
\* replaced.
ReferenceSays(given, draws, taken, fails) ==
  LET out == insertTicket(given, draws, taken, fails)
  IN  /\ out.stored => out.reference \notin taken \cup {Nil}
      /\ given # Nil => out.reference = given
      /\ ~out.stored /\ given = Nil => out.reference = Nil /\ (fails = {} => {draws[i] : i \in 1..ticketReferenceAttempts} \subseteq taken)

\* A deleted tag is shown on no ticket, its pairs gone or not; a tag put on
\* twice is shown once and taken off once.
TagSays(db, ticket, tag, unpairs) ==
  LET shown(d) == {t.id : t \in ToSet(GetTicketTags(d, ticket))}
      twice == AddTagToTicket(AddTagToTicket(db, ticket, tag), ticket, tag)
  IN  /\ tag \notin shown(DeleteTag(db, tag, unpairs)) /\ shown(db) \ {tag} \subseteq shown(DeleteTag(db, tag, unpairs))
      /\ tag \in {t.id : t \in db.tags} => tag \in shown(twice) /\ Len(GetTicketTags(twice, ticket)) = Cardinality(shown(twice))
      /\ shown(RemoveTagFromTicket(twice, ticket, tag)) = shown(db) \ {tag}

\* A list reordered in full is listed in that order, and no view the agent does
\* not see is moved.
ViewsSay(views, user, other) ==
  LET ids(u, vs) == [i \in DOMAIN ListSavedViews(vs, u) |-> ListSavedViews(vs, u)[i].id]
      wanted == [i \in DOMAIN ids(user, views) |-> ids(user, views)[Len(ids(user, views)) + 1 - i]]
      after == ReorderSavedViews(views, user, wanted)
  IN  /\ ids(user, after) = wanted
      /\ views \ Visible(views, user) = after \ Visible(after, user)
      /\ ToSet(ids(other, after)) = ToSet(ids(other, views))

\* Related is the same from both sides.
RelatedSays(tickets) == \A i, j \in DOMAIN tickets : j \in ListRelatedTickets(tickets, i) <=> i \in ListRelatedTickets(tickets, j)

\* Both dialects upsert one link for a subject, whose id stays, and return it;
\* a sync that succeeds leaves its references in order, one that fails leaves
\* those before the failure; one attached without a position comes last; and no
\* other ticket's links change.
SubjectSays(db, ticket, refs, allowed, enforce, found) ==
  LET new == [id |-> 0, ticket |-> ticket, subject |-> refs[1].subject, role |-> refs[1].role, position |-> 7]
      lite == SqliteUpsertTicketSubjectLink(db.links, new, db.next, db.next - 1)
      post == PostgresUpsertTicketSubjectLink(db.links, new, db.next)
      sync == SyncSubjects(db, ticket, refs, allowed, enforce, found)
      mine == {l \in sync.db.links : l.ticket = ticket}
      taken == {i \in DOMAIN refs : \A j \in 1..i : refs[j].subject \in found /\ (refs[j].subject \in allowed \/ (~enforce /\ allowed = {}))}
      last == AttachSubject(db, ticket, "c", "r", <<>>, {}, FALSE, {"c"}).db
      alone(links) == \A l, m \in links : SameSubject(l, m) \/ l.id = m.id => l = m
  IN  /\ lite = post /\ lite.returned \in lite.links /\ alone(lite.links) /\ alone(sync.db.links)
      /\ \A l \in db.links : \E m \in lite.links : m.id = l.id /\ SameSubject(l, m)
      /\ sync.ok <=> taken = DOMAIN refs
      /\ {l.subject : l \in mine} = {refs[i].subject : i \in taken}
      /\ \A l \in mine : \E i \in taken : /\ l = [l EXCEPT !.subject = refs[i].subject, !.role = refs[i].role, !.position = i - 1]
                                          /\ \A j \in taken : refs[j].subject = l.subject => j <= i
      /\ {l \in sync.db.links : l.ticket # ticket} = {l \in db.links : l.ticket # ticket}
      /\ \A l \in db.links : l.ticket # ticket => DetachSubject(db, ticket, l.id) = db
      /\ \A l \in last.links : l.ticket = ticket /\ l.subject # "c" => \E m \in last.links : m.ticket = ticket /\ m.subject = "c" /\ m.position > l.position

\* A new reply is the last of its ticket, and moves the ticket up the list; a
\* ticket's activities are its newest.
RepliesSay(db, ticket, now, touches) ==
  LET after == CreateReply(db, ticket, now, touches)
      listed == ReplyOrder({r \in after.replies : r.ticket_id = ticket}, FALSE)
      log == ListActivities(after.replies, ticket, 2)
  IN  /\ listed[Len(listed)].created_at = now /\ log[1] = listed[Len(listed)]
      /\ ReplyOrder(ToSet(listed), TRUE) = Reverse(listed)
      /\ Len(log) = IF Len(listed) < 2 THEN Len(listed) ELSE 2
      /\ \A t \in after.tickets : t.updated_at = now <=> touches /\ t.id = ticket

\* One policy at most is the default, and it is not of a department; the rules
\* a chat is routed by are active, its department's before the global ones, and
\* one of a higher priority before one of a lower.
RulesSay(policies, rules) ==
  LET listed == ListActiveChatRoutingRules(rules, "d1")
      default == GetDefaultSLAPolicy(policies)
  IN  /\ Cardinality(default) <= 1 /\ \A x \in default : x.is_active /\ x.department_id = Nil
      /\ default = {} => \A x \in policies : x.is_default /\ x.is_active => {x.department_id, x.ticket_type} # {Nil}
      /\ ToSet(listed) = {r \in rules : r.is_active /\ r.department_id # "d2"}
      /\ \A i, j \in DOMAIN listed : i < j => \/ listed[j].department_id = Nil /\ listed[i].department_id = "d1"
                                             \/ /\ listed[i].department_id = listed[j].department_id
                                                /\ listed[i].priority >= listed[j].priority

\* However schedules were saved, one is the default at most once a default one
\* was saved, and a schedule has the holidays it was last saved with.
ScheduleSays(db, s, dates) ==
  LET after == writeSchedule(db, s, dates)
  IN  /\ s.is_default => {x \in after.schedules : x.is_default} = {s}
      /\ s.is_default /\ s.is_active => GetDefaultBusinessSchedule(after) = {s}
      /\ {d[2] : d \in {x \in after.days : x[1] = s.id}} = dates
      /\ {d \in after.days : d[1] # s.id} = {d \in db.days : d[1] # s.id}

\* The pages of the audit log are the log: each entry once, the newest first;
\* no value under a sensitive key is kept, at whatever depth, and no other is
\* lost.
AuditSays(rows, f, from, to) ==
  LET page(n) == ListAuditLogs(rows, f, from, to, n, 2)
      all == page(1).rows \o page(2).rows \o page(3).rows
  IN  /\ page(0) = page(1) /\ Len(all) = page(1).total /\ Cardinality(ToSet(all)) = Len(all)
      /\ \A i, j \in DOMAIN all : i < j => all[i].at >= all[j].at
      /\ \A l \in rows : l \in ToSet(all) <=> /\ l.at >= from /\ (to = 0 \/ l.at < to)
                                              /\ \A k \in {"performer", "action", "entity"} : f[k] \in {"", l[k]}
RECURSIVE Texts(_, _)
Texts(v, under) ==
  CASE v.kind = "object" -> UNION {Texts(v.at[k], under \/ k \in SensitiveKeys) : k \in DOMAIN v.at}
    [] v.kind = "list" -> UNION {Texts(v.at[i], under) : i \in DOMAIN v.at}
    [] OTHER -> {<<v.at, under>>}
RedactSays(v) ==
  LET out == Texts(redactAuditValue(v), FALSE)
  IN  (\A x \in out : x[2] => x[1] = "[REDACTED]") /\ {x \in Texts(v, FALSE) : ~x[2]} \subseteq out
=============================================================================
