------------------------------- MODULE Schema -------------------------------
(***************************************************************************)
(* The tables migrations.go creates, with the references and unique keys    *)
(* they declare, and what every delete of the code leaves behind: in a      *)
(* database that enforces foreign keys (PostgreSQL, or SQLite whose host    *)
(* turned foreign_keys on) and in one that does not. A table stands for its *)
(* rows that point, directly or not, at the row being deleted.              *)
(***************************************************************************)
EXTENDS Naturals, Sequences, FiniteSets

\* A column that holds another table's id. rule is the declared ON DELETE
\* ("action" when the declaration has none), or "bare" when the column is an
\* id with no foreign key.
Ref(c, t, r) == [col |-> c, to |-> t, rule |-> r]
Table(n, refs, keys) == [name |-> n, refs |-> refs, keys |-> keys]
Plain(n, keys) == Table(n, {}, keys)
-----------------------------------------------------------------------------
(* migrations/migrations.go, in the order of its CREATE TABLEs              *)

DeskTables == <<
  Plain("sla_policies", {{"name"}}),
  Table("departments", {Ref("default_sla_policy_id", "sla_policies", "null")}, {{"slug"}, {"name"}}),
  Plain("tags", {{"name"}, {"slug"}}),
  Table("tickets", {Ref("department_id", "departments", "null"), Ref("sla_policy_id", "sla_policies", "null"),
                    Ref("contact_id", "contacts", "bare")}, {{"reference"}, {"guest_token"}}),
  Table("replies", {Ref("ticket_id", "tickets", "cascade")}, {}),
  Table("ticket_tags", {Ref("ticket_id", "tickets", "cascade"), Ref("tag_id", "tags", "cascade")}, {{"ticket_id", "tag_id"}}),
  Table("ticket_followers", {Ref("ticket_id", "tickets", "cascade")}, {{"ticket_id", "user_id"}}),
  Table("ticket_subjects", {Ref("ticket_id", "tickets", "cascade")}, {{"ticket_id", "subject_type", "subject_id"}}),
  Table("ticket_activities", {Ref("ticket_id", "tickets", "cascade")}, {}),
  Table("email_channels", {Ref("department_id", "departments", "null")}, {}) >>

FieldTables == <<
  Plain("custom_fields", {{"slug"}}),
  Table("custom_field_values", {Ref("custom_field_id", "custom_fields", "cascade"), Ref("entity_id", "tickets", "bare")},
        {{"custom_field_id", "entity_type", "entity_id"}}),
  Plain("custom_objects", {{"slug"}}),
  Table("custom_object_records",
        {Ref("custom_object_id", "custom_objects", "cascade"), Ref("linked_entity_id", "tickets", "bare")}, {}),
  Plain("audit_logs", {}),
  Plain("business_schedules", {}),
  Table("holidays", {Ref("business_schedule_id", "business_schedules", "cascade")}, {}),
  Plain("two_factors", {}) >>

FlowTables == <<
  Plain("workflows", {}),
  Table("workflow_logs", {Ref("workflow_id", "workflows", "bare"), Ref("ticket_id", "tickets", "bare")}, {}),
  Table("delayed_actions", {Ref("workflow_id", "workflows", "bare"), Ref("ticket_id", "tickets", "bare")}, {}),
  Table("attachments", {Ref("ticket_id", "tickets", "cascade"), Ref("reply_id", "replies", "null")}, {}),
  Plain("contacts", {{"email"}}),
  Plain("settings", {{"key"}}),
  Plain("skills", {{"slug"}, {"name"}}),
  Table("skill_routing_tags", {Ref("skill_id", "skills", "cascade"), Ref("tag_id", "tags", "cascade")}, {{"skill_id", "tag_id"}}),
  Table("skill_routing_departments", {Ref("skill_id", "skills", "cascade"), Ref("department_id", "departments", "cascade")},
        {{"skill_id", "department_id"}}),
  Table("agent_skills", {Ref("skill_id", "skills", "cascade")}, {{"user_id", "skill_id"}}) >>

NewsletterTables == <<
  Plain("newsletter_lists", {}),
  Table("newsletter_list_members", {Ref("list_id", "newsletter_lists", "cascade"), Ref("contact_id", "contacts", "cascade")},
        {{"list_id", "contact_id"}}),
  Plain("newsletter_templates", {}),
  Table("newsletters", {Ref("target_list_id", "newsletter_lists", "action"), Ref("template_id", "newsletter_templates", "null")}, {}),
  Table("newsletter_deliveries", {Ref("newsletter_id", "newsletters", "cascade"), Ref("contact_id", "contacts", "cascade")},
        {{"tracking_token"}}) >>

engineAddonStatements == <<
  Plain("escalation_rules", {}),
  Table("satisfaction_ratings", {Ref("ticket_id", "tickets", "bare")}, {{"ticket_id"}}),
  Plain("agent_capacity", {{"user_id", "channel"}}),
  Table("ticket_links", {Ref("parent_ticket_id", "tickets", "bare"), Ref("child_ticket_id", "tickets", "bare")},
        {{"parent_ticket_id", "child_ticket_id", "link_type"}}),
  Table("side_conversations", {Ref("ticket_id", "tickets", "bare")}, {}),
  Table("side_conversation_replies", {Ref("side_conversation_id", "side_conversations", "bare")}, {}),
  Plain("article_categories", {{"slug"}}),
  Table("articles", {Ref("category_id", "article_categories", "bare")}, {{"slug"}}),
  Table("chat_sessions", {Ref("ticket_id", "tickets", "bare")}, {}),
  Table("chat_messages", {Ref("chat_session_id", "chat_sessions", "bare")}, {}),
  Table("chat_routing_rules", {Ref("department_id", "departments", "bare")}, {}),
  Plain("api_tokens", {{"token"}}) >>

addonTables == <<
  Plain("automations", {}), Plain("macros", {}), Plain("canned_responses", {}),
  Plain("webhooks", {}), Table("webhook_deliveries", {Ref("webhook_id", "webhooks", "bare")}, {}) >>

ticketStatusStatements == << Plain("ticket_statuses", {{"slug"}}) >>

importStatements == <<
  Plain("import_jobs", {}),
  Table("import_source_maps", {Ref("import_job_id", "import_jobs", "cascade")}, {{"import_job_id", "entity_type", "source_id"}}) >>

pluginStatements == << Plain("plugins", {{"slug"}}), Plain("plugin_store", {}) >>

roleStatements == <<
  Plain("roles", {{"slug"}}), Plain("permissions", {{"slug"}}),
  Table("role_permission", {Ref("role_id", "roles", "cascade"), Ref("permission_id", "permissions", "cascade")},
        {{"role_id", "permission_id"}}),
  Table("role_user", {Ref("role_id", "roles", "cascade")}, {{"user_id", "role_id"}}) >>

savedViewStatements == << Plain("saved_views", {}) >>

agentPanelStatements == <<
  Table("ticket_reads", {Ref("ticket_id", "tickets", "cascade")}, {{"user_id", "ticket_id"}}),
  Plain("customer_presence", {{"subject_type", "subject_id"}}),
  Plain("notifications", {}), Plain("agent_statuses", {{"user_id"}}) >>

ssoStatements == << Plain("sso_message_ids", {{"kind", "message_id"}}) >>

migrationStatements ==
  DeskTables \o FieldTables \o FlowTables \o NewsletterTables \o engineAddonStatements \o addonTables
    \o ticketStatusStatements \o importStatements \o pluginStatements \o roleStatements
    \o savedViewStatements \o agentPanelStatements \o ssoStatements

\* The columns and tables added to what is there: every one only when missing.
upgradeTicketAccess == <<
  <<"sla_policies", Ref("department_id", "departments", "restrict")>>,
  <<"sla_policies", Ref("business_schedule_id", "business_schedules", "null")>>,
  <<"departments", Ref("business_schedule_id", "business_schedules", "null")>>,
  <<"tickets", Ref("ticket_status_id", "ticket_statuses", "null")>>,
  <<"department_agent", Ref("department_id", "departments", "cascade")>> >>

Position(t) == CHOOSE i \in DOMAIN migrationStatements : migrationStatements[i].name = t
Names == {migrationStatements[i].name : i \in DOMAIN migrationStatements} \cup {"department_agent", "guest_verifications"}

References == UNION {{<<migrationStatements[i].name, r>> : r \in migrationStatements[i].refs} : i \in DOMAIN migrationStatements}
                \cup {upgradeTicketAccess[i] : i \in DOMAIN upgradeTicketAccess}
Declared == {p \in References : p[2].rule # "bare"}

\* A CREATE TABLE may only name a table that is there.
InOrder ==
  /\ Cardinality({migrationStatements[i].name : i \in DOMAIN migrationStatements}) = Len(migrationStatements)
  /\ \A i \in DOMAIN migrationStatements : \A r \in migrationStatements[i].refs :
       r.rule # "bare" => \E j \in 1..(i - 1) : migrationStatements[j].name = r.to

\* Every INSERT ... ON CONFLICT of the code, with the columns it conflicts on
\* (all of the table's, where it names none).
Upserts == {<<"agent_statuses", {"user_id"}>>, <<"ticket_reads", {"user_id", "ticket_id"}>>,
            <<"customer_presence", {"subject_type", "subject_id"}>>, <<"ticket_tags", {"ticket_id", "tag_id"}>>,
            <<"ticket_followers", {"ticket_id", "user_id"}>>, <<"settings", {"key"}>>,
            <<"newsletter_list_members", {"list_id", "contact_id"}>>,
            <<"ticket_subjects", {"ticket_id", "subject_type", "subject_id"}>>}
Upserted == \A u \in Upserts : u[2] \in migrationStatements[Position(u[1])].keys
-----------------------------------------------------------------------------
(* What a delete does. A script is the statements one operation runs.       *)

Delete(t) == [do |-> "delete", table |-> t, col |-> ""]
Unlink(t, c) == [do |-> "unlink", table |-> t, col |-> c]
Deletes(ts) == [i \in DOMAIN ts |-> Delete(ts[i])]

\* RetentionService.deleteTickets
deleteTickets == Deletes(<<"chat_messages", "chat_sessions", "side_conversation_replies", "side_conversations",
    "workflow_logs", "delayed_actions", "satisfaction_ratings", "ticket_links", "custom_field_values", "attachments",
    "replies", "ticket_tags", "ticket_followers", "ticket_subjects", "ticket_activities">>) \o <<Delete("tickets")>>

deleteStatus == <<Unlink("tickets", "ticket_status_id"), Delete("ticket_statuses")>>
deleteBusinessSchedule ==
  <<Unlink("sla_policies", "business_schedule_id"), Unlink("departments", "business_schedule_id")>>
    \o Deletes(<<"holidays", "business_schedules">>)
deleteCustomField == Deletes(<<"custom_field_values", "custom_fields">>)
deleteCustomObject == Deletes(<<"custom_object_records", "custom_objects">>)
deleteRole == Deletes(<<"role_permission", "role_user", "roles">>)
deleteWebhook == Deletes(<<"webhook_deliveries", "webhooks">>)
deleteWorkflow == Deletes(<<"workflow_logs", "workflows">>)
deleteTag == Deletes(<<"ticket_tags", "tags">>)

\* The deletes that are one statement.
Single == {"tickets", "replies", "departments", "sla_policies", "skills", "newsletter_lists", "newsletter_templates",
           "newsletters", "articles", "article_categories", "chat_routing_rules", "saved_views"}

Script(op) ==
  CASE op = "retention" -> deleteTickets
    [] op = "status" -> deleteStatus
    [] op = "schedule" -> deleteBusinessSchedule
    [] op = "field" -> deleteCustomField
    [] op = "object" -> deleteCustomObject
    [] op = "role" -> deleteRole
    [] op = "webhook" -> deleteWebhook
    [] op = "workflow" -> deleteWorkflow
    [] op = "tag" -> deleteTag
    [] op \in Single -> <<Delete(op)>>
Operations == {"retention", "status", "schedule", "field", "object", "role", "webhook", "workflow", "tag"} \cup Single

\* gone: the tables whose rows are deleted; cut: the references set to NULL.
Pointing(S, rule, cut) == {p \in References \ cut : p[2].to \in S /\ p[2].rule = rule}
Cascaded(gone, t, cut) ==
  LET Step[n \in 0..4] == IF n = 0 THEN {t} ELSE Step[n - 1] \cup {p[1] : p \in Pointing(Step[n - 1], "cascade", cut)}
  IN  Step[4]

\* One statement, in a database that enforces foreign keys or not. A refused
\* statement ends the operation and its transaction is rolled back.
Apply(d, s, enforced) ==
  IF ~d.ok THEN d
  ELSE IF s.do = "unlink"
  THEN [d EXCEPT !.cut = @ \cup {p \in References : p[1] = s.table /\ p[2].col = s.col}]
  ELSE LET all == IF enforced THEN Cascaded(d.gone, s.table, d.cut) ELSE {s.table}
           held == {p \in Pointing(all, "restrict", d.cut) \cup Pointing(all, "action", d.cut) : p[1] \notin d.gone \cup all}
       IN  IF enforced /\ held # {} THEN [ok |-> FALSE, gone |-> {}, cut |-> {}]
           ELSE [d EXCEPT !.gone = @ \cup all,
                          !.cut = @ \cup (IF enforced THEN Pointing(all, "null", d.cut) ELSE {})]

Run(script, enforced) ==
  LET After[i \in 0..Len(script)] ==
        IF i = 0 THEN [ok |-> TRUE, gone |-> {}, cut |-> {}] ELSE Apply(After[i - 1], script[i], enforced)
  IN  After[Len(script)]

\* The references that still hold the id of a row that is gone.
Dangling(d) == {p \in References \ d.cut : p[1] \notin d.gone /\ p[2].to \in d.gone}
Columns(S) == {<<p[1], p[2].col>> : p \in S}

\* The operations that write their cascades out, because SQLite may not
\* enforce foreign keys, leave nothing pointing at what they deleted.
\* Retention leaves a read marker in such a database, and the object records
\* an administrator linked to the ticket in every one; a workflow leaves its
\* delayed actions.
LeftBehind(op, enforced) ==
  CASE op = "retention" -> {<<"custom_object_records", "linked_entity_id">>}
                             \cup (IF enforced THEN {} ELSE {<<"ticket_reads", "ticket_id">>})
    [] op = "workflow" -> {<<"delayed_actions", "workflow_id">>}
    [] OTHER -> {}

DeleteSays(op, enforced) ==
  LET d == Run(Script(op), enforced)
  IN  /\ d.ok <=> ~(enforced /\ op \in {"departments", "newsletter_lists"})
      /\ enforced => Dangling(d) \cap Declared = {}
      /\ op \notin Single \cup {"tag"} => Columns(Dangling(d)) = LeftBehind(op, enforced)
-----------------------------------------------------------------------------
(* migrations/ticket_access.go: the built-in statuses' rows                 *)

Nine == <<"open", "in_progress", "waiting_on_customer", "waiting_on_agent", "escalated", "resolved", "closed",
          "reopened", "snoozed", "live">>
systemStatuses == [i \in DOMAIN Nine |->
  [slug |-> Nine[i],
   category |-> CASE Nine[i] = "waiting_on_customer" -> "pending"
                  [] Nine[i] \in {"resolved", "closed"} -> "solved"
                  [] Nine[i] = "snoozed" -> "on_hold"
                  [] OTHER -> "open"]]

\* rows: what is there, a set of [slug, category, position, system]. A slug a
\* custom status already took gets no system row.
seedSystemStatuses(rows) ==
  rows \cup {[slug |-> systemStatuses[i].slug, category |-> systemStatuses[i].category, system |-> TRUE,
              position |-> Cardinality({j \in 1..(i - 1) : systemStatuses[j].category = systemStatuses[i].category})] :
               i \in {k \in DOMAIN systemStatuses : \A r \in rows : r.slug # systemStatuses[k].slug}}

SeedSays(rows) ==
  LET after == seedSystemStatuses(rows)
      new == after \ rows
  IN  /\ seedSystemStatuses(after) = after
      /\ \A i \in DOMAIN systemStatuses : Cardinality({r \in after : r.slug = systemStatuses[i].slug}) = 1
      /\ \A r, s \in new : r # s => <<r.category, r.position>> # <<s.category, s.position>>
-----------------------------------------------------------------------------
(* services/retention_service.go. A cutoff is a time, 0 when a setting is    *)
(* "never" or no setting the code knows.                                    *)

Days == [never |-> 0, unknown |-> 0, short |-> 1, long |-> 2]
RetentionDays(setting) == Days[setting]
RetentionCutoff(setting, now) == IF RetentionDays(setting) = 0 THEN 0 ELSE now - RetentionDays(setting)

Expired(rows, cutoff) == {r \in rows : r.at < cutoff}
ClosedBefore(tickets, cutoff) == {t \in tickets : t.closed /\ t.at # 0 /\ t.at < cutoff}

\* db: tickets [id, closed, at, into] (at: closed_at, 0 when NULL; into: the
\* ticket it was merged into, 0 when none), files [id, of, at], logs and codes
\* [id, at]. A real run counts each kind after it deleted the ones before.
PurgeExpired(db, s, now, dryRun) ==
  LET old == ClosedBefore(db.tickets, RetentionCutoff(s.tickets, now))
      ids == {t.id : t \in old}
      tickets == {[t EXCEPT !.into = IF @ \in ids THEN 0 ELSE @] : t \in db.tickets \ old}
      left == IF dryRun THEN db
              ELSE [db EXCEPT !.tickets = tickets, !.files = {f \in @ : f.of \notin ids}]
      files == Expired(left.files, RetentionCutoff(s.files, now))
      logs == Expired(left.logs, RetentionCutoff(s.logs, now))
      codes == {c \in left.codes : c.at <= now}
  IN  [db |-> IF dryRun THEN db
              ELSE [left EXCEPT !.files = @ \ files, !.logs = @ \ logs, !.codes = @ \ codes],
       tickets |-> Cardinality(old), files |-> Cardinality(files), logs |-> Cardinality(logs), codes |-> Cardinality(codes)]

Preview(db, s, now) ==
  [tickets |-> Cardinality(ClosedBefore(db.tickets, RetentionCutoff(s.tickets, now))),
   files |-> Cardinality(Expired(db.files, RetentionCutoff(s.files, now))),
   logs |-> Cardinality(Expired(db.logs, RetentionCutoff(s.logs, now)))]

PurgeSays(db, s, now) ==
  LET dry == PurgeExpired(db, s, now, TRUE)
      real == PurgeExpired(db, s, now, FALSE)
      gone == {t.id : t \in db.tickets} \ {t.id : t \in real.db.tickets}
  IN  /\ dry.db = db
      /\ Preview(db, s, now) = [tickets |-> dry.tickets, files |-> dry.files, logs |-> dry.logs]
      /\ real.tickets = dry.tickets /\ real.tickets = Cardinality(gone)
      /\ real.logs = dry.logs /\ real.files <= dry.files
      /\ real.files < dry.files => \E f \in db.files : f.of \in gone
      \* No file or merge of what is left names a ticket that is gone.
      /\ \A f \in real.db.files : f.of \notin gone
      /\ \A t \in real.db.tickets : t.into \notin gone
      \* A second run finds nothing.
      /\ PurgeExpired(real.db, s, now, FALSE).db = real.db
=============================================================================
