------------------------------ MODULE AccessRules ------------------------------
(***************************************************************************)
(* Who may do what (access/): the permission catalogue and the system roles *)
(* seeded from it, the route-permission map, what a request's body adds to  *)
(* it, the enforcer, the two-factor gate and its limiter.                   *)
(*                                                                         *)
(* A path is its segments under the route prefix; "x" stands for an id.     *)
(***************************************************************************)
EXTENDS Naturals, Sequences, FiniteSets, SequencesExt

-----------------------------------------------------------------------------
(* The catalogue.  A slug is <<group, verb>>.                               *)

Verbs(group) ==
  CASE group = "ticket" -> {"view", "create", "edit", "delete", "assign", "merge", "close", "export"}
    [] group = "reply" -> {"create", "create_internal", "edit", "delete"}
    [] group = "kb" -> {"view", "create", "edit", "delete", "publish"}
    [] group = "department" -> {"view", "create", "edit", "delete"}
    [] group = "macro" -> {"view", "create", "manage"}
    [] group = "report" -> {"view", "export"}
    [] group = "audit" -> {"view"}
    [] group = "custom_object" -> {"view", "manage", "data"}
    [] group = "newsletters" -> {"manage", "send"}
    [] OTHER -> {"view", "manage"}

Groups == {"ticket", "reply", "kb", "department", "tag", "sla", "escalation", "automation", "macro", "custom_field",
           "role", "user", "report", "settings", "webhook", "api_token", "audit", "plugin", "custom_object", "newsletters"}

Permissions == UNION {{<<g, v>> : v \in Verbs(g)} : g \in Groups}

\* A pattern is a slug, a whole group or everything.
All == <<"*", "*">>
GroupOf(g) == <<g, "*">>

expand(patterns) ==
  {p \in Permissions : \/ All \in patterns \/ GroupOf(p[1]) \in patterns \/ p \in patterns}

SystemRoles ==
  [admin |-> {All},
   agent |-> {GroupOf("ticket"), GroupOf("reply"), <<"kb", "view">>, <<"report", "view">>, <<"macro", "view">>,
              <<"macro", "create">>, <<"tag", "view">>, <<"custom_field", "view">>, <<"audit", "view">>},
   light_agent |-> {<<"ticket", "view">>, <<"reply", "create">>, <<"reply", "create_internal">>, <<"kb", "view">>,
                    <<"macro", "view">>, <<"tag", "view">>}]
-----------------------------------------------------------------------------
(* The route map.  A segment of a pattern is a set of words, One ("*") or,  *)
(* last, Many ("**").                                                       *)

Verb == {"GET", "POST", "PUT", "PATCH", "DELETE"}
One == {"*"}
Many == {"**"}
W(word) == {word}
Adm == <<W("admin")>>
Agt == <<W("agent")>>
Staff == <<{"admin", "agent"}>>
Api == <<W("api")>>
Tickets(area) == area \o <<W("tickets")>>
Ticket(area) == Tickets(area) \o <<One>>

E(methods, pattern, slugs) == [methods |-> methods, pattern |-> pattern, slugs |-> slugs]
Get == {"GET"}
Post == {"POST"}
Save == {"PUT", "PATCH"}
View == {<<"ticket", "view">>}
Edit == {<<"ticket", "edit">>}
May(group, verb) == {<<group, verb>>}

\* The list and other reads want the group's view, forms and writes its
\* manage.
resource(word, group, reads) ==
  LET at == Adm \o <<W(word)>>
  IN  <<E(Get, at \o <<{"create", "new"}>>, May(group, "manage")),
        E(Get, at \o <<One, W("edit")>>, May(group, "manage"))>>
      \o [i \in 1..Len(reads) |-> E(Get, at \o reads[i], May(group, "view"))]
      \o <<E(Get, at, May(group, "view")),
           E(Verb, at, May(group, "manage")), E(Verb, at \o <<Many>>, May(group, "manage"))>>

PersonalRoutes ==
  LET enrolment == Adm \o <<W("settings"), W("two-factor")>>
  IN  <<E(Verb, enrolment, {}), E(Verb, enrolment \o <<Many>>, {})>>

TicketRoutes ==
  LET t == Ticket(Staff) IN
  <<E(Get, Agt, View), E(Get, Agt \o <<W("")>>, View),
    E(Post, Tickets(Staff) \o <<W("bulk")>>, View),
    E(Get, Tickets(Adm) \o <<W("merge-search")>>, View),
    E(Get, Adm \o <<W("agents"), W("search")>>, View),
    E(Get, Tickets(Staff), View), E(Get, t, View),
    E(Get, t \o <<{"links", "side-conversations"}>>, View),
    E(Post, t \o <<W("follow")>>, View),
    E(Post, Ticket(Agt) \o <<{"read", "unread"}>>, View),
    E({"PUT", "POST"}, Agt \o <<W("status")>>, {}),
    E(Get, Agt \o <<W("kb"), W("search")>>, May("kb", "view")),
    E(Get, Agt \o <<W("notifications")>>, {}),
    E(Post, Agt \o <<W("notifications"), W("read-all")>>, {}),
    E(Post, Agt \o <<W("notifications"), One, W("read")>>, {}),
    E(Post, Ticket(Adm) \o <<W("split")>>, May("ticket", "create")),
    E({"PUT"}, t, Edit),
    E(Post, t \o <<{"status", "priority", "tags", "department", "snooze", "unsnooze"}>>, Edit),
    E(Post, t \o <<W("replies"), One, W("pin")>>, Edit),
    E(Post, t \o <<W("actions"), One>>, Edit),
    E(Verb, t \o <<{"subjects", "links"}>>, Edit), E(Verb, t \o <<{"subjects", "links"}, One>>, Edit),
    E(Post, t \o <<W("assign")>>, May("ticket", "assign")),
    E(Post, Ticket(Adm) \o <<W("merge")>>, May("ticket", "merge")),
    E(Post, t \o <<W("macro")>>, May("macro", "view") \cup Edit),
    E(Post, Ticket(Agt) \o <<W("macros"), One, W("apply")>>, May("macro", "view") \cup Edit),
    E(Post, t \o <<{"reply", "replies"}>>, May("reply", "create")),
    E(Post, t \o <<W("note")>>, May("reply", "create_internal")),
    E(Post, t \o <<W("side-conversations")>>, May("reply", "create")),
    E(Post, t \o <<W("side-conversations"), Many>>, May("reply", "create")),
    E(Get, Agt \o <<W("macros")>>, May("macro", "view")),
    E(Get, Agt \o <<W("canned-responses")>>, View),
    E(Verb, Adm \o <<W("saved-views")>>, View), E(Verb, Adm \o <<W("saved-views"), Many>>, View)>>

ApiRoutes ==
  LET t == Ticket(Api) IN
  <<E(Get, Api \o <<{"tickets", "departments", "tags"}>>, View), E(Get, t, View),
    E(Post, Tickets(Api), May("ticket", "create")),
    E({"PATCH"}, t, Edit),
    E(Post, t \o <<W("replies")>>, May("reply", "create")),
    E(Post, t \o <<W("actions"), One>>, Edit),
    E(Verb, t \o <<W("subjects")>>, Edit), E(Verb, t \o <<W("subjects"), One>>, Edit),
    E(Verb, Api \o <<W("plugins"), Many>>, {}),
    E(Get, Agt \o <<W("chat"), Many>>, View),
    E(Post, Agt \o <<W("chat"), Many>>, May("reply", "create"))>>

AreaRoutes ==
  LET articles == <<W("kb-articles")>>
      both(slug, tail, methods) ==
        <<E(methods, Adm \o <<{"kb-articles", "kb-categories"}>> \o tail, slug),
          E(methods, Adm \o <<W("kb"), {"articles", "categories"}>> \o tail, slug)>>
      either(dashed, word, tail, methods, slug) ==
        <<E(methods, Adm \o <<W(dashed)>> \o tail, slug), E(methods, Adm \o <<W("kb"), W(word)>> \o tail, slug)>>
      dept == Adm \o <<W("departments")>>
      records == Adm \o <<W("custom-objects"), One, W("records")>>
  IN  <<E(Get, Adm \o <<W("reports")>>, May("report", "view")),
        E(Get, Adm \o <<W("reports"), Many>>, May("report", "view")),
        E(Get, Adm \o articles \o <<W("create")>>, May("kb", "create")),
        E(Get, Adm \o articles \o <<One, W("edit")>>, May("kb", "edit"))>>
      \o both(May("kb", "view"), <<>>, Get)
      \o <<E(Get, Adm \o <<W("kb"), W("articles"), One>>, May("kb", "view"))>>
      \o either("kb-articles", "articles", <<>>, Post, May("kb", "create")) \o either("kb-articles", "articles", <<One>>, Save, May("kb", "edit"))
      \o either("kb-categories", "categories", <<>>, Post, May("kb", "edit")) \o either("kb-categories", "categories", <<One>>, Save, May("kb", "edit"))
      \o both(May("kb", "delete"), <<One>>, {"DELETE"})
      \o <<
        E(Get, dept \o <<W("create")>>, May("department", "create")),
        E(Get, dept \o <<One, W("edit")>>, May("department", "edit")),
        E(Get, dept, May("department", "view")),
        E(Post, dept, May("department", "create")),
        E(Save, dept \o <<One>>, May("department", "edit")),
        E({"DELETE"}, dept \o <<One>>, May("department", "delete")),
        E(Get, Adm \o <<W("macros")>>, May("macro", "view")),
        E(Post, Adm \o <<W("macros")>>, May("macro", "create")),
        E(Verb, Adm \o <<W("macros"), Many>>, May("macro", "manage")),
        E(Get, records, May("custom_object", "view")),
        E(Verb, records, May("custom_object", "data")), E(Verb, records \o <<Many>>, May("custom_object", "data"))>>
      \o resource("custom-objects", "custom_object", <<>>)

PlainResources ==
  << <<"roles", "role">>, <<"sla-policies", "sla">>, <<"business-hours", "sla">>, <<"escalation-rules", "escalation">>,
     <<"automations", "automation">>, <<"tags", "tag">>, <<"custom-fields", "custom_field">>, <<"statuses", "settings">>,
     <<"skills", "user">>, <<"capacity", "user">>, <<"api-tokens", "api_token">>, <<"canned-responses", "macro">> >>

AdminRoutes ==
  LET plugins == Adm \o <<W("plugins")>>
      settings == Adm \o <<W("settings")>>
  IN  <<E(Get, Adm \o <<W("users")>>, May("user", "view")),
        E({"PATCH"}, Adm \o <<W("users"), One, W("role")>>, May("user", "manage")),
        E({"PUT"}, Adm \o <<W("users"), One, W("roles")>>, May("role", "manage")),
        E(Get, Adm \o <<W("audit-log")>>, May("audit", "view")),
        E(Get, plugins, May("plugin", "view")), E(Get, plugins \o <<One, Many>>, {}),
        E(Verb, plugins, May("plugin", "manage")), E(Verb, plugins \o <<Many>>, May("plugin", "manage"))>>
      \o FlattenSeq([i \in DOMAIN PlainResources |-> resource(PlainResources[i][1], PlainResources[i][2], <<>>)])
      \o resource("workflows", "automation", << <<W("logs")>>, <<One, W("logs")>> >>) \o resource("webhooks", "webhook", << <<One, W("deliveries")>> >>)
      \o <<E(Verb, Adm \o <<W("import")>>, May("settings", "manage")),
           E(Verb, Adm \o <<W("import"), Many>>, May("settings", "manage")),
           E(Post, Adm \o <<W("data-retention"), W("purge")>>, May("settings", "manage")),
           E(Get, settings, May("settings", "view")), E(Get, settings \o <<Many>>, May("settings", "view")),
           E(Verb, settings, May("settings", "manage")), E(Verb, settings \o <<Many>>, May("settings", "manage")),
           E(Verb, Adm \o <<W("newsletters")>>, May("newsletters", "manage")),
           E(Verb, Adm \o <<W("newsletters"), Many>>, May("newsletters", "manage"))>>

RoutePermissions == PersonalRoutes \o TicketRoutes \o ApiRoutes \o AreaRoutes \o AdminRoutes

\* normalize(): empty segments go, but the agent dashboard's last one.
normalize(path) ==
  LET words == SelectSeq(path, LAMBDA w : w # "")
  IN  IF words = <<"agent">> /\ path[Len(path)] = "" THEN <<"agent", "">> ELSE words

\* Admin, agent and staff API routes; not the API of customers and guests.
Governed(path) ==
  LET p == normalize(path)
  IN  /\ p # <<>>
      /\ \/ p[1] \in {"admin", "agent"}
         \/ p[1] = "api" /\ Len(p) > 1 /\ ~(Len(p) > 2 /\ p[2] \in {"auth", "guest", "mobile", "kb"})

compile(pattern, path) ==
  LET n == Len(pattern)
      word(i) == IF pattern[i] \in {One, Many} THEN path[i] # "" ELSE path[i] \in pattern[i]
  IN  /\ IF pattern[n] = Many THEN Len(path) >= n ELSE Len(path) = n
      /\ \A i \in 1..n : word(i)

Matching(method, path) ==
  {i \in DOMAIN RoutePermissions :
     /\ (IF method = "HEAD" THEN "GET" ELSE method) \in RoutePermissions[i].methods
     /\ compile(RoutePermissions[i].pattern, normalize(path))}

First(is) == CHOOSE i \in is : \A j \in is : i <= j

\* The slugs of the first entry that matches.
Mapped(method, path) == RoutePermissions[First(Matching(method, path))].slugs
-----------------------------------------------------------------------------
(* Enforcement.  A request has a method, a path, a body (the bulk action, the *)
(* status asked for, whether a reply is internal), a user (Nobody when not    *)
(* signed in) and that user's permissions.                                    *)

Nobody == "nobody"
ClosingStatuses == {"resolved", "closed", "reopened"}

BulkActions(action) ==
  CASE action \in {"status", "priority", "tags", "department"} -> Edit
    [] action = "assign" -> May("ticket", "assign")
    [] action = "delete" -> May("ticket", "delete")
    [] OTHER -> {}

\* A configured switch wins over its environment variable.
flag(configured, env) == IF configured # "unset" THEN configured = "on" ELSE env \in {"on", "yes", "true", "1"}

closing(status) == IF status \in ClosingStatuses THEN May("ticket", "close") ELSE {}

Bulk(path) == compile(Tickets(Staff) \o <<W("bulk")>>, normalize(path))
Replies(method, path) ==
  method = "POST" /\ compile(<<{"admin", "agent", "api"}, W("tickets"), One, W("replies")>>, normalize(path))

\* Fault: what an edit sets the status to is not looked at.
RequiredByRoute(q) == Mapped(q.method, q.path)

required(q) ==
  LET slugs == Mapped(q.method, q.path)
  IN  IF Bulk(q.path)
      THEN slugs \cup BulkActions(q.action) \cup (IF q.action = "status" THEN closing(q.status) ELSE {})
      ELSE IF Replies(q.method, q.path)
           THEN IF q.internal THEN May("reply", "create_internal") ELSE slugs
           ELSE IF Edit \subseteq slugs THEN slugs \cup closing(q.status) ELSE slugs

\* The user's roles grant what they grant together.
PermissionsOf(roles) == UNION {expand(SystemRoles[r]) : r \in roles}

\* What the enforcer says to a request: "served", or refused.
Enforce(q) ==
  IF ~q.on \/ ~Governed(q.path) THEN "served"
  ELSE IF q.user = Nobody THEN "refused"
  ELSE IF Matching(q.method, normalize(q.path)) = {} THEN "refused"
  ELSE IF required(q) \subseteq PermissionsOf(q.roles) THEN "served" ELSE "refused"

\* What the pages are told: "*" for staff while roles are off.
shared(q) ==
  IF ~q.on THEN (IF q.staff THEN {All} ELSE {})
  ELSE IF q.user = Nobody THEN {} ELSE PermissionsOf(q.roles)

Allows(q, slug) == ~q.on \/ slug \in shared(q)

\* A ticket is closed, noted on and deleted only by those whose roles say so,
\* on the edit routes and the bulk route alike (a macro that closes a ticket
\* needs macro.view and ticket.edit only); who has no role reaches no more than
\* the routes of every staff user; and a page offers what is then served.
EnforceSays(q) ==
  LET served == Enforce(q) = "served"
      may(g, v) == <<g, v>> \in PermissionsOf(q.roles)
      edits == IF Bulk(q.path) THEN q.action = "status" ELSE Edit \subseteq Mapped(q.method, q.path)
  IN  q.on /\ Governed(q.path) /\ Matching(q.method, normalize(q.path)) # {} =>
        /\ served => q.user # Nobody
        /\ served /\ edits /\ q.status \in ClosingStatuses => may("ticket", "close") /\ may("ticket", "edit")
        /\ served /\ Bulk(q.path) /\ q.action = "delete" => may("ticket", "delete")
        /\ Replies(q.method, q.path) /\ q.internal => (served <=> q.user # Nobody /\ may("reply", "create_internal"))
        /\ served /\ q.roles = {} => Mapped(q.method, q.path) = {}
        /\ q.user # Nobody => (served <=> \A slug \in required(q) : Allows(q, slug))

\* Some request of every entry's own is decided by it: no entry comes after
\* one that takes all its requests.  And its slugs exist.
EntrySays(i) ==
  LET entry == RoutePermissions[i]
      at(k) == IF entry.pattern[k] \in {One, Many} THEN {"x"} ELSE entry.pattern[k]
      own == {p \in [1..Len(entry.pattern) -> UNION {at(k) : k \in DOMAIN entry.pattern}] :
                \A k \in DOMAIN p : p[k] \in at(k)}
  IN  /\ entry.slugs \subseteq Permissions
      /\ \E m \in entry.methods, p \in own : First(Matching(m, p)) = i
-----------------------------------------------------------------------------
(* The two-factor gate, which runs before the enforcer.  A request carries    *)
(* the pass mark its session was given, if any: for whom and which session.   *)

EnrolmentPath == <<"admin", "settings", "two-factor">>
ChallengePath == <<"two-factor", "challenge">>

Passed(q) == q.mark = [user |-> q.user, session |-> q.session]

Enrolling(path) ==
  LET p == normalize(path)
  IN  Len(p) >= Len(EnrolmentPath) /\ SubSeq(p, 1, Len(EnrolmentPath)) = EnrolmentPath

\* Where a request goes: to the handler, or to a page to be seen first.
Gate(q) ==
  IF ~q.twoFactor \/ ~Governed(q.path) \/ q.token \/ q.user = Nobody THEN "served"
  ELSE IF q.confirmed THEN IF Passed(q) THEN "served" ELSE "challenge"
  ELSE IF ~Enrolling(q.path) /\ q.required /\ q.staff THEN "enrol" ELSE "served"

To(answer) == IF answer = "challenge" THEN ChallengePath ELSE EnrolmentPath

\* Who has enrolled gets nowhere without the mark of this session, nobody is
\* let in by another's, and wherever a request is sent can be seen.
GateSays(q) ==
  /\ q.twoFactor /\ Governed(q.path) /\ ~q.token /\ q.user # Nobody /\ q.confirmed /\ Gate(q) = "served" =>
       q.mark.user = q.user /\ q.mark.session = q.session
  /\ Gate(q) # "served" => Gate([q EXCEPT !.path = To(Gate(q))]) = "served"
  /\ Gate(q) = "enrol" => Enforce([q EXCEPT !.path = EnrolmentPath, !.method = "GET"]) = "served"

\* The limiter of challenge attempts: at most limit in any minute.  hits are
\* the times of those let through.
allow(hits, now, limit, minute) ==
  LET recent == SelectSeq(hits, LAMBDA t : now - t < minute)
  IN  IF Len(recent) >= limit THEN [ok |-> FALSE, hits |-> recent]
      ELSE [ok |-> TRUE, hits |-> Append(recent, now)]

\* The answers to attempts at the given times, in order.
Answers(times, limit, minute) ==
  LET after[n \in 0..Len(times)] ==
        IF n = 0 THEN [ok |-> TRUE, hits |-> <<>>] ELSE allow(after[n - 1].hits, times[n], limit, minute)
  IN  [n \in DOMAIN times |-> after[n].ok]

\* An attempt is refused exactly when limit attempts were let through in the
\* minute before it.
LimiterSays(times, limit, minute) ==
  LET ok == Answers(times, limit, minute)
  IN  \A n \in DOMAIN times :
        ok[n] <=> Cardinality({k \in 1..(n - 1) : ok[k] /\ times[n] - times[k] < minute}) < limit
=============================================================================
