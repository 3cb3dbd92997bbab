------------------------------- MODULE MCRules -------------------------------
(***************************************************************************)
(* The pure rules, each against what it means, over bounded inputs: a state *)
(* is one question put to one rule.                                         *)
(***************************************************************************)
EXTENDS Integers, Sequences, FiniteSets, TLC

VARIABLES rule, in
vars == <<rule, in>>

Plugin == INSTANCE PluginRules
Access == INSTANCE AccessRules
Routes == INSTANCE RouteMounts
Schema == INSTANCE Schema
Report == INSTANCE Reports
Field == INSTANCE FieldRules
Lists == INSTANCE TicketLists
Desk == INSTANCE DeskTables
Flow == INSTANCE WorkflowRules
Hours == INSTANCE BusinessHours
Routing == INSTANCE RoutingRules

Ask(r, inputs) == rule = r /\ in \in inputs
-----------------------------------------------------------------------------
(* plugins/                                                                 *)

Star(s) == [kind |-> "star", a |-> 0, b |-> 0, step |-> s]
One(a, s) == [kind |-> "one", a |-> a, b |-> a, step |-> s]
Rng(a, b, s) == [kind |-> "range", a |-> a, b |-> b, step |-> s]

DayFields == {{Star(0)}, {Star(2)}, {One(1, 0)}, {One(5, 10)}, {Rng(1, 5, 2)}, {One(2, 0), Rng(5, 7, 1)}, {One(3, 0), Star(0)}}
WeekFields == {{Star(0)}, {Star(3)}, {One(7, 0)}, {One(0, 0)}, {Rng(5, 7, 1)}, {One(1, 2)}, {One(2, 0), Star(0)}}
MinuteFields == {{Star(0)}, {One(7, 20)}, {Rng(0, 10, 5), One(59, 0)}}

CronInputs ==
  [minute : MinuteFields, day : DayFields, week : WeekFields,
   at : {<<m, 0, d, 1, w>> : m \in {0, 5, 7, 27}, d \in {1, 2, 5, 15}, w \in {0, 1, 5, 6}}]

\* A plugin's schedule is due in the minutes cron(5) says, and no other.
CronAgrees ==
  rule = "cron" =>
    LET expr == <<in.minute, {Star(0)}, in.day, {Star(0)}, in.week>>
    IN  Plugin!cronDue(expr, in.at) <=> Plugin!CronSays(expr, in.at)

Num(n) == Plugin!Num(n)
Cells == {Plugin!Null, Num(1), Num(2), Plugin!Str(1), Plugin!Lst(<<Num(1), Num(2)>>)}
Conditions == {[field |-> "a", op |-> o, value |-> v] :
                 o \in {"=", "$ne", "$in", "$nin", "$gt", "$lte"},
                 v \in {Num(1), Plugin!Str(1), Plugin!Null, Plugin!Lst(<<Num(1)>>)}}

StoreInputs ==
  [cells : [1..3 -> Cells], filter : {{}} \cup {{c} : c \in Conditions}, desc : BOOLEAN, limit : {0, 1, 2, 5}]

\* A store query returns the matching records that come first, in order, and
\* as many as the limit allows.
StoreAgrees ==
  rule = "store" =>
    LET rows == [i \in 1..3 |-> [id |-> i, a |-> in.cells[i], b |-> in.cells[(i % 3) + 1]]]
        opts == [orderBy |-> "b", desc |-> in.desc, limit |-> in.limit]
    IN  Plugin!QuerySays(rows, in.filter, opts, Plugin!query(rows, in.filter, opts))

FilterInputs ==
  [native : UNION {[1..n -> [p : 1..3, fails : BOOLEAN]] : n \in 0..2},
   sdk : UNION {[1..n -> 1..3] : n \in 0..2}, fails : BOOLEAN]

ReplyInputs ==
  [envelope : BOOLEAN, status : {100, 204, 600}, text : BOOLEAN, stringBody : BOOLEAN,
   headers : SUBSET {[name |-> n, v |-> v] : n \in {"x-a", "X-A", "Set-Cookie"}, v \in {1, 2}}]

Pages == [menu : {"none", "admin", "agent"}, route : {"", "r", "s"}, component : BOOLEAN, capability : {"none", "c"}]
PageInputs == [pages : [1..2 -> Pages], viewer : [admin : BOOLEAN, caps : {{}, {"c"}}]]

CreateInputs ==
  [{"subject", "priority", "type", "department", "metadata", "contact", "status"} -> {"absent", "good", "bad"}]

UpdateInputs == [{"type", "details", "priority", "status", "department", "metadata"} -> {"absent", "good", "bad"}]

Segments == {"", "a", ":"}
Paths == UNION {[1..n -> {"", "a", "b"}] : n \in 1..2}
RouteInputs ==
  [routes : [1..2 -> [method : {"GET"}, segments : UNION {[1..n -> Segments] : n \in 1..2}]], path : Paths]

RowsInputs ==
  [cells : [1..3 -> [x : {1, 2}, y : {1, 2}]],
   filter : UNION {[ks -> {1, 2}] : ks \in SUBSET {"x", "y", "z"}}, max : {1, 2, 5}]

\* Filters run once each in the order of their priorities; what is sent on of
\* a plugin's answer is a valid reply; a menu leads to pages its viewer may
\* open; a refused ctx.tickets.create leaves a ticket only when it was the
\* status that was refused; a route serves the paths it is a pattern of; and a
\* query ignores no key.
AnswersAgree ==
  /\ rule = "filter" => Plugin!FilterSays(in.native, in.sdk, in.fails, Plugin!ApplyFilter(in.native, in.sdk, in.fails))
  /\ rule = "reply" => Plugin!ReplySays(in, Plugin!makeReply(in))
  /\ rule = "page" => Plugin!LinksOpen(in.pages, in.viewer)
  /\ rule = "create" => Plugin!CreateSays(in)
  /\ rule = "update" => Plugin!UpdateSays(in)
  /\ rule = "route" =>
       Plugin!RouteSays(in.routes, "GET", in.path, {"", "a", "b"}, Plugin!matchRoute(in.routes, "GET", in.path))
  /\ rule = "rows" =>
       LET rows == {[id |-> i, x |-> in.cells[i].x, y |-> in.cells[i].y] : i \in 1..3}
       IN  Plugin!QueryRowsSays(rows, in.filter, {"x", "y"}, in.max, Plugin!QueryRows(rows, in.filter, {"x", "y"}, in.max))
-----------------------------------------------------------------------------
(* access/                                                                  *)

EntryInputs == DOMAIN Access!RoutePermissions

GovernedPaths ==
  {<<a, "tickets", "bulk">> : a \in {"admin", "agent"}}
    \cup {<<a, "tickets", "x", w>> : a \in {"admin", "agent", "api"}, w \in {"replies", "status", "links"}}
    \cup {<<"api", "tickets", "x">>, <<"agent", "tickets", "x">>, <<"agent", "">>, <<"agent", "", "">>, <<"admin", "", "users">>,
          <<"admin", "settings", "two-factor">>, <<"admin", "plugins", "x", "y">>, <<"admin", "nothing">>, <<"api", "kb", "x">>}

RoleSets == {{}, {"light_agent"}, {"agent"}, {"admin"}, {"light_agent", "agent"}}

EnforceInputs ==
  [on : BOOLEAN, method : {"GET", "HEAD", "POST", "PUT", "PATCH"}, path : GovernedPaths, user : {"u1", Access!Nobody}, staff : {TRUE},
   roles : RoleSets, action : {"", "status", "delete", "assign"}, status : {"", "open", "closed"}, internal : BOOLEAN]

GateInputs ==
  [on : BOOLEAN, method : {"POST"}, path : GovernedPaths, user : {"u1", Access!Nobody}, staff : BOOLEAN, roles : {{}, {"agent"}},
   action : {""}, status : {""}, internal : {FALSE}, twoFactor : BOOLEAN, token : BOOLEAN, confirmed : BOOLEAN, required : BOOLEAN,
   session : {1}, mark : [user : {"u1", "u2"}, session : {1, 2}]]

Ordered(times) == \A i \in 1..(Len(times) - 1) : times[i] <= times[i + 1]
LimiterInputs == {times \in [1..5 -> 0..6] : Ordered(times)}

\* No entry of the route map is dead; who closes, deletes or notes may; the
\* two-factor gate holds who enrolled and sends nobody in circles; and the
\* challenge admits so many attempts a minute.
GatesAgree ==
  /\ rule = "entry" => Access!EntrySays(in)
  /\ rule = "enforce" => Access!EnforceSays(in)
  /\ rule = "gate" => Access!GateSays(in)
  /\ rule = "limiter" => Access!LimiterSays(in, 2, 3)
-----------------------------------------------------------------------------
(* router/                                                                  *)

Flags == SUBSET {"ui", "newsletters", "database"}
AllFlags == {"ui", "newsletters", "database"}
Mounted == Routes!Stdlib(AllFlags) \cup Routes!Chi(AllFlags)
Filled(p, w) == [i \in DOMAIN p |-> IF p[i] \in {"*", "**"} THEN w ELSE p[i]]

RequestInputs ==
  UNION {{[method |-> m, path |-> Filled(r.path, w)] : m \in {r.method, "GET"} \ {"ANY"}, w \in {"x", "new", "create", "lists", "edit"}} :
           r \in Mounted}

Sites ==
  [prefix : {<<"support">>, <<"a", "b">>}, embed : {<<"admin", "support">>, <<"support", "desk">>}, on : BOOLEAN, iframe : BOOLEAN,
   replace : BOOLEAN]

\* No two routes conflict; both routers answer a request alike and every named
\* route; a staff route has its permissions; and an embedded admin page is
\* reached at one address, through a gate.
RoutesAgree ==
  /\ rule = "mount" => Routes!Registers(in)
  /\ rule = "request" => Routes!SameOnBoth(AllFlags, in.method, in.path)
  /\ rule = "named" => Routes!NamedIsServed(AllFlags, in)
  /\ rule = "embed" => Routes!EmbedSays(in.site, in.route)
  /\ rule = "staff" => Access!Governed(Filled(in.path, "x")) /\ Access!Matching(in.method, Filled(in.path, "x")) # {}
-----------------------------------------------------------------------------
(* migrations/ and the data service's rules                                 *)

SeededInputs == SUBSET {[slug |-> "open", category |-> "open", position |-> 0, system |-> TRUE],
                        [slug |-> "live", category |-> "solved", position |-> 0, system |-> FALSE],
                        [slug |-> "other", category |-> "pending", position |-> 0, system |-> FALSE]}

PurgeInputs ==
  [tickets : [1..2 -> [closed : BOOLEAN, at : {0, 5, 9}, into : {0, 1}]], files : [1..2 -> [of : 1..2, at : {5, 9}]],
   logs : {{}, {5, 9}}, codes : {{}, {9, 10}}, s : [tickets : {"never", "short", "long"}, files : {"unknown", "long"}, logs : {"never", "long"}]]

Purged(i) ==
  [tickets |-> {i.tickets[k] @@ [id |-> k] : k \in 1..2}, files |-> {i.files[k] @@ [id |-> k] : k \in 1..2},
   logs |-> {[id |-> k, at |-> k] : k \in i.logs}, codes |-> {[id |-> k, at |-> k] : k \in i.codes}]

(* handlers/report*.go. It is the 200th hour; a report is of two days.       *)
Reported(t, k) ==
  [id |-> k, at |-> t.at, agent |-> t.agent, policy |-> IF t.sla > 0 THEN 1 ELSE 0, flag |-> t.sla = 2,
   firstDue |-> IF t.sla = 0 THEN 0 ELSE t.at + 4,
   due |-> IF t.sla = 0 THEN 0 ELSE t.at + 24, first |-> IF t.answer = 0 THEN 0 ELSE t.at + t.answer - 1,
   resolved |-> IF t.answer = 0 THEN 0 ELSE t.at + 3 * (t.answer - 1), dept |-> k % 2, open |-> t.answer = 0, tags |-> {1, t.agent}]
ReportInputs ==
  [tickets : [1..2 -> [at : {200, 190, 152, 151}, agent : 0..2, sla : 0..2, answer : {0, 2, 7}]],
   rated : {0, 2}, days : {2}]
    \cup [tickets : [1..2 -> [at : {2400, 2300, 250, 200}, agent : {1}, sla : {0}, answer : {0}]], rated : {0}, days : {88, 89, 100}]
ReportTickets(i) == {Reported(i.tickets[k], k) : k \in 1..2}
ReportNow(i) == IF i.days = 2 THEN 200 ELSE 2400
ReportRatings(i) == {[ticket |-> k, score |-> k + 3, at |-> ReportNow(i) - 20 * k] : k \in 1..i.rated}
NumberInputs == UNION {[1..n -> {0, 1, 3, 4, 23, 24, 30, 200}] : n \in 1..4}
ScoreInputs == [rate : {0, 333, 500, 1000}, frt : {-1, 0, 1, 20, 240, 300}, res : {-1, 0, 5, 400, 720, 800}, csat : {-1, 0, 10, 34, 50}]

(* Custom fields and statuses.                                              *)
Raws == {Field!Nil, Field!Num("1"), Field!Bool(FALSE), Field!List(<<>>), Field!List(<<Field!Str("red")>>), Field!List(<<Field!Str("red"), Field!Str("x")>>)}
          \cup {Field!Str(s) : s \in Field!Texts}
Fields(slug, types) ==
  [slug : {slug}, type : types, options : {{"red", "blue"}}, required : BOOLEAN, active : BOOLEAN, context : {"ticket", "user"}]
FieldInputs == [f : Fields("a", Field!TicketFieldTypes), raw : Raws]
ValueInputs ==
  [fields : {{f, g} : f \in Fields("a", {"number", "select"}), g \in Fields("b", {"multi_select"})},
   input : UNION {[ks -> {Field!Nil, Field!Str("1"), Field!Str("red"), Field!List(<<Field!Str("red")>>)}] : ks \in SUBSET {"a", "b", "c"}},
   creating : BOOLEAN, held : SUBSET {"a", "b"}]
FormInputs ==
  [in : UNION {[ks -> {Field!Str("select"), Field!Str("ticket"), Field!Str(""), Field!List(<<Field!Str("x"), Field!Str("x"), Field!Str("")>>),
                       Field!List(<<Field!Num("1")>>)}] :
                 ks \in {{"name", "type", "context"}, {"name", "type", "context", "options"}, {"name", "type", "context", "required"}}},
   f : [options : {<<>>, <<"x">>}, required : BOOLEAN, active : {TRUE}]]
RecordInputs ==
  [schema : [1..2 -> [name : {"x"}, type : {"text", "number", "select"}, required : BOOLEAN, options : {{"red"}}]],
   data : UNION {[ks -> Raws] : ks \in SUBSET {"x", "y"}}]
ReorderInputs == UNION {[1..n -> [id : 1..3, position : {-1, 0, 7}]] : n \in 0..3}
StatusInputs ==
  [in : [{"label", "category", "color"} -> {Field!Str("red"), Field!Str("open"), Field!Str(""), Field!Str("solved"), Field!Nil}],
   st : [system : BOOLEAN, category : {"open", "new"}, default : BOOLEAN]]
ListInputs == UNION {[1..n -> [position : 0..1, category : {"new", "open", "solved", "other"}]] : n \in 0..3}

\* The migrations run in order, and every upsert has its unique key; a delete
\* leaves nothing pointing at what it deleted but what is listed; seeding
\* twice is seeding once; and a purge deletes what its preview counts. Values
\* of custom fields are kept as they were meant, for the fields that take them.
RowsAgree ==
  /\ rule = "schema" => Schema!InOrder /\ Schema!Upserted
  /\ rule = "delete" => Schema!DeleteSays(in[1], in[2])
  /\ rule = "seed" => Schema!SeedSays(in)
  /\ rule = "report" => /\ Report!ReportSays(ReportTickets(in), ReportRatings(in), in.days, ReportNow(in))
                        /\ Report!DetailSays(ReportTickets(in), {[by |-> 1, at |-> t.at + 1] : t \in ReportTickets(in)}, 1, in.days, ReportNow(in))
  /\ rule = "numbers" => Report!NumbersSay(in)
  /\ rule = "score" => Report!ScoreSays(in.rate, in.frt, in.res, in.csat)
  /\ rule = "purge" => Schema!PurgeSays(Purged(in), in.s, 10)
  /\ rule = "field" => Field!FieldSays(in.f, in.raw)
  /\ rule = "values" =>
       LET old == [s \in in.held |-> Field!Str("red")]
       IN  Field!ValuesSay(in.fields, in.input, in.creating, old) /\ Field!ShownSays(in.fields, in.input)
  /\ rule = "form" => Field!FormSays(in.in, in.f)
  /\ rule = "record" => Field!RecordSays(in.schema, in.data)
  /\ rule = "reorder" => Field!ReorderSays(in, {1, 2})
  /\ rule = "status" => Field!StatusSays(in.in, in.st)
  /\ rule = "list" => Field!ListSays(in)
-----------------------------------------------------------------------------
(* The lists of tickets. It is the tenth hour.                              *)

Listed(k, status, assigned, priority, breached, h) ==
  [id |-> k, status |-> status, custom |-> IF k = 1 THEN "vip" ELSE "", priority |-> priority, type |-> "question", dept |-> "d1", assigned |-> assigned,
   requester |-> "c1", account |-> <<"org", "1">>, breached |-> breached, subject |-> IF k = 2 THEN "red" ELSE "blue", description |-> "blue",
   reference |-> "x", firstAt |-> IF h = 9 THEN 9 ELSE 0, firstDue |-> h + 2, due |-> IF h = 3 THEN 0 ELSE h + 8,
   resolvedAt |-> IF status = "resolved" THEN h ELSE 0, updatedAt |-> h, createdAt |-> h, customerAt |-> IF k = 3 THEN 0 ELSE h]
TheTickets ==
  {Listed(1, "open", "u1", "urgent", FALSE, 9), Listed(2, "resolved", "u1", "low", TRUE, 9), Listed(3, "waiting_on_agent", "u1", "low", FALSE, 3),
   Listed(4, "open", Lists!Nil, "urgent", TRUE, 3), Listed(5, "snoozed", Lists!Nil, "critical", FALSE, 9), Listed(6, "resolved", "u2", "low", FALSE, 3)}
Worlds ==
  {[tickets |-> TheTickets, reads |-> r, now |-> 10, custom |-> {"vip"}] :
     r \in {{}, {[user |-> "u1", ticket |-> 1, at |-> 9], [user |-> "u1", ticket |-> 3, at |-> 0], [user |-> "u2", ticket |-> 2, at |-> 9]}}}

FilterValues ==
  [account |-> <<"org", "1">>, status |-> "open", custom |-> "vip", priority |-> "urgent", type |-> "question", dept |-> "d1", assigned |-> "u1",
   requester |-> "c1", unassigned |-> TRUE, breached |-> TRUE, search |-> "red", open |-> TRUE, atRisk |-> 11, resolvedSince |-> 8,
   updatedSince |-> 8, unreadFor |-> "u1"]
TicketFilters ==
  {[k \in ks |-> FilterValues[k]] : ks \in {x \in SUBSET DOMAIN FilterValues : Cardinality(x) <= 3}}
    \cup {[account |-> <<"org", "">>], [search |-> "nothing", unreadFor |-> "u2", updatedSince |-> 1], [breached |-> FALSE, open |-> FALSE]}
Queries ==
  {[k \in ks |-> CASE k = "assigned" -> v [] k = "assignedAs" -> "me" [] k = "status" -> s [] k = "view" -> w [] OTHER -> "1"] :
     ks \in {x \in SUBSET {"assigned", "assignedAs", "status", "view", "unassigned", "atRisk"} : Cardinality(x) <= 2}, v \in {"me", "u1", "u2"}, s \in {"open", "vip", "nothing"},
     w \in {"urgent", "7", "9"}}
SavedInputs == {<<>>, <<[id |-> "7", filters |-> [assignedAs |-> "me", status |-> "open"]]>>,
                <<[id |-> "7", filters |-> [assigned |-> "u2", priority |-> "low"]], [id |-> "9", filters |-> [status |-> "vip"]]>>}
ListsInputs == [f : TicketFilters, world : Worlds]
Boarded(k, t) == [Listed(k, t.status, t.assigned, t.priority, t.breached, 9) EXCEPT !.createdAt = k]
DashboardInputs ==
  [tickets : [1..3 -> [status : {"open", "resolved"}, assigned : {"u1", Lists!Nil}, priority : {"urgent", "critical"}, breached : BOOLEAN]],
   attention : {1, 2}, tile : {1, 2}]
InboxInputs == [world : Worlds, q : Queries, uid : {"u1", Lists!Nil}, saved : SavedInputs]

\* Both dialects list the tickets a filter means; every number of the inbox is
\* what its list shows; and the dashboard's tiles show the newest open tickets
\* of the newest listed, counted by its stats.
InboxAgrees ==
  /\ rule = "tickets" => Lists!ListSays(in.f, in.world)
  /\ rule = "inbox" => Lists!InboxSays(in.world, in.q, in.uid, in.saved)
  /\ rule = "dashboard" =>
       Lists!DashboardSays([tickets |-> {Boarded(k, in.tickets[k]) : k \in 1..3}, reads |-> {}, now |-> 10, custom |-> {}], "u1", in.attention, in.tile)
-----------------------------------------------------------------------------
(* The stores' tables.                                                      *)

TableInputs == UNION {{<<t, c>> : c \in Desk!Columns(t)} : t \in Desk!Tables}
BuilderInputs ==
  UNION {[f : {[k \in ks |-> <<k = "is_internal">>] : ks \in SUBSET {"is_internal", "is_system", "is_pinned"}},
          row : [{"is_internal", "is_system", "is_pinned"} -> BOOLEAN], of : {"replies"}],
         [f : {[k \in ks |-> CASE k = "active" -> <<"waiting", "active">> [] k = "status" -> <<"active">> [] OTHER -> <<"a">>] :
                 ks \in SUBSET {"active", "status", "agent_id"}},
          row : [status : {"waiting", "active", "ended"}, agent_id : {"a", "b"}], of : {"sessions"}],
         [f : {[k \in ks \cup {"newsletter_id"} |-> CASE k = "newsletter_id" -> <<1>> [] k = "status" -> <<"sent">> [] OTHER -> <<>>] :
                 ks \in SUBSET {"status", "is_test"}},
          row : [newsletter_id : {1, 2}, status : {"sent", "failed"}, is_test : BOOLEAN], of : {"deliveries"}]}
ReferenceInputs == [given : {Desk!Nil, "r1"}, draws : [1..3 -> {"r1", "r2", "r3"}], taken : SUBSET {"r1", "r2", "r3"}, fails : {{}, {1}, {2}}]
TagInputs ==
  [db : [tags : {{}, {[id |-> 1, name |-> 2]}, {[id |-> 1, name |-> 2], [id |-> 2, name |-> 1]}}, pairs : SUBSET ({5, 6} \X {1, 2})], tag : {1, 2},
   unpairs : BOOLEAN]
ViewInputs == [views : [1..3 -> [user_id : {"u1", "u2"}, is_shared : BOOLEAN, position : 0..1]], user : {"u1", "u2"}]
RepliesInputs ==
  [db : [replies : SUBSET ({[ticket_id |-> t, created_at |-> a] : t \in {5, 6}, a \in {1, 2}}), tickets : {{[id |-> 5, updated_at |-> 1], [id |-> 6, updated_at |-> 2]}}],
   touches : BOOLEAN]
PolicyInputs ==
  [policies : [1..2 -> [is_default : BOOLEAN, is_active : BOOLEAN, department_id : {Desk!Nil, "d1"}, ticket_type : {Desk!Nil}]],
   rules : [1..3 -> [is_active : {TRUE}, department_id : {"d1", "d2", Desk!Nil}, priority : 0..1]]]
RelatedInputs == [1..3 -> [merged : 0..3, split : 0..3]]
Links == [id : {0}, ticket : {5, 6}, subject : {"a", "b"}, role : {"r"}, position : {0, 2}]
SubjectInputs ==
  [links : {{}} \cup {{[l EXCEPT !.id = 1]} : l \in Links} \cup {{[l EXCEPT !.id = 1], [m EXCEPT !.id = 2]} :
                                                                     l \in {k \in Links : k.ticket = 6 \/ k.subject = "b"},
                                                                     m \in {k \in Links : k.ticket = 5 /\ k.subject = "a"}},
   refs : UNION {[1..n -> [subject : {"a", "b", "c"}, role : {"r", "s"}]] : n \in 1..2}, allowed : {{}, {"a", "b"}}, enforce : BOOLEAN,
   found : {{"a", "b", "c"}, {"a"}}]
ScheduleInputs ==
  [db : [schedules : {{}, {[id |-> 1, is_default |-> TRUE, is_active |-> FALSE], [id |-> 2, is_default |-> FALSE, is_active |-> TRUE]}},
         days : SUBSET {<<1, 9>>, <<2, 9>>}],
   s : [id : 1..3, is_default : BOOLEAN, is_active : BOOLEAN], dates : SUBSET {8, 9}]
AuditInputs ==
  [rows : [1..4 -> [at : 0..2, performer : {"p", "q"}, action : {"a"}, entity : {"e"}]],
   f : [performer : {"", "p"}, action : {"", "a"}, entity : {"", "x"}], from : {0, 1}, to : {0, 2}]
Text(x) == [kind |-> "text", at |-> x]
Object(f) == [kind |-> "object", at |-> f]
Leaves == {Text("x"), Text("y")}
Inner == Leaves \cup {Object([k \in ks |-> v]) : ks \in SUBSET {"secret", "name"}, v \in Leaves} \cup {[kind |-> "list", at |-> <<v>>] : v \in Leaves}
RedactInputs ==
  UNION {{Object(f) : f \in [ks -> Inner]} : ks \in SUBSET {"secret", "name"}} \cup {[kind |-> "list", at |-> <<v, w>>] : v \in Inner, w \in Inner}

\* Every statement of the stores keeps what it should; both dialects answer
\* alike; and lists, links and schedules stay in order however they are saved.
StoresAgree ==
  /\ rule = "table" => Desk!TableSays(in[1], in[2])
  /\ rule = "builder" =>
       \A q \in CASE in.of = "replies" -> {Desk!SqliteListReplies(in.f), Desk!PostgresListReplies(in.f)}
                  [] in.of = "sessions" -> {Desk!SqliteListChatSessions(in.f), Desk!PostgresListChatSessions(in.f)}
                  [] OTHER -> {Desk!ListDeliveries(in.f)} : Desk!BuilderSays(in.f, in.row, q)
  /\ rule = "reference" => Desk!ReferenceSays(in.given, in.draws, in.taken, in.fails)
  /\ rule = "tag" => Desk!TagSays(in.db, 5, in.tag, in.unpairs)
  /\ rule = "views" => Desk!ViewsSay({in.views[k] @@ [id |-> k] : k \in 1..3}, in.user, IF in.user = "u1" THEN "u2" ELSE "u1")
  /\ rule = "replies" => Desk!RepliesSay(in.db, 5, 3, in.touches)
  /\ rule = "policies" => Desk!RulesSay({in.policies[k] @@ [id |-> k] : k \in 1..2}, {in.rules[k] @@ [id |-> k] : k \in 1..3})
  /\ rule = "related" => Desk!RelatedSays(in)
  /\ rule = "subject" => Desk!SubjectSays([links |-> in.links, next |-> 3], 5, in.refs, in.allowed, in.enforce, in.found)
  /\ rule = "schedule" => Desk!ScheduleSays(in.db, in.s, in.dates)
  /\ rule = "audit" => Desk!AuditSays({in.rows[k] @@ [id |-> k] : k \in 1..4}, in.f, in.from, in.to)
  /\ rule = "redact" => Desk!RedactSays(in)
-----------------------------------------------------------------------------
(* Workflows. Statuses and values are names; texts are sequences.           *)

JsonText(s) == [kind |-> "text", text |-> s]
Account(k, i) == [kind |-> "object", type |-> JsonText(k), id |-> i]
TicketTexts == {<<>>, <<" ">>, <<"a">>, <<"a", "1">>, <<"1", "2">>, <<"9">>, Flow!NaN}
ConditionInputs ==
  [c : [field : {"subject", "tags", "gone"}, operator : {"equals"}, value : {<<>>, <<"a">>, <<"1">>, <<"2">>, <<"a", ",">>, Flow!NaN}],
   td : [fields : [{"subject"} -> TicketTexts], tags : {<<>>, <<<<"a">>>>, <<<<"a">>, <<"a", "1">>>>}, account : {<<>>}]]
    \cup [c : [field : {"account"}, operator : {"equals"},
               value : {JsonText(<<"a">>), Account(<<"o">>, [kind |-> "number", text |-> <<"1">>]), Account(<<"o">>, JsonText(<<"1">>)),
                        Account(<<>>, JsonText(<<"1">>))}],
          td : [fields : {[subject |-> <<>>]}, tags : {<<>>}, account : {<<>>, <<<<"o">>, <<"1">>>>, <<<<"p">>, <<"1">>>>}]]

Act(t, v) == [type |-> t, value |-> v]
ActionLists ==
  {<<>>, <<Act("change_status", "resolved"), Act("add_tag", "a")>>, <<Act("add_tag", "a"), Act("delay", "1"), Act("remove_tag", "a")>>,
   <<Act("assign_agent", "u1"), Act("change_status", "vip")>>, <<Act("change_status", "gone"), Act("add_tag", "b")>>,
   <<Act("assign_agent", ""), Act("set_department", "x"), Act("remove_tag", "b")>>, <<Act("add_note", "status"), Act("unknown", "")>>}
If(field, op, v) == [kind |-> "list", list |-> <<[field |-> field, operator |-> op, value |-> v]>>]
Guards == {[kind |-> "none"], If("status", "equals", <<"open">>), If("tags", "contains", <<"a">>)}
Workflow(k, e, guard, acts, stops) ==
  [id |-> k, position |-> IF k = 1 THEN 1 ELSE 0, active |-> TRUE, event |-> e, conditions |-> guard, actions |-> acts, stop |-> stops]
EventInputs ==
  [workflows : {{Workflow(1, "ticket.tagged", g1, a1, FALSE), Workflow(2, e, g2, a2, s), Workflow(3, "ticket.tag_added", [kind |-> "bad"], <<>>, TRUE)} :
                  g1 \in Guards, a1 \in ActionLists, e \in {"tag.added", "chat.ended"}, g2 \in Guards, a2 \in ActionLists, s \in BOOLEAN},
   tags : {{}, {"a"}}, restricted : BOOLEAN, breaks : {{}, {"status"}, {"assigned_to"}}]
WorldOf(i) ==
  [row |-> [status |-> "open", ticket_status_id |-> "none", priority |-> "low", assigned_to |-> "none", department_id |-> "0", ticket_type |-> "q"],
   texts |-> [subject |-> <<"a">>, reference |-> <<"9">>], tags |-> i.tags, account |-> <<>>, replies |-> <<>>, followers |-> {}, delayed |-> <<>>,
   announced |-> <<>>, logs |-> <<>>, known |-> {"a", "b"}, custom |-> [s \in {"vip"} |-> "resolved"], restricted |-> i.restricted,
   viewers |-> {"u1"}, breaks |-> i.breaks]
SlaPolicies == [active : BOOLEAN, department : {Flow!Nil, "d1"}, type : {Flow!Nil, "q", "x"}, default : BOOLEAN]
SlaInputs == {<<[id |-> 2] @@ p, [id |-> 1] @@ q, [id |-> 3] @@ r>> : p, q \in SlaPolicies, r \in {x \in SlaPolicies : x.active /\ x.type # "x"}}

\* A condition and its opposite never both hold, and one of them does of any
\* value that can be read and compared; an event runs its workflows
\* in order, on the ticket as it was; and a ticket gets the policy that fits it
\* most closely.
WorkflowsAgree ==
  /\ rule = "condition" => Flow!ConditionSays(in.c, in.td)
  /\ rule = "event" => Flow!RunSays(in.workflows, "ticket.tag_added", WorldOf(in))
  /\ rule = "policy" => Flow!PolicySays(in, [department |-> "d1", type |-> "q"])
-----------------------------------------------------------------------------
(* Rules by the clock, business hours, chats and skills.                     *)

Hours1(start, end, enabled) == [start |-> start, end |-> end, enabled |-> enabled]
DayHours == {Hours1(1, 3, TRUE), Hours1(0, 4, TRUE), Hours1(3, 2, TRUE), Hours1(2, 2, TRUE), Hours1(Hours!Bad, 3, TRUE)}
Zones == {[at |-> 9, before |-> 0, after |-> 0, late |-> FALSE]}
           \cup [at : {9, 10}, before : {0}, after : {1, -1}, late : BOOLEAN] \cup {[at |-> 40, before |-> 2, after |-> 3, late |-> FALSE]}
HolidaySets == {{}, {[date |-> 2, recurring |-> FALSE], [date |-> 3, recurring |-> TRUE]},
                {[date |-> k, recurring |-> TRUE] : k \in {1, 2, 4, 5}}}
HoursInputs ==
  [bs : [hours : [{0, 1} -> DayHours], holidays : HolidaySets, zone : Zones], third : {Hours1(1, 2, FALSE), Hours1(2, 0, TRUE)},
   from : {3, 7, 8, 10}, minutes : {1, 3, 7}]
    \cup [bs : [hours : [{0, 1} -> DayHours], holidays : {{}}, zone : Zones], third : {Hours1(1, 2, FALSE)}, from : {8}, minutes : {0}]
ScheduleOf(k, active, default) ==
  [hours |-> [w \in 0..2 |-> IF w = k THEN Hours1(1, 3, TRUE) ELSE Hours1(2, 2, TRUE)], holidays |-> {},
   zone |-> [at |-> 9, before |-> 0, after |-> 0, late |-> FALSE], active |-> active, default |-> default]
DeadlineInputs ==
  [db : {[schedules |-> [i \in ids |-> ScheduleOf(i - 1, i \in on, i \in defaults)], departments |-> <<d>>] :
           ids \in SUBSET (1..3), on \in SUBSET (1..3), defaults \in {{}, {3}, {1, 3}}, d \in {Hours!Nil, 2}},
   policy : [businessHours : BOOLEAN, schedule : {Hours!Nil, 1}, first : {Hours!Nil, 1, 3}, resolution : {Hours!Nil, 2, 3}],
   t : [department : {Hours!Nil, 1}, first : {Hours!Nil, 5}, resolution : {6}]]
ChatAgents == {"a", "b", "c"}
ChatRule(k, d, s, m, g) == [id |-> k, department |-> d, strategy |-> s, max |-> m, agents |-> g, priority |-> k % 2, active |-> TRUE]
DeskRules ==
  {{ChatRule(1, "d1", s, m, <<"a", "b", "c">>), ChatRule(2, d, u, 2, g), [ChatRule(3, "d1", u, 2, <<"c">>) EXCEPT !.active = FALSE]} :
     s, u \in {"round_robin", "least_active"}, m \in {1, 2}, d \in {Routing!Nil, "d1", "d2"}, g \in {<<"c", "a">>, <<"b">>, <<>>}}
RoutingInputs ==
  [desk : [rules : DeskRules, count : [ChatAgents -> 0..2], accepted : {ChatAgents, {"a", "b"}}, round : {<<r, 1, 0>> : r \in {0, 2}},
           status : {[a |-> "online", b |-> x, c |-> y] : x \in {"online", "away"}, y \in {"online", "offline"}}, enabled : BOOLEAN],
   department : {Routing!Nil, "d1"}, viewers : {ChatAgents, {"b"}}]

NumberOf(n) == [kind |-> "number", n |-> n]
TextOf(s) == [kind |-> "text", text |-> s]
AccountOf(t, i) == [kind |-> "account", type |-> t, id |-> i]
FoundTickets ==
  [account_type : {Routing!Nil, "o"}, account_id : {Routing!Nil, "1", "2"}, department_id : {0, 2}, ticket_type : {"q"}, status : {0, 4},
   priority : {0, 2}, created_at : {5}, updated_at : {6, 8}, assigned_to : {Routing!Nil, "u"}, resolved_at : {Routing!Never, 8},
   closed_at : {Routing!Never}, first_response_at : {Routing!Never, 7}, sla_breached : {FALSE}]
    \cup {[account_type |-> "o", account_id |-> "1", department_id |-> 2, ticket_type |-> "q", status |-> 0, priority |-> 2, created_at |-> 3,
           updated_at |-> 3, assigned_to |-> "u", resolved_at |-> Routing!Never, closed_at |-> c, first_response_at |-> Routing!Never,
           sla_breached |-> TRUE] : c \in {Routing!Never, 9}}
FindInputs ==
  [c : [field : {"account", "department_id", "ticket_type", "hours_since_created", "hours_since_updated", "status", "priority", "assigned"},
        operator : {""},
        value : {NumberOf(0), NumberOf(2), NumberOf(4), NumberOf(9), TextOf("2"), TextOf("escalated"), TextOf("q"), TextOf("assigned"),
                 TextOf("unassigned"), AccountOf("o", "1"), AccountOf("o", Routing!Nil)}],
   t : FoundTickets]
SkillRows == [user : {"a", "b"}, skill : {1}, proficiency : {2, 4}] \cup [user : {"b", "c"}, skill : {2}, proficiency : {3}]
OneEach(rows) == \A p, q \in rows : p.user = q.user /\ p.skill = q.skill => p = q
SkillInputs ==
  [db : [skills : {{1, 2}}, agentSkills : {rows \in SUBSET SkillRows : OneEach(rows)}, ticketTags : {{}, {"x"}},
         routingTags : {{}, {[skill |-> 1, tag |-> "x"]}, {[skill |-> 1, tag |-> "y"], [skill |-> 2, tag |-> "y"]}},
         routingDepartments : {{}, {[skill |-> 2, department |-> "d"]}},
         tickets : {{}, {[id |-> 1, assigned_to |-> "b", status |-> "open"], [id |-> 2, assigned_to |-> "a", status |-> "closed"]}},
         order : {[a |-> 2, b |-> 1, c |-> 3]}],
   t : [tags : {{}, {"x"}, {"y"}}, department : {Routing!Nil, "d"}], viewers : {{"a", "b", "c"}, {"a", "c"}}]

\* Rules by the clock find what they say; deadlines end in business hours,
\* however the clocks change; a chat goes to whom the rules mean, one agent
\* after another; and an agent is named who has the skills.
DeskAgrees ==
  /\ rule = "find" => Routing!FindsSay(in.c, in.t, 9)
  /\ rule = "skills" => Routing!SkillsSay(in.db, in.t, in.viewers, {"x", "y"})
  /\ rule = "hours" => Hours!HoursSay([in.bs EXCEPT !.hours = @ @@ (2 :> in.third)], in.from, in.minutes)
  /\ rule = "deadline" => Hours!DeadlinesSay(in.db, in.policy, in.t, 4)
  /\ rule = "routing" =>
       /\ Routing!RoutingSays(in.desk, in.department, in.viewers, ChatAgents)
       /\ \A r \in in.desk.rules : Routing!RoundSays(in.desk, r, in.viewers)
-----------------------------------------------------------------------------
\* A plugin is run when its schedule says, reads of its store what it asked
\* for, and is answered, and answers, what its contract says.
PluginsAgree == CronAgrees /\ StoreAgrees /\ AnswersAgree

\* Nobody gets past a gate they may not: by no route, on neither router.
AccessAgrees == GatesAgree /\ RoutesAgree

\* The schema, retention, reports, custom values, workflows, deadlines and chat
\* routing do to the data what they say, and no more.
DataAgrees == RowsAgree /\ WorkflowsAgree /\ DeskAgrees

\* Every list, whichever dialect draws it up, holds what its filter means.
ListsAgree == InboxAgrees /\ StoresAgree
-----------------------------------------------------------------------------
Init ==
  \/ Ask("condition", ConditionInputs) \/ Ask("event", EventInputs) \/ Ask("policy", SlaInputs)
  \/ Ask("tickets", ListsInputs) \/ Ask("inbox", InboxInputs) \/ Ask("dashboard", DashboardInputs)
  \/ Ask("table", TableInputs) \/ Ask("builder", BuilderInputs) \/ Ask("reference", ReferenceInputs) \/ Ask("tag", TagInputs)
  \/ Ask("views", ViewInputs) \/ Ask("related", RelatedInputs) \/ Ask("subject", SubjectInputs) \/ Ask("schedule", ScheduleInputs)
  \/ Ask("replies", RepliesInputs) \/ Ask("policies", PolicyInputs)
  \/ Ask("audit", AuditInputs) \/ Ask("redact", RedactInputs)
  \/ Ask("cron", CronInputs) \/ Ask("store", StoreInputs) \/ Ask("filter", FilterInputs)
  \/ Ask("reply", ReplyInputs) \/ Ask("page", PageInputs) \/ Ask("create", CreateInputs)
  \/ Ask("update", UpdateInputs) \/ Ask("route", RouteInputs) \/ Ask("rows", RowsInputs)
  \/ Ask("entry", EntryInputs) \/ Ask("enforce", EnforceInputs)
  \/ Ask("mount", Flags) \/ Ask("request", RequestInputs) \/ Ask("named", Routes!builtInRoutes)
  \/ Ask("embed", [site : Sites, route : Routes!Stdlib({"ui", "database"})])
  \/ Ask("staff", {r \in Mounted : r.gate \in {"agent", "admin", "staff", "admin, sso", "admin, roles"} /\ ~Routes!Subtree(r.path) /\ r.method # "ANY"})
  \/ Ask("schema", {0}) \/ Ask("delete", Schema!Operations \X BOOLEAN) \/ Ask("seed", SeededInputs) \/ Ask("purge", PurgeInputs)
  \/ Ask("report", ReportInputs) \/ Ask("numbers", NumberInputs) \/ Ask("score", ScoreInputs)
  \/ Ask("field", FieldInputs) \/ Ask("values", ValueInputs) \/ Ask("form", FormInputs) \/ Ask("record", RecordInputs)
  \/ Ask("reorder", ReorderInputs) \/ Ask("status", StatusInputs) \/ Ask("list", ListInputs)
  \/ Ask("gate", GateInputs) \/ Ask("limiter", LimiterInputs)
  \/ Ask("hours", HoursInputs) \/ Ask("deadline", DeadlineInputs) \/ Ask("routing", RoutingInputs)
  \/ Ask("find", FindInputs) \/ Ask("skills", SkillInputs)

Next == UNCHANGED vars

Spec == Init /\ [][Next]_vars
=============================================================================
