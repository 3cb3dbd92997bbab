---------------------------- MODULE PluginRules ----------------------------
(***************************************************************************)
(* The pure rules of the plugin host: when a cron schedule is due           *)
(* (plugins/cron.go), which records ctx.store.query returns and in which    *)
(* order (plugins/store.go), which route serves a request (routes.go) and   *)
(* which answers of a plugin the host sends on (http.go).  Each is written  *)
(* as the code computes it, next to a reference that says what it means.    *)
(***************************************************************************)
EXTENDS Integers, Sequences, FiniteSets
-----------------------------------------------------------------------------
(* Cron.  A field is a set of parts; a part is *, n or a-b with a step; step *)
(* 0 stands for no step written.                                            *)

Fields == <<[min |-> 0, max |-> 59], [min |-> 0, max |-> 23], [min |-> 1, max |-> 31],
            [min |-> 1, max |-> 12], [min |-> 0, max |-> 7]>>

\* The numbers a part stands for: a lone number with a step runs to the end.
PartEnds(f, p) ==
  CASE p.kind = "star" -> [from |-> f.min, to |-> f.max]
    [] p.kind = "range" -> [from |-> p.a, to |-> p.b]
    [] p.kind = "one" -> [from |-> p.a, to |-> IF p.step = 0 THEN p.a ELSE f.max]

StepOf(p) == IF p.step = 0 THEN 1 ELSE p.step

PartValues(f, p) ==
  LET e == PartEnds(f, p)
  IN  {n \in e.from..e.to : (n - e.from) % StepOf(p) = 0}

parse(f, parts) == UNION {PartValues(f, p) : p \in parts}

\* A field is unrestricted when one of its parts is a bare *.
AnyValue(parts) == \E p \in parts : p.kind = "star" /\ p.step = 0

\* Fault: both day fields must match even when both are restricted.
DayNeedsBoth(dom, dow, any) == dom /\ dow

\* Two restricted day fields: either is enough.
DayMatches(dom, dow, any) == IF any THEN dom /\ dow ELSE dom \/ dow

\* at is [minute, hour, day, month, weekday], Sunday being 0; 7 is Sunday too.
cronDue(expr, at) ==
  LET values == [i \in 1..5 |-> parse(Fields[i], expr[i])]
      weekdays == values[5] \cup (IF 7 \in values[5] THEN {0} ELSE {})
  IN  /\ at[1] \in values[1] /\ at[2] \in values[2] /\ at[4] \in values[4]
      /\ DayMatches(at[3] \in values[3], at[5] \in weekdays, AnyValue(expr[3]) \/ AnyValue(expr[5]))

\* What cron(5) says of one field: some part, counted from its start, hits n.
FieldHits(f, parts, n) ==
  \E p \in parts : \E k \in 0..f.max :
     LET m == PartEnds(f, p).from + k * StepOf(p) IN m = n /\ m <= PartEnds(f, p).to
CronSays(expr, at) ==
  LET dom == FieldHits(Fields[3], expr[3], at[3])
      dow == FieldHits(Fields[5], expr[5], at[5]) \/ (at[5] = 0 /\ FieldHits(Fields[5], expr[5], 7))
      restricted(i) == \A p \in expr[i] : p.kind # "star" \/ p.step # 0
  IN  /\ \A i \in {1, 2, 4} : FieldHits(Fields[i], expr[i], at[i])
      /\ restricted(3) /\ restricted(5) => dom \/ dow
      /\ restricted(3) => dom \/ restricted(5)
      /\ restricted(5) => dow \/ restricted(3)
-----------------------------------------------------------------------------
(* ctx.store.query.  A value is a number, a string, a list of values, or     *)
(* null; strings are numbered in their order.                               *)

Num(n) == [t |-> "number", v |-> n]
Str(n) == [t |-> "string", v |-> n]
Lst(s) == [t |-> "list", items |-> s]
Null == [t |-> "null"]

Items(l) == {l.items[i] : i \in DOMAIN l.items}

\* Equality as plugins see it: an array holds the value wanted, or every
\* value of the array wanted.
contains(value, wanted) ==
  IF value.t = "list"
  THEN IF wanted.t = "list" THEN Items(wanted) \subseteq Items(value) ELSE wanted \in Items(value)
  ELSE value = wanted

Comparable(a, b) == a.t = b.t /\ a.t \in {"number", "string"}

matchOp(value, op, operand) ==
  LET list == IF operand.t = "list" THEN Items(operand) ELSE {operand}
  IN  CASE op = "$ne" -> value # operand
        [] op = "$in" -> value \in list
        [] op = "$nin" -> value \notin list
        [] op = "$gt" -> Comparable(value, operand) /\ value.v > operand.v
        [] op = "$gte" -> Comparable(value, operand) /\ value.v >= operand.v
        [] op = "$lt" -> Comparable(value, operand) /\ value.v < operand.v
        [] op = "$lte" -> Comparable(value, operand) /\ value.v <= operand.v

\* A filter is a set of conditions on fields; each is = or an operator.
matchesFilter(data, filter) ==
  \A c \in filter : IF c.op = "=" THEN contains(data[c.field], c.value)
                    ELSE matchOp(data[c.field], c.op, c.value)

Rank(v) == CASE v.t = "number" -> 0 [] v.t = "string" -> 1 [] OTHER -> 2

compareSortKeys(a, b) ==
  IF Rank(a) # Rank(b) THEN Rank(a) - Rank(b)
  ELSE IF Comparable(a, b) THEN a.v - b.v ELSE 0

\* Does row i of s come before row j?  Rows that compare equal keep their order.
Before(s, i, j, opts) ==
  LET c == compareSortKeys(s[i][opts.orderBy], s[j][opts.orderBy])
  IN  IF c = 0 THEN i < j ELSE IF opts.desc THEN c > 0 ELSE c < 0

StableSort(s, opts) ==
  [k \in DOMAIN s |-> s[CHOOSE i \in DOMAIN s : Cardinality({j \in DOMAIN s : j # i /\ Before(s, j, i, opts)}) = k - 1]]

\* The rows are sorted and then cut at the limit.
SortThenLimit(s, opts) ==
  LET sorted == StableSort(s, opts)
  IN  SubSeq(sorted, 1, IF opts.limit < Len(s) THEN opts.limit ELSE Len(s))

query(rows, filter, opts) ==
  SortThenLimit(SelectSeq(rows, LAMBDA r : matchesFilter(r, filter)), opts)

\* What a query means: as many matching rows as the limit allows, in order,
\* and none left out that belongs before one returned.
QuerySays(rows, filter, opts, out) ==
  LET matching == {i \in DOMAIN rows : matchesFilter(rows[i], filter)}
      at(r) == CHOOSE i \in DOMAIN rows : rows[i] = r
      returned == {at(out[k]) : k \in DOMAIN out}
      bound == IF opts.limit < Cardinality(matching) THEN opts.limit ELSE Cardinality(matching)
  IN  /\ returned \subseteq matching /\ Cardinality(returned) = bound /\ Len(out) = bound
      /\ \A k \in 1..(Len(out) - 1) : Before(rows, at(out[k]), at(out[k + 1]), opts)
      /\ \A i \in returned, j \in matching \ returned : Before(rows, i, j, opts)
-----------------------------------------------------------------------------
(* Routes.  A path is a sequence of segments; ":" is a parameter segment,    *)
(* and "" an empty one.                                                     *)

match(r, method, path) ==
  /\ r.method = method /\ Len(path) = Len(r.segments)
  /\ \A i \in DOMAIN path : IF r.segments[i] = ":" THEN path[i] # "" ELSE path[i] = r.segments[i]

\* The first declared route that matches; 0 for none.
matchRoute(routes, method, path) ==
  LET hits == {k \in DOMAIN routes : match(routes[k], method, path)}
  IN  IF hits = {} THEN 0 ELSE CHOOSE k \in hits : \A j \in hits : k <= j

\* A route is a pattern for the paths its parameters can be filled to.
Fills(r, segments) ==
  {[i \in DOMAIN r.segments |-> IF r.segments[i] = ":" THEN f[i] ELSE r.segments[i]] :
     f \in [DOMAIN r.segments -> segments \ {""}]}
RouteSays(routes, method, path, segments, k) ==
  LET fits == {i \in DOMAIN routes : routes[i].method = method /\ path \in Fills(routes[i], segments)}
  IN  IF k = 0 THEN fits = {} ELSE k \in fits /\ \A i \in fits : k <= i
-----------------------------------------------------------------------------
(* Replies.  An answer that is no envelope is sent as JSON with status 200.  *)
(* Headers are pairs of a name and a value; lower() folds their case.        *)

Blocked == {"connection", "content-length", "set-cookie"}

lower(name) == IF name = "Set-Cookie" THEN "set-cookie" ELSE IF name = "X-A" THEN "x-a" ELSE name

\* No blocked name and no name twice, whatever their case.
HeadersOk(headers) ==
  \A h \in headers : lower(h.name) \notin Blocked /\ \A g \in headers : lower(g.name) = lower(h.name) => g = h

Invalid == [status |-> 502, headers |-> {}]

makeReply(r) ==
  IF ~r.envelope THEN [status |-> 200, headers |-> {"content-type"}]
  ELSE IF r.status \notin 200..599 \/ ~HeadersOk(r.headers) \/ (r.text /\ ~r.stringBody) THEN Invalid
  ELSE [status |-> r.status, headers |-> {lower(h.name) : h \in r.headers} \cup {"content-type"}]

\* What is sent names no blocked header and always a type.
ReplySays(r, out) ==
  /\ out.headers \cap {lower(b) : b \in Blocked} = {}
  /\ out # Invalid => "content-type" \in out.headers /\ out.status \in 200..599
  /\ out # Invalid /\ r.envelope => out.status = r.status
-----------------------------------------------------------------------------
(* ctx.tickets writes.  data gives each field as "absent", "good" or "bad".  *)

\* ctx.tickets.update changes a ticket part by part, each checked as it is
\* reached; a bad ticket_type is refused before any of them.
Parts == <<"details", "priority", "status", "department", "metadata">>

BadAt(data) == {i \in DOMAIN Parts : data[Parts[i]] = "bad"}

Update(data) ==
  IF data["type"] = "bad" THEN {}
  ELSE {Parts[i] : i \in {k \in DOMAIN Parts : data[Parts[k]] = "good" /\ \A b \in BadAt(data) : k < b}}

\* Without a refusal every part given is written; a refused update has
\* written the parts before the one refused, and those only.
UpdateSays(data) ==
  LET refusedAt == BadAt(data)
      good == {i \in DOMAIN Parts : data[Parts[i]] = "good"}
  IN  /\ data["type"] # "bad" /\ refusedAt = {} => Update(data) = {Parts[i] : i \in good}
      /\ \A b \in refusedAt, i \in good : i > b => Parts[i] \notin Update(data)
      /\ data["type"] = "bad" => Update(data) = {}

\* ctx.tickets.create checks everything but the status before it creates.
Create(data) ==
  IF \E f \in {"subject", "priority", "type", "department", "metadata", "contact"} : data[f] = "bad" THEN {}
  ELSE {"created"} \cup (IF data["status"] = "good" THEN {"status"} ELSE {})

\* A refused create leaves no ticket, unless it was the status that was refused.
CreateSays(data) ==
  "created" \notin Create(data) <=> \E f \in DOMAIN data \ {"status"} : data[f] = "bad"
-----------------------------------------------------------------------------
(* Filters and the host's pages.                                            *)

\* All SDK plugins are one step, at the lowest of their priorities.
SdkPriority(sdk) == CHOOSE p \in {sdk[i] : i \in DOMAIN sdk} : \A i \in DOMAIN sdk : p <= sdk[i]

\* The steps of a hook, by priority: the native filters in the order they were
\* registered, the runtime after the natives of its priority.  A step that
\* fails is skipped, and the value carries on.
ApplyFilter(native, sdk, sdkFails) ==
  LET steps == [i \in DOMAIN native |-> [name |-> i, p |-> native[i].p, fails |-> native[i].fails]]
                 \o (IF sdk = <<>> THEN <<>>
                     ELSE <<[name |-> 0, p |-> SdkPriority(sdk), fails |-> sdkFails]>>)
      before(i, j) == steps[i].p < steps[j].p \/ (steps[i].p = steps[j].p /\ i < j)
      ordered == [k \in DOMAIN steps |->
                    steps[CHOOSE i \in DOMAIN steps : Cardinality({j \in DOMAIN steps : before(j, i)}) = k - 1]]
      ok(s) == ~s.fails
  IN  SelectSeq(ordered, ok)

\* What a dispatch promises: every filter that works once, lowest priority
\* first, and no native filter above the runtime's lowest priority before it.
FilterSays(native, sdk, sdkFails, out) ==
  LET ran == {out[k].name : k \in DOMAIN out}
      sdkAt == {k \in DOMAIN out : out[k].name = 0}
  IN  /\ ran = {i \in DOMAIN native : ~native[i].fails} \cup (IF sdk # <<>> /\ ~sdkFails THEN {0} ELSE {})
      /\ Len(out) = Cardinality(ran)
      /\ \A j, k \in DOMAIN out : j < k => out[j].p <= out[k].p
      /\ \A k \in sdkAt, j \in DOMAIN out : j < k =>
            \A i \in DOMAIN sdk : native[out[j].name].p <= sdk[i]

\* No capability means anyone the route lets in; without a checker of the
\* host's, an admin.
allows(viewer, capability) == capability = "none" \/ capability \in viewer.caps

\* The menu items a viewer is shown: a page with a menu, a route and a
\* component; an admin item (no section is the admin's) only to admins.
MenuItems(pages, viewer) ==
  {i \in DOMAIN pages : /\ pages[i].menu # "none" /\ pages[i].route # "" /\ pages[i].component
                        /\ pages[i].menu = "agent" \/ viewer.admin
                        /\ allows(viewer, pages[i].capability)}

\* The page served at a route: the first declared there, to those it allows.
PageAt(pages, route, viewer) ==
  LET hits == {i \in DOMAIN pages : pages[i].component /\ pages[i].route = route /\ route # ""}
  IN  IF hits = {} THEN "not found"
      ELSE IF allows(viewer, pages[CHOOSE i \in hits : \A j \in hits : i <= j].capability)
           THEN "page" ELSE "forbidden"

\* A menu leads where the viewer may go, when no two pages share a route.
LinksOpen(pages, viewer) ==
  (\A i, j \in DOMAIN pages : i # j => pages[i].route # pages[j].route)
     => \A i \in MenuItems(pages, viewer) : PageAt(pages, pages[i].route, viewer) = "page"
-----------------------------------------------------------------------------
\* ctx.tickets.query and ctx.replies.query: known keys only, every one of
\* them must hold, at most max rows, the lowest ids first.
QueryRows(rows, filter, known, max) ==
  IF ~(DOMAIN filter \subseteq known) THEN {}
  ELSE LET hits == {r \in rows : \A k \in DOMAIN filter : r[k] = filter[k]}
       IN  {r \in hits : Cardinality({q \in hits : q.id < r.id}) < max}

\* No key is ignored, and no row with a lower id left out.
QueryRowsSays(rows, filter, known, max, out) ==
  /\ \A r \in out, k \in DOMAIN filter : k \in known /\ r[k] = filter[k]
  /\ Cardinality(out) <= max
  /\ DOMAIN filter \subseteq known =>
       \A r \in rows \ out : (\A k \in DOMAIN filter : r[k] = filter[k])
                              => Cardinality(out) = max /\ \A q \in out : q.id < r.id
=============================================================================
