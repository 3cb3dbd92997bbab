----------------------------- MODULE TicketLists -----------------------------
(***************************************************************************)
(* The ticket lists: the store's ListTickets in both dialects, as the        *)
(* statement it writes and what the database makes of it, and over it the    *)
(* agent inbox: queues, views, counts and tiles, and the dashboard.          *)
(* (store/sqlite.go, store/postgres.go, handlers/agent.go, agent_inbox.go,   *)
(* saved_views.go.)                                                         *)
(*                                                                         *)
(* A ticket is a record of its columns, 0 for a time or an id that is NULL.  *)
(***************************************************************************)
EXTENDS Naturals, Sequences, FiniteSets, SequencesExt

Nil == "nil"
OpenStatuses == {"open", "in_progress", "waiting_on_customer", "waiting_on_agent", "escalated", "reopened"}
IsOpen(t) == t.status \in OpenStatuses

\* reads: rows [user, ticket, at], at 0 for one marked unread.
unreadClause(t, reads, u) ==
  \/ \E r \in reads : r.ticket = t.id /\ r.user = u /\ r.at = 0
  \/ t.customerAt > 0 /\ ~\E r \in reads : r.ticket = t.id /\ r.user = u /\ r.at >= t.customerAt
-----------------------------------------------------------------------------
(* A filter is a function from the fields that are set to their values. The  *)
(* store writes the clauses in this order; a clause takes its arguments from *)
(* the places its markers name.                                             *)

FilterOrder ==
  <<"account", "status", "custom", "priority", "type", "dept", "assigned", "requester", "unassigned", "breached", "search",
    "open", "atRisk", "resolvedSince", "updatedSince", "unreadFor">>
Equals == {"status", "custom", "priority", "type", "dept", "assigned", "requester"}
Fixed == {"unassigned", "breached", "open"}

\* What one clause asks of a ticket, a its arguments in the order of its markers.
Holds(c, a, t, reads) ==
  CASE c \in Equals -> t[c] = a[1]
    [] c = "never" -> FALSE
    [] c = "account" -> t.account = <<a[1], a[2]>>
    [] c = "unassigned" -> t.assigned = Nil
    [] c = "breached" -> t.breached
    [] c = "search" -> t.subject = a[1] \/ t.description = a[2] \/ t.reference = a[3]
    [] c = "open" -> IsOpen(t)
    [] c = "atRisk" -> IsOpen(t) /\ (t.breached \/ (t.firstAt = 0 /\ t.firstDue > 0 /\ t.firstDue <= a[1]) \/ (t.due > 0 /\ t.due <= a[2]))
    [] c = "resolvedSince" -> t.resolvedAt > 0 /\ t.resolvedAt >= a[1]
    [] c = "updatedSince" -> t.updatedAt >= a[1]
    [] c = "unreadFor" -> a[1] = a[2] /\ unreadClause(t, reads, a[1])

Clause(f, k) == IF k = "account" /\ (f.account[1] = "" \/ f.account[2] = "") THEN "never" ELSE k
Present(f, k) == k \in DOMAIN f /\ (k \in Fixed => f[k])
Keys(f) == SelectSeq(FilterOrder, LAMBDA k : Present(f, k))

\* SQLite: the n-th ? takes the n-th argument.
SqliteArguments(f, k) ==
  CASE Clause(f, k) \in Fixed \cup {"never"} -> <<>>
    [] k = "account" -> f.account
    [] k = "search" -> <<f.search, f.search, f.search>>
    [] k \in {"atRisk", "unreadFor"} -> <<f[k], f[k]>>
    [] OTHER -> <<f[k]>>
SqliteListTickets(f) ==
  LET add(q, k) == LET a == SqliteArguments(f, k)
                       n == Len(q.args)
                   IN  [where |-> Append(q.where, [clause |-> Clause(f, k), markers |-> [i \in DOMAIN a |-> n + i]]), args |-> q.args \o a]
  IN  FoldLeft(add, [where |-> <<>>, args |-> <<>>], Keys(f))

\* PostgreSQL: $n is the n-th argument; argN is the next one to be added.
PostgresNext(f, k) ==
  IF Clause(f, k) \in Fixed \cup {"never"} THEN 0 ELSE IF k = "search" THEN 3 ELSE IF k = "account" THEN 2 ELSE 1
PostgresMarkers(f, k, argN) ==
  CASE Clause(f, k) \in Fixed \cup {"never"} -> <<>>
    [] k = "account" -> <<argN, argN + 1>>
    [] k = "search" -> <<argN, argN + 1, argN + 2>>
    [] k \in {"atRisk", "unreadFor"} -> <<argN, argN>>
    [] OTHER -> <<argN>>
PostgresListTickets(f) ==
  LET add(q, k) ==
        [where |-> Append(q.where, [clause |-> Clause(f, k), markers |-> PostgresMarkers(f, k, q.argN)]),
         args |-> q.args \o CASE Clause(f, k) \in Fixed \cup {"never"} -> <<>> [] k = "account" -> f.account
                              [] k = "search" -> <<f.search, f.search, f.search>> [] OTHER -> <<f[k]>>,
         argN |-> q.argN + PostgresNext(f, k)]
      q == FoldLeft(add, [where |-> <<>>, args |-> <<>>, argN |-> 1], Keys(f))
  IN  [where |-> q.where, args |-> q.args]

\* What the database makes of a statement.
Bound(q, i) == [k \in DOMAIN q.where[i].markers |-> q.args[q.where[i].markers[k]]]
Runs(q) == \A i \in DOMAIN q.where : \A k \in DOMAIN q.where[i].markers : q.where[i].markers[k] \in DOMAIN q.args
Rows(q, tickets, reads) == {t \in tickets : \A i \in DOMAIN q.where : Holds(q.where[i].clause, Bound(q, i), t, reads)}

\* page: [sortBy, asc, limit, offset]; the columns a list may be sorted by here.
SortColumns == {"id", "createdAt", "updatedAt"}
Page(rows, page) ==
  LET key(t) == IF page.sortBy \in SortColumns THEN t[page.sortBy] ELSE t.createdAt
      limit == IF page.limit \in 1..200 THEN page.limit ELSE 50
      \* Tickets with the same key come in any order: here the order of ids.
      before(t, u) == (IF page.asc THEN key(t) < key(u) ELSE key(t) > key(u)) \/ (key(t) = key(u) /\ t.id < u.id)
      sorted == SetToSortSeq(rows, before)
  IN  SubSeq(sorted, page.offset + 1, IF page.offset + limit < Len(sorted) THEN page.offset + limit ELSE Len(sorted))
-----------------------------------------------------------------------------
(* handlers/agent.go, agent_inbox.go. A query is a function from some keys to *)
(* values; now is the present, in hours, and a day has four.                 *)

startOfDay(now) == now - (now % 4)
SLAAtRiskWindow == 1

\* Statuses whose name is a custom slug are not built in.
agentTicketFilters(q, now, custom) ==
  LET has(k) == k \in DOMAIN q /\ q[k] # ""
      on(k) == has(k) /\ q[k] = "1"
      given == {k \in {"priority", "type", "dept", "assigned"} : has(k)}
                 \cup {k \in {"status"} : has(k) /\ q.status \in OpenStatuses \cup {"resolved", "closed", "snoozed"}}
                 \cup {k \in {"custom"} : has("status") /\ q.status \in custom}
                 \cup {k \in {"unassigned", "open", "breached", "atRisk"} : on(k)}
                 \cup {k \in {"resolvedSince"} : on("resolvedToday")} \cup {k \in {"updatedSince"} : has("updatedWithin")}
                 \cup {k \in {"search"} : has("search")}
                 \cup {k \in {"account"} : has("accountType") \/ has("accountId")}
  IN  [k \in given |->
         CASE k = "custom" -> q.status
           [] k \in {"unassigned", "open", "breached"} -> TRUE
           [] k = "atRisk" -> now + SLAAtRiskWindow
           [] k = "resolvedSince" -> startOfDay(now)
           [] k = "updatedSince" -> now - 2
           [] k = "account" -> <<IF has("accountType") THEN q.accountType ELSE "", IF has("accountId") THEN q.accountId ELSE "">>
           [] OTHER -> q[k]]

Presentation == {"page", "view"}
With(q, extra) == [k \in DOMAIN q \cup DOMAIN extra |-> IF k \in DOMAIN extra THEN extra[k] ELSE q[k]]
Without(q, keys) == [k \in DOMAIN q \ keys |-> q[k]]
Empty == [k \in {} |-> ""]

\* assigned=me, or assigned_to=me, is the agent. A saved view's assigned goes
\* whether or not it is "me".
normaliseInboxQuery(q, uid) ==
  LET me == \/ "assignedAs" \in DOMAIN q /\ q.assignedAs = "me"
            \/ "assigned" \in DOMAIN q /\ q.assigned = "me"
  IN  IF me /\ uid # Nil THEN With(Without(q, {"assignedAs"}), [assigned |-> uid]) ELSE Without(q, {"assignedAs"})

builtInInboxViews(uid) ==
  <<[id |-> "urgent", filters |-> [priority |-> "urgent", open |-> "1"]],
    [id |-> "sla_at_risk", filters |-> [atRisk |-> "1"]],
    [id |-> "waiting_on_me", filters |-> [assigned |-> uid, status |-> "waiting_on_agent"]],
    [id |-> "waiting_on_customer", filters |-> [assigned |-> uid, status |-> "waiting_on_customer"]],
    [id |-> "recently_updated", filters |-> [open |-> "1", updatedWithin |-> "2", sortBy |-> "updatedAt"]]>>
maxInboxSavedViews == 1

\* saved: the saved views the agent sees, in order.
inboxViews(uid, saved) ==
  LET taken == SubSeq(saved, 1, IF Len(saved) < maxInboxSavedViews THEN Len(saved) ELSE maxInboxSavedViews)
  IN  IF uid = Nil THEN builtInInboxViews(uid)
      ELSE builtInInboxViews(uid) \o [i \in DOMAIN taken |-> [id |-> taken[i].id, filters |-> normaliseInboxQuery(taken[i].filters, uid)]]

workspaceQueue(key, uid) ==
  [key |-> IF key \in {"mine", "unassigned"} THEN key ELSE "all",
   filters |-> CASE key = "mine" -> [assigned |-> uid] [] key = "unassigned" -> [unassigned |-> "1"] [] OTHER -> Empty]
viewQueue(v) == [key |-> v.id, filters |-> v.filters]

comparableQuery(q) == [k \in {x \in DOMAIN q \ Presentation : q[x] # ""} |-> q[k]]
First(views, P(_)) == CHOOSE i \in DOMAIN views : P(views[i]) /\ \A j \in 1..(i - 1) : ~P(views[j])

queueFor(q, uid, views) ==
  LET named(v) == "view" \in DOMAIN q /\ q.view # "" /\ v.id = q.view
      same(v) == comparableQuery(v.filters) = comparableQuery(q)
  IN  IF \E i \in DOMAIN views : named(views[i]) THEN viewQueue(views[First(views, named)])
      ELSE IF DOMAIN comparableQuery(q) # {} /\ \E i \in DOMAIN views : same(views[i]) THEN viewQueue(views[First(views, same)])
      ELSE IF uid # Nil /\ "assigned" \in DOMAIN q /\ q.assigned = uid THEN workspaceQueue("mine", uid)
      ELSE IF "unassigned" \in DOMAIN q /\ q.unassigned = "1" THEN workspaceQueue("unassigned", uid)
      ELSE workspaceQueue("all", uid)

IsView(queue) == queue.key \notin {"mine", "unassigned", "all"}
inboxListQuery(q, queue) ==
  IF "view" \notin DOMAIN q \/ ~IsView(queue) THEN q ELSE With(queue.filters, Without(q, {"view"}))

\* The queue the ticket page goes back to: the cookie's key.
recalledQueue(cookie, uid, views) ==
  LET named(v) == v.id = cookie
  IN  IF \E i \in DOMAIN views : named(views[i]) THEN viewQueue(views[First(views, named)])
      ELSE workspaceQueue(IF cookie = "mine" /\ uid = Nil THEN "all" ELSE cookie, uid)

\* world: [tickets, reads, now, custom].
countTickets(world, q) ==
  Cardinality(Rows(SqliteListTickets(agentTicketFilters(q, world.now, world.custom)), world.tickets, world.reads))
OpenUnlessStatus(q) == IF "status" \in DOMAIN q /\ q.status # "" THEN q ELSE With(q, [open |-> "1"])
countOpen(world, q) == countTickets(world, OpenUnlessStatus(q))
countUnread(world, uid, q) ==
  IF uid = Nil THEN 0
  ELSE Cardinality(Rows(SqliteListTickets(With(agentTicketFilters(OpenUnlessStatus(q), world.now, world.custom), [unreadFor |-> uid])),
                        world.tickets, world.reads))

Tiles == [open |-> [status |-> "open"], urgent |-> [priority |-> "urgent", open |-> "1"], atRisk |-> [atRisk |-> "1"],
          resolvedToday |-> [status |-> "resolved", resolvedToday |-> "1"]]
inboxProp(world, uid, queue, views) ==
  LET mine == IF uid = Nil THEN <<0, 0>>
              ELSE <<countOpen(world, [assigned |-> uid]), countUnread(world, uid, [assigned |-> uid])>>
  IN  [counts |-> [mine |-> mine[1], unassigned |-> countOpen(world, [unassigned |-> "1"]), all |-> countOpen(world, Empty)],
       unread |-> [mine |-> mine[2], unassigned |-> countUnread(world, uid, [unassigned |-> "1"]), all |-> countUnread(world, uid, Empty)],
       views |-> [i \in DOMAIN views |-> countOpen(world, views[i].filters)],
       stats |-> [tile \in DOMAIN Tiles |-> countTickets(world, With(queue.filters, Tiles[tile]))]]

\* GET agent/tickets: the tickets listed, the queue shown, the cookie left.
agentIndex(world, raw, uid, saved) ==
  LET q == normaliseInboxQuery(raw, uid)
      views == inboxViews(uid, saved)
      queue == queueFor(q, uid, views)
      listed == agentTicketFilters(inboxListQuery(q, queue), world.now, world.custom)
  IN  [rows |-> Rows(SqliteListTickets(listed), world.tickets, world.reads), queue |-> queue,
       inbox |-> inboxProp(world, uid, queue, views)]

\* The dashboard. Its lists are the newest breached, and the newest urgent and
\* the newest critical without an agent, each at most `attention` of any status
\* (50 in the code), of which the first `tile` that are open are shown (5).
firstOpen(tickets, n) ==
  LET open == SelectSeq(tickets, IsOpen) IN SubSeq(open, 1, IF Len(open) < n THEN Len(open) ELSE n)
Newest(rows, limit) == Page(rows, [sortBy |-> "createdAt", asc |-> FALSE, limit |-> limit, offset |-> 0])
Dashboard(world, uid, attention, tile) ==
  LET open == {t \in world.tickets : IsOpen(t)}
      list(f, limit) == Newest(Rows(SqliteListTickets(f), world.tickets, world.reads), limit)
  IN  [open |-> Cardinality(open), unassigned |-> Cardinality({t \in open : t.assigned = Nil}),
       mine |-> IF uid = Nil THEN 0 ELSE Cardinality({t \in open : t.assigned = uid}),
       breached |-> Cardinality({t \in open : t.breached}),
       resolvedToday |-> Cardinality({t \in world.tickets : t.resolvedAt > 0 /\ t.resolvedAt >= startOfDay(world.now)}),
       breaching |-> firstOpen(list([breached |-> TRUE], attention), tile),
       urgent |-> firstOpen(Newest(ToSet(list([unassigned |-> TRUE, priority |-> "urgent"], attention)
                                         \o list([unassigned |-> TRUE, priority |-> "critical"], attention)), 2 * attention), tile)]
-----------------------------------------------------------------------------
\* What a filter means, read from its fields (models.TicketFilters).
Matches(t, f, reads) ==
  /\ \A k \in DOMAIN f \cap Equals : t[k] = f[k]
  /\ "account" \in DOMAIN f => t.account = f.account /\ "" \notin {f.account[1], f.account[2]}
  /\ Present(f, "unassigned") => t.assigned = Nil
  /\ Present(f, "breached") => t.breached
  /\ Present(f, "open") => IsOpen(t)
  /\ "search" \in DOMAIN f => f.search \in {t.subject, t.description, t.reference}
  /\ "atRisk" \in DOMAIN f => /\ IsOpen(t)
                             /\ \/ t.breached
                                \/ t.firstAt = 0 /\ t.firstDue \in 1..f.atRisk
                                \/ t.due \in 1..f.atRisk
  /\ "resolvedSince" \in DOMAIN f => t.resolvedAt # 0 /\ t.resolvedAt >= f.resolvedSince
  /\ "updatedSince" \in DOMAIN f => t.updatedAt >= f.updatedSince
  /\ "unreadFor" \in DOMAIN f =>
       LET own == {r \in reads : r.ticket = t.id /\ r.user = f.unreadFor}
       IN  \/ \E r \in own : r.at = 0
           \/ t.customerAt # 0 /\ \A r \in own : r.at < t.customerAt

\* Both dialects list the tickets the filter means, whatever fields are set
\* together; and the pages of a list, in an order without ties, are the list.
ListSays(f, world) ==
  LET meant == {t \in world.tickets : Matches(t, f, world.reads)}
      lite == SqliteListTickets(f)
      post == PostgresListTickets(f)
      page(n) == Page(meant, [sortBy |-> "id", asc |-> TRUE, limit |-> 2, offset |-> 2 * n])
  IN  /\ Runs(lite) /\ Rows(lite, world.tickets, world.reads) = meant
      /\ Runs(post) /\ Rows(post, world.tickets, world.reads) = meant
      /\ page(0) \o page(1) \o page(2) = SetToSortSeq(meant, LAMBDA t, u : t.id < u.id)

\* Every number of the inbox is what its list shows: a tile's, the tickets of
\* the queue with the tile's filters; a view's, the open ones of the list its
\* id opens (all of them when it names a status). The ticket page recalls the
\* queue that was shown, and what is unread is among what is counted.
InboxSays(world, raw, uid, saved) ==
  LET views == inboxViews(uid, saved)
      shown == agentIndex(world, raw, uid, saved)
      opened(q) == agentIndex(world, q, uid, saved)
      names(q) == "status" \in DOMAIN q /\ q.status # ""
  IN  /\ \A tile \in DOMAIN Tiles : shown.inbox.stats[tile] = Cardinality(opened(With(shown.queue.filters, Tiles[tile])).rows)
      /\ \A i \in DOMAIN views :
           LET list == opened([view |-> views[i].id])
           IN  /\ list.queue = viewQueue(views[i])
               /\ shown.inbox.views[i] = Cardinality({t \in list.rows : names(views[i].filters) \/ IsOpen(t)})
      /\ recalledQueue(shown.queue.key, uid, views) = shown.queue
      /\ \A k \in {"mine", "unassigned", "all"} : shown.inbox.unread[k] <= shown.inbox.counts[k] /\ shown.inbox.counts[k] <= shown.inbox.counts.all

\* A tile of the dashboard misses an open ticket it is about only where it is
\* full of newer ones, or newer tickets that are closed by now took the places
\* of the list it is cut from; and it shows nothing else, the newest first.
DashboardSays(world, uid, attention, tile) ==
  LET d == Dashboard(world, uid, attention, tile)
      Newer(t, S) == Cardinality({u \in S : u.createdAt > t.createdAt})
      Listed(S) == {t \in S : IsOpen(t) /\ Newer(t, S) < attention}
      Shown(S) == {t \in S : Newer(t, S) < tile}
      Waiting(p) == {t \in world.tickets : t.assigned = Nil /\ t.priority = p}
      InOrder(s) == \A i, j \in DOMAIN s : i < j => s[i].createdAt > s[j].createdAt
  IN  /\ ToSet(d.breaching) = Shown(Listed({t \in world.tickets : t.breached})) /\ InOrder(d.breaching)
      /\ ToSet(d.urgent) = Shown(Listed(Waiting("urgent")) \cup Listed(Waiting("critical"))) /\ InOrder(d.urgent)
      /\ Len(d.breaching) <= d.breached /\ Len(d.urgent) <= d.unassigned /\ d.mine + d.unassigned <= d.open
=============================================================================
