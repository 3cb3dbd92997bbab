----------------------------- MODULE RoutingRules -----------------------------
(***************************************************************************)
(* Which tickets the rules that run by the clock find                       *)
(* (services/automation_runner.go, escalation_service.go), whom a live chat *)
(* is given to (chat_routing_service.go), whether a visitor is told that    *)
(* there is somebody (chat_availability_service.go), and which agents have  *)
(* the skills a ticket asks for (skill_routing.go).                         *)
(***************************************************************************)
EXTENDS Integers, FiniteSets, SequencesExt

Nil == "nil"
Never == -1            \* no time
-----------------------------------------------------------------------------
(* Rules by the clock. A ticket's times are hours; the value of a condition  *)
(* is a number, a text, or an account [type, id].                            *)

StatusName == [s \in {"open", "escalated", "resolved"} |-> CASE s = "open" -> 0 [] s = "escalated" -> 4 [] OTHER -> 5]
PriorityName == [p \in {"low", "high"} |-> CASE p = "low" -> 0 [] OTHER -> 2]
Numerals == [s \in {"2", "4", "7"} |-> CASE s = "2" -> 2 [] s = "4" -> 4 [] OTHER -> 7]

\* A number that is one, or its slug: one, or none.
enumFromValue(v, names) ==
  CASE v.kind = "number" -> {v.n} \cap Range(names)
    [] v.kind = "text" /\ v.text \in DOMAIN Numerals -> {Numerals[v.text]} \cap Range(names)
    [] v.kind = "text" /\ v.text \in DOMAIN names -> {names[v.text]}
    [] OTHER -> {}

\* What is no number reads as 0.
toInt(v) ==
  CASE v.kind = "number" -> v.n
    [] v.kind = "text" /\ v.text \in DOMAIN Numerals -> Numerals[v.text]
    [] OTHER -> 0

\* A pair of a type and an id; an account of one of the two is none. In SQL
\* nothing differs from NULL.
accountClause(v, op, t) ==
  LET whole == v.kind = "account" /\ v.type # Nil /\ v.id # Nil
      differs(x, y) == x \notin {Nil, y}
  IN
  \/ whole /\ op \in {"", "equals", "="} /\ <<t.account_type, t.account_id>> = <<v.type, v.id>>
  \/ whole /\ op \in {"not_equals", "!="} /\ (Nil \in {t.account_type, t.account_id} \/ differs(t.account_type, v.type) \/ differs(t.account_id, v.id))

\* More hours since than a number is before that many hours ago.
flipOperator(op) ==
  CASE op = ">" -> "<" [] op = ">=" -> "<=" [] op = "<" -> ">" [] op = "<=" -> ">=" [] op = "=" -> "=" [] OTHER -> "<"

Compares(x, op, y) ==
  (op \in {"<", "<="} /\ x < y) \/ (op \in {">", ">="} /\ x > y) \/ (op \in {"=", "<=", ">="} /\ x = y)

Since(at, c, now) == Compares(at, flipOperator(c.operator), now - toInt(c.value))

\* Automations: an unknown field asks for nothing, an unknown status for the impossible.
automationClause(c, t, now) ==
  CASE c.field = "account" -> accountClause(c.value, c.operator, t)
    [] c.field = "department_id" -> t.department_id = toInt(c.value)
    [] c.field = "ticket_type" -> c.value.kind = "text" /\ t.ticket_type = c.value.text
    [] c.field = "hours_since_created" -> Since(t.created_at, c, now)
    [] c.field = "hours_since_updated" -> Since(t.updated_at, c, now)
    [] c.field = "hours_since_assigned" -> t.assigned_to # Nil /\ Since(t.updated_at, c, now)
    [] c.field = "status" -> t.status \in enumFromValue(c.value, StatusName)
    [] c.field = "priority" -> t.priority \in enumFromValue(c.value, PriorityName)
    [] c.field = "assigned" /\ c.value = [kind |-> "text", text |-> "unassigned"] -> t.assigned_to = Nil
    [] c.field = "assigned" /\ c.value = [kind |-> "text", text |-> "assigned"] -> t.assigned_to # Nil
    [] OTHER -> TRUE

\* Escalation rules read a status and a priority as a number.
escalationClause(c, t, now) ==
  CASE c.field = "account" -> accountClause(c.value, c.operator, t)
    [] c.field = "ticket_type" -> c.value.kind = "text" /\ t.ticket_type = c.value.text
    [] c.field = "status" -> t.status = toInt(c.value)
    [] c.field = "priority" -> t.priority = toInt(c.value)
    [] c.field = "assigned" -> (t.assigned_to = Nil) = (c.value = [kind |-> "text", text |-> "unassigned"])
    [] c.field = "age_hours" -> t.created_at <= now - toInt(c.value)
    [] c.field = "no_response_hours" -> t.first_response_at = Never /\ t.created_at <= now - toInt(c.value)
    [] c.field = "sla_breached" -> t.sla_breached
    [] c.field = "department_id" -> t.department_id = toInt(c.value)
    [] OTHER -> TRUE

Open(t) == t.resolved_at = Never /\ t.closed_at = Never

findMatchingTickets(conds, tickets, now) == {t \in tickets : Open(t) /\ \A c \in conds : automationClause(c, t, now)}
findMatchingTicketIDs(conds, tickets, now) == {t \in tickets : Open(t) /\ \A c \in conds : escalationClause(c, t, now)}

\* Rules find open tickets only; a condition on hours means the hours that
\* have passed, and what is not more is at most; either an account is the one
\* asked for or it is not, but a question about half an account finds nothing;
\* a status that is none finds nothing; and the two engines agree on the
\* conditions they share, as long as statuses and priorities are numbers.
FindsSay(c, t, now) ==
  LET found(x) == findMatchingTickets({x}, {t}, now) # {}
      escalated(x) == findMatchingTicketIDs({x}, {t}, now) # {}
      op(o) == [c EXCEPT !.operator = o]
      hours == CASE c.field = "hours_since_created" -> now - t.created_at [] OTHER -> now - t.updated_at
      n == toInt(c.value)
      number == c.value.kind = "number" \/ (c.value.kind = "text" /\ c.value.text \in DOMAIN Numerals)
  IN  /\ found(c) \/ escalated(c) => t.resolved_at = Never /\ t.closed_at = Never
      /\ c.field \in {"hours_since_created", "hours_since_updated"} /\ Open(t) =>
           /\ found(op(">")) <=> hours > n
           /\ found(op(">=")) <=> hours >= n
           /\ found(op("<")) <=> ~found(op(">="))
           /\ found(op("<=")) <=> ~found(op(">"))
           /\ found(op("=")) <=> hours = n
      /\ c.field = "hours_since_created" =>
           (found(op(">=")) <=> escalated([c EXCEPT !.field = "age_hours"]))
      /\ c.field = "account" =>
           IF c.value.kind = "account" /\ Nil \notin {c.value.type, c.value.id}
           THEN Open(t) => (found(op("equals")) <=> ~found(op("not_equals")))
           ELSE ~found(op("equals")) /\ ~found(op("not_equals"))
      /\ c.field = "status" /\ enumFromValue(c.value, StatusName) = {} => ~found(c)
      /\ c.field \in {"account", "department_id", "ticket_type"}
           \/ (c.field = "assigned" /\ c.value.kind = "text" /\ c.value.text \in {"assigned", "unassigned"})
           \/ (c.field \in {"status", "priority"} /\ number)
           => (found(c) <=> escalated(c))
-----------------------------------------------------------------------------
(* Live chats. A desk: the rules, how many active chats each agent has, who  *)
(* is online, and for each rule where its round stands.                      *)

DefaultMaxConcurrentChats == 5
-----------------------------------------------------------------------------
\* A department's own rules come before the global ones, the rest by priority.
Before(r, s) ==
  \/ r.department # Nil /\ s.department = Nil
  \/ /\ (r.department = Nil) = (s.department = Nil)
     /\ r.priority > s.priority \/ (r.priority = s.priority /\ r.id < s.id)

ListActiveChatRoutingRules(desk, department) ==
  SetToSortSeq({r \in desk.rules : r.active /\ (department # Nil => r.department \in {Nil, department})}, Before)

\* Agents whose own status is online and whom the host's hook, if any, accepts.
ChatAgentOnline(desk, agent) == desk.status[agent] = "online" /\ agent \in desk.accepted

onlineAgents(desk, agents) == SelectSeq(agents, LAMBDA a : ChatAgentOnline(desk, a))

\* The first of these agents, or none.
FirstOf(agents, good) ==
  LET is == {i \in DOMAIN agents : agents[i] \in good} IN IF is = {} THEN Nil ELSE agents[Min(is)]

\* The round goes on after the agent it chose.
nextIndex(i, n) == (i + 1) % n

roundRobin(desk, rule, agents) ==
  LET n == Len(agents)
      from == desk.round[rule.id]
      free == {i \in 0..(n - 1) : desk.count[agents[((from + i) % n) + 1]] < rule.max}
  IN  IF free = {} THEN [agent |-> Nil, round |-> desk.round]
      ELSE [agent |-> agents[((from + Min(free)) % n) + 1], round |-> [desk.round EXCEPT ![rule.id] = nextIndex(from + Min(free), n)]]

leastActive(desk, rule, agents) ==
  LET all == ToSet(agents)
      least == {a \in all : desk.count[a] < rule.max /\ \A b \in all : desk.count[a] <= desk.count[b]}
  IN  [agent |-> FirstOf(agents, least), round |-> desk.round]

evaluateRule(desk, rule, viewers) ==
  LET agents == onlineAgents(desk, SelectSeq(rule.agents, LAMBDA a : a \in viewers))
  IN  CASE agents = <<>> -> [agent |-> Nil, round |-> desk.round]
        [] rule.strategy = "least_active" -> leastActive(desk, rule, agents)
        [] OTHER -> roundRobin(desk, rule, agents)

\* The first rule with an answer decides. viewers may see the ticket: all
\* agents, unless access is restricted.
FindAvailableAgentForTicket(desk, department, viewers) ==
  FoldLeft(LAMBDA found, rule : IF found.agent # Nil THEN found ELSE evaluateRule(desk, rule, viewers),
           [agent |-> Nil, round |-> desk.round], ListActiveChatRoutingRules(desk, department))

IsAvailableForDepartment(desk, department) ==
  /\ desk.enabled
  /\ \E rule \in ToSet(ListActiveChatRoutingRules(desk, department)) :
       LET max == IF rule.max <= 0 THEN DefaultMaxConcurrentChats ELSE rule.max
       IN  \E a \in ToSet(rule.agents) : ChatAgentOnline(desk, a) /\ desk.count[a] < max
-----------------------------------------------------------------------------
\* Who may take a chat of a department by a rule.
Takes(desk, rule, department, viewers, a) ==
  /\ rule.active /\ (department = Nil \/ rule.department \in {Nil, department}) /\ a \in ToSet(rule.agents)
  /\ desk.status[a] = "online" /\ a \in desk.accepted /\ a \in viewers /\ desk.count[a] < rule.max

\* A chat goes to somebody who may take it by a rule no other such rule comes
\* before, the least busy one if it asks for that; to nobody only if nobody
\* may; and a visitor is told so, as long as every rule has a limit of its own.
RoutingSays(desk, department, viewers, all) ==
  LET found == FindAvailableAgentForTicket(desk, department, viewers).agent
      able == {r \in desk.rules : \E a \in all : Takes(desk, r, department, viewers, a)}
      decides == {r \in able : \A s \in able : r = s \/ Before(r, s)}
      told == IsAvailableForDepartment(desk, department)
      open == FindAvailableAgentForTicket(desk, department, all).agent
  IN  /\ found = Nil <=> able = {}
      /\ \A r \in decides :
           /\ Takes(desk, r, department, viewers, found)
           /\ r.strategy = "least_active" =>
                \A b \in all : Takes(desk, r, department, viewers, b) => desk.count[found] <= desk.count[b]
      /\ desk.enabled /\ (\A r \in desk.rules : r.max > 0) => (told <=> open # Nil)

RECURSIVE Turns(_, _, _, _)
Turns(desk, department, viewers, n) ==
  IF n = 0 THEN <<>>
  ELSE LET found == FindAvailableAgentForTicket(desk, department, viewers)
       IN  <<found.agent>> \o Turns([desk EXCEPT !.round = found.round], department, viewers, n - 1)

\* As long as nothing else changes, a round comes to everybody who may take a
\* chat once before it comes to anybody again, wherever it stands.
RoundSays(desk, rule, viewers) ==
  LET takers == {a \in ToSet(rule.agents) : Takes(desk, rule, rule.department, viewers, a)}
      turns == Turns([desk EXCEPT !.rules = {rule}], rule.department, viewers, Cardinality(takers))
  IN  rule.strategy = "round_robin" /\ takers # {} => ToSet(turns) = takers
-----------------------------------------------------------------------------
(* Skills. db: the skills of agents, which tags and departments ask for a    *)
(* skill, the tags stored with the ticket, and the tickets agents have.      *)

tagIDsForTicket(db, t) == IF t.tags # {} THEN t.tags ELSE db.ticketTags

requiredSkillIDs(db, t) ==
  {r.skill : r \in {x \in db.routingTags : x.tag \in tagIDsForTicket(db, t)}}
    \cup {r.skill : r \in {x \in db.routingDepartments : t.department # Nil /\ x.department = t.department}}

\* Users with a row for every skill, and the sum of their proficiencies.
candidatesWithAllSkills(db, required) ==
  LET rows(u) == {r \in db.agentSkills : r.user = u /\ r.skill \in required}
  IN  [u \in {x \in {r.user : r \in db.agentSkills} : {r.skill : r \in rows(x)} = required} |->
         MapThenSumSet(LAMBDA r : r.proficiency, rows(u))]

openTicketLoads(db, u) == Cardinality({x \in db.tickets : x.assigned_to = u /\ x.status \notin {"resolved", "closed"}})

FindMatchingAgents(db, t, viewers) ==
  LET required == requiredSkillIDs(db, t)
      score == candidatesWithAllSkills(db, required)
      ahead(u, v) ==
        \/ score[u] > score[v]
        \/ score[u] = score[v] /\ openTicketLoads(db, u) < openTicketLoads(db, v)
        \/ score[u] = score[v] /\ openTicketLoads(db, u) = openTicketLoads(db, v) /\ db.order[u] < db.order[v]
  IN  IF required = {} THEN <<>> ELSE SetToSortSeq(DOMAIN score \cap viewers, ahead)

\* Those are named, once each, who may see the ticket and have every skill its
\* tags and its department ask for; whoever has more of them comes first, and
\* of equals whoever has fewer open tickets; and another tag, which may ask for
\* another skill, brings nobody in who was out.
SkillsSay(db, t, viewers, tags) ==
  LET found(x) == FindMatchingAgents(db, x, viewers)
      has(u, k) == \E r \in db.agentSkills : r.user = u /\ r.skill = k
      asks(k) ==
        \/ \E r \in db.routingTags : r.skill = k /\ r.tag \in (IF t.tags = {} THEN db.ticketTags ELSE t.tags)
        \/ \E r \in db.routingDepartments : r.skill = k /\ r.department = t.department
      able == {u \in viewers : \A k \in db.skills : asks(k) => has(u, k)}
      list == found(t)
  IN  /\ ToSet(list) = IF \E k \in db.skills : asks(k) THEN able ELSE {}
      /\ IsInjective(list)
      /\ \A i, j \in DOMAIN list : i < j =>
           LET best(u, v) == \A k \in db.skills : asks(k) =>
                 \A p, q \in db.agentSkills : p.user = u /\ q.user = v /\ p.skill = k /\ q.skill = k => p.proficiency >= q.proficiency
               idle(u) == ~\E x \in db.tickets : x.assigned_to = u /\ x.status = "open"
           IN  /\ best(list[j], list[i]) => best(list[i], list[j])
               /\ best(list[j], list[i]) /\ best(list[i], list[j]) /\ idle(list[j]) => idle(list[i])
      /\ t.tags # {} /\ list # <<>> => \A g \in tags : ToSet(found([t EXCEPT !.tags = @ \cup {g}])) \subseteq ToSet(list)
=============================================================================
