----------------------------- MODULE WorkflowRules -----------------------------
(***************************************************************************)
(* Workflows (services/workflow_engine.go, workflow_runner.go) and the SLA   *)
(* policy a ticket gets (ticket_routing.go): what a condition says of a      *)
(* ticket, and what one event makes of it. Texts are sequences of            *)
(* characters; JSON values are [kind, text] records.                         *)
(***************************************************************************)
EXTENDS Integers, Sequences, FiniteSets, SequencesExt

Nil == "nil"
-----------------------------------------------------------------------------
(* Conditions.                                                              *)

DigitOf == [c \in {"0", "1", "2", "9"} |-> CASE c = "0" -> 0 [] c = "1" -> 1 [] c = "2" -> 2 [] OTHER -> 9]

\* The number a text reads as: 0 where it is no number, and none for "NaN",
\* which ParseFloat takes.
NaN == <<"N", "a", "N">>
ParseFloat(s) ==
  IF s = NaN THEN {}
  ELSE IF s = <<>> \/ \E i \in DOMAIN s : s[i] \notin DOMAIN DigitOf THEN {0}
  ELSE {FoldLeft(LAMBDA n, c : 10 * n + DigitOf[c], 0, s)}

Blank(s) == \A i \in DOMAIN s : s[i] = " "
Has(s, t) == \E i \in 0..(Len(s) - Len(t)) : SubSeq(s, i + 1, i + Len(t)) = t

Operators ==
  {"equals", "not_equals", "contains", "not_contains", "starts_with", "ends_with", "greater_than", "less_than",
   "greater_or_equal", "less_or_equal", "is_empty", "is_not_empty"}

\* Of what is not a number no comparison holds.
compare(op, actual, expected) ==
  \E a \in actual, e \in expected :
    \/ op = "greater_than" /\ a > e
    \/ op = "less_than" /\ a < e
    \/ op = "greater_or_equal" /\ a >= e
    \/ op = "less_or_equal" /\ a <= e

applyOperator(op, actual, expected) ==
  CASE op = "equals" -> actual = expected
    [] op = "not_equals" -> actual # expected
    [] op = "contains" -> Has(actual, expected)
    [] op = "not_contains" -> ~Has(actual, expected)
    [] op = "starts_with" -> IsPrefix(expected, actual)
    [] op = "ends_with" -> IsSuffix(expected, actual)
    [] op = "is_empty" -> Blank(actual)
    [] op = "is_not_empty" -> ~Blank(actual)
    [] OTHER -> compare(op, ParseFloat(actual), ParseFloat(expected))

\* An account is an object with a type and an id, a text or a number.
routingAccount(v) ==
  IF v.kind = "object" /\ v.type.kind = "text" /\ v.type.text # <<>> /\ v.id.kind \in {"text", "number"} /\ v.id.text # <<>>
  THEN <<v.type.text, v.id.text>> ELSE <<>>

ofAccount(c, account) ==
  LET wanted == routingAccount(c.value) IN
  CASE c.operator = "is_empty" -> account = <<>>
    [] c.operator = "is_not_empty" -> account # <<>>
    [] wanted = <<>> -> FALSE
    [] OTHER -> \/ c.operator = "equals" /\ account = wanted
                \/ c.operator = "not_equals" /\ account # wanted

Joined(tags) == FlattenSeq([i \in DOMAIN tags |-> IF i = 1 THEN tags[i] ELSE <<",", " ">> \o tags[i]])

\* td: a ticket's fields as texts, its tags in order, its account or <<>>.
resolveField(field, td) ==
  IF field = "tags" THEN Joined(td.tags) ELSE IF field \in DOMAIN td.fields THEN td.fields[field] ELSE <<>>

Denied == [not_equals |-> "equals", not_contains |-> "contains"]

\* Tags one by one: some tag equals or contains the value, or none does.
evaluateSingle(c, td) ==
  LET anyTag == \E i \in DOMAIN td.tags :
                  applyOperator(IF c.operator \in DOMAIN Denied THEN Denied[c.operator] ELSE c.operator, td.tags[i], c.value)
  IN CASE c.field = "account" -> ofAccount(c, td.account)
       [] c.field = "tags" /\ c.operator \in {"equals", "contains", "not_equals", "not_contains"} ->
            anyTag = (c.operator \notin DOMAIN Denied)
       [] OTHER -> applyOperator(c.operator, resolveField(c.field, td), c.value)

\* A group with conditions under `all` ignores those under `any`.
EvaluateConditions(group, td) ==
  CASE group.all # <<>> -> \A i \in DOMAIN group.all : evaluateSingle(group.all[i], td)
    [] group.any # <<>> -> \E i \in DOMAIN group.any : evaluateSingle(group.any[i], td)
    [] OTHER -> TRUE

\* stored: [kind, group | list]; a flat list is all of it, anything else never
\* matches.
parseWorkflowConditions(stored) ==
  CASE stored.kind = "group" -> stored.group
    [] stored.kind = "list" -> [all |-> stored.list, any |-> <<>>]
    [] stored.kind = "none" -> [all |-> <<>>, any |-> <<>>]
    [] OTHER -> [all |-> <<[field |-> "__invalid", operator |-> "equals", value |-> <<"x">>]>>, any |-> <<>>]

Opposites ==
  {<<"equals", "not_equals">>, <<"contains", "not_contains">>, <<"is_empty", "is_not_empty">>,
   <<"greater_than", "less_or_equal">>, <<"less_than", "greater_or_equal">>}

\* One of two opposite operators holds of any value, but neither of an account
\* that cannot be read, nor of two texts to compare one of which says it is not
\* a number; and equal texts are contained, begun and ended with.
ConditionSays(c, td) ==
  /\ \A o \in Opposites :
       LET one == evaluateSingle([c EXCEPT !.operator = o[1]], td)
           other == evaluateSingle([c EXCEPT !.operator = o[2]], td)
       IN  IF o[1] \in {"greater_than", "less_than"} /\ c.field # "account" /\ NaN \in {c.value, resolveField(c.field, td)}
           THEN ~one /\ ~other
           ELSE IF c.field # "account" \/ o[1] = "is_empty" THEN one # other
           ELSE IF o[1] = "equals" /\ routingAccount(c.value) # <<>> THEN one # other
           ELSE ~one /\ ~other
  /\ c.field # "account" /\ evaluateSingle([c EXCEPT !.operator = "equals"], td) =>
       evaluateSingle([c EXCEPT !.operator = "contains"], td)
  /\ c.field # "account" /\ evaluateSingle([c EXCEPT !.operator = "starts_with"], td) =>
       c.field = "tags" \/ evaluateSingle([c EXCEPT !.operator = "contains"], td)
-----------------------------------------------------------------------------
(* What an event does. A world: the row's columns, its tags, what is stored  *)
(* beside it, what was announced, the logs; and what does not change: the    *)
(* tags that exist, the custom statuses, who may be assigned, and the kinds  *)
(* of write that fail.                                                       *)

LegacyEventNames ==
  [e \in {"ticket.replied", "internal_note.added", "internal_note.created", "tag.added", "ticket.tagged", "tag.removed",
          "ticket.untagged", "chat.session_started", "chat.session_ended"} |->
     CASE e = "ticket.replied" -> "reply.created"
       [] e \in {"internal_note.added", "internal_note.created"} -> "note.created"
       [] e \in {"tag.added", "ticket.tagged"} -> "ticket.tag_added"
       [] e \in {"tag.removed", "ticket.untagged"} -> "ticket.tag_removed"
       [] e = "chat.session_started" -> "chat.started"
       [] OTHER -> "chat.ended"]

CanonicalEventName(e) == IF e \in DOMAIN LegacyEventNames THEN LegacyEventNames[e] ELSE e
EventNamesFor(e) == {CanonicalEventName(e)} \cup {old \in DOMAIN LegacyEventNames : LegacyEventNames[old] = CanonicalEventName(e)}

activeForEvent(workflows, e) ==
  SetToSortSeq({w \in workflows : w.active /\ w.event \in EventNamesFor(e)},
               LAMBDA x, y : x.position < y.position \/ (x.position = y.position /\ x.id < y.id))

Variables == {"reference", "subject", "status", "priority"}

\* A text is one word, or the name of a placeholder.
InterpolateVariables(text, td) == IF text \in Variables THEN td.fields[text] ELSE <<text>>

BuiltInStatuses == {"open", "resolved", "closed"}
Priorities == {"low", "urgent"}
resolveStatusDirect(value, custom) ==
  CASE value \in BuiltInStatuses -> <<value, Nil>>
    [] value \in DOMAIN custom -> <<custom[value], value>>
    [] OTHER -> <<>>

toInt(value) == IF value \in {"1", "2"} THEN value ELSE "0"

Done(world) == [ok |-> TRUE, world |-> world]
Error(world) == [ok |-> FALSE, world |-> world]
Write(world, kind, columns) ==
  IF kind \in world.breaks THEN Error(world)
  ELSE Done([world EXCEPT !.row = [k \in DOMAIN @ |-> IF k \in DOMAIN columns THEN columns[k] ELSE @[k]]])

\* Through the ticket service: a change is announced, what changes nothing is
\* not; a tag nobody made is none.
tagAction(world, tag, add) ==
  IF tag \notin world.known \/ add = (tag \in world.tags) THEN Done(world)
  ELSE IF "tags" \in world.breaks THEN Error(world)
  ELSE Done([world EXCEPT !.tags = IF add THEN @ \cup {tag} ELSE @ \ {tag},
                          !.announced = Append(@, <<IF add THEN "ticket.tag_added" ELSE "ticket.tag_removed", tag>>)])

Note(world, value, td, internal) ==
  IF "replies" \in world.breaks THEN Error(world)
  ELSE Done([world EXCEPT !.replies = Append(@, [body |-> InterpolateVariables(value, td), internal |-> internal])])

runAction(world, td, a) ==
  CASE a.type = "change_status" ->
         LET s == resolveStatusDirect(a.value, world.custom)
         IN  IF s = <<>> THEN Error(world) ELSE Write(world, "status", [status |-> s[1], ticket_status_id |-> s[2]])
    [] a.type = "change_priority" ->
         IF a.value \notin Priorities THEN Error(world) ELSE Write(world, "priority", [priority |-> a.value])
    [] a.type = "assign_agent" ->
         IF world.restricted /\ a.value \notin world.viewers THEN Error(world)
         ELSE IF a.value \in {"", "0"} THEN Done(world) ELSE Write(world, "assigned_to", [assigned_to |-> a.value])
    [] a.type = "set_department" -> Write(world, "department_id", [department_id |-> toInt(a.value)])
    [] a.type = "set_type" -> Write(world, "ticket_type", [ticket_type |-> a.value])
    [] a.type \in {"add_tag", "remove_tag"} -> tagAction(world, a.value, a.type = "add_tag")
    [] a.type \in {"add_note", "add_internal_note"} -> Note(world, a.value, td, TRUE)
    [] a.type = "insert_canned_reply" -> Note(world, a.value, td, FALSE)
    [] a.type = "add_follower" ->
         IF a.value \in {"", "0"} THEN Done(world)
         ELSE IF "followers" \in world.breaks THEN Error(world)
         ELSE Done([world EXCEPT !.followers = @ \cup {a.value}])
    [] OTHER -> Done(world)

scheduleDelayed(world, wf, rest) ==
  IF "delayed" \in world.breaks THEN Error(world)
  ELSE Done([world EXCEPT !.delayed = Append(@, [workflow |-> wf.id, actions |-> rest])])

\* In order: an error ends the run, and so does a delay, which keeps the rest.
Following(wf, td, s, i) ==
  LET a == wf.actions[i] IN
  IF ~s.going THEN s
  ELSE IF a.type = "delay"
  THEN LET r == scheduleDelayed(s.world, wf, SubSeq(wf.actions, i + 1, Len(wf.actions)))
       IN  [going |-> FALSE, ok |-> r.ok, world |-> r.world]
  ELSE LET r == runAction(s.world, td, a) IN [going |-> r.ok, ok |-> r.ok, world |-> r.world]

executeActions(world, wf, td) ==
  FoldLeft(LAMBDA s, i : Following(wf, td, s, i), [going |-> TRUE, ok |-> TRUE, world |-> world], [i \in DOMAIN wf.actions |-> i])

writeLog(world, wf, status) == [world EXCEPT !.logs = Append(@, [workflow |-> wf.id, status |-> status])]

runOne(world, wf, td) ==
  IF ~EvaluateConditions(parseWorkflowConditions(wf.conditions), td)
  THEN [matched |-> FALSE, world |-> writeLog(world, wf, "skipped")]
  ELSE LET r == executeActions(world, wf, td)
       IN  [matched |-> TRUE, world |-> writeLog(r.world, wf, IF r.ok THEN "success" ELSE "failed")]

ticketToData(world) ==
  [fields |-> world.texts @@ [priority |-> <<world.row.priority>>, status |-> <<world.row.status>>],
   tags |-> SetToSortSeq({<<t>> : t \in world.tags}, LAMBDA x, y : x = <<"a">> /\ y = <<"b">>), account |-> world.account]

\* Fault: each workflow reads the ticket the workflows before it left.
EachAfresh(workflows, e, world) ==
  FoldLeft(LAMBDA s, wf : IF s.stopped THEN s
                          ELSE LET r == runOne(s.world, wf, ticketToData(s.world))
                               IN  [stopped |-> r.matched /\ wf.stop, world |-> r.world],
           [stopped |-> FALSE, world |-> world], activeForEvent(workflows, e)).world

\* The ticket and its tags are read once, before the first workflow.
RunForEvent(workflows, e, world) ==
  LET td == ticketToData(world) IN
  FoldLeft(LAMBDA s, wf : IF s.stopped THEN s
                          ELSE LET r == runOne(s.world, wf, td) IN [stopped |-> r.matched /\ wf.stop, world |-> r.world],
           [stopped |-> FALSE, world |-> world], activeForEvent(workflows, e)).world

DryRun(group, actions, td) ==
  LET matched == EvaluateConditions(group, td)
  IN  [matched |-> matched,
       actions |-> [i \in DOMAIN actions |-> [type |-> actions[i].type, would_execute |-> matched]]]

\* Whether an action by itself fails, whatever ran before it.
Refused(world, a) ==
  \/ a.type = "change_status" /\ (resolveStatusDirect(a.value, world.custom) = <<>> \/ "status" \in world.breaks)
  \/ a.type = "change_priority" /\ (a.value \notin Priorities \/ "priority" \in world.breaks)
  \/ a.type = "assign_agent" /\ world.restricted /\ a.value \notin world.viewers
  \/ a.type = "assign_agent" /\ a.value \notin {"", "0"} /\ "assigned_to" \in world.breaks

before(x, y) == x.position < y.position \/ (x.position = y.position /\ x.id < y.id)
LastOf(reached, types, sees(_), world) ==
  LET of == {p \in reached : LET a == p[1].actions[p[2]] IN a.type \in types /\ ~Refused(world, a) /\ sees(a.value)}
      later(p, q) == before(q[1], p[1]) \/ (p[1] = q[1] /\ p[2] > q[2])
  IN  {p[1].actions[p[2]] : p \in {x \in of : \A q \in of \ {x} : later(x, q)}}

ActionsAsMeant(world, after, ran, reached) ==
  LET any(v) == TRUE IN
  /\ \A status \in {LastOf(reached, {"change_status"}, any, world)} :
       <<after.row.status, after.row.ticket_status_id>>
         \in IF status = {} THEN {<<world.row.status, world.row.ticket_status_id>>}
             ELSE {resolveStatusDirect(a.value, world.custom) : a \in status}
  /\ \A agent \in {LastOf(reached, {"assign_agent"}, LAMBDA v : v \notin {"", "0"}, world)} :
       after.row.assigned_to \in IF agent = {} THEN {world.row.assigned_to} ELSE {a.value : a \in agent}
  /\ \A t \in world.known : \A tag \in {LastOf(reached, {"add_tag", "remove_tag"}, LAMBDA v : v = t, world)} :
       (t \in after.tags) \in IF tag = {} THEN {t \in world.tags} ELSE {a.type = "add_tag" : a \in tag}
  /\ {[workflow |-> p[1].id, actions |-> SubSeq(p[1].actions, p[2] + 1, Len(p[1].actions))] :
        p \in {q \in reached : q[1].actions[q[2]].type = "delay"}} = ToSet(after.delayed)
  /\ \A w \in ran : \E k \in DOMAIN after.logs :
       /\ after.logs[k].workflow = w.id
       /\ (after.logs[k].status = "failed") = \E p \in reached : p[1] = w /\ Refused(world, p[1].actions[p[2]])
       /\ k = 1 + Cardinality({x \in ran : before(x, w)})

LogsAsMeant(after, ran, matching) ==
  /\ Len(after.logs) = Cardinality(ran)
  /\ \A w \in ran : \E k \in DOMAIN after.logs :
       after.logs[k].workflow = w.id /\ (after.logs[k].status = "skipped") = (w \notin matching)

Reached(ran, matching, world) ==
  {<<w, i>> \in (ran \cap matching) \X (1..3) :
     i \in DOMAIN w.actions /\ \A j \in 1..(i - 1) : w.actions[j].type # "delay" /\ ~Refused(world, w.actions[j])}

RanAsMeant(e, world, after, workflows, matching, dry) ==
  LET subscribed == {w \in workflows : w.active /\ CanonicalEventName(w.event) = CanonicalEventName(e)} IN
  \A ran \in {{w \in subscribed : ~\E x \in subscribed \cap matching : before(x, w) /\ x.stop}} :
    /\ dry = matching
    /\ LogsAsMeant(after, ran, matching)
    /\ ActionsAsMeant(world, after, ran, Reached(ran, matching, world))

\* Every workflow of the event, in order, up to the first that matched and
\* stops, has a log; each that matched did its actions up to the first that
\* failed or the delay, and kept all that follows the delay; and a column has
\* what the last action on it left.
RunSays(workflows, e, world) ==
  LET td == ticketToData(world)
  IN  RanAsMeant(e, world, RunForEvent(workflows, e, world), workflows,
                 {w \in workflows : EvaluateConditions(parseWorkflowConditions(w.conditions), td)},
                 {w \in workflows : DryRun(parseWorkflowConditions(w.conditions), w.actions, td).matched})
-----------------------------------------------------------------------------
(* The SLA policy of a ticket.                                              *)

policyRank(p, t) ==
  CASE ~p.active \/ p.department \notin {Nil, t.department} \/ p.type \notin {Nil, t.type} -> -1
    [] p.department # Nil /\ p.type # Nil -> 3
    [] p.department # Nil -> 2
    [] p.type # Nil -> 1
    [] p.default -> 0
    [] OTHER -> -1

\* None or one: as listed, one replaces another of a lower rank, or of a higher id.
selectTargetedPolicy(policies, t) ==
  FoldLeft(LAMBDA s, p : LET r == policyRank(p, t)
                         IN  IF r >= 0 /\ \A q \in s : r > policyRank(q, t) \/ (r = policyRank(q, t) /\ p.id < q.id) THEN {p} ELSE s,
           {}, policies)

\* What fits a ticket more closely wins: its department before its type,
\* either before the default; and how the policies are listed does not matter.
PolicySays(policies, t) ==
  LET fits == {p \in ToSet(policies) : p.active /\ p.department \in {Nil, t.department} /\ p.type \in {Nil, t.type}
                                         /\ (p.default \/ p.department # Nil \/ p.type # Nil)}
      closer(p, q) ==
        \/ p.department # Nil /\ q.department = Nil
        \/ (p.department = Nil) = (q.department = Nil) /\ p.type # Nil /\ q.type = Nil
      s == selectTargetedPolicy(policies, t)
  IN  /\ s = {} <=> fits = {}
      /\ s \subseteq fits /\ \A p \in s, q \in fits : ~closer(q, p) /\ (~closer(p, q) => p.id <= q.id)
      /\ \A i, j \in DOMAIN policies :
           selectTargetedPolicy([policies EXCEPT ![i] = policies[j], ![j] = policies[i]], t) = s
=============================================================================
