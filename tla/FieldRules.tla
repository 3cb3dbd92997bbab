----------------------------- MODULE FieldRules -----------------------------
(***************************************************************************)
(* What custom fields and custom objects accept and what they store         *)
(* (services/custom_fields.go, handlers/custom_fields.go). A JSON value is   *)
(* [k, v, l]: a string v is one of Texts, each with what the parsers make of *)
(* it; a list l is a sequence of such values. An encoded value is what the column  *)
(* holds.                                                                   *)
(***************************************************************************)
EXTENDS Integers, Sequences, FiniteSets

Nil == [k |-> "null", v |-> "", l |-> <<>>]
Str(s) == [Nil EXCEPT !.k = "string", !.v = s]
Num(s) == [Nil EXCEPT !.k = "number", !.v = s]
Bool(b) == [Nil EXCEPT !.k = "bool", !.v = IF b THEN "true" ELSE "false"]
List(s) == [Nil EXCEPT !.k = "list", !.l = s]

\* The strings, trimmed: blank, a word, a second word, a number and another
\* way to write it, what checks read as false and as true, a date, one of more
\* than 255 characters, and one ParseFloat reads as not a number.
Texts == {"", "red", "blue", "1", "1.0", "0", "true", "false", "date", "long", "NaN"}

\* The number ParseFloat makes of a text it accepts, as FormatFloat writes it.
FloatOf == [s \in {"1", "1.0", "0", "NaN"} |-> IF s = "1.0" THEN "1" ELSE s]
Finite(s) == s \in DOMAIN FloatOf /\ FloatOf[s] # "NaN"

emptyValue(raw) == raw = Nil \/ raw = Str("") \/ raw = List(<<>>)

boolish(raw) ==
  LET yes == raw \in {Bool(TRUE), Num("1"), Str("1"), Str("true")}
  IN  [is |-> yes, ok |-> yes \/ raw \in {Nil, Bool(FALSE), Num("0"), Str("0"), Str("false"), Str("")}]

No == [ok |-> FALSE, stored |-> Nil]
Yes(v) == [ok |-> TRUE, stored |-> v]

\* f: [type, options]. What is stored is a string, or the JSON of a list: of a
\* number its one way to be written, of a text that is one the text as it came.
encodeFieldValue(f, raw) ==
  CASE f.type = "number" ->
         IF raw.k = "number" THEN Yes(Str(raw.v))
         ELSE IF raw.k = "string" /\ Finite(raw.v) THEN Yes(raw) ELSE No
    [] f.type = "date" -> IF raw = Str("date") THEN Yes(raw) ELSE No
    [] f.type = "checkbox" ->
         IF raw \in {Bool(TRUE), Num("1"), Str("1"), Str("true")} THEN Yes(Str("1"))
         ELSE IF raw \in {Bool(FALSE), Num("0"), Str("0"), Str("false")} THEN Yes(Str("0")) ELSE No
    [] f.type = "select" -> IF raw.k = "string" /\ raw.v \in f.options THEN Yes(raw) ELSE No
    [] f.type = "multi_select" ->
         IF raw.k = "list" /\ \A i \in DOMAIN raw.l : raw.l[i].k = "string" /\ raw.l[i].v \in f.options
         THEN Yes(raw) ELSE No
    [] f.type = "text" -> IF raw.k = "string" /\ raw.v # "long" THEN Yes(raw) ELSE No
    [] OTHER -> IF raw.k = "string" THEN Yes(raw) ELSE No

decodeFieldValue(type, stored) ==
  CASE type = "multi_select" -> IF stored.k = "list" THEN stored ELSE List(<<>>)
    [] type = "checkbox" -> Bool(stored \in {Str("1"), Str("true")})
    [] type = "number" -> IF stored.v \in DOMAIN FloatOf THEN Num(FloatOf[stored.v]) ELSE stored
    [] OTHER -> stored

\* fields: a set of [slug, type, options, required, active, context]; input:
\* a function from slugs to values. Nil in values deletes the stored value.
ActiveTicketFields(fields) == {f \in fields : f.context = "ticket" /\ f.active}

ValidateTicketValues(fields, input, creating) ==
  LET live == ActiveTicketFields(fields)
      sent == {f \in live : f.slug \in DOMAIN input}
      blank == {f \in sent : emptyValue(input[f.slug])}
      bad == {f \in sent \ blank : ~encodeFieldValue(f, input[f.slug]).ok}
      missing == {f \in live \ sent : creating /\ f.required}
  IN  [errors |-> (DOMAIN input \ {f.slug : f \in live}) \cup {f.slug : f \in {b \in blank : b.required} \cup bad \cup missing},
       values |-> [s \in {f.slug : f \in {b \in blank : ~b.required} \cup (sent \ (blank \cup bad))} |->
                    LET f == CHOOSE x \in live : x.slug = s
                    IN  IF emptyValue(input[s]) THEN Nil ELSE encodeFieldValue(f, input[s]).stored]]

\* What SaveTicketValues leaves of the values a ticket held.
SavedValues(old, values) ==
  LET kept == {s \in DOMAIN values : values[s] # Nil}
  IN  [s \in (DOMAIN old \ DOMAIN values) \cup kept |-> IF s \in kept THEN values[s] ELSE old[s]]

\* schema: a sequence of [name, type, required, options].
ValidateRecordData(schema, data) ==
  (DOMAIN data \ {schema[i].name : i \in DOMAIN schema})
    \cup {schema[i].name : i \in {j \in DOMAIN schema :
            LET f == schema[j]
                absent == f.name \notin DOMAIN data \/ emptyValue(data[f.name])
                raw == data[f.name]
            IN  IF absent THEN f.required
                ELSE CASE f.type = "number" -> ~(raw.k = "number" \/ (raw.k = "string" /\ raw.v \in DOMAIN FloatOf))
                       [] f.type = "date" -> raw # Str("date")
                       [] f.type = "select" -> ~(raw.k = "string" /\ raw.v \in f.options)
                       [] OTHER -> FALSE}}

TicketFieldTypes == {"text", "textarea", "select", "multi_select", "checkbox", "date", "number"}
CustomFieldContexts == {"ticket", "user", "organization"}

\* The form: a function from some of its keys to values. f is the field it
\* is applied to, its options a sequence.
applyCustomFieldInput(in, f) ==
  LET Text(key) == IF key \in DOMAIN in /\ in[key].k = "string" THEN in[key].v ELSE ""
      Flag(key, old) == IF key \in DOMAIN in THEN boolish(in[key]).is ELSE old
      Boolish(key) == key \notin DOMAIN in \/ boolish(in[key]).ok
      Taken[i \in Nat] ==
        IF i = 0 THEN <<>>
        ELSE LET s == in["options"].l[i].v
             IN  IF s = "" \/ \E k \in DOMAIN Taken[i - 1] : Taken[i - 1][k] = s THEN Taken[i - 1] ELSE Append(Taken[i - 1], s)
      strings == in["options"].k = "list" /\ \A i \in DOMAIN in["options"].l : in["options"].l[i].k = "string"
      options == IF "options" \notin DOMAIN in THEN f.options
                 ELSE IF strings THEN Taken[Len(in["options"].l)] ELSE <<>>
      refused == "options" \in DOMAIN in /\ in["options"].k # "null" /\ ~strings
  IN  [field |-> [name |-> Text("name"), type |-> Text("type"), context |-> Text("context"), options |-> options,
                  required |-> Flag("required", f.required), active |-> Flag("active", f.active)],
       errors |-> {k \in {"name"} : Text("name") \in {"", "long"}}
                    \cup {k \in {"type"} : Text("type") \notin TicketFieldTypes}
                    \cup {k \in {"context"} : Text("context") \notin CustomFieldContexts}
                    \cup {k \in {"options"} : refused \/ (Text("type") \in {"select", "multi_select"} /\ options = <<>>)}
                    \cup {k \in {"required", "active"} : ~Boolish(k)}]

\* rows: the objects' slugs by id; id is 0 for a new object.
applyCustomObjectInput(in, rows, id) ==
  {k \in {"name"} : in.name \in {"", "long"}}
    \cup {k \in {"slug"} : in.slug \in {"", "long", "a b"} \/ \E o \in DOMAIN rows \ {id} : rows[o] = in.slug}
    \cup {k \in {"fields_schema"} : in.schema = <<>>
            \/ \E i \in DOMAIN in.schema : in.schema[i].name \in {"", "long"} \/ in.schema[i].type \notin {"text", "number", "select", "date", "lookup"}}
\* What a ticket's page shows of what it holds; Nil for no value.
TicketFieldValues(fields, held) ==
  [f \in ActiveTicketFields(fields) |-> IF f.slug \in DOMAIN held THEN decodeFieldValue(f.type, held[f.slug]) ELSE Nil]

\* positions: the last item of an id counts; a bad item, or an unknown field,
\* refuses them all.
ReorderCustomFields(items, known) ==
  LET ids == {items[i].id : i \in DOMAIN items}
      last(d) == CHOOSE i \in DOMAIN items : items[i].id = d /\ \A j \in DOMAIN items : items[j].id = d => j <= i
      ok == items # <<>> /\ ids \subseteq known /\ \A i \in DOMAIN items : items[i].position >= 0
  IN  [ok |-> ok, at |-> IF ok THEN [d \in ids |-> items[last(d)].position] ELSE [d \in {} |-> 0]]
-----------------------------------------------------------------------------
(* Statuses.                                                                *)

StatusCategories == <<"new", "open", "pending", "on_hold", "solved">>

\* st: [system, category, default]; in: a function from some form keys.
applyStatusInput(in, st) ==
  LET Text(key) == IF key \in DOMAIN in /\ in[key].k = "string" THEN in[key].v ELSE ""
      known == \E i \in DOMAIN StatusCategories : StatusCategories[i] = Text("category")
      category == known /\ ~(st.system /\ Text("category") # st.category)
      default == "is_default" \notin DOMAIN in \/ boolish(in["is_default"]).ok
  IN  [status |-> [system |-> st.system, category |-> IF category THEN Text("category") ELSE st.category,
                   default |-> IF "is_default" \in DOMAIN in THEN boolish(in["is_default"]).is ELSE st.default],
       errors |-> {k \in {"label"} : Text("label") \in {"", "long"}} \cup {k \in {"category"} : ~category}
                    \cup {k \in {"color"} : Text("color") \in {"", "long"}}
                    \cup {k \in {"description"} : "description" \in DOMAIN in /\ in["description"].k \notin {"string", "null"}}
                    \cup {k \in {"is_default"} : ~default}]

\* rows: a sequence of [position, category] in the order of their ids; the
\* indices as the admin list has them.
ListStatuses(rows) ==
  LET Rank(i) == IF \E c \in DOMAIN StatusCategories : StatusCategories[c] = rows[i].category
                 THEN CHOOSE c \in DOMAIN StatusCategories : StatusCategories[c] = rows[i].category ELSE 6
      Before(i, j) == \/ Rank(i) < Rank(j)
                      \/ Rank(i) = Rank(j) /\ (rows[i].position < rows[j].position \/ (rows[i].position = rows[j].position /\ i < j))
  IN  CHOOSE s \in [DOMAIN rows -> DOMAIN rows] : \A a, b \in DOMAIN rows : a < b => Before(s[a], s[b])

\* A status input: a built-in's name or number, or the slug of a row that is
\* not the system's. Anchors: the built-in status of each category.
Resolve(value, builtin, rows, anchors) ==
  IF value \in builtin THEN [ok |-> TRUE, status |-> value, custom |-> ""]
  ELSE IF \E r \in rows : r.slug = value /\ ~r.system
       THEN LET r == CHOOSE x \in rows : x.slug = value IN [ok |-> TRUE, status |-> anchors[r.category], custom |-> r.slug]
       ELSE [ok |-> FALSE, status |-> "", custom |-> ""]
-----------------------------------------------------------------------------
\* What was accepted is shown as it was meant, and sent back from the page is
\* accepted and shown the same; it is stored again as it is, but for a number
\* that came as a text, which is then written as a number is, and stays so.
FieldSays(f, raw) ==
  LET first == encodeFieldValue(f, raw)
      shown == decodeFieldValue(f.type, first.stored)
      again == encodeFieldValue(f, shown)
  IN  first.ok /\ ~emptyValue(raw) =>
        /\ again.ok /\ decodeFieldValue(f.type, again.stored) = shown
        /\ again = first \/ (f.type = "number" /\ raw.k = "string")
        /\ encodeFieldValue(f, decodeFieldValue(f.type, again.stored)) = again
        /\ (raw.k = shown.k \/ f.type = "number" \/ f.type = "checkbox") /\ (raw.k = shown.k => raw = shown)

\* Only active ticket fields are stored; a creation without errors has every
\* required one; an update leaves what it was not sent, and never clears a
\* required one.
ValuesSay(fields, input, creating, old) ==
  LET out == ValidateTicketValues(fields, input, creating)
      after == SavedValues(old, out.values)
      live == {f \in fields : f.active /\ f.context = "ticket"}
  IN  out.errors = {} =>
        /\ \A s \in DOMAIN out.values : \E f \in live : f.slug = s
        /\ \A f \in live : creating /\ f.required => f.slug \in DOMAIN after /\ after[f.slug] # Nil
        /\ \A s \in DOMAIN old \ DOMAIN input : s \in DOMAIN after /\ after[s] = old[s]
        /\ \A f \in live : f.required /\ f.slug \in DOMAIN old => f.slug \in DOMAIN after

\* What a value is stored as, the page shows; of the ticket fields only.
ShownSays(fields, input) ==
  LET out == ValidateTicketValues(fields, input, TRUE)
      shown == TicketFieldValues(fields, SavedValues([s \in {} |-> Nil], out.values))
  IN  out.errors = {} => \A f \in DOMAIN shown :
        /\ f.active /\ f.context = "ticket"
        /\ shown[f] # Nil <=> f.slug \in DOMAIN input /\ ~emptyValue(input[f.slug])

\* Refused, nothing moves; taken, each field named is where its last item says.
ReorderSays(items, known) ==
  LET r == ReorderCustomFields(items, known)
  IN  /\ ~r.ok => DOMAIN r.at = {}
      /\ r.ok => /\ DOMAIN r.at = {items[i].id : i \in DOMAIN items}
                 /\ \A i \in DOMAIN items : r.at[items[i].id] = items[i].position \/ \E j \in DOMAIN items : j > i /\ items[j].id = items[i].id

\* A status's row keeps its category when it is the system's; the list puts the
\* categories in their order; and a custom slug resolves to its category's anchor.
StatusSays(in, st) ==
  LET r == applyStatusInput(in, st)
  IN  r.errors = {} => /\ st.system => r.status.category = st.category
                       /\ r.status.category = in["category"].v
ListSays(rows) ==
  LET s == ListStatuses(rows)
  IN  \A a, b \in DOMAIN rows : a < b =>
        /\ s[a] # s[b]
        /\ rows[s[a]].category = rows[s[b]].category => rows[s[a]].position <= rows[s[b]].position
        /\ rows[s[b]].category # "other" => rows[s[a]].category # "other"

FormSays(in, f) ==
  LET r == applyCustomFieldInput(in, f)
  IN  r.errors = {} =>
        /\ r.field.type \in {"select", "multi_select"} => Len(r.field.options) > 0
        /\ "options" \in DOMAIN in => /\ \A i, j \in DOMAIN r.field.options : i # j => r.field.options[i] # r.field.options[j]
                                      /\ \A i \in DOMAIN r.field.options : r.field.options[i] # ""

RecordSays(schema, data) ==
  ValidateRecordData(schema, data) = {} =>
    \A i \in DOMAIN schema : /\ schema[i].required => schema[i].name \in DOMAIN data /\ ~emptyValue(data[schema[i].name])
                             /\ schema[i].type = "select" /\ schema[i].name \in DOMAIN data /\ ~emptyValue(data[schema[i].name])
                                  => data[schema[i].name].v \in schema[i].options
=============================================================================
