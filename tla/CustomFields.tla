---------------------------- MODULE CustomFields ----------------------------
(***************************************************************************)
(* Custom fields and their tickets' values, custom objects and their        *)
(* records, custom ticket statuses, written by requests that read, check and *)
(* then write. enforced says whether the database enforces foreign keys      *)
(* (SQLite may not). A version stands for a row's other columns.             *)
(***************************************************************************)
EXTENDS Naturals, FiniteSets

CONSTANTS Workers, Ids, Tickets, Nil,
          Categories,
          MaxSlug,       \* bound: a slug is base, base_2 .. base_MaxSlug
          MaxWrites      \* bound on the requests

FieldRow == [slug : 1..MaxSlug, required : BOOLEAN]
StatusRow == [slug : 1..MaxSlug, category : Categories, default : BOOLEAN]

FieldsConstants ==
  /\ MaxSlug \in Nat \ {0} /\ MaxWrites \in Nat
  /\ Nil \notin Ids /\ Nil \notin Tickets /\ Nil \notin 1..MaxSlug /\ Nil \notin FieldRow /\ Nil \notin StatusRow

VARIABLES fields,        \* field id -> [slug, required] or Nil
          objects,       \* object id -> slug or Nil
          statuses,      \* status id -> [slug, category, default] or Nil
          used,          \* ids handed out, per table: never given again
          values,        \* rows [field, ticket, by] of custom_field_values
          records,       \* record id -> its object's id, or Nil
          onStatus,      \* ticket -> its custom status's id, or Nil
          worker, enforced, writes
vars == <<fields, objects, statuses, used, values, records, onStatus, worker, enforced, writes>>

Idle == [at |-> "idle", table |-> "fields", id |-> Nil, slug |-> 0, ticket |-> Nil, row |-> Nil, cleared |-> FALSE]
Inputs == [category : Categories, default : BOOLEAN]
Tables == {"fields", "objects", "statuses", "records"}

TypeOK ==
  /\ fields \in [Ids -> FieldRow \cup {Nil}]
  /\ objects \in [Ids -> 1..MaxSlug \cup {Nil}]
  /\ statuses \in [Ids -> StatusRow \cup {Nil}]
  /\ used \in [Tables -> SUBSET Ids] /\ records \in [Ids -> Ids \cup {Nil}]
  /\ values \subseteq [field : Ids, ticket : Tickets, by : Workers]
  /\ onStatus \in [Tickets -> Ids \cup {Nil}]
  /\ \A w \in Workers : worker[w].at \in {"idle", "insert", "update", "destroy", "values", "status"}

Init ==
  /\ fields = [i \in Ids |-> Nil] /\ objects = [i \in Ids |-> Nil] /\ statuses = [i \in Ids |-> Nil]
  /\ used = [t \in Tables |-> {}] /\ values = {} /\ records = [i \in Ids |-> Nil]
  /\ onStatus = [t \in Tickets |-> Nil]
  /\ worker = [w \in Workers |-> Idle] /\ enforced \in BOOLEAN /\ writes = 0

Done(w) == worker' = [worker EXCEPT ![w] = Idle]
Goes(w, job) == worker[w] = Idle /\ writes < MaxWrites /\ writes' = writes + 1 /\ worker' = [worker EXCEPT ![w] = job]

SlugOf(t, i) == IF t = "objects" THEN objects[i] ELSE IF t = "fields" THEN fields[i].slug ELSE statuses[i].slug
Row(t, i) == IF t = "objects" THEN objects[i] ELSE IF t = "fields" THEN fields[i] ELSE statuses[i]
Taken(t) == {SlugOf(t, i) : i \in {j \in Ids : Row(t, j) # Nil}}
FreshId(t) == CHOOSE i \in Ids : i \notin used[t]
Spare(t) == used[t] # Ids
-----------------------------------------------------------------------------
(* Creating. The slug is checked, and inserted later: the unique index       *)
(* refuses one that was taken in between.                                   *)

\* The first of base, base_2, .. that is free.
uniqueSlug(t) == CHOOSE n \in 1..MaxSlug : n \notin Taken(t) /\ \A k \in 1..(n - 1) : k \in Taken(t)

\* The request asks for any slug; for an object a taken one is an error,
\* for a field or a status it is numbered.
StoreCheck(w, t) ==
  /\ 1..MaxSlug \ Taken(t) # {} /\ Spare(t)
  /\ \E s \in IF t = "objects" THEN 1..MaxSlug \ Taken(t) ELSE {uniqueSlug(t)}, row \in IF t = "statuses" THEN Inputs ELSE {Nil} :
       Goes(w, [Idle EXCEPT !.at = "insert", !.table = t, !.slug = s, !.row = row])
  /\ UNCHANGED <<fields, objects, statuses, used, values, records, onStatus, enforced>>

\* Fault: the columns have no unique index.
RefusedNever(t, slug, id) == FALSE
Refused(t, slug, id) == \E i \in Ids \ {id} : Row(t, i) # Nil /\ SlugOf(t, i) = slug

CreateField(w, i) ==
  /\ \E r \in BOOLEAN : fields' = [fields EXCEPT ![i] = [slug |-> worker[w].slug, required |-> r]]
  /\ UNCHANGED <<objects, statuses>>
CreateObject(w, i) == objects' = [objects EXCEPT ![i] = worker[w].slug] /\ UNCHANGED <<fields, statuses>>

\* A default's transaction clears the category's others first: in PostgreSQL
\* it does not see one that another transaction is about to commit.
Cleared(c, i) == [j \in Ids |-> IF statuses[j] # Nil /\ statuses[j].category = c /\ j # i
                                THEN [statuses[j] EXCEPT !.default = FALSE] ELSE statuses[j]]
clearDefault(w) ==
  /\ worker[w].table = "statuses" /\ worker[w].at \in {"insert", "update"}
  /\ worker[w].row.default /\ ~worker[w].cleared
  /\ statuses' = Cleared(worker[w].row.category, worker[w].id)
  /\ worker' = [worker EXCEPT ![w].cleared = TRUE]
  /\ UNCHANGED <<fields, objects, used, values, records, onStatus, enforced, writes>>
CreateStatus(w, i) ==
  /\ worker[w].row.default => worker[w].cleared
  /\ statuses' = [statuses EXCEPT ![i] = [slug |-> worker[w].slug, category |-> worker[w].row.category, default |-> worker[w].row.default]]
  /\ UNCHANGED <<fields, objects>>

Insert(w) ==
  /\ worker[w].at = "insert" /\ worker[w].table # "records" /\ Spare(worker[w].table)
  /\ LET t == worker[w].table
         i == FreshId(t)
     IN  IF Refused(t, worker[w].slug, Nil)
         THEN UNCHANGED <<fields, objects, statuses, used>>
         ELSE /\ \/ t = "fields" /\ CreateField(w, i)
                 \/ t = "objects" /\ CreateObject(w, i)
                 \/ t = "statuses" /\ CreateStatus(w, i)
              /\ used' = [used EXCEPT ![t] = @ \cup {i}]
  /\ Done(w)
  /\ UNCHANGED <<values, records, onStatus, enforced, writes>>
-----------------------------------------------------------------------------
(* Updating: the row read is written back whole, by id.                     *)

UpdateRead(w, t, i) ==
  /\ t # "objects" /\ Row(t, i) # Nil
  /\ \E row \in IF t = "statuses" THEN Inputs ELSE {Nil} : Goes(w, [Idle EXCEPT !.at = "update", !.table = t, !.id = i, !.row = row])
  /\ UNCHANGED <<fields, objects, statuses, used, values, records, onStatus, enforced>>

\* An object's slug may change: it is checked again.
UpdateObjectRead(w, i) ==
  /\ objects[i] # Nil
  /\ \E s \in 1..MaxSlug \ (Taken("objects") \ {objects[i]}) :
       Goes(w, [Idle EXCEPT !.at = "update", !.table = "objects", !.id = i, !.slug = s])
  /\ UNCHANGED <<fields, objects, statuses, used, values, records, onStatus, enforced>>

UpdateWrite(w) ==
  LET t == worker[w].table
      i == worker[w].id
  IN  /\ worker[w].at = "update" /\ (t = "statuses" /\ worker[w].row.default => worker[w].cleared)
      /\ \/ Row(t, i) = Nil /\ UNCHANGED <<fields, objects, statuses>>
         \/ /\ t = "fields" /\ Row(t, i) # Nil
            /\ \E r \in BOOLEAN : fields' = [fields EXCEPT ![i].required = r]
            /\ UNCHANGED <<objects, statuses>>
         \/ /\ t = "objects" /\ Row(t, i) # Nil
            /\ objects' = IF Refused(t, worker[w].slug, i) THEN objects ELSE [objects EXCEPT ![i] = worker[w].slug]
            /\ UNCHANGED <<fields, statuses>>
         \/ /\ t = "statuses" /\ Row(t, i) # Nil
            /\ statuses' = [statuses EXCEPT ![i].category = worker[w].row.category, ![i].default = worker[w].row.default]
            /\ UNCHANGED <<fields, objects>>
      /\ Done(w)
      /\ UNCHANGED <<used, values, records, onStatus, enforced, writes>>
-----------------------------------------------------------------------------
(* Deleting: what hangs on the row goes in the same transaction.             *)

DestroyRead(w, t, i) ==
  /\ Row(t, i) # Nil
  /\ Goes(w, [Idle EXCEPT !.at = "destroy", !.table = t, !.id = i])
  /\ UNCHANGED <<fields, objects, statuses, used, values, records, onStatus, enforced>>

ValuesWithout(i) == {v \in values : v.field # i}

DestroyWrite(w) ==
  LET i == worker[w].id
  IN  /\ worker[w].at = "destroy"
      /\ \/ /\ worker[w].table = "fields"
            /\ fields' = [fields EXCEPT ![i] = Nil] /\ values' = ValuesWithout(i)
            /\ UNCHANGED <<objects, statuses, records, onStatus>>
         \/ /\ worker[w].table = "objects"
            /\ objects' = [objects EXCEPT ![i] = Nil] /\ records' = [r \in Ids |-> IF records[r] = i THEN Nil ELSE records[r]]
            /\ UNCHANGED <<fields, statuses, values, onStatus>>
         \/ /\ worker[w].table = "statuses"
            /\ statuses' = [statuses EXCEPT ![i] = Nil]
            /\ onStatus' = [t \in Tickets |-> IF onStatus[t] = i THEN Nil ELSE onStatus[t]]
            /\ UNCHANGED <<fields, objects, values, records>>
      /\ Done(w)
      /\ UNCHANGED <<used, enforced, writes>>
-----------------------------------------------------------------------------
(* A ticket's values: validated against the active fields, stored later, the *)
(* old row deleted and a new one inserted in one transaction.               *)

ValidateTicketValues(w, i, t) ==
  /\ fields[i] # Nil
  /\ \E clear \in BOOLEAN :
       /\ clear => ~fields[i].required
       /\ Goes(w, [Idle EXCEPT !.at = "values", !.id = i, !.ticket = t, !.slug = IF clear THEN 0 ELSE 1])
  /\ UNCHANGED <<fields, objects, statuses, used, values, records, onStatus, enforced>>

SaveTicketValues(w) ==
  LET i == worker[w].id
      t == worker[w].ticket
      others == {v \in values : v.field # i \/ v.ticket # t}
  IN  /\ worker[w].at = "values"
      /\ values' = IF worker[w].slug = 0 THEN others
                   ELSE IF enforced /\ fields[i] = Nil THEN values
                   ELSE others \cup {[field |-> i, ticket |-> t, by |-> w]}
      /\ Done(w)
      /\ UNCHANGED <<fields, objects, statuses, used, records, onStatus, enforced, writes>>

\* A record is stored under the object its request read.
StoreRecordRead(w, i) ==
  /\ objects[i] # Nil
  /\ Goes(w, [Idle EXCEPT !.at = "insert", !.table = "records", !.id = i])
  /\ UNCHANGED <<fields, objects, statuses, used, values, records, onStatus, enforced>>

StoreRecord(w) ==
  /\ worker[w].at = "insert" /\ worker[w].table = "records" /\ Spare("records")
  /\ IF enforced /\ objects[worker[w].id] = Nil THEN UNCHANGED <<records, used>>
     ELSE /\ records' = [records EXCEPT ![FreshId("records")] = worker[w].id]
          /\ used' = [used EXCEPT !["records"] = @ \cup {FreshId("records")}]
  /\ Done(w)
  /\ UNCHANGED <<fields, objects, statuses, values, onStatus, enforced, writes>>

DeleteRecord(w, r) ==
  /\ worker[w] = Idle /\ writes < MaxWrites /\ records[r] # Nil /\ objects[records[r]] # Nil
  /\ records' = [records EXCEPT ![r] = Nil] /\ writes' = writes + 1
  /\ UNCHANGED <<fields, objects, statuses, used, values, onStatus, worker, enforced>>

\* A ticket takes a custom status its request resolved.
Resolve(w, i, t) ==
  /\ statuses[i] # Nil
  /\ Goes(w, [Idle EXCEPT !.at = "status", !.id = i, !.ticket = t])
  /\ UNCHANGED <<fields, objects, statuses, used, values, records, onStatus, enforced>>
SetStatus(w) ==
  /\ worker[w].at = "status"
  /\ onStatus' = IF enforced /\ statuses[worker[w].id] = Nil THEN onStatus
                 ELSE [onStatus EXCEPT ![worker[w].ticket] = worker[w].id]
  /\ Done(w)
  /\ UNCHANGED <<fields, objects, statuses, used, values, records, enforced, writes>>
-----------------------------------------------------------------------------
Next ==
  \E w \in Workers :
    \/ \E t \in Tables \ {"records"} : StoreCheck(w, t)
    \/ \E t \in Tables \ {"records"}, i \in Ids : UpdateRead(w, t, i) \/ DestroyRead(w, t, i)
    \/ \E i \in Ids : UpdateObjectRead(w, i) \/ StoreRecordRead(w, i) \/ DeleteRecord(w, i)
    \/ \E i \in Ids, t \in Tickets : ValidateTicketValues(w, i, t) \/ Resolve(w, i, t)
    \/ clearDefault(w) \/ Insert(w) \/ UpdateWrite(w) \/ DestroyWrite(w) \/ SaveTicketValues(w) \/ StoreRecord(w) \/ SetStatus(w)

Spec == Init /\ [][Next]_vars
-----------------------------------------------------------------------------
\* No slug names two rows, whoever created them meanwhile; a ticket holds one
\* value of a field; and in a database that enforces foreign keys nothing
\* hangs on a row that is gone.
FieldsHold ==
  /\ \A t \in Tables \ {"records"} : \A i, j \in Ids :
       i # j /\ Row(t, i) # Nil /\ Row(t, j) # Nil => SlugOf(t, i) # SlugOf(t, j)
  /\ \A v, u \in values : v.field = u.field /\ v.ticket = u.ticket => v = u
  /\ enforced => /\ \A v \in values : fields[v.field] # Nil
                 /\ \A r \in Ids : records[r] # Nil => objects[records[r]] # Nil
                 /\ \A t \in Tickets : onStatus[t] # Nil => statuses[onStatus[t]] # Nil

\* In one that does not, what hangs on a deleted row was written after it
\* went, by a request that had read it before.
DeletedWhole ==
  /\ \A i \in Ids : fields[i] # Nil /\ fields'[i] = Nil => \A v \in values' : v.field # i
  /\ \A i \in Ids : objects[i] # Nil /\ objects'[i] = Nil => \A r \in Ids : records'[r] # i
  /\ \A i \in Ids : statuses[i] # Nil /\ statuses'[i] = Nil => \A t \in Tickets : onStatus'[t] # i
=============================================================================
