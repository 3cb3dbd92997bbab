------------------------------ MODULE DeskProofs ------------------------------
(*****************************************************************************)
(* What agents and admins work with, proved for any number of agents,        *)
(* tickets, rows and requests: custom fields, objects and statuses, presence,*)
(* the agent panel, saved views and imports.  Each part has an inductive     *)
(* invariant of its own.                                                     *)
(*****************************************************************************)
EXTENDS Services, FiniteSetTheorems, SequenceTheorems, WellFoundedInduction, TLAPS

-----------------------------------------------------------------------------
\* A set of numbers has a smallest one.
LEMMA Smallest == ASSUME NEW S \in SUBSET Nat, S # {} PROVE \E i \in S : \A j \in S : i <= j
<1>1. IsWellFoundedOn(OpToRel(<, Nat), Nat)
  BY NatLessThanWellFounded
<1>2. PICK m \in S : \A k \in S : ~(<<k, m>> \in OpToRel(<, Nat))
  BY <1>1, WFMin
<1>3. \A k \in S : ~(k < m)
  BY <1>2 DEF OpToRel
<1> QED BY <1>3

-----------------------------------------------------------------------------
\* Custom fields, objects, statuses and records (CustomFields).

CustomJob == [at : {"idle", "insert", "update", "destroy", "values", "status"}, table : Custom!Tables, id : FieldIds \cup {Nil},
              slug : 0..MaxSlug, ticket : Tickets \cup {Nil}, row : Custom!Inputs \cup {Nil}, cleared : BOOLEAN]

\* What a request has checked before it writes.
JobSound(j) ==
  /\ j \in CustomJob
  /\ j.at = "insert" /\ j.table # "records" => j.slug \in 1..MaxSlug
  /\ j.at \in {"insert", "update"} /\ j.table = "statuses" => j.row \in Custom!Inputs
  /\ j.at = "insert" /\ j.table = "records" => j.id \in FieldIds
  /\ j.at \in {"update", "destroy"} => j.id \in FieldIds /\ j.table # "records"
  /\ j.at = "update" /\ j.table = "objects" => j.slug \in 1..MaxSlug
  /\ j.at \in {"values", "status"} => j.id \in FieldIds /\ j.ticket \in Tickets

JobsSound == worker \in [Workers -> CustomJob] /\ \A w \in Workers : JobSound(worker[w])

\* The tables: a row has an id that was given, and a slug of its own; what
\* hangs on a row hangs on one that is there, where the database sees to it.
FieldTable ==
  /\ fields \in [FieldIds -> Custom!FieldRow \cup {Nil}]
  /\ \A i \in FieldIds : fields[i] # Nil => i \in used["fields"]
  /\ \A i, j \in FieldIds : i # j /\ fields[i] # Nil /\ fields[j] # Nil => fields[i].slug # fields[j].slug
ObjectTable ==
  /\ objects \in [FieldIds -> 1..MaxSlug \cup {Nil}]
  /\ \A i \in FieldIds : objects[i] # Nil => i \in used["objects"]
  /\ \A i, j \in FieldIds : i # j /\ objects[i] # Nil /\ objects[j] # Nil => objects[i] # objects[j]
StatusTable ==
  /\ statuses \in [FieldIds -> Custom!StatusRow \cup {Nil}]
  /\ \A i \in FieldIds : statuses[i] # Nil => i \in used["statuses"]
  /\ \A i, j \in FieldIds : i # j /\ statuses[i] # Nil /\ statuses[j] # Nil => statuses[i].slug # statuses[j].slug
ValueTable ==
  /\ values \subseteq [field : FieldIds, ticket : Tickets, by : Workers]
  /\ \A v, u \in values : v.field = u.field /\ v.ticket = u.ticket => v = u
  /\ enforced => \A v \in values : fields[v.field] # Nil
RecordTable ==
  /\ records \in [FieldIds -> FieldIds \cup {Nil}]
  /\ enforced => \A r \in FieldIds : records[r] # Nil => objects[records[r]] # Nil
StatusColumn ==
  /\ onStatus \in [Tickets -> FieldIds \cup {Nil}]
  /\ enforced => \A t \in Tickets : onStatus[t] # Nil => statuses[onStatus[t]] # Nil

CustomInv ==
  /\ JobsSound /\ used \in [Custom!Tables -> SUBSET FieldIds] /\ enforced \in BOOLEAN
  /\ FieldTable /\ ObjectTable /\ StatusTable /\ ValueTable /\ RecordTable /\ StatusColumn

LEMMA CustomIdle == ASSUME Custom!FieldsConstants PROVE JobSound(Custom!Idle) /\ Custom!Idle.at = "idle" /\ Custom!Idle \in CustomJob
<1>1. 0 \in 0..MaxSlug
  BY DEF Custom!FieldsConstants
<1>2. Custom!Idle \in CustomJob /\ Custom!Idle.at = "idle"
  BY <1>1 DEF Custom!Idle, CustomJob, Custom!Tables
<1> QED BY <1>2 DEF JobSound

LEMMA CustomInit == ASSUME Custom!FieldsConstants, Custom!Init PROVE CustomInv
<1>1. JobsSound
  <2>1. worker = [w \in Workers |-> Custom!Idle]
    BY DEF Custom!Init
  <2> QED BY <2>1, CustomIdle DEF JobsSound
<1>2. FieldTable /\ ObjectTable /\ StatusTable
  BY DEF Custom!Init, FieldTable, ObjectTable, StatusTable
<1>3. ValueTable /\ RecordTable /\ StatusColumn
  BY DEF Custom!Init, ValueTable, RecordTable, StatusColumn
<1> QED BY <1>1, <1>2, <1>3 DEF Custom!Init, CustomInv

LEMMA CustomHas == ASSUME CustomInv PROVE Custom!TypeOK /\ Custom!FieldsHold
<1>1. Custom!TypeOK
  <2>1. \A w \in Workers : worker[w].at \in {"idle", "insert", "update", "destroy", "values", "status"}
    BY DEF CustomInv, JobsSound, CustomJob
  <2> QED BY <2>1 DEF Custom!TypeOK, CustomInv, FieldTable, ObjectTable, StatusTable, ValueTable, RecordTable, StatusColumn
<1>2. ASSUME NEW t \in Custom!Tables \ {"records"}, NEW i \in FieldIds, NEW j \in FieldIds, i # j, Custom!Row(t, i) # Nil, Custom!Row(t, j) # Nil
      PROVE  Custom!SlugOf(t, i) # Custom!SlugOf(t, j)
  <2>1. t \in {"fields", "objects", "statuses"}
    BY DEF Custom!Tables
  <2>2. CASE t = "fields"
    BY <1>2, <2>2 DEF CustomInv, FieldTable, Custom!Row, Custom!SlugOf
  <2>3. CASE t = "objects"
    BY <1>2, <2>3 DEF CustomInv, ObjectTable, Custom!Row, Custom!SlugOf
  <2>4. CASE t = "statuses"
    BY <1>2, <2>4 DEF CustomInv, StatusTable, Custom!Row, Custom!SlugOf
  <2> QED BY <2>1, <2>2, <2>3, <2>4
<1> QED BY <1>1, <1>2 DEF Custom!FieldsHold, CustomInv, ValueTable, RecordTable, StatusColumn

\* A table whose row and ids stay is as it was.
LEMMA TablesStay ==
  ASSUME CustomInv
  PROVE  /\ UNCHANGED <<fields, used>> => FieldTable'
         /\ UNCHANGED <<objects, used>> => ObjectTable'
         /\ UNCHANGED <<statuses, used>> => StatusTable'
         /\ UNCHANGED <<values, fields, enforced>> => ValueTable'
         /\ UNCHANGED <<records, objects, enforced>> => RecordTable'
         /\ UNCHANGED <<onStatus, statuses, enforced>> => StatusColumn'
<1>1. UNCHANGED <<fields, used>> => FieldTable'
  BY DEF CustomInv, FieldTable
<1>2. UNCHANGED <<objects, used>> => ObjectTable'
  BY DEF CustomInv, ObjectTable
<1>3. UNCHANGED <<statuses, used>> => StatusTable'
  BY DEF CustomInv, StatusTable
<1>4. UNCHANGED <<values, fields, enforced>> => ValueTable'
  BY DEF CustomInv, ValueTable
<1>5. UNCHANGED <<records, objects, enforced>> => RecordTable'
  BY DEF CustomInv, RecordTable
<1>6. UNCHANGED <<onStatus, statuses, enforced>> => StatusColumn'
  BY DEF CustomInv, StatusColumn
<1> QED BY <1>1, <1>2, <1>3, <1>4, <1>5, <1>6

LEMMA JobGoes ==
  ASSUME CustomInv, NEW w \in Workers, NEW j, JobSound(j), worker' = [worker EXCEPT ![w] = j] PROVE JobsSound'
<1>1. j \in CustomJob /\ worker \in [Workers -> CustomJob] /\ \A v \in Workers : JobSound(worker[v])
  BY DEF JobSound, CustomInv, JobsSound
<1>2. worker' \in [Workers -> CustomJob] /\ \A v \in Workers : JobSound(worker'[v])
  BY <1>1
<1> QED BY <1>2 DEF JobsSound

\* A request begins with what it has checked.
LEMMA CustomGoes ==
  ASSUME CustomInv, NEW w \in Workers, NEW j, JobSound(j), Custom!Goes(w, j),
         UNCHANGED <<fields, objects, statuses, used, values, records, onStatus, enforced>>
  PROVE  CustomInv'
<1>1. JobsSound'
  BY JobGoes DEF Custom!Goes
<1> QED BY <1>1, TablesStay DEF CustomInv

\* The slug asked for is free.
LEMMA FreeSlug ==
  ASSUME Custom!FieldsConstants, NEW t, 1..MaxSlug \ Custom!Taken(t) # {} PROVE Custom!uniqueSlug(t) \in 1..MaxSlug
<1> DEFINE S == 1..MaxSlug \ Custom!Taken(t)
<1>1. S \subseteq Nat /\ S # {}
  OBVIOUS
<1>2. PICK n \in S : \A k \in S : n <= k
  BY <1>1, Smallest
<1>3. ASSUME NEW k \in 1..(n - 1) PROVE k \in Custom!Taken(t)
  <2>1. n \in 1..MaxSlug /\ k \in 1..MaxSlug /\ ~(n <= k)
    BY <1>2, MaxSlug \in Nat DEF Custom!FieldsConstants
  <2> QED BY <1>2, <2>1
<1>4. n \in 1..MaxSlug /\ n \notin Custom!Taken(t)
  BY <1>2
<1> HIDE DEF S
<1>5. \E m \in 1..MaxSlug : m \notin Custom!Taken(t) /\ \A k \in 1..(m - 1) : k \in Custom!Taken(t)
  BY <1>3, <1>4
<1> QED BY <1>5 DEF Custom!uniqueSlug

\* The next id a table gives has not been given.
LEMMA FreshIdIs ==
  ASSUME CustomInv, NEW t \in Custom!Tables, Custom!Spare(t) PROVE Custom!FreshId(t) \in FieldIds /\ Custom!FreshId(t) \notin used[t]
<1>1. used[t] \subseteq FieldIds /\ used[t] # FieldIds
  BY DEF CustomInv, Custom!Spare
<1>2. \E i \in FieldIds : i \notin used[t]
  BY <1>1
<1> QED BY <1>2 DEF Custom!FreshId

\* A request reads and checks.
LEMMA CustomReads ==
  ASSUME Custom!FieldsConstants, CustomInv, NEW w \in Workers
  PROVE  /\ \A t \in Custom!Tables \ {"records"} : Custom!StoreCheck(w, t) => CustomInv'
         /\ \A t \in Custom!Tables \ {"records"}, i \in FieldIds : Custom!UpdateRead(w, t, i) \/ Custom!DestroyRead(w, t, i) => CustomInv'
         /\ \A i \in FieldIds : Custom!UpdateObjectRead(w, i) \/ Custom!StoreRecordRead(w, i) => CustomInv'
         /\ \A i \in FieldIds, t \in Tickets : Custom!ValidateTicketValues(w, i, t) \/ Custom!Resolve(w, i, t) => CustomInv'
<1>0. Custom!Idle \in CustomJob /\ MaxSlug \in Nat \ {0} /\ {"fields", "objects", "statuses", "records"} = Custom!Tables
  BY CustomIdle DEF Custom!FieldsConstants, Custom!Tables
<1>1. ASSUME NEW t \in Custom!Tables \ {"records"}, Custom!StoreCheck(w, t) PROVE CustomInv'
  <2>1. PICK s \in (IF t = "objects" THEN 1..MaxSlug \ Custom!Taken(t) ELSE {Custom!uniqueSlug(t)}),
             row \in (IF t = "statuses" THEN Custom!Inputs ELSE {Nil}) :
          Custom!Goes(w, [Custom!Idle EXCEPT !.at = "insert", !.table = t, !.slug = s, !.row = row])
    BY <1>1 DEF Custom!StoreCheck
  <2> DEFINE j == [Custom!Idle EXCEPT !.at = "insert", !.table = t, !.slug = s, !.row = row]
  <2>2. s \in 1..MaxSlug /\ s \in 0..MaxSlug
    <3>1. Custom!uniqueSlug(t) \in 1..MaxSlug
      BY <1>1, FreeSlug DEF Custom!StoreCheck
    <3> QED BY <1>0, <2>1, <3>1
  <2>3. row \in Custom!Inputs \cup {Nil} /\ (t = "statuses" => row \in Custom!Inputs)
    BY <2>1
  <2>4. j \in CustomJob /\ j.at = "insert" /\ j.table = t /\ j.slug = s /\ j.row = row
    BY <1>0, <2>2, <2>3 DEF CustomJob
  <2>5. Custom!Goes(w, j)
    BY <2>1
  <2> HIDE DEF j
  <2>6. JobSound(j)
    BY <2>2, <2>3, <2>4 DEF JobSound
  <2> QED BY <1>1, <2>5, <2>6, CustomGoes DEF Custom!StoreCheck
<1>2. ASSUME NEW t \in Custom!Tables \ {"records"}, NEW i \in FieldIds, Custom!UpdateRead(w, t, i) PROVE CustomInv'
  <2>1. t # "objects" /\ \E row \in (IF t = "statuses" THEN Custom!Inputs ELSE {Nil}) : Custom!Goes(w, [Custom!Idle EXCEPT !.at = "update", !.table = t, !.id = i, !.row = row])
    BY <1>2 DEF Custom!UpdateRead
  <2>2. PICK row \in (IF t = "statuses" THEN Custom!Inputs ELSE {Nil}) : Custom!Goes(w, [Custom!Idle EXCEPT !.at = "update", !.table = t, !.id = i, !.row = row])
    BY <2>1
  <2> DEFINE j == [Custom!Idle EXCEPT !.at = "update", !.table = t, !.id = i, !.row = row]
  <2>3. row \in Custom!Inputs \cup {Nil} /\ (t = "statuses" => row \in Custom!Inputs)
    BY <2>2
  <2>4. j \in CustomJob /\ j.at = "update" /\ j.table = t /\ j.id = i /\ j.row = row
    BY <1>0, <2>3 DEF CustomJob
  <2>5. Custom!Goes(w, j)
    BY <2>2
  <2> HIDE DEF j
  <2>6. JobSound(j)
    BY <2>1, <2>3, <2>4 DEF JobSound
  <2> QED BY <1>2, <2>5, <2>6, CustomGoes DEF Custom!UpdateRead
<1>3. ASSUME NEW t \in Custom!Tables \ {"records"}, NEW i \in FieldIds, Custom!DestroyRead(w, t, i) PROVE CustomInv'
  <2> DEFINE j == [Custom!Idle EXCEPT !.at = "destroy", !.table = t, !.id = i]
  <2>4. j \in CustomJob /\ j.at = "destroy" /\ j.table = t /\ j.id = i
    BY <1>0 DEF CustomJob
  <2>5. Custom!Goes(w, j)
    BY <1>3 DEF Custom!DestroyRead
  <2> HIDE DEF j
  <2>6. JobSound(j)
    BY <2>4 DEF JobSound
  <2> QED BY <1>3, <2>5, <2>6, CustomGoes DEF Custom!DestroyRead
<1>4. ASSUME NEW i \in FieldIds, Custom!UpdateObjectRead(w, i) PROVE CustomInv'
  <2>1. PICK s \in 1..MaxSlug \ (Custom!Taken("objects") \ {objects[i]}) : Custom!Goes(w, [Custom!Idle EXCEPT !.at = "update", !.table = "objects", !.id = i, !.slug = s])
    BY <1>4 DEF Custom!UpdateObjectRead
  <2> DEFINE j == [Custom!Idle EXCEPT !.at = "update", !.table = "objects", !.id = i, !.slug = s]
  <2>2. s \in 1..MaxSlug /\ s \in 0..MaxSlug
    BY <1>0, <2>1
  <2>4. j \in CustomJob /\ j.at = "update" /\ j.table = "objects" /\ j.id = i /\ j.slug = s
    BY <1>0, <2>2 DEF CustomJob
  <2>5. Custom!Goes(w, j)
    BY <2>1
  <2> HIDE DEF j
  <2>6. JobSound(j)
    BY <2>2, <2>4 DEF JobSound
  <2> QED BY <1>4, <2>5, <2>6, CustomGoes DEF Custom!UpdateObjectRead
<1>5. ASSUME NEW i \in FieldIds, Custom!StoreRecordRead(w, i) PROVE CustomInv'
  <2> DEFINE j == [Custom!Idle EXCEPT !.at = "insert", !.table = "records", !.id = i]
  <2>4. j \in CustomJob /\ j.at = "insert" /\ j.table = "records" /\ j.id = i
    BY <1>0 DEF CustomJob
  <2>5. Custom!Goes(w, j)
    BY <1>5 DEF Custom!StoreRecordRead
  <2> HIDE DEF j
  <2>6. JobSound(j)
    BY <2>4 DEF JobSound
  <2> QED BY <1>5, <2>5, <2>6, CustomGoes DEF Custom!StoreRecordRead
<1>6. ASSUME NEW i \in FieldIds, NEW t \in Tickets, Custom!ValidateTicketValues(w, i, t) PROVE CustomInv'
  <2>1. PICK clear \in BOOLEAN : Custom!Goes(w, [Custom!Idle EXCEPT !.at = "values", !.id = i, !.ticket = t, !.slug = IF clear THEN 0 ELSE 1])
    BY <1>6 DEF Custom!ValidateTicketValues
  <2> DEFINE s == IF clear THEN 0 ELSE 1
             j == [Custom!Idle EXCEPT !.at = "values", !.id = i, !.ticket = t, !.slug = s]
  <2>2. s \in 0..MaxSlug
    BY <1>0
  <2>5. Custom!Goes(w, j)
    BY <2>1
  <2> HIDE DEF s
  <2>4. j \in CustomJob /\ j.at = "values" /\ j.id = i /\ j.ticket = t
    BY <1>0, <2>2 DEF CustomJob
  <2> HIDE DEF j
  <2>6. JobSound(j)
    BY <2>4 DEF JobSound
  <2> QED BY <1>6, <2>5, <2>6, CustomGoes DEF Custom!ValidateTicketValues
<1>7. ASSUME NEW i \in FieldIds, NEW t \in Tickets, Custom!Resolve(w, i, t) PROVE CustomInv'
  <2> DEFINE j == [Custom!Idle EXCEPT !.at = "status", !.id = i, !.ticket = t]
  <2>4. j \in CustomJob /\ j.at = "status" /\ j.id = i /\ j.ticket = t
    BY <1>0 DEF CustomJob
  <2>5. Custom!Goes(w, j)
    BY <1>7 DEF Custom!Resolve
  <2> HIDE DEF j
  <2>6. JobSound(j)
    BY <2>4 DEF JobSound
  <2> QED BY <1>7, <2>5, <2>6, CustomGoes DEF Custom!Resolve
<1> QED BY <1>1, <1>2, <1>3, <1>4, <1>5, <1>6, <1>7

\* A request that ends writes nothing, or what it checked, unless the unique
\* index or a foreign key refuses it.
LEMMA CustomWrites ==
  ASSUME Custom!FieldsConstants, CustomInv, NEW w \in Workers
  PROVE  Custom!clearDefault(w) \/ Custom!Insert(w) \/ Custom!UpdateWrite(w) \/ Custom!DestroyWrite(w) => CustomInv'
<1> DEFINE j == worker[w]
<1>0. JobSound(j) /\ j \in CustomJob /\ FieldTable /\ ObjectTable /\ StatusTable /\ ValueTable /\ RecordTable /\ StatusColumn
  BY DEF CustomInv, JobsSound
<1>c. /\ Nil \notin FieldIds /\ Nil \notin 1..MaxSlug /\ Nil \notin Custom!FieldRow /\ Nil \notin Custom!StatusRow
      /\ used \in [Custom!Tables -> SUBSET FieldIds] /\ {"fields", "objects", "statuses", "records"} = Custom!Tables
  BY DEF Custom!FieldsConstants, CustomInv, Custom!Tables
<1>d. Custom!Done(w) => JobsSound'
  BY JobGoes, CustomIdle DEF Custom!Done
<1>1. CASE Custom!clearDefault(w)
  <2> DEFINE k == [j EXCEPT !.cleared = TRUE]
  <2>1. /\ j.table = "statuses" /\ j.at \in {"insert", "update"} /\ worker' = [worker EXCEPT ![w] = k]
        /\ statuses' = Custom!Cleared(j.row.category, j.id) /\ UNCHANGED <<fields, objects, used, values, records, onStatus, enforced>>
    BY <1>1 DEF Custom!clearDefault, CustomInv, JobsSound
  <2>2. JobSound(k)
    <3>1. k \in CustomJob /\ k.at = j.at /\ k.table = j.table /\ k.slug = j.slug /\ k.row = j.row /\ k.id = j.id
      BY <1>0 DEF CustomJob
    <3> HIDE DEF k
    <3> QED BY <1>0, <2>1, <3>1 DEF JobSound
  <2> HIDE DEF k
  <2>3. ASSUME NEW i \in FieldIds
        PROVE  /\ statuses'[i] \in Custom!StatusRow \cup {Nil} /\ (statuses'[i] = Nil <=> statuses[i] = Nil)
               /\ statuses[i] # Nil => statuses'[i].slug = statuses[i].slug
    <3>1. statuses'[i] = IF statuses[i] # Nil /\ statuses[i].category = j.row.category /\ i # j.id THEN [statuses[i] EXCEPT !.default = FALSE] ELSE statuses[i]
      BY <2>1 DEF Custom!Cleared
    <3>2. statuses[i] \in Custom!StatusRow \cup {Nil}
      BY <1>0 DEF StatusTable
    <3>3. CASE statuses[i] # Nil
      <4>1. [statuses[i] EXCEPT !.default = FALSE] \in Custom!StatusRow /\ [statuses[i] EXCEPT !.default = FALSE].slug = statuses[i].slug
        BY <3>2, <3>3 DEF Custom!StatusRow
      <4> QED BY <1>c, <3>1, <3>2, <3>3, <4>1
    <3> QED BY <3>1, <3>2, <3>3
  <2>4. statuses' \in [FieldIds -> Custom!StatusRow \cup {Nil}]
    <3>1. statuses' = [i \in FieldIds |-> statuses'[i]]
      BY <2>1 DEF Custom!Cleared
    <3> QED BY <2>3, <3>1
  <2>5. StatusTable'
    BY <1>0, <2>1, <2>3, <2>4 DEF StatusTable
  <2>6. StatusColumn'
    BY <1>0, <2>1, <2>3 DEF StatusColumn
  <2>7. JobsSound'
    BY <2>1, <2>2, JobGoes
  <2> QED BY <2>1, <2>5, <2>6, <2>7, TablesStay DEF CustomInv
<1>2. CASE Custom!Insert(w)
  <2> DEFINE t == j.table
             i == Custom!FreshId(t)
  <2>1. /\ j.at = "insert" /\ t # "records" /\ t \in Custom!Tables /\ Custom!Spare(t) /\ j.slug \in 1..MaxSlug
        /\ UNCHANGED <<values, records, onStatus, enforced>> /\ Custom!Done(w)
    BY <1>0, <1>2 DEF Custom!Insert, JobSound, CustomJob
  <2>2. i \in FieldIds /\ i \notin used[t]
    BY <2>1, FreshIdIs
  <2>3. CASE UNCHANGED <<fields, objects, statuses, used>>
    BY <1>d, <2>1, <2>3, TablesStay DEF CustomInv
  <2>4. CASE ~Custom!Refused(t, j.slug, Nil) /\ used' = [used EXCEPT ![t] = @ \cup {i}]
    <3>1. /\ used' \in [Custom!Tables -> SUBSET FieldIds] /\ i \in used'[t]
          /\ \A u \in Custom!Tables : used[u] \subseteq used'[u]
      BY <1>c, <2>1, <2>2, <2>4
    <3>2. \A k \in FieldIds : Custom!Row(t, k) # Nil => Custom!SlugOf(t, k) # j.slug
      BY <1>c, <2>4 DEF Custom!Refused
    <3>3. CASE t = "fields" /\ Custom!CreateField(w, i)
      <4>1. PICK r \in BOOLEAN : fields' = [fields EXCEPT ![i] = [slug |-> j.slug, required |-> r]]
        BY <3>3 DEF Custom!CreateField
      <4> DEFINE row == [slug |-> j.slug, required |-> r]
      <4>2. row \in Custom!FieldRow /\ row.slug = j.slug
        BY <2>1 DEF Custom!FieldRow
      <4>3. fields' = [fields EXCEPT ![i] = row]
        BY <4>1
      <4>4. \A k \in FieldIds : fields[k] # Nil => fields[k].slug # j.slug
        BY <3>2, <3>3 DEF Custom!Row, Custom!SlugOf
      <4> HIDE DEF row, i, j
      <4>5. FieldTable'
        <5>1. fields' \in [FieldIds -> Custom!FieldRow \cup {Nil}] /\ \A k \in FieldIds : fields'[k] = IF k = i THEN row ELSE fields[k]
          BY <1>0, <4>2, <4>3, <2>2 DEF FieldTable
        <5>2. \A k \in FieldIds : fields'[k] # Nil => k \in used'["fields"]
          BY <1>0, <1>c, <3>1, <3>3, <5>1 DEF FieldTable
        <5>3. ASSUME NEW k \in FieldIds, NEW l \in FieldIds, k # l, fields'[k] # Nil, fields'[l] # Nil PROVE fields'[k].slug # fields'[l].slug
          BY <1>0, <4>2, <4>4, <5>1, <5>3 DEF FieldTable
        <5> QED BY <5>1, <5>2, <5>3 DEF FieldTable
      <4>6. ValueTable'
        <5>1. \A k \in FieldIds : fields[k] # Nil => fields'[k] # Nil
          BY <1>0, <1>c, <4>2, <4>3 DEF FieldTable
        <5>2. values' = values /\ enforced' = enforced
          BY <2>1
        <5> QED BY <1>0, <5>1, <5>2 DEF ValueTable
      <4>7. UNCHANGED <<objects, statuses>>
        BY <3>3 DEF Custom!CreateField
      <4>8. ObjectTable' /\ StatusTable'
        BY <1>0, <1>c, <3>1, <4>7 DEF ObjectTable, StatusTable
      <4> QED BY <1>d, <2>1, <3>1, <4>5, <4>6, <4>7, <4>8, TablesStay DEF CustomInv
    <3>4. CASE t = "objects" /\ Custom!CreateObject(w, i)
      <4>3. objects' = [objects EXCEPT ![i] = j.slug]
        BY <3>4 DEF Custom!CreateObject
      <4>4. \A k \in FieldIds : objects[k] # Nil => objects[k] # j.slug
        BY <3>2, <3>4 DEF Custom!Row, Custom!SlugOf
      <4> HIDE DEF i, j
      <4>5. ObjectTable'
        <5>1. objects' \in [FieldIds -> 1..MaxSlug \cup {Nil}] /\ \A k \in FieldIds : objects'[k] = IF k = i THEN j.slug ELSE objects[k]
          BY <1>0, <4>3, <2>1, <2>2 DEF ObjectTable
        <5>2. \A k \in FieldIds : objects'[k] # Nil => k \in used'["objects"]
          BY <1>0, <1>c, <3>1, <3>4, <5>1 DEF ObjectTable
        <5>3. ASSUME NEW k \in FieldIds, NEW l \in FieldIds, k # l, objects'[k] # Nil, objects'[l] # Nil PROVE objects'[k] # objects'[l]
          BY <1>0, <4>4, <5>1, <5>3 DEF ObjectTable
        <5> QED BY <5>1, <5>2, <5>3 DEF ObjectTable
      <4>6. RecordTable'
        <5>1. \A k \in FieldIds : objects[k] # Nil => objects'[k] # Nil
          BY <1>0, <1>c, <2>1, <4>3 DEF ObjectTable
        <5>2. records' = records /\ enforced' = enforced
          BY <2>1
        <5> QED BY <1>0, <5>1, <5>2 DEF RecordTable
      <4>7. UNCHANGED <<fields, statuses>>
        BY <3>4 DEF Custom!CreateObject
      <4>8. FieldTable' /\ StatusTable'
        BY <1>0, <1>c, <3>1, <4>7 DEF FieldTable, StatusTable
      <4> QED BY <1>d, <2>1, <3>1, <4>5, <4>6, <4>7, <4>8, TablesStay DEF CustomInv
    <3>5. CASE t = "statuses" /\ Custom!CreateStatus(w, i)
      <4> DEFINE row == [slug |-> j.slug, category |-> j.row.category, default |-> j.row.default]
      <4>1. j.row \in Custom!Inputs
        BY <1>0, <2>1, <3>5 DEF JobSound
      <4>2. row \in Custom!StatusRow /\ row.slug = j.slug
        BY <2>1, <4>1 DEF Custom!StatusRow, Custom!Inputs
      <4>3. statuses' = [statuses EXCEPT ![i] = row]
        BY <3>5 DEF Custom!CreateStatus
      <4>4. \A k \in FieldIds : statuses[k] # Nil => statuses[k].slug # j.slug
        BY <3>2, <3>5 DEF Custom!Row, Custom!SlugOf
      <4> HIDE DEF row, i, j
      <4>5. StatusTable'
        <5>1. statuses' \in [FieldIds -> Custom!StatusRow \cup {Nil}] /\ \A k \in FieldIds : statuses'[k] = IF k = i THEN row ELSE statuses[k]
          BY <1>0, <4>2, <4>3, <2>2 DEF StatusTable
        <5>2. \A k \in FieldIds : statuses'[k] # Nil => k \in used'["statuses"]
          BY <1>0, <1>c, <3>1, <3>5, <5>1 DEF StatusTable
        <5>3. ASSUME NEW k \in FieldIds, NEW l \in FieldIds, k # l, statuses'[k] # Nil, statuses'[l] # Nil PROVE statuses'[k].slug # statuses'[l].slug
          BY <1>0, <4>2, <4>4, <5>1, <5>3 DEF StatusTable
        <5> QED BY <5>1, <5>2, <5>3 DEF StatusTable
      <4>6. StatusColumn'
        <5>1. \A k \in FieldIds : statuses[k] # Nil => statuses'[k] # Nil
          BY <1>0, <1>c, <4>2, <4>3 DEF StatusTable
        <5>2. onStatus' = onStatus /\ enforced' = enforced
          BY <2>1
        <5> QED BY <1>0, <5>1, <5>2 DEF StatusColumn
      <4>7. UNCHANGED <<fields, objects>>
        BY <3>5 DEF Custom!CreateStatus
      <4>8. FieldTable' /\ ObjectTable'
        BY <1>0, <1>c, <3>1, <4>7 DEF FieldTable, ObjectTable
      <4> QED BY <1>d, <2>1, <3>1, <4>5, <4>6, <4>7, <4>8, TablesStay DEF CustomInv
    <3> QED BY <1>2, <2>3, <2>4, <3>3, <3>4, <3>5 DEF Custom!Insert
  <2> QED BY <1>2, <2>3, <2>4 DEF Custom!Insert
<1>3. CASE Custom!UpdateWrite(w)
  <2> DEFINE t == j.table
             i == j.id
  <2>1. /\ j.at = "update" /\ i \in FieldIds /\ t # "records" /\ Custom!Done(w)
        /\ UNCHANGED <<used, values, records, onStatus, enforced>>
    BY <1>0, <1>3 DEF Custom!UpdateWrite, JobSound
  <2>2. CASE UNCHANGED <<fields, objects, statuses>>
    BY <1>d, <2>1, <2>2, TablesStay DEF CustomInv
  <2>3. CASE t = "fields" /\ Custom!Row(t, i) # Nil /\ UNCHANGED <<objects, statuses>> /\ \E r \in BOOLEAN : fields' = [fields EXCEPT ![i].required = r]
    <3>1. PICK r \in BOOLEAN : fields' = [fields EXCEPT ![i].required = r]
      BY <2>3
    <3> DEFINE row == [fields[i] EXCEPT !.required = r]
    <3>2. fields[i] \in Custom!FieldRow
      BY <1>0, <2>1, <2>3 DEF FieldTable, Custom!Row
    <3>3. row \in Custom!FieldRow /\ row.slug = fields[i].slug /\ fields' = [fields EXCEPT ![i] = row]
      BY <3>1, <3>2 DEF Custom!FieldRow
    <3> HIDE DEF row
    <3>4. fields' \in [FieldIds -> Custom!FieldRow \cup {Nil}] /\ \A k \in FieldIds : fields'[k] = IF k = i THEN row ELSE fields[k]
      BY <1>0, <2>1, <3>3 DEF FieldTable
    <3>5. ASSUME NEW k \in FieldIds PROVE (fields'[k] = Nil <=> fields[k] = Nil) /\ (fields[k] # Nil => fields'[k].slug = fields[k].slug)
      BY <1>c, <3>2, <3>3, <3>4
    <3>6. FieldTable'
      BY <1>0, <2>1, <3>4, <3>5 DEF FieldTable
    <3>7. ValueTable'
      BY <1>0, <2>1, <3>5 DEF ValueTable
    <3> QED BY <1>d, <2>1, <2>3, <3>6, <3>7, TablesStay DEF CustomInv
  <2>4. CASE t = "objects" /\ Custom!Row(t, i) # Nil /\ UNCHANGED <<fields, statuses>> /\ ~Custom!Refused(t, j.slug, i) /\ objects' = [objects EXCEPT ![i] = j.slug]
    <3>1. j.slug \in 1..MaxSlug /\ objects[i] # Nil
      BY <1>0, <2>1, <2>4 DEF JobSound, Custom!Row
    <3>2. \A k \in FieldIds : k # i /\ objects[k] # Nil => objects[k] # j.slug
      BY <2>4 DEF Custom!Refused, Custom!Row, Custom!SlugOf
    <3>3. objects' \in [FieldIds -> 1..MaxSlug \cup {Nil}] /\ \A k \in FieldIds : objects'[k] = IF k = i THEN j.slug ELSE objects[k]
      BY <1>0, <2>1, <2>4, <3>1 DEF ObjectTable
    <3>4. \A k \in FieldIds : objects'[k] = Nil <=> objects[k] = Nil
      BY <1>c, <3>1, <3>3
    <3> HIDE DEF i, j
    <3>5. ObjectTable'
      BY <1>0, <2>1, <3>2, <3>3, <3>4 DEF ObjectTable
    <3>6. RecordTable'
      BY <1>0, <2>1, <3>4 DEF RecordTable
    <3> QED BY <1>d, <2>1, <2>4, <3>5, <3>6, TablesStay DEF CustomInv
  <2>5. CASE t = "statuses" /\ Custom!Row(t, i) # Nil /\ UNCHANGED <<fields, objects>> /\ statuses' = [statuses EXCEPT ![i].category = j.row.category, ![i].default = j.row.default]
    <3> DEFINE row == [statuses[i] EXCEPT !.category = j.row.category, !.default = j.row.default]
    <3>1. statuses[i] \in Custom!StatusRow /\ j.row \in Custom!Inputs
      BY <1>0, <2>1, <2>5 DEF StatusTable, Custom!Row, JobSound
    <3>2. statuses' = [statuses EXCEPT ![i] = row]
      BY <1>0, <2>1, <2>5 DEF StatusTable
    <3>3. row \in Custom!StatusRow /\ row.slug = statuses[i].slug
      BY <3>1 DEF Custom!StatusRow, Custom!Inputs
    <3> HIDE DEF row
    <3>4. statuses' \in [FieldIds -> Custom!StatusRow \cup {Nil}] /\ \A k \in FieldIds : statuses'[k] = IF k = i THEN row ELSE statuses[k]
      BY <1>0, <2>1, <3>2, <3>3 DEF StatusTable
    <3>5. ASSUME NEW k \in FieldIds PROVE (statuses'[k] = Nil <=> statuses[k] = Nil) /\ (statuses[k] # Nil => statuses'[k].slug = statuses[k].slug)
      BY <1>c, <3>1, <3>3, <3>4
    <3>6. StatusTable'
      BY <1>0, <2>1, <3>4, <3>5 DEF StatusTable
    <3>7. StatusColumn'
      BY <1>0, <2>1, <3>5 DEF StatusColumn
    <3> QED BY <1>d, <2>1, <2>5, <3>6, <3>7, TablesStay DEF CustomInv
  <2> QED BY <1>3, <2>2, <2>3, <2>4, <2>5 DEF Custom!UpdateWrite
<1>4. CASE Custom!DestroyWrite(w)
  <2> DEFINE i == j.id
  <2>1. j.at = "destroy" /\ i \in FieldIds /\ Custom!Done(w) /\ UNCHANGED <<used, enforced>>
    BY <1>0, <1>4 DEF Custom!DestroyWrite, JobSound
  <2>2. CASE fields' = [fields EXCEPT ![i] = Nil] /\ values' = Custom!ValuesWithout(i) /\ UNCHANGED <<objects, statuses, records, onStatus>>
    <3>1. fields' \in [FieldIds -> Custom!FieldRow \cup {Nil}] /\ \A k \in FieldIds : fields'[k] = IF k = i THEN Nil ELSE fields[k]
      BY <1>0, <2>1, <2>2 DEF FieldTable
    <3>2. FieldTable'
      BY <1>0, <2>1, <3>1 DEF FieldTable
    <3>3. values' \subseteq values /\ \A v \in values' : v.field # i
      BY <2>2 DEF Custom!ValuesWithout
    <3>4. ValueTable'
      <4>1. values' \subseteq [field : FieldIds, ticket : Tickets, by : Workers]
        BY <1>0, <3>3 DEF ValueTable
      <4>2. enforced' => \A v \in values' : fields'[v.field] # Nil
        BY <1>0, <2>1, <3>1, <3>3, <4>1 DEF ValueTable
      <4>3. \A v, u \in values' : v.field = u.field /\ v.ticket = u.ticket => v = u
        BY <1>0, <3>3 DEF ValueTable
      <4> QED BY <4>1, <4>2, <4>3 DEF ValueTable
    <3> QED BY <1>d, <2>1, <2>2, <3>2, <3>4, TablesStay DEF CustomInv
  <2>3. CASE objects' = [objects EXCEPT ![i] = Nil] /\ records' = [r \in FieldIds |-> IF records[r] = i THEN Nil ELSE records[r]] /\ UNCHANGED <<fields, statuses, values, onStatus>>
    <3>1. objects' \in [FieldIds -> 1..MaxSlug \cup {Nil}] /\ \A k \in FieldIds : objects'[k] = IF k = i THEN Nil ELSE objects[k]
      BY <1>0, <2>1, <2>3 DEF ObjectTable
    <3>2. ObjectTable'
      BY <1>0, <2>1, <3>1 DEF ObjectTable
    <3>3. \A r \in FieldIds : records'[r] = IF records[r] = i THEN Nil ELSE records[r]
      BY <2>3
    <3>4. RecordTable'
      <4>1. records' \in [FieldIds -> FieldIds \cup {Nil}]
        BY <1>0, <2>3 DEF RecordTable
      <4>2. enforced' => \A r \in FieldIds : records'[r] # Nil => objects'[records'[r]] # Nil
        BY <1>0, <2>1, <3>1, <3>3, <4>1 DEF RecordTable
      <4> QED BY <4>1, <4>2 DEF RecordTable
    <3> QED BY <1>d, <2>1, <2>3, <3>2, <3>4, TablesStay DEF CustomInv
  <2>4. CASE statuses' = [statuses EXCEPT ![i] = Nil] /\ onStatus' = [t \in Tickets |-> IF onStatus[t] = i THEN Nil ELSE onStatus[t]] /\ UNCHANGED <<fields, objects, values, records>>
    <3>1. statuses' \in [FieldIds -> Custom!StatusRow \cup {Nil}] /\ \A k \in FieldIds : statuses'[k] = IF k = i THEN Nil ELSE statuses[k]
      BY <1>0, <2>1, <2>4 DEF StatusTable
    <3>2. StatusTable'
      BY <1>0, <2>1, <3>1 DEF StatusTable
    <3>3. \A t \in Tickets : onStatus'[t] = IF onStatus[t] = i THEN Nil ELSE onStatus[t]
      BY <2>4
    <3>4. StatusColumn'
      <4>1. onStatus' \in [Tickets -> FieldIds \cup {Nil}]
        BY <1>0, <2>4 DEF StatusColumn
      <4>2. enforced' => \A t \in Tickets : onStatus'[t] # Nil => statuses'[onStatus'[t]] # Nil
        BY <1>0, <2>1, <3>1, <3>3, <4>1 DEF StatusColumn
      <4> QED BY <4>1, <4>2 DEF StatusColumn
    <3> QED BY <1>d, <2>1, <2>4, <3>2, <3>4, TablesStay DEF CustomInv
  <2> QED BY <1>4, <2>2, <2>3, <2>4 DEF Custom!DestroyWrite
<1> QED BY <1>1, <1>2, <1>3, <1>4

\* A ticket's value, a record or a ticket's status is stored.
LEMMA CustomStores ==
  ASSUME Custom!FieldsConstants, CustomInv, NEW w \in Workers
  PROVE  /\ Custom!SaveTicketValues(w) \/ Custom!StoreRecord(w) \/ Custom!SetStatus(w) => CustomInv'
         /\ \A r \in FieldIds : Custom!DeleteRecord(w, r) => CustomInv'
<1> DEFINE j == worker[w]
<1>0. JobSound(j) /\ j \in CustomJob /\ FieldTable /\ ObjectTable /\ StatusTable /\ ValueTable /\ RecordTable /\ StatusColumn
  BY DEF CustomInv, JobsSound
<1>c. /\ Nil \notin FieldIds /\ used \in [Custom!Tables -> SUBSET FieldIds] /\ {"fields", "objects", "statuses", "records"} = Custom!Tables
  BY DEF Custom!FieldsConstants, CustomInv, Custom!Tables
<1>d. Custom!Done(w) => JobsSound'
  BY JobGoes, CustomIdle DEF Custom!Done
<1>1. CASE Custom!SaveTicketValues(w)
  <2> DEFINE i == j.id
             t == j.ticket
             others == {v \in values : v.field # i \/ v.ticket # t}
             row == [field |-> i, ticket |-> t, by |-> w]
  <2>1. /\ i \in FieldIds /\ t \in Tickets /\ Custom!Done(w) /\ UNCHANGED <<fields, objects, statuses, used, records, onStatus, enforced>>
    BY <1>0, <1>1 DEF Custom!SaveTicketValues, JobSound
  <2>2. values' = others \/ values' = values \/ (values' = others \cup {row} /\ (enforced => fields[i] # Nil))
    BY <1>1, <1>0 DEF Custom!SaveTicketValues, CustomInv
  <2>3. row \in [field : FieldIds, ticket : Tickets, by : Workers] /\ row.field = i /\ row.ticket = t
    BY <2>1
  <2>4. others \subseteq values /\ \A v \in others : v.field # i \/ v.ticket # t
    OBVIOUS
  <2> HIDE DEF row, others, i, t
  <2>5. values' \subseteq [field : FieldIds, ticket : Tickets, by : Workers]
    BY <1>0, <2>2, <2>3, <2>4 DEF ValueTable
  <2>6. \A v, u \in values' : v.field = u.field /\ v.ticket = u.ticket => v = u
    <3>1. CASE values' = others \/ values' = values
      BY <1>0, <2>4, <3>1 DEF ValueTable
    <3>2. CASE values' = others \cup {row}
      <4>1. \A v, u \in others : v.field = u.field /\ v.ticket = u.ticket => v = u
        BY <1>0, <2>4 DEF ValueTable
      <4>2. \A v \in others : ~(v.field = row.field /\ v.ticket = row.ticket)
        BY <2>3, <2>4
      <4> QED BY <3>2, <4>1, <4>2
    <3> QED BY <2>2, <3>1, <3>2
  <2>7. enforced => \A v \in values' : fields[v.field] # Nil
    BY <1>0, <2>2, <2>3, <2>4 DEF ValueTable
  <2>8. ValueTable'
    BY <2>1, <2>5, <2>6, <2>7 DEF ValueTable
  <2> QED BY <1>d, <2>1, <2>8, TablesStay DEF CustomInv
<1>2. CASE Custom!StoreRecord(w)
  <2>1. /\ j.id \in FieldIds /\ Custom!Done(w) /\ Custom!Spare("records") /\ UNCHANGED <<fields, objects, statuses, values, onStatus, enforced>>
    BY <1>0, <1>2 DEF Custom!StoreRecord, JobSound
  <2>2. CASE UNCHANGED <<records, used>>
    BY <1>d, <2>1, <2>2, TablesStay DEF CustomInv
  <2>3. CASE /\ ~(enforced /\ objects[j.id] = Nil) /\ records' = [records EXCEPT ![Custom!FreshId("records")] = j.id]
             /\ used' = [used EXCEPT !["records"] = @ \cup {Custom!FreshId("records")}]
    <3> DEFINE n == Custom!FreshId("records")
    <3>1. n \in FieldIds
      BY <1>c, <2>1, FreshIdIs
    <3>2. records' = [records EXCEPT ![n] = j.id] /\ used' = [used EXCEPT !["records"] = @ \cup {n}]
      BY <2>3
    <3> HIDE DEF n, j
    <3>3. /\ used' \in [Custom!Tables -> SUBSET FieldIds] /\ used'["fields"] = used["fields"]
          /\ used'["objects"] = used["objects"] /\ used'["statuses"] = used["statuses"]
      BY <1>c, <3>1, <3>2
    <3>4. RecordTable'
      <4>1. records' \in [FieldIds -> FieldIds \cup {Nil}] /\ \A r \in FieldIds : records'[r] = IF r = n THEN j.id ELSE records[r]
        BY <1>0, <2>1, <3>1, <3>2 DEF RecordTable
      <4>2. UNCHANGED <<objects, enforced>>
        BY <2>1
      <4> QED BY <1>0, <2>3, <4>1, <4>2 DEF RecordTable
    <3>5. FieldTable' /\ ObjectTable' /\ StatusTable'
      BY <1>0, <2>1, <3>3 DEF FieldTable, ObjectTable, StatusTable
    <3> QED BY <1>d, <2>1, <3>3, <3>4, <3>5, TablesStay DEF CustomInv
  <2> QED BY <1>2, <2>2, <2>3 DEF Custom!StoreRecord
<1>3. CASE Custom!SetStatus(w)
  <2>1. /\ j.id \in FieldIds /\ j.ticket \in Tickets /\ Custom!Done(w) /\ UNCHANGED <<fields, objects, statuses, used, values, records, enforced>>
    BY <1>0, <1>3 DEF Custom!SetStatus, JobSound
  <2>2. CASE onStatus' = onStatus
    BY <1>d, <2>1, <2>2, TablesStay DEF CustomInv
  <2>3. CASE ~(enforced /\ statuses[j.id] = Nil) /\ onStatus' = [onStatus EXCEPT ![j.ticket] = j.id]
    <3>1. onStatus' \in [Tickets -> FieldIds \cup {Nil}] /\ \A t \in Tickets : onStatus'[t] = IF t = j.ticket THEN j.id ELSE onStatus[t]
      BY <1>0, <2>1, <2>3 DEF StatusColumn
    <3>2. StatusColumn'
      BY <1>0, <2>1, <2>3, <3>1 DEF StatusColumn
    <3> QED BY <1>d, <2>1, <3>2, TablesStay DEF CustomInv
  <2> QED BY <1>3, <2>2, <2>3 DEF Custom!SetStatus
<1>4. ASSUME NEW r \in FieldIds, Custom!DeleteRecord(w, r) PROVE CustomInv'
  <2>1. records' = [records EXCEPT ![r] = Nil] /\ UNCHANGED <<fields, objects, statuses, used, values, onStatus, worker, enforced>>
    BY <1>4 DEF Custom!DeleteRecord
  <2>2. records' \in [FieldIds -> FieldIds \cup {Nil}] /\ \A q \in FieldIds : records'[q] = IF q = r THEN Nil ELSE records[q]
    BY <1>0, <2>1 DEF RecordTable
  <2>3. RecordTable'
    BY <1>0, <2>1, <2>2 DEF RecordTable
  <2>4. JobsSound'
    BY <2>1 DEF CustomInv, JobsSound
  <2> QED BY <2>1, <2>3, <2>4, TablesStay DEF CustomInv
<1> QED BY <1>1, <1>2, <1>3, <1>4

LEMMA CustomStep == ASSUME Custom!FieldsConstants, CustomInv, Custom!Next \/ UNCHANGED customVars PROVE CustomInv'
<1>1. CASE UNCHANGED customVars
  <2>1. JobsSound'
    BY <1>1 DEF customVars, CustomInv, JobsSound
  <2> QED BY <1>1, <2>1, TablesStay DEF customVars, CustomInv
<1>2. CASE Custom!Next
  BY <1>2, CustomReads, CustomWrites, CustomStores DEF Custom!Next
<1> QED BY <1>1, <1>2

\* A request that leaves a table as it is deletes nothing from it.
LEMMA NoneDeleted ==
  ASSUME \A i \in FieldIds : fields[i] # Nil => fields'[i] # Nil,
         \A i \in FieldIds : objects[i] # Nil => objects'[i] # Nil,
         \A i \in FieldIds : statuses[i] # Nil => statuses'[i] # Nil
  PROVE  Custom!DeletedWhole
BY DEF Custom!DeletedWhole

LEMMA TablesStand == ASSUME UNCHANGED <<fields, objects, statuses>> PROVE Custom!DeletedWhole
BY NoneDeleted

\* Only a destroy deletes a row, and it leaves nothing hanging on it.
LEMMA CustomActs == ASSUME Custom!FieldsConstants, CustomInv, Custom!Next PROVE Custom!DeletedWhole
<1>1. PICK w \in Workers :
        \/ \E t \in Custom!Tables \ {"records"} : Custom!StoreCheck(w, t)
        \/ \E t \in Custom!Tables \ {"records"}, i \in FieldIds : Custom!UpdateRead(w, t, i) \/ Custom!DestroyRead(w, t, i)
        \/ \E i \in FieldIds : Custom!UpdateObjectRead(w, i) \/ Custom!StoreRecordRead(w, i) \/ Custom!DeleteRecord(w, i)
        \/ \E i \in FieldIds, t \in Tickets : Custom!ValidateTicketValues(w, i, t) \/ Custom!Resolve(w, i, t)
        \/ Custom!clearDefault(w) \/ Custom!Insert(w) \/ Custom!UpdateWrite(w) \/ Custom!DestroyWrite(w)
        \/ Custom!SaveTicketValues(w) \/ Custom!StoreRecord(w) \/ Custom!SetStatus(w)
  BY DEF Custom!Next
<1> DEFINE j == worker[w]
<1>0. JobSound(j) /\ j \in CustomJob /\ FieldTable /\ ObjectTable /\ StatusTable /\ ValueTable /\ RecordTable /\ StatusColumn
  BY DEF CustomInv, JobsSound
<1>c. /\ Nil \notin FieldIds /\ Nil \notin 1..MaxSlug /\ Nil \notin Custom!FieldRow /\ Nil \notin Custom!StatusRow
  BY DEF Custom!FieldsConstants
<1>2. ASSUME UNCHANGED <<fields, objects, statuses>> PROVE Custom!DeletedWhole
  BY <1>2, TablesStand
<1>3. CASE Custom!clearDefault(w)
  <2>1. /\ statuses' = Custom!Cleared(j.row.category, j.id) /\ UNCHANGED <<fields, objects>>
    BY <1>3 DEF Custom!clearDefault
  <2>2. ASSUME NEW i \in FieldIds, statuses[i] # Nil PROVE statuses'[i] # Nil
    <3>1. statuses'[i] = IF statuses[i] # Nil /\ statuses[i].category = j.row.category /\ i # j.id THEN [statuses[i] EXCEPT !.default = FALSE] ELSE statuses[i]
      BY <2>1, <2>2 DEF Custom!Cleared
    <3>2. statuses[i] \in Custom!StatusRow
      BY <1>0, <2>2 DEF StatusTable
    <3>3. [statuses[i] EXCEPT !.default = FALSE] \in Custom!StatusRow
      BY <3>2 DEF Custom!StatusRow
    <3> QED BY <1>c, <2>2, <3>1, <3>2, <3>3
  <2> QED BY <2>1, <2>2, NoneDeleted
<1>4. CASE Custom!Insert(w)
  <2> DEFINE t == j.table
             n == Custom!FreshId(t)
  <2>1. j.at = "insert" /\ t # "records" /\ t \in Custom!Tables /\ Custom!Spare(t) /\ j.slug \in 1..MaxSlug
    BY <1>0, <1>4 DEF Custom!Insert, JobSound, CustomJob
  <2>2. n \in FieldIds
    BY <2>1, FreshIdIs
  <2>3. CASE UNCHANGED <<fields, objects, statuses>>
    BY <2>3, <1>2
  <2>4. CASE t = "fields" /\ Custom!CreateField(w, n)
    <3>1. PICK r \in BOOLEAN : fields' = [fields EXCEPT ![n] = [slug |-> j.slug, required |-> r]]
      BY <2>4 DEF Custom!CreateField
    <3>2. [slug |-> j.slug, required |-> r] \in Custom!FieldRow
      BY <2>1 DEF Custom!FieldRow
    <3> DEFINE row == [slug |-> j.slug, required |-> r]
    <3>3. fields' = [fields EXCEPT ![n] = row] /\ row # Nil /\ UNCHANGED <<objects, statuses>>
      BY <1>c, <2>4, <3>1, <3>2 DEF Custom!CreateField
    <3> HIDE DEF row, n, j
    <3>4. \A i \in FieldIds : fields[i] # Nil => fields'[i] # Nil
      BY <1>0, <3>3 DEF FieldTable
    <3> QED BY <3>3, <3>4, NoneDeleted
  <2>5. CASE t = "objects" /\ Custom!CreateObject(w, n)
    <3>1. objects' = [objects EXCEPT ![n] = j.slug] /\ j.slug # Nil /\ UNCHANGED <<fields, statuses>>
      BY <1>c, <2>1, <2>5 DEF Custom!CreateObject
    <3> HIDE DEF n, j
    <3>2. \A i \in FieldIds : objects[i] # Nil => objects'[i] # Nil
      BY <1>0, <3>1 DEF ObjectTable
    <3> QED BY <3>1, <3>2, NoneDeleted
  <2>6. CASE t = "statuses" /\ Custom!CreateStatus(w, n)
    <3> DEFINE row == [slug |-> j.slug, category |-> j.row.category, default |-> j.row.default]
    <3>1. row \in Custom!StatusRow
      BY <1>0, <2>1, <2>6 DEF JobSound, Custom!StatusRow, Custom!Inputs
    <3>2. statuses' = [statuses EXCEPT ![n] = row] /\ row # Nil /\ UNCHANGED <<fields, objects>>
      BY <1>c, <2>6, <3>1 DEF Custom!CreateStatus
    <3> HIDE DEF row, n, j
    <3>3. \A i \in FieldIds : statuses[i] # Nil => statuses'[i] # Nil
      BY <1>0, <3>2 DEF StatusTable
    <3> QED BY <3>2, <3>3, NoneDeleted
  <2> QED BY <1>4, <2>3, <2>4, <2>5, <2>6 DEF Custom!Insert
<1>5. CASE Custom!UpdateWrite(w)
  <2> DEFINE t == j.table
             i == j.id
  <2>1. i \in FieldIds /\ j.at = "update"
    BY <1>0, <1>5 DEF Custom!UpdateWrite, JobSound
  <2>2. CASE UNCHANGED <<fields, objects, statuses>>
    BY <2>2, <1>2
  <2>3. CASE t = "fields" /\ Custom!Row(t, i) # Nil /\ UNCHANGED <<objects, statuses>> /\ \E r \in BOOLEAN : fields' = [fields EXCEPT ![i].required = r]
    <3>1. PICK r \in BOOLEAN : fields' = [fields EXCEPT ![i].required = r]
      BY <2>3
    <3>2. fields[i] \in Custom!FieldRow
      BY <1>0, <2>1, <2>3 DEF FieldTable, Custom!Row
    <3> DEFINE row == [fields[i] EXCEPT !.required = r]
    <3>3. row \in Custom!FieldRow /\ fields' = [fields EXCEPT ![i] = row]
      BY <3>1, <3>2 DEF Custom!FieldRow
    <3> HIDE DEF row, i, j
    <3>4. \A k \in FieldIds : fields[k] # Nil => fields'[k] # Nil
      BY <1>0, <1>c, <3>3 DEF FieldTable
    <3> QED BY <2>3, <3>4, NoneDeleted
  <2>4. CASE t = "objects" /\ UNCHANGED <<fields, statuses>> /\ ~Custom!Refused(t, j.slug, i) /\ objects' = [objects EXCEPT ![i] = j.slug]
    <3>1. j.slug # Nil
      BY <1>0, <1>c, <2>1, <2>4 DEF JobSound
    <3> HIDE DEF i, j
    <3>2. \A k \in FieldIds : objects[k] # Nil => objects'[k] # Nil
      BY <1>0, <2>4, <3>1 DEF ObjectTable
    <3> QED BY <2>4, <3>2, NoneDeleted
  <2>5. CASE t = "statuses" /\ Custom!Row(t, i) # Nil /\ UNCHANGED <<fields, objects>> /\ statuses' = [statuses EXCEPT ![i].category = j.row.category, ![i].default = j.row.default]
    <3> DEFINE row == [statuses[i] EXCEPT !.category = j.row.category, !.default = j.row.default]
    <3>1. statuses[i] \in Custom!StatusRow /\ j.row \in Custom!Inputs
      BY <1>0, <2>1, <2>5 DEF StatusTable, Custom!Row, JobSound
    <3>2. statuses' = [statuses EXCEPT ![i] = row]
      BY <1>0, <2>1, <2>5 DEF StatusTable
    <3>3. row \in Custom!StatusRow
      BY <3>1 DEF Custom!StatusRow, Custom!Inputs
    <3> HIDE DEF row, i, j
    <3>4. \A k \in FieldIds : statuses[k] # Nil => statuses'[k] # Nil
      BY <1>0, <1>c, <3>2, <3>3 DEF StatusTable
    <3> QED BY <2>5, <3>4, NoneDeleted
  <2> QED BY <1>5, <2>2, <2>3, <2>4, <2>5 DEF Custom!UpdateWrite
<1>6. CASE Custom!DestroyWrite(w)
  <2> DEFINE i == j.id
  <2>1. i \in FieldIds /\ j.at = "destroy"
    BY <1>0, <1>6 DEF Custom!DestroyWrite, JobSound
  <2>2. CASE fields' = [fields EXCEPT ![i] = Nil] /\ values' = Custom!ValuesWithout(i) /\ UNCHANGED <<objects, statuses>>
    <3>1. \A v \in values' : v.field # i
      BY <2>2 DEF Custom!ValuesWithout
    <3> HIDE DEF i
    <3>2. \A k \in FieldIds : fields'[k] = IF k = i THEN Nil ELSE fields[k]
      BY <1>0, <2>2 DEF FieldTable
    <3> QED BY <2>2, <3>1, <3>2 DEF Custom!DeletedWhole
  <2>3. CASE objects' = [objects EXCEPT ![i] = Nil] /\ records' = [r \in FieldIds |-> IF records[r] = i THEN Nil ELSE records[r]] /\ UNCHANGED <<fields, statuses>>
    <3> HIDE DEF i
    <3>1. \A k \in FieldIds : objects'[k] = IF k = i THEN Nil ELSE objects[k]
      BY <1>0, <2>3 DEF ObjectTable
    <3>2. \A r \in FieldIds : records'[r] # i
      BY <1>c, <2>1, <2>3
    <3> QED BY <2>3, <3>1, <3>2 DEF Custom!DeletedWhole
  <2>4. CASE statuses' = [statuses EXCEPT ![i] = Nil] /\ onStatus' = [t \in Tickets |-> IF onStatus[t] = i THEN Nil ELSE onStatus[t]] /\ UNCHANGED <<fields, objects>>
    <3> HIDE DEF i
    <3>1. \A k \in FieldIds : statuses'[k] = IF k = i THEN Nil ELSE statuses[k]
      BY <1>0, <2>4 DEF StatusTable
    <3>2. \A t \in Tickets : onStatus'[t] # i
      BY <1>c, <2>1, <2>4
    <3> QED BY <2>4, <3>1, <3>2 DEF Custom!DeletedWhole
  <2> QED BY <1>6, <2>2, <2>3, <2>4 DEF Custom!DestroyWrite
<1>7. ASSUME \/ \E t \in Custom!Tables \ {"records"} : Custom!StoreCheck(w, t)
             \/ \E t \in Custom!Tables \ {"records"}, i \in FieldIds : Custom!UpdateRead(w, t, i) \/ Custom!DestroyRead(w, t, i)
             \/ \E i \in FieldIds : Custom!UpdateObjectRead(w, i) \/ Custom!StoreRecordRead(w, i) \/ Custom!DeleteRecord(w, i)
             \/ \E i \in FieldIds, t \in Tickets : Custom!ValidateTicketValues(w, i, t) \/ Custom!Resolve(w, i, t)
             \/ Custom!SaveTicketValues(w) \/ Custom!StoreRecord(w) \/ Custom!SetStatus(w)
      PROVE  UNCHANGED <<fields, objects, statuses>>
  <2>1. \A t : Custom!StoreCheck(w, t) => UNCHANGED <<fields, objects, statuses>>
    BY DEF Custom!StoreCheck
  <2>2. \A t, i : Custom!UpdateRead(w, t, i) \/ Custom!DestroyRead(w, t, i) => UNCHANGED <<fields, objects, statuses>>
    BY DEF Custom!UpdateRead, Custom!DestroyRead
  <2>3. \A i : Custom!UpdateObjectRead(w, i) \/ Custom!StoreRecordRead(w, i) \/ Custom!DeleteRecord(w, i) => UNCHANGED <<fields, objects, statuses>>
    BY DEF Custom!UpdateObjectRead, Custom!StoreRecordRead, Custom!DeleteRecord
  <2>4. \A i, t : Custom!ValidateTicketValues(w, i, t) \/ Custom!Resolve(w, i, t) => UNCHANGED <<fields, objects, statuses>>
    BY DEF Custom!ValidateTicketValues, Custom!Resolve
  <2>5. Custom!SaveTicketValues(w) \/ Custom!StoreRecord(w) \/ Custom!SetStatus(w) => UNCHANGED <<fields, objects, statuses>>
    BY DEF Custom!SaveTicketValues, Custom!StoreRecord, Custom!SetStatus
  <2> QED BY <1>7, <2>1, <2>2, <2>3, <2>4, <2>5
<1> QED BY <1>1, <1>2, <1>3, <1>4, <1>5, <1>6, <1>7

-----------------------------------------------------------------------------
\* Presence (Presence).

\* An instant lies within its second.
LEMMA InItsSecond ==
  ASSUME PerSecond \in Nat \ {0}, NEW i \in Nat
  PROVE  /\ i \div PerSecond \in Nat
         /\ (i \div PerSecond) * PerSecond <= i
         /\ i <= (i \div PerSecond) * PerSecond + (PerSecond - 1)
<1>1. i = PerSecond * (i \div PerSecond) + (i % PerSecond) /\ i % PerSecond \in 0..(PerSecond - 1) /\ i \div PerSecond \in Int
  OBVIOUS
<1> QED BY <1>1
LEMMA Monotone == ASSUME NEW k \in Nat, NEW i \in Int, NEW j \in Int, i <= j PROVE i * k <= j * k
  OBVIOUS
LEMMA Distributes == ASSUME NEW k \in Nat, NEW i \in Int, NEW j \in Int PROVE (i - j) * k = i * k - j * k
  OBVIOUS
LEMMA LaterSecond ==
  ASSUME PerSecond \in Nat \ {0}, NEW i \in Nat, NEW j \in Nat, i <= j
  PROVE  i \div PerSecond <= j \div PerSecond
<1> DEFINE a == i \div PerSecond
           b == j \div PerSecond
<1>1. a \in Nat /\ a * PerSecond <= i /\ b \in Nat /\ j <= b * PerSecond + (PerSecond - 1)
  BY InItsSecond
<1> HIDE DEF a, b
<1>2. SUFFICES ASSUME b + 1 <= a PROVE FALSE
  BY <1>1 DEF a, b
<1>3. (b + 1) * PerSecond <= a * PerSecond
  BY <1>1, <1>2, Monotone
<1>4. (b + 1) * PerSecond = b * PerSecond + PerSecond
  BY <1>1
<1> QED BY <1>1, <1>3, <1>4

\* How much later than the second of a row a visit may be that left it there.
Slack == Throttle * PerSecond + (PerSecond - 1) + Slowest
Covers(second, at) == second # -1 /\ at <= second * PerSecond + Slack

Visit == [at : {"none", "update", "insert", "over"}, of : Subjects, began : 0..PresenceTime]

\* A visit under way began no longer ago than the slowest takes; one about to
\* insert, and one that is over, finds its row no older than that.
PresenceInv ==
  /\ clock \in 0..PresenceTime /\ visit \in [Visits -> Visit]
  /\ seen \in [Subjects -> Nat \cup {-1}] /\ last \in [Subjects -> -1..PresenceTime]
  /\ \A q \in Visits : /\ visit[q].began <= clock
                       /\ visit[q].at \in {"update", "insert"} => clock - visit[q].began <= Slowest
                       /\ visit[q].at = "insert" /\ seen[visit[q].of] # -1 => Covers(seen[visit[q].of], visit[q].began)
  /\ \A s \in Subjects : last[s] # -1 => Covers(seen[s], last[s])
  /\ \A s \in Subjects : seen[s] # -1 => \E q \in Visits : visit[q].of = s /\ visit[q].at # "none" /\ Seen!Second(visit[q].began) = seen[s]

LEMMA PresenceInit == ASSUME Seen!PresenceConstants, Seen!Init PROVE PresenceInv
<1>1. visit \in [Visits -> [at : {"none"}, of : Subjects, began : {0}]] /\ clock = 0
  BY DEF Seen!Init
<1>2. \A q \in Visits : visit[q] \in Visit /\ visit[q].at = "none" /\ visit[q].began = 0
  BY <1>1 DEF Visit, Seen!PresenceConstants
<1>3. visit \in [Visits -> Visit]
  BY <1>1, <1>2
<1>4. seen \in [Subjects -> Nat \cup {-1}] /\ last \in [Subjects -> -1..PresenceTime] /\ \A s \in Subjects : seen[s] = -1 /\ last[s] = -1
  BY DEF Seen!Init, Seen!PresenceConstants
<1> QED BY <1>1, <1>2, <1>3, <1>4 DEF PresenceInv, Seen!PresenceConstants

LEMMA PresenceHas == ASSUME Seen!PresenceConstants, PresenceInv PROVE Seen!TypeOK /\ Seen!SeenHolds
<1>0. PerSecond \in Nat \ {0} /\ Throttle \in Nat /\ Window \in Nat /\ Slowest \in Nat
  BY DEF Seen!PresenceConstants
<1>1. ASSUME NEW s \in Subjects PROVE seen[s] \in -1..Seen!Second(PresenceTime)
  <2>0. Seen!Second(PresenceTime) \in Nat
    <3>1. PresenceTime \in Nat
      BY DEF Seen!PresenceConstants
    <3> QED BY <1>0, <3>1, InItsSecond DEF Seen!Second
  <2>1. CASE seen[s] = -1
    BY <2>0, <2>1
  <2>2. CASE seen[s] # -1
    <3>1. PICK q \in Visits : Seen!Second(visit[q].began) = seen[s]
      BY <2>2 DEF PresenceInv
    <3>2. visit[q].began \in Nat /\ visit[q].began <= PresenceTime /\ PresenceTime \in Nat
      BY DEF PresenceInv, Visit, Seen!PresenceConstants
    <3>3. Seen!Second(visit[q].began) <= Seen!Second(PresenceTime) /\ Seen!Second(visit[q].began) \in Nat
      BY <1>0, <3>2, LaterSecond, InItsSecond DEF Seen!Second
    <3> QED BY <2>0, <3>1, <3>3
  <2> QED BY <2>1, <2>2
<1>2. Seen!TypeOK
  <2>1. seen \in [Subjects -> -1..Seen!Second(PresenceTime)]
    BY <1>1 DEF PresenceInv
  <2> QED BY <2>1 DEF Seen!TypeOK, PresenceInv, Visit
<1>3. ASSUME NEW s \in Subjects, last[s] # -1, clock - last[s] <= (Window - Throttle) * PerSecond - (PerSecond - 1) - Slowest
      PROVE  Seen!Online(s)
  <2> DEFINE x == seen[s] * PerSecond
             t == Throttle * PerSecond
             w == Window * PerSecond
  <2>1. last[s] <= x + (t + (PerSecond - 1) + Slowest) /\ seen[s] # -1
    BY <1>3 DEF PresenceInv, Covers, Slack
  <2>2. (Window - Throttle) * PerSecond = w - t
    BY <1>0, Distributes
  <2>3. x \in Int /\ t \in Int /\ w \in Int /\ last[s] \in Int /\ clock \in Int
    BY <1>0 DEF PresenceInv
  <2> HIDE DEF x, t, w
  <2>4. x >= clock - w
    BY <1>0, <1>3, <2>1, <2>2, <2>3
  <2> QED BY <2>1, <2>4 DEF Seen!Online, x, w
<1> QED BY <1>2, <1>3 DEF Seen!SeenHolds, PresenceInv

\* A row only takes later seconds, and what it covered it covers still.
LEMMA StillCovers ==
  ASSUME Seen!PresenceConstants, NEW a \in Nat \cup {-1}, NEW b \in Nat, NEW i \in Int, a <= b, Covers(a, i)
  PROVE  Covers(b, i)
<1>1. a * PerSecond <= b * PerSecond
  BY Monotone DEF Seen!PresenceConstants
<1>2. a * PerSecond \in Int /\ b * PerSecond \in Int /\ Slack \in Int
  BY DEF Seen!PresenceConstants, Slack
<1> QED BY <1>1, <1>2 DEF Covers

\* The second of an instant covers what comes at most the slowest visit later.
LEMMA SecondCovers ==
  ASSUME Seen!PresenceConstants, NEW j \in Nat, NEW i \in Int, i <= j + Slowest
  PROVE  Seen!Second(j) \in Nat /\ Covers(Seen!Second(j), i)
<1>1. PerSecond \in Nat \ {0} /\ Slowest \in Nat /\ Throttle * PerSecond \in Nat
  BY DEF Seen!PresenceConstants
<1>2. Seen!Second(j) \in Nat /\ j <= Seen!Second(j) * PerSecond + (PerSecond - 1) /\ Seen!Second(j) * PerSecond \in Int
  <2> DEFINE a == j \div PerSecond
  <2>1. a \in Nat /\ j <= a * PerSecond + (PerSecond - 1)
    BY <1>1, InItsSecond
  <2> HIDE DEF a
  <2>2. a * PerSecond \in Int
    BY <1>1, <2>1
  <2> QED BY <2>1, <2>2 DEF Seen!Second, a
<1> DEFINE x == Seen!Second(j) * PerSecond
           t == Throttle * PerSecond
<1>3. x \in Int /\ t \in Nat /\ j <= x + (PerSecond - 1)
  BY <1>1, <1>2
<1> HIDE DEF x, t
<1>4. i <= x + (t + (PerSecond - 1) + Slowest)
  BY <1>1, <1>3
<1>5. Seen!Second(j) # -1
  BY <1>2
<1> QED BY <1>2, <1>4, <1>5 DEF Covers, Slack, x, t

\* One visit goes on, as v, and leaves k in the row and l as the last visit.
Moves(q, v, k, l) ==
  /\ visit' = [visit EXCEPT ![q] = v] /\ seen' = [seen EXCEPT ![v.of] = k] /\ last' = [last EXCEPT ![v.of] = l] /\ clock' = clock
  /\ v \in Visit /\ v.of = visit[q].of /\ v.began <= clock /\ v.at # "none"
  /\ v.at \in {"update", "insert"} => clock - v.began <= Slowest
  /\ visit[q].at # "none" => v.began = visit[q].began
  /\ k \in Nat \cup {-1} /\ l \in -1..PresenceTime
  /\ k = seen[v.of] \/ k = Seen!Second(v.began)
  /\ v.at = "insert" /\ k # -1 => Covers(k, v.began)
  /\ l # -1 => Covers(k, l)
  /\ \A p \in Visits : p # q /\ visit[p].at = "insert" /\ visit[p].of = v.of /\ k # -1 => Covers(k, visit[p].began)

LEMMA VisitMoves ==
  ASSUME PresenceInv, NEW q \in Visits, NEW v, NEW k, NEW l, Moves(q, v, k, l) PROVE PresenceInv'
<1>0. /\ visit' = [visit EXCEPT ![q] = v] /\ seen' = [seen EXCEPT ![v.of] = k] /\ last' = [last EXCEPT ![v.of] = l] /\ clock' = clock
      /\ v \in Visit /\ v.of = visit[q].of /\ v.began <= clock /\ v.at # "none"
      /\ v.at \in {"update", "insert"} => clock - v.began <= Slowest
      /\ visit[q].at # "none" => v.began = visit[q].began
      /\ k \in Nat \cup {-1} /\ l \in -1..PresenceTime
      /\ k = seen[v.of] \/ k = Seen!Second(v.began)
      /\ v.at = "insert" /\ k # -1 => Covers(k, v.began)
      /\ l # -1 => Covers(k, l)
  BY DEF Moves
<1>m. \A p \in Visits : p # q /\ visit[p].at = "insert" /\ visit[p].of = v.of /\ k # -1 => Covers(k, visit[p].began)
  BY DEF Moves
<1>1. visit' \in [Visits -> Visit] /\ visit'[q] = v /\ \A p \in Visits : p # q => visit'[p] = visit[p]
  BY <1>0 DEF PresenceInv
<1>2. seen' \in [Subjects -> Nat \cup {-1}] /\ last' \in [Subjects -> -1..PresenceTime] /\ v.of \in Subjects
  BY <1>0 DEF PresenceInv, Visit
<1>3. seen'[v.of] = k /\ last'[v.of] = l /\ \A s \in Subjects : s # v.of => seen'[s] = seen[s] /\ last'[s] = last[s]
  BY <1>0, <1>2 DEF PresenceInv
<1>4. ASSUME NEW p \in Visits
      PROVE  /\ visit'[p].began <= clock'
             /\ visit'[p].at \in {"update", "insert"} => clock' - visit'[p].began <= Slowest
             /\ visit'[p].at = "insert" /\ seen'[visit'[p].of] # -1 => Covers(seen'[visit'[p].of], visit'[p].began)
  <2>1. CASE p = q
    BY <1>0, <1>1, <1>3, <2>1
  <2>2. CASE p # q
    <3>1. visit[p] \in Visit /\ visit'[p] = visit[p] /\ visit[p].of \in Subjects
      BY <1>1, <2>2 DEF PresenceInv, Visit
    <3>2. CASE visit[p].of = v.of
      BY <1>0, <1>m, <1>3, <2>2, <3>1, <3>2 DEF PresenceInv
    <3>3. CASE visit[p].of # v.of
      BY <1>0, <1>3, <3>1, <3>3 DEF PresenceInv
    <3> QED BY <3>2, <3>3
  <2> QED BY <2>1, <2>2
<1>5. ASSUME NEW s \in Subjects, last'[s] # -1 PROVE Covers(seen'[s], last'[s])
  <2>1. CASE s = v.of
    BY <1>0, <1>3, <1>5, <2>1
  <2>2. CASE s # v.of
    BY <1>3, <1>5, <2>2 DEF PresenceInv
  <2> QED BY <2>1, <2>2
<1>6. ASSUME NEW s \in Subjects, seen'[s] # -1
      PROVE  \E p \in Visits : visit'[p].of = s /\ visit'[p].at # "none" /\ Seen!Second(visit'[p].began) = seen'[s]
  <2>1. CASE s = v.of /\ k = Seen!Second(v.began)
    BY <1>0, <1>1, <1>3, <2>1
  <2>2. CASE seen'[s] = seen[s]
    <3>1. PICK p \in Visits : visit[p].of = s /\ visit[p].at # "none" /\ Seen!Second(visit[p].began) = seen[s]
      BY <1>6, <2>2 DEF PresenceInv
    <3>2. visit'[p].of = s /\ visit'[p].at # "none" /\ visit'[p].began = visit[p].began
      BY <1>0, <1>1, <3>1
    <3> QED BY <2>2, <3>1, <3>2
  <2> QED BY <1>0, <1>3, <2>1, <2>2
<1>7. clock' \in 0..PresenceTime
  BY <1>0 DEF PresenceInv
<1> QED BY <1>1, <1>2, <1>4, <1>5, <1>6, <1>7 DEF PresenceInv

LEMMA PresenceStep == ASSUME Seen!PresenceConstants, PresenceInv, [Seen!Next]_Seen!vars PROVE PresenceInv'
<1>0. /\ PerSecond \in Nat \ {0} /\ Throttle \in Nat /\ Slowest \in Nat /\ PresenceTime \in Nat
      /\ clock \in 0..PresenceTime /\ visit \in [Visits -> Visit] /\ seen \in [Subjects -> Nat \cup {-1}] /\ last \in [Subjects -> -1..PresenceTime]
  BY DEF Seen!PresenceConstants, PresenceInv
<1>1. CASE UNCHANGED Seen!vars
  BY <1>1 DEF Seen!vars, PresenceInv
<1>2. CASE Seen!Tick
  <2>1. clock' \in 0..PresenceTime /\ clock' = clock + 1 /\ UNCHANGED <<seen, visit, last>>
    BY <1>0, <1>2 DEF Seen!Tick
  <2>2. ASSUME NEW q \in Visits PROVE visit[q].began <= clock' /\ (visit[q].at \in {"update", "insert"} => clock' - visit[q].began <= Slowest)
    <3>1. visit[q].began \in Nat /\ visit[q].began <= clock /\ (visit[q].at \in {"update", "insert"} => clock - visit[q].began < Slowest)
      BY <1>0, <1>2 DEF Seen!Tick, PresenceInv, Visit
    <3> QED BY <1>0, <2>1, <3>1
  <2> QED BY <2>1, <2>2 DEF PresenceInv
<1>3. ASSUME NEW q \in Visits, Seen!See(q) PROVE PresenceInv'
  <2> DEFINE v == [visit[q] EXCEPT !.at = "update", !.began = clock]
  <2>1. v \in Visit /\ v.at = "update" /\ v.began = clock /\ v.of = visit[q].of /\ visit[q].at = "none"
    BY <1>0, <1>3 DEF Seen!See, Visit
  <2>2. visit' = [visit EXCEPT ![q] = v] /\ clock' = clock /\ UNCHANGED <<seen, last>>
    BY <1>0, <1>3 DEF Seen!See
  <2> HIDE DEF v
  <2>3. v.of \in Subjects /\ seen[v.of] \in Nat \cup {-1} /\ last[v.of] \in -1..PresenceTime
    BY <1>0, <2>1 DEF Visit
  <2>4. seen' = [seen EXCEPT ![v.of] = seen[v.of]] /\ last' = [last EXCEPT ![v.of] = last[v.of]]
    BY <1>0, <2>2
  <2>5. v.began <= clock /\ clock - v.began <= Slowest
    BY <1>0, <2>1
  <2>6. last[v.of] # -1 => Covers(seen[v.of], last[v.of])
    BY <2>3 DEF PresenceInv
  <2>7. \A p \in Visits : p # q /\ visit[p].at = "insert" /\ visit[p].of = v.of /\ seen[v.of] # -1 => Covers(seen[v.of], visit[p].began)
    BY DEF PresenceInv
  <2> DEFINE k == seen[v.of]
             l == last[v.of]
  <2>8. Moves(q, v, k, l)
    BY <2>1, <2>2, <2>3, <2>4, <2>5, <2>6, <2>7 DEF Moves
  <2> QED BY <2>8, VisitMoves
\* A visit under way, and the second it took.
<1>4. ASSUME NEW q \in Visits, visit[q].at \in {"update", "insert"}
      PROVE  /\ visit[q].of \in Subjects /\ visit[q].began \in Nat /\ visit[q].began <= clock /\ clock <= visit[q].began + Slowest
             /\ seen[visit[q].of] \in Nat \cup {-1} /\ last[visit[q].of] \in -1..PresenceTime
             /\ Seen!Second(visit[q].began) \in Nat
             /\ \A i \in Int : i <= clock => Covers(Seen!Second(visit[q].began), i)
             /\ visit[q].began \in 0..PresenceTime
             /\ Seen!Later(last[visit[q].of], visit[q].began) \in {last[visit[q].of], visit[q].began}
             /\ Seen!Later(last[visit[q].of], visit[q].began) \in -1..PresenceTime
  <2>1. visit[q] \in Visit /\ visit[q].began <= clock /\ clock - visit[q].began <= Slowest
    BY <1>0, <1>4 DEF PresenceInv
  <2>2. visit[q].of \in Subjects /\ visit[q].began \in Nat /\ visit[q].began \in 0..PresenceTime
    BY <2>1 DEF Visit
  <2>3. clock <= visit[q].began + Slowest
    BY <1>0, <2>1, <2>2
  <2>4. ASSUME NEW i \in Int, i <= clock PROVE Covers(Seen!Second(visit[q].began), i)
    <3>1. i <= visit[q].began + Slowest
      BY <1>0, <2>2, <2>3, <2>4
    <3> QED BY <2>2, <3>1, SecondCovers
  <2>5. Seen!Second(visit[q].began) \in Nat
    BY <1>0, <2>2, InItsSecond DEF Seen!Second
  <2>6. last[visit[q].of] \in -1..PresenceTime /\ seen[visit[q].of] \in Nat \cup {-1}
    BY <1>0, <2>2
  <2>7. Seen!Later(last[visit[q].of], visit[q].began) \in {last[visit[q].of], visit[q].began}
    BY DEF Seen!Later
  <2>8. PresenceTime \in Int
    BY <1>0
  <2> QED BY <2>1, <2>2, <2>3, <2>4, <2>5, <2>6, <2>7, <2>8
<1>5. ASSUME NEW q \in Visits, Seen!Update(q) PROVE PresenceInv'
  <2> DEFINE s == visit[q].of
             second == Seen!Second(visit[q].began)
             updates == seen[s] # -1 /\ seen[s] < second - Throttle
             v == [visit[q] EXCEPT !.at = IF updates THEN "over" ELSE "insert"]
             k == IF updates THEN second ELSE seen[s]
             l == IF updates THEN Seen!Later(last[s], visit[q].began) ELSE last[s]
  <2>0. visit[q].at = "update" /\ visit[q] \in Visit /\ clock' = clock
    BY <1>0, <1>5 DEF Seen!Update
  <2>1. v \in Visit /\ v.at \in {"over", "insert"} /\ (v.at = "over" <=> updates) /\ v.began = visit[q].began /\ v.of = s
    BY <2>0 DEF Visit
  <2>2. visit' = [visit EXCEPT ![q] = v] /\ seen' = [seen EXCEPT ![s] = k] /\ last' = [last EXCEPT ![s] = l]
    BY <1>0, <1>4, <1>5, <2>0 DEF Seen!Update
  <2>3. s \in Subjects /\ second \in Nat /\ seen[s] \in Nat \cup {-1} /\ last[s] \in -1..PresenceTime
    BY <1>4, <2>0
  <2>4. k \in Nat \cup {-1} /\ l \in -1..PresenceTime /\ (k = seen[s] \/ k = second) /\ (l = last[s] \/ l = visit[q].began)
    BY <1>4, <2>0, <2>3
  <2>5. updates => seen[s] <= second
    BY <1>0, <2>3
  <2>6. ASSUME NEW i \in Int, Covers(seen[s], i) PROVE Covers(k, i)
    BY <2>3, <2>5, <2>6, StillCovers
  <2>7. ~updates /\ k # -1 => Covers(k, visit[q].began)
    <3>1. SUFFICES ASSUME ~updates, k # -1 PROVE Covers(k, visit[q].began)
      OBVIOUS
    <3>2. k = seen[s] /\ seen[s] \in Nat /\ seen[s] >= second - Throttle
      BY <1>0, <2>3, <3>1
    <3> DEFINE x == seen[s] * PerSecond
               y == second * PerSecond
               t == Throttle * PerSecond
    <3>3. (second - Throttle) * PerSecond <= x /\ (second - Throttle) * PerSecond = y - t
      BY <1>0, <2>3, <3>2, Monotone, Distributes
    <3>4. visit[q].began <= y + (PerSecond - 1)
      BY <1>0, <1>4, <2>0, InItsSecond DEF Seen!Second
    <3>5. x \in Int /\ y \in Int /\ t \in Int /\ visit[q].began \in Int
      BY <1>0, <1>4, <2>0, <2>3, <3>2
    <3> HIDE DEF x, y, t
    <3>6. visit[q].began <= x + (t + (PerSecond - 1) + Slowest)
      BY <1>0, <3>3, <3>4, <3>5
    <3> QED BY <3>1, <3>2, <3>6 DEF Covers, Slack, x, t
  <2>8. l # -1 => Covers(k, l)
    <3>1. CASE updates
      <4>1. (l <= clock /\ l \in Int) \/ l = last[s]
        BY <1>4, <2>0, <2>4
      <4>2. CASE l = last[s]
        BY <2>3, <2>6, <4>2 DEF PresenceInv
      <4>3. CASE l <= clock /\ l \in Int
        BY <1>4, <2>0, <3>1, <4>3
      <4> QED BY <4>1, <4>2, <4>3
    <3>2. CASE ~updates
      BY <2>3, <3>2 DEF PresenceInv
    <3> QED BY <3>1, <3>2
  <2>9. \A p \in Visits : p # q /\ visit[p].at = "insert" /\ visit[p].of = s /\ k # -1 => Covers(k, visit[p].began)
    <3>1. SUFFICES ASSUME NEW p \in Visits, visit[p].at = "insert", visit[p].of = s, k # -1 PROVE Covers(k, visit[p].began)
      OBVIOUS
    <3>2. visit[p].began \in Int
      BY <1>4, <3>1
    <3>3. seen[s] # -1
      BY <3>1
    <3>4. Covers(seen[s], visit[p].began)
      BY <3>1, <3>3 DEF PresenceInv
    <3> QED BY <2>6, <3>2, <3>4
  <2>10. v.at = "insert" => ~updates
    BY <2>1
  <2>11. v.began <= clock /\ clock - v.began <= Slowest
    <3>1. visit[q].began <= clock /\ clock - visit[q].began <= Slowest
      BY <2>0 DEF PresenceInv
    <3> QED BY <2>1, <3>1
  <2> HIDE DEF v, k, l, updates, s, second
  <2>12. v.of = s /\ s = visit[q].of /\ v.of = visit[q].of
    BY <2>1 DEF s
  <2>13. k = seen[v.of] \/ k = Seen!Second(v.began)
    BY <2>1, <2>4 DEF second
  <2>14. v.at = "insert" /\ k # -1 => Covers(k, v.began)
    BY <2>1, <2>7, <2>10
  <2>15. seen' = [seen EXCEPT ![v.of] = k] /\ last' = [last EXCEPT ![v.of] = l]
    BY <2>2, <2>12
  <2>16. \A p \in Visits : p # q /\ visit[p].at = "insert" /\ visit[p].of = v.of /\ k # -1 => Covers(k, visit[p].began)
    BY <2>9, <2>12
  <2>17. Moves(q, v, k, l)
    BY <2>0, <2>1, <2>2, <2>4, <2>8, <2>11, <2>12, <2>13, <2>14, <2>15, <2>16 DEF Moves
  <2> QED BY <2>17, VisitMoves
<1>6. ASSUME NEW q \in Visits, Seen!Insert(q) PROVE PresenceInv'
  <2> DEFINE s == visit[q].of
             second == Seen!Second(visit[q].began)
             v == [visit[q] EXCEPT !.at = "over"]
             k == IF seen[s] = -1 THEN second ELSE seen[s]
             l == Seen!Later(last[s], visit[q].began)
  <2>0. visit[q].at = "insert" /\ visit[q] \in Visit /\ clock' = clock
    BY <1>0, <1>6 DEF Seen!Insert
  <2>1. v \in Visit /\ v.at = "over" /\ v.began = visit[q].began /\ v.of = s
    BY <2>0 DEF Visit
  <2>2. visit' = [visit EXCEPT ![q] = v] /\ seen' = [seen EXCEPT ![s] = k] /\ last' = [last EXCEPT ![s] = l]
    BY <1>0, <1>4, <1>6, <2>0 DEF Seen!Insert
  <2>3. s \in Subjects /\ second \in Nat /\ seen[s] \in Nat \cup {-1} /\ last[s] \in -1..PresenceTime
    BY <1>4, <2>0
  <2>4. k \in Nat /\ l \in -1..PresenceTime /\ (k = seen[s] \/ k = second) /\ (l = last[s] \/ l = visit[q].began)
    BY <1>4, <2>0, <2>3
  <2>5. Covers(k, visit[q].began)
    <3>1. CASE seen[s] = -1
      <4>1. visit[q].began \in Int /\ visit[q].began <= clock
        BY <1>4, <2>0
      <4> QED BY <1>4, <2>0, <3>1, <4>1
    <3>2. CASE seen[s] # -1
      BY <2>0, <3>2 DEF PresenceInv
    <3> QED BY <3>1, <3>2
  <2>6. l # -1 => Covers(k, l)
    <3>1. CASE l = last[s] /\ l # -1
      <4>1. Covers(seen[s], last[s])
        BY <2>3, <3>1 DEF PresenceInv
      <4> QED BY <3>1, <4>1 DEF Covers
    <3> QED BY <2>4, <2>5, <3>1
  <2>7. \A p \in Visits : p # q /\ visit[p].at = "insert" /\ visit[p].of = s /\ k # -1 => Covers(k, visit[p].began)
    <3>1. SUFFICES ASSUME NEW p \in Visits, visit[p].at = "insert", visit[p].of = s PROVE Covers(k, visit[p].began)
      OBVIOUS
    <3>2. visit[p].began \in Int /\ visit[p].began <= clock
      BY <1>4, <3>1
    <3>3. CASE seen[s] = -1
      BY <1>4, <2>0, <3>2, <3>3
    <3>4. CASE seen[s] # -1
      BY <3>1, <3>4 DEF PresenceInv
    <3> QED BY <3>3, <3>4
  <2> HIDE DEF v, k, l, s, second
  <2>12. v.of = s /\ s = visit[q].of /\ v.of = visit[q].of
    BY <2>1 DEF s
  <2>13. k = seen[v.of] \/ k = Seen!Second(v.began)
    BY <2>1, <2>4 DEF second
  <2>15. seen' = [seen EXCEPT ![v.of] = k] /\ last' = [last EXCEPT ![v.of] = l]
    BY <2>2, <2>12
  <2>16. \A p \in Visits : p # q /\ visit[p].at = "insert" /\ visit[p].of = v.of /\ k # -1 => Covers(k, visit[p].began)
    BY <2>7, <2>12
  <2>17. v.began <= clock
    BY <1>4, <2>0, <2>1
  <2>18. Moves(q, v, k, l)
    BY <2>0, <2>1, <2>2, <2>4, <2>6, <2>12, <2>13, <2>15, <2>16, <2>17 DEF Moves
  <2> QED BY <2>18, VisitMoves
<1> QED BY <1>1, <1>2, <1>3, <1>5, <1>6 DEF Seen!Next

-----------------------------------------------------------------------------
\* The agent panel (AgentPanel).

Authors == Agents \cup {Customer}
PanelTicket == [assigned : Agents \cup {Nil}, followers : SUBSET Agents, activity : -1..Panel!Second(PanelTime)]
PanelReply == [n : 1..MaxReplies, ticket : Tickets, author : Authors, at : 0..PanelTime, internal : BOOLEAN]
Note == [user : Agents, kind : {"ticket_reply", "mention", "ticket_assigned"}, ticket : Tickets, reply : Int, k : {1}, read : BOOLEAN]
PanelJob == [at : {"idle", "create", "activity", "notify", "mentions"}, ticket : Tickets \cup {Nil}, reply : 0..MaxReplies,
             assigned : Agents \cup {Nil}, author : Authors \cup {Nil}]
Told == [n : Nat, assigned : Agents \cup {Nil}]
Creating(pw) == {w \in Workers : pw[w].at = "create"}
Stored(j) == j.at \in {"activity", "notify", "mentions"}

PanelTyped ==
  /\ clock \in 0..PanelTime /\ sees \in [Agents -> SUBSET Tickets] /\ panelTickets \in [Tickets -> PanelTicket]
  /\ panelReplies \subseteq PanelReply /\ reads \in [Agents -> [Tickets -> -2..Panel!Second(PanelTime)]]
  /\ panelWork \in [Workers -> PanelJob] /\ clicks \in Nat

\* Replies are numbered as they come, and those about to come fit.
RepliesSound ==
  /\ IsFiniteSet(panelReplies) /\ Cardinality(panelReplies) + Cardinality(Creating(panelWork)) <= MaxReplies
  /\ \A r \in panelReplies : r.n <= Cardinality(panelReplies) /\ r.at <= clock
  /\ \A r, q \in panelReplies : r.n = q.n => r = q

\* A handler's reply is there, nobody is notified of it yet and no other
\* handler has it.
WorkSound ==
  /\ \A w \in Workers : panelWork[w].at # "idle" => panelWork[w].ticket \in Tickets /\ panelWork[w].author \in Authors
  /\ \A w \in Workers : Stored(panelWork[w]) => \E r \in panelReplies : r.n = panelWork[w].reply
  /\ \A w \in Workers : panelWork[w].at = "notify" => \A r \in panelReplies : r.n = panelWork[w].reply => r.author = Customer
  /\ \A w \in Workers, n \in notes : Stored(panelWork[w]) => n.reply # panelWork[w].reply
  /\ \A v, w \in Workers : Stored(panelWork[v]) /\ Stored(panelWork[w]) /\ panelWork[v].reply = panelWork[w].reply => v = w

\* A user has one notification at most of one reply or assignment.
NotesSound ==
  /\ notes \subseteq Note /\ IsFiniteSet(notes) /\ told \subseteq Told
  /\ \A n, m \in notes : n.reply = m.reply /\ n.user = m.user => n = m
  /\ \A n \in notes : IF n.kind = "ticket_assigned" THEN n.reply <= 0 /\ -n.reply < clicks
                      ELSE /\ 1 <= n.reply /\ n.reply <= Cardinality(panelReplies)
                           /\ \A r \in panelReplies : r.n = n.reply => r.author # n.user
  /\ \A x \in told : /\ x.n <= Cardinality(panelReplies)
                     /\ x.assigned # Nil => \E n \in notes : n.reply = x.n /\ n.user = x.assigned

\* What is kept of a ticket's activity is no older than a reply that was told
\* of or is about to be, but for a slower handler; with one handler it is no
\* newer than the reply it is about to be set from.
Announced(i) == (\E x \in told : x.n = i) \/ \E w \in Workers : panelWork[w].at = "notify" /\ panelWork[w].reply = i
ActivitySound ==
  /\ \A t \in Tickets : panelTickets[t].activity <= Panel!Second(clock)
  /\ \A r \in panelReplies : Announced(r.n) => r.ticket \in late \/ Panel!Second(r.at) <= panelTickets[r.ticket].activity
  /\ Cardinality(Workers) = 1 =>
       /\ late = {}
       /\ \A w \in Workers, r \in panelReplies, t \in Tickets :
            panelWork[w].at = "activity" /\ r.n = panelWork[w].reply => panelTickets[t].activity <= Panel!Second(r.at)

PanelInv == PanelTyped /\ RepliesSound /\ WorkSound /\ NotesSound /\ ActivitySound

LEMMA PanelNumbers ==
  ASSUME Panel!PanelConstants
  PROVE  /\ IsFiniteSet(Agents) /\ IsFiniteSet(Workers) /\ Customer \notin Agents /\ PanelTime \in Nat /\ MaxReplies \in Nat
         /\ \A i \in Nat : Panel!Second(i) \in Nat
         /\ \A i, j \in Nat : i <= j => Panel!Second(i) <= Panel!Second(j)
<1>1. IsFiniteSet(Agents) /\ IsFiniteSet(Workers)
  BY DEF Panel!PanelConstants, Panel!IsFiniteSet, IsFiniteSet
<1>2. PerSecond \in Nat \ {0} /\ PanelTime \in Nat /\ MaxReplies \in Nat /\ Customer \notin Agents
  BY DEF Panel!PanelConstants
<1>3. \A i \in Nat : Panel!Second(i) \in Nat
  BY <1>2, InItsSecond DEF Panel!Second
<1>4. ASSUME NEW i \in Nat, NEW j \in Nat, i <= j PROVE Panel!Second(i) <= Panel!Second(j)
  BY <1>2, <1>4, LaterSecond DEF Panel!Second
<1> QED BY <1>1, <1>2, <1>3, <1>4

LEMMA PanelInit == ASSUME Panel!PanelConstants, Panel!Init PROVE PanelInv
<1>0. PanelTime \in Nat /\ MaxReplies \in Nat /\ Panel!Second(0) \in Nat /\ Panel!Second(PanelTime) \in Nat
  BY PanelNumbers
<1>1. /\ clock = 0 /\ sees = [a \in Agents |-> Tickets] /\ panelReplies = {} /\ notes = {} /\ told = {} /\ late = {} /\ clicks = 0
      /\ panelTickets \in [Tickets -> [assigned : {Nil}, followers : {{}}, activity : {-1, 0}]]
      /\ reads = [a \in Agents |-> [t \in Tickets |-> -2]] /\ panelWork = [w \in Workers |-> Panel!Idle]
  BY DEF Panel!Init, Panel!Absent
<1>2. Panel!Idle \in PanelJob /\ Panel!Idle.at = "idle"
  BY <1>0 DEF Panel!Idle, PanelJob
<1>3. PanelTyped
  <2>1. [assigned : {Nil}, followers : {{}}, activity : {-1, 0}] \subseteq PanelTicket
    <3>1. -1 \in -1..Panel!Second(PanelTime) /\ 0 \in -1..Panel!Second(PanelTime)
      BY <1>0
    <3> QED BY <3>1 DEF PanelTicket
  <2>2. panelTickets \in [Tickets -> PanelTicket]
    <3> HIDE DEF PanelTicket
    <3> QED BY <1>1, <2>1
  <2>3. reads \in [Agents -> [Tickets -> -2..Panel!Second(PanelTime)]]
    <3>1. -2 \in -2..Panel!Second(PanelTime)
      BY <1>0
    <3> QED BY <1>1, <3>1
  <2>4. panelWork \in [Workers -> PanelJob]
    BY <1>1, <1>2
  <2> QED BY <1>0, <1>1, <2>2, <2>3, <2>4 DEF PanelTyped
<1>4. RepliesSound
  <2>1. Creating(panelWork) = {}
    BY <1>1, <1>2 DEF Creating
  <2>2. IsFiniteSet(panelReplies) /\ Cardinality(panelReplies) = 0 /\ Cardinality(Creating(panelWork)) = 0
    BY <1>1, <2>1, FS_EmptySet
  <2> QED BY <1>0, <1>1, <2>1, <2>2 DEF RepliesSound
<1>5. WorkSound /\ NotesSound
  BY <1>1, <1>2, FS_EmptySet DEF WorkSound, NotesSound, Stored
<1>6. ActivitySound
  BY <1>0, <1>1, <1>2 DEF ActivitySound
<1> QED BY <1>3, <1>4, <1>5, <1>6 DEF PanelInv

LEMMA PanelHas == ASSUME Panel!PanelConstants, PanelInv PROVE Panel!TypeOK /\ Panel!PanelHolds
<1>0. Panel!Second(PanelTime) \in Nat /\ \A i \in Nat : Panel!Second(i) \in Nat
  BY PanelNumbers
<1>1. Panel!TypeOK
  <2>1. \A n \in notes : n.user \in Agents /\ n.ticket \in Tickets /\ n.read \in BOOLEAN
    BY DEF PanelInv, NotesSound, Note
  <2>2. \A w \in Workers : panelWork[w].at \in {"idle", "create", "activity", "notify", "mentions"}
    BY DEF PanelInv, PanelTyped, PanelJob
  <2> QED BY <2>1, <2>2 DEF PanelInv, PanelTyped, Panel!TypeOK, PanelTicket, PanelReply, Authors, Panel!Authors, Panel!Absent
<1>2. ASSUME NEW n \in notes, NEW m \in notes, n.reply > 0, n.reply = m.reply, n.user = m.user PROVE n = m
  BY <1>2 DEF PanelInv, NotesSound
<1>3. ASSUME NEW n \in notes, n.kind # "ticket_assigned", NEW r \in panelReplies, r.n = n.reply PROVE r.author # n.user
  BY <1>3 DEF PanelInv, NotesSound
<1>4. ASSUME NEW x \in told, x.assigned # Nil PROVE \E n \in notes : n.reply = x.n /\ n.user = x.assigned
  BY <1>4 DEF PanelInv, NotesSound
<1>5. ASSUME NEW x \in told, NEW r \in panelReplies, NEW a \in Agents, r.n = x.n, r.ticket \notin late, reads[a][r.ticket] < Panel!Second(r.at)
      PROVE  Panel!unread(a, r.ticket)
  <2>1. r.ticket \in Tickets /\ r.at \in Nat
    BY <1>5, PanelNumbers DEF PanelInv, PanelTyped, PanelReply
  <2>2. Panel!Second(r.at) <= panelTickets[r.ticket].activity
    BY <1>5 DEF PanelInv, ActivitySound, Announced
  <2>3. panelTickets[r.ticket].activity \in Int /\ reads[a][r.ticket] \in Int /\ Panel!Second(r.at) \in Nat
    <3>1. panelTickets[r.ticket] \in PanelTicket /\ reads[a][r.ticket] \in -2..Panel!Second(PanelTime)
      BY <2>1 DEF PanelInv, PanelTyped
    <3> QED BY <1>0, <2>1, <3>1 DEF PanelTicket
  <2>4. reads[a][r.ticket] < panelTickets[r.ticket].activity /\ panelTickets[r.ticket].activity # -1
    BY <1>5, <2>2, <2>3
  <2> QED BY <2>4 DEF Panel!unread
<1>6. Cardinality(Workers) = 1 => late = {}
  BY DEF PanelInv, ActivitySound
<1>7. ASSUME NEW a \in Agents PROVE Panel!UnreadCount(a) = Cardinality({x \in Panel!Feed(a) : ~x.read})
  <2> DEFINE A == {n \in Panel!Mine(a) : ~n.read}
             B == {x \in Panel!Feed(a) : ~x.read}
             row(x) == [note |-> [x EXCEPT !.ticket = Nil], read |-> x.read, ticket |-> IF x.ticket \in sees[a] THEN x.ticket ELSE Nil]
             f == [x \in A |-> row(x)]
  <2>1. A \subseteq notes /\ IsFiniteSet(A) /\ A \subseteq Note
    <3>1. A \subseteq notes /\ notes \subseteq Note /\ IsFiniteSet(notes)
      BY DEF Panel!Mine, PanelInv, NotesSound
    <3> QED BY <3>1, FS_Subset
  <2>2. B = {row(x) : x \in A}
    <3>1. Panel!Feed(a) = {row(x) : x \in Panel!Mine(a)}
      BY DEF Panel!Feed
    <3>2. \A x : row(x).read = x.read
      OBVIOUS
    <3> HIDE DEF row
    <3> QED BY <3>1, <3>2
  <2>3. ASSUME NEW x \in A, NEW y \in A, row(x) = row(y) PROVE x = y
    <3>1. x \in Note /\ y \in Note /\ x \in notes /\ y \in notes
      BY <2>1
    <3>2. [x EXCEPT !.ticket = Nil] = [y EXCEPT !.ticket = Nil]
      <4>1. row(x).note = row(y).note
        BY <2>3
      <4> QED BY <4>1
    <3>3. x.reply = y.reply /\ x.user = y.user
      <4>1. [x EXCEPT !.ticket = Nil].reply = x.reply /\ [y EXCEPT !.ticket = Nil].reply = y.reply
        BY <3>1 DEF Note
      <4>2. [x EXCEPT !.ticket = Nil].user = x.user /\ [y EXCEPT !.ticket = Nil].user = y.user
        BY <3>1 DEF Note
      <4> QED BY <3>2, <4>1, <4>2
    <3> QED BY <3>1, <3>3 DEF PanelInv, NotesSound
  <2> HIDE DEF A, B, row
  <2>4. f \in Bijection(A, B)
    <3>1. f \in [A -> B]
      BY <2>2
    <3>2. \A x, y \in A : f[x] = f[y] => x = y
      BY <2>3
    <3>3. \A z \in B : \E x \in A : f[x] = z
      BY <2>2
    <3> HIDE DEF f
    <3> QED BY <3>1, <3>2, <3>3, Zenon DEF Bijection, Injection, Surjection, IsInjective
  <2>5. Cardinality(A) = Cardinality(B)
    BY <2>1, <2>4, FS_Bijection DEF ExistsBijection
  <2>6. Panel!UnreadCount(a) = Cardinality(A)
    BY DEF Panel!UnreadCount, A, Panel!Cardinality, Cardinality
  <2> QED BY <2>5, <2>6 DEF B
<1>8. ASSUME NEW a \in Agents PROVE Panel!UnreadCount(a) = Panel!Cardinality({x \in Panel!Feed(a) : ~x.read})
  BY <1>7 DEF Panel!Cardinality, Cardinality
<1>9. Panel!Cardinality(Workers) = 1 => late = {}
  BY <1>6 DEF Panel!Cardinality, Cardinality
<1> QED BY <1>1, <1>2, <1>3, <1>4, <1>5, <1>8, <1>9 DEF Panel!PanelHolds

\* What Notify() leaves: those there, and one more for each recipient but the
\* one who did it.
LEMMA Notifies ==
  ASSUME Panel!PanelConstants, NotesSound,
         NEW times \in [Agents -> {0, 1}], NEW kind \in {"ticket_reply", "mention", "ticket_assigned"}, NEW t \in Tickets, NEW i \in Int,
         NEW causer, NEW N, N = Panel!Notified(times, kind, t, i, causer), \A n \in notes : n.reply # i
  PROVE  /\ N \subseteq Note /\ IsFiniteSet(N) /\ notes \subseteq N
         /\ \A x \in N : x \in notes \/ (x.reply = i /\ x.kind = kind /\ x.user # causer)
         /\ \A x, y \in N : x.reply = y.reply /\ x.user = y.user => x = y
         /\ \A a \in Agents : times[a] = 1 /\ a # causer => \E x \in N : x.reply = i /\ x.user = a
<1> DEFINE one(a) == [user |-> a, kind |-> kind, ticket |-> t, reply |-> i, k |-> 1, read |-> FALSE]
           R == {a \in Agents : a # causer /\ times[a] = 1}
           M == {one(a) : a \in R}
           f == [a \in R |-> one(a)]
<1>1. N = notes \cup M
  <2>1. ASSUME NEW a \in Agents PROVE 1..times[a] = IF times[a] = 1 THEN {1} ELSE {}
    <3>1. times[a] \in {0, 1} /\ 1..0 = {} /\ 1..1 = {1}
      OBVIOUS
    <3> QED BY <3>1
  <2> DEFINE rows(a) == {[user |-> a, kind |-> kind, ticket |-> t, reply |-> i, k |-> k, read |-> FALSE] : k \in 1..times[a]}
  <2>2. ASSUME NEW a \in Agents PROVE rows(a) = IF times[a] = 1 THEN {one(a)} ELSE {}
    BY <2>1
  <2>3. N = notes \cup UNION {rows(a) : a \in Agents \ {causer}}
    BY DEF Panel!Notified
  <2> HIDE DEF rows, one
  <2>4. UNION {rows(a) : a \in Agents \ {causer}} = M
    <3>1. ASSUME NEW x, x \in UNION {rows(a) : a \in Agents \ {causer}} PROVE x \in M
      <4>1. PICK a \in Agents \ {causer} : x \in rows(a)
        BY <3>1
      <4>2. times[a] = 1 /\ x = one(a)
        BY <2>2, <4>1
      <4> QED BY <4>1, <4>2
    <3>2. ASSUME NEW x \in M PROVE x \in UNION {rows(a) : a \in Agents \ {causer}}
      <4>1. PICK a \in R : x = one(a)
        OBVIOUS
      <4>2. x \in rows(a) /\ a \in Agents \ {causer}
        BY <2>2, <4>1
      <4> QED BY <4>2
    <3> QED BY <3>1, <3>2
  <2> QED BY <2>3, <2>4
<1>2. \A a \in R : one(a) \in Note /\ one(a).reply = i /\ one(a).kind = kind /\ one(a).user = a
  BY DEF Note
<1> HIDE DEF one
<1>3. IsFiniteSet(R)
  <2>1. IsFiniteSet(Agents)
    BY PanelNumbers
  <2> QED BY <2>1, FS_Subset
<1>4. IsFiniteSet(M)
  <2>1. f \in Surjection(R, M)
    <3>1. f \in [R -> M] /\ \A x \in M : \E a \in R : f[a] = x
      OBVIOUS
    <3> HIDE DEF f
    <3> QED BY <3>1, Zenon DEF Surjection
  <2> HIDE DEF M, R, f
  <2> QED BY <1>3, <2>1, FS_Surjection
<1>5. \A x \in M : x \in Note /\ x.reply = i /\ x.kind = kind /\ x.user # causer /\ x = one(x.user) /\ x.user \in R
  BY <1>2
<1>6. N \subseteq Note /\ IsFiniteSet(N) /\ notes \subseteq N
  <2>1. notes \subseteq Note /\ IsFiniteSet(notes)
    BY DEF NotesSound
  <2> HIDE DEF M
  <2>2. IsFiniteSet(notes \cup M)
    BY <1>4, <2>1, FS_Union
  <2> QED BY <1>1, <1>5, <2>1, <2>2
<1>7. ASSUME NEW a \in Agents, times[a] = 1, a # causer PROVE \E x \in N : x.reply = i /\ x.user = a
  <2>1. a \in R /\ one(a) \in M
    BY <1>7
  <2> QED BY <1>1, <1>2, <2>1
<1>8. ASSUME NEW x \in N, NEW y \in N, x.reply = y.reply, x.user = y.user PROVE x = y
  <2> HIDE DEF M, R
  <2>1. CASE x \in notes /\ y \in notes
    BY <1>8, <2>1 DEF NotesSound
  <2>2. CASE x \in M /\ y \in M
    BY <1>5, <1>8, <2>2
  <2>3. CASE x \in notes /\ y \in M
    BY <1>5, <1>8, <2>3
  <2>4. CASE x \in M /\ y \in notes
    BY <1>5, <1>8, <2>4
  <2> QED BY <1>1, <2>1, <2>2, <2>3, <2>4
<1> HIDE DEF M, R, f
<1> QED BY <1>1, <1>5, <1>6, <1>7, <1>8

\* A step that leaves replies, their handlers and the tickets' activity alone.
LEMMA PanelFrame ==
  ASSUME Panel!PanelConstants, PanelInv, PanelTyped', NotesSound', UNCHANGED <<panelReplies, panelWork, told, late>>, clock <= clock',
         \A t \in Tickets : panelTickets'[t].activity = panelTickets[t].activity,
         \A n \in notes' : n.reply <= 0 \/ \E m \in notes : m.reply = n.reply
  PROVE  PanelInv'
<1>1. clock \in Nat /\ clock' \in Nat
  BY PanelNumbers DEF PanelInv, PanelTyped
<1>2. RepliesSound'
  <2>1. Creating(panelWork)' = Creating(panelWork)
    BY DEF Creating
  <2>2. \A r \in panelReplies : r.at <= clock' /\ r.n <= Cardinality(panelReplies)
    <3>1. \A r \in panelReplies : r.at \in Nat /\ r.at <= clock /\ r.n <= Cardinality(panelReplies)
      BY PanelNumbers DEF PanelInv, PanelTyped, PanelReply, RepliesSound
    <3> QED BY <1>1, <3>1
  <2> QED BY <2>1, <2>2 DEF PanelInv, RepliesSound
<1>3. WorkSound'
  <2>1. ASSUME NEW w \in Workers, NEW n \in notes', Stored(panelWork[w]) PROVE n.reply # panelWork[w].reply
    <3>1. PICK r \in panelReplies : r.n = panelWork[w].reply
      BY <2>1 DEF PanelInv, WorkSound
    <3>2. panelWork[w].reply \in Nat /\ panelWork[w].reply >= 1
      BY <3>1, PanelNumbers DEF PanelInv, PanelTyped, PanelReply
    <3>3. \A m \in notes : m.reply # panelWork[w].reply
      BY <2>1 DEF PanelInv, WorkSound
    <3>4. n.reply \in Int
      BY DEF NotesSound, Note
    <3> QED BY <3>2, <3>3, <3>4
  <2> QED BY <2>1 DEF PanelInv, WorkSound
<1>4. ActivitySound'
  <2>1. Panel!Second(clock)' = Panel!Second(clock')
    BY DEF Panel!Second
  <2>2. Panel!Second(clock) \in Nat /\ Panel!Second(clock') \in Nat /\ Panel!Second(clock) <= Panel!Second(clock')
    BY <1>1, PanelNumbers
  <2>3. \A t \in Tickets : panelTickets'[t].activity <= Panel!Second(clock')
    <3>1. \A t \in Tickets : panelTickets[t].activity \in Int /\ panelTickets[t].activity <= Panel!Second(clock)
      BY PanelNumbers DEF PanelInv, PanelTyped, PanelTicket, ActivitySound
    <3> QED BY <2>2, <3>1
  <2>4. \A r \in panelReplies : r.ticket \in Tickets /\ Panel!Second(r.at)' = Panel!Second(r.at)
    BY DEF PanelInv, PanelTyped, PanelReply, Panel!Second
  <2>5. \A i : Announced(i)' <=> Announced(i)
    BY DEF Announced
  <2> QED BY <2>1, <2>3, <2>4, <2>5 DEF PanelInv, ActivitySound
<1> QED BY <1>2, <1>3, <1>4 DEF PanelInv

LEMMA PanelTick == ASSUME Panel!PanelConstants, PanelInv, Panel!Tick PROVE PanelInv'
<1>1. clock < PanelTime /\ clock' = clock + 1 /\ UNCHANGED <<panelTickets, sees, panelReplies, reads, notes, panelWork, told, late, clicks>>
  BY DEF Panel!Tick
<1>2. clock \in 0..PanelTime /\ PanelTime \in Nat
  BY PanelNumbers DEF PanelInv, PanelTyped
<1>3. clock <= clock' /\ clock' \in 0..PanelTime
  BY <1>1, <1>2
<1>4. PanelTyped' /\ NotesSound'
  <2>1. PanelTicket' = PanelTicket /\ Panel!Second(PanelTime)' = Panel!Second(PanelTime)
    BY DEF PanelTicket, Panel!Second
  <2> QED BY <1>1, <1>3, <2>1 DEF PanelInv, PanelTyped, NotesSound
<1> QED BY <1>1, <1>3, <1>4, PanelFrame

\* What agents do beside replying.
LEMMA PanelAssign ==
  ASSUME Panel!PanelConstants, PanelInv, NEW t \in Tickets, NEW a \in Agents, NEW by \in Agents, Panel!Assign(t, a, by) PROVE PanelInv'
<1> DEFINE times == [b \in Agents |-> IF b = a THEN 1 ELSE 0]
           row == [panelTickets[t] EXCEPT !.assigned = a]
<1>1. /\ clicks' = clicks + 1 /\ notes' = Panel!Notified(times, "ticket_assigned", t, -clicks, by)
      /\ UNCHANGED <<clock, sees, panelReplies, reads, panelWork, told, late>>
  BY DEF Panel!Assign, Panel!Click
<1>2. panelTickets' = [panelTickets EXCEPT ![t] = row] /\ panelTickets \in [Tickets -> PanelTicket]
  BY DEF Panel!Assign, PanelInv, PanelTyped
<1>3. row \in PanelTicket /\ row.activity = panelTickets[t].activity
  BY <1>2 DEF PanelTicket
<1> HIDE DEF row
<1>4. panelTickets' \in [Tickets -> PanelTicket] /\ \A u \in Tickets : panelTickets'[u].activity = panelTickets[u].activity
  <2> HIDE DEF PanelTicket
  <2> QED BY <1>2, <1>3
<1>5. clicks \in Nat /\ clicks' \in Nat /\ -clicks \in Int /\ -clicks <= 0 /\ -(-clicks) = clicks /\ clicks < clicks'
  <2>1. clicks \in Nat
    BY DEF PanelInv, PanelTyped
  <2> QED BY <1>1, <2>1
<1>6. PanelTyped'
  <2>1. PanelTicket' = PanelTicket /\ Panel!Second(PanelTime)' = Panel!Second(PanelTime)
    BY DEF PanelTicket, Panel!Second
  <2> QED BY <1>1, <1>4, <1>5, <2>1 DEF PanelInv, PanelTyped
<1>7. \A n \in notes : n.reply # -clicks /\ n.reply \in Int
  <2>1. ASSUME NEW n \in notes PROVE n.reply # -clicks /\ n.reply \in Int
    <3>1. n.reply \in Int
      BY DEF PanelInv, NotesSound, Note
    <3>2. (n.reply <= 0 /\ -n.reply < clicks) \/ 1 <= n.reply
      BY DEF PanelInv, NotesSound
    <3> QED BY <1>5, <3>1, <3>2
  <2> QED BY <2>1
<1> DEFINE N == Panel!Notified(times, "ticket_assigned", t, -clicks, by)
           i == -clicks
<1>8. times \in [Agents -> {0, 1}] /\ i \in Int /\ NotesSound /\ N = Panel!Notified(times, "ticket_assigned", t, i, by) /\ \A n \in notes : n.reply # i
  BY <1>5, <1>7 DEF PanelInv
<1> HIDE DEF times, N, i
<1>9. /\ N \subseteq Note /\ IsFiniteSet(N) /\ notes \subseteq N
      /\ \A x \in N : x \in notes \/ (x.reply = i /\ x.kind = "ticket_assigned" /\ x.user # by)
      /\ \A x, y \in N : x.reply = y.reply /\ x.user = y.user => x = y
  BY <1>8, Notifies
<1>10. notes' = N
  BY <1>1 DEF N
<1>11. NotesSound'
  <2>1. ASSUME NEW n \in N
        PROVE  IF n.kind = "ticket_assigned" THEN n.reply <= 0 /\ -n.reply < clicks'
               ELSE /\ 1 <= n.reply /\ n.reply <= Cardinality(panelReplies) /\ \A r \in panelReplies : r.n = n.reply => r.author # n.user
    <3>1. CASE n \in notes
      <4>1. IF n.kind = "ticket_assigned" THEN n.reply <= 0 /\ -n.reply < clicks
            ELSE 1 <= n.reply /\ n.reply <= Cardinality(panelReplies) /\ \A r \in panelReplies : r.n = n.reply => r.author # n.user
        BY <3>1 DEF PanelInv, NotesSound
      <4>2. n.kind = "ticket_assigned" /\ -n.reply < clicks => -n.reply < clicks'
        BY <1>5, <1>7, <3>1
      <4> QED BY <4>1, <4>2
    <3>2. CASE n \notin notes
      BY <1>5, <1>9, <3>2 DEF i
    <3> QED BY <3>1, <3>2
  <2>2. \A x \in told : x.n <= Cardinality(panelReplies) /\ (x.assigned # Nil => \E n \in N : n.reply = x.n /\ n.user = x.assigned)
    BY <1>9 DEF PanelInv, NotesSound
  <2>3. told \subseteq Told
    BY DEF PanelInv, NotesSound
  <2> QED BY <1>1, <1>9, <1>10, <2>1, <2>2, <2>3 DEF NotesSound
<1>12. \A n \in notes' : n.reply <= 0 \/ \E m \in notes : m.reply = n.reply
  BY <1>5, <1>9, <1>10 DEF i
<1>13. clock <= clock'
  BY <1>1 DEF PanelInv, PanelTyped
<1> QED BY <1>1, <1>4, <1>6, <1>11, <1>12, <1>13, PanelFrame

\* Following, sight and reading marks: notifications stay.
LEMMA PanelMarks ==
  ASSUME Panel!PanelConstants, PanelInv, NEW t \in Tickets, NEW a \in Agents,
         Panel!Follow(t, a) \/ Panel!MoveSight(a, t) \/ Panel!MarkRead(a, t) \/ Panel!MarkUnread(a, t)
  PROVE  PanelInv'
<1>0. clicks \in Nat /\ clock \in 0..PanelTime /\ sees \in [Agents -> SUBSET Tickets] /\ panelTickets \in [Tickets -> PanelTicket]
      /\ reads \in [Agents -> [Tickets -> -2..Panel!Second(PanelTime)]]
  BY DEF PanelInv, PanelTyped
<1>1. UNCHANGED <<clock, panelReplies, notes, panelWork, told, late>> /\ clicks' = clicks + 1
  BY DEF Panel!Follow, Panel!MoveSight, Panel!MarkRead, Panel!MarkUnread, Panel!Click
<1>2. clock <= clock' /\ clicks' \in Nat /\ clicks < clicks'
  BY <1>0, <1>1
<1>3. panelTickets' \in [Tickets -> PanelTicket] /\ \A u \in Tickets : panelTickets'[u].activity = panelTickets[u].activity
  <2>1. CASE Panel!Follow(t, a)
    <3> DEFINE F == IF a \in panelTickets[t].followers THEN panelTickets[t].followers \ {a} ELSE panelTickets[t].followers \cup {a}
               row == [panelTickets[t] EXCEPT !.followers = F]
    <3>1. panelTickets' = [panelTickets EXCEPT ![t] = row]
      BY <1>0, <2>1 DEF Panel!Follow
    <3>2. panelTickets[t] \in PanelTicket
      BY <1>0
    <3>3. F \in SUBSET Agents
      BY <3>2 DEF PanelTicket
    <3> HIDE DEF F
    <3>4. row \in PanelTicket /\ row.activity = panelTickets[t].activity
      BY <3>2, <3>3 DEF PanelTicket
    <3> HIDE DEF row, PanelTicket
    <3> QED BY <1>0, <3>1, <3>4
  <2>2. CASE ~Panel!Follow(t, a)
    <3>1. panelTickets' = panelTickets
      BY <2>2 DEF Panel!MoveSight, Panel!MarkRead, Panel!MarkUnread
    <3> QED BY <1>0, <3>1
  <2> QED BY <2>1, <2>2
<1>4. sees' \in [Agents -> SUBSET Tickets]
  <2>1. CASE Panel!MoveSight(a, t)
    <3>1. sees' = [sees EXCEPT ![a] = IF t \in sees[a] THEN sees[a] \ {t} ELSE sees[a] \cup {t}]
      BY <2>1 DEF Panel!MoveSight
    <3> QED BY <1>0, <3>1
  <2>2. CASE ~Panel!MoveSight(a, t)
    <3>1. sees' = sees
      BY <2>2 DEF Panel!Follow, Panel!MarkRead, Panel!MarkUnread
    <3> QED BY <1>0, <3>1
  <2> QED BY <2>1, <2>2
<1>5. reads' \in [Agents -> [Tickets -> -2..Panel!Second(PanelTime)]]
  <2> DEFINE S == -2..Panel!Second(PanelTime)
  <2>1. Panel!Second(clock) \in S /\ -1 \in S
    <3>1. clock \in Nat /\ clock <= PanelTime /\ PanelTime \in Nat
      BY <1>0, PanelNumbers
    <3>2. Panel!Second(clock) \in Nat /\ Panel!Second(clock) <= Panel!Second(PanelTime) /\ Panel!Second(PanelTime) \in Nat
      BY <3>1, PanelNumbers
    <3> QED BY <3>2
  <2>2. (\E i \in S : reads' = [reads EXCEPT ![a][t] = i]) \/ reads' = reads
    BY <2>1 DEF Panel!Follow, Panel!MoveSight, Panel!MarkRead, Panel!MarkUnread, Panel!Marked
  <2> HIDE DEF S
  <2>3. reads \in [Agents -> [Tickets -> S]]
    BY <1>0 DEF S
  <2>4. reads' \in [Agents -> [Tickets -> S]]
    BY <2>2, <2>3
  <2> QED BY <2>4 DEF S
<1>6. PanelTyped'
  <2>1. PanelTicket' = PanelTicket /\ Panel!Second(PanelTime)' = Panel!Second(PanelTime)
    BY DEF PanelTicket, Panel!Second
  <2> QED BY <1>1, <1>2, <1>3, <1>4, <1>5, <2>1 DEF PanelInv, PanelTyped
<1>7. NotesSound'
  <2>1. ASSUME NEW n \in notes, n.kind = "ticket_assigned" PROVE n.reply <= 0 /\ -n.reply < clicks'
    <3>1. n.reply <= 0 /\ -n.reply < clicks
      BY <2>1 DEF PanelInv, NotesSound
    <3>2. n.reply \in Int
      BY DEF PanelInv, NotesSound, Note
    <3> QED BY <1>0, <1>2, <3>1, <3>2
  <2> QED BY <1>1, <2>1 DEF PanelInv, NotesSound
<1>8. \A n \in notes' : n.reply <= 0 \/ \E m \in notes : m.reply = n.reply
  BY <1>1
<1> QED BY <1>1, <1>2, <1>3, <1>6, <1>7, <1>8, PanelFrame

\* Reading notifications.
LEMMA PanelReads ==
  ASSUME Panel!PanelConstants, PanelInv, NEW a \in Agents,
         Panel!ReadAllNotifications(a) \/ \E n \in notes : Panel!ReadNotification(a, n)
  PROVE  PanelInv'
<1> DEFINE done(x) == [x EXCEPT !.read = TRUE]
<1>1. PICK M \in SUBSET notes : notes' = (notes \ M) \cup {done(x) : x \in M}
  <2>1. CASE Panel!ReadAllNotifications(a)
    <3>1. Panel!Mine(a) \in SUBSET notes /\ notes' = (notes \ Panel!Mine(a)) \cup {done(x) : x \in Panel!Mine(a)}
      BY <2>1 DEF Panel!ReadAllNotifications, Panel!Mine
    <3> HIDE DEF done
    <3> QED BY <3>1
  <2>2. CASE \E n \in notes : Panel!ReadNotification(a, n)
    <3>1. PICK n \in notes : Panel!ReadNotification(a, n)
      BY <2>2
    <3>2. notes' = (notes \ {n}) \cup {done(n)}
      BY <3>1 DEF Panel!ReadNotification
    <3> HIDE DEF done
    <3>3. {done(n)} = {done(x) : x \in {n}}
      OBVIOUS
    <3> QED BY <3>2, <3>3
  <2> QED BY <2>1, <2>2
<1>2. UNCHANGED <<clock, panelTickets, sees, panelReplies, reads, panelWork, told, late>> /\ clicks' = clicks + 1
  BY DEF Panel!ReadAllNotifications, Panel!ReadNotification, Panel!Click
<1>3. clicks \in Nat /\ clicks' \in Nat /\ clicks < clicks' /\ clock <= clock'
  <2>1. clicks \in Nat /\ clock \in Int
    BY DEF PanelInv, PanelTyped
  <2> QED BY <1>2, <2>1
<1>4. \A x \in Note : done(x) \in Note /\ done(x).user = x.user /\ done(x).reply = x.reply /\ done(x).kind = x.kind
  BY DEF Note
<1> DEFINE g == [x \in notes |-> IF x \in M THEN done(x) ELSE x]
<1> HIDE DEF done
<1>5. notes \subseteq Note /\ IsFiniteSet(notes) /\ told \subseteq Told
  BY DEF PanelInv, NotesSound
<1>6. /\ \A x \in notes : g[x] \in notes' /\ g[x] \in Note /\ g[x].user = x.user /\ g[x].reply = x.reply /\ g[x].kind = x.kind
      /\ \A y \in notes' : \E x \in notes : g[x] = y
  BY <1>1, <1>4, <1>5
<1>7. DOMAIN g = notes /\ g = [x \in notes |-> g[x]]
  OBVIOUS
<1> HIDE DEF g
<1>8. IsFiniteSet(notes')
  <2>1. g \in [notes -> notes']
    BY <1>6, <1>7
  <2>2. g \in Surjection(notes, notes')
    BY <1>6, <2>1, Zenon DEF Surjection
  <2> QED BY <1>5, <2>2, FS_Surjection
<1>9. NotesSound'
  <2>1. ASSUME NEW y \in notes', NEW z \in notes', y.reply = z.reply, y.user = z.user PROVE y = z
    <3>1. PICK x \in notes : g[x] = y
      BY <1>6
    <3>2. PICK v \in notes : g[v] = z
      BY <1>6
    <3>3. x = v
      BY <1>6, <2>1, <3>1, <3>2 DEF PanelInv, NotesSound
    <3> QED BY <3>1, <3>2, <3>3
  <2>2. ASSUME NEW y \in notes'
        PROVE  IF y.kind = "ticket_assigned" THEN y.reply <= 0 /\ -y.reply < clicks'
               ELSE 1 <= y.reply /\ y.reply <= Cardinality(panelReplies) /\ \A r \in panelReplies : r.n = y.reply => r.author # y.user
    <3>1. PICK x \in notes : g[x] = y
      BY <1>6
    <3>2. y.user = x.user /\ y.reply = x.reply /\ y.kind = x.kind /\ x.reply \in Int
      BY <1>5, <1>6, <3>1 DEF Note
    <3>3. IF x.kind = "ticket_assigned" THEN x.reply <= 0 /\ -x.reply < clicks
          ELSE 1 <= x.reply /\ x.reply <= Cardinality(panelReplies) /\ \A r \in panelReplies : r.n = x.reply => r.author # x.user
      BY DEF PanelInv, NotesSound
    <3>4. -x.reply < clicks => -x.reply < clicks'
      BY <1>3, <3>2
    <3> QED BY <3>2, <3>3, <3>4
  <2>3. ASSUME NEW x \in told PROVE x.n <= Cardinality(panelReplies) /\ (x.assigned # Nil => \E n \in notes' : n.reply = x.n /\ n.user = x.assigned)
    <3>1. x.n <= Cardinality(panelReplies) /\ (x.assigned # Nil => \E n \in notes : n.reply = x.n /\ n.user = x.assigned)
      BY DEF PanelInv, NotesSound
    <3> QED BY <1>6, <3>1
  <2>4. notes' \subseteq Note
    BY <1>6
  <2> QED BY <1>2, <1>5, <1>8, <2>1, <2>2, <2>3, <2>4 DEF NotesSound
<1>10. \A n \in notes' : \E m \in notes : m.reply = n.reply
  BY <1>6
<1>11. PanelTyped'
  <2>1. PanelTicket' = PanelTicket /\ Panel!Second(PanelTime)' = Panel!Second(PanelTime)
    BY DEF PanelTicket, Panel!Second
  <2> QED BY <1>2, <1>3, <2>1 DEF PanelInv, PanelTyped
<1> QED BY <1>2, <1>3, <1>9, <1>10, <1>11, PanelFrame

\* A handler that stores nothing: another leaves it where it is.
LEMMA PanelAdds ==
  ASSUME Panel!PanelConstants, PanelInv, NEW w \in Workers, NEW t \in Tickets, NEW author \in Authors, Panel!AddReply(w, t, author)
  PROVE  PanelInv'
<1> DEFINE b == Panel!Idle
           j == [b EXCEPT !.at = "create", !.ticket = t, !.assigned = panelTickets[t].assigned, !.author = author]
<1>0. /\ panelWork \in [Workers -> PanelJob] /\ panelTickets[t].assigned \in Agents \cup {Nil} /\ MaxReplies \in Nat
      /\ IsFiniteSet(Workers)
  <2>1. panelTickets[t] \in PanelTicket
    BY DEF PanelInv, PanelTyped
  <2> QED BY <2>1, PanelNumbers DEF PanelInv, PanelTyped, PanelTicket
<1>1. /\ panelWork[w] = Panel!Idle /\ panelWork' = [panelWork EXCEPT ![w] = j]
      /\ UNCHANGED <<clock, panelTickets, sees, panelReplies, reads, notes, told, late, clicks>>
  BY DEF Panel!AddReply
<1>2. Cardinality(panelReplies) + Cardinality(Creating(panelWork)) < MaxReplies
  BY DEF Panel!AddReply, Creating, Panel!Cardinality, Cardinality
<1>3. panelWork[w].at = "idle"
  BY <1>1 DEF Panel!Idle
<1>4. j \in PanelJob /\ j.at = "create" /\ j.ticket = t /\ j.author = author
  <2>1. b \in PanelJob
    BY <1>0 DEF PanelJob, Panel!Idle
  <2> HIDE DEF b
  <2> QED BY <1>0, <2>1 DEF PanelJob
<1> HIDE DEF j
<1>5. panelWork' \in [Workers -> PanelJob] /\ panelWork'[w] = j /\ \A v \in Workers : v # w => panelWork'[v] = panelWork[v]
  BY <1>0, <1>1, <1>4
<1>6. PanelTyped'
  <2>1. PanelTicket' = PanelTicket /\ Panel!Second(PanelTime)' = Panel!Second(PanelTime)
    BY DEF PanelTicket, Panel!Second
  <2> QED BY <1>1, <1>5, <2>1 DEF PanelInv, PanelTyped
<1>7. RepliesSound'
  <2>1. Creating(panelWork') = Creating(panelWork) \cup {w} /\ w \notin Creating(panelWork)
    BY <1>3, <1>4, <1>5 DEF Creating
  <2>2. IsFiniteSet(Creating(panelWork))
    BY <1>0, FS_Subset DEF Creating
  <2>3. Cardinality(Creating(panelWork')) = Cardinality(Creating(panelWork)) + 1
    BY <2>1, <2>2, FS_AddElement
  <2>4. Cardinality(Creating(panelWork)) \in Nat /\ Cardinality(panelReplies) \in Nat
    BY <2>2, FS_CardinalityType DEF PanelInv, RepliesSound
  <2>5. Cardinality(panelReplies) + Cardinality(Creating(panelWork')) <= MaxReplies
    BY <1>0, <1>2, <2>3, <2>4
  <2> QED BY <1>1, <2>5 DEF PanelInv, RepliesSound
<1>8. \A v \in Workers : Stored(panelWork'[v]) => v # w /\ panelWork'[v] = panelWork[v]
  BY <1>4, <1>5 DEF Stored
<1>9. WorkSound'
  <2>1. \A v \in Workers : panelWork'[v].at # "idle" => panelWork'[v].ticket \in Tickets /\ panelWork'[v].author \in Authors
    BY <1>4, <1>5 DEF PanelInv, WorkSound
  <2>2. \A v \in Workers : panelWork'[v].at = "notify" => Stored(panelWork'[v])
    BY DEF Stored
  <2> QED BY <1>1, <1>8, <2>1, <2>2 DEF PanelInv, WorkSound
<1>10. NotesSound'
  BY <1>1 DEF PanelInv, NotesSound
<1>11. ActivitySound'
  <2>1. \A v \in Workers : panelWork'[v].at \in {"notify", "activity"} => panelWork'[v] = panelWork[v]
    BY <1>8 DEF Stored
  <2>2. \A i : Announced(i)' => Announced(i)
    BY <1>1, <2>1 DEF Announced
  <2>3. \A i : Panel!Second(i)' = Panel!Second(i)
    BY DEF Panel!Second
  <2>4. /\ \A u \in Tickets : panelTickets'[u].activity <= Panel!Second(clock')
        /\ \A r \in panelReplies' : Announced(r.n)' => r.ticket \in late' \/ Panel!Second(r.at) <= panelTickets'[r.ticket].activity
    BY <1>1, <2>2 DEF PanelInv, ActivitySound
  <2> QED BY <1>1, <2>1, <2>3, <2>4 DEF PanelInv, ActivitySound
<1> QED BY <1>6, <1>7, <1>9, <1>10, <1>11 DEF PanelInv

\* The reply a handler has stored.
LEMMA HandlersReply ==
  ASSUME Panel!PanelConstants, PanelInv, NEW w \in Workers, Stored(panelWork[w])
  PROVE  \E r \in panelReplies : /\ r = Panel!TheReply(w) /\ r \in PanelReply /\ r.n = panelWork[w].reply
                                 /\ r.n \in Nat /\ 1 <= r.n /\ r.n <= Cardinality(panelReplies)
                                 /\ \A q \in panelReplies : q.n = r.n => q = r
<1>1. \E r \in panelReplies : r.n = panelWork[w].reply
  BY DEF PanelInv, WorkSound
<1>2. Panel!TheReply(w) \in panelReplies /\ Panel!TheReply(w).n = panelWork[w].reply
  BY <1>1 DEF Panel!TheReply
<1>3. PICK r \in panelReplies : r = Panel!TheReply(w)
  BY <1>2
<1>4. r \in PanelReply /\ r.n <= Cardinality(panelReplies) /\ \A q \in panelReplies : q.n = r.n => q = r
  BY DEF PanelInv, PanelTyped, RepliesSound
<1>5. r.n \in Nat /\ 1 <= r.n
  BY <1>4, PanelNumbers DEF PanelReply
<1> QED BY <1>2, <1>3, <1>4, <1>5

LEMMA PanelCreates ==
  ASSUME Panel!PanelConstants, PanelInv, NEW w \in Workers, NEW internal \in BOOLEAN, Panel!CreateReply(w, internal) PROVE PanelInv'
<1> DEFINE C == Cardinality(panelReplies)
           r0 == [n |-> C + 1, ticket |-> panelWork[w].ticket, author |-> panelWork[w].author, at |-> clock, internal |-> internal]
           next == IF internal THEN "mentions" ELSE "activity"
           j0 == [panelWork[w] EXCEPT !.at = next, !.reply = C + 1]
<1>0. /\ panelWork \in [Workers -> PanelJob] /\ panelWork[w] \in PanelJob /\ MaxReplies \in Nat /\ IsFiniteSet(Workers)
      /\ IsFiniteSet(panelReplies) /\ C \in Nat /\ clock \in 0..PanelTime /\ PanelTime \in Nat /\ panelReplies \subseteq PanelReply
  BY PanelNumbers, FS_CardinalityType DEF PanelInv, PanelTyped, RepliesSound
<1>1. /\ panelWork[w].at = "create" /\ panelReplies' = panelReplies \cup {r0} /\ panelWork' = [panelWork EXCEPT ![w] = j0]
      /\ UNCHANGED <<clock, panelTickets, sees, reads, notes, told, late, clicks>>
  <2>1. Panel!Cardinality(panelReplies) = C
    BY DEF Panel!Cardinality, Cardinality
  <2> HIDE DEF C
  <2> QED BY <1>0, <2>1 DEF Panel!CreateReply
<1>2. panelWork[w].ticket \in Tickets /\ panelWork[w].author \in Authors
  BY <1>1 DEF PanelInv, WorkSound
<1>3. /\ IsFiniteSet(Creating(panelWork)) /\ w \in Creating(panelWork) /\ Cardinality(Creating(panelWork)) \in Nat
      /\ Cardinality(Creating(panelWork) \ {w}) = Cardinality(Creating(panelWork)) - 1
      /\ Cardinality(Creating(panelWork) \ {w}) \in Nat /\ C + Cardinality(Creating(panelWork)) <= MaxReplies
  <2>1. IsFiniteSet(Creating(panelWork)) /\ w \in Creating(panelWork)
    BY <1>0, <1>1, FS_Subset DEF Creating
  <2>2. IsFiniteSet(Creating(panelWork) \ {w}) /\ Cardinality(Creating(panelWork) \ {w}) = Cardinality(Creating(panelWork)) - 1
    BY <2>1, FS_RemoveElement
  <2> QED BY <2>1, <2>2, FS_CardinalityType DEF PanelInv, RepliesSound
<1> HIDE DEF C
<1>4. C + 1 \in 1..MaxReplies
  BY <1>0, <1>3
<1>5. PICK r \in PanelReply : r = r0 /\ r.n = C + 1 /\ r.at = clock
  <2>1. r0 \in PanelReply
    BY <1>0, <1>2, <1>4 DEF PanelReply
  <2>2. r0.n = C + 1 /\ r0.at = clock
    OBVIOUS
  <2> QED BY <2>1, <2>2
<1>6. PICK j \in PanelJob : j = j0 /\ j.at = next /\ j.reply = C + 1 /\ j.ticket \in Tickets /\ j.author \in Authors
  <2>1. next \in {"idle", "create", "activity", "notify", "mentions"} /\ C + 1 \in 0..MaxReplies
    BY <1>4
  <2> HIDE DEF next
  <2>2. j0 \in PanelJob /\ j0.at = next /\ j0.reply = C + 1
    BY <1>0, <2>1 DEF PanelJob
  <2>3. j0.ticket = panelWork[w].ticket /\ j0.author = panelWork[w].author
    BY <1>0 DEF PanelJob
  <2> QED BY <1>2, <2>2, <2>3
<1> HIDE DEF r0, j0
<1>7. panelReplies' = panelReplies \cup {r} /\ panelWork' \in [Workers -> PanelJob] /\ panelWork'[w] = j
      /\ \A v \in Workers : v # w => panelWork'[v] = panelWork[v]
  BY <1>0, <1>1, <1>5, <1>6
<1>8. PanelTyped'
  <2>1. PanelTicket' = PanelTicket /\ Panel!Second(PanelTime)' = Panel!Second(PanelTime)
    BY DEF PanelTicket, Panel!Second
  <2> QED BY <1>0, <1>1, <1>5, <1>7, <2>1 DEF PanelInv, PanelTyped
<1>9. \A q \in panelReplies : q.n \in Nat /\ q.n <= C /\ q.n # C + 1 /\ q.at <= clock
  BY <1>0 DEF PanelReply, PanelInv, RepliesSound, C
<1>10. r \notin panelReplies
  BY <1>5, <1>9
<1>11. Cardinality(panelReplies') = C + 1 /\ IsFiniteSet(panelReplies')
  BY <1>0, <1>7, <1>10, FS_AddElement DEF C
<1>12. RepliesSound'
  <2>1. Creating(panelWork') = Creating(panelWork) \ {w}
    BY <1>6, <1>7 DEF Creating
  <2>2. Cardinality(panelReplies') + Cardinality(Creating(panelWork')) <= MaxReplies
    BY <1>0, <1>3, <1>11, <2>1
  <2>3. \A q \in panelReplies' : q.n <= C + 1 /\ q.at <= clock
    <3>1. ASSUME NEW q \in panelReplies PROVE q.n <= C + 1
      BY <1>0, <1>9
    <3>2. r.n <= C + 1 /\ r.at <= clock
      BY <1>0, <1>5
    <3> QED BY <1>7, <1>9, <3>1, <3>2
  <2>4. \A p, q \in panelReplies' : p.n = q.n => p = q
    BY <1>5, <1>7, <1>9 DEF PanelInv, RepliesSound
  <2> QED BY <1>1, <1>11, <2>2, <2>3, <2>4 DEF RepliesSound
<1>13. \A v \in Workers : Stored(panelWork[v]) => panelWork[v].reply \in Nat /\ panelWork[v].reply <= C /\ panelWork[v].reply # C + 1
  <2>1. ASSUME NEW v \in Workers, Stored(panelWork[v]) PROVE \E q \in panelReplies : q.n = panelWork[v].reply
    BY <2>1 DEF PanelInv, WorkSound
  <2> QED BY <1>9, <2>1
<1>14. \A n \in notes : n.reply # C + 1 /\ (1 <= n.reply => n.reply <= C) /\ n.reply \in Int
  <2>1. ASSUME NEW n \in notes PROVE n.reply # C + 1 /\ (1 <= n.reply => n.reply <= C) /\ n.reply \in Int
    <3>1. n.reply \in Int
      BY DEF PanelInv, NotesSound, Note
    <3>2. n.reply <= 0 \/ (1 <= n.reply /\ n.reply <= C)
      BY DEF PanelInv, NotesSound, C
    <3> QED BY <1>0, <3>1, <3>2
  <2> QED BY <2>1
<1>15. WorkSound'
  <2>1. \A v \in Workers : panelWork'[v].at # "idle" => panelWork'[v].ticket \in Tickets /\ panelWork'[v].author \in Authors
    BY <1>6, <1>7 DEF PanelInv, WorkSound
  <2>2. \A v \in Workers : Stored(panelWork'[v]) => \E q \in panelReplies' : q.n = panelWork'[v].reply
    BY <1>5, <1>6, <1>7 DEF PanelInv, WorkSound
  <2>3. ASSUME NEW v \in Workers, panelWork'[v].at = "notify", NEW q \in panelReplies', q.n = panelWork'[v].reply PROVE q.author = Customer
    <3>1. v # w /\ panelWork'[v] = panelWork[v] /\ Stored(panelWork[v])
      BY <1>6, <1>7, <2>3 DEF Stored
    <3>2. q \in panelReplies
      BY <1>5, <1>7, <1>13, <2>3, <3>1
    <3> QED BY <2>3, <3>1, <3>2 DEF PanelInv, WorkSound
  <2>4. \A v \in Workers, n \in notes : Stored(panelWork'[v]) => n.reply # panelWork'[v].reply
    BY <1>6, <1>7, <1>14 DEF PanelInv, WorkSound
  <2>5. \A u, v \in Workers : Stored(panelWork'[u]) /\ Stored(panelWork'[v]) /\ panelWork'[u].reply = panelWork'[v].reply => u = v
    BY <1>6, <1>7, <1>13 DEF PanelInv, WorkSound
  <2> QED BY <1>1, <2>1, <2>2, <2>3, <2>4, <2>5 DEF WorkSound
<1>16. NotesSound'
  <2>1. ASSUME NEW n \in notes
        PROVE  IF n.kind = "ticket_assigned" THEN n.reply <= 0 /\ -n.reply < clicks
               ELSE 1 <= n.reply /\ n.reply <= C + 1 /\ \A q \in panelReplies' : q.n = n.reply => q.author # n.user
    <3>1. IF n.kind = "ticket_assigned" THEN n.reply <= 0 /\ -n.reply < clicks
          ELSE 1 <= n.reply /\ n.reply <= C /\ \A q \in panelReplies : q.n = n.reply => q.author # n.user
      BY DEF PanelInv, NotesSound, C
    <3>2. n.reply <= C => n.reply <= C + 1
      BY <1>0, <1>14
    <3> QED BY <1>5, <1>7, <1>14, <3>1, <3>2
  <2>2. ASSUME NEW x \in told PROVE x.n <= C + 1 /\ (x.assigned # Nil => \E n \in notes : n.reply = x.n /\ n.user = x.assigned)
    <3>1. x.n <= C /\ x.n \in Nat /\ (x.assigned # Nil => \E n \in notes : n.reply = x.n /\ n.user = x.assigned)
      BY DEF PanelInv, NotesSound, C, Told
    <3> QED BY <1>0, <3>1
  <2>3. /\ notes \subseteq Note /\ IsFiniteSet(notes) /\ told \subseteq Told
        /\ \A n, m \in notes : n.reply = m.reply /\ n.user = m.user => n = m
    BY DEF PanelInv, NotesSound
  <2> QED BY <1>1, <1>11, <2>1, <2>2, <2>3 DEF NotesSound
<1>17. ActivitySound'
  <2>1. \A i : Panel!Second(i)' = Panel!Second(i)
    BY DEF Panel!Second
  <2>2. ASSUME NEW q \in panelReplies', Announced(q.n)' PROVE q \in panelReplies /\ Announced(q.n)
    <3>1. Announced(q.n)
      <4>1. (\E x \in told : x.n = q.n) \/ \E v \in Workers : panelWork'[v].at = "notify" /\ panelWork'[v].reply = q.n
        BY <1>1, <2>2 DEF Announced
      <4>2. \A v \in Workers : panelWork'[v].at = "notify" => panelWork'[v] = panelWork[v]
        BY <1>6, <1>7
      <4> QED BY <4>1, <4>2 DEF Announced
    <3>2. q.n # C + 1
      <4>1. \A x \in told : x.n \in Nat /\ x.n <= C
        BY DEF PanelInv, NotesSound, C, Told
      <4>2. \A x \in told : x.n # C + 1
        BY <1>0, <4>1
      <4> QED BY <1>13, <3>1, <4>2 DEF Announced, Stored
    <3> QED BY <1>5, <1>7, <3>1, <3>2
  <2>3. \A u \in Tickets : panelTickets[u].activity <= Panel!Second(clock)
    BY DEF PanelInv, ActivitySound
  <2>4. \A q \in panelReplies' : Announced(q.n)' => q.ticket \in late \/ Panel!Second(q.at) <= panelTickets[q.ticket].activity
    BY <2>2 DEF PanelInv, ActivitySound
  <2>5. ASSUME Cardinality(Workers) = 1, NEW v \in Workers, NEW q \in panelReplies', NEW u \in Tickets,
               panelWork'[v].at = "activity", q.n = panelWork'[v].reply
        PROVE  panelTickets[u].activity <= Panel!Second(q.at)
    <3>1. CASE v = w
      <4>1. q = r
        BY <1>6, <1>7, <1>9, <2>5, <3>1
      <4> QED BY <1>5, <2>3, <4>1
    <3>2. CASE v # w
      <4>1. panelWork'[v] = panelWork[v] /\ Stored(panelWork[v])
        BY <1>7, <2>5, <3>2 DEF Stored
      <4>2. q \in panelReplies
        BY <1>5, <1>7, <1>13, <2>5, <4>1
      <4> QED BY <2>5, <4>1, <4>2 DEF PanelInv, ActivitySound
    <3> QED BY <3>1, <3>2
  <2>6. Cardinality(Workers) = 1 => late = {}
    BY DEF PanelInv, ActivitySound
  <2> QED BY <1>1, <2>1, <2>3, <2>4, <2>5, <2>6 DEF ActivitySound
<1> QED BY <1>8, <1>12, <1>15, <1>16, <1>17 DEF PanelInv

\* A handler that goes on, or is done, with the reply it stored.
LEMMA HandlerGoes ==
  ASSUME Panel!PanelConstants, PanelInv, NEW w \in Workers, NEW j \in PanelJob, panelWork' = [panelWork EXCEPT ![w] = j],
         UNCHANGED <<clock, panelReplies, sees, reads, clicks>>, panelTickets' \in [Tickets -> PanelTicket], NotesSound', ActivitySound',
         panelWork[w].at # "create", Stored(j) => Stored(panelWork[w]) /\ j.reply = panelWork[w].reply /\ UNCHANGED notes,
         j.at # "create", j.at # "idle" => j.ticket \in Tickets /\ j.author \in Authors,
         j.at = "notify" => \A r \in panelReplies : r.n = j.reply => r.author = Customer,
         \A n \in notes' \ notes : Stored(panelWork[w]) /\ n.reply = panelWork[w].reply
  PROVE  PanelInv'
<1>1. panelWork' \in [Workers -> PanelJob] /\ panelWork'[w] = j /\ \A v \in Workers : v # w => panelWork'[v] = panelWork[v]
  BY DEF PanelInv, PanelTyped
<1>2. PanelTyped'
  <2>1. PanelTicket' = PanelTicket /\ Panel!Second(PanelTime)' = Panel!Second(PanelTime)
    BY DEF PanelTicket, Panel!Second
  <2> QED BY <1>1, <2>1 DEF PanelInv, PanelTyped
<1>3. RepliesSound'
  <2>1. Creating(panelWork') = Creating(panelWork)
    BY <1>1 DEF Creating
  <2> QED BY <2>1 DEF PanelInv, RepliesSound
<1>4. WorkSound'
  <2>1. \A v \in Workers : panelWork'[v].at # "idle" => panelWork'[v].ticket \in Tickets /\ panelWork'[v].author \in Authors
    BY <1>1 DEF PanelInv, WorkSound
  <2>2. \A v \in Workers : Stored(panelWork'[v]) => Stored(panelWork[v]) /\ panelWork'[v].reply = panelWork[v].reply
    BY <1>1
  <2>3. \A v \in Workers : panelWork'[v].at = "notify" => \A r \in panelReplies : r.n = panelWork'[v].reply => r.author = Customer
    BY <1>1 DEF PanelInv, WorkSound
  <2>4. ASSUME NEW v \in Workers, NEW n \in notes', Stored(panelWork'[v]) PROVE n.reply # panelWork'[v].reply
    <3>1. CASE n \in notes
      BY <2>2, <2>4, <3>1 DEF PanelInv, WorkSound
    <3>2. CASE n \notin notes
      <4>1. Stored(panelWork[w]) /\ n.reply = panelWork[w].reply
        BY <3>2
      <4>2. v # w
        BY <1>1, <2>4, <3>2
      <4> QED BY <2>2, <2>4, <4>1, <4>2 DEF PanelInv, WorkSound
    <3> QED BY <3>1, <3>2
  <2> QED BY <2>1, <2>2, <2>3, <2>4 DEF PanelInv, WorkSound
<1> QED BY <1>2, <1>3, <1>4 DEF PanelInv

LEMMA PanelActivity == ASSUME Panel!PanelConstants, PanelInv, NEW w \in Workers, Panel!customerActivity(w) PROVE PanelInv'
<1>1. panelWork[w].at = "activity" /\ UNCHANGED <<clock, sees, panelReplies, reads, notes, told, clicks>>
  BY DEF Panel!customerActivity
<1>2. Stored(panelWork[w]) /\ panelWork[w] \in PanelJob /\ panelWork[w].ticket \in Tickets /\ panelWork[w].author \in Authors
  BY <1>1 DEF Stored, PanelInv, PanelTyped, WorkSound
<1>3. PICK r \in panelReplies : /\ r = Panel!TheReply(w) /\ r \in PanelReply /\ r.n = panelWork[w].reply
                                /\ \A q \in panelReplies : q.n = r.n => q = r
  BY <1>2, HandlersReply
<1>4. NotesSound'
  BY <1>1 DEF PanelInv, NotesSound
<1>5. \A i : Panel!Second(i)' = Panel!Second(i)
  BY DEF Panel!Second
<1>6. CASE ~Panel!CustomerSide(r)
  <2> DEFINE j == [panelWork[w] EXCEPT !.at = "mentions"]
  <2>1. panelWork' = [panelWork EXCEPT ![w] = j] /\ UNCHANGED <<panelTickets, late>>
    BY <1>3, <1>6 DEF Panel!customerActivity, PanelInv, PanelTyped
  <2>2. j \in PanelJob /\ j.at = "mentions" /\ j.reply = panelWork[w].reply /\ j.ticket = panelWork[w].ticket /\ j.author = panelWork[w].author
    BY <1>2 DEF PanelJob
  <2> HIDE DEF j
  <2>3. panelWork'[w] = j /\ \A v \in Workers : v # w => panelWork'[v] = panelWork[v]
    BY <2>1 DEF PanelInv, PanelTyped
  <2>4. \A v \in Workers : panelWork'[v].at \in {"notify", "activity"} => panelWork'[v] = panelWork[v]
    BY <2>2, <2>3
  <2>5. \A i : Announced(i)' => Announced(i)
    BY <1>1, <2>4 DEF Announced
  <2>6. ActivitySound'
    BY <1>1, <1>5, <2>1, <2>4, <2>5 DEF PanelInv, ActivitySound
  <2>7. panelTickets' \in [Tickets -> PanelTicket]
    BY <2>1 DEF PanelInv, PanelTyped
  <2>8. j.at # "create" /\ j.at # "notify" /\ panelWork[w].at # "create" /\ notes' = notes
    BY <1>1, <2>2
  <2> QED BY <1>1, <1>2, <1>4, <2>1, <2>2, <2>6, <2>7, <2>8, HandlerGoes
<1>7. CASE Panel!CustomerSide(r)
  <2> DEFINE j == [panelWork[w] EXCEPT !.at = "notify"]
             t == r.ticket
             s == Panel!Second(r.at)
             row == [panelTickets[t] EXCEPT !.activity = s]
  <2>1. /\ panelWork' = [panelWork EXCEPT ![w] = j] /\ panelTickets' = [panelTickets EXCEPT ![t] = row]
        /\ late' = IF panelTickets[t].activity > s THEN late \cup {t} ELSE late
    BY <1>3, <1>7 DEF Panel!customerActivity, PanelInv, PanelTyped
  <2>2. j \in PanelJob /\ j.at = "notify" /\ j.reply = panelWork[w].reply /\ j.ticket = panelWork[w].ticket /\ j.author = panelWork[w].author
    BY <1>2 DEF PanelJob
  <2> HIDE DEF j
  <2>3. /\ panelWork'[w] = j /\ (\A v \in Workers : v # w => panelWork'[v] = panelWork[v])
        /\ t \in Tickets /\ panelTickets[t] \in PanelTicket /\ r.at \in Nat /\ r.at <= PanelTime /\ PanelTime \in Nat
        /\ r.at <= clock /\ clock \in Nat
    BY <1>3, <2>1, PanelNumbers DEF PanelInv, PanelTyped, PanelReply, RepliesSound
  <2>4. /\ s \in Nat /\ s <= Panel!Second(PanelTime) /\ Panel!Second(PanelTime) \in Nat /\ s <= Panel!Second(clock)
        /\ Panel!Second(clock) \in Nat
    BY <2>3, PanelNumbers
  <2>5. row \in PanelTicket /\ row.activity = s
    <3>1. s \in -1..Panel!Second(PanelTime)
      BY <2>4
    <3> HIDE DEF s
    <3> QED BY <2>3, <3>1 DEF PanelTicket
  <2> HIDE DEF row
  <2>6. /\ panelTickets' \in [Tickets -> PanelTicket] /\ panelTickets'[t].activity = s
        /\ \A u \in Tickets : u # t => panelTickets'[u] = panelTickets[u]
    <3> HIDE DEF PanelTicket
    <3>1. panelTickets \in [Tickets -> PanelTicket]
      BY DEF PanelInv, PanelTyped
    <3> QED BY <2>1, <2>3, <2>5, <3>1
  <2>7. \A u \in Tickets : panelTickets[u].activity \in Int
    BY <2>4 DEF PanelInv, PanelTyped, PanelTicket
  <2>8. \A u \in Tickets : panelTickets'[u].activity <= Panel!Second(clock)
    BY <2>4, <2>6 DEF PanelInv, ActivitySound
  <2>9. ASSUME NEW q \in panelReplies, Announced(q.n)' PROVE q.ticket \in late' \/ Panel!Second(q.at) <= panelTickets'[q.ticket].activity
    <3>1. q.ticket \in Tickets /\ q.at \in Nat
      BY PanelNumbers DEF PanelInv, PanelTyped, PanelReply
    <3>2. Panel!Second(q.at) \in Nat
      BY <3>1, PanelNumbers
    <3>3. CASE q = r
      BY <2>4, <2>6, <3>3
    <3>4. CASE q # r
      <4>1. Announced(q.n)
        <5>1. (\E x \in told : x.n = q.n) \/ \E v \in Workers : panelWork'[v].at = "notify" /\ panelWork'[v].reply = q.n
          BY <1>1, <2>9 DEF Announced
        <5>2. panelWork'[w].reply # q.n
          BY <1>3, <2>2, <2>3, <3>4
        <5> QED BY <2>3, <5>1, <5>2 DEF Announced
      <4>2. q.ticket \in late \/ Panel!Second(q.at) <= panelTickets[q.ticket].activity
        BY <4>1 DEF PanelInv, ActivitySound
      <4>3. CASE q.ticket # t
        BY <2>1, <2>6, <3>1, <4>2, <4>3
      <4>4. CASE q.ticket = t
        <5>1. panelTickets[t].activity > s => t \in late'
          BY <2>1
        <5>2. late \subseteq late'
          BY <2>1
        <5> DEFINE old == panelTickets[t].activity
        <5>3. old \in Int
          BY <2>3, <2>7
        <5>4. Panel!Second(q.at) <= old /\ ~(old > s) => Panel!Second(q.at) <= s
          <6> HIDE DEF s, old
          <6> QED BY <2>4, <3>2, <5>3
        <5> QED BY <2>6, <4>2, <4>4, <5>1, <5>2, <5>4
      <4> QED BY <4>3, <4>4
    <3> QED BY <3>3, <3>4
  <2>10. ASSUME Cardinality(Workers) = 1 PROVE late' = {} /\ \A v \in Workers : panelWork'[v].at # "activity"
    <3>1. panelTickets[t].activity <= s /\ late = {}
      BY <1>1, <1>3, <2>3, <2>10 DEF PanelInv, ActivitySound
    <3>2. ~(panelTickets[t].activity > s)
      BY <2>3, <2>4, <2>7, <3>1
    <3>3. PICK x : Workers = {x}
      <4>1. IsFiniteSet(Workers)
        BY PanelNumbers
      <4> QED BY <2>10, <4>1, FS_Singleton
    <3>4. \A v \in Workers : v = w
      BY <3>3
    <3> QED BY <2>1, <2>2, <2>3, <3>1, <3>2, <3>4
  <2>11. ActivitySound'
    BY <1>1, <1>5, <2>8, <2>9, <2>10 DEF ActivitySound
  <2>12. j.at # "create" /\ panelWork[w].at # "create" /\ notes' = notes
    BY <1>1, <2>2
  <2>13. \A q \in panelReplies : q.n = j.reply => q.author = Customer
    BY <1>3, <1>7, <2>2 DEF Panel!CustomerSide
  <2> QED BY <1>1, <1>2, <1>4, <2>1, <2>2, <2>6, <2>11, <2>12, <2>13, HandlerGoes
<1> QED BY <1>6, <1>7

\* A handler tells who it tells of its reply and is done.
LEMMA PanelTells ==
  ASSUME Panel!PanelConstants, PanelInv, NEW w \in Workers, Stored(panelWork[w]),
         NEW r \in panelReplies, r.n = panelWork[w].reply, NEW kind \in {"ticket_reply", "mention"}, NEW times \in [Agents -> {0, 1}],
         notes' = Panel!Notified(times, kind, r.ticket, r.n, r.author), panelWork' = [panelWork EXCEPT ![w] = Panel!Idle],
         UNCHANGED <<clock, panelTickets, sees, panelReplies, reads, late, clicks>>,
         NEW T \in SUBSET Told, told' = told \cup T,
         \A x \in T : /\ x.n = r.n /\ panelWork[w].at = "notify"
                      /\ x.assigned # Nil => x.assigned \in Agents /\ times[x.assigned] = 1 /\ x.assigned # r.author
  PROVE  PanelInv'
<1> DEFINE N == notes'
           i == r.n
           j == Panel!Idle
           t == r.ticket
           by == r.author
<1>1. /\ r \in PanelReply /\ r.n \in Nat /\ 1 <= r.n /\ r.n <= Cardinality(panelReplies)
      /\ \A q \in panelReplies : q.n = r.n => q = r
  <2>1. r \in PanelReply /\ r.n <= Cardinality(panelReplies) /\ \A q \in panelReplies : q.n = r.n => q = r
    BY DEF PanelInv, PanelTyped, RepliesSound
  <2> QED BY <2>1, PanelNumbers DEF PanelReply
<1>2. /\ NotesSound /\ kind \in {"ticket_reply", "mention", "ticket_assigned"} /\ t \in Tickets /\ i \in Int
      /\ N = Panel!Notified(times, kind, t, i, by) /\ \A n \in notes : n.reply # i
  BY <1>1 DEF PanelInv, WorkSound, PanelReply
<1> HIDE DEF N, i, t, by
<1>3. /\ N \subseteq Note /\ IsFiniteSet(N) /\ notes \subseteq N
      /\ \A x \in N : x \in notes \/ (x.reply = i /\ x.kind = kind /\ x.user # by)
      /\ \A x, y \in N : x.reply = y.reply /\ x.user = y.user => x = y
      /\ \A a \in Agents : times[a] = 1 /\ a # by => \E x \in N : x.reply = i /\ x.user = a
  BY <1>2, Notifies
<1>4. j \in PanelJob /\ j.at = "idle"
  BY PanelNumbers DEF PanelJob, Panel!Idle
<1> HIDE DEF j
<1>5. panelWork'[w] = j /\ \A v \in Workers : v # w => panelWork'[v] = panelWork[v]
  BY DEF PanelInv, PanelTyped, j
<1>6. NotesSound'
  <2>1. ASSUME NEW n \in N
        PROVE  IF n.kind = "ticket_assigned" THEN n.reply <= 0 /\ -n.reply < clicks
               ELSE 1 <= n.reply /\ n.reply <= Cardinality(panelReplies) /\ \A q \in panelReplies : q.n = n.reply => q.author # n.user
    <3>1. CASE n \in notes
      BY <3>1 DEF PanelInv, NotesSound
    <3>2. CASE n \notin notes
      <4>1. n.reply = i /\ n.kind = kind /\ n.user # by
        BY <1>3, <3>2
      <4>2. n.kind # "ticket_assigned"
        BY <4>1
      <4> QED BY <1>1, <4>1, <4>2 DEF i, by
    <3> QED BY <3>1, <3>2
  <2>2. ASSUME NEW x \in told' PROVE x.n <= Cardinality(panelReplies) /\ (x.assigned # Nil => \E n \in N : n.reply = x.n /\ n.user = x.assigned)
    <3>1. CASE x \in told
      BY <1>3, <3>1 DEF PanelInv, NotesSound
    <3>2. CASE x \in T
      BY <1>1, <1>3, <3>2 DEF i, by
    <3> QED BY <3>1, <3>2
  <2>3. told' \subseteq Told
    BY DEF PanelInv, NotesSound
  <2> QED BY <1>3, <2>1, <2>2, <2>3 DEF NotesSound, N
<1>7. ActivitySound'
  <2>1. \A v \in Workers : panelWork'[v].at \in {"notify", "activity"} => panelWork'[v] = panelWork[v]
    BY <1>4, <1>5
  <2>2. ASSUME NEW q, Announced(q)' PROVE Announced(q)
    <3>1. CASE \E x \in T : x.n = q
      BY <3>1 DEF Announced
    <3>2. CASE \E x \in told : x.n = q
      BY <3>2 DEF Announced
    <3>3. CASE \E v \in Workers : panelWork'[v].at = "notify" /\ panelWork'[v].reply = q
      BY <2>1, <3>3 DEF Announced
    <3> QED BY <2>2, <3>1, <3>2, <3>3 DEF Announced
  <2>3. \A q : Panel!Second(q)' = Panel!Second(q)
    BY DEF Panel!Second
  <2> QED BY <2>1, <2>2, <2>3 DEF PanelInv, ActivitySound
<1>8. panelWork[w].at # "create" /\ ~Stored(j) /\ j.at # "create" /\ j.at # "notify"
  BY <1>4 DEF Stored
<1>9. \A n \in notes' \ notes : Stored(panelWork[w]) /\ n.reply = panelWork[w].reply
  BY <1>3 DEF N, i
<1>10. panelWork' = [panelWork EXCEPT ![w] = j] /\ panelTickets' \in [Tickets -> PanelTicket]
  BY DEF j, PanelInv, PanelTyped
<1> QED BY <1>4, <1>6, <1>7, <1>8, <1>9, <1>10, HandlerGoes

LEMMA PanelCreated == ASSUME Panel!PanelConstants, PanelInv, NEW w \in Workers, Panel!ReplyCreated(w) PROVE PanelInv'
<1>1. panelWork[w].at = "notify" /\ panelWork[w] \in PanelJob /\ Stored(panelWork[w])
  BY DEF Panel!ReplyCreated, Stored, PanelInv, PanelTyped
<1>2. PICK r \in panelReplies : r = Panel!TheReply(w) /\ r \in PanelReply /\ r.n = panelWork[w].reply /\ r.n \in Nat
  BY <1>1, HandlersReply
<1> DEFINE times == Panel!Recipients(w)
           x == [n |-> r.n, assigned |-> panelWork[w].assigned]
           T == {x}
<1>3. /\ notes' = Panel!Notified(times, "ticket_reply", r.ticket, r.n, r.author) /\ panelWork' = [panelWork EXCEPT ![w] = Panel!Idle]
      /\ UNCHANGED <<clock, panelTickets, sees, panelReplies, reads, late, clicks>> /\ told' = told \cup T
  BY <1>2 DEF Panel!ReplyCreated
<1>4. times \in [Agents -> {0, 1}] /\ \A a \in Agents : a = panelWork[w].assigned => times[a] = 1
  BY DEF Panel!Recipients
<1>5. r.author = Customer
  BY <1>1, <1>2 DEF PanelInv, WorkSound
<1>6. x \in Told /\ x.n = r.n /\ x.assigned = panelWork[w].assigned /\ (x.assigned # Nil => x.assigned \in Agents)
  BY <1>1, <1>2 DEF Told, PanelJob
<1> HIDE DEF times, x
<1>7. T \in SUBSET Told
  BY <1>6
<1>8. \A y \in T : /\ y.n = r.n /\ panelWork[w].at = "notify"
                   /\ y.assigned # Nil => y.assigned \in Agents /\ times[y.assigned] = 1 /\ y.assigned # r.author
  BY <1>1, <1>4, <1>5, <1>6, PanelNumbers
<1> HIDE DEF T
<1> QED BY <1>1, <1>2, <1>3, <1>4, <1>7, <1>8, PanelTells

LEMMA PanelMentions == ASSUME Panel!PanelConstants, PanelInv, NEW w \in Workers, NEW mentioned \in SUBSET Agents, Panel!ReplyMentions(w, mentioned) PROVE PanelInv'
<1>1. Stored(panelWork[w])
  BY DEF Panel!ReplyMentions, Stored
<1>2. PICK r \in panelReplies : r = Panel!TheReply(w) /\ r.n = panelWork[w].reply
  BY <1>1, HandlersReply
<1> DEFINE times == [a \in Agents |-> IF a \in mentioned /\ r.ticket \in sees[a] THEN 1 ELSE 0]
           T == {}
<1>3. /\ notes' = Panel!Notified(times, "mention", r.ticket, r.n, r.author) /\ panelWork' = [panelWork EXCEPT ![w] = Panel!Idle]
      /\ UNCHANGED <<clock, panelTickets, sees, panelReplies, reads, late, clicks>> /\ told' = told \cup T
  BY <1>2 DEF Panel!ReplyMentions
<1>4. times \in [Agents -> {0, 1}] /\ T \in SUBSET Told
  OBVIOUS
<1>5. \A y \in T : /\ y.n = r.n /\ panelWork[w].at = "notify"
                   /\ y.assigned # Nil => y.assigned \in Agents /\ times[y.assigned] = 1 /\ y.assigned # r.author
  OBVIOUS
<1> HIDE DEF times, T
<1> QED BY <1>1, <1>2, <1>3, <1>4, <1>5, PanelTells

LEMMA PanelStep == ASSUME Panel!PanelConstants, PanelInv, [Panel!Next]_Panel!vars PROVE PanelInv'
<1>1. CASE UNCHANGED Panel!vars
  <2>1. UNCHANGED <<clock, panelTickets, sees, panelReplies, reads, notes, panelWork, told, late, clicks>>
    BY <1>1 DEF Panel!vars
  <2>2. PanelTyped' /\ NotesSound' /\ clock <= clock'
    <3>1. PanelTicket' = PanelTicket /\ Panel!Second(PanelTime)' = Panel!Second(PanelTime)
      BY DEF PanelTicket, Panel!Second
    <3> QED BY <2>1, <3>1 DEF PanelInv, PanelTyped, NotesSound
  <2> QED BY <2>1, <2>2, PanelFrame
<1>2. CASE Panel!Next
  <2>1. CASE Panel!Tick
    BY <2>1, PanelTick
  <2>2. ASSUME NEW w \in Workers, NEW t \in Tickets, NEW author \in Panel!Authors, Panel!AddReply(w, t, author) PROVE PanelInv'
    BY <2>2, PanelAdds DEF Authors, Panel!Authors
  <2>3. ASSUME NEW w \in Workers, NEW internal \in BOOLEAN, Panel!CreateReply(w, internal) PROVE PanelInv'
    BY <2>3, PanelCreates
  <2>4. ASSUME NEW w \in Workers, Panel!customerActivity(w) PROVE PanelInv'
    BY <2>4, PanelActivity
  <2>5. ASSUME NEW w \in Workers, Panel!ReplyCreated(w) PROVE PanelInv'
    BY <2>5, PanelCreated
  <2>6. ASSUME NEW w \in Workers, NEW s \in SUBSET Agents, Panel!ReplyMentions(w, s) PROVE PanelInv'
    BY <2>6, PanelMentions
  <2>7. ASSUME NEW t \in Tickets, NEW a \in Agents, NEW by \in Agents, Panel!Assign(t, a, by) PROVE PanelInv'
    BY <2>7, PanelAssign
  <2>8. ASSUME NEW t \in Tickets, NEW a \in Agents,
               Panel!Follow(t, a) \/ Panel!MoveSight(a, t) \/ Panel!MarkRead(a, t) \/ Panel!MarkUnread(a, t)
        PROVE  PanelInv'
    BY <2>8, PanelMarks
  <2>9. ASSUME NEW a \in Agents, Panel!ReadAllNotifications(a) \/ \E n \in notes : Panel!ReadNotification(a, n) PROVE PanelInv'
    BY <2>9, PanelReads
  <2> QED BY <1>2, <2>1, <2>2, <2>3, <2>4, <2>5, <2>6, <2>7, <2>8, <2>9 DEF Panel!Next
<1> QED BY <1>1, <1>2

-----------------------------------------------------------------------------
\* Saved views (SavedViews).

ViewJob == [at : {"idle", "create", "update", "delete", "reorder"}, user : Users \cup {Nil}, id : View!Ids \cup {Nil},
            row : View!Row \cup {Nil}, ids : Seq(View!Ids), n : Nat]

\* What a request under way has loaded: a view to create is its user's, one to
\* change or delete is gone by now or still its user's, or nobody's.
ViewLoaded(j) ==
  /\ j \in ViewJob
  /\ j.at = "create" => j.row \in View!Row /\ j.row.owner = j.user
  /\ j.at \in {"update", "delete"} => j.id \in View!Ids /\ j.id <= lastView /\ (j.id \in View!Rows => views[j.id].owner \in {Nil, j.user})
  /\ j.at = "update" => j.row \in View!Row
  /\ j.at = "reorder" => j.n + 1 \in 1..Len(j.ids) /\ Len(j.ids) <= 2

ViewsInv ==
  /\ views \in [View!Ids -> View!Row \cup {Nil}] /\ lastView \in View!Ids /\ begun \in 0..ViewWrites
  /\ \A i \in View!Rows : i <= lastView
  /\ viewWork \in [Workers -> ViewJob] /\ \A w \in Workers : ViewLoaded(viewWork[w])

LEMMA ViewIdle == View!Idle \in ViewJob /\ View!Idle.at = "idle" /\ ViewLoaded(View!Idle)
<1>1. View!Idle \in ViewJob /\ View!Idle.at = "idle"
  BY DEF View!Idle, ViewJob
<1> QED BY <1>1 DEF ViewLoaded

LEMMA ViewsInit == ASSUME View!ViewsConstants, View!Init PROVE ViewsInv
<1>1. viewWork = [w \in Workers |-> View!Idle] /\ lastView = 1 /\ View!Rows = {1} /\ begun = 0
  BY DEF View!Init
<1>2. views \in [View!Ids -> {Nil} \cup [name : ViewNames, owner : {Nil}, shared : {TRUE}, position : {0}]]
  BY DEF View!Init
<1>3. [name : ViewNames, owner : {Nil}, shared : {TRUE}, position : {0}] \subseteq View!Row
  <2>1. ASSUME NEW r \in [name : ViewNames, owner : {Nil}, shared : {TRUE}, position : {0}] PROVE r \in View!Row
    <3>1. 0 \in 0..MaxPosition
      BY DEF View!ViewsConstants
    <3> QED BY <3>1 DEF View!Row
  <2> QED BY <2>1
<1>4. 1 \in View!Ids /\ 0 \in 0..ViewWrites
  BY DEF View!Ids, View!ViewsConstants
<1>5. views \in [View!Ids -> View!Row \cup {Nil}]
  BY <1>2, <1>3
<1> QED BY <1>1, <1>4, <1>5, ViewIdle DEF ViewsInv

LEMMA ViewsHas == ASSUME ViewsInv PROVE View!TypeOK
BY DEF ViewsInv, View!TypeOK, ViewJob

\* The position a new view takes after.
LEMMA TopPosition ==
  ASSUME View!ViewsConstants, ViewsInv, NEW user PROVE View!maxPosition(user) \in 0..MaxPosition
<1> DEFINE V == View!visibleViews(user)
           T == {p \in 0..MaxPosition : \A i \in V : views[i].position <= p}
<1>1. \A i \in V : views[i].position \in 0..MaxPosition
  BY DEF ViewsInv, View!visibleViews, View!Rows, View!Row
<1>2. MaxPosition \in T /\ T \subseteq Nat
  BY <1>1 DEF View!ViewsConstants
<1> HIDE DEF V
<1>3. PICK p \in T : \A q \in T : p <= q
  BY <1>2, Smallest
<1>4. p = 0 \/ \E i \in V : views[i].position = p
  <2> SUFFICES ASSUME p # 0, \A i \in V : views[i].position # p PROVE FALSE
    OBVIOUS
  <2>1. p - 1 \in 0..MaxPosition /\ \A i \in V : views[i].position <= p - 1
    BY <1>1, <1>3 DEF View!ViewsConstants
  <2> QED BY <1>3, <2>1
<1>5. \E q \in 0..MaxPosition : (\A i \in V : views[i].position <= q) /\ (q = 0 \/ \E i \in V : views[i].position = q)
  BY <1>3, <1>4
<1> QED BY <1>5 DEF View!maxPosition, V

\* A request begins with what it has loaded.
LEMMA ViewBegins ==
  ASSUME View!ViewsConstants, ViewsInv, NEW w \in Workers, NEW j, ViewLoaded(j), View!Begin(w, j) PROVE ViewsInv'
<1>1. viewWork' = [viewWork EXCEPT ![w] = j] /\ UNCHANGED <<views, lastView>> /\ begun < ViewWrites /\ begun' = begun + 1
  BY DEF View!Begin
<1>2. j \in ViewJob
  BY DEF ViewLoaded
<1>3. viewWork' \in [Workers -> ViewJob]
  BY <1>1, <1>2 DEF ViewsInv
<1>4. \A v \in Workers : ViewLoaded(viewWork'[v])
  BY <1>1 DEF ViewsInv
<1>5. ASSUME NEW v \in Workers PROVE ViewLoaded(viewWork[v])'
  BY <1>1, <1>4 DEF ViewLoaded, View!Rows
<1>6. begun' \in 0..ViewWrites
  <2>1. begun \in 0..ViewWrites /\ ViewWrites \in Nat
    BY DEF ViewsInv, View!ViewsConstants
  <2> QED BY <1>1, <2>1
<1>7. View!Rows' = View!Rows
  BY <1>1 DEF View!Rows
<1> QED BY <1>1, <1>3, <1>5, <1>6, <1>7 DEF ViewsInv

\* A request writes one view: what the others have loaded stays as it was.
ViewWrote(w, i, r) ==
  /\ i \in View!Ids /\ r \in View!Row \cup {Nil} /\ views' = [views EXCEPT ![i] = r]
  /\ \/ i \in View!Rows /\ (r # Nil => r.owner = views[i].owner) /\ lastView' = lastView
     \/ i = lastView + 1 /\ lastView' = i
  /\ viewWork' \in [Workers -> ViewJob] /\ begun' = begun
  /\ \A v \in Workers : v # w => viewWork'[v] = viewWork[v]
  /\ viewWork'[w].at \in {"idle", "reorder"}
  /\ viewWork'[w].at = "reorder" => viewWork'[w].n + 1 \in 1..Len(viewWork'[w].ids) /\ Len(viewWork'[w].ids) <= 2

LEMMA ViewWritten ==
  ASSUME ViewsInv, NEW w \in Workers, NEW i, NEW r, ViewWrote(w, i, r) PROVE ViewsInv'
<1>h. /\ i \in View!Ids /\ r \in View!Row \cup {Nil} /\ views' = [views EXCEPT ![i] = r]
      /\ \/ i \in View!Rows /\ (r # Nil => r.owner = views[i].owner) /\ lastView' = lastView
         \/ i = lastView + 1 /\ lastView' = i
  BY DEF ViewWrote
<1>w. /\ viewWork' \in [Workers -> ViewJob] /\ begun' = begun
      /\ \A v \in Workers : v # w => viewWork'[v] = viewWork[v]
      /\ viewWork'[w].at \in {"idle", "reorder"}
      /\ viewWork'[w].at = "reorder" => viewWork'[w].n + 1 \in 1..Len(viewWork'[w].ids) /\ Len(viewWork'[w].ids) <= 2
  BY DEF ViewWrote
<1>0. views \in [View!Ids -> View!Row \cup {Nil}] /\ lastView \in View!Ids /\ View!Ids \subseteq Nat /\ View!Rows \subseteq View!Ids
  BY DEF ViewsInv, View!Ids, View!Rows
<1>1. views' \in [View!Ids -> View!Row \cup {Nil}] /\ views'[i] = r /\ \A k \in View!Ids : k # i => views'[k] = views[k]
  BY <1>0, <1>h
<1>2. lastView' \in View!Ids /\ lastView <= lastView' /\ i <= lastView'
  BY <1>0, <1>h DEF ViewsInv
<1>3. View!Rows' \subseteq View!Rows \cup {i}
  BY <1>1 DEF View!Rows
<1>4. \A k \in View!Rows' : k <= lastView'
  BY <1>0, <1>2, <1>3 DEF ViewsInv
<1>5. ASSUME NEW k \in View!Ids, k <= lastView, k \in View!Rows' PROVE k \in View!Rows /\ views'[k].owner = views[k].owner
  <2>1. CASE k = i
    <3>1. i \in View!Rows /\ (r # Nil => r.owner = views[i].owner)
      BY <1>0, <1>5, <1>h, <2>1
    <3>2. r # Nil
      BY <1>1, <1>5, <2>1 DEF View!Rows
    <3> QED BY <1>1, <2>1, <3>1, <3>2
  <2>2. CASE k # i
    BY <1>1, <1>5, <2>2 DEF View!Rows
  <2> QED BY <2>1, <2>2
<1>6. ASSUME NEW v \in Workers, v # w PROVE ViewLoaded(viewWork[v])'
  <2> DEFINE j == viewWork[v]
  <2>1. viewWork'[v] = j /\ ViewLoaded(j)
    BY <1>6, <1>w DEF ViewsInv
  <2>2. j.at \in {"update", "delete"} => j.id \in View!Ids /\ j.id <= lastView' /\ (j.id \in View!Rows' => views'[j.id].owner \in {Nil, j.user})
    <3>1. SUFFICES ASSUME j.at \in {"update", "delete"}
                   PROVE  j.id \in View!Ids /\ j.id <= lastView' /\ (j.id \in View!Rows' => views'[j.id].owner \in {Nil, j.user})
      OBVIOUS
    <3>2. j.id \in View!Ids /\ j.id <= lastView /\ (j.id \in View!Rows => views[j.id].owner \in {Nil, j.user})
      BY <2>1, <3>1 DEF ViewLoaded
    <3> HIDE DEF j
    <3>3. j.id \in Nat /\ lastView \in Nat /\ lastView' \in Nat
      BY <1>0, <1>2, <3>2
    <3>4. j.id <= lastView'
      BY <1>2, <3>2, <3>3
    <3> QED BY <1>5, <3>2, <3>4
  <2> QED BY <2>1, <2>2 DEF ViewLoaded
<1>7. ViewLoaded(viewWork[w])'
  BY <1>w DEF ViewLoaded
<1> QED BY <1>w, <1>1, <1>2, <1>4, <1>6, <1>7 DEF ViewsInv

\* The one step that gives an id, and those that write a view by its id.
ViewEnds(w) == View!InsertView(w) \/ View!UpdateSavedView(w) \/ View!DeleteSavedView(w) \/ View!ReorderSavedViews(w)

\* Which view such a step writes, and with what.
LEMMA ViewStep ==
  ASSUME View!ViewsConstants, ViewsInv, ~Reuses, NEW w \in Workers, ViewEnds(w)
  PROVE  /\ ViewsInv'
         /\ \A v \in Workers : v # w => viewWork'[v] = viewWork[v]
         /\ \A i \in View!Ids : views'[i] # views[i] =>
              IF i \notin View!Rows THEN views'[i].owner = viewWork[w].user
              ELSE /\ views'[i] # Nil => views'[i].owner = views[i].owner
                   /\ \/ views[i].owner \in {Nil, viewWork[w].user}
                      \/ views[i].shared /\ views'[i] # Nil /\ views'[i] = [views[i] EXCEPT !.position = views'[i].position]
<1> DEFINE j == viewWork[w]
<1>0. /\ ViewLoaded(j) /\ j \in ViewJob /\ views \in [View!Ids -> View!Row \cup {Nil}] /\ View!Ids \subseteq Nat
      /\ View!Rows \subseteq View!Ids /\ \A i \in View!Rows : views[i] \in View!Row
      /\ viewWork \in [Workers -> ViewJob]
  BY DEF ViewsInv, View!Rows, View!Ids
<1>1. CASE viewWork' = viewWork /\ views' = views /\ lastView' = lastView /\ begun' = begun
  BY <1>0, <1>1 DEF ViewsInv, ViewLoaded, View!Rows
<1>a. ASSUME viewWork' = [viewWork EXCEPT ![w] = View!Idle]
      PROVE  viewWork' \in [Workers -> ViewJob] /\ viewWork'[w].at = "idle" /\ \A v \in Workers : v # w => viewWork'[v] = viewWork[v]
  BY <1>0, <1>a, ViewIdle
<1>2. CASE View!InsertView(w)
  <2>1. j.at = "create" /\ lastView' = 1 + lastView /\ lastView' \in View!Ids \ View!Rows /\ views' = [views EXCEPT ![lastView'] = j.row]
    BY <1>2 DEF View!InsertView
  <2>2. viewWork' = [viewWork EXCEPT ![w] = View!Idle] /\ begun' = begun
    BY <1>2 DEF View!InsertView, View!Finish
  <2>3. j.row \in View!Row /\ j.row.owner = j.user
    BY <1>0, <2>1 DEF ViewLoaded
  <2> DEFINE i == lastView + 1
  <2>4. i \in View!Ids \ View!Rows /\ lastView' = i /\ views' = [views EXCEPT ![i] = j.row]
    <3>1. lastView \in Nat
      BY <1>0 DEF ViewsInv
    <3>2. lastView' = i
      BY <2>1, <3>1
    <3> QED BY <2>1, <3>2
  <2> HIDE DEF i, j
  <2>a. i = lastView + 1
    BY DEF i
  <2>b. ViewWrote(w, i, j.row)
    BY <1>a, <2>2, <2>3, <2>4, <2>a DEF ViewWrote
  <2>5. ViewsInv'
    BY <2>b, ViewWritten
  <2> QED BY <1>0, <1>a, <2>2, <2>3, <2>4, <2>5 DEF j
<1>3. CASE View!UpdateSavedView(w)
  <2> DEFINE i == j.id
             r == [j.row EXCEPT !.owner = views[i].owner]
  <2>1. j.at = "update" /\ lastView' = lastView /\ views' = IF i \in View!Rows THEN [views EXCEPT ![i] = r] ELSE views
    BY <1>3 DEF View!UpdateSavedView
  <2>2. viewWork' = [viewWork EXCEPT ![w] = View!Idle] /\ begun' = begun
    BY <1>3 DEF View!UpdateSavedView, View!Finish
  <2>3. j.row \in View!Row /\ i \in View!Ids /\ (i \in View!Rows => views[i].owner \in {Nil, j.user})
    BY <1>0, <2>1 DEF ViewLoaded
  <2>4. CASE i \in View!Rows
    <3>1. views[i].owner \in Users \cup {Nil}
      BY <1>0, <2>4 DEF View!Row
    <3>2. r \in View!Row /\ r.owner = views[i].owner
      BY <2>3, <3>1 DEF View!Row
    <3>3. views' = [views EXCEPT ![i] = r]
      BY <2>1, <2>4
    <3> HIDE DEF i, r, j
    <3>b. ViewWrote(w, i, r)
      BY <1>a, <2>1, <2>2, <2>3, <2>4, <3>2, <3>3 DEF ViewWrote
    <3>4. ViewsInv'
      BY <3>b, ViewWritten
    <3> QED BY <1>0, <1>a, <2>2, <2>3, <2>4, <3>2, <3>3, <3>4 DEF j
  <2>5. CASE i \notin View!Rows
    <3>1. views' = views
      BY <2>1, <2>5
    <3>2. ViewsInv'
      <4>1. ASSUME NEW v \in Workers PROVE ViewLoaded(viewWork'[v])
        BY <1>a, <2>2, ViewIdle DEF ViewsInv
      <4>2. ASSUME NEW v \in Workers PROVE ViewLoaded(viewWork[v])'
        BY <2>1, <3>1, <4>1 DEF ViewLoaded, View!Rows
      <4> QED BY <1>a, <2>1, <2>2, <3>1, <4>2 DEF ViewsInv, View!Rows
    <3> QED BY <1>a, <2>2, <3>1, <3>2
  <2> QED BY <2>4, <2>5
<1>4. CASE View!DeleteSavedView(w)
  <2> DEFINE i == j.id
  <2>1. j.at = "delete" /\ lastView' = lastView /\ views' = [views EXCEPT ![i] = Nil]
    BY <1>4 DEF View!DeleteSavedView
  <2>2. viewWork' = [viewWork EXCEPT ![w] = View!Idle] /\ begun' = begun
    BY <1>4 DEF View!DeleteSavedView, View!Finish
  <2>3. i \in View!Ids /\ (i \in View!Rows => views[i].owner \in {Nil, j.user})
    BY <1>0, <2>1 DEF ViewLoaded
  <2>4. CASE i \in View!Rows
    <3> HIDE DEF i, j
    <3>b. ViewWrote(w, i, Nil)
      BY <1>a, <2>1, <2>2, <2>3, <2>4 DEF ViewWrote
    <3>4. ViewsInv'
      BY <3>b, ViewWritten
    <3> QED BY <1>0, <1>a, <2>1, <2>2, <2>3, <2>4, <3>4 DEF j
  <2>5. CASE i \notin View!Rows
    <3>1. views' = views
      <4>1. views[i] = Nil
        BY <2>3, <2>5 DEF View!Rows
      <4> QED BY <1>0, <2>1, <4>1
    <3>2. ViewsInv'
      <4>1. ASSUME NEW v \in Workers PROVE ViewLoaded(viewWork'[v])
        BY <1>a, <2>2, ViewIdle DEF ViewsInv
      <4>2. ASSUME NEW v \in Workers PROVE ViewLoaded(viewWork[v])'
        BY <2>1, <3>1, <4>1 DEF ViewLoaded, View!Rows
      <4> QED BY <1>a, <2>1, <2>2, <3>1, <4>2 DEF ViewsInv, View!Rows
    <3> QED BY <1>a, <2>2, <3>1, <3>2
  <2> QED BY <2>4, <2>5
<1>5. CASE View!ReorderSavedViews(w)
  <2> DEFINE i == j.ids[j.n + 1]
             r == [views[i] EXCEPT !.position = j.n]
             rest == IF j.n + 1 = Len(j.ids) THEN View!Idle ELSE [j EXCEPT !.n = j.n + 1]
  <2>1. j.at = "reorder" /\ lastView' = lastView /\ begun' = begun /\ viewWork' = [viewWork EXCEPT ![w] = rest]
    BY <1>5 DEF View!ReorderSavedViews
  <2>2. views' = IF i \in View!visibleViews(j.user) THEN [views EXCEPT ![i].position = j.n] ELSE views
    BY <1>5 DEF View!ReorderSavedViews
  <2>3. j.n + 1 \in 1..Len(j.ids) /\ Len(j.ids) <= 2 /\ j.n \in Nat /\ j.ids \in Seq(View!Ids)
    BY <1>0, <2>1 DEF ViewLoaded, ViewJob
  <2>4. j.n \in 0..MaxPosition /\ i \in View!Ids
    BY <2>3 DEF View!ViewsConstants
  <2>5. rest \in ViewJob /\ rest.at \in {"idle", "reorder"} /\ (rest.at = "reorder" => rest.n + 1 \in 1..Len(rest.ids) /\ Len(rest.ids) <= 2) /\ ViewLoaded(rest)
    <3>1. CASE j.n + 1 = Len(j.ids)
      BY <3>1, ViewIdle
    <3>2. CASE j.n + 1 # Len(j.ids)
      <4> DEFINE m == j.n + 1
                 k == [j EXCEPT !.n = m]
      <4>0. m \in Nat /\ j \in ViewJob /\ j.at = "reorder"
        BY <1>0, <2>1, <2>3
      <4> HIDE DEF m, j
      <4>1. k \in ViewJob /\ k.at = "reorder" /\ k.n = m /\ k.ids = j.ids
        BY <4>0 DEF ViewJob
      <4>2. k.n + 1 \in 1..Len(k.ids)
        BY <2>3, <3>2, <4>1 DEF m
      <4>3. rest = k
        BY <3>2 DEF m
      <4> HIDE DEF k, rest
      <4> QED BY <2>3, <4>1, <4>2, <4>3 DEF ViewLoaded
    <3> QED BY <3>1, <3>2
  <2> HIDE DEF rest
  <2>6. viewWork' \in [Workers -> ViewJob] /\ viewWork'[w] = rest /\ \A v \in Workers : v # w => viewWork'[v] = viewWork[v]
    BY <1>0, <2>1, <2>5
  <2>7. CASE i \in View!visibleViews(j.user)
    <3>1. i \in View!Rows /\ (views[i].owner = j.user \/ views[i].shared) /\ views[i] \in View!Row
      BY <1>0, <2>7 DEF View!visibleViews
    <3>2. r \in View!Row /\ r.owner = views[i].owner /\ r.position = j.n
      BY <2>4, <3>1 DEF View!Row
    <3>3. views' = [views EXCEPT ![i] = r]
      BY <2>2, <2>7
    <3>a. r = [views[i] EXCEPT !.position = r.position]
      BY <3>2
    <3>6. r # Nil
      BY <3>2 DEF View!ViewsConstants
    <3> HIDE DEF i, j, r
    <3>b. ViewWrote(w, i, r)
      BY <2>1, <2>4, <2>5, <2>6, <3>1, <3>2, <3>3 DEF ViewWrote
    <3>4. ViewsInv'
      BY <3>b, ViewWritten
    <3>5. views'[i] = r /\ \A k \in View!Ids : k # i => views'[k] = views[k]
      BY <1>0, <2>4, <3>3
    <3>7. ASSUME NEW k \in View!Ids, views'[k] # views[k]
          PROVE  IF k \notin View!Rows THEN views'[k].owner = viewWork[w].user
                 ELSE /\ views'[k] # Nil => views'[k].owner = views[k].owner
                      /\ \/ views[k].owner \in {Nil, viewWork[w].user}
                         \/ views[k].shared /\ views'[k] # Nil /\ views'[k] = [views[k] EXCEPT !.position = views'[k].position]
      <4>1. k = i
        BY <3>5, <3>7
      <4>2. views'[k] = r /\ k \in View!Rows /\ r.owner = views[k].owner /\ r = [views[k] EXCEPT !.position = r.position] /\ r # Nil
        BY <3>1, <3>2, <3>5, <3>a, <3>6, <4>1
      <4>3. views[k].owner = viewWork[w].user \/ views[k].shared
        BY <3>1, <4>1 DEF j
      <4> QED BY <4>2, <4>3, Zenon
    <3> QED BY <2>6, <3>4, <3>7
  <2>8. CASE i \notin View!visibleViews(j.user)
    <3>1. views' = views
      BY <2>2, <2>8
    <3>2. ViewsInv'
      <4>1. ASSUME NEW v \in Workers PROVE ViewLoaded(viewWork'[v])
        BY <2>5, <2>6 DEF ViewsInv
      <4>2. ASSUME NEW v \in Workers PROVE ViewLoaded(viewWork[v])'
        BY <2>1, <3>1, <4>1 DEF ViewLoaded, View!Rows
      <4> QED BY <2>1, <2>6, <3>1, <4>2 DEF ViewsInv, View!Rows
    <3> QED BY <2>6, <3>1, <3>2
  <2> QED BY <2>7, <2>8
<1> QED BY <1>2, <1>3, <1>4, <1>5 DEF ViewEnds

\* A request begins with a view it may change.
LEMMA ViewBegun ==
  ASSUME View!ViewsConstants, ViewsInv, NEW w \in Workers, NEW u \in Users
  PROVE  /\ \A m \in ViewNames, b \in BOOLEAN : View!Create(w, u, m, b) => ViewsInv'
         /\ \A i \in View!Ids, m \in ViewNames, b \in BOOLEAN : View!Update(w, u, i, m, b) => ViewsInv'
         /\ \A i \in View!Ids : View!Delete(w, u, i) => ViewsInv'
         /\ \A k \in 0..2 : \A ids \in [1..k -> View!Ids] : View!Reorder(w, u, ids) => ViewsInv'
<1>0. View!Idle \in ViewJob /\ View!Idle.at = "idle"
  BY ViewIdle
<1>a. ASSUME NEW i, View!ownView(u, i) PROVE i \in View!Ids /\ i \in View!Rows /\ i <= lastView /\ views[i] \in View!Row /\ views[i].owner \in {Nil, u}
  BY <1>a DEF View!ownView, View!Rows, ViewsInv
<1>1. ASSUME NEW m \in ViewNames, NEW b \in BOOLEAN, View!Create(w, u, m, b) PROVE ViewsInv'
  <2> DEFINE p == View!maxPosition(u) + 1
             r == [name |-> m, owner |-> u, shared |-> b, position |-> p]
             j == [View!Idle EXCEPT !.at = "create", !.user = u, !.row = r]
  <2>1. p \in 0..MaxPosition
    BY <1>1, TopPosition DEF View!Create, View!ViewsConstants
  <2>2. View!Begin(w, j)
    BY <1>1 DEF View!Create
  <2> HIDE DEF p
  <2>3. r \in View!Row /\ r.owner = u
    BY <2>1 DEF View!Row
  <2> HIDE DEF r
  <2>4. j \in ViewJob /\ j.at = "create" /\ j.user = u /\ j.row = r
    BY <1>0, <2>3 DEF ViewJob
  <2> HIDE DEF j
  <2>5. ViewLoaded(j)
    BY <2>3, <2>4 DEF ViewLoaded
  <2> QED BY <2>2, <2>5, ViewBegins
<1>2. ASSUME NEW i \in View!Ids, NEW m \in ViewNames, NEW b \in BOOLEAN, View!Update(w, u, i, m, b) PROVE ViewsInv'
  <2> DEFINE r == [views[i] EXCEPT !.name = m, !.shared = b]
             j == [View!Idle EXCEPT !.at = "update", !.user = u, !.id = i, !.row = r]
  <2>1. View!ownView(u, i) /\ View!Begin(w, j)
    BY <1>2 DEF View!Update
  <2>2. r \in View!Row
    BY <1>a, <2>1 DEF View!Row
  <2> HIDE DEF r
  <2>3. j \in ViewJob /\ j.at = "update" /\ j.user = u /\ j.row = r /\ j.id = i
    BY <1>0, <2>2 DEF ViewJob
  <2> HIDE DEF j
  <2>4. ViewLoaded(j)
    BY <1>a, <2>1, <2>2, <2>3 DEF ViewLoaded
  <2> QED BY <2>1, <2>4, ViewBegins
<1>3. ASSUME NEW i \in View!Ids, View!Delete(w, u, i) PROVE ViewsInv'
  <2> DEFINE j == [View!Idle EXCEPT !.at = "delete", !.user = u, !.id = i]
  <2>1. View!ownView(u, i) /\ View!Begin(w, j)
    BY <1>3 DEF View!Delete
  <2>3. j \in ViewJob /\ j.at = "delete" /\ j.user = u /\ j.id = i
    BY <1>0 DEF ViewJob
  <2> HIDE DEF j
  <2>4. ViewLoaded(j)
    BY <1>a, <2>1, <2>3 DEF ViewLoaded
  <2> QED BY <2>1, <2>4, ViewBegins
<1>4. ASSUME NEW k \in 0..2, NEW ids \in [1..k -> View!Ids], View!Reorder(w, u, ids) PROVE ViewsInv'
  <2> DEFINE j == [View!Idle EXCEPT !.at = "reorder", !.user = u, !.ids = ids]
  <2>1. ids # <<>> /\ View!Begin(w, j)
    BY <1>4 DEF View!Reorder
  <2>2. ids \in Seq(View!Ids) /\ Len(ids) = k /\ Len(ids) # 0 /\ Len(ids) <= 2
    BY <2>1
  <2>3. j \in ViewJob /\ j.at = "reorder" /\ j.user = u /\ j.ids = ids /\ j.n = 0
    BY <1>0, <2>2 DEF ViewJob, View!Idle
  <2> HIDE DEF j
  <2>4. 0 + 1 \in 1..Len(ids)
    BY <2>2
  <2>5. ViewLoaded(j)
    BY <2>2, <2>3, <2>4 DEF ViewLoaded
  <2> QED BY <2>1, <2>5, ViewBegins
<1> QED BY <1>1, <1>2, <1>3, <1>4

\* What a step of a worker is.
LEMMA ViewsStep == ASSUME View!ViewsConstants, ViewsInv, ~Reuses, [View!Next]_View!vars PROVE ViewsInv'
<1>1. CASE UNCHANGED View!vars
  BY <1>1 DEF View!vars, ViewsInv, ViewLoaded, View!Rows
<1>2. CASE \E w \in Workers : ViewEnds(w)
  BY <1>2, ViewStep
<1>3. CASE ~\E w \in Workers : ViewEnds(w)
  BY <1>1, <1>3, ViewBegun DEF View!Next, ViewEnds
<1> QED BY <1>2, <1>3

LEMMA ViewsActs == ASSUME View!ViewsConstants, ViewsInv, ~Reuses, [View!Next]_View!vars PROVE View!ViewsHold
<1>1. views' = views \/ \E w \in Workers : ViewEnds(w)
  BY DEF View!Next, View!vars, ViewEnds, View!Create, View!Update, View!Delete, View!Reorder, View!Begin
<1>2. SUFFICES ASSUME NEW w \in Workers, NEW i \in View!Ids, viewWork'[w] # viewWork[w], views'[i] # views[i]
      PROVE  IF i \notin View!Rows THEN views'[i].owner = viewWork[w].user
             ELSE /\ views'[i] # Nil => views'[i].owner = views[i].owner
                  /\ \/ views[i].owner \in {Nil, viewWork[w].user}
                     \/ views[i].shared /\ views'[i] # Nil /\ views'[i] = [views[i] EXCEPT !.position = views'[i].position]
  BY Zenon DEF View!ViewsHold
<1>3. PICK v \in Workers : ViewEnds(v)
  BY <1>1, <1>2
<1>4. v = w
  BY <1>2, <1>3, ViewStep
<1>5. ViewEnds(w)
  BY <1>3, <1>4
<1> QED BY <1>2, <1>5, ViewStep, Zenon

-----------------------------------------------------------------------------
\* An import job (ImportJobs).

ImportIds == Imports!Ids
Keys == [name : Imports!Names, n : Nat]
Made(E) == {[name |-> e.name, n |-> e.n] : e \in E} \cup HostUsers
ImportRun == [at : {"off", "begin", "types", "records", "map", "check", "complete"}, copy : Imports!Row,
              type : Nat, page : Nat, pos : Nat, done : Nat, made : Keys \cup HostUsers \cup {Nil}]

\* A record some run has met: it is in the source map m, or among those failed,
\* F, or has no id; and the ids of a type that are in the source map.
RecordMet(t, p, k, m, F) == Source[t][p][k].id = Nil \/ m[Source[t][p][k].id] # Nil \/ Source[t][p][k].id \in F
PageMet(t, p, m, F) == \A k \in DOMAIN Source[t][p] : RecordMet(t, p, k, m, F)
TypeMet(t, m, F) == \A p \in DOMAIN Source[t] : PageMet(t, p, m, F)
MappedOf(t, m) == {id \in ImportIds : m[id] # Nil /\ \E p \in DOMAIN Source[t] : \E k \in DOMAIN Source[t][p] : Source[t][p][k].id = id}

\* A copy of the job's row: what its cursors have passed was met, its counters
\* do not say more than the source map has, and a completed one is through.
CopyMet(c, m, F) ==
  /\ c \in Imports!Row
  /\ \A t \in Imports!Types : /\ c.cursor[t] < Len(Source[t]) /\ c.done[t] <= Cardinality(MappedOf(t, m))
                              /\ \A p \in DOMAIN Source[t] : p <= c.cursor[t] => PageMet(t, p, m, F)
  /\ c.status = "completed" => ~c.sealed /\ \A t \in Imports!Types : TypeMet(t, m, F)

\* A run: the types and pages behind it were met, and the records of its page.
Reading(j) == j.at \in {"records", "map", "check"}
Going(j) == Reading(j) \/ j.at = "types"
Behindhand(j, m, F) ==
  /\ j.type \in Imports!Types /\ j.page \in DOMAIN Source[j.type]
  /\ \A p \in DOMAIN Source[j.type] : p < j.page => PageMet(j.type, p, m, F)
  /\ 1 <= j.pos /\ j.pos <= Len(Source[j.type][j.page]) + 1
  /\ \A k \in DOMAIN Source[j.type][j.page] : k < j.pos => RecordMet(j.type, j.page, k, m, F)
  /\ j.done <= Cardinality(MappedOf(j.type, m))
RunMet(j, m, F, E) ==
  /\ j.at # "off" => CopyMet(j.copy, m, F) /\ j.copy.status \notin {"none", "completed"}
  /\ Going(j) => 1 <= j.type /\ \A t \in Imports!Types : t < j.type => TypeMet(t, m, F)
  /\ Reading(j) => Behindhand(j, m, F)
  /\ j.at = "map" => /\ j.pos \in DOMAIN Source[j.type][j.page] /\ Source[j.type][j.page][j.pos].id # Nil
                     /\ j.made # Nil /\ j.made \in Made(E)
  /\ j.at = "check" => PageMet(j.type, j.page, m, F)
  /\ j.at = "complete" => \A t \in Imports!Types : TypeMet(t, m, F)

ImportTyped ==
  /\ cookie \in BOOLEAN /\ sourceMap \in [ImportIds -> Made(entities) \cup {Nil}] /\ importRun \in [Workers -> ImportRun]
  /\ admin \in [Admins -> Imports!Row \cup {Nil}] /\ ghost \in [failed : SUBSET ImportIds, disturbed : BOOLEAN]
  /\ queued \in Nat /\ queued <= started /\ started \in 0..MaxRuns /\ asks \in 0..MaxAsks /\ faults \in 0..ImportFaults
  /\ jobRow.status = "none" => started = 0 /\ \A a \in Admins : admin[a] = Nil
  /\ IsFiniteSet(entities) /\ \A e \in entities : e.name \in Imports!Names /\ e.n \in Nat

CopiesMet ==
  /\ CopyMet(jobRow, sourceMap, ghost.failed)
  /\ \A a \in Admins : admin[a] # Nil => CopyMet(admin[a], sourceMap, ghost.failed) /\ admin[a].status # "none"
  /\ \A r \in Workers : RunMet(importRun[r], sourceMap, ghost.failed, entities)

\* While no two runs overlapped and none was cut off in between, what was
\* created is in the source map, or the one run is about to put it there.
At(j) == Source[j.type][j.page][j.pos]
CreatedSound ==
  ~ghost.disturbed =>
    /\ \A e \in entities : e.n = 1
    /\ \A r, q \in Workers : importRun[r].at # "off" /\ importRun[q].at # "off" => r = q
    /\ \A e \in entities, c \in Imports!Records :
         c.kind = "new" /\ e.name = c.name =>
           c.id \in ImportIds /\ (sourceMap[c.id] # Nil \/ \E r \in Workers : importRun[r].at = "map" /\ At(importRun[r]).id = c.id)

\* What needs a parent is on the one that the source map has, and keeps.
OnParent ==
  \A c \in Imports!Records, e \in entities :
    e.name = c.name /\ c.needs => c.of \in ImportIds /\ e.on # Nil /\ e.on = sourceMap[c.of]

ImportInv == ImportTyped /\ CopiesMet /\ OnParent /\ CreatedSound

\* The source: its types, pages and records.
LEMMA SourceRows ==
  ASSUME Imports!ImportConstants
  PROVE  /\ Len(Source) \in Nat /\ Imports!Types = 1..Len(Source) /\ IsFiniteSet(ImportIds) /\ Nil \notin Keys
         /\ MaxRuns \in Nat \ {0} /\ MaxAsks \in Nat /\ ImportFaults \in Nat
         /\ \A t \in Imports!Types :
              /\ Len(Source[t]) \in Nat /\ Len(Source[t]) > 0 /\ DOMAIN Source[t] = 1..Len(Source[t])
              /\ \A p \in DOMAIN Source[t] :
                   /\ Len(Source[t][p]) \in Nat /\ DOMAIN Source[t][p] = 1..Len(Source[t][p])
                   /\ \A k \in DOMAIN Source[t][p] :
                        /\ Source[t][p][k] \in Imports!Records
                        /\ Source[t][p][k].id \in ImportIds \/ Source[t][p][k].id = Nil
         /\ \A c \in Imports!Records :
              /\ c.name \in Imports!Names /\ (c.id \in ImportIds \/ c.id = Nil) /\ c.kind \in {"host", "named", "new"}
              /\ c.needs => c.kind = "new"
              /\ c.kind = "new" => \A q \in Imports!Records : c.name = q.name => c = q
<1> DEFINE R == Imports!Records
<1>1. Source \in Seq(Seq(Seq(R))) /\ Imports!Types = DOMAIN Source
  BY DEF Imports!ImportConstants, Imports!Types
<1>2. \A c \in R : c.name \in Imports!Names /\ (c.id \in ImportIds \/ c.id = Nil)
  BY DEF Imports!Names, Imports!Ids, ImportIds
<1>3. IsFiniteSet(ImportIds)
  BY DEF Imports!ImportConstants, ImportIds, IsFiniteSet, Imports!IsFiniteSet
<1>4. /\ Nil \notin Keys /\ MaxRuns \in Nat \ {0} /\ MaxAsks \in Nat /\ ImportFaults \in Nat
      /\ \A t \in Imports!Types : Source[t] # <<>>
      /\ \A c \in R : c.kind \in {"host", "named", "new"} /\ (c.needs => c.kind = "new")
      /\ \A c \in R : c.kind = "new" => \A q \in R : c.name = q.name => c = q
  BY DEF Imports!ImportConstants, Keys
<1> HIDE DEF R
<1>5. Len(Source) \in Nat /\ Imports!Types = 1..Len(Source)
  BY <1>1
<1>6. ASSUME NEW t \in Imports!Types
      PROVE  Len(Source[t]) \in Nat /\ Len(Source[t]) > 0 /\ DOMAIN Source[t] = 1..Len(Source[t]) /\ Source[t] \in Seq(Seq(R))
  <2> DEFINE S == Seq(Seq(R))
  <2>1. Source \in Seq(S)
    BY <1>1
  <2> HIDE DEF S
  <2>2. Source[t] \in S
    BY <1>1, <2>1
  <2> USE DEF S
  <2>3. PICK s \in Seq(Seq(R)) : s = Source[t]
    BY <2>2
  <2>4. s # <<>>
    BY <1>4, <2>3
  <2>5. Len(s) \in Nat /\ DOMAIN s = 1..Len(s)
    OBVIOUS
  <2>6. Len(s) # 0
    BY <2>4, EmptySeq
  <2> QED BY <2>3, <2>5, <2>6
<1>7. ASSUME NEW t \in Imports!Types, NEW p \in DOMAIN Source[t]
      PROVE  Len(Source[t][p]) \in Nat /\ DOMAIN Source[t][p] = 1..Len(Source[t][p]) /\ \A k \in DOMAIN Source[t][p] : Source[t][p][k] \in R
  <2> DEFINE S == Seq(R)
  <2>1. PICK s \in Seq(S) : s = Source[t]
    BY <1>6
  <2> HIDE DEF S
  <2>2. s[p] \in S
    BY <2>1
  <2> USE DEF S
  <2>3. PICK q \in Seq(R) : q = Source[t][p]
    BY <2>1, <2>2
  <2> QED BY <2>3
<1> QED BY <1>2, <1>3, <1>4, <1>5, <1>6, <1>7 DEF R

LEMMA MappedFinite ==
  ASSUME Imports!ImportConstants, NEW t, NEW m
  PROVE  IsFiniteSet(MappedOf(t, m)) /\ Cardinality(MappedOf(t, m)) \in Nat
<1>1. IsFiniteSet(MappedOf(t, m))
  BY SourceRows, FS_Subset DEF MappedOf
<1> QED BY <1>1, FS_CardinalityType

LEMMA ImportInit == ASSUME Imports!ImportConstants, Imports!Init PROVE ImportInv
<1>1. /\ cookie = FALSE /\ jobRow = Imports!Copy /\ sourceMap = [id \in ImportIds |-> Nil] /\ entities = {}
      /\ importRun = [r \in Workers |-> Imports!Off] /\ admin = [a \in Admins |-> Nil]
      /\ queued = 0 /\ started = 0 /\ asks = 0 /\ faults = 0 /\ ghost = [failed |-> {}, disturbed |-> FALSE]
  BY DEF Imports!Init, ImportIds
<1>2. Imports!Copy \in Imports!Row /\ Imports!Copy.status = "none"
  BY DEF Imports!Copy, Imports!Row, Imports!Statuses
<1>3. Imports!Off \in ImportRun /\ Imports!Off.at = "off"
  BY <1>2 DEF Imports!Off, ImportRun
<1>4. ghost \in [failed : SUBSET ImportIds, disturbed : BOOLEAN]
  BY <1>1
<1>5. ImportTyped
  <2>1. /\ cookie \in BOOLEAN /\ sourceMap \in [ImportIds -> Made(entities) \cup {Nil}] /\ importRun \in [Workers -> ImportRun]
        /\ admin \in [Admins -> Imports!Row \cup {Nil}]
    BY <1>1, <1>3
  <2>2. /\ queued \in Nat /\ queued <= started /\ started \in 0..MaxRuns /\ asks \in 0..MaxAsks /\ faults \in 0..ImportFaults
    BY <1>1, SourceRows
  <2>4. \A a \in Admins : admin[a] = Nil
    BY <1>1
  <2>3. IsFiniteSet(entities) /\ \A e \in entities : e.name \in Imports!Names /\ e.n \in Nat
    BY <1>1, FS_EmptySet
  <2> QED BY <1>1, <1>4, <2>1, <2>2, <2>3, <2>4 DEF ImportTyped
<1>6. CopyMet(jobRow, sourceMap, ghost.failed)
  <2>1. \A t \in Imports!Types : Imports!Copy.cursor[t] = 0 /\ Imports!Copy.done[t] = 0
    BY DEF Imports!Copy
  <2>2. \A t \in Imports!Types : 0 < Len(Source[t]) /\ 0 <= Cardinality(MappedOf(t, sourceMap)) /\ \A p \in DOMAIN Source[t] : ~(p <= 0)
    BY SourceRows, MappedFinite
  <2> QED BY <1>1, <1>2, <2>1, <2>2 DEF CopyMet
<1>7. CopiesMet
  BY <1>1, <1>3, <1>6 DEF CopiesMet, RunMet, Going, Reading
<1> QED BY <1>1, <1>3, <1>5, <1>7 DEF ImportInv, CreatedSound, OnParent

LEMMA ImportHas == ASSUME Imports!ImportConstants, ImportInv PROVE Imports!TypeOK /\ Imports!ImportHolds
<1>1. Imports!TypeOK
  <2>1. \A id \in Imports!Ids : sourceMap[id] \in {[name |-> e.name, n |-> e.n] : e \in entities} \cup HostUsers \cup {Nil}
    BY DEF ImportInv, ImportTyped, ImportIds, Made
  <2>2. \A r \in Workers : importRun[r].at \in {"off", "begin", "types", "records", "map", "check", "complete"} /\ importRun[r].copy \in Imports!Row
    BY DEF ImportInv, ImportTyped, ImportRun
  <2>3. queued \in 0..MaxRuns
    BY SourceRows DEF ImportInv, ImportTyped
  <2> QED BY <2>1, <2>2, <2>3 DEF Imports!TypeOK, ImportInv, ImportTyped, CopiesMet, CopyMet
<1>2. Imports!NothingLeftOut
  <2>1. ASSUME jobRow.status = "completed", NEW id \in Imports!Ids PROVE sourceMap[id] # Nil \/ id \in ghost.failed
    <3>1. PICK c \in Imports!Records : c.id = id /\ id # Nil
      BY DEF Imports!Ids
    <3>2. PICK t \in Imports!Types : \E p \in DOMAIN Source[t] : \E k \in DOMAIN Source[t][p] : Source[t][p][k] = c
      BY DEF Imports!Records
    <3>3. PICK p \in DOMAIN Source[t] : \E k \in DOMAIN Source[t][p] : Source[t][p][k] = c
      BY <3>2
    <3>4. PICK k \in DOMAIN Source[t][p] : Source[t][p][k] = c
      BY <3>3
    <3>5. RecordMet(t, p, k, sourceMap, ghost.failed)
      BY <2>1 DEF ImportInv, CopiesMet, CopyMet, TypeMet, PageMet
    <3> QED BY <3>1, <3>4, <3>5 DEF RecordMet
  <2> QED BY <2>1 DEF Imports!NothingLeftOut
<1>3. Imports!CreatedOnce
  BY DEF ImportInv, CreatedSound, Imports!CreatedOnce
<1>4. Imports!NeverOvercounts
  <2>1. \A t \in Imports!Types : jobRow.done[t] <= Imports!Cardinality(MappedOf(t, sourceMap))
    BY DEF ImportInv, CopiesMet, CopyMet, Imports!Cardinality, Cardinality
  <2> QED BY <2>1 DEF Imports!NeverOvercounts, MappedOf, ImportIds
<1>5. Imports!CompletedDropsCredentials
  BY DEF ImportInv, CopiesMet, CopyMet, Imports!CompletedDropsCredentials
<1>6. Imports!OnTheMappedParent
  BY DEF ImportInv, OnParent, Imports!OnTheMappedParent, Imports!Name
<1> QED BY <1>1, <1>2, <1>3, <1>4, <1>5, <1>6 DEF Imports!ImportHolds

-----------------------------------------------------------------------------
\* The source map and the records failed only grow, and what was met stays met.
Grows(m, F, m2, F2) == F \subseteq F2 /\ \A id \in ImportIds : m[id] # Nil => m2[id] = m[id]

LEMMA MetGrows ==
  ASSUME Imports!ImportConstants, NEW m, NEW F, NEW m2, NEW F2, Grows(m, F, m2, F2), NEW t \in Imports!Types
  PROVE  /\ \A p \in DOMAIN Source[t] : PageMet(t, p, m, F) => PageMet(t, p, m2, F2)
         /\ \A p \in DOMAIN Source[t] : \A k \in DOMAIN Source[t][p] : RecordMet(t, p, k, m, F) => RecordMet(t, p, k, m2, F2)
         /\ TypeMet(t, m, F) => TypeMet(t, m2, F2)
         /\ Cardinality(MappedOf(t, m)) \in Nat /\ Cardinality(MappedOf(t, m2)) \in Nat
         /\ Cardinality(MappedOf(t, m)) <= Cardinality(MappedOf(t, m2))
<1>1. ASSUME NEW p \in DOMAIN Source[t], NEW k \in DOMAIN Source[t][p], RecordMet(t, p, k, m, F) PROVE RecordMet(t, p, k, m2, F2)
  <2>1. Source[t][p][k].id \in ImportIds \/ Source[t][p][k].id = Nil
    BY SourceRows
  <2> QED BY <1>1, <2>1 DEF RecordMet, Grows
<1>2. \A p \in DOMAIN Source[t] : PageMet(t, p, m, F) => PageMet(t, p, m2, F2)
  BY <1>1 DEF PageMet
<1>3. TypeMet(t, m, F) => TypeMet(t, m2, F2)
  BY <1>2 DEF TypeMet
<1>4. MappedOf(t, m) \subseteq MappedOf(t, m2)
  BY DEF MappedOf, Grows
<1>5. /\ Cardinality(MappedOf(t, m)) <= Cardinality(MappedOf(t, m2))
      /\ Cardinality(MappedOf(t, m)) \in Nat /\ Cardinality(MappedOf(t, m2)) \in Nat
  <2>1. IsFiniteSet(MappedOf(t, m2)) /\ Cardinality(MappedOf(t, m)) \in Nat /\ Cardinality(MappedOf(t, m2)) \in Nat
    BY MappedFinite
  <2> DEFINE A == MappedOf(t, m) B == MappedOf(t, m2)
  <2>2. IsFiniteSet(B) /\ A \subseteq B
    BY <1>4, <2>1
  <2> HIDE DEF A, B
  <2>3. Cardinality(A) <= Cardinality(B)
    BY <2>2, FS_Subset
  <2> QED BY <2>1, <2>3 DEF A, B
<1> QED BY <1>1, <1>2, <1>3, <1>5

LEMMA CopyGrows ==
  ASSUME Imports!ImportConstants, NEW m, NEW F, NEW m2, NEW F2, Grows(m, F, m2, F2), NEW c, CopyMet(c, m, F)
  PROVE  CopyMet(c, m2, F2)
<1>1. ASSUME NEW t \in Imports!Types
      PROVE  /\ c.cursor[t] < Len(Source[t]) /\ c.done[t] <= Cardinality(MappedOf(t, m2))
             /\ \A p \in DOMAIN Source[t] : p <= c.cursor[t] => PageMet(t, p, m2, F2)
  <2>1. c.done[t] \in Nat
    BY DEF CopyMet, Imports!Row
  <2>2. c.cursor[t] < Len(Source[t]) /\ c.done[t] <= Cardinality(MappedOf(t, m))
    BY DEF CopyMet
  <2>3. \A p \in DOMAIN Source[t] : p <= c.cursor[t] => PageMet(t, p, m2, F2)
    BY MetGrows DEF CopyMet
  <2>4. /\ Cardinality(MappedOf(t, m)) \in Nat /\ Cardinality(MappedOf(t, m2)) \in Nat
        /\ Cardinality(MappedOf(t, m)) <= Cardinality(MappedOf(t, m2))
    BY MetGrows
  <2> QED BY <2>1, <2>2, <2>3, <2>4
<1>2. c.status = "completed" => ~c.sealed /\ \A t \in Imports!Types : TypeMet(t, m2, F2)
  BY MetGrows DEF CopyMet
<1> QED BY <1>1, <1>2 DEF CopyMet

LEMMA RunGrows ==
  ASSUME Imports!ImportConstants, NEW m, NEW F, NEW m2, NEW F2, Grows(m, F, m2, F2), NEW E, NEW E2, E \subseteq E2,
         NEW j \in ImportRun, RunMet(j, m, F, E)
  PROVE  RunMet(j, m2, F2, E2)
<1>1. j.at # "off" => CopyMet(j.copy, m2, F2) /\ j.copy.status \notin {"none", "completed"}
  BY CopyGrows DEF RunMet
<1>2. Going(j) => 1 <= j.type /\ \A t \in Imports!Types : t < j.type => TypeMet(t, m2, F2)
  BY MetGrows DEF RunMet
<1>3. ASSUME Reading(j) PROVE Behindhand(j, m2, F2)
  <2>1. Behindhand(j, m, F) /\ j.done \in Nat
    BY <1>3 DEF RunMet, ImportRun
  <2> DEFINE t == j.type p == j.page
  <2>2. t \in Imports!Types /\ p \in DOMAIN Source[t]
    BY <2>1 DEF Behindhand
  <2>3. /\ \A q \in DOMAIN Source[t] : q < p => PageMet(t, q, m, F)
        /\ 1 <= j.pos /\ j.pos <= Len(Source[t][p]) + 1
        /\ \A k \in DOMAIN Source[t][p] : k < j.pos => RecordMet(t, p, k, m, F)
        /\ j.done <= Cardinality(MappedOf(t, m))
    BY <2>1 DEF Behindhand
  <2> HIDE DEF t, p
  <2>4. /\ \A q \in DOMAIN Source[t] : q < p => PageMet(t, q, m2, F2)
        /\ \A k \in DOMAIN Source[t][p] : k < j.pos => RecordMet(t, p, k, m2, F2)
    BY <2>2, <2>3, MetGrows
  <2>5. j.done <= Cardinality(MappedOf(t, m2))
    <3>1. /\ Cardinality(MappedOf(t, m)) \in Nat /\ Cardinality(MappedOf(t, m2)) \in Nat
          /\ Cardinality(MappedOf(t, m)) <= Cardinality(MappedOf(t, m2))
      BY <2>2, MetGrows
    <3> QED BY <2>1, <2>3, <3>1
  <2> QED BY <2>2, <2>3, <2>4, <2>5 DEF Behindhand, t, p
<1>4. j.at = "map" => /\ j.pos \in DOMAIN Source[j.type][j.page] /\ Source[j.type][j.page][j.pos].id # Nil
                      /\ j.made # Nil /\ j.made \in Made(E2)
  BY DEF RunMet, Made
<1>5. j.at = "check" => PageMet(j.type, j.page, m2, F2)
  <2>1. j.at = "check" => j.type \in Imports!Types /\ j.page \in DOMAIN Source[j.type]
    BY DEF RunMet, Reading, Behindhand
  <2>2. j.at = "check" => PageMet(j.type, j.page, m, F)
    BY DEF RunMet
  <2> QED BY <2>1, <2>2, MetGrows
<1>6. j.at = "complete" => \A t \in Imports!Types : TypeMet(t, m2, F2)
  BY MetGrows DEF RunMet
<1> QED BY <1>1, <1>2, <1>3, <1>4, <1>5, <1>6 DEF RunMet

\* A copy whose status or seal is written, but never to "completed".
LEMMA CopyMarked ==
  ASSUME NEW m, NEW F, NEW c, CopyMet(c, m, F), NEW s \in Imports!Statuses, s # "completed", NEW b \in BOOLEAN
  PROVE  CopyMet([c EXCEPT !.status = s], m, F) /\ CopyMet([c EXCEPT !.status = s, !.sealed = b], m, F)
<1>1. ASSUME NEW d, d \in Imports!Row, d.done = c.done, d.cursor = c.cursor, d.status # "completed" PROVE CopyMet(d, m, F)
  BY <1>1 DEF CopyMet
<1>2. c \in Imports!Row
  BY DEF CopyMet
<1>3. /\ [c EXCEPT !.status = s] \in Imports!Row /\ [c EXCEPT !.status = s].done = c.done
      /\ [c EXCEPT !.status = s].cursor = c.cursor /\ [c EXCEPT !.status = s].status = s
  BY <1>2 DEF Imports!Row
<1>4. /\ [c EXCEPT !.status = s, !.sealed = b] \in Imports!Row /\ [c EXCEPT !.status = s, !.sealed = b].done = c.done
      /\ [c EXCEPT !.status = s, !.sealed = b].cursor = c.cursor /\ [c EXCEPT !.status = s, !.sealed = b].status = s
  BY <1>2 DEF Imports!Row
<1> QED BY <1>1, <1>3, <1>4

-----------------------------------------------------------------------------
\* Steps that only move copies of the row.

\* What a step carries over, and one that creates nothing.
Carried == Grows(sourceMap, ghost.failed, sourceMap', ghost'.failed) /\ entities \subseteq entities'
Unmade ==
  /\ UNCHANGED <<sourceMap, entities>> /\ ghost.failed \subseteq ghost'.failed /\ (ghost.disturbed => ghost'.disturbed)
  /\ \A q \in Workers : /\ importRun'[q].at # "off" => importRun[q].at # "off"
                        /\ importRun[q].at = "map" => importRun'[q] = importRun[q]

LEMMA RunsCarry ==
  ASSUME Imports!ImportConstants, ImportInv, Carried
  PROVE  /\ CopyMet(jobRow, sourceMap', ghost'.failed)
         /\ \A a \in Admins : admin[a] # Nil => CopyMet(admin[a], sourceMap', ghost'.failed) /\ admin[a].status # "none"
         /\ \A q \in Workers : RunMet(importRun[q], sourceMap', ghost'.failed, entities')
<1> DEFINE m == sourceMap F == ghost.failed m2 == sourceMap' F2 == ghost'.failed E2 == entities'
<1>1. Grows(m, F, m2, F2) /\ entities \subseteq E2
  BY DEF Carried
<1>2. /\ CopyMet(jobRow, m, F) /\ \A a \in Admins : admin[a] # Nil => CopyMet(admin[a], m, F) /\ admin[a].status # "none"
      /\ \A q \in Workers : importRun[q] \in ImportRun /\ RunMet(importRun[q], m, F, entities)
  BY DEF ImportInv, ImportTyped, CopiesMet
<1> HIDE DEF m, F, m2, F2, E2
<1>3. CopyMet(jobRow, m2, F2) /\ \A a \in Admins : admin[a] # Nil => CopyMet(admin[a], m2, F2) /\ admin[a].status # "none"
  BY <1>1, <1>2, CopyGrows
<1>4. \A q \in Workers : RunMet(importRun[q], m2, F2, E2)
  BY <1>1, <1>2, RunGrows
<1> QED BY <1>3, <1>4 DEF m2, F2, E2

LEMMA UnmadeStands ==
  ASSUME Imports!ImportConstants, ImportInv, Unmade
  PROVE  Carried /\ OnParent' /\ CreatedSound'
<1>1. Carried
  BY DEF Unmade, Carried, Grows
<1>2. OnParent'
  BY DEF Unmade, ImportInv, OnParent
<1>3. CreatedSound'
  <2> SUFFICES ASSUME ~ghost'.disturbed
               PROVE  /\ \A e \in entities : e.n = 1
                      /\ \A r, q \in Workers : importRun'[r].at # "off" /\ importRun'[q].at # "off" => r = q
                      /\ \A e \in entities, c \in Imports!Records :
                           c.kind = "new" /\ e.name = c.name =>
                             c.id \in ImportIds /\ (sourceMap[c.id] # Nil \/ \E r \in Workers : importRun'[r].at = "map" /\ At(importRun'[r]).id = c.id)
    BY DEF CreatedSound, Unmade
  <2>1. ~ghost.disturbed
    BY DEF Unmade
  <2>2. /\ \A e \in entities : e.n = 1
        /\ \A r, q \in Workers : importRun[r].at # "off" /\ importRun[q].at # "off" => r = q
        /\ \A e \in entities, c \in Imports!Records :
             c.kind = "new" /\ e.name = c.name =>
               c.id \in ImportIds /\ (sourceMap[c.id] # Nil \/ \E r \in Workers : importRun[r].at = "map" /\ At(importRun[r]).id = c.id)
    BY <2>1 DEF ImportInv, CreatedSound
  <2> QED BY <2>2 DEF Unmade
<1> QED BY <1>1, <1>2, <1>3

\* An admin's request writes back the row it read, or leaves the row alone.
LEMMA AdminSteps ==
  ASSUME Imports!ImportConstants, ImportInv, NEW a \in Admins,
         Imports!Ask(a) \/ Imports!Pause(a) \/ Imports!Resume(a) \/ Imports!Cancel(a)
  PROVE  ImportInv'
<1>1. UNCHANGED <<cookie, sourceMap, entities, importRun, ghost, faults>>
  BY DEF Imports!Ask, Imports!Pause, Imports!Resume, Imports!Cancel
<1>2. Unmade
  BY <1>1 DEF Unmade
<1>3. Carried /\ OnParent' /\ CreatedSound'
  BY <1>2, UnmadeStands
<1>4. /\ CopyMet(jobRow, sourceMap, ghost.failed) /\ jobRow \in Imports!Row
      /\ \A b \in Admins : admin[b] # Nil => admin[b] \in Imports!Row /\ CopyMet(admin[b], sourceMap, ghost.failed) /\ admin[b].status # "none"
      /\ admin \in [Admins -> Imports!Row \cup {Nil}]
      /\ jobRow.status = "none" => started = 0 /\ \A b \in Admins : admin[b] = Nil
      /\ queued \in Nat /\ queued <= started /\ started \in 0..MaxRuns /\ asks \in 0..MaxAsks /\ MaxRuns \in Nat \ {0} /\ MaxAsks \in Nat
  BY SourceRows DEF ImportInv, ImportTyped, CopiesMet, CopyMet
<1>5. /\ CopyMet(jobRow', sourceMap, ghost.failed) /\ admin' \in [Admins -> Imports!Row \cup {Nil}]
      /\ \A b \in Admins : admin'[b] # Nil => CopyMet(admin'[b], sourceMap, ghost.failed) /\ admin'[b].status # "none"
      /\ jobRow'.status = "none" => started' = 0 /\ \A b \in Admins : admin'[b] = Nil
      /\ queued' \in Nat /\ queued' <= started' /\ started' \in 0..MaxRuns /\ asks' \in 0..MaxAsks
  <2>1. CASE Imports!Ask(a)
    <3>1. admin' = [admin EXCEPT ![a] = jobRow] /\ jobRow.status # "none" /\ asks' = asks + 1 /\ asks < MaxAsks /\ UNCHANGED <<jobRow, queued, started>>
      BY <2>1 DEF Imports!Ask
    <3>2. asks' \in 0..MaxAsks
      BY <1>4, <3>1
    <3> QED BY <1>4, <3>1, <3>2
  <2>2. CASE Imports!Pause(a)
    <3> DEFINE c == [admin[a] EXCEPT !.status = "paused"]
    <3>1. /\ admin[a] # Nil /\ jobRow' = (IF admin[a].status = "importing" THEN c ELSE jobRow)
          /\ admin' = [admin EXCEPT ![a] = Nil] /\ UNCHANGED <<asks, queued, started>>
      BY <2>2 DEF Imports!Pause
    <3>2. CopyMet(c, sourceMap, ghost.failed) /\ c.status # "none"
      <4>1. "paused" \in Imports!Statuses /\ "paused" # "completed"
        BY DEF Imports!Statuses
      <4>2. CopyMet(c, sourceMap, ghost.failed)
        BY <1>4, <3>1, <4>1, CopyMarked
      <4> QED BY <1>4, <3>1, <4>2 DEF Imports!Row
    <3> HIDE DEF c
    <3> QED BY <1>4, <3>1, <3>2
  <2>3. CASE Imports!Resume(a)
    <3> DEFINE c == [admin[a] EXCEPT !.status = "mapping"]
    <3>1. /\ admin[a] # Nil /\ jobRow' = (IF admin[a].status = "failed" THEN c ELSE jobRow) /\ started < MaxRuns
          /\ admin' = [admin EXCEPT ![a] = Nil] /\ queued' = queued + 1 /\ started' = started + 1 /\ UNCHANGED asks
      BY <2>3 DEF Imports!Resume
    <3>2. CopyMet(c, sourceMap, ghost.failed) /\ c.status # "none"
      <4>1. "mapping" \in Imports!Statuses /\ "mapping" # "completed"
        BY DEF Imports!Statuses
      <4>2. CopyMet(c, sourceMap, ghost.failed)
        BY <1>4, <3>1, <4>1, CopyMarked
      <4> QED BY <1>4, <3>1, <4>2 DEF Imports!Row
    <3> HIDE DEF c
    <3>3. jobRow'.status # "none" /\ CopyMet(jobRow', sourceMap, ghost.failed)
      BY <1>4, <3>1, <3>2
    <3>4. queued' \in Nat /\ queued' <= started' /\ started' \in 0..MaxRuns
      BY <1>4, <3>1
    <3> QED BY <1>4, <3>1, <3>3, <3>4
  <2>4. CASE Imports!Cancel(a)
    <3> DEFINE c == [admin[a] EXCEPT !.status = "failed", !.sealed = FALSE]
    <3>1. admin[a] # Nil /\ jobRow' = c /\ admin' = [admin EXCEPT ![a] = Nil] /\ UNCHANGED <<asks, queued, started>>
      BY <2>4 DEF Imports!Cancel
    <3>2. CopyMet(c, sourceMap, ghost.failed) /\ c.status # "none"
      <4>1. "failed" \in Imports!Statuses /\ "failed" # "completed" /\ FALSE \in BOOLEAN
        BY DEF Imports!Statuses
      <4>2. CopyMet(c, sourceMap, ghost.failed)
        BY <1>4, <3>1, <4>1, CopyMarked
      <4> QED BY <1>4, <3>1, <4>2 DEF Imports!Row
    <3> HIDE DEF c
    <3> QED BY <1>4, <3>1, <3>2
  <2> QED BY <2>1, <2>2, <2>3, <2>4
<1>6. ImportTyped'
  BY <1>1, <1>5 DEF ImportInv, ImportTyped
<1>7. CopiesMet'
  <2>1. \A q \in Workers : RunMet(importRun[q], sourceMap, ghost.failed, entities)
    BY DEF ImportInv, CopiesMet
  <2> QED BY <1>1, <1>5, <2>1 DEF CopiesMet
<1> QED BY <1>3, <1>6, <1>7 DEF ImportInv

LEMMA BrowserSteps ==
  ASSUME Imports!ImportConstants, ImportInv, Imports!TestConnection \/ Imports!Expire \/ Imports!Create
  PROVE  ImportInv'
<1>1. UNCHANGED <<sourceMap, entities, importRun, admin, ghost, asks, faults>> /\ cookie' \in BOOLEAN
  BY DEF Imports!TestConnection, Imports!Expire, Imports!Create
<1>2. Unmade
  BY <1>1 DEF Unmade
<1>3. Carried /\ OnParent' /\ CreatedSound'
  BY <1>2, UnmadeStands
<1>4. /\ CopyMet(jobRow, sourceMap, ghost.failed) /\ jobRow \in Imports!Row
      /\ jobRow.status = "none" => started = 0 /\ \A b \in Admins : admin[b] = Nil
      /\ queued \in Nat /\ queued <= started /\ started \in 0..MaxRuns /\ MaxRuns \in Nat \ {0}
  BY SourceRows DEF ImportInv, ImportTyped, CopiesMet, CopyMet
<1>5. /\ CopyMet(jobRow', sourceMap, ghost.failed)
      /\ jobRow'.status = "none" => started' = 0 /\ \A b \in Admins : admin[b] = Nil
      /\ queued' \in Nat /\ queued' <= started' /\ started' \in 0..MaxRuns
  <2>1. CASE Imports!TestConnection \/ Imports!Expire
    BY <1>4, <2>1 DEF Imports!TestConnection, Imports!Expire
  <2>2. CASE Imports!Create
    <3> DEFINE c == [jobRow EXCEPT !.status = "mapping", !.sealed = TRUE]
    <3>1. jobRow.status = "none" /\ jobRow' = c /\ queued' = 1 /\ started' = started + 1
      BY <2>2 DEF Imports!Create
    <3>2. CopyMet(c, sourceMap, ghost.failed) /\ c.status = "mapping"
      <4>1. "mapping" \in Imports!Statuses /\ "mapping" # "completed" /\ TRUE \in BOOLEAN
        BY DEF Imports!Statuses
      <4>2. CopyMet(c, sourceMap, ghost.failed)
        BY <1>4, <4>1, CopyMarked
      <4> QED BY <1>4, <4>2 DEF Imports!Row
    <3> HIDE DEF c
    <3>3. queued' \in Nat /\ queued' <= started' /\ started' \in 0..MaxRuns
      BY <1>4, <3>1
    <3> QED BY <3>1, <3>2, <3>3
  <2> QED BY <2>1, <2>2
<1>6. ImportTyped'
  BY <1>1, <1>5 DEF ImportInv, ImportTyped
<1>7. CopiesMet'
  BY <1>1, <1>5 DEF ImportInv, CopiesMet
<1> QED BY <1>3, <1>6, <1>7 DEF ImportInv

-----------------------------------------------------------------------------
\* Steps of a run.

\* Run r goes on as j, and the row and what it met are in order.
GoesOn(r, j) ==
  /\ j \in ImportRun /\ importRun' = [importRun EXCEPT ![r] = j] /\ RunMet(j, sourceMap', ghost'.failed, entities')
  /\ CopyMet(jobRow', sourceMap', ghost'.failed) /\ (jobRow'.status = "none" => jobRow.status = "none")
  /\ UNCHANGED <<cookie, admin, started, asks>> /\ queued' \in Nat /\ queued' <= started /\ faults' \in 0..ImportFaults
  /\ ghost' \in [failed : SUBSET ImportIds, disturbed : BOOLEAN]

LEMMA RunMoves ==
  ASSUME Imports!ImportConstants, ImportInv, NEW r \in Workers, NEW j, GoesOn(r, j), Carried,
         sourceMap' \in [ImportIds -> Made(entities') \cup {Nil}],
         IsFiniteSet(entities') /\ \A e \in entities' : e.name \in Imports!Names /\ e.n \in Nat
  PROVE  ImportTyped' /\ CopiesMet'
<1>1. importRun' \in [Workers -> ImportRun]
  BY DEF ImportInv, ImportTyped, GoesOn
<1>2. ImportTyped'
  <2>1. jobRow'.status = "none" => started' = 0 /\ \A a \in Admins : admin'[a] = Nil
    BY DEF ImportInv, ImportTyped, GoesOn
  <2>2. /\ cookie' \in BOOLEAN /\ admin' \in [Admins -> Imports!Row \cup {Nil}] /\ started' \in 0..MaxRuns /\ asks' \in 0..MaxAsks
        /\ queued' \in Nat /\ queued' <= started' /\ faults' \in 0..ImportFaults /\ ghost' \in [failed : SUBSET ImportIds, disturbed : BOOLEAN]
    BY DEF ImportInv, ImportTyped, GoesOn
  <2> QED BY <1>1, <2>1, <2>2 DEF ImportTyped
<1>3. CopiesMet'
  <2>1. \A a \in Admins : admin[a] # Nil => CopyMet(admin[a], sourceMap', ghost'.failed) /\ admin[a].status # "none"
    BY RunsCarry
  <2>2. \A q \in Workers : RunMet(importRun'[q], sourceMap', ghost'.failed, entities')
    <3>1. \A q \in Workers : RunMet(importRun[q], sourceMap', ghost'.failed, entities')
      BY RunsCarry
    <3>2. \A q \in Workers : importRun'[q] = IF q = r THEN j ELSE importRun[q]
      BY DEF GoesOn, ImportInv, ImportTyped
    <3> QED BY <3>1, <3>2 DEF GoesOn
  <2>3. CopyMet(jobRow', sourceMap', ghost'.failed) /\ admin' = admin
    BY DEF GoesOn
  <2> QED BY <2>1, <2>2, <2>3 DEF CopiesMet
<1> QED BY <1>2, <1>3

\* A run that creates nothing.
LEMMA QuietMove ==
  ASSUME Imports!ImportConstants, ImportInv, NEW r \in Workers, NEW j, GoesOn(r, j), UNCHANGED <<sourceMap, entities, ghost>>,
         importRun[r].at \notin {"off", "map"}
  PROVE  ImportInv'
<1>1. \A q \in Workers : importRun'[q] = IF q = r THEN j ELSE importRun[q]
  BY DEF GoesOn, ImportInv, ImportTyped
<1>2. Unmade
  BY <1>1 DEF Unmade
<1>3. Carried /\ OnParent' /\ CreatedSound'
  BY <1>2, UnmadeStands
<1>4. /\ sourceMap' \in [ImportIds -> Made(entities') \cup {Nil}]
      /\ IsFiniteSet(entities') /\ \A e \in entities' : e.name \in Imports!Names /\ e.n \in Nat
  BY DEF ImportInv, ImportTyped
<1>5. ImportTyped' /\ CopiesMet'
  BY <1>3, <1>4, RunMoves
<1> QED BY <1>3, <1>5 DEF ImportInv

\* What is known of a run that is on its way.
LEMMA RunFacts ==
  ASSUME Imports!ImportConstants, ImportInv, NEW r \in Workers
  PROVE  /\ importRun[r] \in ImportRun /\ RunMet(importRun[r], sourceMap, ghost.failed, entities)
         /\ CopyMet(jobRow, sourceMap, ghost.failed) /\ jobRow \in Imports!Row
         /\ importRun[r].at # "off" => /\ CopyMet(importRun[r].copy, sourceMap, ghost.failed) /\ importRun[r].copy \in Imports!Row
                                       /\ importRun[r].copy.status \notin {"none", "completed"}
         /\ queued \in Nat /\ queued <= started /\ faults \in 0..ImportFaults /\ ImportFaults \in Nat
         /\ ghost \in [failed : SUBSET ImportIds, disturbed : BOOLEAN]
         /\ importRun \in [Workers -> ImportRun]
<1>1. /\ importRun[r] \in ImportRun /\ RunMet(importRun[r], sourceMap, ghost.failed, entities)
      /\ CopyMet(jobRow, sourceMap, ghost.failed)
  BY DEF ImportInv, ImportTyped, CopiesMet
<1>2. /\ importRun[r].at # "off" => CopyMet(importRun[r].copy, sourceMap, ghost.failed) /\ importRun[r].copy.status \notin {"none", "completed"}
  BY <1>1 DEF RunMet
<1>3. /\ queued \in Nat /\ queued <= started /\ faults \in 0..ImportFaults /\ ghost \in [failed : SUBSET ImportIds, disturbed : BOOLEAN]
      /\ importRun \in [Workers -> ImportRun]
  BY DEF ImportInv, ImportTyped
<1> QED BY <1>1, <1>2, <1>3, SourceRows DEF CopyMet

LEMMA BeginStep == ASSUME Imports!ImportConstants, ImportInv, NEW r \in Workers, Imports!Begin(r) PROVE ImportInv'
<1> DEFINE c == [importRun[r].copy EXCEPT !.status = "importing"]
           j == [importRun[r] EXCEPT !.at = "types", !.copy = c, !.type = 1]
<1>1. /\ importRun[r].at = "begin" /\ jobRow' = c /\ importRun' = [importRun EXCEPT ![r] = j]
      /\ UNCHANGED <<cookie, sourceMap, entities, admin, queued, ghost, started, asks, faults>>
  BY DEF Imports!Begin
<1>2. CopyMet(c, sourceMap, ghost.failed) /\ c.status = "importing" /\ c \in Imports!Row
  <2>1. "importing" \in Imports!Statuses /\ "importing" # "completed" /\ TRUE \in BOOLEAN
    BY DEF Imports!Statuses
  <2>2. CopyMet(importRun[r].copy, sourceMap, ghost.failed) /\ importRun[r].copy \in Imports!Row
    BY <1>1, RunFacts
  <2>3. CopyMet(c, sourceMap, ghost.failed)
    BY <2>1, <2>2, CopyMarked
  <2> QED BY <2>2, <2>3 DEF CopyMet, Imports!Row
<1> HIDE DEF c
<1>3. j \in ImportRun /\ j.at = "types" /\ j.copy = c /\ j.type = 1
  BY <1>2, RunFacts DEF ImportRun
<1> HIDE DEF j
<1>4. RunMet(j, sourceMap, ghost.failed, entities)
  <2>1. \A t \in Imports!Types : ~(t < 1)
    BY SourceRows
  <2> QED BY <1>2, <1>3, <2>1 DEF RunMet, Going, Reading
<1>5. GoesOn(r, j)
  BY <1>1, <1>2, <1>3, <1>4, RunFacts DEF GoesOn
<1> QED BY <1>1, <1>5, QuietMove

\* A status that cannot be read is one of the faults.
LEMMA HeardFaults ==
  ASSUME Imports!ImportConstants, ImportInv, NEW stop \in Imports!Hears,
         faults' = IF stop = Imports!stopped THEN faults ELSE faults + 1
  PROVE  faults' \in 0..ImportFaults
<1> DEFINE h == stop = Imports!stopped
<1>1. h \/ faults < ImportFaults
  BY Zenon DEF Imports!Hears
<1>2. faults' = (IF h THEN faults ELSE faults + 1) /\ faults \in 0..ImportFaults /\ ImportFaults \in Nat
  BY SourceRows DEF ImportInv, ImportTyped
<1> HIDE DEF h
<1> QED BY <1>1, <1>2

LEMMA NextTypeStep == ASSUME Imports!ImportConstants, ImportInv, NEW r \in Workers, Imports!NextType(r) PROVE ImportInv'
<1>0. PICK stop \in Imports!Hears :
        /\ importRun' = [importRun EXCEPT ![r] =
             IF stop THEN Imports!Off
             ELSE IF importRun[r].type > Len(Source) THEN [importRun[r] EXCEPT !.at = "complete"]
             ELSE [importRun[r] EXCEPT !.at = "records", !.page = importRun[r].copy.cursor[importRun[r].type] + 1, !.pos = 1,
                                       !.done = importRun[r].copy.done[importRun[r].type]]]
        /\ faults' = IF stop = Imports!stopped THEN faults ELSE faults + 1
  BY DEF Imports!NextType
<1> DEFINE t == importRun[r].type
           j == IF stop THEN Imports!Off
                ELSE IF t > Len(Source) THEN [importRun[r] EXCEPT !.at = "complete"]
                ELSE [importRun[r] EXCEPT !.at = "records", !.page = importRun[r].copy.cursor[t] + 1, !.pos = 1, !.done = importRun[r].copy.done[t]]
<1>1. /\ importRun[r].at = "types" /\ importRun' = [importRun EXCEPT ![r] = j]
      /\ UNCHANGED <<cookie, jobRow, sourceMap, entities, admin, queued, ghost, started, asks>>
  BY <1>0 DEF Imports!NextType
<1>2. /\ importRun[r] \in ImportRun /\ t \in Nat /\ 1 <= t /\ CopyMet(importRun[r].copy, sourceMap, ghost.failed)
      /\ importRun[r].copy.status \notin {"none", "completed"} /\ \A u \in Imports!Types : u < t => TypeMet(u, sourceMap, ghost.failed)
  BY <1>1, RunFacts DEF RunMet, Going, ImportRun
<1>3. j \in ImportRun /\ RunMet(j, sourceMap, ghost.failed, entities)
  <2>1. CASE stop
    <3>1. Imports!Copy \in Imports!Row
      BY DEF Imports!Copy, Imports!Row, Imports!Statuses
    <3>2. Imports!Off \in ImportRun /\ Imports!Off.at = "off"
      BY <3>1 DEF Imports!Off, ImportRun
    <3> QED BY <2>1, <3>2 DEF RunMet, Going, Reading
  <2>2. CASE ~stop /\ t > Len(Source)
    <3> DEFINE i == [importRun[r] EXCEPT !.at = "complete"]
    <3>1. i \in ImportRun /\ i.at = "complete" /\ i.copy = importRun[r].copy
      BY <1>2 DEF ImportRun
    <3>2. \A u \in Imports!Types : u < t
      BY <1>2, <2>2, SourceRows
    <3>3. j = i
      BY <2>2
    <3> HIDE DEF i
    <3> QED BY <1>2, <3>1, <3>2, <3>3 DEF RunMet, Going, Reading
  <2>3. CASE ~stop /\ ~(t > Len(Source))
    <3> DEFINE p == importRun[r].copy.cursor[t] + 1 n == importRun[r].copy.done[t]
               i == [importRun[r] EXCEPT !.at = "records", !.page = p, !.pos = 1, !.done = n]
    <3>1. j = i
      BY <2>3
    <3>2. t \in Imports!Types
      BY <1>2, <2>3, SourceRows
    <3>3. p - 1 \in Nat /\ p \in Nat /\ n \in Nat /\ p - 1 < Len(Source[t]) /\ n <= Cardinality(MappedOf(t, sourceMap))
          /\ \A q \in DOMAIN Source[t] : q <= p - 1 => PageMet(t, q, sourceMap, ghost.failed)
      <4>1. importRun[r].copy.cursor[t] \in Nat /\ importRun[r].copy.done[t] \in Nat
        BY <1>2, <3>2 DEF CopyMet, Imports!Row
      <4>2. p - 1 = importRun[r].copy.cursor[t] /\ p \in Nat
        BY <4>1
      <4> QED BY <1>2, <3>2, <4>1, <4>2 DEF CopyMet
    <3> HIDE DEF p, n
    <3>4. i \in ImportRun /\ i.at = "records" /\ i.copy = importRun[r].copy /\ i.type = t /\ i.page = p /\ i.pos = 1 /\ i.done = n
      BY <1>2, <3>3 DEF ImportRun
    <3> HIDE DEF i, t
    <3>5. p \in DOMAIN Source[t]
      BY <3>2, <3>3, SourceRows
    <3>6. \A q \in DOMAIN Source[t] : q < p => q <= p - 1
      BY <3>2, <3>3, SourceRows
    <3>7. 1 <= Len(Source[t][p]) + 1 /\ \A k \in DOMAIN Source[t][p] : ~(k < 1)
      BY <3>2, <3>5, SourceRows
    <3>8. Behindhand(i, sourceMap, ghost.failed)
      BY <3>2, <3>3, <3>4, <3>5, <3>6, <3>7 DEF Behindhand
    <3> QED BY <1>2, <3>1, <3>4, <3>8 DEF RunMet, Going, Reading
  <2> QED BY <2>1, <2>2, <2>3
<1> HIDE DEF j
<1>4. faults' \in 0..ImportFaults
  BY <1>0, HeardFaults
<1>5. GoesOn(r, j)
  BY <1>1, <1>3, <1>4, RunFacts DEF GoesOn
<1> QED BY <1>1, <1>5, QuietMove

\* The copy after a batch: its page is met, and so is all its cursors passed.
LEMMA BatchMet ==
  ASSUME Imports!ImportConstants, ImportInv, NEW r \in Workers, importRun[r].at = "records",
         importRun[r].pos > Len(Imports!Page(r))
  PROVE  /\ CopyMet(Imports!Progressed(r), sourceMap, ghost.failed) /\ Imports!Progressed(r) \in Imports!Row
         /\ Imports!Progressed(r).status = importRun[r].copy.status
         /\ PageMet(importRun[r].type, importRun[r].page, sourceMap, ghost.failed)
<1> DEFINE t == importRun[r].type
           p == importRun[r].page
           n == importRun[r].done
           cur == importRun[r].copy.cursor
           x == Imports!CursorAfter(r)
           c == [importRun[r].copy EXCEPT !.done = [importRun[r].copy.done EXCEPT ![t] = n], !.cursor = [importRun[r].copy.cursor EXCEPT ![t] = x]]
<1>1. importRun[r].pos > Len(Source[t][p])
  BY DEF Imports!Page
<1>2. c = Imports!Progressed(r)
  BY DEF Imports!Progressed
<1>3. /\ importRun[r] \in ImportRun /\ importRun[r].copy \in Imports!Row
      /\ CopyMet(importRun[r].copy, sourceMap, ghost.failed)
      /\ importRun[r].copy.status \notin {"none", "completed"} /\ t \in Nat /\ p \in Nat /\ n \in Nat
      /\ 1 <= t /\ \A u \in Imports!Types : u < t => TypeMet(u, sourceMap, ghost.failed)
      /\ Behindhand(importRun[r], sourceMap, ghost.failed)
  BY RunFacts DEF RunMet, Going, Reading, ImportRun
<1>4. /\ t \in Imports!Types /\ p \in DOMAIN Source[t] /\ n <= Cardinality(MappedOf(t, sourceMap))
      /\ \A q \in DOMAIN Source[t] : q < p => PageMet(t, q, sourceMap, ghost.failed)
      /\ \A k \in DOMAIN Source[t][p] : k < importRun[r].pos => RecordMet(t, p, k, sourceMap, ghost.failed)
  BY <1>3 DEF Behindhand
<1>5. PageMet(t, p, sourceMap, ghost.failed)
  <2>1. Len(Source[t][p]) \in Nat /\ DOMAIN Source[t][p] = 1..Len(Source[t][p]) /\ importRun[r].pos \in Nat
    BY <1>3, <1>4, SourceRows DEF ImportRun
  <2>2. \A k \in DOMAIN Source[t][p] : k < importRun[r].pos
    BY <1>1, <2>1
  <2> QED BY <1>4, <2>2 DEF PageMet
<1>6. x \in Nat /\ x < Len(Source[t]) /\ \A q \in DOMAIN Source[t] : q <= x => PageMet(t, q, sourceMap, ghost.failed)
  <2>1. CASE Imports!MorePages(r)
    <3>1. x = p /\ p < Len(Source[t])
      BY <2>1 DEF Imports!CursorAfter, Imports!MorePages
    <3>2. DOMAIN Source[t] = 1..Len(Source[t]) /\ Len(Source[t]) \in Nat
      BY <1>4, SourceRows
    <3> HIDE DEF t, p, x
    <3>3. \A q \in DOMAIN Source[t] : q <= p => q < p \/ q = p
      BY <3>2, <1>3
    <3> QED BY <1>3, <1>4, <1>5, <3>1, <3>3
  <2>2. CASE ~Imports!MorePages(r)
    <3>1. x = importRun[r].copy.cursor[t]
      BY <2>2 DEF Imports!CursorAfter
    <3>2. importRun[r].copy.cursor[t] \in Nat
      BY <1>3, <1>4 DEF Imports!Row
    <3> QED BY <1>3, <1>4, <3>1, <3>2 DEF CopyMet
  <2> QED BY <2>1, <2>2
<1> HIDE DEF t, p, n, x
<1>7. /\ c \in Imports!Row /\ c.status = importRun[r].copy.status
      /\ \A u \in Imports!Types : /\ c.done[u] = (IF u = t THEN n ELSE importRun[r].copy.done[u])
                                  /\ c.cursor[u] = (IF u = t THEN x ELSE importRun[r].copy.cursor[u])
  <2>1. importRun[r].copy.done \in [Imports!Types -> Nat] /\ importRun[r].copy.cursor \in [Imports!Types -> Nat]
    BY <1>3 DEF Imports!Row
  <2> DEFINE a == [importRun[r].copy.done EXCEPT ![t] = n] b == [importRun[r].copy.cursor EXCEPT ![t] = x]
  <2>2. /\ a \in [Imports!Types -> Nat] /\ b \in [Imports!Types -> Nat]
        /\ \A u \in Imports!Types : /\ a[u] = (IF u = t THEN n ELSE importRun[r].copy.done[u])
                                    /\ b[u] = (IF u = t THEN x ELSE importRun[r].copy.cursor[u])
    BY <1>3, <1>4, <1>6, <2>1
  <2> HIDE DEF a, b
  <2>3. [importRun[r].copy EXCEPT !.done = a, !.cursor = b] \in Imports!Row
    BY <1>3, <2>2 DEF Imports!Row
  <2>4. /\ [importRun[r].copy EXCEPT !.done = a, !.cursor = b].done = a /\ [importRun[r].copy EXCEPT !.done = a, !.cursor = b].cursor = b
        /\ [importRun[r].copy EXCEPT !.done = a, !.cursor = b].status = importRun[r].copy.status
    BY <1>3 DEF Imports!Row
  <2> QED BY <2>2, <2>3, <2>4 DEF a, b
<1> HIDE DEF c
<1>8. \A u \in Imports!Types : /\ c.cursor[u] < Len(Source[u]) /\ c.done[u] <= Cardinality(MappedOf(u, sourceMap))
                               /\ \A q \in DOMAIN Source[u] : q <= c.cursor[u] => PageMet(u, q, sourceMap, ghost.failed)
  BY <1>3, <1>4, <1>6, <1>7 DEF CopyMet
<1>9. CopyMet(c, sourceMap, ghost.failed)
  BY <1>3, <1>7, <1>8 DEF CopyMet
<1> QED BY <1>2, <1>5, <1>7, <1>9 DEF t, p

LEMMA SaveStep == ASSUME Imports!ImportConstants, ImportInv, NEW r \in Workers, Imports!saveProgress(r) PROVE ImportInv'
<1> DEFINE c == Imports!Progressed(r)
           j == [importRun[r] EXCEPT !.at = "check", !.copy = c]
           d == [jobRow EXCEPT !.done = c.done, !.cursor = c.cursor]
<1>1. /\ importRun[r].at = "records" /\ importRun[r].pos > Len(Imports!Page(r))
      /\ jobRow' = d /\ importRun' = [importRun EXCEPT ![r] = j]
      /\ UNCHANGED <<cookie, sourceMap, entities, admin, queued, ghost, started, asks, faults>>
  BY DEF Imports!saveProgress
<1>2. /\ CopyMet(c, sourceMap, ghost.failed) /\ c \in Imports!Row /\ c.status = importRun[r].copy.status
      /\ PageMet(importRun[r].type, importRun[r].page, sourceMap, ghost.failed)
  BY <1>1, BatchMet
<1>3. /\ importRun[r] \in ImportRun /\ jobRow \in Imports!Row /\ CopyMet(jobRow, sourceMap, ghost.failed)
      /\ RunMet(importRun[r], sourceMap, ghost.failed, entities) /\ Reading(importRun[r]) /\ Going(importRun[r])
  BY <1>1, RunFacts DEF Reading, Going
<1> HIDE DEF c
<1>4. CopyMet(d, sourceMap, ghost.failed) /\ d.status = jobRow.status
  <2>1. d \in Imports!Row /\ d.status = jobRow.status /\ d.sealed = jobRow.sealed /\ d.done = c.done /\ d.cursor = c.cursor
    BY <1>2, <1>3 DEF Imports!Row
  <2> HIDE DEF d
  <2> QED BY <1>2, <1>3, <2>1 DEF CopyMet
<1> HIDE DEF d
<1>5. /\ j \in ImportRun /\ j.at = "check" /\ j.copy = c /\ j.type = importRun[r].type /\ j.page = importRun[r].page
      /\ j.pos = importRun[r].pos /\ j.done = importRun[r].done
  BY <1>2, <1>3 DEF ImportRun
<1> HIDE DEF j
<1>6. RunMet(j, sourceMap, ghost.failed, entities)
  BY <1>1, <1>2, <1>3, <1>5 DEF RunMet, Behindhand, Going, Reading
<1>7. GoesOn(r, j)
  BY <1>1, <1>4, <1>5, <1>6, RunFacts DEF GoesOn
<1> QED BY <1>1, <1>7, QuietMove

LEMMA CheckStep == ASSUME Imports!ImportConstants, ImportInv, NEW r \in Workers, Imports!Check(r) PROVE ImportInv'
<1>0. PICK stop \in Imports!Hears :
        /\ importRun' = [importRun EXCEPT ![r] =
             IF stop THEN Imports!Off
             ELSE IF Imports!MorePages(r) THEN [importRun[r] EXCEPT !.at = "records", !.page = importRun[r].page + 1, !.pos = 1]
             ELSE [importRun[r] EXCEPT !.at = "types", !.type = importRun[r].type + 1]]
        /\ faults' = IF stop = Imports!stopped THEN faults ELSE faults + 1
  BY DEF Imports!Check
<1> DEFINE t == importRun[r].type
           p == importRun[r].page
           j == IF stop THEN Imports!Off
                ELSE IF Imports!MorePages(r) THEN [importRun[r] EXCEPT !.at = "records", !.page = importRun[r].page + 1, !.pos = 1]
                ELSE [importRun[r] EXCEPT !.at = "types", !.type = importRun[r].type + 1]
<1>1. /\ importRun[r].at = "check" /\ importRun' = [importRun EXCEPT ![r] = j]
      /\ UNCHANGED <<cookie, jobRow, sourceMap, entities, admin, queued, ghost, started, asks>>
  BY <1>0 DEF Imports!Check
<1>2. /\ importRun[r] \in ImportRun /\ t \in Nat /\ p \in Nat /\ 1 <= t /\ CopyMet(importRun[r].copy, sourceMap, ghost.failed)
      /\ importRun[r].copy.status \notin {"none", "completed"} /\ \A u \in Imports!Types : u < t => TypeMet(u, sourceMap, ghost.failed)
      /\ Behindhand(importRun[r], sourceMap, ghost.failed) /\ PageMet(t, p, sourceMap, ghost.failed)
  BY <1>1, RunFacts DEF RunMet, Going, Reading, ImportRun
<1>3. /\ t \in Imports!Types /\ p \in DOMAIN Source[t] /\ importRun[r].done <= Cardinality(MappedOf(t, sourceMap))
      /\ \A q \in DOMAIN Source[t] : q < p => PageMet(t, q, sourceMap, ghost.failed)
  BY <1>2 DEF Behindhand
<1>4. Len(Source[t]) \in Nat /\ DOMAIN Source[t] = 1..Len(Source[t]) /\ Imports!Types = 1..Len(Source) /\ Len(Source) \in Nat
  BY <1>3, SourceRows
<1>5. \A q \in DOMAIN Source[t] : q < p + 1 => PageMet(t, q, sourceMap, ghost.failed)
  <2> HIDE DEF t, p
  <2>1. \A q \in DOMAIN Source[t] : q < p + 1 => q < p \/ q = p
    BY <1>2, <1>4
  <2> QED BY <1>2, <1>3, <2>1
<1>6. j \in ImportRun /\ RunMet(j, sourceMap, ghost.failed, entities)
  <2>1. CASE stop
    <3>1. Imports!Copy \in Imports!Row
      BY DEF Imports!Copy, Imports!Row, Imports!Statuses
    <3>2. Imports!Off \in ImportRun /\ Imports!Off.at = "off"
      BY <3>1 DEF Imports!Off, ImportRun
    <3> QED BY <2>1, <3>2 DEF RunMet, Going, Reading
  <2>2. CASE ~stop /\ Imports!MorePages(r)
    <3> DEFINE i == [importRun[r] EXCEPT !.at = "records", !.page = importRun[r].page + 1, !.pos = 1]
    <3>1. j = i
      BY <2>2
    <3>2. p < Len(Source[t]) /\ p + 1 \in Nat
      BY <1>2, <2>2 DEF Imports!MorePages
    <3>3. /\ i \in ImportRun /\ i.at = "records" /\ i.copy = importRun[r].copy /\ i.type = t /\ i.page = p + 1 /\ i.pos = 1
          /\ i.done = importRun[r].done
      BY <1>2, <3>2 DEF ImportRun
    <3> HIDE DEF i, t, p
    <3>4. p + 1 \in DOMAIN Source[t]
      BY <1>2, <1>4, <3>2
    <3>5. 1 <= Len(Source[t][p + 1]) + 1 /\ \A k \in DOMAIN Source[t][p + 1] : ~(k < 1)
      BY <1>3, <3>4, SourceRows
    <3>6. Behindhand(i, sourceMap, ghost.failed)
      BY <1>3, <1>5, <3>3, <3>4, <3>5 DEF Behindhand
    <3> QED BY <1>2, <3>1, <3>3, <3>6 DEF RunMet, Going, Reading
  <2>3. CASE ~stop /\ ~Imports!MorePages(r)
    <3> DEFINE i == [importRun[r] EXCEPT !.at = "types", !.type = importRun[r].type + 1]
    <3>1. j = i
      BY <2>3
    <3>2. ~(p < Len(Source[t]))
      BY <2>3 DEF Imports!MorePages
    <3>3. i \in ImportRun /\ i.at = "types" /\ i.copy = importRun[r].copy /\ i.type = t + 1
      <4> DEFINE u == importRun[r].type + 1 h == [importRun[r] EXCEPT !.at = "types", !.type = u]
      <4>1. u \in Nat
        BY <1>2
      <4> HIDE DEF u
      <4>2. h \in ImportRun /\ h.at = "types" /\ h.copy = importRun[r].copy /\ h.type = u
        BY <1>2, <4>1 DEF ImportRun
      <4> QED BY <4>2 DEF u
    <3> HIDE DEF i, t, p
    <3>4. TypeMet(t, sourceMap, ghost.failed)
      <4>1. \A q \in DOMAIN Source[t] : q < p + 1
        BY <1>2, <1>3, <1>4, <3>2
      <4> QED BY <1>5, <4>1 DEF TypeMet
    <3>5. \A u \in Imports!Types : u < t + 1 => u < t \/ u = t
      BY <1>2, <1>4
    <3>6. 1 <= t + 1
      BY <1>2
    <3> QED BY <1>2, <3>1, <3>3, <3>4, <3>5, <3>6 DEF RunMet, Going, Reading
  <2> QED BY <2>1, <2>2, <2>3
<1> HIDE DEF j
<1>7. faults' \in 0..ImportFaults
  BY <1>0, HeardFaults
<1>8. GoesOn(r, j)
  BY <1>1, <1>6, <1>7, RunFacts DEF GoesOn
<1> QED BY <1>1, <1>8, QuietMove

LEMMA OffMet == ASSUME NEW m, NEW F, NEW E PROVE Imports!Off \in ImportRun /\ Imports!Off.at = "off" /\ RunMet(Imports!Off, m, F, E)
<1>1. Imports!Copy \in Imports!Row
  BY DEF Imports!Copy, Imports!Row, Imports!Statuses
<1>2. Imports!Off \in ImportRun /\ Imports!Off.at = "off"
  BY <1>1 DEF Imports!Off, ImportRun
<1> QED BY <1>2 DEF RunMet, Going, Reading

LEMMA CompleteStep == ASSUME Imports!ImportConstants, ImportInv, NEW r \in Workers, Imports!Complete(r) PROVE ImportInv'
<1> DEFINE c == [importRun[r].copy EXCEPT !.status = "completed", !.sealed = FALSE] j == Imports!Off
<1>1. /\ importRun[r].at = "complete" /\ jobRow' = c /\ importRun' = [importRun EXCEPT ![r] = j]
      /\ UNCHANGED <<cookie, sourceMap, entities, admin, queued, ghost, started, asks, faults>>
  BY DEF Imports!Complete
<1>2. /\ CopyMet(importRun[r].copy, sourceMap, ghost.failed) /\ importRun[r].copy \in Imports!Row
      /\ \A t \in Imports!Types : TypeMet(t, sourceMap, ghost.failed)
  BY <1>1, RunFacts DEF RunMet
<1>3. CopyMet(c, sourceMap, ghost.failed) /\ c.status = "completed"
  <2>1. c \in Imports!Row /\ c.status = "completed" /\ ~c.sealed /\ c.done = importRun[r].copy.done /\ c.cursor = importRun[r].copy.cursor
    BY <1>2 DEF Imports!Row, Imports!Statuses
  <2> HIDE DEF c
  <2> QED BY <1>2, <2>1 DEF CopyMet
<1> HIDE DEF c
<1>4. j \in ImportRun /\ RunMet(j, sourceMap, ghost.failed, entities)
  BY OffMet
<1> HIDE DEF j
<1>5. GoesOn(r, j)
  BY <1>1, <1>3, <1>4, RunFacts DEF GoesOn
<1> QED BY <1>1, <1>5, QuietMove

LEMMA FailStep == ASSUME Imports!ImportConstants, ImportInv, NEW r \in Workers, Imports!Fail(r) PROVE ImportInv'
<1> DEFINE j == Imports!Off
<1>1. /\ importRun' = [importRun EXCEPT ![r] = j] /\ importRun[r].at \notin {"off", "map"}
      /\ UNCHANGED <<cookie, sourceMap, entities, admin, queued, ghost, started, asks>> /\ faults < ImportFaults /\ faults' = faults + 1
  BY DEF Imports!Fail
<1>2. "failed" \in Imports!Statuses /\ "failed" # "completed" /\ FALSE \in BOOLEAN
  BY DEF Imports!Statuses
<1>3. CopyMet(importRun[r].copy, sourceMap, ghost.failed) /\ importRun[r].copy \in Imports!Row
  BY <1>1, RunFacts
<1>4. CopyMet(jobRow', sourceMap, ghost.failed) /\ jobRow'.status = "failed"
  <2>1. CASE jobRow' = Imports!Failed(importRun[r].copy)
    <3>1. jobRow' = [importRun[r].copy EXCEPT !.status = "failed"]
      BY <2>1 DEF Imports!Failed
    <3> QED BY <1>2, <1>3, <3>1, CopyMarked DEF Imports!Row
  <2>2. CASE /\ importRun[r].at = "records" /\ importRun[r].pos > Len(Imports!Page(r))
             /\ jobRow' = Imports!Failed(Imports!Progressed(r))
    <3> DEFINE c == Imports!Progressed(r)
    <3>1. CopyMet(c, sourceMap, ghost.failed) /\ c \in Imports!Row
      BY <2>2, BatchMet
    <3> HIDE DEF c
    <3>2. jobRow' = [c EXCEPT !.status = "failed"]
      BY <2>2 DEF Imports!Failed, c
    <3> QED BY <1>2, <3>1, <3>2, CopyMarked DEF Imports!Row
  <2>3. CASE jobRow' = [Imports!Failed(importRun[r].copy) EXCEPT !.sealed = FALSE]
    <3>1. jobRow' = [importRun[r].copy EXCEPT !.status = "failed", !.sealed = FALSE]
      BY <1>3, <2>3 DEF Imports!Failed, Imports!Row
    <3> QED BY <1>2, <1>3, <3>1, CopyMarked DEF Imports!Row
  <2> QED BY <2>1, <2>2, <2>3 DEF Imports!Fail
<1>5. j \in ImportRun /\ RunMet(j, sourceMap, ghost.failed, entities)
  BY OffMet
<1> HIDE DEF j
<1>6. faults' \in 0..ImportFaults
  BY <1>1, RunFacts
<1>7. GoesOn(r, j)
  BY <1>1, <1>4, <1>5, <1>6, RunFacts DEF GoesOn
<1> QED BY <1>1, <1>7, QuietMove

LEMMA RunStep == ASSUME Imports!ImportConstants, ImportInv, NEW r \in Workers, Imports!Run(r) PROVE ImportInv'
<1> DEFINE i == [Imports!Off EXCEPT !.at = "begin", !.copy = jobRow]
           j == IF jobRow.status = "completed" THEN importRun[r] ELSE i
<1>1. /\ queued > 0 /\ importRun[r] = Imports!Off /\ queued' = queued - 1
      /\ importRun' = (IF jobRow.status = "completed" THEN importRun ELSE [importRun EXCEPT ![r] = i])
      /\ ghost' = [ghost EXCEPT !.disturbed = ghost.disturbed \/ Imports!Active # {}]
      /\ UNCHANGED <<cookie, jobRow, sourceMap, entities, admin, started, asks, faults>>
  BY DEF Imports!Run
<1>2. /\ importRun[r] \in ImportRun /\ RunMet(importRun[r], sourceMap, ghost.failed, entities)
      /\ CopyMet(jobRow, sourceMap, ghost.failed) /\ jobRow \in Imports!Row
      /\ queued \in Nat /\ queued <= started /\ started \in Nat /\ ghost \in [failed : SUBSET ImportIds, disturbed : BOOLEAN]
      /\ importRun \in [Workers -> ImportRun] /\ Imports!Off \in ImportRun /\ importRun[r].at = "off"
  <2>1. started \in Nat
    BY SourceRows DEF ImportInv, ImportTyped
  <2> QED BY <1>1, <2>1, RunFacts, OffMet
<1>3. jobRow.status # "none"
  BY <1>1, <1>2 DEF ImportInv, ImportTyped
<1>4. i \in ImportRun /\ i.at = "begin" /\ i.copy = jobRow
  BY <1>2 DEF ImportRun
<1> HIDE DEF i
<1>5. jobRow.status # "completed" => RunMet(i, sourceMap, ghost.failed, entities)
  BY <1>2, <1>3, <1>4 DEF RunMet, Going, Reading
<1>6. /\ ghost'.failed = ghost.failed /\ ghost' \in [failed : SUBSET ImportIds, disturbed : BOOLEAN]
      /\ ~ghost'.disturbed => ~ghost.disturbed /\ Imports!Active = {}
  BY <1>1, <1>2
<1>7. /\ j \in ImportRun /\ RunMet(j, sourceMap, ghost.failed, entities) /\ importRun' = [importRun EXCEPT ![r] = j]
      /\ \A q \in Workers : importRun'[q] = IF q = r THEN j ELSE importRun[q]
  BY <1>1, <1>2, <1>4, <1>5
<1> HIDE DEF j
<1>8. queued' \in Nat /\ queued' <= started
  BY <1>1, <1>2
<1>9. faults' \in 0..ImportFaults
  BY <1>1 DEF ImportInv, ImportTyped
<1>10. GoesOn(r, j)
  BY <1>1, <1>2, <1>6, <1>7, <1>8, <1>9 DEF GoesOn
<1>11. Carried
  BY <1>1, <1>6 DEF Carried, Grows
<1>12. ImportTyped' /\ CopiesMet'
  <2>1. /\ sourceMap' \in [ImportIds -> Made(entities') \cup {Nil}]
        /\ IsFiniteSet(entities') /\ \A e \in entities' : e.name \in Imports!Names /\ e.n \in Nat
    BY <1>1 DEF ImportInv, ImportTyped
  <2> QED BY <1>10, <1>11, <2>1, RunMoves
<1>13. OnParent'
  BY <1>1 DEF ImportInv, OnParent
<1>14. CreatedSound'
  <2> SUFFICES ASSUME ~ghost'.disturbed
               PROVE  /\ \A e \in entities : e.n = 1
                      /\ \A q, w \in Workers : importRun'[q].at # "off" /\ importRun'[w].at # "off" => q = w
                      /\ \A e \in entities, c \in Imports!Records :
                           c.kind = "new" /\ e.name = c.name =>
                             c.id \in ImportIds /\ (sourceMap[c.id] # Nil \/ \E q \in Workers : importRun'[q].at = "map" /\ At(importRun'[q]).id = c.id)
    BY <1>1 DEF CreatedSound
  <2>1. \A q \in Workers : importRun[q].at = "off"
    BY <1>6 DEF Imports!Active
  <2>2. /\ \A e \in entities : e.n = 1
        /\ \A e \in entities, c \in Imports!Records : c.kind = "new" /\ e.name = c.name => c.id \in ImportIds /\ sourceMap[c.id] # Nil
    BY <1>6, <2>1 DEF ImportInv, CreatedSound
  <2> QED BY <1>7, <2>1, <2>2
<1> QED BY <1>12, <1>13, <1>14 DEF ImportInv

LEMMA CrashStep == ASSUME Imports!ImportConstants, ImportInv, Imports!Crash PROVE ImportInv'
<1>1. /\ faults < ImportFaults /\ importRun' = [r \in Workers |-> Imports!Off] /\ queued' = 0 /\ admin' = [a \in Admins |-> Nil]
      /\ ghost' = [ghost EXCEPT !.disturbed = ghost.disturbed \/ \E r \in Workers : importRun[r].at = "map"] /\ faults' = faults + 1
      /\ UNCHANGED <<cookie, jobRow, sourceMap, entities, started, asks>>
  BY DEF Imports!Crash
<1>2. /\ ghost'.failed = ghost.failed /\ ghost' \in [failed : SUBSET ImportIds, disturbed : BOOLEAN]
      /\ ~ghost'.disturbed => ~ghost.disturbed /\ \A r \in Workers : importRun[r].at # "map"
  BY <1>1 DEF ImportInv, ImportTyped
<1>3. importRun' \in [Workers -> ImportRun] /\ \A r \in Workers : importRun'[r] = Imports!Off /\ importRun'[r].at = "off"
  BY <1>1, OffMet
<1>4. ImportTyped'
  <2>1. faults' \in 0..ImportFaults
    BY <1>1, SourceRows DEF ImportInv, ImportTyped
  <2>2. queued' \in Nat /\ queued' <= started' /\ started' \in 0..MaxRuns
    BY <1>1, SourceRows DEF ImportInv, ImportTyped
  <2>3. /\ cookie' \in BOOLEAN /\ sourceMap' \in [ImportIds -> Made(entities') \cup {Nil}] /\ asks' \in 0..MaxAsks
        /\ IsFiniteSet(entities') /\ \A e \in entities' : e.name \in Imports!Names /\ e.n \in Nat
    BY <1>1 DEF ImportInv, ImportTyped
  <2>4. admin' \in [Admins -> Imports!Row \cup {Nil}]
    BY <1>1
  <2>5. jobRow'.status = "none" => started' = 0 /\ \A a \in Admins : admin'[a] = Nil
    BY <1>1 DEF ImportInv, ImportTyped
  <2> QED BY <1>2, <1>3, <2>1, <2>2, <2>3, <2>4, <2>5 DEF ImportTyped
<1>5. CopiesMet'
  <2>1. CopyMet(jobRow', sourceMap', ghost'.failed)
    BY <1>1, <1>2 DEF ImportInv, CopiesMet
  <2>2. \A r \in Workers : RunMet(importRun'[r], sourceMap', ghost'.failed, entities')
    BY <1>3, OffMet
  <2>3. \A a \in Admins : admin'[a] = Nil
    BY <1>1
  <2> QED BY <2>1, <2>2, <2>3 DEF CopiesMet
<1>6. OnParent'
  BY <1>1 DEF ImportInv, OnParent
<1>7. CreatedSound'
  BY <1>1, <1>2, <1>3 DEF ImportInv, CreatedSound
<1> QED BY <1>4, <1>5, <1>6, <1>7 DEF ImportInv

\* The record a run is at.
LEMMA AtRecord ==
  ASSUME Imports!ImportConstants, ImportInv, NEW r \in Workers, Reading(importRun[r]),
         importRun[r].pos \in DOMAIN Source[importRun[r].type][importRun[r].page]
  PROVE  /\ importRun[r].type \in Imports!Types /\ importRun[r].page \in DOMAIN Source[importRun[r].type]
         /\ Imports!Current(r) = At(importRun[r]) /\ At(importRun[r]) \in Imports!Records
         /\ At(importRun[r]).id \in ImportIds \/ At(importRun[r]).id = Nil
<1>1. importRun[r].type \in Imports!Types /\ importRun[r].page \in DOMAIN Source[importRun[r].type]
  BY RunFacts DEF RunMet, Behindhand
<1>2. Imports!Current(r) = At(importRun[r])
  BY DEF Imports!Current, Imports!Page, At
<1> QED BY <1>1, <1>2, SourceRows DEF At

\* A run past the record it was at, which was met: to the next of its page.
LEMMA PastRecord ==
  ASSUME Imports!ImportConstants, NEW j \in ImportRun, NEW m, NEW F, NEW E, NEW n \in Nat, NEW i,
         RunMet(j, m, F, E), Reading(j), j.pos \in DOMAIN Source[j.type][j.page],
         RecordMet(j.type, j.page, j.pos, m, F), n <= Cardinality(MappedOf(j.type, m)),
         i \in ImportRun /\ i.at = "records" /\ i.copy = j.copy /\ i.type = j.type /\ i.page = j.page /\ i.pos = j.pos + 1 /\ i.done = n
  PROVE  RunMet(i, m, F, E)
<1>1. Behindhand(j, m, F)
  BY DEF RunMet
<1> DEFINE t == j.type p == j.page
<1>2. /\ t \in Imports!Types /\ p \in DOMAIN Source[t] /\ \A q \in DOMAIN Source[t] : q < p => PageMet(t, q, m, F)
      /\ 1 <= j.pos /\ \A k \in DOMAIN Source[t][p] : k < j.pos => RecordMet(t, p, k, m, F)
  BY <1>1 DEF Behindhand
<1>3. RecordMet(t, p, j.pos, m, F) /\ j.pos \in DOMAIN Source[t][p] /\ j.pos \in Nat /\ i.type = t /\ i.page = p
  BY DEF ImportRun
<1>4. j.at # "off" /\ Going(j)
  BY DEF Reading, Going
<1> HIDE DEF t, p
<1>5. Len(Source[t][p]) \in Nat /\ DOMAIN Source[t][p] = 1..Len(Source[t][p])
  BY <1>2, SourceRows
<1>6. \A k \in DOMAIN Source[t][p] : k < j.pos + 1 => k < j.pos \/ k = j.pos
  BY <1>3, <1>5
<1>7. 1 <= j.pos + 1 /\ j.pos + 1 <= Len(Source[t][p]) + 1
  BY <1>3, <1>5
<1>8. \A k \in DOMAIN Source[t][p] : k < i.pos => RecordMet(t, p, k, m, F)
  BY <1>2, <1>3, <1>6
<1>9. n <= Cardinality(MappedOf(t, m))
  BY DEF t
<1>10. Behindhand(i, m, F)
  BY <1>2, <1>3, <1>7, <1>8, <1>9 DEF Behindhand
<1> QED BY <1>4, <1>10 DEF RunMet, Going, Reading

LEMMA InsertStep == ASSUME Imports!ImportConstants, ImportInv, NEW r \in Workers, Imports!Insert(r) PROVE ImportInv'
<1> DEFINE id == At(importRun[r]).id
           free == sourceMap[id] = Nil
           t == importRun[r].type
           n == IF free THEN importRun[r].done + 1 ELSE importRun[r].done
           j == [importRun[r] EXCEPT !.at = "records", !.made = Nil, !.pos = importRun[r].pos + 1, !.done = n]
<1>1. importRun[r].at = "map" /\ Reading(importRun[r]) /\ importRun[r].pos \in DOMAIN Source[importRun[r].type][importRun[r].page]
      /\ id # Nil /\ importRun[r].made # Nil /\ importRun[r].made \in Made(entities)
  BY RunFacts DEF Imports!Insert, RunMet, Reading, At
<1>2. /\ t \in Imports!Types /\ importRun[r].page \in DOMAIN Source[t] /\ Imports!Current(r) = At(importRun[r])
      /\ At(importRun[r]) \in Imports!Records /\ id \in ImportIds
  BY <1>1, AtRecord
<1>3. /\ sourceMap' = (IF free THEN [sourceMap EXCEPT ![id] = importRun[r].made] ELSE sourceMap)
      /\ ghost' = (IF free THEN ghost ELSE [ghost EXCEPT !.failed = ghost.failed \cup {id}])
      /\ importRun' = [importRun EXCEPT ![r] = j]
      /\ UNCHANGED <<cookie, jobRow, entities, admin, queued, started, asks, faults>>
  BY <1>2 DEF Imports!Insert
<1>4. /\ importRun[r] \in ImportRun /\ RunMet(importRun[r], sourceMap, ghost.failed, entities)
      /\ ghost \in [failed : SUBSET ImportIds, disturbed : BOOLEAN] /\ importRun \in [Workers -> ImportRun]
      /\ sourceMap \in [ImportIds -> Made(entities) \cup {Nil}] /\ importRun[r].done \in Nat /\ importRun[r].pos \in Nat
  BY RunFacts DEF ImportInv, ImportTyped, ImportRun
<1>5. /\ sourceMap' \in [ImportIds -> Made(entities) \cup {Nil}] /\ ghost' \in [failed : SUBSET ImportIds, disturbed : BOOLEAN]
      /\ ghost'.disturbed = ghost.disturbed /\ ghost.failed \subseteq ghost'.failed
      /\ \A x \in ImportIds : sourceMap[x] # Nil => sourceMap'[x] = sourceMap[x]
      /\ sourceMap'[id] # Nil
  BY <1>1, <1>2, <1>3, <1>4
<1>6. Carried
  BY <1>3, <1>5 DEF Carried, Grows
<1>7. n \in Nat /\ n <= Cardinality(MappedOf(t, sourceMap'))
  <2> DEFINE A == MappedOf(t, sourceMap) B == MappedOf(t, sourceMap')
  <2>1. importRun[r].done <= Cardinality(A) /\ IsFiniteSet(A) /\ Cardinality(A) \in Nat
    BY <1>1, <1>4, MappedFinite DEF RunMet, Behindhand
  <2>2. CASE free
    <3>1. B = A \cup {id} /\ id \notin A
      <4>1. \A x \in ImportIds : sourceMap'[x] = IF x = id THEN importRun[r].made ELSE sourceMap[x]
        BY <1>2, <1>3, <1>4, <2>2
      <4>2. \E p \in DOMAIN Source[t] : \E k \in DOMAIN Source[t][p] : Source[t][p][k].id = id
        BY <1>1, <1>2 DEF At
      <4> HIDE DEF id, t
      <4>3. importRun[r].made # Nil /\ sourceMap[id] = Nil /\ id \in ImportIds
        BY <1>1, <1>2, <2>2
      <4> QED BY <4>1, <4>2, <4>3 DEF MappedOf
    <3> HIDE DEF A, B
    <3>2. Cardinality(B) = Cardinality(A) + 1
      BY <2>1, <3>1, FS_AddElement
    <3> QED BY <1>4, <2>1, <2>2, <3>2 DEF B
  <2>3. CASE ~free
    BY <1>3, <1>4, <2>1, <2>3
  <2> QED BY <2>2, <2>3
<1> HIDE DEF n
<1>8. /\ j \in ImportRun /\ j.at = "records" /\ j.copy = importRun[r].copy /\ j.type = importRun[r].type /\ j.page = importRun[r].page
      /\ j.pos = importRun[r].pos + 1 /\ j.done = n
  <2> DEFINE k == importRun[r].pos + 1 h == [importRun[r] EXCEPT !.at = "records", !.made = Nil, !.pos = k, !.done = n]
  <2>1. k \in Nat
    BY <1>4
  <2> HIDE DEF k
  <2>2. /\ h \in ImportRun /\ h.at = "records" /\ h.copy = importRun[r].copy /\ h.type = importRun[r].type /\ h.page = importRun[r].page
        /\ h.pos = k /\ h.done = n
    BY <1>4, <1>7, <2>1 DEF ImportRun
  <2> QED BY <2>2 DEF k
<1> HIDE DEF j
<1>9. RunMet(importRun[r], sourceMap', ghost'.failed, entities')
  BY <1>6, RunsCarry
<1>10. RecordMet(importRun[r].type, importRun[r].page, importRun[r].pos, sourceMap', ghost'.failed)
  BY <1>5 DEF RecordMet, At
<1>11. RunMet(j, sourceMap', ghost'.failed, entities')
  BY <1>1, <1>4, <1>7, <1>8, <1>9, <1>10, PastRecord
<1>12. CopyMet(jobRow', sourceMap', ghost'.failed)
  BY <1>3, <1>6, RunsCarry
<1>13. GoesOn(r, j)
  BY <1>3, <1>5, <1>8, <1>11, <1>12, RunFacts DEF GoesOn
<1>14. ImportTyped' /\ CopiesMet'
  <2>1. /\ sourceMap' \in [ImportIds -> Made(entities') \cup {Nil}]
        /\ IsFiniteSet(entities') /\ \A e \in entities' : e.name \in Imports!Names /\ e.n \in Nat
    BY <1>3, <1>5 DEF ImportInv, ImportTyped
  <2> QED BY <1>6, <1>13, <2>1, RunMoves
<1>15. OnParent'
  BY <1>3, <1>5 DEF ImportInv, OnParent
<1>16. CreatedSound'
  <2> SUFFICES ASSUME ~ghost'.disturbed
               PROVE  /\ \A e \in entities : e.n = 1
                      /\ \A q, w \in Workers : importRun'[q].at # "off" /\ importRun'[w].at # "off" => q = w
                      /\ \A e \in entities, c \in Imports!Records :
                           c.kind = "new" /\ e.name = c.name => c.id \in ImportIds /\ sourceMap'[c.id] # Nil
    BY <1>3 DEF CreatedSound
  <2>1. /\ \A e \in entities : e.n = 1
        /\ \A q, w \in Workers : importRun[q].at # "off" /\ importRun[w].at # "off" => q = w
        /\ \A e \in entities, c \in Imports!Records :
             c.kind = "new" /\ e.name = c.name =>
               c.id \in ImportIds /\ (sourceMap[c.id] # Nil \/ \E q \in Workers : importRun[q].at = "map" /\ At(importRun[q]).id = c.id)
    BY <1>5 DEF ImportInv, CreatedSound
  <2>2. \A q \in Workers : importRun[q].at = "map" => q = r
    BY <1>1, <2>1
  <2>3. \A q \in Workers : importRun'[q] = IF q = r THEN j ELSE importRun[q]
    BY <1>3, <1>4
  <2> HIDE DEF free
  <2> QED BY <1>1, <1>5, <2>1, <2>2, <2>3
<1> QED BY <1>14, <1>15, <1>16 DEF ImportInv

\* What persist() comes to: whatever the record becomes is there then; what was
\* created is new to the undisturbed, named as the record is, on its parent; and
\* a new record that fails although its parent is there was one fault more than f.
LEMMA PersistIs ==
  ASSUME Imports!ImportConstants, ImportInv, NEW c \in Imports!Records, NEW f, NEW out \in Imports!persist(c, f)
  PROVE  LET N == Imports!New(c) IN
         /\ out[2] = entities \/ out[2] = entities \cup {N}
         /\ out[1] = Nil \/ out[1] \in Made(out[2])
         /\ N.name = c.name /\ N.n \in Nat /\ (c.needs => N.on = Imports!resolve(c.of))
         /\ (\A e \in entities : e.name # c.name) => N.n = 1
         /\ out[2] # entities => /\ c.kind = "new" \/ \A e \in entities : e.name # c.name
                                 /\ ~Imports!Orphan(c)
         /\ c.kind # "new" /\ out[1] = Nil => out[2] = entities
         /\ c.kind = "new" /\ ~Imports!Orphan(c) /\ out[1] = Nil => f < ImportFaults
<1> DEFINE N == Imports!New(c) C == Imports!Copies(c)
<1>1. /\ IsFiniteSet(entities) /\ \A e \in entities : e.name \in Imports!Names /\ e.n \in Nat
      /\ c.name \in Imports!Names /\ c.kind \in {"host", "named", "new"} /\ (c.needs => c.kind = "new") /\ Nil \notin Keys
  BY SourceRows DEF ImportInv, ImportTyped
<1>2. C = {e \in entities : e.name = c.name}
  BY DEF Imports!Copies, Imports!Name
<1>3. IsFiniteSet(C)
  BY <1>1, <1>2, FS_Subset
<1>4. N = [name |-> c.name, n |-> Imports!Cardinality(C) + 1, on |-> IF c.needs THEN Imports!resolve(c.of) ELSE Nil]
  BY DEF Imports!New, Imports!Name
<1>5. Imports!Cardinality(C) = Cardinality(C)
  BY DEF Imports!Cardinality, Cardinality
<1>6. Cardinality(C) \in Nat /\ (C = {} => Cardinality(C) = 0)
  <2> HIDE DEF C
  <2> QED BY <1>3, FS_CardinalityType, FS_EmptySet
<1>7. N.name = c.name /\ N.n \in Nat /\ (c.needs => N.on = Imports!resolve(c.of)) /\ (C = {} => N.n = 1)
  BY <1>4, <1>5, <1>6
<1>8. Imports!Key(N) \in Made(entities \cup {N}) /\ Imports!Key(N) # Nil
  <2>1. Imports!Key(N) = [name |-> N.name, n |-> N.n]
    BY DEF Imports!Key
  <2> HIDE DEF N
  <2>2. Imports!Key(N) \in Keys
    BY <1>1, <1>7, <2>1 DEF Keys
  <2>3. Imports!Key(N) \in Made(entities \cup {N})
    BY <2>1 DEF Made
  <2> QED BY <1>1, <2>2, <2>3
<1> HIDE DEF N, C
<1>9. CASE c.kind = "host"
  <2>1. out = <<IF Imports!Name(c) \in HostUsers THEN Imports!Name(c) ELSE Nil, entities>>
    BY <1>9 DEF Imports!persist
  <2>2. out[2] = entities /\ (out[1] = Nil \/ out[1] \in HostUsers)
    BY <2>1
  <2>3. out[1] = Nil \/ out[1] \in Made(out[2])
    BY <2>2 DEF Made
  <2> QED BY <1>2, <1>7, <1>9, <2>2, <2>3 DEF N
<1>10. CASE c.kind = "named"
  <2>1. out \in Imports!persistNamed(c)
    BY <1>10 DEF Imports!persist
  <2>2. ~Imports!Orphan(c)
    BY <1>1, <1>10 DEF Imports!Orphan
  <2>3. CASE C # {}
    <3> DEFINE e == CHOOSE x \in C : TRUE
    <3>1. out = <<Imports!Key(e), entities>>
      BY <2>1, <2>3 DEF Imports!persistNamed, C
    <3>2. e \in C
      BY <2>3
    <3> HIDE DEF e
    <3>3. out[2] = entities /\ out[1] \in Made(entities)
      BY <1>2, <3>1, <3>2 DEF Imports!Key, Made
    <3> QED BY <1>2, <1>7, <1>10, <3>3 DEF N
  <2>4. CASE C = {}
    <3>1. out = <<Imports!Key(N), entities \cup {N}>>
      BY <2>1, <2>4 DEF Imports!persistNamed, C, N
    <3>2. out[1] = Imports!Key(N) /\ out[2] = entities \cup {N}
      BY <3>1
    <3>3. \A e \in entities : e.name # c.name
      BY <1>2, <2>4
    <3> QED BY <1>2, <1>7, <1>8, <1>10, <2>2, <3>2, <3>3 DEF N
  <2> QED BY <2>3, <2>4
<1>11. CASE c.kind = "new"
  <2>1. out \in Imports!persistOn(c, f)
    BY <1>11 DEF Imports!persist
  <2>2. CASE Imports!Orphan(c)
    <3>1. out = <<Nil, entities>>
      BY <2>1, <2>2 DEF Imports!persistOn
    <3> QED BY <1>2, <1>7, <2>2, <3>1 DEF N
  <2>3. CASE ~Imports!Orphan(c)
    <3>1. \/ out = <<Imports!Key(N), entities \cup {N}>>
          \/ f < ImportFaults /\ (out = <<Nil, entities>> \/ out = <<Nil, entities \cup {N}>>)
      BY <2>1, <2>3 DEF Imports!persistOn, Imports!persistNew, N
    <3>2. \/ out[1] = Imports!Key(N) /\ out[2] = entities \cup {N}
          \/ f < ImportFaults /\ out[1] = Nil /\ (out[2] = entities \/ out[2] = entities \cup {N})
      BY <3>1
    <3> QED BY <1>2, <1>7, <1>8, <1>11, <2>3, <3>2 DEF N
  <2> QED BY <2>2, <2>3
<1> QED BY <1>1, <1>9, <1>10, <1>11

\* A record that is passed by: it has no id, or is in the source map.
LEMMA SkipStep ==
  ASSUME Imports!ImportConstants, ImportInv, NEW r \in Workers, importRun[r].at = "records",
         importRun[r].pos \in DOMAIN Source[importRun[r].type][importRun[r].page],
         At(importRun[r]).id = Nil \/ Imports!Seen(At(importRun[r])),
         importRun' = [importRun EXCEPT ![r] = [importRun[r] EXCEPT !.pos = importRun[r].pos + 1]],
         UNCHANGED <<cookie, jobRow, sourceMap, entities, admin, queued, ghost, started, asks, faults>>
  PROVE  ImportInv'
<1> DEFINE k == importRun[r].pos + 1 j == [importRun[r] EXCEPT !.pos = k]
<1>1. /\ Reading(importRun[r]) /\ importRun[r] \in ImportRun /\ k \in Nat /\ importRun[r].done \in Nat
      /\ RunMet(importRun[r], sourceMap, ghost.failed, entities)
  BY RunFacts DEF Reading, ImportRun
<1> HIDE DEF k
<1>2. /\ j \in ImportRun /\ j.at = "records" /\ j.copy = importRun[r].copy /\ j.type = importRun[r].type /\ j.page = importRun[r].page
      /\ j.pos = importRun[r].pos + 1 /\ j.done = importRun[r].done
  <2>1. /\ j \in ImportRun /\ j.at = "records" /\ j.copy = importRun[r].copy /\ j.type = importRun[r].type /\ j.page = importRun[r].page
        /\ j.pos = k /\ j.done = importRun[r].done
    BY <1>1 DEF ImportRun
  <2> QED BY <2>1 DEF k
<1>3. importRun' = [importRun EXCEPT ![r] = j]
  BY DEF k
<1> HIDE DEF j
<1>4. RecordMet(importRun[r].type, importRun[r].page, importRun[r].pos, sourceMap, ghost.failed)
  BY DEF RecordMet, At, Imports!Seen, Imports!resolve, ImportIds
<1>5. importRun[r].done <= Cardinality(MappedOf(importRun[r].type, sourceMap))
  BY <1>1 DEF RunMet, Behindhand
<1>6. RunMet(j, sourceMap, ghost.failed, entities)
  BY <1>1, <1>2, <1>4, <1>5, PastRecord
<1>7. GoesOn(r, j)
  BY <1>2, <1>3, <1>6, RunFacts DEF GoesOn
<1> QED BY <1>3, <1>7, QuietMove

\* The record run r is at came to out after f faults.
Faulty(c, out) == out[1] = Nil /\ c.kind = "new" /\ ~Imports!Orphan(c)
Onward(r, out) == IF out[1] = Nil THEN [importRun[r] EXCEPT !.pos = importRun[r].pos + 1]
                  ELSE [importRun[r] EXCEPT !.at = "map", !.made = out[1]]
Persisted(r, f, out) ==
  /\ entities' = out[2] /\ importRun' = [importRun EXCEPT ![r] = Onward(r, out)]
  /\ ghost' = [failed |-> IF out[1] = Nil THEN ghost.failed \cup {At(importRun[r]).id} ELSE ghost.failed,
               disturbed |-> ghost.disturbed \/ Imports!Seen(At(importRun[r])) \/ Faulty(At(importRun[r]), out)]
  /\ faults' = IF Faulty(At(importRun[r]), out) THEN f + 1 ELSE f

\* A record that is persisted, or fails: the run goes on, and what it created
\* is on its parent, and alone unless it was in the source map already.
LEMMA PersistStep ==
  ASSUME Imports!ImportConstants, ImportInv, NEW r \in Workers, importRun[r].at = "records",
         importRun[r].pos \in DOMAIN Source[importRun[r].type][importRun[r].page],
         At(importRun[r]).id # Nil, NEW f \in Imports!Unseen(At(importRun[r])),
         NEW out \in Imports!persist(At(importRun[r]), f), Persisted(r, f, out),
         UNCHANGED <<cookie, jobRow, sourceMap, admin, queued, started, asks>>
  PROVE  ImportInv'
<1> DEFINE c == At(importRun[r]) N == Imports!New(c) id == c.id j == Onward(r, out) fault == Faulty(c, out)
<1>0. /\ fault = (out[1] = Nil /\ c.kind = "new" /\ ~Imports!Orphan(c))
      /\ out[1] = Nil => j = [importRun[r] EXCEPT !.pos = importRun[r].pos + 1]
      /\ out[1] # Nil => j = [importRun[r] EXCEPT !.at = "map", !.made = out[1]]
      /\ entities' = out[2] /\ importRun' = [importRun EXCEPT ![r] = j]
      /\ ghost' = [failed |-> IF out[1] = Nil THEN ghost.failed \cup {id} ELSE ghost.failed,
                   disturbed |-> ghost.disturbed \/ Imports!Seen(c) \/ fault]
      /\ faults' = IF fault THEN f + 1 ELSE f
  BY DEF Persisted, Onward, Faulty
<1> HIDE DEF j, fault
<1>1. /\ Reading(importRun[r]) /\ importRun[r] \in ImportRun /\ importRun[r].pos \in Nat /\ importRun[r].pos + 1 \in Nat /\ importRun[r].done \in Nat
      /\ RunMet(importRun[r], sourceMap, ghost.failed, entities) /\ faults \in 0..ImportFaults /\ ImportFaults \in Nat
      /\ ghost \in [failed : SUBSET ImportIds, disturbed : BOOLEAN] /\ importRun \in [Workers -> ImportRun]
  BY RunFacts DEF Reading, ImportRun
<1>2. c \in Imports!Records /\ id \in ImportIds /\ (~Imports!Seen(c) => sourceMap[id] = Nil) /\ f \in 0..ImportFaults
  <2>1. c \in Imports!Records /\ id \in ImportIds
    BY <1>1, AtRecord
  <2>2. f \in 0..ImportFaults
    BY <1>1 DEF Imports!Unseen
  <2> QED BY <2>1, <2>2 DEF Imports!Seen, Imports!resolve, ImportIds
<1>3. /\ out[2] = entities \/ out[2] = entities \cup {N}
      /\ out[1] = Nil \/ out[1] \in Made(out[2])
      /\ N.name = c.name /\ N.n \in Nat /\ (c.needs => N.on = Imports!resolve(c.of))
      /\ (\A e \in entities : e.name # c.name) => N.n = 1
      /\ out[2] # entities => /\ c.kind = "new" \/ \A e \in entities : e.name # c.name
                              /\ ~Imports!Orphan(c)
      /\ c.kind # "new" /\ out[1] = Nil => out[2] = entities
      /\ c.kind = "new" /\ ~Imports!Orphan(c) /\ out[1] = Nil => f < ImportFaults
  BY <1>2, PersistIs
<1>4. fault \in BOOLEAN /\ (fault => f < ImportFaults)
  BY <1>0, <1>3
<1> HIDE DEF N
<1>5. entities \subseteq entities' /\ \A e \in entities' : e \in entities \/ (e = N /\ out[2] # entities)
  BY <1>0, <1>3
<1>6. ghost.failed \subseteq ghost'.failed /\ ghost' \in [failed : SUBSET ImportIds, disturbed : BOOLEAN] /\ faults' \in 0..ImportFaults
      /\ (~ghost'.disturbed => ~ghost.disturbed /\ ~fault /\ ~Imports!Seen(c))
      /\ (out[1] = Nil => id \in ghost'.failed)
  <2> DEFINE F == IF out[1] = Nil THEN ghost.failed \cup {id} ELSE ghost.failed
             D == ghost.disturbed \/ Imports!Seen(c) \/ fault
  <2>1. faults' \in 0..ImportFaults
    BY <1>0, <1>1, <1>2, <1>4
  <2>2. F \subseteq ImportIds /\ ghost.failed \subseteq F /\ (out[1] = Nil => id \in F)
    <3> HIDE DEF id
    <3> QED BY <1>1, <1>2
  <2>3. D \in BOOLEAN
    <3>1. ghost.disturbed \in BOOLEAN /\ Imports!Seen(c) \in BOOLEAN
      BY <1>1 DEF Imports!Seen
    <3> QED BY <1>4, <3>1
  <2>4. ghost' = [failed |-> F, disturbed |-> D]
    BY <1>0
  <2>5. ~D => ~ghost.disturbed /\ ~fault /\ ~Imports!Seen(c)
    OBVIOUS
  <2> HIDE DEF F, D
  <2>6. ghost'.failed = F /\ ghost'.disturbed = D /\ ghost' \in [failed : SUBSET ImportIds, disturbed : BOOLEAN]
    BY <2>2, <2>3, <2>4
  <2> QED BY <2>1, <2>2, <2>5, <2>6
<1>7. Carried
  BY <1>5, <1>6 DEF Carried, Grows
<1>8. IsFiniteSet(entities') /\ \A e \in entities' : e.name \in Imports!Names /\ e.n \in Nat
  <2>1. IsFiniteSet(entities) /\ \A e \in entities : e.name \in Imports!Names /\ e.n \in Nat
    BY DEF ImportInv, ImportTyped
  <2>2. IsFiniteSet(entities')
    BY <1>0, <1>3, <2>1, FS_AddElement
  <2>3. c.name \in Imports!Names
    BY <1>2, SourceRows
  <2> QED BY <1>3, <1>5, <2>1, <2>2, <2>3
<1>9. sourceMap' \in [ImportIds -> Made(entities') \cup {Nil}]
  <2>1. sourceMap \in [ImportIds -> Made(entities) \cup {Nil}]
    BY DEF ImportInv, ImportTyped
  <2>2. Made(entities) \subseteq Made(entities')
    BY <1>5 DEF Made
  <2> QED BY <2>1, <2>2
<1>10. RunMet(importRun[r], sourceMap', ghost'.failed, entities')
  BY <1>7, RunsCarry
<1>11. j \in ImportRun /\ RunMet(j, sourceMap', ghost'.failed, entities') /\ (out[1] # Nil => j.at = "map" /\ At(j) = c)
  <2>1. CASE out[1] = Nil
    <3> DEFINE k == importRun[r].pos + 1
    <3> k \in Nat
      BY <1>1
    <3> HIDE DEF k
    <3>1. j = [importRun[r] EXCEPT !.pos = k]
      BY <1>0, <2>1 DEF k
    <3>2. /\ j \in ImportRun /\ j.at = "records" /\ j.copy = importRun[r].copy /\ j.type = importRun[r].type /\ j.page = importRun[r].page
          /\ j.pos = k /\ j.done = importRun[r].done
      BY <1>1, <3>1 DEF ImportRun
    <3>3. RecordMet(importRun[r].type, importRun[r].page, importRun[r].pos, sourceMap', ghost'.failed)
      BY <1>6, <2>1 DEF RecordMet, At
    <3>4. importRun[r].done <= Cardinality(MappedOf(importRun[r].type, sourceMap'))
      BY <1>1, <1>10 DEF RunMet, Behindhand
    <3>5. RunMet(j, sourceMap', ghost'.failed, entities')
      BY <1>1, <1>10, <3>2, <3>3, <3>4, PastRecord DEF k
    <3> QED BY <2>1, <3>2, <3>5, Zenon
  <2>2. CASE out[1] # Nil
    <3>1. j = [importRun[r] EXCEPT !.at = "map", !.made = out[1]]
      BY <1>0, <2>2
    <3>2. out[1] \in Keys \cup HostUsers /\ out[1] \in Made(entities')
      BY <1>0, <1>3, <1>8, <2>2 DEF Made, Keys
    <3>3. /\ j \in ImportRun /\ j.at = "map" /\ j.copy = importRun[r].copy /\ j.type = importRun[r].type /\ j.page = importRun[r].page
          /\ j.pos = importRun[r].pos /\ j.done = importRun[r].done /\ j.made = out[1]
      BY <1>1, <3>1, <3>2 DEF ImportRun
    <3>4. Behindhand(j, sourceMap', ghost'.failed)
      BY <1>1, <1>10, <3>3 DEF RunMet, Behindhand
    <3>5. j.pos \in DOMAIN Source[j.type][j.page] /\ Source[j.type][j.page][j.pos].id # Nil
      BY <3>3 DEF At
    <3>6. CopyMet(j.copy, sourceMap', ghost'.failed) /\ j.copy.status \notin {"none", "completed"} /\ 1 <= j.type
          /\ \A t \in Imports!Types : t < j.type => TypeMet(t, sourceMap', ghost'.failed)
      BY <1>1, <1>10, <3>3 DEF RunMet, Going
    <3>7. RunMet(j, sourceMap', ghost'.failed, entities')
      BY <2>2, <3>2, <3>3, <3>4, <3>5, <3>6 DEF RunMet, Going, Reading
    <3> QED BY <3>3, <3>7 DEF At
  <2> QED BY <2>1, <2>2
<1>12. CopyMet(jobRow', sourceMap', ghost'.failed)
  BY <1>7, RunsCarry
<1>13. GoesOn(r, j)
  BY <1>0, <1>6, <1>11, <1>12, RunFacts DEF GoesOn
<1>14. ImportTyped' /\ CopiesMet'
  BY <1>7, <1>8, <1>9, <1>13, RunMoves
<1>15. OnParent'
  <2>1. ASSUME NEW d \in Imports!Records, NEW e \in entities', e.name = d.name /\ d.needs
        PROVE  d.of \in ImportIds /\ e.on # Nil /\ e.on = sourceMap[d.of]
    <3>1. CASE e \in entities
      BY <2>1, <3>1 DEF ImportInv, OnParent
    <3>2. CASE e = N /\ out[2] # entities
      <4>1. d = c
        BY <1>2, <1>3, <2>1, <3>2, SourceRows
      <4>2. Imports!resolve(c.of) # Nil
        BY <1>3, <2>1, <3>2, <4>1 DEF Imports!Orphan
      <4> QED BY <1>3, <2>1, <3>2, <4>1, <4>2 DEF Imports!resolve, ImportIds
    <3> QED BY <1>5, <3>1, <3>2
  <2> QED BY <2>1 DEF OnParent
<1>16. CreatedSound'
  <2> SUFFICES ASSUME ~ghost'.disturbed
               PROVE  /\ \A e \in entities' : e.n = 1
                      /\ \A q, w \in Workers : importRun'[q].at # "off" /\ importRun'[w].at # "off" => q = w
                      /\ \A e \in entities', d \in Imports!Records :
                           d.kind = "new" /\ e.name = d.name =>
                             d.id \in ImportIds /\ (sourceMap[d.id] # Nil \/ \E q \in Workers : importRun'[q].at = "map" /\ At(importRun'[q]).id = d.id)
    BY DEF CreatedSound
  <2>1. /\ \A e \in entities : e.n = 1
        /\ \A q, w \in Workers : importRun[q].at # "off" /\ importRun[w].at # "off" => q = w
        /\ \A e \in entities, d \in Imports!Records :
             d.kind = "new" /\ e.name = d.name =>
               d.id \in ImportIds /\ (sourceMap[d.id] # Nil \/ \E q \in Workers : importRun[q].at = "map" /\ At(importRun[q]).id = d.id)
    BY <1>6 DEF ImportInv, CreatedSound
  <2>2. \A q \in Workers : importRun[q].at # "map"
    BY <2>1
  <2>3. \A q \in Workers : importRun'[q] = IF q = r THEN j ELSE importRun[q]
    BY <1>0, <1>1
  <2>4. sourceMap[id] = Nil /\ (c.kind = "new" => \A e \in entities : e.name # c.name)
    <3>1. sourceMap[id] = Nil
      BY <1>2, <1>6
    <3> QED BY <1>2, <2>1, <2>2, <3>1
  <2>5. out[2] # entities => N.n = 1
    BY <1>3, <2>4
  <2>6. \A q, w \in Workers : importRun'[q].at # "off" /\ importRun'[w].at # "off" => q = w
    BY <2>1, <2>3
  <2>7. ASSUME NEW e \in entities', NEW d \in Imports!Records, d.kind = "new" /\ e.name = d.name
        PROVE  d.id \in ImportIds /\ (sourceMap[d.id] # Nil \/ \E q \in Workers : importRun'[q].at = "map" /\ At(importRun'[q]).id = d.id)
    <3>1. CASE e \in entities
      BY <2>1, <2>2, <2>7, <3>1
    <3>2. CASE e = N /\ out[2] # entities
      <4>1. d = c
        BY <1>2, <1>3, <2>7, <3>2, SourceRows
      <4>2. out[1] # Nil
        BY <1>0, <1>3, <1>6, <2>7, <3>2, <4>1
      <4>3. importRun'[r].at = "map" /\ At(importRun'[r]) = c
        BY <1>11, <2>3, <4>2
      <4> QED BY <1>2, <4>1, <4>3
    <3> QED BY <1>5, <3>1, <3>2
  <2> QED BY <1>5, <2>1, <2>5, <2>6, <2>7
<1> QED BY <1>14, <1>15, <1>16 DEF ImportInv

LEMMA RecordStep == ASSUME Imports!ImportConstants, ImportInv, NEW r \in Workers, Imports!Record(r) PROVE ImportInv'
<1> DEFINE c == At(importRun[r])
<1>1. /\ importRun[r].at = "records" /\ importRun[r].pos <= Len(Source[importRun[r].type][importRun[r].page])
      /\ UNCHANGED <<cookie, jobRow, sourceMap, admin, queued, started, asks>>
  BY DEF Imports!Record, Imports!Page
<1>2. importRun[r].pos \in DOMAIN Source[importRun[r].type][importRun[r].page]
  <2>1. /\ importRun[r].type \in Imports!Types /\ importRun[r].page \in DOMAIN Source[importRun[r].type]
        /\ 1 <= importRun[r].pos /\ importRun[r].pos \in Nat
    BY <1>1, RunFacts DEF RunMet, Reading, Behindhand, ImportRun
  <2> QED BY <1>1, <2>1, SourceRows
<1>3. Imports!Current(r) = c
  BY DEF Imports!Current, Imports!Page, At
<1>4. \/ /\ c.id = Nil \/ Imports!Seen(c)
         /\ importRun' = [importRun EXCEPT ![r] = [importRun[r] EXCEPT !.pos = importRun[r].pos + 1]]
         /\ UNCHANGED <<entities, ghost, faults>>
      \/ /\ c.id # Nil
         /\ \E f \in Imports!Unseen(c) : \E out \in Imports!persist(c, f) : Persisted(r, f, out)
  BY <1>3 DEF Imports!Record, Persisted, Onward, Faulty
<1>5. CASE /\ c.id = Nil \/ Imports!Seen(c)
           /\ importRun' = [importRun EXCEPT ![r] = [importRun[r] EXCEPT !.pos = importRun[r].pos + 1]]
           /\ UNCHANGED <<entities, ghost, faults>>
  BY <1>1, <1>2, <1>5, SkipStep
<1>6. CASE /\ c.id # Nil
           /\ \E f \in Imports!Unseen(c) : \E out \in Imports!persist(c, f) : Persisted(r, f, out)
  <2>1. PICK f \in Imports!Unseen(c) : \E out \in Imports!persist(c, f) : Persisted(r, f, out)
    BY <1>6
  <2>2. PICK out \in Imports!persist(c, f) : Persisted(r, f, out)
    BY <2>1
  <2> QED BY <1>1, <1>2, <1>6, <2>2, PersistStep
<1> QED BY <1>4, <1>5, <1>6

LEMMA ImportStep == ASSUME Imports!ImportConstants, ImportInv, Imports!Next \/ UNCHANGED importVars PROVE ImportInv'
<1>1. CASE UNCHANGED importVars
  <2>1. UNCHANGED <<cookie, jobRow, sourceMap, entities, importRun, admin, queued, ghost, started, asks, faults>>
    BY <1>1 DEF importVars
  <2> QED BY <2>1 DEF ImportInv, ImportTyped, CopiesMet, OnParent, CreatedSound
<1>2. CASE Imports!TestConnection \/ Imports!Expire \/ Imports!Create
  BY <1>2, BrowserSteps
<1>3. CASE Imports!Crash
  BY <1>3, CrashStep
<1>4. ASSUME NEW a \in Admins, Imports!Ask(a) \/ Imports!Pause(a) \/ Imports!Resume(a) \/ Imports!Cancel(a) PROVE ImportInv'
  BY <1>4, AdminSteps
<1>5. ASSUME NEW r \in Workers, \/ Imports!Run(r) \/ Imports!Begin(r) \/ Imports!NextType(r) \/ Imports!Record(r) \/ Imports!Insert(r)
                                \/ Imports!saveProgress(r) \/ Imports!Check(r) \/ Imports!Complete(r) \/ Imports!Fail(r)
      PROVE  ImportInv'
  BY <1>5, RunStep, BeginStep, NextTypeStep, RecordStep, InsertStep, SaveStep, CheckStep, CompleteStep, FailStep
<1> QED BY <1>1, <1>2, <1>3, <1>4, <1>5 DEF Imports!Next
=============================================================================
