---------------------------- MODULE PluginStore ----------------------------
(***************************************************************************)
(* ctx.store and ctx.config of one plugin (plugins/store.go).  A key is     *)
(* found by one statement and written by another, in no transaction and     *)
(* with no unique index, so calls that overlap can leave two rows for one   *)
(* key; the lowest id is then the record.                                   *)
(***************************************************************************)
EXTENDS Naturals, FiniteSets, Sequences

CONSTANTS Workers,   \* goroutines serving ctx.* calls
          Values,    \* what a plugin stores in a field
          Nil,
          MaxCalls   \* calls made, and so rows inserted

StoreConstants == Nil \notin Values /\ MaxCalls \in Nat

\* The fields of a record: a set replaces both, an update the ones it names.
Fields == {"f", "g"}
Data == [Fields -> Values \cup {Nil}]
None == [f \in Fields |-> Nil]

VARIABLES rows,     \* escalated_plugin_store, by id: a record, or "gone"
          work,     \* the call each goroutine serves
          calls,
          settled   \* ghost: what a get may answer when nothing is in flight
vars == <<rows, work, calls, settled>>
-----------------------------------------------------------------------------
Row(data) == [there |-> TRUE, data |-> data]
Gone == [there |-> FALSE, data |-> None]
Rest == [op |-> "rest", data |-> None, row |-> 0, alone |-> TRUE]

Live == {i \in DOMAIN rows : rows[i].there}

\* Fault: any of the rows, as a query without ORDER BY may answer.
findAny == IF Live = {} THEN {0} ELSE Live

\* The row with the lowest id; 0 for none.
find == IF Live = {} THEN {0} ELSE {CHOOSE i \in Live : \A j \in Live : i <= j}

get == {IF i = 0 THEN None ELSE rows[i].data : i \in find}

Merge(old, new) == [f \in Fields |-> IF new[f] = Nil THEN old[f] ELSE new[f]]

TypeOK ==
  /\ rows \in Seq([there : BOOLEAN, data : Data]) /\ Len(rows) <= MaxCalls
  /\ work \in [Workers -> [op : {"rest", "merge", "set", "update"}, data : Data, row : 0..MaxCalls, alone : BOOLEAN]]
  /\ calls \in 0..MaxCalls /\ settled \subseteq Data

Init ==
  /\ rows = <<>> /\ work = [w \in Workers |-> Rest] /\ calls = 0 /\ settled = {None}
-----------------------------------------------------------------------------
Busy == {w \in Workers : work[w].op # "rest"}

\* A call that has read and not yet written; calls that overlap know it.
Begin(w, op, data, row) ==
  work' = [v \in Workers |->
             IF v = w THEN [op |-> op, data |-> data, row |-> row, alone |-> Busy = {}]
             ELSE [work[v] EXCEPT !.alone = @ /\ v \notin Busy]]

\* A call returns, having written data.
Return(w, data, alone) ==
  settled' = IF alone THEN {data} ELSE settled \cup {data}

Count == calls < MaxCalls /\ calls' = calls + 1

\* ctx.store.set looks for the row first and replaces the record.
set(w, data) ==
  /\ w \notin Busy /\ Count
  /\ \E i \in find : Begin(w, "set", data, i)
  /\ UNCHANGED <<rows, settled>>

\* ctx.config.set merges into the config it reads; set, which it ends in, looks
\* for the row again.
configSet(w, data) ==
  /\ w \notin Busy /\ Count
  /\ \E i \in find : Begin(w, "merge", IF i = 0 THEN data ELSE Merge(rows[i].data, data), i)
  /\ UNCHANGED <<rows, settled>>

FindAgain(w) ==
  /\ work[w].op = "merge"
  /\ \E i \in find : work' = [work EXCEPT ![w].op = "set", ![w].row = i]
  /\ UNCHANGED <<rows, calls, settled>>

\* ctx.store.update merges into the row it finds, and is refused without one.
update(w, data) ==
  /\ w \notin Busy /\ Count
  /\ \E i \in find : i # 0 /\ Begin(w, "update", Merge(rows[i].data, data), i)
  /\ UNCHANGED <<rows, settled>>

\* The row found is written by its id, whether it is still there or not; with
\* none found, set inserts one.
Write(w) ==
  /\ work[w].op \in {"set", "update"}
  /\ LET c == work[w]
     IN  /\ rows' = IF c.row = 0 THEN Append(rows, Row(c.data))
                    ELSE IF rows[c.row].there THEN [rows EXCEPT ![c.row] = Row(c.data)] ELSE rows
         /\ Return(w, c.data, c.alone)
  /\ work' = [work EXCEPT ![w] = Rest]
  /\ UNCHANGED calls

\* ctx.store.insert adds a row whether the key has one or not.
insert(w, data) ==
  /\ w \notin Busy /\ Count
  /\ rows' = Append(rows, Row(data))
  /\ settled' = IF Live = {} /\ Busy = {} THEN {data} ELSE settled \cup {data}
  /\ work' = [v \in Workers |-> [work[v] EXCEPT !.alone = @ /\ v \notin Busy]]

\* ctx.store.delete deletes every row of the key.
delete(w) ==
  /\ w \notin Busy /\ Count
  /\ rows' = [i \in DOMAIN rows |-> Gone]
  /\ Return(w, None, Busy = {})
  /\ work' = [v \in Workers |-> [work[v] EXCEPT !.alone = @ /\ v \notin Busy]]

Next ==
  \E w \in Workers :
    \/ \E d \in Data \ {None} : set(w, d) \/ configSet(w, d) \/ update(w, d) \/ insert(w, d)
    \/ FindAgain(w) \/ Write(w) \/ delete(w)

Spec == Init /\ [][Next]_vars
-----------------------------------------------------------------------------
\* With nothing in flight, get answers what the last call wrote, or what a
\* call that overlapped it wrote, even when two rows were inserted for the
\* key: every later call must find the same one of them.
ReadsTheLastWrite == Busy = {} => get \subseteq settled
=============================================================================
