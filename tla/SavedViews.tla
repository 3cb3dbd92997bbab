------------------------------ MODULE SavedViews ------------------------------
(***************************************************************************)
(* Saved views of the ticket list (handlers/saved_views.go). A change loads  *)
(* the view and asks whose it is, then writes every column but the owner;    *)
(* creating lists the views first; reordering is a statement per id.         *)
(* Filters, icons and the rest of the row are its name here.                 *)
(***************************************************************************)
EXTENDS Naturals, Sequences, FiniteSets

CONSTANTS Users, Names, Workers, Nil,
          Reuses,       \* SQLite gives the id of a deleted newest row again
          MaxId,        \* bound on ids
          MaxPosition,  \* bound on positions
          MaxWrites     \* bound on the requests

VARIABLES views,   \* id -> [name, owner, shared, position], Nil for none
          last,    \* the last id the table gave
          work,    \* worker -> [at, user, id, row, ids, n]
          begun    \* requests so far
vars == <<views, last, work, begun>>

Ids == 1..MaxId
Row == [name : Names, owner : Users \cup {Nil}, shared : BOOLEAN, position : 0..MaxPosition]
Idle == [at |-> "idle", user |-> Nil, id |-> Nil, row |-> Nil, ids |-> <<>>, n |-> 0]
Rows == {i \in Ids : views[i] # Nil}

\* A request reorders two views at most.
ViewsConstants == MaxId \in Nat \ {0} /\ MaxPosition \in Nat \ {0} /\ MaxWrites \in Nat /\ Nil \notin Row

TypeOK ==
  /\ views \in [Ids -> Row \cup {Nil}] /\ begun \in 0..MaxWrites /\ last \in Ids
  /\ \A w \in Workers : work[w].at \in {"idle", "create", "update", "delete", "reorder"} /\ work[w].row \in Row \cup {Nil}

\* One view of before there were owners.
Init ==
  /\ views \in [Ids -> {Nil} \cup [name : Names, owner : {Nil}, shared : {TRUE}, position : {0}]] /\ Rows = {1} /\ last = 1
  /\ work = [w \in Workers |-> Idle] /\ begun = 0
-----------------------------------------------------------------------------
Begin(w, rec) ==
  /\ work[w] = Idle /\ begun < MaxWrites /\ begun' = begun + 1
  /\ work' = [work EXCEPT ![w] = rec] /\ UNCHANGED <<views, last>>
Finish(w) == work' = [work EXCEPT ![w] = Idle] /\ UNCHANGED begun

\* The user's own views and the shared ones.
visibleViews(user) == {i \in Rows : views[i].owner = user \/ views[i].shared}
maxPosition(user) == CHOOSE p \in 0..MaxPosition :
  /\ \A i \in visibleViews(user) : views[i].position <= p
  /\ p = 0 \/ \E i \in visibleViews(user) : views[i].position = p

Create(w, user, name, shared) ==
  /\ maxPosition(user) < MaxPosition
  /\ Begin(w, [Idle EXCEPT !.at = "create", !.user = user,
                       !.row = [name |-> name, owner |-> user, shared |-> shared, position |-> maxPosition(user) + 1]])
InsertView(w) ==
  /\ work[w].at = "create"
  /\ last' = 1 + (IF ~Reuses THEN last ELSE IF Rows = {} THEN 0 ELSE CHOOSE i \in Rows : \A j \in Rows : j <= i)
  /\ last' \in Ids \ Rows /\ views' = [views EXCEPT ![last'] = work[w].row]
  /\ Finish(w)

\* Fault: a shared view is everybody's.
ownOrShared(user, i) == i \in Rows /\ (views[i].owner \in {Nil, user} \/ views[i].shared)

ownView(user, i) == i \in Rows /\ views[i].owner \in {Nil, user}

Update(w, user, i, name, shared) ==
  /\ ownView(user, i)
  /\ Begin(w, [Idle EXCEPT !.at = "update", !.user = user, !.id = i, !.row = [views[i] EXCEPT !.name = name, !.shared = shared]])
\* The row as it was loaded, its position too, by id: gone is gone.
UpdateSavedView(w) ==
  LET i == work[w].id IN
  /\ work[w].at = "update"
  /\ views' = IF i \in Rows THEN [views EXCEPT ![i] = [work[w].row EXCEPT !.owner = views[i].owner]] ELSE views
  /\ Finish(w) /\ UNCHANGED last

Delete(w, user, i) == ownView(user, i) /\ Begin(w, [Idle EXCEPT !.at = "delete", !.user = user, !.id = i])
DeleteSavedView(w) == work[w].at = "delete" /\ views' = [views EXCEPT ![work[w].id] = Nil] /\ Finish(w) /\ UNCHANGED last

Reorder(w, user, ids) == ids # <<>> /\ Begin(w, [Idle EXCEPT !.at = "reorder", !.user = user, !.ids = ids])
\* The next id takes its index, if it is the user's or shared by now.
ReorderSavedViews(w) ==
  LET j == work[w]
      i == j.ids[j.n + 1]
  IN
  /\ j.at = "reorder"
  /\ views' = IF i \in visibleViews(j.user) THEN [views EXCEPT ![i].position = j.n] ELSE views
  /\ work' = [work EXCEPT ![w] = IF j.n + 1 = Len(j.ids) THEN Idle ELSE [j EXCEPT !.n = j.n + 1]]
  /\ UNCHANGED <<last, begun>>
-----------------------------------------------------------------------------
Next ==
  \E w \in Workers :
    \/ \E u \in Users :
         \/ \E n \in Names, b \in BOOLEAN : Create(w, u, n, b) \/ \E i \in Ids : Update(w, u, i, n, b)
         \/ \E i \in Ids : Delete(w, u, i)
         \/ \E k \in 0..2 : \E ids \in [1..k -> Ids] : Reorder(w, u, ids)
    \/ InsertView(w) \/ UpdateSavedView(w) \/ DeleteSavedView(w) \/ ReorderSavedViews(w)

Spec == Init /\ [][Next]_vars
-----------------------------------------------------------------------------
\* Where an id is given once, however requests overlap: a view is renamed,
\* shared or deleted by its owner only, unless it has none, and moved by no
\* other unless it is shared at that moment; its owner stays; and a new view is
\* its creator's.
ViewsHold ==
  \A w \in Workers, i \in Ids : work'[w] # work[w] /\ views'[i] # views[i] =>
    IF i \notin Rows THEN views'[i].owner = work[w].user
    ELSE /\ views'[i] # Nil => views'[i].owner = views[i].owner
         /\ \/ views[i].owner \in {Nil, work[w].user}
            \/ views[i].shared /\ views'[i] # Nil /\ views'[i] = [views[i] EXCEPT !.position = views'[i].position]
=============================================================================
