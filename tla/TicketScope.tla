------------------------------ MODULE TicketScope ------------------------------
(***************************************************************************)
(* Ticket access (ticketaccess/).  A restricted agent's statements are       *)
(* rewritten before they reach the database: reads see each table through a  *)
(* projection of the rows whose parents are visible, writes are confined to  *)
(* such rows, and a row may only be hung from visible parents.               *)
(*                                                                         *)
(* A request resolves its user once and keeps the actor.  A statement that   *)
(* names parents first looks each of them up in a SELECT of its own and then *)
(* runs, and the tables and memberships may change in between.               *)
(***************************************************************************)
EXTENDS Naturals, FiniteSets

CONSTANTS
  Requests,     \* requests of restricted agents, each with a context of its own
  Users,
  Departments,
  Nil,          \* a NULL column, and no account
  Options,      \* [departments, accounts]: the restrictions that are on
  Identities,   \* what the host's directory may say of a user
  Filings,      \* department, account and requester a ticket may have
  RowIds,       \* [table -> ids its rows may be given]
  Picks,        \* [table -> what the conditions of its statements may pick]
  ForeignKeys,  \* the database enforces the foreign keys that are declared
  Reuses        \* the database may give the id of a deleted row again

VARIABLES
  db,           \* [table -> [id -> columns]]
  drawn,        \* [table -> ids given so far]
  members,      \* department_agent: <<department, user>> pairs
  directory,    \* the host's directory of users
  work,         \* what each request is at
  overlapped    \* requests whose statement had others change something beside it

vars == <<db, drawn, members, directory, work, overlapped>>
-----------------------------------------------------------------------------
(* The tables.                                                              *)

\* No parent; only an attachment's reply may be none.
NoId == 0

\* Each table's parent columns.  Of the tables left out here, activities, tags,
\* subjects, followers, ratings, workflow logs and reads hang from a ticket as
\* replies or chat sessions do, mentions from a reply as chat messages from
\* their session, and side conversations and their replies as chats.
parents ==
  [tickets |-> {},
   replies |-> {<<"ticket_id", "tickets">>},
   attachments |-> {<<"ticket_id", "tickets">>, <<"reply_id", "replies">>},
   ticket_links |-> {<<"parent_ticket_id", "tickets">>, <<"child_ticket_id", "tickets">>},
   chat_sessions |-> {<<"ticket_id", "tickets">>},
   chat_messages |-> {<<"chat_session_id", "chat_sessions">>}]

Tables == {"tickets", "replies", "attachments", "ticket_links", "chat_sessions", "chat_messages"}
Columns(table) == {p[1] : p \in parents[table]}
Nullable(table, column) == table = "attachments" /\ column = "reply_id"

\* The tables whose parent columns are declared foreign keys: rows go with
\* their ticket, and an attachment whose reply goes stays with its ticket.
Declared == {"replies", "attachments"}

\* What a statement may put in the columns named; and whole rows.
Naming(table, columns) ==
  {c \in [columns -> {NoId} \cup UNION {RowIds[t] : t \in Tables}] :
     \A p \in parents[table] :
        p[1] \in columns => c[p[1]] \in RowIds[p[2]] \/ (Nullable(table, p[1]) /\ c[p[1]] = NoId)}
Rows(table) == IF table = "tickets" THEN Filings ELSE Naming(table, Columns(table))
Changes(table) == IF table = "tickets" THEN Filings ELSE UNION {Naming(table, S) : S \in SUBSET Columns(table) \ {{}}}
-----------------------------------------------------------------------------
(* Who is restricted.                                                       *)

Nobody == "nobody"
Unrestricted == [user |-> Nobody, departments |-> FALSE, accounts |-> FALSE, account |-> Nil]

\* Admins and users who are no agents are not restricted.
ForUser(user, identity) ==
  IF ~(Options.departments \/ Options.accounts) \/ identity.admin \/ ~identity.agent THEN Unrestricted
  ELSE [user |-> user, departments |-> Options.departments, accounts |-> Options.accounts,
        account |-> IF Options.accounts THEN identity.account ELSE Nil]

Restricted(actor) == actor.departments \/ actor.accounts

ticketPredicate(actor, mem, t) ==
  /\ actor.user # Nobody
  /\ actor.departments => <<t.department, actor.user>> \in mem
  /\ actor.accounts => actor.account # Nil /\ t.account = actor.account
-----------------------------------------------------------------------------
(* Reads.                                                                   *)

\* Every parent of the row must be visible.
relationPredicate(table, c, visible) ==
  \A p \in parents[table] : c[p[1]] \in visible[p[2]] \/ (Nullable(table, p[1]) /\ c[p[1]] = NoId)

\* The ids of each table's projection, parents before children.
projection(actor, mem, d) ==
  LET visible[t \in Tables] ==
        IF ~Restricted(actor) THEN DOMAIN d[t]
        ELSE IF t = "tickets" THEN {i \in DOMAIN d[t] : ticketPredicate(actor, mem, d[t][i])}
        ELSE LET up == [u \in {p[2] : p \in parents[t]} |-> visible[u]]
             IN  {i \in DOMAIN d[t] : relationPredicate(t, d[t][i], up)}
  IN  visible

\* Who is told of a ticket: the identity is looked up again on delivery.
CanViewUser(user, ticket, staffOnly) ==
  \/ ~(Options.departments \/ Options.accounts)
  \/ /\ user # Nobody
     /\ staffOnly => directory[user].agent \/ directory[user].admin
     /\ ticket \in projection(ForUser(user, directory[user]), members, db)["tickets"]
     /\ directory[user].agent \/ directory[user].admin \/ db["tickets"][ticket].requester = user

Recipients(ids, ticket) == {u \in ids : CanViewUser(u, ticket, FALSE)}
-----------------------------------------------------------------------------
(* Writes.                                                                  *)

Statement(kind, table, ids, columns) == [kind |-> kind, table |-> table, ids |-> ids, columns |-> columns]
NoColumns == [c \in {} |-> NoId]
Nothing == Statement("delete", "tickets", {}, NoColumns)

\* ids: those the caller's own condition picks.
Statements ==
  {Nothing} \cup
  UNION {{Statement("insert", t, {}, c) : c \in Rows(t)}
           \cup {Statement("update", t, ids, c) : ids \in Picks[t], c \in Changes(t)}
           \cup {Statement("delete", t, ids, NoColumns) : ids \in Picks[t]} : t \in Tables}

\* Fault: only inserts are asked what they name.
NamedByInserts(s) == {p \in parents[s.table] : s.kind = "insert" /\ ~(Nullable(s.table, p[1]) /\ s.columns[p[1]] = NoId)}

\* The parents a statement names, which guardInsert looks up.
Named(s) ==
  {p \in parents[s.table] : p[1] \in DOMAIN s.columns /\ ~(Nullable(s.table, p[1]) /\ s.columns[p[1]] = NoId)}

Inserted(d, table, id, c) ==
  [d EXCEPT ![table] = [i \in DOMAIN d[table] \cup {id} |-> IF i = id THEN c ELSE d[table][i]]]

SetColumns(row, c) == [k \in DOMAIN row |-> IF k \in DOMAIN c THEN c[k] ELSE row[k]]

Updated(d, table, hit, c) ==
  [d EXCEPT ![table] = [i \in DOMAIN d[table] |-> IF i \in hit THEN SetColumns(d[table][i], c) ELSE d[table][i]]]

\* The rows that go with those hit, and what is left of the others.
Lost(d, table, hit) ==
  [t \in Tables |-> IF t = table THEN hit
                    ELSE {i \in DOMAIN d[t] : ForeignKeys /\ table = "tickets" /\ t \in Declared /\ d[t][i]["ticket_id"] \in hit}]

Unhung(t, c, replies) ==
  IF ForeignKeys /\ t = "attachments" /\ c["reply_id"] \in replies THEN [c EXCEPT !["reply_id"] = NoId] ELSE c

Deleted(d, table, hit) ==
  LET lost == Lost(d, table, hit)
  IN  [t \in Tables |-> [i \in DOMAIN d[t] \ lost[t] |-> Unhung(t, d[t][i], lost["replies"])]]

\* The parents a row names must be there, where the database looks.
ReferencesHold(s) ==
  ForeignKeys /\ s.table \in Declared => \A p \in Named(s) : s.columns[p[1]] \in DOMAIN db[p[2]]

Fresh(table) == RowIds[table] \ (IF Reuses THEN DOMAIN db[table] ELSE drawn[table])
Hit(actor, s) == s.ids \cap projection(actor, members, db)[s.table]

Insert(s) ==
  /\ s.kind = "insert" /\ ReferencesHold(s)
  /\ \E i \in Fresh(s.table) :
       db' = Inserted(db, s.table, i, s.columns) /\ drawn' = [drawn EXCEPT ![s.table] = @ \cup {i}]

Update(actor, s) ==
  /\ s.kind = "update" /\ ReferencesHold(s)
  /\ db' = Updated(db, s.table, Hit(actor, s), s.columns) /\ UNCHANGED drawn

Delete(actor, s) ==
  /\ s.kind = "delete"
  /\ db' = Deleted(db, s.table, Hit(actor, s)) /\ UNCHANGED drawn

Execute(actor, s) == Insert(s) \/ Update(actor, s) \/ Delete(actor, s)
-----------------------------------------------------------------------------
(* Requests.                                                                *)

Step(at, actor, s, left) == [at |-> at, actor |-> actor, s |-> s, left |-> left]
Idle == Step("idle", Unrestricted, Nothing, {})
Ready(actor) == Step("ready", actor, Nothing, {})

Checking == {x \in Requests : work[x].at = "check"}

\* Somebody else than x changes something.
BesideOthers(x) == overlapped' = (overlapped \cup Checking) \ {x}

\* The middleware resolves who asks, once.  The others go on in Unscoped.
Begin(x, u) ==
  /\ work[x].at = "idle" /\ Restricted(ForUser(u, directory[u]))
  /\ work' = [work EXCEPT ![x] = Ready(ForUser(u, directory[u]))]
  /\ UNCHANGED <<db, drawn, members, directory, overlapped>>

\* A statement is taken apart; deletes and other columns name no parent.
Issue(x) ==
  /\ work[x].at = "ready"
  /\ \E s \in Statements : work' = [work EXCEPT ![x] = Step("check", @.actor, s, Named(s))]
  /\ UNCHANGED <<db, drawn, members, directory, overlapped>>

\* One parent is looked up; what cannot be seen ends the statement.
guardInsert(x, p) ==
  /\ work[x].at = "check" /\ p \in work[x].left
  /\ IF work[x].s.columns[p[1]] \in projection(work[x].actor, members, db)[p[2]]
     THEN work' = [work EXCEPT ![x].left = @ \ {p}] /\ UNCHANGED overlapped
     ELSE work' = [work EXCEPT ![x] = Ready(@.actor)] /\ overlapped' = overlapped \ {x}
  /\ UNCHANGED <<db, drawn, members, directory>>

\* The statement runs.
Run(x) ==
  /\ work[x].at = "check" /\ work[x].left = {}
  /\ Execute(work[x].actor, work[x].s)
  /\ work' = [work EXCEPT ![x] = Ready(@.actor)] /\ BesideOthers(x)
  /\ UNCHANGED <<members, directory>>

\* The database refuses the statement, or fails.
Fail(x) ==
  /\ work[x].at = "check"
  /\ work' = [work EXCEPT ![x] = Ready(@.actor)] /\ overlapped' = overlapped \ {x}
  /\ UNCHANGED <<db, drawn, members, directory>>

\* The answer is written, or the client has gone.
Leave(x) ==
  /\ work[x].at # "idle"
  /\ work' = [work EXCEPT ![x] = Idle] /\ overlapped' = overlapped \ {x}
  /\ UNCHANGED <<db, drawn, members, directory>>

\* A statement of a context without an actor, or of somebody not restricted:
\* nothing is looked up.  They name rows that they have loaded, at some time.
Unscoped(s) ==
  /\ \A p \in Named(s) : s.columns[p[1]] \in drawn[p[2]]
  /\ Execute(Unrestricted, s)
  /\ overlapped' = overlapped \cup Checking
  /\ UNCHANGED <<members, directory, work>>

\* The host keeps department_agent and its directory.
HostChangesMembers(m) ==
  /\ members' = IF m \in members THEN members \ {m} ELSE members \cup {m}
  /\ overlapped' = overlapped \cup Checking
  /\ UNCHANGED <<db, drawn, directory, work>>

HostChangesUser(u, identity) ==
  /\ directory' = [directory EXCEPT ![u] = identity]
  /\ UNCHANGED <<db, drawn, members, work, overlapped>>

Init ==
  /\ db = [t \in Tables |-> [i \in {} |-> NoColumns]]
  /\ drawn = [t \in Tables |-> {}]
  /\ members = {} /\ directory \in [Users -> Identities]
  /\ work = [x \in Requests |-> Idle] /\ overlapped = {}

Next ==
  \/ \E x \in Requests :
       \/ \E u \in Users : Begin(x, u)
       \/ \E p \in work[x].left : guardInsert(x, p)
       \/ Issue(x) \/ Run(x) \/ Fail(x) \/ Leave(x)
  \/ \E s \in Statements : Unscoped(s)
  \/ \E m \in Departments \X Users : HostChangesMembers(m)
  \/ \E u \in Users, identity \in Identities : HostChangesUser(u, identity)

Spec == Init /\ [][Next]_vars
-----------------------------------------------------------------------------
(* What a scope means.                                                      *)

\* The rows a row hangs from, itself with them: nothing hangs deeper.
Above(d, a) ==
  {<<p[2], d[a[1]][a[2]][p[1]]>> : p \in {q \in parents[a[1]] : d[a[1]][a[2]][q[1]] \in DOMAIN d[q[2]]}}
Lineage(d, t, i) == {<<t, i>>} \cup Above(d, <<t, i>>) \cup UNION {Above(d, a) : a \in Above(d, <<t, i>>)}

\* Every parent that is named is there.
Hangs(d, t, c) == \A p \in parents[t] : c[p[1]] \in DOMAIN d[p[2]] \/ (Nullable(t, p[1]) /\ c[p[1]] = NoId)

InScope(actor, mem, d, t, i) ==
  Restricted(actor) =>
    \A a \in Lineage(d, t, i) :
       /\ Hangs(d, a[1], d[a[1]][a[2]])
       /\ a[1] = "tickets" => ticketPredicate(actor, mem, d["tickets"][a[2]])
-----------------------------------------------------------------------------
Actors == {ForUser(u, directory[u]) : u \in Users} \cup {work[x].actor : x \in Requests}
AllActors == {Unrestricted} \cup {ForUser(u, identity) : u \in Users, identity \in Identities}

TypeOK ==
  /\ db = [t \in Tables |-> db[t]]
  /\ drawn \in [Tables -> SUBSET UNION {RowIds[t] : t \in Tables}]
  /\ \A t \in Tables : DOMAIN db[t] \subseteq drawn[t] /\ drawn[t] \subseteq RowIds[t] /\ db[t] \in [DOMAIN db[t] -> Rows(t)]
  /\ members \subseteq Departments \X Users
  /\ directory \in [Users -> Identities]
  /\ work \in [Requests -> [at : {"idle", "ready", "check"}, actor : AllActors, s : Statements,
                            left : SUBSET UNION {parents[t] : t \in Tables}]]
  /\ overlapped \subseteq Requests

\* A read shows exactly the rows that hang, all through, from tickets in scope,
\* whatever was merged, moved or deleted (scopedSQL).
ReadsInScope ==
  \A actor \in Actors : \A t \in Tables : \A i \in DOMAIN db[t] :
     i \in projection(actor, members, db)[t] <=> InScope(actor, members, db, t, i)

\* Who is told of a ticket is an admin, or an agent now in its department and
\* account, or its requester, and everybody who is (Recipients).
ToldInScope ==
  Options.departments \/ Options.accounts =>
    \A i \in DOMAIN db["tickets"] : \A u \in Users :
       u \in Recipients(Users, i) <=>
         /\ u # Nobody
         /\ \/ directory[u].admin
            \/ /\ directory[u].agent
               /\ Options.departments => <<db["tickets"][i].department, u>> \in members
               /\ Options.accounts => directory[u].account # Nil /\ db["tickets"][i].account = directory[u].account
            \/ ~directory[u].agent /\ ~directory[u].admin /\ db["tickets"][i].requester = u

ScopeHolds == ReadsInScope /\ ToldInScope

\* x's own statement is run by this step.
Runs(x) == work[x].at = "check" /\ work[x].left = {} /\ work'[x] = Ready(work[x].actor) /\ db' # db

\* A statement touches rows in scope when it runs, and rows that hung from one
\* that it deletes; and unless others changed something after it was taken
\* apart, what it hangs, it hangs in scope (scopedSQL, guardInsert).
WritesInScope ==
  \A x \in Requests : Runs(x) =>
    \A actor \in {work[x].actor}, s \in {work[x].s} :
      /\ \A t \in Tables : \A i \in DOMAIN db[t] :
           \/ i \in DOMAIN db'[t] /\ db'[t][i] = db[t][i]
           \/ InScope(actor, members, db, t, i)
           \/ \E p \in parents[t] : \E j \in DOMAIN db[p[2]] \ DOMAIN db'[p[2]] :
                 db[t][i][p[1]] = j /\ InScope(actor, members, db, p[2], j)
      /\ x \notin overlapped /\ s.table # "tickets" =>
           \A i \in DOMAIN db'[s.table] :
              \/ i \in DOMAIN db[s.table] /\ db'[s.table][i] = db[s.table][i]
              \/ InScope(actor, members, db', s.table, i)

\* No statement of an agent's own brings a row into scope that was out of it,
\* unless it is given the id of a row that went (orphans named it).
NothingGained ==
  \A x \in Requests : Runs(x) =>
    \A actor \in {work[x].actor} : \A t \in Tables : \A i \in DOMAIN db[t] \cap DOMAIN db'[t] :
       InScope(actor, members, db', t, i) => InScope(actor, members, db, t, i)

StatementsHold == WritesInScope /\ (~Reuses => NothingGained)

ScopeConstants ==
  /\ Options \in [departments : BOOLEAN, accounts : BOOLEAN]
  /\ \A f \in Filings : f = [department |-> f.department, account |-> f.account, requester |-> f.requester]
  /\ \A identity \in Identities : identity.agent \in BOOLEAN /\ identity.admin \in BOOLEAN
  /\ RowIds \in [Tables -> SUBSET Nat] /\ \A t \in Tables : NoId \notin RowIds[t]
  /\ ForeignKeys \in BOOLEAN /\ Reuses \in BOOLEAN
=============================================================================
