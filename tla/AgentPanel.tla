------------------------------ MODULE AgentPanel ------------------------------
(***************************************************************************)
(* What the agent panel keeps of the tickets (services/agent_panel.go,       *)
(* handlers/agent_panel.go, TicketService.AddReply): who has read which, and *)
(* the agents' notifications. A reply is stored, then told of, step by step. *)
(* Instants are counted PerSecond to the second; columns hold seconds.       *)
(***************************************************************************)
EXTENDS Integers, FiniteSets

CONSTANTS Agents, Customer, Tickets, Workers, Nil,
          PerSecond, MaxTime,   \* bound: the last instant
          MaxReplies,           \* bound on the replies
          MaxClicks             \* bound on what agents do beside replying

PanelConstants ==
  /\ Customer \notin Agents /\ IsFiniteSet(Agents) /\ IsFiniteSet(Workers)
  /\ PerSecond \in Nat \ {0} /\ MaxTime \in Nat /\ MaxReplies \in Nat

VARIABLES now,
          tickets,   \* ticket -> [assigned, followers, activity], activity -1 for none
          sees,      \* agent -> the tickets in their sight
          replies,   \* [n, ticket, author, at, internal]
          reads,     \* agent -> ticket -> a second, Absent, or Marked unread
          notes,     \* notifications [user, kind, ticket, reply, k, read]; k tells copies apart
          work,      \* worker -> the reply it handles
          told,      \* the customer's replies whose handler is done
          late,      \* tickets whose activity a slower handler set back
          clicks
vars == <<now, tickets, sees, replies, reads, notes, work, told, late, clicks>>

Second(i) == i \div PerSecond
Absent == -2
Marked == -1
Idle == [at |-> "idle", ticket |-> Nil, reply |-> 0, assigned |-> Nil, author |-> Nil]
Authors == Agents \cup {Customer}

TypeOK ==
  /\ now \in 0..MaxTime /\ sees \in [Agents -> SUBSET Tickets]
  /\ tickets \in [Tickets -> [assigned : Agents \cup {Nil}, followers : SUBSET Agents, activity : -1..Second(MaxTime)]]
  /\ replies \subseteq [n : 1..MaxReplies, ticket : Tickets, author : Authors, at : 0..MaxTime, internal : BOOLEAN]
  /\ reads \in [Agents -> [Tickets -> Absent..Second(MaxTime)]]
  /\ \A n \in notes : n.user \in Agents /\ n.ticket \in Tickets /\ n.read \in BOOLEAN
  /\ \A w \in Workers : work[w].at \in {"idle", "create", "activity", "notify", "mentions"}

Init ==
  /\ now = 0 /\ sees = [a \in Agents |-> Tickets] /\ replies = {} /\ notes = {} /\ told = {} /\ late = {} /\ clicks = 0
  /\ tickets \in [Tickets -> [assigned : {Nil}, followers : {{}}, activity : {-1, 0}]]
  /\ reads = [a \in Agents |-> [t \in Tickets |-> Absent]]
  /\ work = [w \in Workers |-> Idle]
-----------------------------------------------------------------------------
Tick ==
  /\ now < MaxTime /\ now' = now + 1
  /\ UNCHANGED <<tickets, sees, replies, reads, notes, work, told, late, clicks>>

\* Notify(): nobody is notified of what they did themselves. times says how
\* often each agent is among the recipients, whose rows are one step here.
Notified(times, kind, t, reply, causer) ==
  notes \cup UNION {{[user |-> a, kind |-> kind, ticket |-> t, reply |-> reply, k |-> k, read |-> FALSE] : k \in 1..times[a]} :
                      a \in Agents \ {causer}}

TheReply(w) == CHOOSE r \in replies : r.n = work[w].reply
CustomerSide(r) == ~r.internal /\ r.author = Customer

\* AddReply(): the ticket is loaded first, with its assignee.
AddReply(w, t, author) ==
  /\ work[w] = Idle /\ Cardinality(replies) + Cardinality({v \in Workers : work[v].at = "create"}) < MaxReplies
  /\ (author \in Agents => t \in sees[author])
  /\ work' = [work EXCEPT ![w] = [Idle EXCEPT !.at = "create", !.ticket = t, !.assigned = tickets[t].assigned, !.author = author]]
  /\ UNCHANGED <<now, tickets, sees, replies, reads, notes, told, late, clicks>>

CreateReply(w, internal) ==
  LET n == Cardinality(replies) + 1
  IN  /\ work[w].at = "create" /\ (internal => work[w].author \in Agents)
      /\ replies' = replies \cup {[n |-> n, ticket |-> work[w].ticket, author |-> work[w].author, at |-> now, internal |-> internal]}
      /\ work' = [work EXCEPT ![w].at = IF internal THEN "mentions" ELSE "activity", ![w].reply = n]
      /\ UNCHANGED <<now, tickets, sees, reads, notes, told, late, clicks>>

\* customerActivity(): the reply's own time, written over what is there.
customerActivity(w) ==
  LET r == TheReply(w) IN
  /\ work[w].at = "activity"
  /\ IF CustomerSide(r)
     THEN /\ tickets' = [tickets EXCEPT ![r.ticket].activity = Second(r.at)]
          /\ late' = IF tickets[r.ticket].activity > Second(r.at) THEN late \cup {r.ticket} ELSE late
          /\ work' = [work EXCEPT ![w].at = "notify"]
     ELSE work' = [work EXCEPT ![w].at = "mentions"] /\ UNCHANGED <<tickets, late>>
  /\ UNCHANGED <<now, sees, replies, reads, notes, told, clicks>>

\* The assignee the ticket was loaded with and its followers, once each.
Recipients(w) == [a \in Agents |-> IF a = work[w].assigned \/ a \in tickets[work[w].ticket].followers THEN 1 ELSE 0]

ReplyCreated(w) ==
  LET r == TheReply(w) IN
  /\ work[w].at = "notify"
  /\ notes' = Notified(Recipients(w), "ticket_reply", r.ticket, r.n, r.author)
  /\ told' = told \cup {[n |-> r.n, assigned |-> work[w].assigned]}
  /\ work' = [work EXCEPT ![w] = Idle]
  /\ UNCHANGED <<now, tickets, sees, replies, reads, late, clicks>>

\* Only who sees the ticket.
ReplyMentions(w, mentioned) ==
  LET r == TheReply(w) IN
  /\ work[w].at = "mentions"
  /\ notes' = Notified([a \in Agents |-> IF a \in mentioned /\ r.ticket \in sees[a] THEN 1 ELSE 0], "mention", r.ticket, r.n, r.author)
  /\ work' = [work EXCEPT ![w] = Idle]
  /\ UNCHANGED <<now, tickets, sees, replies, reads, told, late, clicks>>
-----------------------------------------------------------------------------
Click == clicks < MaxClicks /\ clicks' = clicks + 1

\* TicketEvent("ticket.assigned").
Assign(t, a, by) ==
  /\ Click /\ tickets[t].assigned # a
  /\ tickets' = [tickets EXCEPT ![t].assigned = a]
  /\ notes' = Notified([b \in Agents |-> IF b = a THEN 1 ELSE 0], "ticket_assigned", t, -clicks, by)
  /\ UNCHANGED <<now, sees, replies, reads, work, told, late>>

Follow(t, a) ==
  /\ Click /\ t \in sees[a]
  /\ tickets' = [tickets EXCEPT ![t].followers = IF a \in @ THEN @ \ {a} ELSE @ \cup {a}]
  /\ UNCHANGED <<now, sees, replies, reads, notes, work, told, late>>

\* A department or an account moves the ticket out of an agent's sight, or back.
MoveSight(a, t) ==
  /\ Click /\ sees' = [sees EXCEPT ![a] = IF t \in @ THEN @ \ {t} ELSE @ \cup {t}]
  /\ UNCHANGED <<now, tickets, replies, reads, notes, work, told, late>>

\* The ticket's page, the list's actions and the bulk ones; the ticket was
\* found through the agent's sight.
MarkRead(a, t) ==
  /\ Click /\ t \in sees[a] /\ reads[a][t] # Second(now)
  /\ reads' = [reads EXCEPT ![a][t] = Second(now)]
  /\ UNCHANGED <<now, tickets, sees, replies, notes, work, told, late>>
MarkUnread(a, t) ==
  /\ Click /\ t \in sees[a] /\ reads[a][t] # Marked
  /\ reads' = [reads EXCEPT ![a][t] = Marked]
  /\ UNCHANGED <<now, tickets, sees, replies, notes, work, told, late>>

Mine(a) == {n \in notes : n.user = a}
ReadNotification(a, n) ==
  /\ Click /\ n \in Mine(a) /\ ~n.read
  /\ notes' = (notes \ {n}) \cup {[n EXCEPT !.read = TRUE]}
  /\ UNCHANGED <<now, tickets, sees, replies, reads, work, told, late>>
ReadAllNotifications(a) ==
  /\ Click /\ (\E n \in Mine(a) : ~n.read)
  /\ notes' = (notes \ Mine(a)) \cup {[n EXCEPT !.read = TRUE] : n \in Mine(a)}
  /\ UNCHANGED <<now, tickets, sees, replies, reads, work, told, late>>

UnreadCount(a) == Cardinality({n \in Mine(a) : ~n.read})
\* unread(): the flag on a row of the agent's list.
unread(a, t) ==
  LET read == reads[a][t]
  IN  read = Marked \/ (tickets[t].activity # -1 /\ (read = Absent \/ read < tickets[t].activity))
\* present(): the ticket shows only while it is in the agent's sight.
Feed(a) == {[note |-> [x EXCEPT !.ticket = Nil], read |-> x.read, ticket |-> IF x.ticket \in sees[a] THEN x.ticket ELSE Nil] : x \in Mine(a)}
-----------------------------------------------------------------------------
Next ==
  \/ Tick
  \/ \E w \in Workers :
       \/ \E t \in Tickets, author \in Authors : AddReply(w, t, author)
       \/ \E internal \in BOOLEAN : CreateReply(w, internal)
       \/ customerActivity(w) \/ ReplyCreated(w)
       \/ \E s \in SUBSET Agents : ReplyMentions(w, s)
  \/ \E t \in Tickets, a \in Agents :
       \/ \E by \in Agents : Assign(t, a, by)
       \/ Follow(t, a) \/ MoveSight(a, t) \/ MarkRead(a, t) \/ MarkUnread(a, t)
  \/ \E a \in Agents : ReadAllNotifications(a) \/ \E n \in notes : ReadNotification(a, n)

Spec == Init /\ [][Next]_vars
-----------------------------------------------------------------------------
\* An agent is told once at most of a reply, never of their own, and the
\* assignee it was stored with is told; once it was told of, a customer's reply
\* of a later second than an agent's reading leaves the ticket unread for them,
\* unless a slower handler set the activity back, for which two must overlap;
\* and the unread count is that of the feed, hidden tickets included.
PanelHolds ==
  /\ \A n, m \in notes : n.reply > 0 /\ n.reply = m.reply /\ n.user = m.user => n = m
  /\ \A n \in notes : n.kind # "ticket_assigned" => \A r \in replies : r.n = n.reply => r.author # n.user
  /\ \A x \in told : x.assigned # Nil => \E n \in notes : n.reply = x.n /\ n.user = x.assigned
  /\ \A x \in told, r \in replies, a \in Agents :
       r.n = x.n /\ r.ticket \notin late /\ reads[a][r.ticket] < Second(r.at) => unread(a, r.ticket)
  /\ Cardinality(Workers) = 1 => late = {}
  /\ \A a \in Agents : UnreadCount(a) = Cardinality({x \in Feed(a) : ~x.read})
=============================================================================
