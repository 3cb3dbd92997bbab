----------------------------- MODULE ChatSessions -----------------------------
(***************************************************************************)
(* Live chats: a row of escalated_chat_sessions beside the ticket it was    *)
(* opened with (services/chat_session_service.go, chat_routing_service.go,  *)
(* handlers/chat.go, handlers/widget_chat.go).  A handler reads the session *)
(* and checks its status, then writes the session and the ticket back one   *)
(* after the other, each row whole, with no transaction and no version      *)
(* check.  Every such step is an action; a handler is the list of the steps *)
(* it still has to do.                                                      *)
(***************************************************************************)
EXTENDS Naturals, Sequences, FiniteSets

CONSTANTS
  Chats,       \* chat sessions, each with its ticket
  Agents,      \* the agents the routing rules name
  Procs,       \* goroutines that handle requests
  Sweepers,    \* and those that also run the sweeps for the host
  MaxChats,    \* max_concurrent_chats of the routing rule
  WaitLimit,   \* MarkAbandonedSessions' and
  IdleLimit,   \* CloseIdleSessions' argument
  Nil,
  MaxTime, MaxJobs, MaxCrashes   \* bounds of the clock, the requests, the crashes

ASSUME ChatConstants ==
  /\ MaxChats \in Nat \ {0} /\ WaitLimit \in Nat /\ IdleLimit \in Nat
  /\ IsFiniteSet(Chats) /\ IsFiniteSet(Procs) /\ Sweepers \subseteq Procs
  /\ MaxTime \in Nat /\ MaxJobs \in Nat /\ MaxCrashes \in Nat

VARIABLES
  sessions,   \* escalated_chat_sessions: a row, or Nil
  tickets,    \* the chat part of the ticket row
  now,
  job,        \* what each goroutine is in the middle of
  byHand,     \* chats an agent accepted or was handed by name, not by routing
  since,      \* when each chat last began to wait
  apart,      \* no two handlers have overlapped and none has crashed
  jobs, crashes

vars == <<sessions, tickets, now, job, byHand, since, apart, jobs, crashes>>

Over == {"ended", "abandoned"}

\* joined and ended: agent_joined_at and ended_at are set; seen: last_activity_at.
\* An active chat has an agent, and a chat is over when it has an end.
SessionRow ==
  {r \in [status : {"waiting", "active"} \cup Over, agent : Agents \cup {Nil},
          joined : BOOLEAN, ended : BOOLEAN, seen : 0..MaxTime, created : 0..MaxTime] :
     /\ r.status = "active" => r.agent # Nil /\ r.joined
     /\ r.status \in Over <=> r.ended}

\* rated: the metadata has a chat_rating. The handlers also stamp ChatEndedAt,
\* which no store writes or reads: the stored row has no such field.
TicketRow == [status : {"live", "open"}, assignee : Agents \cup {Nil}, rated : BOOLEAN]

ASSUME NilIsNothing == Nil \notin Chats \cup Agents \cup SessionRow \cup TicketRow

Steps == {"create", "route", "saveSession", "assignTicket", "endTicket", "rateTicket", "saveTicket"}

NoneListed == [c \in Chats |-> Nil]

\* row and tk are the session and ticket in memory, todo the steps left,
\* listed the sessions a sweep has still to visit, ending what it makes of them.
Job == [chat : Chats \cup {Nil}, row : SessionRow \cup {Nil}, tk : TicketRow \cup {Nil},
        todo : Seq(Steps), listed : [Chats -> SessionRow \cup {Nil}], ending : Over \cup {Nil}]

Idle == [chat |-> Nil, row |-> Nil, tk |-> Nil, todo |-> <<>>, listed |-> NoneListed,
         ending |-> Nil]

Started == {c \in Chats : sessions[c] # Nil}

\* Store.CountActiveChatsForAgent.
Load(a) == Cardinality({c \in Started : sessions[c].status = "active" /\ sessions[c].agent = a})

Init ==
  /\ sessions = [c \in Chats |-> Nil] /\ tickets = [c \in Chats |-> Nil]
  /\ now = 0 /\ job = [p \in Procs |-> Idle]
  /\ byHand = {} /\ since = [c \in Chats |-> 0] /\ apart = TRUE
  /\ jobs = 0 /\ crashes = 0

-----------------------------------------------------------------------------
\* What the operations make of a session row.
Waiting == [status |-> "waiting", agent |-> Nil, joined |-> FALSE, ended |-> FALSE,
            seen |-> now, created |-> now]

Joined(r, a) == [r EXCEPT !.status = "active", !.agent = a, !.joined = TRUE]

Ended(r, how) == [r EXCEPT !.status = how, !.ended = TRUE]

\* Fault: the chat stays active.
RequeuedActive(r) == [r EXCEPT !.agent = Nil]

Requeued(r) == [r EXCEPT !.status = "waiting", !.agent = Nil]

-----------------------------------------------------------------------------
\* A goroutine sets out: with others at work nothing is apart any more.
Begin(p, j) ==
  /\ job[p] = Idle
  /\ job' = [job EXCEPT ![p] = j]
  /\ apart' = (apart /\ \A q \in Procs : job[q] = Idle)

Request(p, j) == /\ jobs < MaxJobs /\ jobs' = jobs + 1
                 /\ Begin(p, j)

Handler(c, row, todo) == [Idle EXCEPT !.chat = c, !.row = row, !.todo = todo]

Assigning == <<"saveSession", "assignTicket", "saveTicket">>
Ending == <<"saveSession", "endTicket", "saveTicket">>

\* StartSession: the ticket goes in first, under the next id.
Start(p, c) ==
  /\ tickets[c] = Nil /\ c = CHOOSE d \in Chats : tickets[d] = Nil
  /\ Request(p, Handler(c, Nil, <<"create", "route">>))
  /\ tickets' = [tickets EXCEPT ![c] = [status |-> "live", assignee |-> Nil, rated |-> FALSE]]
  /\ UNCHANGED <<sessions, now, byHand, since, crashes>>

\* AcceptSession, for the agent who asks.
Accept(p, c) ==
  /\ c \in Started /\ sessions[c].status = "waiting"
  /\ \E a \in Agents : Request(p, Handler(c, Joined(sessions[c], a), Assigning))
  /\ byHand' = byHand \cup {c}
  /\ UNCHANGED <<sessions, tickets, now, since, crashes>>

\* TransferSession to an agent (who finds a waiting chat still waiting) ...
TransferToAgent(p, c) ==
  /\ c \in Started /\ sessions[c].status \notin Over
  /\ \E a \in Agents : Request(p, Handler(c, [sessions[c] EXCEPT !.agent = a],
                                          <<"assignTicket", "saveSession", "saveTicket">>))
  /\ byHand' = byHand \cup {c}
  /\ UNCHANGED <<sessions, tickets, now, since, crashes>>

\* ... or to a department: back to the queue, then routed.
TransferToDepartment(p, c) ==
  /\ c \in Started /\ sessions[c].status \notin Over
  /\ Request(p, Handler(c, Requeued(sessions[c]),
                        <<"assignTicket", "saveSession", "saveTicket", "route">>))
  /\ UNCHANGED <<sessions, tickets, now, byHand, since, crashes>>

\* SendMessage: the agent's needs an active chat, the widget's /chat/{id} one
\* that is not over, its /chat/sessions/{ref} none of either.
Message(p, c) ==
  /\ c \in Started
  /\ Request(p, Handler(c, [sessions[c] EXCEPT !.seen = now], <<"saveSession">>))
  /\ UNCHANGED <<sessions, tickets, now, byHand, since, crashes>>

\* EndSession; the console's and the /chat/sessions/{ref} end ask no status.
End(p, c) ==
  /\ c \in Started
  /\ Request(p, Handler(c, Ended(sessions[c], "ended"), Ending))
  /\ UNCHANGED <<sessions, tickets, now, byHand, since, crashes>>

Rate(p, c) ==
  /\ c \in Started /\ sessions[c].status \in Over
  /\ Request(p, Handler(c, sessions[c], <<"rateTicket", "saveTicket">>))
  /\ UNCHANGED <<sessions, tickets, now, byHand, since, crashes>>

\* A sweep lists the sessions it will end.
Sweep(p, S, how) ==
  /\ S # {}
  /\ Begin(p, [Idle EXCEPT !.listed = [c \in Chats |-> IF c \in S THEN sessions[c] ELSE Nil],
                           !.ending = how])
  /\ UNCHANGED <<sessions, tickets, now, byHand, since, jobs, crashes>>

CloseIdleSessions(p) ==
  Sweep(p, {c \in Started : /\ sessions[c].status \notin Over
                            /\ sessions[c].seen + IdleLimit < now}, "ended")

\* Fault: a chat handed to an agent who has not answered is passed over.
MarkUnassignedOnly(p) ==
  Sweep(p, {c \in Started : /\ sessions[c].status = "waiting" /\ sessions[c].agent = Nil
                            /\ sessions[c].created + WaitLimit < now}, "abandoned")

MarkAbandonedSessions(p) ==
  Sweep(p, {c \in Started : /\ sessions[c].status = "waiting"
                            /\ sessions[c].created + WaitLimit < now}, "abandoned")

-----------------------------------------------------------------------------
\* The step just done is off the list; a sweep keeps its listing.
Done(j) == IF Len(j.todo) > 1 THEN [j EXCEPT !.todo = Tail(@)]
           ELSE IF j.listed = NoneListed THEN Idle
           ELSE [Idle EXCEPT !.listed = j.listed, !.ending = j.ending]

At(p, step) == job[p].todo # <<>> /\ Head(job[p].todo) = step
Goes(p, j) == job' = [job EXCEPT ![p] = j]

\* A sweep goes on with one of the rows it listed.
NextListed(p) ==
  LET j == job[p]
  IN  /\ j.todo = <<>>
      /\ \E c \in {d \in Chats : j.listed[d] # Nil} :
           Goes(p, [j EXCEPT !.chat = c, !.row = Ended(j.listed[c], j.ending),
                             !.todo = Ending, !.listed[c] = Nil])
      /\ UNCHANGED <<sessions, tickets, now, byHand, since, apart, jobs, crashes>>

CreateSession(p) ==
  LET j == job[p]
  IN  /\ At(p, "create")
      /\ sessions' = [sessions EXCEPT ![j.chat] = Waiting]
      /\ since' = [since EXCEPT ![j.chat] = now]
      /\ Goes(p, [Done(j) EXCEPT !.row = Waiting])
      /\ UNCHANGED <<tickets, now, byHand, apart, jobs, crashes>>

\* Fault: an agent at the limit is still picked.
RouteAtLimit(p) ==
  LET j == job[p]
  IN  /\ At(p, "route")
      /\ \/ \E a \in Agents :
              /\ Load(a) <= MaxChats
              /\ Goes(p, [j EXCEPT !.row = Joined(@, a), !.todo = Assigning])
         \/ Goes(p, Idle)
      /\ UNCHANGED <<sessions, tickets, now, byHand, since, apart, jobs, crashes>>

\* FindAvailableAgent: an agent below the limit when counted; none if those are
\* offline.  The lock is let go before the agent is assigned.
Route(p) ==
  LET j == job[p]
  IN  /\ At(p, "route")
      /\ \/ \E a \in Agents :
              /\ Load(a) < MaxChats
              /\ Goes(p, [j EXCEPT !.row = Joined(@, a), !.todo = Assigning])
         \/ Goes(p, Idle)
      /\ UNCHANGED <<sessions, tickets, now, byHand, since, apart, jobs, crashes>>

\* store.UpdateChatSession: the row in memory replaces every column.
SaveSession(p) ==
  LET j == job[p]
  IN  /\ At(p, "saveSession")
      /\ sessions' = [sessions EXCEPT ![j.chat] = j.row]
      /\ since' = [since EXCEPT ![j.chat] = IF /\ j.row.status = "waiting"
                                               /\ sessions[j.chat].status # "waiting"
                                            THEN now ELSE @]
      /\ Goes(p, Done(j))
      /\ UNCHANGED <<tickets, now, byHand, apart, jobs, crashes>>

\* The ticket as the handler will write it: AssignAgent and TransferSession
\* give it the session's agent ...
AssignTicket(p) ==
  LET j == job[p]
  IN  /\ At(p, "assignTicket")
      /\ Goes(p, [Done(j) EXCEPT !.tk = [tickets[j.chat] EXCEPT !.assignee = j.row.agent]])
      /\ UNCHANGED <<sessions, tickets, now, byHand, since, apart, jobs, crashes>>

\* Fault: an abandoned chat's ticket stays live.
EndTicketEndedOnly(p) ==
  LET j == job[p]
      status == IF j.row.status = "ended" THEN "open" ELSE tickets[j.chat].status
  IN  /\ At(p, "endTicket")
      /\ Goes(p, [Done(j) EXCEPT !.tk = [tickets[j.chat] EXCEPT !.status = status]])
      /\ UNCHANGED <<sessions, tickets, now, byHand, since, apart, jobs, crashes>>

\* ... endSession and MarkAbandonedSessions open it ...
EndTicket(p) ==
  LET j == job[p]
  IN  /\ At(p, "endTicket")
      /\ Goes(p, [Done(j) EXCEPT !.tk = [tickets[j.chat] EXCEPT !.status = "open"]])
      /\ UNCHANGED <<sessions, tickets, now, byHand, since, apart, jobs, crashes>>

\* ... and RateChat rates it, unless it is rated.
RateTicket(p) ==
  LET j == job[p]
  IN  /\ At(p, "rateTicket")
      /\ Goes(p, IF tickets[j.chat].rated THEN Idle
                 ELSE [Done(j) EXCEPT !.tk = [tickets[j.chat] EXCEPT !.rated = TRUE]])
      /\ UNCHANGED <<sessions, tickets, now, byHand, since, apart, jobs, crashes>>

SaveTicket(p) ==
  LET j == job[p]
  IN  /\ At(p, "saveTicket")
      /\ tickets' = [tickets EXCEPT ![j.chat] = j.tk]
      /\ Goes(p, Done(j))
      /\ UNCHANGED <<sessions, now, byHand, since, apart, jobs, crashes>>

-----------------------------------------------------------------------------
Tick ==
  /\ now < MaxTime
  /\ now' = now + 1
  /\ UNCHANGED <<sessions, tickets, job, byHand, since, apart, jobs, crashes>>

Crash(p) ==
  /\ crashes < MaxCrashes /\ job[p] # Idle
  /\ crashes' = crashes + 1
  /\ apart' = FALSE
  /\ Goes(p, Idle)
  /\ UNCHANGED <<sessions, tickets, now, byHand, since, jobs>>

Requests(p) ==
  \E c \in Chats : \/ Start(p, c) \/ Accept(p, c) \/ TransferToAgent(p, c)
                   \/ TransferToDepartment(p, c) \/ Message(p, c) \/ End(p, c) \/ Rate(p, c)

Sweeps(p) == p \in Sweepers /\ (CloseIdleSessions(p) \/ MarkAbandonedSessions(p))

Proceed(p) == \/ NextListed(p) \/ CreateSession(p) \/ Route(p) \/ SaveSession(p)
              \/ AssignTicket(p) \/ EndTicket(p) \/ RateTicket(p) \/ SaveTicket(p)

Next == Tick \/ \E p \in Procs : Requests(p) \/ Sweeps(p) \/ Proceed(p) \/ Crash(p)

Spec == Init /\ [][Next]_vars

\* A running handler is scheduled, and the host keeps calling
\* MarkAbandonedSessions; it may never call CloseIdleSessions.
FairSpec == /\ Spec
            /\ \A p \in Procs : WF_vars(Proceed(p))
            /\ \A p \in Sweepers : WF_vars(MarkAbandonedSessions(p))

-----------------------------------------------------------------------------
\* Among the types: an active chat has an agent who joined and a chat is over
\* exactly when it has an end, in the table and in every handler's memory, so
\* whichever stale row is written last (UpdateChatSession) is a whole one.
TypeOK ==
  /\ sessions \in [Chats -> SessionRow \cup {Nil}]
  /\ tickets \in [Chats -> TicketRow \cup {Nil}]
  /\ now \in 0..MaxTime
  /\ job \in [Procs -> Job]
  /\ byHand \subseteq Chats
  /\ since \in [Chats -> 0..MaxTime]
  /\ apart \in BOOLEAN /\ jobs \in Nat /\ crashes \in Nat

\* Chats given out by routing alone: the count and the assignment are apart, so
\* chats routed together can exceed an agent's max_concurrent_chats, but by no
\* more than the other goroutines; and not at all if handlers never overlap.
RoutingKeepsLimit ==
  \A a \in Agents :
    Cardinality({c \in Started \ byHand : sessions[c].status = "active" /\ sessions[c].agent = a})
      <= MaxChats + (IF apart THEN 0 ELSE Cardinality(Procs) - 1)

\* If no handlers overlap or crash, then between requests the two rows agree: the
\* ticket is assigned to the chat's agent, and is live until the chat is over
\* and open from then on.
SessionAndTicketAgree ==
  (apart /\ \A p \in Procs : job[p] = Idle) =>
    \A c \in Chats :
      /\ (sessions[c] = Nil) <=> (tickets[c] = Nil)
      /\ sessions[c] # Nil =>
           /\ tickets[c].assignee = sessions[c].agent
           /\ (sessions[c].status \in Over) <=> (tickets[c].status = "open")

\* A chat that has waited past the limit does not wait for ever: it is answered,
\* ended or abandoned, though stale rows may put it back to waiting meanwhile.
WaitingChatsEnd ==
  \A c \in Chats :
    (c \in Started /\ sessions[c].status = "waiting" /\ sessions[c].created + WaitLimit < now)
      ~> (c \in Started /\ sessions[c].status # "waiting")

\* MarkAbandonedSessions "marks sessions that have been waiting too long without
\* an agent": one it abandons has waited longer than the limit since it last
\* began to wait.
AbandonedWaitedLong ==
  [][\A c \in Started : (sessions'[c].status = "abandoned" /\ sessions[c].status = "waiting")
       => since[c] + WaitLimit < now]_vars
=============================================================================
