-------------------------- MODULE ChatSessionsProofs --------------------------
(***************************************************************************)
(* What survives overlapping handlers of chats: rows are whole in the table  *)
(* and in every memory, and routing passes an agent's limit by no more than  *)
(* the other goroutines, whatever stale rows are written back.               *)
(***************************************************************************)
EXTENDS ChatSessions, TLAPS, FiniteSetTheorems

Makers == {"assignTicket", "endTicket", "rateTicket"}

\* A handler has a row to save and, when it comes to save one, a ticket; what it
\* routes waits; what a sweep has listed, it ends.
JobSound(j) ==
  /\ j \in Job
  /\ \A i \in 1..Len(j.todo) :
       /\ j.todo[i] = "create" => i = 1
       /\ j.todo[i] = "route" => j.row = Nil \/ j.row.status = "waiting"
       /\ j.todo[i] = "saveTicket" => j.tk # Nil \/ \E k \in 1..(i - 1) : j.todo[k] \in Makers
  /\ j.todo # <<>> => j.chat \in Chats /\ (j.row # Nil \/ Head(j.todo) = "create")
  /\ \A c \in Chats : j.listed[c] # Nil => j.ending \in Over

\* The tickets of the chats a job is about exist.
OfTickets(j, T) ==
  /\ j.todo # <<>> => T[j.chat] # Nil
  /\ \A c \in Chats : j.listed[c] # Nil => T[c] # Nil

TInv ==
  /\ TypeOK
  /\ \A p \in Procs : JobSound(job[p]) /\ OfTickets(job[p], tickets)
  /\ \A c \in Chats : sessions[c] # Nil => tickets[c] # Nil

-----------------------------------------------------------------------------
LEMMA RowOps ==
  ASSUME NEW r \in SessionRow
  PROVE  /\ \A how \in Over : Ended(r, how) \in SessionRow
         /\ \A a \in Agents : [r EXCEPT !.agent = a] \in SessionRow
         /\ \A at \in 0..MaxTime : [r EXCEPT !.seen = at] \in SessionRow
         /\ r.status \notin Over => /\ \A a \in Agents : Joined(r, a) \in SessionRow
                                    /\ Requeued(r) \in SessionRow /\ Requeued(r).status = "waiting"
BY NilIsNothing DEF SessionRow, Ended, Joined, Requeued, Over

LEMMA WaitingRow == ASSUME now \in 0..MaxTime PROVE Waiting \in SessionRow
BY DEF Waiting, SessionRow, Over

LEMMA IdleSound == ASSUME NEW T PROVE JobSound(Idle) /\ OfTickets(Idle, T)
BY NilIsNothing DEF JobSound, OfTickets, Idle, Job, NoneListed, Over

LEMMA DoneJob ==
  ASSUME NEW j \in Job, j.todo # <<>>
  PROVE  Done(j) \in Job
<1>1. Idle \in Job
  BY IdleSound DEF JobSound
<1>2. CASE Len(j.todo) > 1
  <2>1. j.todo \in Seq(Steps)
    BY DEF Job
  <2>2. Tail(j.todo) \in Seq(Steps)
    BY <1>2, <2>1
  <2> HIDE DEF Steps
  <2> QED BY <1>2, <2>2 DEF Done, Job
<1>3. CASE ~(Len(j.todo) > 1)
  <2>1. j.listed \in [Chats -> SessionRow \cup {Nil}] /\ j.ending \in Over \cup {Nil}
    BY DEF Job
  <2>2. [Idle EXCEPT !.listed = j.listed, !.ending = j.ending] \in Job
    BY <1>1, <2>1 DEF Job
  <2> QED BY <1>1, <1>3, <2>2 DEF Done
<1> QED BY <1>2, <1>3

\* The lists of steps a request sets out with, or is given when it is routed.
Lists == {<<"create", "route">>, Assigning, Ending, <<"assignTicket", "saveSession", "saveTicket">>,
          <<"assignTicket", "saveSession", "saveTicket", "route">>, <<"saveSession">>, <<"rateTicket", "saveTicket">>}

LEMMA ListsSound ==
  ASSUME NEW todo \in Lists
  PROVE  /\ todo \in Seq(Steps) /\ todo # <<>>
         /\ \A i \in 1..Len(todo) :
              /\ todo[i] = "create" => i = 1 /\ todo = <<"create", "route">>
              /\ todo[i] = "route" => todo \in {<<"create", "route">>, <<"assignTicket", "saveSession", "saveTicket", "route">>}
              /\ todo[i] = "saveTicket" => \E k \in 1..(i - 1) : todo[k] \in Makers
<1>1. CASE todo = <<"create", "route">> BY <1>1 DEF Steps, Makers
<1>2. CASE todo = Assigning
  <2>1. todo = <<"saveSession", "assignTicket", "saveTicket">> BY <1>2 DEF Assigning
  <2>2. 2 \in 1..(3 - 1) /\ todo[2] \in Makers BY <2>1 DEF Makers
  <2> QED BY <2>1, <2>2 DEF Steps, Makers
<1>3. CASE todo = Ending
  <2>1. todo = <<"saveSession", "endTicket", "saveTicket">> BY <1>3 DEF Ending
  <2>2. 2 \in 1..(3 - 1) /\ todo[2] \in Makers BY <2>1 DEF Makers
  <2> QED BY <2>1, <2>2 DEF Steps, Makers
<1>4. CASE todo = <<"assignTicket", "saveSession", "saveTicket">>
  <2>1. 1 \in 1..(3 - 1) /\ todo[1] \in Makers BY <1>4 DEF Makers
  <2> QED BY <1>4, <2>1 DEF Steps, Makers
<1>5. CASE todo = <<"assignTicket", "saveSession", "saveTicket", "route">>
  <2>1. 1 \in 1..(3 - 1) /\ todo[1] \in Makers BY <1>5 DEF Makers
  <2> QED BY <1>5, <2>1 DEF Steps, Makers
<1>6. CASE todo = <<"saveSession">> BY <1>6 DEF Steps, Makers
<1>7. CASE todo = <<"rateTicket", "saveTicket">>
  <2>1. 1 \in 1..(2 - 1) /\ todo[1] \in Makers BY <1>7 DEF Makers
  <2> QED BY <1>7, <2>1 DEF Steps, Makers
<1> QED BY <1>1, <1>2, <1>3, <1>4, <1>5, <1>6, <1>7 DEF Lists

LEMMA HandlerSound ==
  ASSUME NEW c \in Chats, NEW row \in SessionRow \cup {Nil}, NEW todo \in Lists, NEW T,
         T[c] # Nil, row = Nil <=> todo = <<"create", "route">>,
         todo = <<"assignTicket", "saveSession", "saveTicket", "route">> => row.status = "waiting"
  PROVE  JobSound(Handler(c, row, todo)) /\ OfTickets(Handler(c, row, todo), T)
<1> DEFINE j == Handler(c, row, todo)
<1>1. j.chat = c /\ j.row = row /\ j.todo = todo /\ j.listed = NoneListed
  BY DEF Handler, Idle
<1>2. j \in Job
  BY ListsSound DEF Handler, Idle, Job, NoneListed
<1>3. \A d \in Chats : j.listed[d] = Nil
  BY <1>1 DEF NoneListed
<1>4. row = Nil => Head(todo) = "create"
  OBVIOUS
<1> HIDE DEF j
<1>5. JobSound(j)
  <2>1. ASSUME NEW i \in 1..Len(j.todo)
        PROVE  /\ j.todo[i] = "create" => i = 1
               /\ j.todo[i] = "route" => j.row = Nil \/ j.row.status = "waiting"
               /\ j.todo[i] = "saveTicket" => j.tk # Nil \/ \E k \in 1..(i - 1) : j.todo[k] \in Makers
    <3>1. j.todo = todo /\ j.row = row
      BY <1>1
    <3>2. todo = <<"create", "route">> => row = Nil
      OBVIOUS
    <3> QED BY <3>1, <3>2, ListsSound
  <2> QED BY <2>1, <1>1, <1>2, <1>3, <1>4 DEF JobSound
<1>6. OfTickets(j, T)
  BY <1>1, <1>3 DEF OfTickets
<1> QED BY <1>5, <1>6 DEF j

\* What a step leaves: the rest of the list, with the row it created or the
\* ticket it made, if it did.
LEMMA DoneSound ==
  ASSUME NEW j, JobSound(j), j.todo # <<>>, NEW T, OfTickets(j, T), NEW row, NEW tk,
         row \in SessionRow, row = j.row \/ row.status = "waiting",
         tk = j.tk \/ tk \in TicketRow, Head(j.todo) \in Makers => tk \in TicketRow,
         NEW k, k.todo = Done(j).todo, k.chat = Done(j).chat, k.listed = Done(j).listed, k.ending = Done(j).ending,
         k \in Job, Done(j).todo # <<>> => k.row = row /\ k.tk = tk
  PROVE  JobSound(k) /\ OfTickets(k, T)
<1> USE DEF JobSound, OfTickets
<1>1. CASE Len(j.todo) > 1
  <2>1. k.todo = Tail(j.todo) /\ k.chat = j.chat /\ k.listed = j.listed /\ k.ending = j.ending
    BY <1>1 DEF Job, Done
  <2>a. j.todo \in Seq(Steps)
    BY DEF Job
  <2>2. Tail(j.todo) # <<>> /\ Len(Tail(j.todo)) = Len(j.todo) - 1 /\ Len(j.todo) \in Nat
        /\ \A i \in 1..(Len(j.todo) - 1) : Tail(j.todo)[i] = j.todo[i + 1]
    BY <1>1, <2>a
  <2>3. k.row = row /\ k.tk = tk
    BY <2>1, <2>2
  <2>4. ASSUME NEW i \in 1..Len(k.todo)
        PROVE  /\ k.todo[i] # "create"
               /\ k.todo[i] = "route" => k.row.status = "waiting"
               /\ k.todo[i] = "saveTicket" => k.tk # Nil \/ \E l \in 1..(i - 1) : k.todo[l] \in Makers
    <3>1. i + 1 \in 1..Len(j.todo) /\ k.todo[i] = j.todo[i + 1]
      BY <2>1, <2>2
    <3>2. k.todo[i] # "create"
      BY <3>1
    <3>3. k.todo[i] = "route" => k.row.status = "waiting"
      BY <3>1, <2>3, NilIsNothing
    <3>4. ASSUME k.todo[i] = "saveTicket", tk = Nil PROVE \E l \in 1..(i - 1) : k.todo[l] \in Makers
      <4>1. j.tk = Nil /\ Head(j.todo) \notin Makers
        BY <3>4, NilIsNothing
      <4>a. i \in Nat /\ (i + 1) - 1 = i
        BY <2>1, <2>2
      <4>b. j.todo[i + 1] = "saveTicket"
        BY <3>1, <3>4
      <4>c. \E l \in 1..((i + 1) - 1) : j.todo[l] \in Makers
        BY <3>1, <4>1, <4>b
      <4>2. PICK l \in 1..i : j.todo[l] \in Makers
        BY <4>a, <4>c
      <4>3. l # 1
        BY <4>1, <4>2, <2>2
      <4>4. l - 1 \in 1..(i - 1) /\ k.todo[l - 1] = j.todo[l]
        BY <4>a, <4>2, <4>3, <3>1, <2>1, <2>2
      <4> QED BY <4>2, <4>4
    <3> QED BY <3>2, <3>3, <3>4, <2>3
  <2>5. k.row # Nil
    BY <2>3, NilIsNothing
  <2> QED BY <2>1, <2>4, <2>5
<1>2. CASE ~(Len(j.todo) > 1)
  <2>1. k.todo = <<>> /\ \A c \in Chats : k.listed[c] = j.listed[c] /\ (k.listed[c] # Nil => k.ending = j.ending)
    BY <1>2 DEF Idle, Job, NoneListed, Done
  <2>2. Len(k.todo) = 0
    BY <2>1
  <2> QED BY <2>1, <2>2
<1> QED BY <1>1, <1>2

-----------------------------------------------------------------------------
\* A step that changes one job, and no ticket into none.
LEMMA JobStep ==
  ASSUME TInv, NEW p \in Procs, NEW j, JobSound(j), OfTickets(j, tickets'), job' = [job EXCEPT ![p] = j],
         sessions' \in [Chats -> SessionRow \cup {Nil}], tickets' \in [Chats -> TicketRow \cup {Nil}],
         \A c \in Chats : tickets[c] # Nil => tickets'[c] # Nil,
         \A c \in Chats : sessions'[c] # Nil => tickets'[c] # Nil,
         byHand' \subseteq Chats, since' \in [Chats -> 0..MaxTime], now' = now,
         apart' \in BOOLEAN, jobs' \in Nat, crashes' \in Nat
  PROVE  TInv'
<1>1. TypeOK'
  BY DEF TInv, TypeOK, JobSound
<1>2. ASSUME NEW q \in Procs PROVE JobSound(job'[q]) /\ OfTickets(job'[q], tickets')
  <2>1. CASE q = p
    BY <2>1 DEF TInv, TypeOK
  <2>2. CASE q # p
    <3>1. job'[q] = job[q] /\ JobSound(job[q]) /\ OfTickets(job[q], tickets)
      BY <2>2 DEF TInv, TypeOK
    <3>2. OfTickets(job[q], tickets')
      BY <3>1 DEF OfTickets, JobSound
    <3> QED BY <3>1, <3>2
  <2> QED BY <2>1, <2>2
<1> QED BY <1>1, <1>2 DEF TInv, JobSound, OfTickets

LEMMA InitSound == Init => TInv
<1> SUFFICES ASSUME Init PROVE TInv
  OBVIOUS
<1>1. JobSound(Idle) /\ OfTickets(Idle, tickets)
  BY IdleSound
<1>2. Idle \in Job
  BY <1>1 DEF JobSound
<1> QED BY <1>1, <1>2, ChatConstants DEF Init, TInv, TypeOK

LEMMA RequestsSound ==
  ASSUME TInv, NEW p \in Procs, Requests(p)
  PROVE  TInv'
<1> USE DEF TInv, TypeOK
<1>1. PICK c \in Chats : \/ Start(p, c) \/ Accept(p, c) \/ TransferToAgent(p, c)
                         \/ TransferToDepartment(p, c) \/ Message(p, c) \/ End(p, c) \/ Rate(p, c)
  BY DEF Requests
<1>2. sessions[c] # Nil => sessions[c] \in SessionRow /\ tickets[c] # Nil
  OBVIOUS
<1> DEFINE keeps(row, todo) == UNCHANGED <<sessions, tickets, now, since, crashes>> /\ Request(p, Handler(c, row, todo))
                               /\ byHand' \subseteq Chats
<1>3. ASSUME NEW row \in SessionRow, NEW todo \in Lists, keeps(row, todo), c \in Started, todo # <<"create", "route">>,
             todo = <<"assignTicket", "saveSession", "saveTicket", "route">> => row.status = "waiting"
      PROVE  TInv'
  <2>1. JobSound(Handler(c, row, todo)) /\ OfTickets(Handler(c, row, todo), tickets)
    BY <1>2, <1>3, HandlerSound, NilIsNothing DEF Started
  <2>2. tickets' = tickets /\ sessions' = sessions /\ job' = [job EXCEPT ![p] = Handler(c, row, todo)]
        /\ apart' \in BOOLEAN /\ jobs' \in Nat /\ crashes' \in Nat /\ now' = now /\ since' = since
    BY <1>3 DEF Request, Begin
  <2> QED BY <2>1, <2>2, <1>3, JobStep
<1>4. CASE Start(p, c)
  <2>1. tickets' = [tickets EXCEPT ![c] = [status |-> "live", assignee |-> Nil, rated |-> FALSE]]
        /\ UNCHANGED <<sessions, now, byHand, since, crashes>>
        /\ job' = [job EXCEPT ![p] = Handler(c, Nil, <<"create", "route">>)] /\ apart' \in BOOLEAN /\ jobs' \in Nat
    BY <1>4 DEF Start, Request, Begin
  <2>2. [status |-> "live", assignee |-> Nil, rated |-> FALSE] \in TicketRow
    BY DEF TicketRow
  <2>3. tickets' \in [Chats -> TicketRow \cup {Nil}] /\ tickets'[c] # Nil /\ \A d \in Chats : tickets[d] # Nil => tickets'[d] # Nil
    BY <2>1, <2>2, NilIsNothing
  <2>4. <<"create", "route">> \in Lists
    BY DEF Lists
  <2>5. JobSound(Handler(c, Nil, <<"create", "route">>)) /\ OfTickets(Handler(c, Nil, <<"create", "route">>), tickets')
    BY <2>3, <2>4, HandlerSound
  <2>6. \A d \in Chats : sessions'[d] # Nil => tickets'[d] # Nil
    BY <2>1, <2>3
  <2> QED BY <2>1, <2>3, <2>5, <2>6, JobStep
<1>5. CASE Accept(p, c)
  <2>1. PICK a \in Agents : Request(p, Handler(c, Joined(sessions[c], a), Assigning))
    BY <1>5 DEF Accept
  <2>2. c \in Started /\ Joined(sessions[c], a) \in SessionRow
    BY <1>2, <1>5, RowOps, ChatConstants DEF Accept, Started, Over
  <2>3. Assigning \in Lists /\ Assigning # <<"create", "route">>
        /\ Assigning # <<"assignTicket", "saveSession", "saveTicket", "route">>
    BY DEF Lists, Assigning
  <2> QED BY <1>3, <1>5, <2>1, <2>2, <2>3 DEF Accept
<1>6. CASE TransferToAgent(p, c)
  <2> DEFINE todo == <<"assignTicket", "saveSession", "saveTicket">>
  <2>1. PICK a \in Agents : Request(p, Handler(c, [sessions[c] EXCEPT !.agent = a], todo))
    BY <1>6 DEF TransferToAgent
  <2>2. c \in Started /\ [sessions[c] EXCEPT !.agent = a] \in SessionRow
    BY <1>2, <1>6, RowOps, ChatConstants DEF TransferToAgent, Started, Over
  <2>3. todo \in Lists /\ todo # <<"create", "route">> /\ todo # <<"assignTicket", "saveSession", "saveTicket", "route">>
    BY DEF Lists
  <2> QED BY <1>3, <1>6, <2>1, <2>2, <2>3 DEF TransferToAgent
<1>7. CASE TransferToDepartment(p, c)
  <2> DEFINE todo == <<"assignTicket", "saveSession", "saveTicket", "route">>
  <2>1. c \in Started /\ Requeued(sessions[c]) \in SessionRow /\ Requeued(sessions[c]).status = "waiting"
    BY <1>2, <1>7, RowOps DEF TransferToDepartment, Started
  <2>2. todo \in Lists /\ todo # <<"create", "route">>
    BY DEF Lists
  <2> QED BY <1>3, <1>7, <2>1, <2>2 DEF TransferToDepartment
<1>8. CASE Message(p, c)
  <2>1. c \in Started /\ [sessions[c] EXCEPT !.seen = now] \in SessionRow
    BY <1>2, <1>8, RowOps DEF Message, Started
  <2>2. <<"saveSession">> \in Lists /\ <<"saveSession">> # <<"create", "route">>
        /\ <<"saveSession">> # <<"assignTicket", "saveSession", "saveTicket", "route">>
    BY DEF Lists
  <2> QED BY <1>3, <1>8, <2>1, <2>2 DEF Message
<1>9. CASE End(p, c)
  <2>1. c \in Started /\ Ended(sessions[c], "ended") \in SessionRow
    BY <1>2, <1>9, RowOps DEF End, Started, Over
  <2>2. Ending \in Lists /\ Ending # <<"create", "route">> /\ Ending # <<"assignTicket", "saveSession", "saveTicket", "route">>
    BY DEF Lists, Ending
  <2> QED BY <1>3, <1>9, <2>1, <2>2 DEF End
<1>10. CASE Rate(p, c)
  <2>1. c \in Started /\ sessions[c] \in SessionRow
    BY <1>2, <1>10 DEF Rate, Started
  <2>2. <<"rateTicket", "saveTicket">> \in Lists /\ <<"rateTicket", "saveTicket">> # <<"create", "route">>
        /\ <<"rateTicket", "saveTicket">> # <<"assignTicket", "saveSession", "saveTicket", "route">>
    BY DEF Lists
  <2> QED BY <1>3, <1>10, <2>1, <2>2 DEF Rate
<1> QED BY <1>1, <1>4, <1>5, <1>6, <1>7, <1>8, <1>9, <1>10

LEMMA SweepsSound ==
  ASSUME TInv, NEW p \in Procs, Sweeps(p)
  PROVE  TInv'
<1> USE DEF TInv, TypeOK
<1>1. ASSUME NEW S \in SUBSET Started, NEW how \in Over, Sweep(p, S, how) PROVE TInv'
  <2> DEFINE j == [Idle EXCEPT !.listed = [c \in Chats |-> IF c \in S THEN sessions[c] ELSE Nil], !.ending = how]
  <2>1. job' = [job EXCEPT ![p] = j] /\ apart' \in BOOLEAN /\ UNCHANGED <<sessions, tickets, now, byHand, since, jobs, crashes>>
    BY <1>1 DEF Sweep, Begin
  <2>2. j.todo = <<>> /\ j.ending = how /\ \A c \in Chats : j.listed[c] # Nil => sessions[c] # Nil
    BY DEF Idle
  <2>3. j \in Job
    <3>1. Idle \in Job
      BY IdleSound DEF JobSound
    <3> QED BY <3>1 DEF Job
  <2> HIDE DEF j
  <2>4. JobSound(j) /\ OfTickets(j, tickets)
    <3>1. Len(j.todo) = 0
      BY <2>2
    <3> QED BY <2>2, <2>3, <3>1 DEF JobSound, OfTickets
  <2> QED BY <2>1, <2>4, JobStep
<1>2. CASE CloseIdleSessions(p)
  BY <1>1, <1>2 DEF CloseIdleSessions, Over
<1>3. CASE MarkAbandonedSessions(p)
  BY <1>1, <1>3 DEF MarkAbandonedSessions, Over
<1> QED BY <1>2, <1>3 DEF Sweeps

LEMMA ProceedSound ==
  ASSUME TInv, NEW p \in Procs, Proceed(p)
  PROVE  TInv'
<1> USE DEF TInv, TypeOK
<1> DEFINE j == job[p]
<1>1. JobSound(j) /\ OfTickets(j, tickets) /\ j \in Job
  OBVIOUS
<1>2. CASE NextListed(p)
  <2>1. PICK c \in Chats : /\ j.listed[c] # Nil
                           /\ Goes(p, [j EXCEPT !.chat = c, !.row = Ended(j.listed[c], j.ending), !.todo = Ending, !.listed[c] = Nil])
    BY <1>2 DEF NextListed
  <2> DEFINE k == [j EXCEPT !.chat = c, !.row = Ended(j.listed[c], j.ending), !.todo = Ending, !.listed[c] = Nil]
  <2>2. Ended(j.listed[c], j.ending) \in SessionRow
    BY <1>1, <2>1, RowOps DEF JobSound, Job
  <2>3. Ending \in Lists /\ Ending # <<"create", "route">> /\ Ending # <<"assignTicket", "saveSession", "saveTicket", "route">>
    BY DEF Lists, Ending
  <2>4. k \in Job
    BY <1>1, <2>2, <2>3, ListsSound DEF Job
  <2>5. k.chat = c /\ k.row = Ended(j.listed[c], j.ending) /\ k.todo = Ending /\ k.ending = j.ending
        /\ \A d \in Chats : k.listed[d] # Nil => j.listed[d] # Nil
    BY <1>1 DEF Job
  <2>6. job' = [job EXCEPT ![p] = k] /\ UNCHANGED <<sessions, tickets, now, byHand, since, apart, jobs, crashes>>
    BY <1>2, <2>1 DEF NextListed, Goes
  <2>7. tickets[c] # Nil
    BY <1>1, <2>1 DEF OfTickets
  <2> HIDE DEF k
  <2>8. JobSound(k) /\ OfTickets(k, tickets)
    <3>1. ASSUME NEW i \in 1..Len(k.todo)
          PROVE  k.todo[i] # "create" /\ k.todo[i] # "route" /\ (k.todo[i] = "saveTicket" => \E l \in 1..(i - 1) : k.todo[l] \in Makers)
      BY <2>3, <2>5, ListsSound
    <3>2. k.todo # <<>> /\ k.row # Nil
      BY <2>2, <2>3, <2>5, ListsSound, NilIsNothing
    <3> QED BY <1>1, <2>1, <2>4, <2>5, <2>7, <3>1, <3>2 DEF JobSound, OfTickets
  <2> QED BY <2>6, <2>8, JobStep
<1> DEFINE same == UNCHANGED <<now, byHand, apart, jobs, crashes>>
<1>3. CASE CreateSession(p)
  <2> DEFINE k == [Done(j) EXCEPT !.row = Waiting]
  <2>1. j.todo # <<>> /\ Head(j.todo) = "create" /\ job' = [job EXCEPT ![p] = k] /\ UNCHANGED <<tickets, now, byHand, apart, jobs, crashes>>
        /\ sessions' = [sessions EXCEPT ![j.chat] = Waiting] /\ since' = [since EXCEPT ![j.chat] = now]
    BY <1>3 DEF CreateSession, At, Goes
  <2>2. Waiting \in SessionRow /\ Waiting.status = "waiting" /\ j.chat \in Chats /\ tickets[j.chat] # Nil
    BY <1>1, <2>1, WaitingRow DEF JobSound, OfTickets, Waiting
  <2>3. Done(j) \in Job
    BY <1>1, <2>1, DoneJob
  <2>4. k \in Job /\ k.todo = Done(j).todo /\ k.chat = Done(j).chat /\ k.listed = Done(j).listed /\ k.ending = Done(j).ending
        /\ k.row = Waiting /\ k.tk = Done(j).tk
    BY <2>2, <2>3 DEF Job
  <2>5. Done(j).todo # <<>> => Done(j).tk = j.tk
    BY <1>1 DEF Done, Idle, Job
  <2>6. Head(j.todo) \notin Makers
    BY <2>1 DEF Makers
  <2> HIDE DEF k
  <2>7. JobSound(k) /\ OfTickets(k, tickets)
    BY <1>1, <2>1, <2>2, <2>4, <2>5, <2>6, DoneSound
  <2> QED BY <2>1, <2>2, <2>7, JobStep
<1>4. CASE Route(p)
  <2>1. j.todo # <<>> /\ Head(j.todo) = "route" /\ UNCHANGED <<sessions, tickets, now, byHand, since, apart, jobs, crashes>>
    BY <1>4 DEF Route, At
  <2>2. CASE Goes(p, Idle)
    BY <2>1, <2>2, IdleSound, JobStep DEF Goes
  <2>3. ASSUME NEW a \in Agents, Goes(p, [j EXCEPT !.row = Joined(@, a), !.todo = Assigning])
        PROVE  TInv'
    <3> DEFINE k == [j EXCEPT !.row = Joined(j.row, a), !.todo = Assigning]
    <3>1. j.row \in SessionRow /\ j.row.status = "waiting" /\ j.chat \in Chats /\ tickets[j.chat] # Nil
      <4>1. 1 \in 1..Len(j.todo) /\ j.todo[1] = "route"
        BY <1>1, <2>1 DEF Job
      <4>2. j.row # Nil
        BY <1>1, <2>1 DEF JobSound
      <4> QED BY <1>1, <2>1, <4>1, <4>2 DEF JobSound, OfTickets, Job
    <3>2. Joined(j.row, a) \in SessionRow
      BY <3>1, RowOps DEF Over
    <3>3. Assigning \in Lists /\ Assigning # <<"create", "route">>
          /\ Assigning # <<"assignTicket", "saveSession", "saveTicket", "route">>
      BY DEF Lists, Assigning
    <3>4. k \in Job
      BY <1>1, <3>2, <3>3, ListsSound DEF Job
    <3>5. k.chat = j.chat /\ k.row = Joined(j.row, a) /\ k.todo = Assigning /\ k.listed = j.listed /\ k.ending = j.ending
      BY <1>1 DEF Job
    <3>6. job' = [job EXCEPT ![p] = k]
      BY <2>3 DEF Goes
    <3> HIDE DEF k
    <3>7. JobSound(k) /\ OfTickets(k, tickets)
      <4>1. ASSUME NEW i \in 1..Len(k.todo)
            PROVE  k.todo[i] # "create" /\ k.todo[i] # "route" /\ (k.todo[i] = "saveTicket" => \E l \in 1..(i - 1) : k.todo[l] \in Makers)
        BY <3>3, <3>5, ListsSound
      <4>2. k.todo # <<>> /\ k.row # Nil
        BY <3>2, <3>3, <3>5, ListsSound, NilIsNothing
      <4> QED BY <1>1, <3>1, <3>4, <3>5, <4>1, <4>2 DEF JobSound, OfTickets
    <3> QED BY <2>1, <3>6, <3>7, JobStep
  <2> QED BY <1>4, <2>2, <2>3 DEF Route
<1>5. ASSUME j.todo # <<>>, Head(j.todo) \notin Makers, Head(j.todo) # "create", Goes(p, Done(j))
      PROVE  JobSound(Done(j)) /\ OfTickets(Done(j), tickets) /\ job' = [job EXCEPT ![p] = Done(j)]
             /\ j.row \in SessionRow /\ j.chat \in Chats /\ tickets[j.chat] # Nil
  <2>1. j.row \in SessionRow /\ j.chat \in Chats /\ tickets[j.chat] # Nil
    BY <1>1, <1>5 DEF JobSound, OfTickets, Job
  <2>2. Done(j) \in Job
    BY <1>1, <1>5, DoneJob
  <2>3. Done(j).todo # <<>> => Done(j).row = j.row /\ Done(j).tk = j.tk
    BY <1>1 DEF Done, Idle, Job
  <2>4. JobSound(Done(j)) /\ OfTickets(Done(j), tickets)
    BY <1>1, <1>5, <2>1, <2>2, <2>3, DoneSound
  <2> QED BY <1>5, <2>1, <2>4 DEF Goes
<1>6. CASE SaveSession(p)
  <2>1. j.todo # <<>> /\ Head(j.todo) = "saveSession" /\ Goes(p, Done(j)) /\ UNCHANGED <<tickets, now, byHand, apart, jobs, crashes>>
        /\ sessions' = [sessions EXCEPT ![j.chat] = j.row] /\ since' \in [Chats -> 0..MaxTime]
    BY <1>6 DEF SaveSession, At
  <2>2. Head(j.todo) \notin Makers /\ Head(j.todo) # "create"
    BY <2>1 DEF Makers
  <2> QED BY <1>5, <2>1, <2>2, JobStep
<1>7. CASE SaveTicket(p)
  <2>1. j.todo # <<>> /\ Head(j.todo) = "saveTicket" /\ Goes(p, Done(j)) /\ UNCHANGED <<sessions, now, byHand, since, apart, jobs, crashes>>
        /\ tickets' = [tickets EXCEPT ![j.chat] = j.tk]
    BY <1>7 DEF SaveTicket, At
  <2>2. Head(j.todo) \notin Makers /\ Head(j.todo) # "create"
    BY <2>1 DEF Makers
  <2>3. j.tk \in TicketRow
    <3>1. 1 \in 1..Len(j.todo) /\ j.todo[1] = "saveTicket"
      BY <1>1, <2>1 DEF Job
    <3>2. ~\E l \in 1..(1 - 1) : j.todo[l] \in Makers
      OBVIOUS
    <3> QED BY <1>1, <3>1, <3>2 DEF JobSound, Job
  <2>4. tickets' \in [Chats -> TicketRow \cup {Nil}] /\ \A c \in Chats : tickets[c] # Nil => tickets'[c] # Nil
    BY <1>5, <2>1, <2>2, <2>3, NilIsNothing
  <2>5. OfTickets(Done(j), tickets')
    BY <1>5, <2>1, <2>2, <2>4 DEF OfTickets, JobSound
  <2>6. \A c \in Chats : sessions'[c] # Nil => tickets'[c] # Nil
    BY <2>1, <2>4
  <2> QED BY <1>5, <2>1, <2>2, <2>4, <2>5, <2>6, JobStep
<1>8. ASSUME NEW tk \in TicketRow, j.todo # <<>>, Head(j.todo) \in Makers, Goes(p, [Done(j) EXCEPT !.tk = tk]),
             UNCHANGED <<sessions, tickets, now, byHand, since, apart, jobs, crashes>>
      PROVE  TInv'
  <2> DEFINE k == [Done(j) EXCEPT !.tk = tk]
  <2>1. Done(j) \in Job
    BY <1>1, <1>8, DoneJob
  <2>2. k \in Job /\ k.todo = Done(j).todo /\ k.chat = Done(j).chat /\ k.listed = Done(j).listed /\ k.ending = Done(j).ending
        /\ k.row = Done(j).row /\ k.tk = tk
    BY <2>1 DEF Job
  <2>3. Done(j).todo # <<>> => Done(j).row = j.row
    BY <1>1 DEF Done, Idle, Job
  <2>4. j.row \in SessionRow
    BY <1>1, <1>8 DEF JobSound, Job, Makers
  <2>5. job' = [job EXCEPT ![p] = k]
    BY <1>8 DEF Goes
  <2> HIDE DEF k
  <2>6. JobSound(k) /\ OfTickets(k, tickets)
    BY <1>1, <1>8, <2>2, <2>3, <2>4, DoneSound
  <2> QED BY <1>8, <2>5, <2>6, JobStep
<1>9. ASSUME j.todo # <<>>, Head(j.todo) # "create"
      PROVE  j.chat \in Chats /\ tickets[j.chat] \in TicketRow /\ j.row \in SessionRow
  BY <1>1, <1>9 DEF JobSound, OfTickets, Job
<1>10. CASE AssignTicket(p)
  <2>1. j.todo # <<>> /\ Head(j.todo) = "assignTicket"
    BY <1>10 DEF AssignTicket, At
  <2>2. [tickets[j.chat] EXCEPT !.assignee = j.row.agent] \in TicketRow
    BY <1>9, <2>1 DEF TicketRow, SessionRow
  <2> QED BY <1>8, <1>10, <2>1, <2>2 DEF AssignTicket, Makers
<1>11. CASE EndTicket(p)
  <2>1. j.todo # <<>> /\ Head(j.todo) = "endTicket"
    BY <1>11 DEF EndTicket, At
  <2>2. [tickets[j.chat] EXCEPT !.status = "open"] \in TicketRow
    BY <1>9, <2>1 DEF TicketRow
  <2> QED BY <1>8, <1>11, <2>1, <2>2 DEF EndTicket, Makers
<1>12. CASE RateTicket(p)
  <2>1. j.todo # <<>> /\ Head(j.todo) = "rateTicket" /\ UNCHANGED <<sessions, tickets, now, byHand, since, apart, jobs, crashes>>
    BY <1>12 DEF RateTicket, At
  <2>2. [tickets[j.chat] EXCEPT !.rated = TRUE] \in TicketRow
    BY <1>9, <2>1 DEF TicketRow
  <2>3. CASE Goes(p, Idle)
    BY <2>1, <2>3, IdleSound, JobStep DEF Goes
  <2>4. CASE Goes(p, [Done(j) EXCEPT !.tk = [tickets[j.chat] EXCEPT !.rated = TRUE]])
    BY <1>8, <2>1, <2>2, <2>4 DEF Makers
  <2> QED BY <1>12, <2>3, <2>4 DEF RateTicket
<1> QED BY <1>2, <1>3, <1>4, <1>6, <1>7, <1>10, <1>11, <1>12 DEF Proceed

LEMMA TInvStep == TInv /\ [Next]_vars => TInv'
<1> SUFFICES ASSUME TInv, [Next]_vars PROVE TInv'
  OBVIOUS
<1>1. CASE Tick
  <2>1. TypeOK'
    BY <1>1, ChatConstants DEF Tick, TInv, TypeOK
  <2> QED BY <1>1, <2>1 DEF Tick, TInv, JobSound, OfTickets
<1>2. ASSUME NEW p \in Procs, Crash(p) PROVE TInv'
  <2>1. job' = [job EXCEPT ![p] = Idle] /\ UNCHANGED <<sessions, tickets, now, byHand, since, jobs>>
        /\ crashes' = crashes + 1 /\ apart' = FALSE
    BY <1>2 DEF Crash, Goes
  <2>2. JobSound(Idle) /\ OfTickets(Idle, tickets)
    BY IdleSound
  <2>a. crashes' \in Nat
    BY <2>1 DEF TInv, TypeOK
  <2>b. apart' \in BOOLEAN
    BY <2>1, Zenon
  <2>3. crashes' \in Nat /\ apart' \in BOOLEAN
    BY <2>a, <2>b
  <2>4. tickets' = tickets /\ sessions' = sessions /\ byHand' = byHand /\ since' = since /\ now' = now /\ jobs' \in Nat
    BY <2>1 DEF TInv, TypeOK
  <2>5. \A c \in Chats : sessions'[c] # Nil => tickets'[c] # Nil
    BY <2>4 DEF TInv
  <2>6. OfTickets(Idle, tickets')
    BY <2>2, <2>4
  <2> HIDE DEF TInv
  <2>7. /\ sessions \in [Chats -> SessionRow \cup {Nil}] /\ tickets \in [Chats -> TicketRow \cup {Nil}]
        /\ byHand \subseteq Chats /\ since \in [Chats -> 0..MaxTime]
    BY DEF TInv, TypeOK
  <2> QED BY <2>1, <2>2, <2>3, <2>4, <2>5, <2>6, <2>7, JobStep
<1>3. CASE UNCHANGED vars
  BY <1>3 DEF vars, TInv, TypeOK, JobSound, OfTickets
<1> QED BY <1>1, <1>2, <1>3, RequestsSound, SweepsSound, ProceedSound DEF Next

\* Rows are whole in the table and in every memory: an active chat has an agent
\* who joined, and a chat is over exactly when it has an end (TypeOK).
THEOREM TypeCorrect == Spec => []TypeOK
<1>1. TInv => TypeOK
  BY DEF TInv
<1> QED BY <1>1, InitSound, TInvStep, PTL DEF Spec

-----------------------------------------------------------------------------
\* The chats that routing has given to a, in the table or in some memory from
\* which they may be written to it. Routing finds the table below the limit,
\* and each goroutine remembers one chat: that bounds them.
Routed(a) == {c \in Started \ byHand : sessions[c].status = "active" /\ sessions[c].agent = a}
Gives(j, c, a) == j.chat = c /\ j.row # Nil /\ j.row.status = "active" /\ j.row.agent = a
Remembered(a) == {c \in Chats \ byHand : \E q \in Procs : Gives(job[q], c, a)}

Spare == IF apart THEN 0 ELSE Cardinality(Procs) - 1

LInv ==
  /\ TInv
  /\ \A a \in Agents : Cardinality(Routed(a) \cup Remembered(a)) <= MaxChats + Spare
  /\ apart => \A p, q \in Procs : job[p] # Idle /\ job[q] # Idle => p = q

LEMMA Finite ==
  /\ Cardinality(Procs) \in Nat /\ (Procs # {} => Cardinality(Procs) >= 1)
  /\ \A S : S \subseteq Chats => IsFiniteSet(S) /\ Cardinality(S) \in Nat
  /\ \A S, T : S \subseteq T /\ T \subseteq Chats => Cardinality(S) <= Cardinality(T)
<1>1. Cardinality(Procs) \in Nat /\ (Procs # {} => Cardinality(Procs) # 0)
  BY ChatConstants, FS_EmptySet, FS_CardinalityType
<1>2. \A S : S \subseteq Chats => IsFiniteSet(S) /\ Cardinality(S) \in Nat
  BY ChatConstants, FS_Subset, FS_CardinalityType
<1>3. \A S, T : S \subseteq T /\ T \subseteq Chats => Cardinality(S) <= Cardinality(T)
  BY <1>2, FS_Subset
<1> QED BY <1>1, <1>2, <1>3

LEMMA NoMoreRouted ==
  ASSUME TInv, NEW p \in Procs, NEW k, job' = [job EXCEPT ![p] = k], byHand \subseteq byHand',
         \/ sessions' = sessions
         \/ job[p].row # Nil /\ sessions' = [sessions EXCEPT ![job[p].chat] = job[p].row]
         \/ sessions' = [sessions EXCEPT ![job[p].chat] = Waiting],
         NEW a \in Agents,
         \A c \in Chats \ byHand' : Gives(k, c, a) => c \in Routed(a) \/ Gives(job[p], c, a)
  PROVE  Routed(a)' \cup Remembered(a)' \subseteq Routed(a) \cup Remembered(a)
<1>1. ASSUME NEW c \in Remembered(a)' PROVE c \in Routed(a) \cup Remembered(a)
  <2>1. c \in Chats \ byHand /\ c \in Chats \ byHand'
    BY <1>1 DEF Remembered
  <2>2. PICK q \in Procs : Gives(job'[q], c, a)
    BY <1>1 DEF Remembered, Gives
  <2>3. CASE q = p
    <3>1. Gives(k, c, a)
      BY <2>2, <2>3 DEF TInv, TypeOK
    <3> QED BY <2>1, <3>1 DEF Remembered
  <2>4. CASE q # p
    <3>1. job'[q] = job[q]
      BY <2>4 DEF TInv, TypeOK
    <3> QED BY <2>1, <2>2, <3>1 DEF Remembered
  <2> QED BY <2>3, <2>4
<1>2. ASSUME NEW c \in Routed(a)' PROVE c \in Routed(a) \cup Remembered(a)
  <2>1. c \in Chats /\ c \notin byHand /\ sessions'[c] # Nil /\ sessions'[c].status = "active" /\ sessions'[c].agent = a
    BY <1>2 DEF Routed, Started
  <2>2. CASE sessions'[c] = sessions[c]
    BY <2>1, <2>2 DEF Routed, Started
  <2>3. CASE sessions'[c] # sessions[c]
    <3>1. c = job[p].chat /\ (sessions'[c] = Waiting \/ (job[p].row # Nil /\ sessions'[c] = job[p].row))
      BY <2>1, <2>3 DEF TInv, TypeOK
    <3>2. sessions'[c] # Waiting
      BY <2>1 DEF Waiting
    <3> QED BY <2>1, <3>1, <3>2 DEF Remembered, Gives
  <2> QED BY <2>2, <2>3
<1> QED BY <1>1, <1>2

\* A step that gives out no chat by routing keeps the bound.
LEMMA LimitKept ==
  ASSUME LInv, TInv', NEW p \in Procs, NEW k, job' = [job EXCEPT ![p] = k], byHand \subseteq byHand',
         \/ sessions' = sessions
         \/ job[p].row # Nil /\ sessions' = [sessions EXCEPT ![job[p].chat] = job[p].row]
         \/ sessions' = [sessions EXCEPT ![job[p].chat] = Waiting],
         \A a \in Agents, c \in Chats \ byHand' : Gives(k, c, a) => c \in Routed(a) \/ Gives(job[p], c, a),
         apart' => apart /\ (job[p] # Idle \/ \A q \in Procs : job[q] = Idle)
  PROVE  LInv'
<1>1. ASSUME NEW a \in Agents PROVE Cardinality(Routed(a)' \cup Remembered(a)') <= MaxChats + Spare'
  <2>1. Routed(a)' \cup Remembered(a)' \subseteq Routed(a) \cup Remembered(a)
    BY NoMoreRouted DEF LInv
  <2>2. Routed(a) \cup Remembered(a) \subseteq Chats
    BY DEF Routed, Remembered, Started
  <2>3. Cardinality(Routed(a) \cup Remembered(a)) <= MaxChats + Spare
    BY DEF LInv
  <2>4. Spare <= Spare' /\ Spare \in Int /\ Spare' \in Int
    BY Finite DEF Spare
  <2>5. /\ Cardinality(Routed(a)' \cup Remembered(a)') <= Cardinality(Routed(a) \cup Remembered(a))
        /\ Cardinality(Routed(a)' \cup Remembered(a)') \in Nat /\ Cardinality(Routed(a) \cup Remembered(a)) \in Nat
    BY <2>1, <2>2, Finite
  <2> QED BY <2>3, <2>4, <2>5, ChatConstants
<1>2. ASSUME apart', NEW q \in Procs, NEW r \in Procs, job'[q] # Idle, job'[r] # Idle PROVE q = r
  <2>1. \A s \in Procs : s # p => job'[s] = job[s]
    BY DEF LInv, TInv, TypeOK
  <2> QED BY <1>2, <2>1 DEF LInv
<1> QED BY <1>1, <1>2 DEF LInv, Routed, Remembered, Spare, Gives, Started

LEMMA RequestsKeepLimit ==
  ASSUME LInv, TInv', NEW p \in Procs, Requests(p)
  PROVE  LInv'
<1> USE DEF Started
<1>1. PICK c \in Chats : \/ Start(p, c) \/ Accept(p, c) \/ TransferToAgent(p, c)
                         \/ TransferToDepartment(p, c) \/ Message(p, c) \/ End(p, c) \/ Rate(p, c)
  BY DEF Requests
<1>2. sessions[c] # Nil => sessions[c] \in SessionRow
  BY DEF LInv, TInv, TypeOK
<1>3. ASSUME NEW row, NEW todo, Request(p, Handler(c, row, todo)), sessions' = sessions, byHand \subseteq byHand',
             \A a \in Agents : row # Nil /\ row.status = "active" /\ row.agent = a /\ c \notin byHand'
                                 => sessions[c] # Nil /\ sessions[c].status = "active" /\ sessions[c].agent = a
      PROVE  LInv'
  <2> DEFINE k == Handler(c, row, todo)
  <2>1. job' = [job EXCEPT ![p] = k] /\ (apart' => apart /\ \A q \in Procs : job[q] = Idle)
    BY <1>3 DEF Request, Begin
  <2>2. k.chat = c /\ k.row = row
    BY DEF Handler, Idle
  <2> HIDE DEF k
  <2>3. \A a \in Agents, d \in Chats \ byHand' : Gives(k, d, a) => d \in Routed(a)
    BY <1>3, <2>2 DEF Gives, Routed
  <2> QED BY <1>3, <2>1, <2>3, LimitKept
<1>4. CASE Start(p, c)
  BY <1>3, <1>4 DEF Start
<1>5. CASE Accept(p, c)
  <2>1. PICK a \in Agents : Request(p, Handler(c, Joined(sessions[c], a), Assigning))
    BY <1>5 DEF Accept
  <2>2. c \in byHand' /\ sessions' = sessions /\ byHand \subseteq byHand'
    BY <1>5 DEF Accept
  <2> QED BY <1>3, <2>1, <2>2
<1>6. CASE TransferToAgent(p, c)
  <2>1. PICK a \in Agents : Request(p, Handler(c, [sessions[c] EXCEPT !.agent = a], <<"assignTicket", "saveSession", "saveTicket">>))
    BY <1>6 DEF TransferToAgent
  <2>2. c \in byHand' /\ sessions' = sessions /\ byHand \subseteq byHand'
    BY <1>6 DEF TransferToAgent
  <2> QED BY <1>3, <2>1, <2>2
<1>7. CASE TransferToDepartment(p, c)
  <2>1. Requeued(sessions[c]).status = "waiting"
    BY <1>2, <1>7, RowOps DEF TransferToDepartment
  <2> QED BY <1>3, <1>7, <2>1 DEF TransferToDepartment
<1>8. CASE Message(p, c)
  <2>1. [sessions[c] EXCEPT !.seen = now].status = sessions[c].status /\ [sessions[c] EXCEPT !.seen = now].agent = sessions[c].agent
    BY <1>2, <1>8 DEF Message, SessionRow
  <2> QED BY <1>3, <1>8, <2>1 DEF Message
<1>9. CASE End(p, c)
  <2>1. Ended(sessions[c], "ended").status = "ended"
    BY <1>2, <1>9 DEF End, Ended, SessionRow
  <2> QED BY <1>3, <1>9, <2>1 DEF End
<1>10. CASE Rate(p, c)
  BY <1>3, <1>10 DEF Rate
<1> QED BY <1>1, <1>4, <1>5, <1>6, <1>7, <1>8, <1>9, <1>10

LEMMA SweepsKeepLimit ==
  ASSUME LInv, TInv', NEW p \in Procs, Sweeps(p)
  PROVE  LInv'
<1>1. PICK S, how : Sweep(p, S, how)
  BY DEF Sweeps, CloseIdleSessions, MarkAbandonedSessions
<1> DEFINE k == [Idle EXCEPT !.listed = [c \in Chats |-> IF c \in S THEN sessions[c] ELSE Nil], !.ending = how]
<1>2. job' = [job EXCEPT ![p] = k] /\ (apart' => apart /\ \A q \in Procs : job[q] = Idle) /\ sessions' = sessions /\ byHand' = byHand
  BY <1>1 DEF Sweep, Begin
<1>3. k.row = Nil
  BY DEF Idle
<1> HIDE DEF k
<1> QED BY <1>2, <1>3, LimitKept DEF Gives

\* Routing: the table is below the limit, and each goroutine remembers one chat.
LEMMA RouteKeepsLimit ==
  ASSUME LInv, TInv', NEW p \in Procs, Route(p)
  PROVE  LInv'
<1> DEFINE j == job[p]
<1> USE DEF Started
<1>1. j.todo # <<>> /\ sessions' = sessions /\ byHand' = byHand /\ apart' = apart
  BY DEF Route, At
<1>2. j # Idle
  BY <1>1 DEF Idle
<1>3. CASE Goes(p, Idle)
  <2>1. Idle.row = Nil
    BY DEF Idle
  <2> QED BY <1>1, <1>2, <1>3, <2>1, LimitKept DEF Goes, Gives
<1>4. ASSUME NEW a \in Agents, Load(a) < MaxChats, Goes(p, [j EXCEPT !.row = Joined(@, a), !.todo = Assigning]) PROVE LInv'
  <2> DEFINE k == [j EXCEPT !.row = Joined(j.row, a), !.todo = Assigning]
  <2>0. [j EXCEPT !.row = Joined(@, a), !.todo = Assigning] = k
    OBVIOUS
  <2>1. job' = [job EXCEPT ![p] = k]
    BY <1>4, <2>0 DEF Goes
  <2>2. k.chat = j.chat /\ k.row = Joined(j.row, a) /\ j.row \in SessionRow
    <3>1. j \in Job /\ JobSound(j)
      BY DEF LInv, TInv, TypeOK
    <3>2. j.row \in SessionRow
      BY <1>1, <3>1 DEF Job, JobSound, Route, At
    <3> QED BY <3>1, <3>2 DEF Job
  <2> HIDE DEF k
  <2>3. k.row.agent = a
    <3>1. \A r \in SessionRow : Joined(r, a).agent = a
      BY DEF Joined, SessionRow
    <3> HIDE DEF j
    <3> QED BY <2>2, <3>1
  <2>4. \A q \in Procs : q # p => job'[q] = job[q]
    BY <2>1 DEF LInv, TInv, TypeOK
  <2>5. job'[p] = k
    BY <2>1 DEF LInv, TInv, TypeOK
  <2>6. Cardinality(Routed(a)) <= MaxChats - 1
    <3>1. Routed(a) \subseteq {c \in Started : sessions[c].status = "active" /\ sessions[c].agent = a}
      BY DEF Routed
    <3>2. Cardinality(Routed(a)) <= Load(a)
      BY <3>1, Finite DEF Load
    <3>3. Load(a) \in Nat /\ Cardinality(Routed(a)) \in Nat
      BY Finite DEF Load, Routed
    <3> QED BY <1>4, <3>2, <3>3, ChatConstants
  <2>7. ASSUME NEW b \in Agents PROVE Cardinality(Routed(b)' \cup Remembered(b)') <= MaxChats + Spare'
    <3>1. CASE b # a
      <4>1. \A c \in Chats \ byHand' : ~Gives(k, c, b)
        BY <2>3, <3>1 DEF Gives
      <4>2. Routed(b)' \cup Remembered(b)' \subseteq Routed(b) \cup Remembered(b)
        BY <1>1, <2>1, <4>1, NoMoreRouted DEF LInv
      <4>3. Routed(b) \cup Remembered(b) \subseteq Chats
        BY DEF Routed, Remembered
      <4>4. Cardinality(Routed(b)' \cup Remembered(b)') <= Cardinality(Routed(b) \cup Remembered(b))
        BY <4>2, <4>3, Finite
      <4>5. Cardinality(Routed(b)' \cup Remembered(b)') \in Nat /\ Cardinality(Routed(b) \cup Remembered(b)) \in Nat
        BY <4>2, <4>3, Finite
      <4>6. Cardinality(Routed(b) \cup Remembered(b)) <= MaxChats + Spare /\ Spare' = Spare /\ Spare \in Int
        BY <1>1, Finite DEF LInv, Spare
      <4> QED BY <4>4, <4>5, <4>6, ChatConstants
    <3>2. CASE b = a /\ apart
      <4>1. \A q \in Procs : q # p => job[q] = Idle
        BY <1>2, <3>2 DEF LInv
      <4>2. Remembered(a)' \subseteq {j.chat}
        <5>1. Idle.row = Nil
          BY DEF Idle
        <5> QED BY <2>2, <2>4, <2>5, <4>1, <5>1 DEF Remembered, Gives
      <4>3. Routed(a)' = Routed(a)
        BY <1>1 DEF Routed
      <4>4. Routed(a) \subseteq Chats /\ Remembered(a)' \subseteq Chats
        BY DEF Routed, Remembered
      <4>5. Cardinality(Routed(a)' \cup Remembered(a)') <= Cardinality(Routed(a) \cup {j.chat})
            /\ Cardinality(Routed(a)' \cup Remembered(a)') \in Nat
        <5>1. IsFiniteSet(Routed(a) \cup {j.chat})
          BY <4>4, Finite, FS_AddElement
        <5>2. Routed(a)' \cup Remembered(a)' \subseteq Routed(a) \cup {j.chat}
          BY <4>2, <4>3
        <5>3. Routed(a)' \cup Remembered(a)' \subseteq Chats
          BY <4>3, <4>4
        <5> QED BY <5>1, <5>2, <5>3, FS_Subset, Finite
      <4>6. Cardinality(Routed(a) \cup {j.chat}) <= Cardinality(Routed(a)) + 1 /\ Cardinality(Routed(a)) \in Nat
            /\ Cardinality(Routed(a) \cup {j.chat}) \in Nat
        <5>1. IsFiniteSet(Routed(a)) /\ Cardinality(Routed(a)) \in Nat
          BY <4>4, Finite
        <5>2. Cardinality(Routed(a) \cup {j.chat}) = IF j.chat \in Routed(a) THEN Cardinality(Routed(a)) ELSE Cardinality(Routed(a)) + 1
          BY <5>1, FS_AddElement
        <5> QED BY <5>1, <5>2
      <4>7. Spare' = 0
        BY <1>1, <3>2 DEF Spare
      <4> QED BY <2>6, <3>2, <4>5, <4>6, <4>7, ChatConstants
    <3>3. CASE b = a /\ ~apart
      <4> DEFINE chat == [q \in Procs |-> job'[q].chat]
                 I == {chat[q] : q \in Procs}
      <4>1. IsFiniteSet(I) /\ Cardinality(I) <= Cardinality(Procs)
        <5>1. chat \in Surjection(Procs, I)
          BY DEF Surjection
        <5> QED BY <5>1, ChatConstants, FS_Surjection
      <4>2. Remembered(a)' \subseteq I /\ Routed(a)' = Routed(a)
        BY <1>1 DEF Remembered, Gives, Routed
      <4>3. IsFiniteSet(Routed(a)) /\ Cardinality(Routed(a)) \in Nat
        BY Finite DEF Routed
      <4> HIDE DEF I
      <4>4. IsFiniteSet(Routed(a) \cup I) /\ Cardinality(Routed(a) \cup I) <= Cardinality(Routed(a)) + Cardinality(I)
        <5>1. Cardinality(Routed(a) \cap I) \in Nat /\ Cardinality(I) \in Nat
          BY <4>1, <4>3, FS_Intersection, FS_CardinalityType
        <5>2. /\ IsFiniteSet(Routed(a) \cup I)
              /\ Cardinality(Routed(a) \cup I) = Cardinality(Routed(a)) + Cardinality(I) - Cardinality(Routed(a) \cap I)
          BY <4>1, <4>3, FS_Union
        <5> QED BY <4>3, <5>1, <5>2
      <4>5. Cardinality(Routed(a)' \cup Remembered(a)') <= Cardinality(Routed(a) \cup I)
        BY <4>2, <4>4, FS_Subset
      <4>6. Spare' = Cardinality(Procs) - 1
        BY <1>1, <3>3 DEF Spare
      <4>7. /\ Cardinality(Routed(a)' \cup Remembered(a)') \in Nat /\ Cardinality(Routed(a) \cup I) \in Nat
            /\ Cardinality(I) \in Nat /\ Cardinality(Procs) \in Nat
        <5>1. Routed(a)' \cup Remembered(a)' \subseteq Chats
          BY <4>2 DEF Routed, Remembered
        <5> QED BY <4>1, <4>4, <5>1, Finite, FS_CardinalityType
      <4> QED BY <2>6, <3>3, <4>1, <4>3, <4>4, <4>5, <4>6, <4>7, ChatConstants
    <3> QED BY <3>1, <3>2, <3>3
  <2>8. ASSUME apart', NEW q \in Procs, NEW r \in Procs, job'[q] # Idle, job'[r] # Idle PROVE q = r
    BY <1>1, <1>2, <2>4, <2>8 DEF LInv
  <2> QED BY <2>7, <2>8 DEF LInv, Routed, Remembered, Spare, Gives
<1> QED BY <1>3, <1>4 DEF Route

LEMMA ProceedKeepsLimit ==
  ASSUME LInv, TInv', NEW p \in Procs, Proceed(p)
  PROVE  LInv'
<1> DEFINE j == job[p]
<1>1. j \in Job /\ JobSound(j) /\ Idle.row = Nil /\ Idle.todo = <<>> /\ \A c \in Chats : Idle.listed[c] = Nil
  BY DEF LInv, TInv, TypeOK, Idle, NoneListed
\* A step that remembers nothing new, or nothing.
<1>2. ASSUME NEW k, Goes(p, k), byHand' = byHand, apart' = apart, j # Idle,
             k.row = Nil \/ (k.row = j.row /\ k.chat = j.chat) \/ k.row.status # "active",
             \/ sessions' = sessions
             \/ j.row # Nil /\ sessions' = [sessions EXCEPT ![j.chat] = j.row]
             \/ sessions' = [sessions EXCEPT ![j.chat] = Waiting]
      PROVE  LInv'
  <2>1. \A a \in Agents, c \in Chats \ byHand' : Gives(k, c, a) => Gives(j, c, a)
    BY <1>2 DEF Gives
  <2> QED BY <1>2, <2>1, LimitKept DEF Goes
<1>3. \/ Done(j).row = Nil \/ (Done(j).row = j.row /\ Done(j).chat = j.chat)
  BY <1>1 DEF Done, Job, Idle
<1>4. j.todo # <<>> => j # Idle /\ Done(j) \in Job
  BY <1>1, DoneJob
<1>5. CASE NextListed(p)
  <2>1. PICK c \in Chats : /\ j.listed[c] # Nil
                           /\ Goes(p, [j EXCEPT !.chat = c, !.row = Ended(j.listed[c], j.ending), !.todo = Ending, !.listed[c] = Nil])
    BY <1>5 DEF NextListed
  <2>2. j # Idle
    BY <1>1, <2>1
  <2>3. Ended(j.listed[c], j.ending) \in SessionRow /\ Ended(j.listed[c], j.ending).status # "active"
    <3>1. j.listed[c] \in SessionRow /\ j.ending \in Over
      BY <1>1, <2>1 DEF JobSound, Job
    <3> QED BY <3>1, RowOps DEF Ended, Over, SessionRow
  <2> DEFINE k == [j EXCEPT !.chat = c, !.row = Ended(j.listed[c], j.ending), !.todo = Ending, !.listed[c] = Nil]
  <2>4. k.row = Ended(j.listed[c], j.ending)
    BY <1>1 DEF Job
  <2>5. Goes(p, k)
    BY <2>1
  <2> HIDE DEF k
  <2>6. byHand' = byHand /\ apart' = apart /\ sessions' = sessions
    BY <1>5 DEF NextListed
  <2> QED BY <1>2, <2>2, <2>3, <2>4, <2>5, <2>6
<1>6. CASE CreateSession(p)
  <2> DEFINE k == [Done(j) EXCEPT !.row = Waiting]
  <2>1. Goes(p, k) /\ j.todo # <<>> /\ byHand' = byHand /\ apart' = apart /\ sessions' = [sessions EXCEPT ![j.chat] = Waiting]
    BY <1>6 DEF CreateSession, At
  <2>2. k.row.status # "active"
    BY <1>4, <2>1 DEF Job, Waiting
  <2> HIDE DEF k
  <2> QED BY <1>2, <1>4, <2>1, <2>2
<1>7. CASE SaveSession(p)
  <2>1. /\ Goes(p, Done(j)) /\ j.todo # <<>> /\ Head(j.todo) # "create" /\ byHand' = byHand /\ apart' = apart
        /\ sessions' = [sessions EXCEPT ![j.chat] = j.row]
    BY <1>7 DEF SaveSession, At
  <2>2. j.row # Nil
    BY <1>1, <2>1 DEF JobSound
  <2> QED BY <1>2, <1>3, <1>4, <2>1, <2>2
<1>8. CASE SaveTicket(p)
  BY <1>2, <1>3, <1>4, <1>8 DEF SaveTicket, At
<1>9. ASSUME NEW tk, j.todo # <<>>, Goes(p, [Done(j) EXCEPT !.tk = tk]), byHand' = byHand, apart' = apart, sessions' = sessions
      PROVE  LInv'
  <2> DEFINE k == [Done(j) EXCEPT !.tk = tk]
  <2>1. k.row = Done(j).row /\ k.chat = Done(j).chat
    BY <1>4, <1>9 DEF Job
  <2>2. Goes(p, k)
    BY <1>9
  <2> HIDE DEF k
  <2> QED BY <1>2, <1>3, <1>4, <1>9, <2>1, <2>2
<1>10. CASE AssignTicket(p)
  BY <1>9, <1>10 DEF AssignTicket, At
<1>11. CASE EndTicket(p)
  BY <1>9, <1>11 DEF EndTicket, At
<1>12. CASE RateTicket(p)
  <2>1. CASE Goes(p, Idle)
    BY <1>1, <1>2, <1>4, <1>12, <2>1 DEF RateTicket, At
  <2>2. CASE Goes(p, [Done(j) EXCEPT !.tk = [tickets[j.chat] EXCEPT !.rated = TRUE]])
    BY <1>9, <1>12, <2>2 DEF RateTicket, At
  <2> QED BY <1>12, <2>1, <2>2 DEF RateTicket
<1> QED BY <1>5, <1>6, <1>7, <1>8, <1>10, <1>11, <1>12, RouteKeepsLimit DEF Proceed

LEMMA LInvInit == Init => LInv
<1> SUFFICES ASSUME Init PROVE LInv
  OBVIOUS
<1>1. \A a \in Agents : Routed(a) \cup Remembered(a) = {}
  BY DEF Init, Routed, Remembered, Gives, Started, Idle
<1>2. apart = TRUE /\ \A p \in Procs : job[p] = Idle
  BY DEF Init
<1> QED BY <1>1, <1>2, InitSound, FS_EmptySet, ChatConstants DEF LInv, Spare

LEMMA LInvStep == LInv /\ [Next]_vars => LInv'
<1> SUFFICES ASSUME LInv, [Next]_vars PROVE LInv'
  OBVIOUS
<1>1. TInv'
  BY TInvStep DEF LInv
<1>2. CASE Tick
  BY <1>1, <1>2 DEF Tick, LInv, Routed, Remembered, Gives, Started, Spare
<1>3. CASE UNCHANGED vars
  BY <1>1, <1>3 DEF vars, LInv, Routed, Remembered, Gives, Started, Spare
<1>4. ASSUME NEW p \in Procs, Crash(p) PROVE LInv'
  <2>1. job' = [job EXCEPT ![p] = Idle] /\ sessions' = sessions /\ byHand' = byHand /\ apart' = FALSE
    BY <1>4 DEF Crash, Goes
  <2>2. Idle.row = Nil
    BY DEF Idle
  <2> QED BY <1>1, <2>1, <2>2, LimitKept DEF Gives
<1> QED BY <1>1, <1>2, <1>3, <1>4, RequestsKeepLimit, SweepsKeepLimit, ProceedKeepsLimit DEF Next

\* Chats given out by routing exceed an agent's max_concurrent_chats by no more
\* than the other goroutines, and not at all when handlers never overlap, for
\* any number of chats, agents and goroutines.
THEOREM RoutingStaysNearLimit == Spec => []RoutingKeepsLimit
<1>1. LInv => RoutingKeepsLimit
  <2> SUFFICES ASSUME LInv, NEW a \in Agents PROVE Cardinality(Routed(a)) <= MaxChats + Spare
    BY DEF RoutingKeepsLimit, Routed, Spare, Started
  <2>1. Routed(a) \cup Remembered(a) \subseteq Chats
    BY DEF Routed, Remembered, Started
  <2>2. Cardinality(Routed(a)) <= Cardinality(Routed(a) \cup Remembered(a))
    BY <2>1, Finite
  <2>3. Cardinality(Routed(a)) \in Nat /\ Cardinality(Routed(a) \cup Remembered(a)) \in Nat /\ Spare \in Int
    BY <2>1, Finite DEF Spare
  <2>4. Cardinality(Routed(a) \cup Remembered(a)) <= MaxChats + Spare
    BY DEF LInv
  <2> QED BY <2>2, <2>3, <2>4, ChatConstants
<1> QED BY <1>1, LInvInit, LInvStep, PTL DEF Spec

-----------------------------------------------------------------------------
\* A session and its ticket agree; and what a job half done needs so that they
\* agree when it is done.
Match(s, t) ==
  /\ t.assignee = s.agent
  /\ (s.status \in Over) <=> (t.status = "open")

Agree(s, t) == (s = Nil <=> t = Nil) /\ (s # Nil => Match(s, t))

\* The ticket is that of a chat going on.
Going(t) == t.status = "live"

HalfDone(j, s, t) ==
  \/ j.todo = <<"create", "route">> /\ s = Nil /\ Going(t) /\ t.assignee = Nil
  \/ j.todo = <<"route">> /\ s = j.row /\ Match(s, t)
  \/ j.todo = Assigning /\ s # Nil /\ j.row.status = "active" /\ Going(t)
  \/ j.todo = <<"assignTicket", "saveTicket">> /\ s = j.row /\ s.status \notin Over /\ Going(t)
  \/ j.todo = Ending /\ s # Nil /\ j.row.status \in Over /\ t.assignee = j.row.agent
  \/ j.todo = <<"endTicket", "saveTicket">> /\ s = j.row /\ s.status \in Over /\ t.assignee = s.agent
  \/ /\ j.todo \in {<<"assignTicket", "saveSession", "saveTicket">>, <<"assignTicket", "saveSession", "saveTicket", "route">>}
     /\ s # Nil /\ j.row.status \notin Over /\ Going(t)
  \/ j.todo \in {<<"saveSession", "saveTicket">>, <<"saveSession", "saveTicket", "route">>} /\ s # Nil /\ Match(j.row, j.tk)
  \/ j.todo \in {<<"saveTicket">>, <<"saveTicket", "route">>} /\ s = j.row /\ Match(s, j.tk)
  \/ j.todo = <<"saveSession">> /\ s # Nil /\ Match(j.row, t)
  \/ j.todo = <<"rateTicket", "saveTicket">> /\ s = j.row /\ Match(s, t)

\* What a sweep has listed is as it was, and not what it is working on.
Current(j, S, T) ==
  \A c \in Chats : j.listed[c] # Nil => /\ j.listed[c] = S[c] /\ Agree(S[c], T[c])
                                        /\ j.todo # <<>> => c # j.chat

AInv ==
  /\ LInv
  /\ apart => \A p \in Procs : /\ job[p].todo # <<>> => HalfDone(job[p], sessions[job[p].chat], tickets[job[p].chat])
                               /\ Current(job[p], sessions, tickets)
  /\ apart => \A c \in Chats : Agree(sessions[c], tickets[c]) \/ \E p \in Procs : job[p].todo # <<>> /\ job[p].chat = c

LEMMA Tails ==
  /\ Tail(<<"create", "route">>) = <<"route">> /\ Tail(<<"route">>) = <<>>
  /\ Tail(Assigning) = <<"assignTicket", "saveTicket">> /\ Tail(<<"assignTicket", "saveTicket">>) = <<"saveTicket">>
  /\ Tail(<<"saveTicket">>) = <<>> /\ Tail(Ending) = <<"endTicket", "saveTicket">>
  /\ Tail(<<"endTicket", "saveTicket">>) = <<"saveTicket">>
  /\ Tail(<<"assignTicket", "saveSession", "saveTicket">>) = <<"saveSession", "saveTicket">>
  /\ Tail(<<"saveSession", "saveTicket">>) = <<"saveTicket">>
  /\ Tail(<<"assignTicket", "saveSession", "saveTicket", "route">>) = <<"saveSession", "saveTicket", "route">>
  /\ Tail(<<"saveSession", "saveTicket", "route">>) = <<"saveTicket", "route">>
  /\ Tail(<<"saveTicket", "route">>) = <<"route">> /\ Tail(<<"saveSession">>) = <<>>
  /\ Tail(<<"rateTicket", "saveTicket">>) = <<"saveTicket">>
BY DEF Assigning, Ending

LEMMA ByHead ==
  ASSUME NEW j, NEW s, NEW t, HalfDone(j, s, t)
  PROVE  /\ Head(j.todo) = "create" => j.todo = <<"create", "route">> /\ s = Nil /\ Going(t) /\ t.assignee = Nil
         /\ Head(j.todo) = "route" => j.todo = <<"route">> /\ s = j.row /\ Match(s, t)
         /\ Head(j.todo) = "saveSession" =>
              \/ j.todo = Assigning /\ j.row.status = "active" /\ Going(t)
              \/ j.todo = Ending /\ j.row.status \in Over /\ t.assignee = j.row.agent
              \/ j.todo \in {<<"saveSession", "saveTicket">>, <<"saveSession", "saveTicket", "route">>} /\ Match(j.row, j.tk)
              \/ j.todo = <<"saveSession">> /\ Match(j.row, t)
         /\ Head(j.todo) = "assignTicket" =>
              \/ j.todo = <<"assignTicket", "saveTicket">> /\ s = j.row /\ s.status \notin Over /\ Going(t)
              \/ /\ j.todo \in {<<"assignTicket", "saveSession", "saveTicket">>, <<"assignTicket", "saveSession", "saveTicket", "route">>}
                 /\ s # Nil /\ j.row.status \notin Over /\ Going(t)
         /\ Head(j.todo) = "endTicket" =>
              j.todo = <<"endTicket", "saveTicket">> /\ s = j.row /\ s.status \in Over /\ t.assignee = s.agent
         /\ Head(j.todo) = "rateTicket" => j.todo = <<"rateTicket", "saveTicket">> /\ s = j.row /\ Match(s, t)
         /\ Head(j.todo) = "saveTicket" =>
              j.todo \in {<<"saveTicket">>, <<"saveTicket", "route">>} /\ s = j.row /\ Match(s, j.tk)
BY DEF HalfDone, Assigning, Ending

LEMMA DoneFields ==
  ASSUME NEW j \in Job, j.todo # <<>>
  PROVE  /\ Done(j).todo = Tail(j.todo)
         /\ Tail(j.todo) # <<>> => Done(j).chat = j.chat /\ Done(j).row = j.row /\ Done(j).tk = j.tk
         /\ \A c \in Chats : Done(j).listed[c] = j.listed[c]
<1>1. j.todo \in Seq(Steps)
  BY DEF Job
<1>2. CASE Len(j.todo) > 1
  BY <1>1, <1>2 DEF Done, Job
<1>3. CASE ~(Len(j.todo) > 1)
  <2>1. Tail(j.todo) = <<>> /\ Idle.todo = <<>> /\ \A c \in Chats : Idle.listed[c] = Nil
    BY <1>1, <1>3 DEF Idle, NoneListed
  <2>2. [Idle EXCEPT !.listed = j.listed, !.ending = j.ending].todo = <<>>
        /\ [Idle EXCEPT !.listed = j.listed, !.ending = j.ending].listed = j.listed
    BY DEF Idle
  <2> QED BY <1>3, <2>1, <2>2 DEF Done, NoneListed
<1> QED BY <1>2, <1>3

\* A step of a job alone, which touches the rows of no chat but one, its own.
LEMMA AgreeStep ==
  ASSUME AInv, LInv', NEW p \in Procs, NEW k, job' = [job EXCEPT ![p] = k], NEW c \in Chats,
         apart' => apart /\ \A q \in Procs : q # p => job[q] = Idle,
         \A d \in Chats : d # c => sessions'[d] = sessions[d] /\ tickets'[d] = tickets[d],
         job[p].todo # <<>> => job[p].chat = c,
         apart' => (k.todo # <<>> => k.chat = c /\ HalfDone(k, sessions'[c], tickets'[c])),
         apart' => (k.todo = <<>> => Agree(sessions'[c], tickets'[c])),
         apart' => Current(k, sessions', tickets')
  PROVE  AInv'
<1> SUFFICES ASSUME apart'
             PROVE  /\ \A q \in Procs : /\ job'[q].todo # <<>> => HalfDone(job'[q], sessions'[job'[q].chat], tickets'[job'[q].chat])
                                        /\ Current(job'[q], sessions', tickets')
                    /\ \A d \in Chats : Agree(sessions'[d], tickets'[d]) \/ \E q \in Procs : job'[q].todo # <<>> /\ job'[q].chat = d
  BY DEF AInv, HalfDone, Current, Agree, Match, Going
<1>1. job'[p] = k /\ \A q \in Procs : q # p => job'[q] = Idle
  BY DEF AInv, LInv, TInv, TypeOK
<1>2. Idle.todo = <<>> /\ Current(Idle, sessions', tickets')
  BY DEF Idle, Current, NoneListed
<1>3. ASSUME NEW q \in Procs
      PROVE  /\ job'[q].todo # <<>> => HalfDone(job'[q], sessions'[job'[q].chat], tickets'[job'[q].chat])
             /\ Current(job'[q], sessions', tickets')
  BY <1>1, <1>2
<1>4. ASSUME NEW d \in Chats PROVE Agree(sessions'[d], tickets'[d]) \/ \E q \in Procs : job'[q].todo # <<>> /\ job'[q].chat = d
  <2>1. CASE d = c
    BY <1>1, <2>1
  <2>2. CASE d # c
    <3>1. \A q \in Procs : ~(job[q].todo # <<>> /\ job[q].chat = d)
      BY <1>2, <2>2
    <3> QED BY <2>2, <3>1 DEF AInv
  <2> QED BY <2>1, <2>2
<1> QED BY <1>3, <1>4

LEMMA RequestsAgree ==
  ASSUME AInv, LInv', NEW p \in Procs, Requests(p)
  PROVE  AInv'
<1>1. PICK c \in Chats : \/ Start(p, c) \/ Accept(p, c) \/ TransferToAgent(p, c)
                         \/ TransferToDepartment(p, c) \/ Message(p, c) \/ End(p, c) \/ Rate(p, c)
  BY DEF Requests
<1>2. Idle.todo = <<>>
  BY DEF Idle
<1>3. ASSUME apart, \A q \in Procs : job[q] = Idle PROVE Agree(sessions[c], tickets[c])
  BY <1>2, <1>3 DEF AInv
\* Every request but the first changes no row at once.
<1>4. ASSUME NEW row, NEW todo, Request(p, Handler(c, row, todo)), sessions' = sessions, tickets' = tickets, todo # <<>>,
             Agree(sessions[c], tickets[c]) => HalfDone(Handler(c, row, todo), sessions[c], tickets[c])
      PROVE  AInv'
  <2> DEFINE k == Handler(c, row, todo)
  <2>1. job' = [job EXCEPT ![p] = k] /\ job[p] = Idle /\ (apart' => apart /\ \A q \in Procs : job[q] = Idle)
    BY <1>4 DEF Request, Begin
  <2>2. k.todo = todo /\ k.chat = c /\ \A d \in Chats : k.listed[d] = Nil
    BY DEF Handler, Idle, NoneListed
  <2>3. apart' => HalfDone(k, sessions'[c], tickets'[c])
    BY <1>3, <1>4, <2>1
  <2> HIDE DEF k
  <2>4. Current(k, sessions', tickets')
    BY <2>2 DEF Current
  <2> QED BY <1>2, <1>4, <2>1, <2>2, <2>3, <2>4, AgreeStep
<1>5. CASE Start(p, c)
  <2> DEFINE k == Handler(c, Nil, <<"create", "route">>)
             t == [status |-> "live", assignee |-> Nil, rated |-> FALSE]
  <2>1. /\ job' = [job EXCEPT ![p] = k] /\ job[p] = Idle /\ (apart' => apart /\ \A q \in Procs : job[q] = Idle)
        /\ tickets[c] = Nil /\ tickets' = [tickets EXCEPT ![c] = t] /\ sessions' = sessions
    BY <1>5 DEF Start, Request, Begin
  <2>2. k.todo = <<"create", "route">> /\ k.todo # <<>> /\ k.chat = c /\ \A d \in Chats : k.listed[d] = Nil
    BY DEF Handler, Idle, NoneListed
  <2>3. tickets'[c] = t /\ sessions[c] = Nil /\ \A d \in Chats : d # c => tickets'[d] = tickets[d]
    BY <2>1 DEF AInv, LInv, TInv, TypeOK
  <2>4. Going(t) /\ t.assignee = Nil
    BY DEF Going
  <2> HIDE DEF k, t
  <2>5. HalfDone(k, sessions'[c], tickets'[c]) /\ Current(k, sessions', tickets')
    BY <2>1, <2>2, <2>3, <2>4 DEF HalfDone, Current
  <2> QED BY <1>2, <2>1, <2>2, <2>3, <2>5, AgreeStep
<1>6. CASE Accept(p, c)
  <2>1. PICK a \in Agents : Request(p, Handler(c, Joined(sessions[c], a), Assigning))
    BY <1>6 DEF Accept
  <2>2. sessions[c] \in SessionRow /\ sessions[c].status = "waiting" /\ sessions[c] # Nil
    BY <1>6 DEF Accept, Started, AInv, LInv, TInv, TypeOK
  <2> DEFINE k == Handler(c, Joined(sessions[c], a), Assigning)
  <2>3. k.todo = Assigning /\ k.row.status = "active" /\ Assigning # <<>>
    BY <2>2 DEF Handler, Idle, Joined, SessionRow, Assigning
  <2>4. Agree(sessions[c], tickets[c]) => Going(tickets[c])
    <3>1. tickets[c] \in TicketRow \cup {Nil}
      BY DEF AInv, LInv, TInv, TypeOK
    <3> QED BY <2>2, <3>1 DEF Agree, Match, Going, Over, TicketRow
  <2> HIDE DEF k
  <2>5. Agree(sessions[c], tickets[c]) => HalfDone(k, sessions[c], tickets[c])
    BY <2>2, <2>3, <2>4 DEF HalfDone
  <2> QED BY <1>4, <1>6, <2>1, <2>3, <2>5 DEF Accept, k
<1>7. CASE TransferToAgent(p, c)
  <2> DEFINE todo == <<"assignTicket", "saveSession", "saveTicket">>
  <2>1. PICK a \in Agents : Request(p, Handler(c, [sessions[c] EXCEPT !.agent = a], todo))
    BY <1>7 DEF TransferToAgent
  <2>2. sessions[c] \in SessionRow /\ sessions[c].status \notin Over /\ sessions[c] # Nil
    BY <1>7 DEF TransferToAgent, Started, AInv, LInv, TInv, TypeOK
  <2> DEFINE k == Handler(c, [sessions[c] EXCEPT !.agent = a], todo)
  <2>3. k.todo = todo /\ k.row.status \notin Over /\ todo # <<>>
    BY <2>2 DEF Handler, Idle, SessionRow
  <2>4. Agree(sessions[c], tickets[c]) => Going(tickets[c])
    <3>1. tickets[c] \in TicketRow \cup {Nil}
      BY DEF AInv, LInv, TInv, TypeOK
    <3> QED BY <2>2, <3>1 DEF Agree, Match, Going, Over, TicketRow
  <2> HIDE DEF k
  <2>5. Agree(sessions[c], tickets[c]) => HalfDone(k, sessions[c], tickets[c])
    BY <2>2, <2>3, <2>4 DEF HalfDone
  <2> QED BY <1>4, <1>7, <2>1, <2>3, <2>5 DEF TransferToAgent, k
<1>8. CASE TransferToDepartment(p, c)
  <2> DEFINE todo == <<"assignTicket", "saveSession", "saveTicket", "route">>
             k == Handler(c, Requeued(sessions[c]), todo)
  <2>1. sessions[c] \in SessionRow /\ sessions[c].status \notin Over /\ sessions[c] # Nil
    BY <1>8 DEF TransferToDepartment, Started, AInv, LInv, TInv, TypeOK
  <2>2. k.todo = todo /\ k.row.status \notin Over /\ todo # <<>>
    BY <2>1, RowOps DEF Handler, Idle, Over
  <2>3. Agree(sessions[c], tickets[c]) => Going(tickets[c])
    <3>1. tickets[c] \in TicketRow \cup {Nil}
      BY DEF AInv, LInv, TInv, TypeOK
    <3> QED BY <2>1, <3>1 DEF Agree, Match, Going, Over, TicketRow
  <2> HIDE DEF k
  <2>4. Agree(sessions[c], tickets[c]) => HalfDone(k, sessions[c], tickets[c])
    BY <2>1, <2>2, <2>3 DEF HalfDone
  <2> QED BY <1>4, <1>8, <2>2, <2>4 DEF TransferToDepartment, k
<1>9. CASE Message(p, c)
  <2> DEFINE k == Handler(c, [sessions[c] EXCEPT !.seen = now], <<"saveSession">>)
  <2>1. sessions[c] \in SessionRow /\ sessions[c] # Nil
    BY <1>9 DEF Message, Started, AInv, LInv, TInv, TypeOK
  <2>2. k.todo = <<"saveSession">> /\ k.row.status = sessions[c].status /\ k.row.agent = sessions[c].agent
    BY <2>1 DEF Handler, Idle, SessionRow
  <2>3. Agree(sessions[c], tickets[c]) => Match(k.row, tickets[c])
    BY <2>1, <2>2 DEF Agree, Match
  <2> HIDE DEF k
  <2>4. Agree(sessions[c], tickets[c]) => HalfDone(k, sessions[c], tickets[c])
    BY <2>1, <2>2, <2>3 DEF HalfDone
  <2> QED BY <1>4, <1>9, <2>2, <2>4 DEF Message, k
<1>10. CASE End(p, c)
  <2> DEFINE k == Handler(c, Ended(sessions[c], "ended"), Ending)
  <2>1. sessions[c] \in SessionRow /\ sessions[c] # Nil
    BY <1>10 DEF End, Started, AInv, LInv, TInv, TypeOK
  <2>2. k.todo = Ending /\ k.row.status \in Over /\ k.row.agent = sessions[c].agent /\ Ending # <<>>
    BY <2>1 DEF Handler, Idle, SessionRow, Ended, Over, Ending
  <2> HIDE DEF k
  <2>3. Agree(sessions[c], tickets[c]) => HalfDone(k, sessions[c], tickets[c])
    BY <2>1, <2>2 DEF HalfDone, Agree, Match
  <2> QED BY <1>4, <1>10, <2>2, <2>3 DEF End, k
<1>11. CASE Rate(p, c)
  <2> DEFINE k == Handler(c, sessions[c], <<"rateTicket", "saveTicket">>)
  <2>1. sessions[c] # Nil
    BY <1>11 DEF Rate, Started
  <2>2. k.todo = <<"rateTicket", "saveTicket">> /\ k.row = sessions[c]
    BY DEF Handler, Idle
  <2> HIDE DEF k
  <2>3. Agree(sessions[c], tickets[c]) => HalfDone(k, sessions[c], tickets[c])
    BY <2>1, <2>2 DEF HalfDone, Agree
  <2> QED BY <1>4, <1>11, <2>2, <2>3 DEF Rate, k
<1> QED BY <1>1, <1>5, <1>6, <1>7, <1>8, <1>9, <1>10, <1>11

LEMMA SweepsAgree ==
  ASSUME AInv, LInv', NEW p \in Procs, Sweeps(p)
  PROVE  AInv'
<1>1. ASSUME NEW S \in SUBSET Started, NEW how, Sweep(p, S, how) PROVE AInv'
  <2> DEFINE k == [Idle EXCEPT !.listed = [c \in Chats |-> IF c \in S THEN sessions[c] ELSE Nil], !.ending = how]
  <2>1. /\ job' = [job EXCEPT ![p] = k] /\ sessions' = sessions /\ tickets' = tickets
        /\ job[p] = Idle /\ (apart' => apart /\ \A q \in Procs : job[q] = Idle)
    BY <1>1 DEF Sweep, Begin
  <2>2. Idle.todo = <<>>
    BY DEF Idle
  <2>3. k.todo = <<>> /\ \A d \in Chats : k.listed[d] # Nil => k.listed[d] = sessions[d]
    BY DEF Idle
  <2> HIDE DEF k
  <2>4. apart' => \A d \in Chats : Agree(sessions[d], tickets[d])
    BY <2>1, <2>2 DEF AInv
  <2>5. apart' => Current(k, sessions', tickets')
    BY <2>1, <2>3, <2>4 DEF Current
  <2>6. PICK c \in Chats : TRUE
    BY <1>1 DEF Sweep, Started
  <2> QED BY <2>1, <2>2, <2>3, <2>4, <2>5, AgreeStep
<1>2. /\ {c \in Started : sessions[c].status \notin Over /\ sessions[c].seen + IdleLimit < now} \in SUBSET Started
      /\ {c \in Started : sessions[c].status = "waiting" /\ sessions[c].created + WaitLimit < now} \in SUBSET Started
  OBVIOUS
<1> QED BY <1>1, <1>2 DEF Sweeps, CloseIdleSessions, MarkAbandonedSessions

LEMMA EndedFields ==
  ASSUME NEW r \in SessionRow, NEW how \in Over
  PROVE  Ended(r, how).status \in Over /\ Ended(r, how).agent = r.agent
BY DEF Ended, SessionRow

\* Lists of steps that have begun are not empty.
LEMMA NotDone ==
  /\ <<"route">> # <<>> /\ <<"assignTicket", "saveTicket">> # <<>> /\ <<"endTicket", "saveTicket">> # <<>>
  /\ <<"saveTicket">> # <<>> /\ <<"saveTicket", "route">> # <<>>
  /\ <<"saveSession", "saveTicket">> # <<>> /\ <<"saveSession", "saveTicket", "route">> # <<>>
OBVIOUS

LEMMA ProceedAgrees ==
  ASSUME AInv, LInv', NEW p \in Procs, Proceed(p)
  PROVE  AInv'
<1> DEFINE j == job[p]
           s == sessions[j.chat]
           t == tickets[j.chat]
<1>1. j \in Job /\ Idle.todo = <<>> /\ (j.todo # <<>> => j.chat \in Chats) /\ \A d \in Chats : Idle.listed[d] = Nil
  BY DEF AInv, LInv, TInv, TypeOK, JobSound, Idle, NoneListed
<1>2. ASSUME apart, j # Idle, NEW q \in Procs, q # p PROVE job[q] = Idle
  BY <1>2 DEF AInv, LInv
<1>3. ASSUME apart PROVE (j.todo # <<>> => HalfDone(j, s, t)) /\ Current(j, sessions, tickets)
  BY <1>3 DEF AInv
\* A step on the one chat of the job.
<1>4. ASSUME NEW k, Goes(p, k), j.todo # <<>>, apart' = apart, k.todo # <<>> => k.chat = j.chat,
             \A d \in Chats : k.listed[d] = j.listed[d] \/ k.listed[d] = Nil,
             \A d \in Chats : d # j.chat => sessions'[d] = sessions[d] /\ tickets'[d] = tickets[d],
             apart => IF k.todo = <<>> THEN Agree(sessions'[j.chat], tickets'[j.chat])
                                       ELSE HalfDone(k, sessions'[j.chat], tickets'[j.chat])
      PROVE  AInv'
  <2>1. job' = [job EXCEPT ![p] = k] /\ j.chat \in Chats /\ j # Idle
    BY <1>1, <1>4 DEF Goes
  <2>2. apart => Current(k, sessions', tickets')
    BY <1>3, <1>4 DEF Current
  <2> QED BY <1>2, <1>4, <2>1, <2>2, AgreeStep
\* What the step done leaves.
<1>5. ASSUME j.todo # <<>>
      PROVE  /\ Done(j) \in Job /\ Done(j).todo = Tail(j.todo)
             /\ Tail(j.todo) # <<>> => Done(j).chat = j.chat /\ Done(j).row = j.row /\ Done(j).tk = j.tk
             /\ \A d \in Chats : Done(j).listed[d] = j.listed[d]
  BY <1>1, <1>5, DoneFields, DoneJob
<1>6. CASE NextListed(p)
  <2>1. PICK c \in Chats : /\ j.listed[c] # Nil
                           /\ Goes(p, [j EXCEPT !.chat = c, !.row = Ended(j.listed[c], j.ending), !.todo = Ending, !.listed[c] = Nil])
    BY <1>6 DEF NextListed
  <2> DEFINE k == [j EXCEPT !.chat = c, !.row = Ended(j.listed[c], j.ending), !.todo = Ending, !.listed[c] = Nil]
  <2>2. k.chat = c /\ k.row = Ended(j.listed[c], j.ending) /\ k.todo = Ending /\ k.listed[c] = Nil
        /\ \A d \in Chats : d # c => k.listed[d] = j.listed[d]
    BY <1>1 DEF Job
  <2>3. k.row.status \in Over /\ k.row.agent = j.listed[c].agent
    <3>1. j.listed[c] \in SessionRow /\ j.ending \in Over
      BY <1>1, <2>1 DEF AInv, LInv, TInv, JobSound, Job
    <3> QED BY <2>2, <3>1, EndedFields
  <2>4. job' = [job EXCEPT ![p] = k] /\ UNCHANGED <<sessions, tickets, apart>> /\ j.todo = <<>> /\ Ending # <<>>
    BY <1>6, <2>1 DEF NextListed, Goes, Ending
  <2>5. j # Idle
    BY <1>1, <2>1
  <2> HIDE DEF k
  <2>6. apart => HalfDone(k, sessions'[c], tickets'[c])
    BY <1>3, <2>1, <2>2, <2>3, <2>4 DEF HalfDone, Current, Agree, Match
  <2>7. apart => Current(k, sessions', tickets')
    BY <1>3, <2>2, <2>4 DEF Current
  <2> QED BY <1>2, <2>2, <2>4, <2>5, <2>6, <2>7, AgreeStep
<1>7. CASE CreateSession(p)
  <2> DEFINE k == [Done(j) EXCEPT !.row = Waiting]
  <2>1. /\ j.todo # <<>> /\ Head(j.todo) = "create" /\ Goes(p, k) /\ apart' = apart /\ tickets' = tickets
        /\ sessions' = [sessions EXCEPT ![j.chat] = Waiting]
    BY <1>7 DEF CreateSession, At
  <2>2. k.todo = Tail(j.todo) /\ k.row = Waiting /\ (k.todo # <<>> => k.chat = j.chat) /\ \A d \in Chats : k.listed[d] = j.listed[d]
    BY <1>5, <2>1 DEF Job
  <2>3. sessions'[j.chat] = Waiting /\ \A d \in Chats : d # j.chat => sessions'[d] = sessions[d]
    BY <1>1, <2>1 DEF AInv, LInv, TInv, TypeOK
  <2>4. apart => j.todo = <<"create", "route">> /\ Going(t) /\ t.assignee = Nil
    BY <1>3, <2>1, ByHead
  <2>5. ASSUME Going(t), t.assignee = Nil PROVE Match(Waiting, t)
    BY <2>5 DEF Waiting, Match, Going, Over
  <2> HIDE DEF k
  <2>6. apart => k.todo # <<>> /\ HalfDone(k, sessions'[j.chat], tickets'[j.chat])
    <3> SUFFICES ASSUME apart PROVE k.todo # <<>> /\ HalfDone(k, sessions'[j.chat], tickets'[j.chat])
      OBVIOUS
    <3>1. k.todo = <<"route">>
      BY <2>2, <2>4, Tails
    <3>2. sessions'[j.chat] = k.row /\ Match(sessions'[j.chat], tickets'[j.chat])
      BY <2>1, <2>2, <2>3, <2>4, <2>5
    <3> QED BY <3>1, <3>2, NotDone DEF HalfDone
  <2> QED BY <1>4, <2>1, <2>2, <2>3, <2>6
<1>8. CASE Route(p)
  <2>1. j.todo # <<>> /\ Head(j.todo) = "route" /\ UNCHANGED <<sessions, tickets, apart>>
    BY <1>8 DEF Route, At
  <2>2. apart => s = j.row /\ Match(s, t)
    BY <1>3, <2>1, ByHead
  <2>3. j.row \in SessionRow /\ j.row.status = "waiting" /\ t \in TicketRow /\ t # Nil
    <3>1. 1 \in 1..Len(j.todo) /\ j.todo[1] = "route"
      BY <1>1, <2>1 DEF Job
    <3>2. j.row # Nil
      BY <2>1 DEF AInv, LInv, TInv, JobSound
    <3>3. t # Nil /\ tickets \in [Chats -> TicketRow \cup {Nil}] /\ j.chat \in Chats
      BY <1>1, <2>1 DEF AInv, LInv, TInv, TypeOK, OfTickets
    <3> QED BY <1>1, <3>1, <3>2, <3>3 DEF AInv, LInv, TInv, JobSound, Job
  <2>4. CASE Goes(p, Idle)
    <3>1. apart => Agree(sessions'[j.chat], tickets'[j.chat])
      BY <2>1, <2>2, <2>3, NilIsNothing DEF Agree
    <3> QED BY <1>1, <1>4, <2>1, <2>4, <3>1
  <2>5. ASSUME NEW a \in Agents, Goes(p, [j EXCEPT !.row = Joined(@, a), !.todo = Assigning]) PROVE AInv'
    <3> DEFINE k == [j EXCEPT !.row = Joined(j.row, a), !.todo = Assigning]
    <3>1. k.row = Joined(j.row, a) /\ k.todo = Assigning /\ k.chat = j.chat /\ k.listed = j.listed /\ Assigning # <<>>
      BY <1>1 DEF Job, Assigning
    <3>2. Joined(j.row, a).status = "active"
      BY <2>3 DEF Joined, SessionRow
    <3>3. apart => Going(t) /\ s # Nil
      BY <2>2, <2>3, NilIsNothing DEF Match, Going, Over, TicketRow
    <3>4. Goes(p, k)
      BY <2>5
    <3> HIDE DEF k
    <3>5. apart => HalfDone(k, sessions'[j.chat], tickets'[j.chat])
      BY <2>1, <3>1, <3>2, <3>3 DEF HalfDone
    <3> QED BY <1>4, <2>1, <3>1, <3>4, <3>5
  <2> QED BY <1>8, <2>4, <2>5 DEF Route
<1>9. CASE SaveSession(p)
  <2> DEFINE k == Done(j)
  <2>1. /\ j.todo # <<>> /\ Head(j.todo) = "saveSession" /\ Goes(p, k) /\ apart' = apart /\ tickets' = tickets
        /\ sessions' = [sessions EXCEPT ![j.chat] = j.row]
    BY <1>9 DEF SaveSession, At
  <2>2. k.todo = Tail(j.todo) /\ (k.todo # <<>> => k.chat = j.chat /\ k.row = j.row /\ k.tk = j.tk) /\ \A d \in Chats : k.listed[d] = j.listed[d]
    BY <1>5, <2>1
  <2>3. sessions'[j.chat] = j.row /\ \A d \in Chats : d # j.chat => sessions'[d] = sessions[d]
    BY <1>1, <2>1 DEF AInv, LInv, TInv, TypeOK
  <2>4. j.row # Nil /\ t # Nil
    BY <2>1 DEF AInv, LInv, TInv, JobSound, OfTickets
  <2> HIDE DEF k
  <2>5. ASSUME apart PROVE IF k.todo = <<>> THEN Agree(sessions'[j.chat], tickets'[j.chat])
                                          ELSE HalfDone(k, sessions'[j.chat], tickets'[j.chat])
    <3>1. CASE j.todo = Assigning /\ j.row.status = "active" /\ Going(t)
      <4>1. k.todo = <<"assignTicket", "saveTicket">> /\ j.row.status \notin Over
        BY <2>2, <3>1, Tails DEF Over
      <4> QED BY <2>1, <2>2, <2>3, <3>1, <4>1, NotDone DEF HalfDone
    <3>2. CASE j.todo = Ending /\ j.row.status \in Over /\ t.assignee = j.row.agent
      <4>1. k.todo = <<"endTicket", "saveTicket">>
        BY <2>2, <3>2, Tails
      <4> QED BY <2>1, <2>2, <2>3, <3>2, <4>1, NotDone DEF HalfDone
    <3>3. CASE j.todo \in {<<"saveSession", "saveTicket">>, <<"saveSession", "saveTicket", "route">>} /\ Match(j.row, j.tk)
      <4>1. k.todo \in {<<"saveTicket">>, <<"saveTicket", "route">>}
        BY <2>2, <3>3, Tails
      <4> QED BY <2>1, <2>2, <2>3, <3>3, <4>1, NotDone DEF HalfDone
    <3>4. CASE j.todo = <<"saveSession">> /\ Match(j.row, t)
      BY <2>1, <2>2, <2>3, <2>4, <3>4, Tails DEF Agree
    <3> QED BY <1>3, <2>1, <2>5, <3>1, <3>2, <3>3, <3>4, ByHead
  <2> QED BY <1>4, <2>1, <2>2, <2>3, <2>5
\* The ticket made and not saved yet.
<1>10. ASSUME NEW tk, j.todo # <<>>, Goes(p, [Done(j) EXCEPT !.tk = tk]), UNCHANGED <<sessions, tickets, apart>>,
              apart => /\ Tail(j.todo) \in {<<"saveTicket">>, <<"saveTicket", "route">>} => s = j.row /\ Match(s, tk)
                       /\ Tail(j.todo) \in {<<"saveSession", "saveTicket">>, <<"saveSession", "saveTicket", "route">>} =>
                            s # Nil /\ Match(j.row, tk)
                       /\ Tail(j.todo) \in {<<"saveTicket">>, <<"saveTicket", "route">>, <<"saveSession", "saveTicket">>,
                                            <<"saveSession", "saveTicket", "route">>}
       PROVE  AInv'
  <2> DEFINE k == [Done(j) EXCEPT !.tk = tk]
  <2>1. k.todo = Tail(j.todo) /\ (k.todo # <<>> => k.chat = j.chat /\ k.row = j.row) /\ k.tk = tk /\ \A d \in Chats : k.listed[d] = j.listed[d]
    BY <1>5, <1>10 DEF Job
  <2>2. Goes(p, k)
    BY <1>10
  <2> HIDE DEF k
  <2>3. apart => k.todo # <<>> /\ HalfDone(k, sessions'[j.chat], tickets'[j.chat])
    <3> SUFFICES ASSUME apart PROVE k.todo # <<>> /\ HalfDone(k, sessions'[j.chat], tickets'[j.chat])
      OBVIOUS
    <3>1. sessions'[j.chat] = s /\ tickets'[j.chat] = t
      BY <1>10
    <3>2. CASE k.todo \in {<<"saveTicket">>, <<"saveTicket", "route">>}
      BY <1>10, <2>1, <3>1, <3>2, NotDone DEF HalfDone
    <3>3. CASE k.todo \in {<<"saveSession", "saveTicket">>, <<"saveSession", "saveTicket", "route">>}
      BY <1>10, <2>1, <3>1, <3>3, NotDone DEF HalfDone
    <3> QED BY <1>10, <2>1, <3>2, <3>3
  <2> QED BY <1>4, <1>10, <2>1, <2>2, <2>3
<1>11. j.todo # <<>> => t \in TicketRow
  BY <1>1 DEF AInv, LInv, TInv, TypeOK, OfTickets
<1>12. CASE AssignTicket(p)
  <2> DEFINE tk == [t EXCEPT !.assignee = j.row.agent]
  <2>1. j.todo # <<>> /\ Head(j.todo) = "assignTicket" /\ Goes(p, [Done(j) EXCEPT !.tk = tk]) /\ UNCHANGED <<sessions, tickets, apart>>
    BY <1>12 DEF AssignTicket, At
  <2>2. ASSUME Going(t), j.row.status \notin Over PROVE Match(j.row, tk)
    BY <1>11, <2>1, <2>2 DEF Match, Going, TicketRow
  <2> HIDE DEF tk
  <2>3. ASSUME apart
        PROVE  /\ Tail(j.todo) \in {<<"saveTicket">>, <<"saveTicket", "route">>} => s = j.row /\ Match(s, tk)
               /\ Tail(j.todo) \in {<<"saveSession", "saveTicket">>, <<"saveSession", "saveTicket", "route">>} =>
                    s # Nil /\ Match(j.row, tk)
               /\ Tail(j.todo) \in {<<"saveTicket">>, <<"saveTicket", "route">>, <<"saveSession", "saveTicket">>,
                                    <<"saveSession", "saveTicket", "route">>}
    <3>1. CASE j.todo = <<"assignTicket", "saveTicket">> /\ s = j.row /\ s.status \notin Over /\ Going(t)
      <4>1. Tail(j.todo) = <<"saveTicket">> /\ Match(s, tk) /\ s = j.row
        BY <2>2, <3>1, Tails
      <4>2. <<"saveTicket">> \notin {<<"saveSession", "saveTicket">>, <<"saveSession", "saveTicket", "route">>}
        OBVIOUS
      <4> QED BY <4>1, <4>2
    <3>2. CASE /\ j.todo \in {<<"assignTicket", "saveSession", "saveTicket">>, <<"assignTicket", "saveSession", "saveTicket", "route">>}
               /\ s # Nil /\ j.row.status \notin Over /\ Going(t)
      <4>1. Tail(j.todo) \in {<<"saveSession", "saveTicket">>, <<"saveSession", "saveTicket", "route">>} /\ Match(j.row, tk)
        BY <2>2, <3>2, Tails
      <4>2. {<<"saveTicket">>, <<"saveTicket", "route">>} \cap {<<"saveSession", "saveTicket">>, <<"saveSession", "saveTicket", "route">>} = {}
        OBVIOUS
      <4> QED BY <3>2, <4>1, <4>2
    <3> QED BY <1>3, <2>1, <2>3, <3>1, <3>2, ByHead
  <2> QED BY <1>10, <2>1, <2>3
<1>13. CASE EndTicket(p)
  <2> DEFINE tk == [t EXCEPT !.status = "open"]
  <2>1. j.todo # <<>> /\ Head(j.todo) = "endTicket" /\ Goes(p, [Done(j) EXCEPT !.tk = tk]) /\ UNCHANGED <<sessions, tickets, apart>>
    BY <1>13 DEF EndTicket, At
  <2>2. ASSUME s.status \in Over, t.assignee = s.agent PROVE Match(s, tk)
    BY <1>11, <2>1, <2>2 DEF Match, TicketRow
  <2> HIDE DEF tk
  <2>3. apart => Tail(j.todo) = <<"saveTicket">> /\ s = j.row /\ Match(s, tk)
    BY <1>3, <2>1, <2>2, ByHead, Tails
  <2>4. <<"saveTicket">> # <<"saveSession", "saveTicket">> /\ <<"saveTicket">> # <<"saveSession", "saveTicket", "route">>
    OBVIOUS
  <2> QED BY <1>10, <2>1, <2>3, <2>4
<1>14. CASE RateTicket(p)
  <2>1. j.todo # <<>> /\ Head(j.todo) = "rateTicket" /\ UNCHANGED <<sessions, tickets, apart>>
    BY <1>14 DEF RateTicket, At
  <2>2. apart => Tail(j.todo) = <<"saveTicket">> /\ s = j.row /\ Match(s, t)
    BY <1>3, <2>1, ByHead, Tails
  <2>3. CASE Goes(p, Idle)
    <3>1. j.row # Nil /\ t # Nil
      BY <2>1 DEF AInv, LInv, TInv, JobSound, OfTickets
    <3> QED BY <1>1, <1>4, <2>1, <2>2, <2>3, <3>1 DEF Agree
  <2>4. CASE Goes(p, [Done(j) EXCEPT !.tk = [t EXCEPT !.rated = TRUE]])
    <3> DEFINE tk == [t EXCEPT !.rated = TRUE]
    <3>1. Match(s, t) => Match(s, tk)
      BY <1>11, <2>1 DEF Match, TicketRow
    <3>2. Goes(p, [Done(j) EXCEPT !.tk = tk])
      BY <2>4
    <3> HIDE DEF tk
    <3>3. <<"saveTicket">> # <<"saveSession", "saveTicket">> /\ <<"saveTicket">> # <<"saveSession", "saveTicket", "route">>
      OBVIOUS
    <3> QED BY <1>10, <2>1, <2>2, <3>1, <3>2, <3>3
  <2> QED BY <1>14, <2>3, <2>4 DEF RateTicket
<1>15. CASE SaveTicket(p)
  <2> DEFINE k == Done(j)
  <2>1. /\ j.todo # <<>> /\ Head(j.todo) = "saveTicket" /\ Goes(p, k) /\ apart' = apart /\ sessions' = sessions
        /\ tickets' = [tickets EXCEPT ![j.chat] = j.tk]
    BY <1>15 DEF SaveTicket, At
  <2>2. k.todo = Tail(j.todo) /\ (k.todo # <<>> => k.chat = j.chat /\ k.row = j.row) /\ \A d \in Chats : k.listed[d] = j.listed[d]
    BY <1>5, <2>1
  <2>3. tickets'[j.chat] = j.tk /\ \A d \in Chats : d # j.chat => tickets'[d] = tickets[d]
    BY <1>1, <2>1 DEF AInv, LInv, TInv, TypeOK
  <2>4. apart => j.todo \in {<<"saveTicket">>, <<"saveTicket", "route">>} /\ s = j.row /\ Match(s, j.tk)
    BY <1>3, <2>1, ByHead
  <2>5. j.row # Nil /\ tickets'[j.chat] # Nil
    <3>1. tickets[j.chat] # Nil /\ j.row # Nil
      BY <2>1 DEF AInv, LInv, TInv, JobSound, OfTickets
    <3>2. sessions'[j.chat] # Nil => tickets'[j.chat] # Nil
      BY <1>1, <2>1 DEF LInv, TInv
    <3>3. 1 \in 1..Len(j.todo) /\ j.todo[1] = "saveTicket" /\ 1..(1 - 1) = {}
      BY <1>1, <2>1 DEF Job
    <3>4. j.tk # Nil
      BY <3>3 DEF AInv, LInv, TInv, JobSound
    <3> QED BY <2>3, <3>1, <3>4
  <2> HIDE DEF k
  <2>6. ASSUME apart PROVE IF k.todo = <<>> THEN Agree(sessions'[j.chat], tickets'[j.chat])
                                          ELSE HalfDone(k, sessions'[j.chat], tickets'[j.chat])
    <3>1. CASE j.todo = <<"saveTicket">>
      BY <2>1, <2>2, <2>3, <2>4, <2>5, <2>6, <3>1, Tails DEF Agree
    <3>2. CASE j.todo = <<"saveTicket", "route">>
      BY <2>1, <2>2, <2>3, <2>4, <2>5, <2>6, <3>2, Tails DEF HalfDone
    <3> QED BY <2>4, <2>6, <3>1, <3>2
  <2> QED BY <1>4, <2>1, <2>2, <2>3, <2>6
<1> QED BY <1>6, <1>7, <1>8, <1>9, <1>12, <1>13, <1>14, <1>15 DEF Proceed

LEMMA AInvInit == Init => AInv
<1> SUFFICES ASSUME Init PROVE AInv
  OBVIOUS
<1>1. Idle.todo = <<>> /\ \A c \in Chats : Idle.listed[c] = Nil
  BY DEF Idle, NoneListed
<1>2. \A p \in Procs : job[p] = Idle
  BY DEF Init
<1>3. \A c \in Chats : sessions[c] = Nil /\ tickets[c] = Nil
  BY DEF Init
<1> QED BY <1>1, <1>2, <1>3, LInvInit DEF AInv, Current, Agree

LEMMA AInvStep == AInv /\ [Next]_vars => AInv'
<1> SUFFICES ASSUME AInv, [Next]_vars PROVE AInv'
  OBVIOUS
<1>1. LInv'
  BY LInvStep DEF AInv
<1>2. ASSUME UNCHANGED <<sessions, tickets, job, apart>> PROVE AInv'
  <2>1. sessions' = sessions /\ tickets' = tickets /\ job' = job /\ apart' = apart
    BY <1>2
  <2>2. apart => \A q \in Procs : /\ job[q].todo # <<>> => HalfDone(job[q], sessions[job[q].chat], tickets[job[q].chat])
                                 /\ Current(job[q], sessions, tickets)
    BY DEF AInv
  <2>3. apart => \A c \in Chats : Agree(sessions[c], tickets[c]) \/ \E q \in Procs : job[q].todo # <<>> /\ job[q].chat = c
    BY DEF AInv
  <2> QED BY <1>1, <2>1, <2>2, <2>3 DEF AInv
<1>3. ASSUME NEW p \in Procs, Crash(p) PROVE AInv'
  BY <1>1, <1>3 DEF AInv, Crash
<1> QED BY <1>1, <1>2, <1>3, RequestsAgree, SweepsAgree, ProceedAgrees DEF Next, Tick, vars

\* If no handlers overlap or crash, a chat's session and its ticket agree
\* whenever no handler runs: AcceptSession, TransferSession, EndSession, the
\* sweeps and RateChat each write both rows to match.
THEOREM SessionsAgree == Spec => []SessionAndTicketAgree
<1>1. AInv => SessionAndTicketAgree
  <2> SUFFICES ASSUME AInv, apart, \A p \in Procs : job[p] = Idle, NEW c \in Chats PROVE Agree(sessions[c], tickets[c])
    BY DEF SessionAndTicketAgree, Agree, Match
  <2>1. Idle.todo = <<>>
    BY DEF Idle
  <2> QED BY <2>1 DEF AInv
<1> QED BY <1>1, AInvInit, AInvStep, PTL DEF Spec
=============================================================================
