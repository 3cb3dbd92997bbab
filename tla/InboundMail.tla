------------------------------ MODULE InboundMail ------------------------------
(***************************************************************************)
(* Inbound e-mail (services/email, handlers/inbound_email.go). A provider    *)
(* posts a message, and posts it again when it hears no success; a post      *)
(* finds the ticket, asks who may reply, then replies and reopens, or opens  *)
(* a new ticket, and keeps nothing of the message. Texts are abstracted to   *)
(* what they name; a provider's payload is the message itself.               *)
(***************************************************************************)
EXTENDS Naturals, Sequences, FiniteSets

CONSTANTS Messages,    \* [from, to, headers, tag, empty]: see Message
          Tickets, Addresses, Posts, Nil,
          MaxFaults,   \* bound on store errors and crashes
          MaxEdits     \* bound on what agents do meanwhile

\* to: the ticket whose signed address it was sent to, or Nil. headers: the
\* tickets its In-Reply-To and References name, in order. tag: the ticket whose
\* reference stands in the subject. empty: no subject and no body.
Message == [from : Addresses \cup {Nil}, to : Tickets \cup {Nil}, headers : Seq(Tickets), tag : Tickets \cup {Nil}, empty : BOOLEAN]

MailConstants == Messages \subseteq Message /\ MaxFaults \in Nat /\ MaxEdits \in Nat

VARIABLES signed,    \* whether a secret is configured
          tickets,   \* ticket -> [requester, status], Nil for none
          post,      \* post -> [at, message, ticket, requester, finished]: where it is, what it loaded
          replies,   \* [post, message, ticket, as]: public replies stored from e-mail
          opened,    \* [post, message]: tickets opened from e-mail
          answered,  \* posts the provider was told were dealt with
          reopens,   \* tickets e-mail reopened, with the post that did
          faults, edits
vars == <<signed, tickets, post, replies, opened, answered, reopens, faults, edits>>

Statuses == {"open", "resolved", "closed", "reopened"}
Finished == {"resolved", "closed"}
Fresh == [at |-> "none", message |-> Nil, ticket |-> Nil, requester |-> Nil, finished |-> FALSE]

TypeOK ==
  /\ tickets \in [Tickets -> [requester : Addresses, status : Statuses] \cup {Nil}]
  /\ \A p \in Posts : post[p].at \in {"none", "resolve", "author", "reply", "reopen", "create", "over", "failed"}
                      /\ post[p].ticket \in Tickets \cup {Nil} /\ post[p].requester \in Addresses \cup {Nil} /\ post[p].finished \in BOOLEAN
  /\ \A r \in replies : r.ticket \in Tickets /\ r.as \in Addresses
  /\ answered \subseteq Posts /\ signed \in BOOLEAN /\ faults \in 0..MaxFaults /\ edits \in 0..MaxEdits

Init ==
  /\ signed \in BOOLEAN
  /\ tickets \in [Tickets -> [requester : Addresses, status : {"open", "closed"}]]
  /\ post = [p \in Posts |-> Fresh] /\ replies = {} /\ opened = {} /\ answered = {} /\ reopens = {} /\ faults = 0 /\ edits = 0
-----------------------------------------------------------------------------
Step(p, rec) == post' = [post EXCEPT ![p] = rec]

\* The provider: a first time, or once more unless a post was dealt with.
Inbound(p, m) ==
  /\ post[p] = Fresh /\ \A q \in answered : post[q].message # m
  /\ Step(p, [Fresh EXCEPT !.at = "resolve", !.message = m])
  /\ UNCHANGED <<signed, tickets, replies, opened, answered, reopens, faults, edits>>

\* The first named that is there.
First(s) ==
  LET found == {k \in DOMAIN s : s[k] # Nil /\ tickets[s[k]] # Nil}
  IN  IF found = {} THEN Nil ELSE s[CHOOSE k \in found : \A j \in found : k <= j]

\* ResolveTicket(): with a secret, the signed address alone; without one, the
\* headers in order, then the subject.
resolved(m) == IF signed THEN First(<<m.to>>) ELSE First(m.headers \o <<m.tag>>)

ResolveTicket(p) ==
  LET t == resolved(post[p].message) IN
  /\ post[p].at = "resolve"
  /\ Step(p, [post[p] EXCEPT !.at = IF t = Nil THEN "create" ELSE "author", !.ticket = t,
                             !.requester = IF t = Nil THEN Nil ELSE tickets[t].requester,
                             !.finished = t # Nil /\ tickets[t].status \in Finished])
  /\ UNCHANGED <<signed, tickets, replies, opened, answered, reopens, faults, edits>>

\* Fault: whoever answers a thread may reply in it.
mayReplyAnyone(m, requester) == m.from # Nil

mayReply(m, requester) == m.from = requester

\* replyAuthor(): the sender is the guest's address the ticket was loaded with
\* or the requester's, which is the host's to look up.
replyAuthor(p) ==
  /\ post[p].at = "author"
  /\ Step(p, [post[p] EXCEPT !.at = IF mayReply(post[p].message, post[p].requester) THEN "reply" ELSE "create"])
  /\ UNCHANGED <<signed, tickets, replies, opened, answered, reopens, faults, edits>>

\* AddReply() loads the ticket again and fails when it is gone; the author is
\* the ticket's requester.
AddReply(p) ==
  LET t == post[p].ticket IN
  /\ post[p].at = "reply"
  /\ IF tickets[t] = Nil
     THEN Step(p, [post[p] EXCEPT !.at = "failed"]) /\ UNCHANGED <<replies, answered>>
     ELSE /\ replies' = replies \cup {[post |-> p, message |-> post[p].message, ticket |-> t, as |-> post[p].requester]}
          /\ Step(p, [post[p] EXCEPT !.at = IF post[p].finished THEN "reopen" ELSE "over"])
          /\ answered' = IF post[p].finished THEN answered ELSE answered \cup {p}
  /\ UNCHANGED <<signed, tickets, opened, reopens, faults, edits>>

\* reopenIfFinished(): by the status it loaded at first, over any status by now;
\* when that fails the reply stands.
reopenIfFinished(p, done) ==
  LET t == post[p].ticket IN
  /\ post[p].at = "reopen"
  /\ IF done THEN tickets[t] # Nil ELSE tickets[t] = Nil \/ faults < MaxFaults
  /\ tickets' = IF done THEN [tickets EXCEPT ![t].status = "reopened"] ELSE tickets
  /\ reopens' = IF done THEN reopens \cup {<<t, p>>} ELSE reopens
  /\ faults' = IF done \/ tickets[t] = Nil THEN faults ELSE faults + 1
  /\ answered' = answered \cup {p} /\ Step(p, [post[p] EXCEPT !.at = "over"])
  /\ UNCHANGED <<signed, replies, opened, edits>>

\* Noise is skipped; anything else opens a ticket.
Create(p) ==
  /\ post[p].at = "create"
  /\ opened' = IF post[p].message.empty THEN opened ELSE opened \cup {[post |-> p, message |-> post[p].message]}
  /\ answered' = answered \cup {p} /\ Step(p, [post[p] EXCEPT !.at = "over"])
  /\ UNCHANGED <<signed, tickets, replies, reopens, faults, edits>>

\* The store fails, the process stops, or the answer is lost on its way.
Fail(p) ==
  /\ faults < MaxFaults /\ faults' = faults + 1
  /\ \/ post[p].at \in {"resolve", "author", "reply", "create", "reopen"} /\ Step(p, [post[p] EXCEPT !.at = "failed"]) /\ UNCHANGED answered
     \/ post[p].at = "over" /\ p \in answered /\ answered' = answered \ {p} /\ UNCHANGED post
  /\ UNCHANGED <<signed, tickets, replies, opened, reopens, edits>>

\* Agents, meanwhile.
Edit(t) ==
  /\ edits < MaxEdits /\ edits' = edits + 1 /\ tickets[t] # Nil
  /\ \/ \E s \in Statuses \ {tickets[t].status} : tickets' = [tickets EXCEPT ![t].status = s]
     \/ tickets' = [tickets EXCEPT ![t] = Nil]
  /\ UNCHANGED <<signed, post, replies, opened, answered, reopens, faults>>

Next ==
  \/ \E p \in Posts :
       \/ \E m \in Messages : Inbound(p, m)
       \/ ResolveTicket(p) \/ replyAuthor(p) \/ AddReply(p) \/ Create(p) \/ Fail(p)
       \/ \E done \in BOOLEAN : reopenIfFinished(p, done)
  \/ \E t \in Tickets : Edit(t)

Spec == Init /\ [][Next]_vars
-----------------------------------------------------------------------------
\* An e-mail replies in a ticket its own sender requested only, and, where
\* addresses are signed, in the one whose address it was sent to; it reopens
\* no ticket it did not reply in, and, faults aside, every one that was finished
\* when the post looked; a post does one thing at most; and it is answered only
\* after it replied, opened a ticket, or found the message empty.
MailHolds ==
  /\ \A r \in replies : r.as = r.message.from /\ (signed => r.ticket = r.message.to)
                        /\ (tickets[r.ticket] # Nil => tickets[r.ticket].requester = r.as)
  /\ \A x \in reopens : \E r \in replies : r.post = x[2] /\ r.ticket = x[1]
  /\ \A p \in Posts : LET did == {r \in replies : r.post = p} \cup {o \in opened : o.post = p} IN
       /\ Cardinality(did) <= 1
       /\ p \in answered => did # {} \/ post[p].message.empty
  /\ \A r \in replies : r.post \in answered /\ post[r.post].finished =>
       <<r.ticket, r.post>> \in reopens \/ tickets[r.ticket] = Nil \/ faults > 0
=============================================================================
