------------------------------ MODULE GuestTokens ------------------------------
(***************************************************************************)
(* What opens a guest's ticket and a visitor's chat: grants and the tokens   *)
(* that came before them (services/guest_access.go from Issue on,            *)
(* services/chat_tokens.go).  A grant names its ticket, mailbox, nonce and   *)
(* expiry; the ticket's row keeps the last nonce.  A chat token is hashed on *)
(* the chat session; chats of an earlier release keep theirs, in the clear,  *)
(* as the ticket's guest_token until its first use moves it.  A visitor's    *)
(* lookup and the move read first and write later.                           *)
(***************************************************************************)
EXTENDS Naturals, FiniteSets

CONSTANTS
  Tickets,      \* guest tickets, all under one reference (an old shared one)
  Chats,        \* those opened by the chat widget of an earlier release
  Mailboxes,
  Requests,     \* request handlers
  GrantTTL,     \* GuestAccess.grantTTL
  RejectLegacy, \* GuestAccessConfig.RejectLegacyTokens
  MaxIssued,    \* bound of the number of grants
  MaxTime,      \* bound of the clock
  MaxCrashes,   \* bound of the number of crashes
  Nil

TokensConstants ==
  /\ Chats \subseteq Tickets
  /\ GrantTTL \in Nat \ {0} /\ RejectLegacy \in BOOLEAN
  /\ MaxIssued \in Nat /\ MaxTime \in Nat /\ MaxCrashes \in Nat
  /\ Nil \notin Nat \cup Mailboxes \cup Tickets

VARIABLES
  rows,      \* the guest columns of escalated_tickets
  sessions,  \* the token columns of escalated_chat_sessions
  issued,    \* how many nonces were drawn
  grants,    \* every grant ever sealed
  now, req, crashes

vars == <<rows, sessions, issued, grants, now, req, crashes>>

Row == [mailbox  : Mailboxes,                 \* guest_email
        verified : Mailboxes \cup {Nil},      \* guest_verified_email
        nonce    : 0..MaxIssued,              \* guest_access_hash; 0: NULL
        expires  : 0..(MaxTime + GrantTTL),   \* guest_access_expires_at
        token    : BOOLEAN]                   \* guest_token is set (a guest has it)

Session == [hashed : BOOLEAN, expires : Nat]  \* visitor_token_hash, _expires_at

Grant == [ticket : Tickets, mailbox : Mailboxes, nonce : 1..MaxIssued, expires : Nat]

\* hits: the tickets a lookup listed and still has to issue for; chat: the
\* ticket of the chat whose token is being moved, read at the time at.
Request == [step    : {"idle", "lookup", "move", "clear"},
            mailbox : Mailboxes \cup {Nil},
            hits    : SUBSET Tickets,
            chat    : Tickets \cup {Nil},
            at      : Nat]

Idle == [step |-> "idle", mailbox |-> Nil, hits |-> {}, chat |-> Nil, at |-> 0]

Init ==
  /\ \E m \in Mailboxes :
       rows = [t \in Tickets |-> [mailbox |-> m, verified |-> Nil, nonce |-> 0,
                                  expires |-> 0, token |-> TRUE]]
  /\ sessions = [t \in Chats |-> [hashed |-> FALSE, expires |-> 0]]
  /\ issued = 0 /\ grants = {}
  /\ now = 0
  /\ req = [r \in Requests |-> Idle]
  /\ crashes = 0

-----------------------------------------------------------------------------
\* ResolveGrant: the seal is sound, so a grant is one that was issued.
Opens(g) == LET row == rows[g.ticket]
            IN  /\ g.expires > now /\ row.expires > now
                /\ row.expires = g.expires /\ row.nonce = g.nonce
                /\ row.verified = row.mailbox /\ g.mailbox = row.verified

\* ResolveTicketID's fallback.
TokenOpens(t) == ~RejectLegacy /\ rows[t].token

-----------------------------------------------------------------------------
\* The grant drawn for ticket t, mailbox m, and the row that keeps it.
Sealed(t, m, until) == [ticket |-> t, mailbox |-> m, nonce |-> issued + 1, expires |-> until]
Granted(row, m, until) == [row EXCEPT !.verified = m, !.nonce = issued + 1, !.expires = until,
                                      !.token = FALSE]

\* Faults: the permanent token stays; the lifetime is added to that of the
\* grant before.
IssueKeepsToken(t, m) ==
  /\ issued < MaxIssued /\ issued' = issued + 1
  /\ IF rows[t].mailbox = m
     THEN /\ rows' = [rows EXCEPT ![t] = [Granted(@, m, now + GrantTTL) EXCEPT !.token = rows[t].token]]
          /\ grants' = grants \cup {Sealed(t, m, now + GrantTTL)}
     ELSE UNCHANGED <<rows, grants>>
IssueExtends(t, m) ==
  LET until == GrantTTL + IF rows[t].expires > now THEN rows[t].expires ELSE now
  IN  /\ issued < MaxIssued /\ issued' = issued + 1
      /\ IF rows[t].mailbox = m
         THEN /\ rows' = [rows EXCEPT ![t] = Granted(@, m, until)]
              /\ grants' = grants \cup {Sealed(t, m, until)}
         ELSE UNCHANGED <<rows, grants>>

\* Issue: UPDATE ... WHERE id and guest_email match; no row is an error.
Issue(t, m) ==
  /\ issued < MaxIssued /\ issued' = issued + 1
  /\ IF rows[t].mailbox = m
     THEN /\ rows' = [rows EXCEPT ![t] = Granted(@, m, now + GrantTTL)]
          /\ grants' = grants \cup {Sealed(t, m, now + GrantTTL)}
     ELSE UNCHANGED <<rows, grants>>

\* Lookup, its code consumed: the tickets of the mailbox are listed ...
Lookup(r) ==
  /\ req[r].step = "idle"
  /\ \E m \in Mailboxes :
       LET hits == {t \in Tickets : rows[t].mailbox = m}
       IN  /\ hits # {}
           /\ req' = [req EXCEPT ![r] = [Idle EXCEPT !.step = "lookup", !.mailbox = m, !.hits = hits]]
  /\ UNCHANGED <<rows, sessions, issued, grants, now, crashes>>

\* ... and each gets a fresh grant; the first error ends the lookup.
IssueNext(r) ==
  /\ req[r].step = "lookup"
  /\ \E t \in req[r].hits :
       /\ Issue(t, req[r].mailbox)
       /\ req' = [req EXCEPT ![r] = IF rows[t].mailbox = req[r].mailbox /\ req[r].hits # {t}
                                    THEN [req[r] EXCEPT !.hits = @ \ {t}] ELSE Idle]
  /\ UNCHANGED <<sessions, now, crashes>>

\* ChatSessionForToken: the token is on no session but on a ticket ...
FindChat(r) ==
  /\ req[r].step = "idle"
  /\ \E t \in Chats :
       /\ ~sessions[t].hashed /\ rows[t].token
       /\ req' = [req EXCEPT ![r] = [Idle EXCEPT !.step = "move", !.chat = t, !.at = now]]
  /\ UNCHANGED <<rows, sessions, issued, grants, now, crashes>>

\* ... so its hash goes to the session ...
MoveToken(r) ==
  /\ req[r].step = "move"
  /\ sessions' = [sessions EXCEPT ![req[r].chat] = [hashed |-> TRUE, expires |-> req[r].at + GrantTTL]]
  /\ req' = [req EXCEPT ![r].step = "clear"]
  /\ UNCHANGED <<rows, issued, grants, now, crashes>>

\* ... and then off the ticket.
ClearToken(r) ==
  /\ req[r].step = "clear"
  /\ rows' = [rows EXCEPT ![req[r].chat].token = FALSE]
  /\ req' = [req EXCEPT ![r] = Idle]
  /\ UNCHANGED <<sessions, issued, grants, now, crashes>>

\* The host edits a ticket's guest_email, calling Revoke or not.
Revoked(row) == [row EXCEPT !.nonce = 0, !.expires = 0, !.token = FALSE]

HostEditsMailbox(t) ==
  /\ \E m \in Mailboxes \ {rows[t].mailbox} :
       \E row \in {rows[t], Revoked(rows[t])} :
          rows' = [rows EXCEPT ![t] = [row EXCEPT !.mailbox = m]]
  /\ UNCHANGED <<sessions, issued, grants, now, req, crashes>>

Tick ==
  /\ now < MaxTime
  /\ now' = now + 1
  /\ UNCHANGED <<rows, sessions, issued, grants, req, crashes>>

Crash(r) ==
  /\ crashes < MaxCrashes /\ req[r].step # "idle"
  /\ crashes' = crashes + 1
  /\ req' = [req EXCEPT ![r] = Idle]
  /\ UNCHANGED <<rows, sessions, issued, grants, now>>

Next == \/ Tick
        \/ \E t \in Tickets : HostEditsMailbox(t)
        \/ \E r \in Requests : \/ Lookup(r) \/ IssueNext(r) \/ FindChat(r)
                               \/ MoveToken(r) \/ ClearToken(r) \/ Crash(r)

Spec == Init /\ [][Next]_vars

-----------------------------------------------------------------------------
TypeOK ==
  /\ rows \in [Tickets -> Row]
  /\ sessions \in [Chats -> Session]
  /\ issued \in 0..MaxIssued /\ grants \subseteq Grant
  /\ now \in Nat /\ crashes \in Nat
  /\ req \in [Requests -> Request]

\* "Issuing a new grant invalidates the earlier ones", and the permanent token:
\* a ticket is opened by one thing only, and by its guest's mailbox.
OneKey ==
  \A g \in grants : Opens(g) =>
    /\ \A h \in grants : h.ticket = g.ticket /\ Opens(h) => h = g
    /\ ~TokenOpens(g.ticket)
    /\ g.mailbox = rows[g.ticket].mailbox

\* A lookup listed before the mailbox changed takes nothing from the new guest:
\* only a lookup of the ticket's mailbox replaces its grant.
GrantKeptForMailbox ==
  \A g \in grants : Opens(g) /\ rows'[g.ticket].nonce # g.nonce
    => \/ rows'[g.ticket].mailbox # g.mailbox
       \/ \E h \in grants' \ grants : h.ticket = g.ticket /\ h.mailbox = g.mailbox

\* "A chat token cannot open ticket routes": once it is on the session and no
\* move is under way, the ticket has lost its copy, unless a crash came between.
MovedTokenGone ==
  (crashes = 0 /\ \A r \in Requests : req[r].step # "clear")
    => \A t \in Chats : sessions[t].hashed => ~TokenOpens(t)
=============================================================================
