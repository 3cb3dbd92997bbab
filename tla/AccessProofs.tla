----------------------------- MODULE AccessProofs -----------------------------
(***************************************************************************)
(* What lets people in, proved for any number of tickets, mailboxes, users,  *)
(* messages, roles, rows and requests: part by part an inductive invariant,  *)
(* then what the parts promise together.                                     *)
(***************************************************************************)
EXTENDS Access, GuestCodesProofs, WellFoundedInduction

-----------------------------------------------------------------------------
\* Guest tokens (GuestTokens).

\* Nonces are drawn once; a row with a nonce has lost its permanent token; a
\* token on a session is off the ticket, or about to be.
TokensInv ==
  /\ Tokens!TypeOK
  /\ clock <= TokensTime
  /\ \A g \in grants : g.nonce <= nonces
  /\ \A g, h \in grants : g.nonce = h.nonce => g = h
  /\ \A t \in Tickets : tokenRows[t].nonce > 0 => ~tokenRows[t].token
  /\ \A r \in Requests : tokenReq[r].step \in {"move", "clear"} => tokenReq[r].chat \in Chats
  /\ tokenCrashes = 0 => \A t \in Chats : sessions[t].hashed =>
                      ~tokenRows[t].token \/ \E r \in Requests : tokenReq[r].step = "clear" /\ tokenReq[r].chat = t

LEMMA RevokedRow ==
  ASSUME Tokens!TokensConstants, NEW row \in Tokens!Row
  PROVE  Tokens!Revoked(row) \in Tokens!Row /\ Tokens!Revoked(row).nonce = 0 /\ ~Tokens!Revoked(row).token
<1>1. 0 \in 0..MaxIssued /\ 0 \in 0..(TokensTime + GrantTTL)
  BY DEF Tokens!TokensConstants
<1> QED BY <1>1 DEF Tokens!Revoked, Tokens!Row

LEMMA TokensInit == ASSUME Tokens!TokensConstants, Tokens!Init PROVE TokensInv
<1>1. PICK m \in Guests :
         tokenRows = [t \in Tickets |-> [mailbox |-> m, verified |-> Nil, nonce |-> 0, expires |-> 0, token |-> TRUE]]
  BY DEF Tokens!Init
<1>2. tokenRows \in [Tickets -> Tokens!Row]
  BY <1>1 DEF Tokens!Row, Tokens!TokensConstants
<1>3. sessions \in [Chats -> Tokens!Session] /\ tokenReq \in [Requests -> Tokens!Request] /\ grants = {} /\ nonces = 0 /\ clock = 0 /\ tokenCrashes = 0
  BY DEF Tokens!Init, Tokens!Session, Tokens!Request, Tokens!Idle
<1>4. \A t \in Tickets : tokenRows[t].nonce = 0
  BY <1>1
<1>5. \A t \in Chats : ~sessions[t].hashed
  BY DEF Tokens!Init
<1>6. \A r \in Requests : tokenReq[r].step = "idle"
  BY DEF Tokens!Init, Tokens!Idle
<1>7. Tokens!TypeOK
  BY <1>2, <1>3 DEF Tokens!TypeOK, Tokens!TokensConstants
<1> QED BY <1>3, <1>4, <1>5, <1>6, <1>7 DEF TokensInv, Tokens!TokensConstants

\* The rows and grants an issue leaves (GuestAccess.Issue).
LEMMA IssueKeeps ==
  ASSUME Tokens!TokensConstants, TokensInv, NEW t \in Tickets, NEW m \in Guests, Tokens!Issue(t, m)
  PROVE  /\ nonces' \in 0..MaxIssued /\ nonces' = nonces + 1
         /\ tokenRows' \in [Tickets -> Tokens!Row] /\ grants' \subseteq Tokens!Grant
         /\ \A g \in grants' : g.nonce <= nonces'
         /\ \A g, h \in grants' : g.nonce = h.nonce => g = h
         /\ \A s \in Tickets : tokenRows'[s].nonce > 0 => ~tokenRows'[s].token
         /\ \A s \in Tickets : tokenRows'[s].token => tokenRows[s].token
<1>1. nonces \in Nat /\ MaxIssued \in Nat /\ nonces < MaxIssued /\ nonces' = nonces + 1
  BY DEF Tokens!Issue, TokensInv, Tokens!TypeOK, Tokens!TokensConstants
<1>2. CASE tokenRows[t].mailbox # m
  <2>1. UNCHANGED <<tokenRows, grants>>
    BY <1>2 DEF Tokens!Issue
  <2>2. \A g \in grants : g.nonce \in Nat /\ g.nonce <= nonces
    BY DEF TokensInv, Tokens!TypeOK, Tokens!Grant
  <2>3. nonces' \in 0..MaxIssued /\ \A g \in grants : g.nonce <= nonces'
    BY <1>1, <2>2
  <2> QED BY <1>1, <2>1, <2>3 DEF TokensInv, Tokens!TypeOK
<1>3. CASE tokenRows[t].mailbox = m
  <2> DEFINE row == Tokens!Granted(tokenRows[t], m, clock + GrantTTL)
             new == Tokens!Sealed(t, m, clock + GrantTTL)
  <2>1. tokenRows' = [tokenRows EXCEPT ![t] = row] /\ grants' = grants \cup {new}
    BY <1>3 DEF Tokens!Issue
  <2>2. /\ tokenRows[t] \in Tokens!Row /\ clock + GrantTTL \in 0..(TokensTime + GrantTTL) /\ clock + GrantTTL \in Nat
        /\ nonces + 1 \in 0..MaxIssued /\ nonces + 1 \in 1..MaxIssued
    BY <1>1 DEF TokensInv, Tokens!TypeOK, Tokens!TokensConstants
  <2>3. row \in Tokens!Row /\ ~row.token
    BY <2>2 DEF Tokens!Granted, Tokens!Row
  <2>4. new \in Tokens!Grant /\ new.nonce = nonces + 1
    BY <2>2 DEF Tokens!Sealed, Tokens!Grant
  <2> HIDE DEF row, new
  <2>5. \A g \in grants : g.nonce \in Nat /\ g.nonce <= nonces
    BY DEF TokensInv, Tokens!TypeOK, Tokens!Grant
  <2>6. tokenRows'[t] = row /\ \A s \in Tickets \ {t} : tokenRows'[s] = tokenRows[s]
    BY <2>1 DEF TokensInv, Tokens!TypeOK
  <2>7. tokenRows' \in [Tickets -> Tokens!Row] /\ grants' \subseteq Tokens!Grant
    BY <2>1, <2>3, <2>4 DEF TokensInv, Tokens!TypeOK
  <2>8. \A g \in grants' : g.nonce <= nonces'
    BY <1>1, <2>1, <2>4, <2>5
  <2>9. \A g, h \in grants' : g.nonce = h.nonce => g = h
    BY <1>1, <2>1, <2>4, <2>5 DEF TokensInv
  <2>10. \A s \in Tickets : /\ tokenRows'[s].nonce > 0 => ~tokenRows'[s].token
                            /\ tokenRows'[s].token => tokenRows[s].token
    BY <2>3, <2>6 DEF TokensInv
  <2> QED BY <1>1, <2>2, <2>7, <2>8, <2>9, <2>10
<1> QED BY <1>2, <1>3

LEMMA TokensStep == ASSUME Tokens!TokensConstants, TokensInv, [Tokens!Next]_Tokens!vars PROVE TokensInv'
<1> USE DEF Tokens!TypeOK
<1>i. Tokens!Idle \in Tokens!Request /\ Tokens!Idle.step = "idle"
  BY DEF Tokens!Idle, Tokens!Request
<1>1. CASE Tokens!Tick
  BY <1>1 DEF Tokens!Tick, TokensInv, Tokens!TokensConstants
<1>2. ASSUME NEW t \in Tickets, Tokens!HostEditsMailbox(t) PROVE TokensInv'
  <2>1. PICK m \in Guests, row \in {tokenRows[t], Tokens!Revoked(tokenRows[t])} :
          tokenRows' = [tokenRows EXCEPT ![t] = [row EXCEPT !.mailbox = m]]
    BY <1>2 DEF Tokens!HostEditsMailbox
  <2> DEFINE new == [row EXCEPT !.mailbox = m]
  <2>2. tokenRows[t] \in Tokens!Row
    BY DEF TokensInv
  <2>3. Tokens!Revoked(tokenRows[t]) \in Tokens!Row /\ Tokens!Revoked(tokenRows[t]).nonce = 0 /\ ~Tokens!Revoked(tokenRows[t]).token
    BY <2>2, RevokedRow
  <2>4. row \in Tokens!Row /\ (row.nonce > 0 => ~row.token) /\ (row.token => tokenRows[t].token)
    BY <2>1, <2>2, <2>3 DEF TokensInv
  <2>5. new \in Tokens!Row /\ new.nonce = row.nonce /\ new.token = row.token
    BY <2>4 DEF Tokens!Row
  <2> HIDE DEF new
  <2>6. tokenRows'[t] = new /\ (\A s \in Tickets \ {t} : tokenRows'[s] = tokenRows[s]) /\ tokenRows' \in [Tickets -> Tokens!Row]
    BY <2>1, <2>5 DEF TokensInv, new
  <2>7. UNCHANGED <<sessions, nonces, grants, clock, tokenReq, tokenCrashes>>
    BY <1>2 DEF Tokens!HostEditsMailbox
  <2>8. \A s \in Tickets : (tokenRows'[s].nonce > 0 => ~tokenRows'[s].token) /\ (tokenRows'[s].token => tokenRows[s].token)
    BY <2>4, <2>5, <2>6 DEF TokensInv
  <2> QED BY <2>6, <2>7, <2>8 DEF TokensInv, Tokens!TokensConstants
<1>3. ASSUME NEW r \in Requests, Tokens!Lookup(r) PROVE TokensInv'
  <2>1. PICK m \in Guests : tokenReq' = [tokenReq EXCEPT ![r] =
          [Tokens!Idle EXCEPT !.step = "lookup", !.mailbox = m, !.hits = {t \in Tickets : tokenRows[t].mailbox = m}]]
    BY <1>3 DEF Tokens!Lookup
  <2> DEFINE k == [Tokens!Idle EXCEPT !.step = "lookup", !.mailbox = m, !.hits = {t \in Tickets : tokenRows[t].mailbox = m}]
  <2>2. k \in Tokens!Request /\ k.step = "lookup" /\ tokenReq[r].step = "idle"
    BY <1>3 DEF Tokens!Idle, Tokens!Request, Tokens!Lookup
  <2> HIDE DEF k
  <2>3. tokenReq'[r] = k /\ (\A q \in Requests \ {r} : tokenReq'[q] = tokenReq[q]) /\ tokenReq' \in [Requests -> Tokens!Request]
    BY <2>1, <2>2 DEF TokensInv, k
  <2> QED BY <1>3, <2>2, <2>3 DEF Tokens!Lookup, TokensInv
<1>4. ASSUME NEW r \in Requests, Tokens!IssueNext(r) PROVE TokensInv'
  <2>1. PICK t \in tokenReq[r].hits :
          /\ Tokens!Issue(t, tokenReq[r].mailbox)
          /\ tokenReq' = [tokenReq EXCEPT ![r] = IF tokenRows[t].mailbox = tokenReq[r].mailbox /\ tokenReq[r].hits # {t}
                                       THEN [tokenReq[r] EXCEPT !.hits = @ \ {t}] ELSE Tokens!Idle]
    BY <1>4 DEF Tokens!IssueNext
  <2>2. tokenReq[r] \in Tokens!Request /\ tokenReq[r].step = "lookup" /\ t \in Tickets
    BY <1>4, <2>1 DEF Tokens!IssueNext, TokensInv, Tokens!Request
  <2>3. CASE tokenReq[r].mailbox \notin Guests
    <3>1. tokenRows[t].mailbox # tokenReq[r].mailbox
      BY <2>2, <2>3 DEF TokensInv, Tokens!Row
    <3>2. UNCHANGED <<tokenRows, grants>> /\ nonces' = nonces + 1 /\ nonces' \in 0..MaxIssued /\ nonces \in Nat
      BY <2>1, <3>1 DEF Tokens!Issue, TokensInv, Tokens!TokensConstants
    <3>3. tokenReq' = [tokenReq EXCEPT ![r] = Tokens!Idle]
      BY <2>1, <3>1
    <3>4. \A g \in grants : g.nonce \in Nat
      BY DEF TokensInv, Tokens!Grant
    <3>5. tokenReq' \in [Requests -> Tokens!Request] /\ (\A q \in Requests \ {r} : tokenReq'[q] = tokenReq[q]) /\ tokenReq'[r].step = "idle"
      BY <3>3, <1>i DEF TokensInv
    <3> QED BY <1>4, <2>2, <3>2, <3>4, <3>5 DEF Tokens!IssueNext, TokensInv
  <2>4. CASE tokenReq[r].mailbox \in Guests
    <3>1. PICK m \in Guests : m = tokenReq[r].mailbox
      BY <2>4
    <3> DEFINE k == [tokenReq[r] EXCEPT !.hits = @ \ {t}]
    <3>2. k \in Tokens!Request /\ k.step = "lookup"
      BY <2>2 DEF Tokens!Request
    <3> HIDE DEF k
    <3>3. tokenReq \in [Requests -> Tokens!Request]
      BY DEF TokensInv
    <3>4. /\ tokenReq' \in [Requests -> Tokens!Request] /\ \A q \in Requests \ {r} : tokenReq'[q] = tokenReq[q]
          /\ tokenReq'[r].step \in {"lookup", "idle"}
      <4>1. PICK e \in {k, Tokens!Idle} : tokenReq' = [tokenReq EXCEPT ![r] = e]
        <5> DEFINE e == IF tokenRows[t].mailbox = tokenReq[r].mailbox /\ tokenReq[r].hits # {t}
                        THEN [tokenReq[r] EXCEPT !.hits = @ \ {t}] ELSE Tokens!Idle
        <5>1. e \in {k, Tokens!Idle}
          BY DEF k
        <5>2. tokenReq' = [tokenReq EXCEPT ![r] = e]
          BY <2>1
        <5> HIDE DEF e
        <5> QED BY <5>1, <5>2
      <4>2. e \in Tokens!Request /\ e.step \in {"lookup", "idle"}
        BY <3>2, <1>i
      <4>3. tokenReq'[r] = e /\ \A q \in Requests \ {r} : tokenReq'[q] = tokenReq[q]
        BY <4>1, <3>3
      <4>4. tokenReq' = [q \in Requests |-> tokenReq'[q]]
        BY <4>1, <3>3
      <4>5. \A q \in Requests : tokenReq'[q] \in Tokens!Request
        BY <3>3, <4>2, <4>3
      <4> QED BY <4>2, <4>3, <4>4, <4>5
    <3>5. UNCHANGED <<sessions, clock, tokenCrashes>>
      BY <1>4 DEF Tokens!IssueNext
    <3>6. Tokens!Issue(t, m)
      BY <2>1, <3>1
    <3> QED BY <2>2, <3>4, <3>5, <3>6, IssueKeeps DEF TokensInv, Tokens!TokensConstants
  <2> QED BY <2>3, <2>4
<1>5. ASSUME NEW r \in Requests, Tokens!FindChat(r) PROVE TokensInv'
  <2>1. PICK t \in Chats : tokenReq' = [tokenReq EXCEPT ![r] = [Tokens!Idle EXCEPT !.step = "move", !.chat = t, !.at = clock]]
    BY <1>5 DEF Tokens!FindChat
  <2> DEFINE k == [Tokens!Idle EXCEPT !.step = "move", !.chat = t, !.at = clock]
  <2>2. k \in Tokens!Request /\ k.step = "move" /\ k.chat = t /\ tokenReq[r].step = "idle"
    BY <1>5 DEF Tokens!Idle, Tokens!Request, Tokens!FindChat, TokensInv, Tokens!TokensConstants
  <2> HIDE DEF k
  <2>3. tokenReq'[r] = k /\ (\A q \in Requests \ {r} : tokenReq'[q] = tokenReq[q]) /\ tokenReq' \in [Requests -> Tokens!Request]
    BY <2>1, <2>2 DEF TokensInv, k
  <2> QED BY <1>5, <2>2, <2>3 DEF Tokens!FindChat, TokensInv
<1>6. ASSUME NEW r \in Requests, Tokens!MoveToken(r) PROVE TokensInv'
  <2> DEFINE k == [tokenReq[r] EXCEPT !.step = "clear"]
             s == [hashed |-> TRUE, expires |-> tokenReq[r].at + GrantTTL]
  <2>1. /\ sessions' = [sessions EXCEPT ![tokenReq[r].chat] = s] /\ tokenReq' = [tokenReq EXCEPT ![r] = k]
        /\ tokenReq[r].step = "move" /\ UNCHANGED <<tokenRows, nonces, grants, clock, tokenCrashes>>
    BY <1>6 DEF Tokens!MoveToken
  <2>2. k \in Tokens!Request /\ k.step = "clear" /\ k.chat = tokenReq[r].chat /\ k.chat \in Chats
    BY <2>1 DEF TokensInv, Tokens!Request
  <2>3. s \in Tokens!Session
    BY DEF TokensInv, Tokens!Request, Tokens!Session, Tokens!TokensConstants
  <2> HIDE DEF k, s
  <2>4. /\ tokenReq'[r] = k /\ (\A q \in Requests \ {r} : tokenReq'[q] = tokenReq[q]) /\ tokenReq' \in [Requests -> Tokens!Request]
        /\ sessions' \in [Chats -> Tokens!Session] /\ \A t \in Chats \ {k.chat} : sessions'[t] = sessions[t]
    BY <2>1, <2>2, <2>3 DEF TokensInv
  <2> QED BY <2>1, <2>2, <2>4 DEF TokensInv
<1>7. ASSUME NEW r \in Requests, Tokens!ClearToken(r) PROVE TokensInv'
  <2> DEFINE t == tokenReq[r].chat
             new == [tokenRows[t] EXCEPT !.token = FALSE]
  <2>1. /\ tokenRows' = [tokenRows EXCEPT ![t] = new] /\ tokenReq' = [tokenReq EXCEPT ![r] = Tokens!Idle] /\ tokenReq[r].step = "clear"
        /\ UNCHANGED <<sessions, nonces, grants, clock, tokenCrashes>>
    BY <1>7 DEF Tokens!ClearToken
  <2>2. t \in Chats /\ t \in Tickets
    BY <2>1 DEF TokensInv, Tokens!TokensConstants
  <2>3. new \in Tokens!Row /\ ~new.token /\ new.nonce = tokenRows[t].nonce
    <3>1. tokenRows[t] \in Tokens!Row
      BY <2>2 DEF TokensInv
    <3> QED BY <3>1 DEF Tokens!Row
  <2> HIDE DEF new
  <2>4. tokenRows'[t] = new /\ (\A s \in Tickets \ {t} : tokenRows'[s] = tokenRows[s]) /\ tokenRows' \in [Tickets -> Tokens!Row]
    BY <2>1, <2>2, <2>3 DEF TokensInv
  <2>5. (\A q \in Requests \ {r} : tokenReq'[q] = tokenReq[q]) /\ tokenReq'[r] = Tokens!Idle /\ tokenReq' \in [Requests -> Tokens!Request]
    BY <2>1, <1>i DEF TokensInv
  <2>6. ASSUME tokenCrashes' = 0, NEW s \in Chats, sessions'[s].hashed, tokenRows'[s].token
        PROVE  \E q \in Requests : tokenReq'[q].step = "clear" /\ tokenReq'[q].chat = s
    <3>1. s # t /\ s \in Tickets
      BY <2>3, <2>4, <2>6 DEF Tokens!TokensConstants
    <3>2. PICK q \in Requests : tokenReq[q].step = "clear" /\ tokenReq[q].chat = s
      BY <2>1, <2>4, <2>6, <3>1 DEF TokensInv
    <3> QED BY <2>5, <3>1, <3>2
  <2>7. \A s \in Tickets : tokenRows'[s].nonce > 0 => ~tokenRows'[s].token
    BY <2>3, <2>4 DEF TokensInv
  <2>8. \A q \in Requests : tokenReq'[q].step \in {"move", "clear"} => tokenReq'[q].chat \in Chats
    BY <2>5, <1>i DEF TokensInv
  <2> QED BY <2>1, <2>4, <2>5, <2>6, <2>7, <2>8 DEF TokensInv
<1>8. ASSUME NEW r \in Requests, Tokens!Crash(r) PROVE TokensInv'
  <2>1. tokenReq' = [tokenReq EXCEPT ![r] = Tokens!Idle] /\ tokenCrashes' = tokenCrashes + 1 /\ UNCHANGED <<tokenRows, sessions, nonces, grants, clock>>
    BY <1>8 DEF Tokens!Crash
  <2>2. (\A q \in Requests \ {r} : tokenReq'[q] = tokenReq[q]) /\ tokenReq'[r] = Tokens!Idle /\ tokenReq' \in [Requests -> Tokens!Request]
    BY <2>1, <1>i DEF TokensInv
  <2>3. tokenCrashes' \in Nat /\ tokenCrashes' # 0
    BY <2>1 DEF TokensInv
  <2> QED BY <2>1, <2>2, <2>3, <1>i DEF TokensInv
<1>9. CASE UNCHANGED Tokens!vars
  BY <1>9 DEF Tokens!vars, TokensInv
<1> QED BY <1>1, <1>2, <1>3, <1>4, <1>5, <1>6, <1>7, <1>8, <1>9 DEF Tokens!Next

-----------------------------------------------------------------------------
LEMMA TokensHold == ASSUME TokensInv PROVE Tokens!TypeOK /\ Tokens!OneKey /\ Tokens!MovedTokenGone
<1>1. \A g \in grants : g.ticket \in Tickets /\ g.nonce \in Nat /\ g.nonce > 0
  BY DEF TokensInv, Tokens!TypeOK, Tokens!Grant
<1>2. Tokens!OneKey
  BY <1>1 DEF Tokens!OneKey, Tokens!Opens, Tokens!TokenOpens, TokensInv
<1>3. Tokens!MovedTokenGone
  BY DEF TokensInv, Tokens!MovedTokenGone, Tokens!TokenOpens
<1> QED BY <1>2, <1>3 DEF TokensInv

\* A grant is replaced by an edit of its ticket's mailbox or by a lookup of it.
LEMMA GrantsKept ==
  ASSUME Tokens!TokensConstants, TokensInv, [Tokens!Next]_Tokens!vars
  PROVE  Tokens!GrantKeptForMailbox
<1> SUFFICES ASSUME NEW g \in grants, Tokens!Opens(g), tokenRows'[g.ticket].nonce # g.nonce
             PROVE  \/ tokenRows'[g.ticket].mailbox # g.mailbox
                    \/ \E h \in grants' \ grants : h.ticket = g.ticket /\ h.mailbox = g.mailbox
  BY DEF Tokens!GrantKeptForMailbox
<1>1. /\ g.ticket \in Tickets /\ tokenRows[g.ticket].nonce = g.nonce /\ tokenRows[g.ticket].mailbox = g.mailbox
      /\ tokenRows \in [Tickets -> Tokens!Row] /\ \A t \in Tickets : tokenRows[t] \in Tokens!Row
  BY DEF Tokens!Opens, TokensInv, Tokens!TypeOK, Tokens!Grant
<1>2. ASSUME NEW t \in Tickets, Tokens!HostEditsMailbox(t) PROVE tokenRows'[g.ticket].mailbox # g.mailbox
  <2>1. PICK m \in Guests \ {tokenRows[t].mailbox}, row \in {tokenRows[t], Tokens!Revoked(tokenRows[t])} :
          tokenRows' = [tokenRows EXCEPT ![t] = [row EXCEPT !.mailbox = m]]
    BY <1>2 DEF Tokens!HostEditsMailbox
  <2>2. t = g.ticket
    BY <1>1, <2>1
  <2>3. row \in Tokens!Row
    BY <1>1, <2>1, RevokedRow
  <2>4. [row EXCEPT !.mailbox = m].mailbox = m
    BY <2>3 DEF Tokens!Row
  <2> QED BY <1>1, <2>1, <2>2, <2>4
<1>3. ASSUME NEW r \in Requests, Tokens!IssueNext(r)
      PROVE  \E h \in grants' \ grants : h.ticket = g.ticket /\ h.mailbox = g.mailbox
  <2>1. PICK t \in tokenReq[r].hits : Tokens!Issue(t, tokenReq[r].mailbox)
    BY <1>3 DEF Tokens!IssueNext
  <2> DEFINE m == tokenReq[r].mailbox
             h == Tokens!Sealed(t, m, clock + GrantTTL)
  <2>2. t \in Tickets
    BY <2>1 DEF TokensInv, Tokens!TypeOK, Tokens!Request
  <2>3. tokenRows[t].mailbox = m /\ grants' = grants \cup {h} /\ tokenRows' = [tokenRows EXCEPT ![t] = Tokens!Granted(@, m, clock + GrantTTL)]
    BY <1>1, <2>1 DEF Tokens!Issue
  <2>4. t = g.ticket
    BY <1>1, <2>2, <2>3
  <2>5. h.ticket = t /\ h.mailbox = m /\ h.nonce = nonces + 1
    BY DEF Tokens!Sealed
  <2>6. h \notin grants
    <3>1. \A f \in grants : f.nonce <= nonces /\ f.nonce \in Nat /\ nonces \in Nat
      BY DEF TokensInv, Tokens!TypeOK, Tokens!Grant, Tokens!TokensConstants
    <3> QED BY <3>1, <2>5
  <2> QED BY <1>1, <2>3, <2>4, <2>5, <2>6
<1>4. ASSUME NEW r \in Requests, Tokens!ClearToken(r) PROVE FALSE
  <2> DEFINE t == tokenReq[r].chat
  <2>1. tokenRows' = [tokenRows EXCEPT ![t] = [tokenRows[t] EXCEPT !.token = FALSE]]
    BY <1>4 DEF Tokens!ClearToken
  <2>2. \A s \in Tickets : tokenRows'[s].nonce = tokenRows[s].nonce
    <3>1. [tokenRows[t] EXCEPT !.token = FALSE].nonce = tokenRows[t].nonce \/ t \notin Tickets
      BY <1>1 DEF Tokens!Row
    <3> QED BY <1>1, <2>1, <3>1
  <2> QED BY <1>1, <2>2
<1>5. ASSUME UNCHANGED tokenRows PROVE FALSE
  BY <1>1, <1>5
<1> QED BY <1>2, <1>3, <1>4, <1>5 DEF Tokens!vars, Tokens!Next, Tokens!Tick, Tokens!Lookup, Tokens!FindChat, Tokens!MoveToken, Tokens!Crash

\* At most one grant opens a guest's ticket, never beside the permanent token,
\* and always for the ticket's own mailbox (ResolveGrant, Issue).
THEOREM OneKeyHolds == Tokens!Spec => [](Tokens!TypeOK /\ Tokens!OneKey)
BY AccessConstants, TokensInit, TokensStep, TokensHold, PTL DEF Tokens!Spec

\* Once a chat's token is on its session and no move is under way, it opens no
\* ticket route, unless a crash came between the two (ChatSessionForToken).
THEOREM MovedTokensAreGone == Tokens!Spec => []Tokens!MovedTokenGone
BY AccessConstants, TokensInit, TokensStep, TokensHold, PTL DEF Tokens!Spec

\* A lookup that listed before the mailbox changed takes no grant from the new
\* guest: Issue matches the mailbox in its UPDATE.
THEOREM GrantsAreKept == Tokens!Spec => [][Tokens!GrantKeptForMailbox]_Tokens!vars
BY AccessConstants, TokensInit, TokensStep, GrantsKept, PTL DEF Tokens!Spec

-----------------------------------------------------------------------------
\* Rate limits (RateLimit).

\* The requests let past a key are among the hits its window counts; a key
\* without a live window has let none past.
LimitsInv ==
  /\ Limits!TypeOK
  /\ \A k \in Keys : /\ admitted[k] <= Limit[k]
                     /\ Limits!Live(k) => admitted[k] <= windows[k].count
                     /\ ~Limits!Live(k) => admitted[k] = 0

-----------------------------------------------------------------------------
LEMMA LimitsInit == Limits!RateConstants /\ Limits!Init => LimitsInv
BY DEF Limits!RateConstants, Limits!Init, LimitsInv, Limits!TypeOK, Limits!Live

\* A hit leaves every other live window as it is.
LEMMA HitEffect ==
  ASSUME Limits!RateConstants, Limits!TypeOK, NEW k \in Keys, Limits!HitWindow(k).count <= MaxHits, Limits!Hit(k), clock' = clock
  PROVE  /\ DOMAIN windows' \subseteq Keys
         /\ \A j \in DOMAIN windows' : windows'[j] \in [count : 1..MaxHits, resetAt : 1..(LimitsTime + Window)]
         /\ Limits!Live(k)' /\ windows'[k] = Limits!HitWindow(k)
         /\ windows'[k].count = IF Limits!Live(k) THEN windows[k].count + 1 ELSE 1
         /\ windows'[k].resetAt = IF Limits!Live(k) THEN windows[k].resetAt ELSE clock + Window
         /\ \A j \in Keys \ {k} : /\ Limits!Live(j)' <=> Limits!Live(j)
                                  /\ Limits!Live(j) => windows'[j] = windows[j]
<1> USE DEF Limits!RateConstants, Limits!TypeOK
<1>1. Limits!Swept \subseteq DOMAIN windows /\ \A j \in DOMAIN windows : windows[j].resetAt > clock => j \in Limits!Swept
  BY DEF Limits!Swept
<1>2. DOMAIN windows' = Limits!Swept \cup {k} /\ \A j \in Limits!Swept \cup {k} : windows'[j] = IF j = k THEN Limits!HitWindow(k) ELSE windows[j]
  BY DEF Limits!Hit
<1>3. /\ Limits!HitWindow(k).count = IF Limits!Live(k) THEN windows[k].count + 1 ELSE 1
      /\ Limits!HitWindow(k).resetAt = IF Limits!Live(k) THEN windows[k].resetAt ELSE clock + Window
      /\ Limits!HitWindow(k) \in [count : Nat, resetAt : Int]
  <2>1. CASE Limits!Live(k)
    BY <2>1 DEF Limits!Live, Limits!HitWindow
  <2>2. CASE ~Limits!Live(k)
    BY <2>2 DEF Limits!HitWindow
  <2> QED BY <2>1, <2>2
<1>4. Limits!HitWindow(k) \in [count : 1..MaxHits, resetAt : 1..(LimitsTime + Window)] /\ Limits!HitWindow(k).resetAt > clock
  <2>1. CASE Limits!Live(k)
    BY <1>3, <2>1 DEF Limits!Live
  <2>2. CASE ~Limits!Live(k)
    BY <1>3, <2>2
  <2> QED BY <2>1, <2>2
<1>5. windows'[k] = Limits!HitWindow(k) /\ Limits!Live(k)'
  BY <1>2, <1>4 DEF Limits!Live
<1>6. ASSUME NEW j \in Keys \ {k} PROVE (Limits!Live(j)' <=> Limits!Live(j)) /\ (Limits!Live(j) => windows'[j] = windows[j])
  BY <1>1, <1>2 DEF Limits!Live
<1>7. \A j \in DOMAIN windows' : windows'[j] \in [count : 1..MaxHits, resetAt : 1..(LimitsTime + Window)]
  BY <1>1, <1>2, <1>4
<1>8. DOMAIN windows' \subseteq Keys
  BY <1>1, <1>2
<1> QED BY <1>3, <1>5, <1>6, <1>7, <1>8

\* What going on or being refused leaves of the request.
LEMMA RequestMoves ==
  ASSUME Limits!RateConstants, Limits!TypeOK, NEW r \in Requests, left[r] # <<>>, Limits!GoesOn(r) \/ Limits!Refused(r)
  PROVE  left' \in [Requests -> Seq(Keys)] /\ due' \in [Keys -> Int]
<1>1. left[r] \in Seq(Keys) /\ Head(left[r]) \in Keys /\ Tail(left[r]) \in Seq(Keys)
  BY DEF Limits!TypeOK
<1>2. CASE Limits!Refused(r)
  BY <1>1, <1>2 DEF Limits!Refused, Limits!TypeOK
<1>3. CASE Limits!GoesOn(r)
  <2> DEFINE counted == [due EXCEPT ![Head(left[r])] = @ - 1]
  <2>1. counted \in [Keys -> Int]
    BY <1>1 DEF Limits!TypeOK
  <2>2. Tail(left[r]) # <<>> => Head(Tail(left[r])) \in Keys
    BY <1>1
  <2>3. left' = [left EXCEPT ![r] = Tail(left[r])]
        /\ due' = IF Tail(left[r]) = <<>> THEN counted ELSE [counted EXCEPT ![Head(Tail(left[r]))] = @ + 1]
    BY <1>3 DEF Limits!GoesOn
  <2>4. left' \in [Requests -> Seq(Keys)]
    BY <1>1, <2>3 DEF Limits!TypeOK
  <2> HIDE DEF counted
  <2>5. due' \in [Keys -> Int]
    BY <2>1, <2>2, <2>3
  <2> QED BY <2>4, <2>5
<1> QED BY <1>2, <1>3

LEMMA LimitsHit ==
  ASSUME Limits!RateConstants, LimitsInv, NEW r \in Requests, Limits!HitNext(r)
  PROVE  LimitsInv'
<1>2. Limits!TypeOK /\ left[r] # <<>> /\ left[r] \in Seq(Keys)
  BY DEF LimitsInv, Limits!TypeOK, Limits!HitNext
<1>a. PICK k \in Keys : k = Head(left[r])
  BY <1>2
<1>1. Limits!HitWindow(k).count <= MaxHits /\ Limits!Hit(k) /\ clock' = clock
  BY <1>a DEF Limits!HitNext
<1>3. /\ DOMAIN windows' \subseteq Keys
      /\ \A j \in DOMAIN windows' : windows'[j] \in [count : 1..MaxHits, resetAt : 1..(LimitsTime + Window)]
      /\ Limits!Live(k)' /\ windows'[k] = Limits!HitWindow(k)
      /\ windows'[k].count = IF Limits!Live(k) THEN windows[k].count + 1 ELSE 1
      /\ \A j \in Keys \ {k} : (Limits!Live(j)' <=> Limits!Live(j)) /\ (Limits!Live(j) => windows'[j] = windows[j])
  BY <1>1, <1>2, HitEffect
<1>4. left' \in [Requests -> Seq(Keys)] /\ due' \in [Keys -> Int]
  BY <1>1, <1>2, RequestMoves DEF Limits!HitNext
<1>5. IF Limits!Over(k) THEN admitted' = admitted ELSE admitted' = [admitted EXCEPT ![k] = @ + 1]
  BY <1>a DEF Limits!HitNext
<1>6. Limits!TypeOK'
  <2>a. admitted' = admitted \/ admitted' = [admitted EXCEPT ![k] = @ + 1]
    BY <1>5
  <2>b. admitted \in [Keys -> Nat]
    BY <1>2 DEF Limits!TypeOK
  <2>1. admitted' \in [Keys -> Nat]
    BY <2>a, <2>b
  <2>2. clock' \in 0..LimitsTime
    BY <1>1, <1>2 DEF Limits!TypeOK
  <2>3. DOMAIN windows' \subseteq Keys /\ \A j \in DOMAIN windows' : windows'[j] \in [count : 1..MaxHits, resetAt : 1..(LimitsTime + Window)]
    BY <1>3
  <2> QED BY <1>4, <2>1, <2>2, <2>3 DEF Limits!TypeOK
<1>7. ASSUME NEW j \in Keys
      PROVE  /\ admitted'[j] <= Limit[j]
             /\ Limits!Live(j)' => admitted'[j] <= windows'[j].count
             /\ ~Limits!Live(j)' => admitted'[j] = 0
  <2>1. CASE j # k
    BY <1>2, <1>3, <1>5, <2>1 DEF LimitsInv, Limits!TypeOK
  <2>2. CASE j = k
    <3>1. admitted[k] <= IF Limits!Live(k) THEN windows[k].count ELSE 0
      BY <1>2 DEF LimitsInv, Limits!TypeOK
    <3>2. admitted[k] \in Nat /\ Limit[k] \in Nat /\ (Limits!Live(k) => windows[k].count \in Nat)
      BY <1>2 DEF Limits!TypeOK, Limits!RateConstants, Limits!Live
    <3>3. windows'[k].count = (IF Limits!Live(k) THEN windows[k].count ELSE 0) + 1
      BY <1>3
    <3>4. CASE Limits!Over(k)
      BY <1>3, <1>5, <2>2, <3>1, <3>2, <3>3, <3>4 DEF LimitsInv
    <3>5. CASE ~Limits!Over(k)
      <4>1. windows'[k].count <= Limit[k]
        BY <1>3, <3>2, <3>3, <3>5 DEF Limits!Over
      <4>2. admitted'[k] = admitted[k] + 1
        BY <1>2, <1>5, <3>5 DEF Limits!TypeOK
      <4> QED BY <1>3, <2>2, <3>1, <3>2, <3>3, <4>1, <4>2
    <3> QED BY <3>4, <3>5
  <2> QED BY <2>1, <2>2
<1> QED BY <1>6, <1>7 DEF LimitsInv

LEMMA LimitsStep == Limits!RateConstants /\ LimitsInv /\ [Limits!Next]_Limits!vars => LimitsInv'
<1> SUFFICES ASSUME Limits!RateConstants, LimitsInv, [Limits!Next]_Limits!vars PROVE LimitsInv'
  OBVIOUS
<1>1. CASE Limits!Tick
  <2>1. clock' = clock + 1 /\ clock < LimitsTime /\ UNCHANGED <<windows, left, due>>
    BY <1>1 DEF Limits!Tick
  <2>2. admitted' = [k \in Keys |-> IF k \in DOMAIN windows /\ windows[k].resetAt > clock + 1 THEN admitted[k] ELSE 0]
    BY <1>1 DEF Limits!Tick
  <2>3. \A k \in Keys : Limits!Live(k)' <=> k \in DOMAIN windows /\ windows[k].resetAt > clock + 1
    BY <2>1 DEF Limits!Live
  <2>4. \A k \in Keys : Limits!Live(k)' => Limits!Live(k)
    BY <2>1, <2>3 DEF Limits!Live, LimitsInv, Limits!TypeOK, Limits!RateConstants
  <2>5. Limits!TypeOK'
    BY <2>1, <2>2 DEF LimitsInv, Limits!TypeOK, Limits!RateConstants
  <2>6. ASSUME NEW k \in Keys
        PROVE  /\ admitted'[k] <= Limit[k]
               /\ Limits!Live(k)' => admitted'[k] <= windows'[k].count
               /\ ~Limits!Live(k)' => admitted'[k] = 0
    <3>1. CASE Limits!Live(k)'
      BY <2>1, <2>2, <2>3, <2>4, <3>1 DEF LimitsInv
    <3>2. CASE ~Limits!Live(k)'
      BY <2>2, <2>3, <3>2 DEF Limits!RateConstants
    <3> QED BY <3>1, <3>2
  <2> QED BY <2>5, <2>6 DEF LimitsInv
<1>2. ASSUME NEW r \in Requests, Limits!Arrive(r) PROVE LimitsInv'
  <2>1. PICK path \in Paths : left' = [left EXCEPT ![r] = path] /\ due' = [due EXCEPT ![Head(path)] = @ + 1]
    BY <1>2 DEF Limits!Arrive
  <2>2. path \in Seq(Keys) /\ Head(path) \in Keys
    BY DEF Limits!RateConstants
  <2>3. Limits!TypeOK'
    <3>1. left \in [Requests -> Seq(Keys)] /\ due \in [Keys -> Int] /\ UNCHANGED <<windows, clock, admitted>>
      BY <1>2 DEF Limits!Arrive, LimitsInv, Limits!TypeOK
    <3>2. left' \in [Requests -> Seq(Keys)]
      BY <2>1, <2>2, <3>1
    <3>3. due' \in [Keys -> Int]
      BY <2>1, <2>2, <3>1
    <3> QED BY <3>1, <3>2, <3>3 DEF LimitsInv, Limits!TypeOK
  <2> QED BY <1>2, <2>3 DEF Limits!Arrive, LimitsInv, Limits!Live
<1>3. ASSUME NEW r \in Requests, Limits!StoreFails(r) PROVE LimitsInv'
  <2>1. left[r] # <<>> /\ (Limits!GoesOn(r) \/ Limits!Refused(r)) /\ UNCHANGED <<windows, clock, admitted>>
    BY <1>3 DEF Limits!StoreFails
  <2>2. Limits!TypeOK'
    BY <2>1, RequestMoves DEF LimitsInv, Limits!TypeOK
  <2> QED BY <2>1, <2>2 DEF LimitsInv, Limits!Live
<1>4. CASE UNCHANGED Limits!vars
  BY <1>4 DEF Limits!vars, LimitsInv, Limits!TypeOK, Limits!Live
<1> QED BY <1>1, <1>2, <1>3, <1>4, LimitsHit DEF Limits!Next

Counts == [k \in Keys |-> IF Limits!Live(k) THEN windows[k].count ELSE 0]
Ends == [k \in Keys |-> IF Limits!Live(k) THEN windows[k].resetAt ELSE 0]

LEMMA FixedStep ==
  ASSUME Limits!RateConstants, LimitsInv, [Limits!Next]_Limits!vars
  PROVE  Limits!IsFixedWindows
<1> SUFFICES Limits!Windows!Pass \/ (\E k \in Keys : Limits!Windows!Count(k)) \/ UNCHANGED <<Counts, Ends, clock>>
  BY DEF Limits!IsFixedWindows, Limits!Windows!WindowsStep, Limits!Windows!WindowsNext, Counts, Ends
<1>1. CASE Limits!Tick
  <2>1. clock' = clock + 1 /\ windows' = windows
    BY <1>1 DEF Limits!Tick
  <2>2. ASSUME NEW k \in Keys
        PROVE  /\ Counts'[k] = IF Ends[k] > clock' THEN Counts[k] ELSE 0
               /\ Ends'[k] = IF Ends[k] > clock' THEN Ends[k] ELSE 0
    <3>1. clock \in Nat /\ (k \in DOMAIN windows => windows[k].resetAt \in Nat)
      BY DEF LimitsInv, Limits!TypeOK, Limits!RateConstants
    <3> QED BY <2>1, <3>1 DEF Limits!Live, Counts, Ends
  <2>3. /\ Counts' = [k \in Keys |-> IF Ends[k] > clock' THEN Counts[k] ELSE 0]
        /\ Ends' = [k \in Keys |-> IF Ends[k] > clock' THEN Ends[k] ELSE 0]
    BY <2>2 DEF Counts, Ends
  <2> QED BY <2>1, <2>3 DEF Limits!Windows!Pass, Counts, Ends
<1>2. ASSUME NEW r \in Requests, Limits!HitNext(r) PROVE \E k \in Keys : Limits!Windows!Count(k)
  <2>2. Limits!TypeOK /\ left[r] # <<>> /\ left[r] \in Seq(Keys)
    BY <1>2 DEF LimitsInv, Limits!TypeOK, Limits!HitNext
  <2>a. PICK k \in Keys : k = Head(left[r])
    BY <2>2
  <2>1. Limits!HitWindow(k).count <= MaxHits /\ Limits!Hit(k) /\ clock' = clock
    BY <1>2, <2>a DEF Limits!HitNext
  <2>3. /\ Limits!Live(k)'
        /\ windows'[k].count = IF Limits!Live(k) THEN windows[k].count + 1 ELSE 1
        /\ windows'[k].resetAt = IF Limits!Live(k) THEN windows[k].resetAt ELSE clock + Window
        /\ \A j \in Keys \ {k} : (Limits!Live(j)' <=> Limits!Live(j)) /\ (Limits!Live(j) => windows'[j] = windows[j])
    BY <2>1, <2>2, HitEffect
  <2>4. Counts[k] = 0 <=> ~Limits!Live(k)
    BY <2>2 DEF Counts, Limits!Live, Limits!TypeOK
  <2>5. /\ Counts'[k] = Counts[k] + 1
        /\ Ends'[k] = IF Counts[k] = 0 THEN clock + Window ELSE Ends[k]
    BY <2>2, <2>3, <2>4 DEF Counts, Ends
  <2>6. \A j \in Keys \ {k} : Counts'[j] = Counts[j] /\ Ends'[j] = Ends[j]
    BY <2>3 DEF Counts, Ends
  <2>7. /\ Counts' = [Counts EXCEPT ![k] = @ + 1]
        /\ Ends' = [Ends EXCEPT ![k] = IF Counts[k] = 0 THEN clock + Window ELSE @]
    <3>1. Counts = [j \in Keys |-> Counts[j]] /\ Ends = [j \in Keys |-> Ends[j]]
      BY DEF Counts, Ends
    <3>2. Counts' = [j \in Keys |-> Counts'[j]] /\ Ends' = [j \in Keys |-> Ends'[j]]
      BY DEF Counts, Ends
    <3>3. Counts' = [Counts EXCEPT ![k] = @ + 1]
      BY <2>5, <2>6, <3>1, <3>2
    <3>4. Ends' = [Ends EXCEPT ![k] = IF Counts[k] = 0 THEN clock + Window ELSE @]
      BY <2>5, <2>6, <3>1, <3>2
    <3> QED BY <3>3, <3>4
  <2> QED BY <2>1, <2>2, <2>7 DEF Limits!Windows!Count, Counts, Ends
<1>3. ASSUME UNCHANGED <<windows, clock>> PROVE UNCHANGED <<Counts, Ends, clock>>
  BY <1>3 DEF Counts, Ends, Limits!Live
<1> QED BY <1>1, <1>2, <1>3 DEF Limits!Next, Limits!Arrive, Limits!StoreFails, Limits!vars

LEMMA FixedInit == ASSUME Limits!Init PROVE Limits!StartsFresh
BY DEF Limits!Init, Limits!StartsFresh, Limits!Windows!WindowsInit, Limits!Live

\* The requests about to hit key k.
AtKey(k) == {r \in Requests : left[r] # <<>> /\ Head(left[r]) = k}

\* Each key is due as many hits as there are requests about to hit it.
DueCounts == \A k \in Keys : due[k] = Cardinality(AtKey(k))

AtHead(path, k) == IF path # <<>> /\ Head(path) = k THEN 1 ELSE 0

LEMMA AtKeyFinite == \A k : IsFiniteSet(AtKey(k)) /\ Cardinality(AtKey(k)) \in Nat
BY CodesConstants, FS_Subset, FS_CardinalityType DEF AtKey

\* One request goes from one key to another, or starts, or ends.
LEMMA AtKeyMoves ==
  ASSUME Limits!TypeOK, NEW r \in Requests, NEW path \in Seq(Keys), left' = [left EXCEPT ![r] = path], NEW k \in Keys
  PROVE  Cardinality(AtKey(k)') = Cardinality(AtKey(k)) + AtHead(path, k) - AtHead(left[r], k)
<1>1. left'[r] = path /\ \A q \in Requests \ {r} : left'[q] = left[q]
  BY DEF Limits!TypeOK
<1>2. IsFiniteSet(AtKey(k)) /\ Cardinality(AtKey(k)) \in Nat
  BY AtKeyFinite
<1> DEFINE rest == AtKey(k) \ {r}
<1>3. /\ IsFiniteSet(rest) /\ Cardinality(rest) \in Nat
      /\ Cardinality(rest) = Cardinality(AtKey(k)) - AtHead(left[r], k)
  <2>1. r \in AtKey(k) <=> AtHead(left[r], k) = 1
    BY DEF AtKey, AtHead
  <2>2. Cardinality(rest) = IF r \in AtKey(k) THEN Cardinality(AtKey(k)) - 1 ELSE Cardinality(AtKey(k))
    BY <1>2, FS_RemoveElement
  <2>3. IsFiniteSet(rest)
    BY <1>2, FS_Subset
  <2>4. Cardinality(rest) \in Nat
    BY <2>3, FS_CardinalityType
  <2>5. AtHead(left[r], k) \in {0, 1}
    BY DEF AtHead
  <2> HIDE DEF rest
  <2> QED BY <1>2, <2>1, <2>2, <2>3, <2>4, <2>5
<1>4. AtKey(k)' = IF AtHead(path, k) = 1 THEN rest \cup {r} ELSE rest
  BY <1>1 DEF AtKey, AtHead
<1>5. r \notin rest
  OBVIOUS
<1> HIDE DEF rest
<1>6. Cardinality(rest \cup {r}) = Cardinality(rest) + 1
  BY <1>3, <1>5, FS_AddElement
<1>7. AtHead(path, k) \in {0, 1} /\ AtHead(left[r], k) \in {0, 1}
  BY DEF AtHead
<1> QED BY <1>2, <1>3, <1>4, <1>6, <1>7

LEMMA DueStep ==
  ASSUME Limits!RateConstants, LimitsInv, DueCounts, [Limits!Next]_Limits!vars
  PROVE  DueCounts'
<1>0. Limits!TypeOK /\ \A k \in Keys : due[k] = Cardinality(AtKey(k)) /\ due[k] \in Int
  BY DEF LimitsInv, DueCounts, Limits!TypeOK
<1>1. ASSUME NEW r \in Requests, NEW path \in Seq(Keys), left' = [left EXCEPT ![r] = path],
             \A k \in Keys : due'[k] = due[k] + AtHead(path, k) - AtHead(left[r], k)
      PROVE  DueCounts'
  BY <1>0, <1>1, AtKeyMoves DEF DueCounts
<1>2. ASSUME NEW r \in Requests, Limits!Arrive(r) PROVE DueCounts'
  <2>1. PICK path \in Paths : left' = [left EXCEPT ![r] = path] /\ due' = [due EXCEPT ![Head(path)] = @ + 1]
    BY <1>2 DEF Limits!Arrive
  <2>2. path \in Seq(Keys) /\ path # <<>> /\ left[r] = <<>>
    BY <1>2, <2>1 DEF Limits!RateConstants, Limits!Arrive
  <2>3. \A k \in Keys : due'[k] = due[k] + AtHead(path, k) - AtHead(left[r], k)
    BY <1>0, <2>1, <2>2 DEF AtHead, Limits!TypeOK
  <2> QED BY <1>1, <2>1, <2>2, <2>3
<1>3. ASSUME NEW r \in Requests, left[r] # <<>>, Limits!Refused(r) PROVE DueCounts'
  <2>1. left' = [left EXCEPT ![r] = <<>>] /\ due' = [due EXCEPT ![Head(left[r])] = @ - 1] /\ <<>> \in Seq(Keys)
    BY <1>3 DEF Limits!Refused
  <2>2. \A k \in Keys : due'[k] = due[k] + AtHead(<<>>, k) - AtHead(left[r], k)
    BY <1>0, <1>3, <2>1 DEF AtHead, Limits!TypeOK
  <2> QED BY <1>1, <2>1, <2>2
<1>4. ASSUME NEW r \in Requests, left[r] # <<>>, Limits!GoesOn(r) PROVE DueCounts'
  <2> DEFINE path == Tail(left[r])
             counted == [due EXCEPT ![Head(left[r])] = @ - 1]
  <2>1. /\ left' = [left EXCEPT ![r] = path]
        /\ due' = IF path = <<>> THEN counted ELSE [counted EXCEPT ![Head(path)] = @ + 1]
    BY <1>4 DEF Limits!GoesOn
  <2>2. left[r] \in Seq(Keys) /\ path \in Seq(Keys) /\ Head(left[r]) \in Keys
    BY <1>0, <1>4 DEF Limits!TypeOK
  <2>3. counted \in [Keys -> Int] /\ \A k \in Keys : counted[k] = due[k] - AtHead(left[r], k)
    BY <1>0, <1>4, <2>2 DEF AtHead, Limits!TypeOK
  <2> HIDE DEF path, counted
  <2>4. \A k \in Keys : due'[k] = counted[k] + AtHead(path, k)
    BY <2>1, <2>2, <2>3 DEF AtHead
  <2>5. \A k \in Keys : due'[k] = due[k] + AtHead(path, k) - AtHead(left[r], k)
    <3> SUFFICES ASSUME NEW k \in Keys PROVE due'[k] = due[k] + AtHead(path, k) - AtHead(left[r], k)
      OBVIOUS
    <3>1. AtHead(path, k) \in {0, 1} /\ AtHead(left[r], k) \in {0, 1} /\ due[k] \in Int
      BY <1>0 DEF AtHead
    <3> QED BY <2>3, <2>4, <3>1
  <2> QED BY <1>1, <2>1, <2>2, <2>5
<1>5. CASE UNCHANGED <<left, due>>
  BY <1>5 DEF DueCounts, AtKey
<1> QED BY <1>2, <1>3, <1>4, <1>5 DEF Limits!vars, Limits!Next, Limits!Tick, Limits!HitNext, Limits!StoreFails

LEMMA DueInit == ASSUME Limits!Init PROVE DueCounts
<1>1. \A k \in Keys : AtKey(k) = {} /\ due[k] = 0
  BY DEF Limits!Init, AtKey
<1> QED BY <1>1, FS_EmptySet DEF DueCounts

LEMMA LimitsPromise ==
  ASSUME LimitsInv, DueCounts
  PROVE  Limits!TypeOK /\ Limits!WithinLimit /\ Limits!OnlyAdmittedGoOn
<1>1. Limits!WithinLimit
  BY DEF LimitsInv, Limits!WithinLimit
<1>2. Limits!OnlyAdmittedGoOn
  BY AtKeyFinite DEF DueCounts, Limits!OnlyAdmittedGoOn
<1> QED BY <1>1, <1>2 DEF LimitsInv

\* However requests interleave, whichever store calls fail and whenever the map
\* is swept, a key lets no more than its limit past in a window
\* (GuestRateLimiter.Allow, spendBudget over MemoryGuestRateLimitStore.Hit), and
\* is hit no more often than the keys before it let requests on to it.
THEOREM LimitsHold == Limits!Spec => [](Limits!TypeOK /\ Limits!WithinLimit /\ Limits!OnlyAdmittedGoOn)
BY AccessConstants, LimitsInit, LimitsStep, DueInit, DueStep, LimitsPromise, PTL DEF Limits!Spec

\* The memory store is a fixed-window counter a key, for any keys and any sweep
\* threshold: nobody can tell when MemoryGuestRateLimitStore drops windows.
THEOREM StoreIsFixedWindows == Limits!Spec => Limits!Windows!WindowsSpec
BY AccessConstants, LimitsInit, LimitsStep, FixedInit, FixedStep, PTL
   DEF Limits!Spec, Limits!Windows!WindowsSpec, Limits!StartsFresh, Limits!IsFixedWindows, Limits!Windows!WindowsStep

-----------------------------------------------------------------------------
\* Two-factor enrolment (TwoFactor).

\* A set of ids has a largest one.
LEMMA Largest ==
  ASSUME NEW n \in Nat, NEW S \in SUBSET (1..n), S # {}
  PROVE  \E i \in S : \A j \in S : j <= i
<1> DEFINE T == {m \in Nat : \A j \in S : j <= m}
<1>1. T # {} /\ T \subseteq Nat
  BY n \in T
<1>2. IsWellFoundedOn(OpToRel(<, Nat), Nat)
  BY NatLessThanWellFounded
<1>3. PICK m \in T : \A k \in T : ~(<<k, m>> \in OpToRel(<, Nat))
  BY <1>1, <1>2, WFMin
<1>4. \A k \in T : ~(k < m)
  BY <1>3 DEF OpToRel
<1>5. m \in Nat /\ \A j \in S : j <= m
  BY <1>3
<1>6. \A k \in Nat : (\A j \in S : j <= k) => ~(k < m)
  BY <1>4
<1> HIDE DEF T
<1>7. m \in S
  <2> SUFFICES ASSUME m \notin S PROVE FALSE
    OBVIOUS
  <2>1. PICK i \in S : i \in 1..n
    OBVIOUS
  <2>2. m - 1 \in Nat
    BY <1>5, <2>1
  <2>3. \A j \in S : j <= m - 1
    BY <1>5
  <2>4. m - 1 < m
    BY <1>5
  <2> QED BY <1>6, <2>2, <2>3, <2>4
<1> QED BY <1>5, <1>7

EnrolmentRow == [there : BOOLEAN, confirmed : BOOLEAN, codes : SUBSET RecoveryCodes, step : 0..(FactorTime + Factor!TOTPSkew)]

\* What a request has read names a row, and the code it carries is a time step
\* or a recovery code.
ReqSound(q, n) ==
  /\ q.op \in {"rest", "setup", "confirm", "confirmed", "verify", "recover"}
  /\ q.row \in 0..n /\ q.codes \subseteq RecoveryCodes
  /\ q.op \in {"confirm", "confirmed", "verify", "recover"} => q.row \in 1..n
  /\ q.op \in {"confirm", "verify"} => q.code \in 0..(FactorTime + Factor!TOTPSkew) /\ q.step \in Nat

FactorTypes ==
  /\ enrolments \in Seq(EnrolmentRow) /\ clock \in 1..FactorTime
  /\ accepted \in Seq(Seq(Nat)) /\ Len(accepted) = Len(enrolments)
  /\ told \in 0..Len(enrolments) /\ raced \in BOOLEAN
  /\ DOMAIN factorReq = Requests
  /\ \A r \in Requests : ReqSound(factorReq[r], Len(enrolments))

\* An enrolment that is still there has its row at the last step accepted.
StepsBehind ==
  \A i \in 1..Len(enrolments) : enrolments[i].there => \A k \in 1..Len(accepted[i]) : accepted[i][k] <= enrolments[i].step

FactorInv == FactorTypes /\ StepsBehind /\ Factor!CodeWorksOnce

LEMMA FoundNewest ==
  ASSUME FactorTypes
  PROVE  /\ Factor!Live \subseteq 1..Len(enrolments) /\ Factor!Find \in 0..Len(enrolments)
         /\ Factor!Live # {} => Factor!Find \in Factor!Live /\ \A j \in Factor!Live : j <= Factor!Find
         /\ Factor!Live = {} => Factor!Find = 0
         /\ Factor!Find # 0 => Factor!Find \in Factor!Live /\ enrolments[Factor!Find] \in EnrolmentRow
<1>1. Factor!Live \subseteq 1..Len(enrolments) /\ Len(enrolments) \in Nat
  BY DEF FactorTypes, Factor!Live
<1>2. CASE Factor!Live = {}
  BY <1>1, <1>2 DEF Factor!Find
<1>3. CASE Factor!Live # {}
  <2>1. \E i \in Factor!Live : \A j \in Factor!Live : j <= i
    BY <1>1, <1>3, Largest
  <2>2. Factor!Find \in Factor!Live /\ \A j \in Factor!Live : j <= Factor!Find
    BY <1>3, <2>1 DEF Factor!Find
  <2>3. enrolments[Factor!Find] \in EnrolmentRow
    BY <1>1, <2>2 DEF FactorTypes
  <2> QED BY <1>1, <1>3, <2>2, <2>3
<1> QED BY <1>2, <1>3

LEMMA SameFind == ASSUME Factor!Live' = Factor!Live PROVE Factor!Find' = Factor!Find
BY DEF Factor!Find

LEMMA RestSound == ASSUME NEW n \in Nat PROVE ReqSound(Factor!Rest, n)
BY DEF ReqSound, Factor!Rest

\* One request goes on with a sound v, the rest stay as they are.
LEMMA SetSound ==
  ASSUME FactorTypes, NEW r \in Requests, NEW v, Factor!Set(r, v), NEW n \in Nat, Len(enrolments) <= n, ReqSound(v, n)
  PROVE  DOMAIN factorReq' = Requests /\ \A q \in Requests : ReqSound(factorReq'[q], n)
<1>1. factorReq'[r] = v /\ (\A q \in Requests \ {r} : factorReq'[q] = factorReq[q]) /\ DOMAIN factorReq' = Requests
  BY DEF FactorTypes, Factor!Set
<1>2. ASSUME NEW q \in Requests \ {r} PROVE ReqSound(factorReq'[q], n)
  <2>1. ReqSound(factorReq[q], Len(enrolments)) /\ factorReq'[q] = factorReq[q] /\ Len(enrolments) \in Nat
    BY <1>1 DEF FactorTypes
  <2> QED BY <2>1 DEF ReqSound
<1> QED BY <1>1, <1>2

LEMMA FactorInit == ASSUME Factor!TwoFactorConstants, Factor!Init PROVE FactorInv
<1>1. enrolments = <<>> /\ accepted = <<>> /\ Len(enrolments) = 0 /\ Len(accepted) = 0
  BY DEF Factor!Init
<1>2. FactorTypes
  <2>1. enrolments \in Seq(EnrolmentRow) /\ accepted \in Seq(Seq(Nat))
    BY <1>1
  <2>2. DOMAIN factorReq = Requests /\ \A r \in Requests : factorReq[r] = Factor!Rest
    BY DEF Factor!Init
  <2>3. \A r \in Requests : ReqSound(factorReq[r], Len(enrolments))
    BY <1>1, <2>2, RestSound
  <2>4. clock = 1 /\ told = 0 /\ raced \in BOOLEAN
    BY DEF Factor!Init
  <2>5. clock \in 1..FactorTime /\ told \in 0..Len(enrolments)
    <3>1. FactorTime \in Nat /\ 1 <= FactorTime
      BY DEF Factor!TwoFactorConstants
    <3> QED BY <1>1, <2>4, <3>1
  <2> QED BY <1>1, <2>1, <2>2, <2>3, <2>4, <2>5 DEF FactorTypes
<1> QED BY <1>1, <1>2 DEF FactorInv, StepsBehind, Factor!CodeWorksOnce

\* What a request reads is sound (enrolment store's Find).
LEMMA ReadSound ==
  ASSUME FactorTypes, Factor!Find # 0, NEW op \in {"confirm", "verify", "recover"}, NEW code,
         op # "recover" => code \in 0..(FactorTime + Factor!TOTPSkew)
  PROVE  ReqSound([op |-> op, row |-> Factor!Find, codes |-> enrolments[Factor!Find].codes, step |-> enrolments[Factor!Find].step, code |-> code], Len(enrolments))
<1>1. Factor!Find \in 1..Len(enrolments) /\ enrolments[Factor!Find].codes \subseteq RecoveryCodes /\ enrolments[Factor!Find].step \in Nat
  BY FoundNewest DEF EnrolmentRow, Factor!TOTPSkew
<1> QED BY <1>1 DEF ReqSound

LEMMA CodesInRange ==
  ASSUME Factor!TwoFactorConstants, FactorTypes, NEW step \in (clock - Factor!TOTPSkew)..(clock + Factor!TOTPSkew)
  PROVE  step \in 0..(FactorTime + Factor!TOTPSkew)
BY DEF FactorTypes, Factor!TwoFactorConstants, Factor!TOTPSkew

LEMMA Appended ==
  ASSUME NEW S, NEW s \in Seq(S), NEW x \in S
  PROVE  /\ Append(s, x) \in Seq(S) /\ Len(Append(s, x)) = Len(s) + 1
         /\ Append(s, x)[Len(s) + 1] = x /\ \A i \in 1..Len(s) : Append(s, x)[i] = s[i]
OBVIOUS

LEMMA Elements ==
  ASSUME NEW S, NEW s \in Seq(S)
  PROVE  Len(s) \in Nat /\ DOMAIN s = 1..Len(s) /\ \A i \in 1..Len(s) : s[i] \in S
OBVIOUS

LEMMA AsSeq ==
  ASSUME NEW S, NEW n \in Nat, NEW f \in [1..n -> S]
  PROVE  f \in Seq(S) /\ Len(f) = n
OBVIOUS

\* Where the rows are there, at the same steps, and nothing is accepted.
LEMMA SameSteps ==
  ASSUME FactorInv, Len(enrolments') = Len(enrolments), accepted' = accepted,
         \A i \in 1..Len(enrolments) : enrolments'[i].there => enrolments[i].there /\ enrolments'[i].step = enrolments[i].step
  PROVE  StepsBehind' /\ Factor!CodeWorksOnce'
BY DEF FactorInv, StepsBehind, Factor!CodeWorksOnce

\* A request that goes on with v, and touches the rows and the steps accepted no
\* more than SameSteps allows.
LEMMA FactorGoesOn ==
  ASSUME FactorInv, NEW r \in Requests, NEW v, Factor!Set(r, v), ReqSound(v, Len(enrolments)),
         enrolments' \in Seq(EnrolmentRow), Len(enrolments') = Len(enrolments), accepted' = accepted, clock' = clock,
         \A i \in 1..Len(enrolments) : enrolments'[i].there => enrolments[i].there /\ enrolments'[i].step = enrolments[i].step,
         told' \in 0..Len(enrolments), raced' \in BOOLEAN
  PROVE  FactorInv'
<1>1. Len(enrolments) \in Nat
  BY DEF FactorInv, FactorTypes
<1>2. DOMAIN factorReq' = Requests /\ \A q \in Requests : ReqSound(factorReq'[q], Len(enrolments))
  BY <1>1, SetSound DEF FactorInv
<1>3. FactorTypes'
  BY <1>2 DEF FactorInv, FactorTypes
<1> QED BY <1>3, SameSteps DEF FactorInv

LEMMA FactorStep == ASSUME Factor!TwoFactorConstants, FactorInv, [Factor!Next]_Factor!vars PROVE FactorInv'
<1>0. /\ FactorTypes /\ Len(enrolments) \in Nat /\ DOMAIN enrolments = 1..Len(enrolments) /\ enrolments \in Seq(EnrolmentRow)
      /\ \A i \in 1..Len(enrolments) : enrolments[i] \in EnrolmentRow
      /\ told \in 0..Len(enrolments) /\ raced \in BOOLEAN
  BY DEF FactorInv, FactorTypes
<1>1. CASE UNCHANGED Factor!vars \/ Factor!Tick
  <2>1. UNCHANGED <<enrolments, factorReq, accepted, told, raced>> /\ clock' \in 1..FactorTime
    BY <1>0, <1>1 DEF Factor!vars, Factor!Tick, FactorTypes, Factor!TwoFactorConstants
  <2> QED BY <2>1 DEF FactorInv, FactorTypes, StepsBehind, Factor!CodeWorksOnce
<1>2. ASSUME NEW r \in Requests, Factor!Setup(r) PROVE FactorInv'
  <2> DEFINE v == [Factor!Rest EXCEPT !.op = "setup"]
  <2>1. ReqSound(v, Len(enrolments))
    BY <1>0 DEF ReqSound, Factor!Rest
  <2>2. Factor!Set(r, v) /\ raced' \in BOOLEAN /\ UNCHANGED <<enrolments, clock, accepted, told>>
    BY <1>2 DEF Factor!Setup, Factor!Changes
  <2> HIDE DEF v
  <2> QED BY <1>0, <2>1, <2>2, FactorGoesOn
<1>3. ASSUME NEW r \in Requests, Factor!SetupWrite(r) PROVE FactorInv'
  <2> DEFINE n == Len(enrolments)
             kept == [i \in DOMAIN enrolments |-> IF enrolments[i].confirmed THEN enrolments[i] ELSE Factor!Gone]
  <2>1. enrolments' = Append(kept, Factor!Pending) /\ accepted' = Append(accepted, <<>>) /\ Factor!Set(r, Factor!Rest)
        /\ UNCHANGED <<clock, told, raced>>
    BY <1>3 DEF Factor!SetupWrite
  <2>2. Factor!Pending \in EnrolmentRow /\ Factor!Gone \in EnrolmentRow /\ Factor!Pending.there /\ ~Factor!Gone.there
    BY DEF Factor!Pending, Factor!Gone, EnrolmentRow, Factor!TwoFactorConstants, Factor!TOTPSkew
  <2>3. kept \in [1..n -> EnrolmentRow] /\ \A i \in 1..n : kept[i] = IF enrolments[i].confirmed THEN enrolments[i] ELSE Factor!Gone
    BY <1>0, <2>2
  <2>4. kept \in Seq(EnrolmentRow) /\ Len(kept) = n
    BY <1>0, <2>3, AsSeq
  <2>5. \A i \in 1..n : kept[i].there => kept[i] = enrolments[i]
    BY <2>2, <2>3
  <2> HIDE DEF kept
  <2>6. /\ enrolments' \in Seq(EnrolmentRow) /\ Len(enrolments') = n + 1 /\ \A i \in 1..n : enrolments'[i] = kept[i]
    BY <2>1, <2>2, <2>4, Appended
  <2>7. /\ accepted \in Seq(Seq(Nat)) /\ Len(accepted) = n /\ DOMAIN accepted = 1..n
        /\ <<>> \in Seq(Nat) /\ Len(<<>>) = 0
    BY Elements DEF FactorInv, FactorTypes
  <2>8. /\ accepted' \in Seq(Seq(Nat)) /\ Len(accepted') = n + 1
        /\ accepted'[n + 1] = <<>> /\ \A i \in 1..n : accepted'[i] = accepted[i]
    BY <2>1, <2>7, Appended
  <2>9. n \in Nat /\ n + 1 \in Nat /\ n <= n + 1
    BY <1>0
  <2>10. DOMAIN factorReq' = Requests /\ \A q \in Requests : ReqSound(factorReq'[q], n + 1)
    BY <1>0, <2>1, <2>9, RestSound, SetSound
  <2>11. FactorTypes'
    <3>1. told' \in 0..(n + 1)
      BY <1>0, <2>1
    <3> QED BY <1>0, <2>1, <2>6, <2>8, <2>10, <3>1 DEF FactorTypes
  <2>12. StepsBehind'
    <3> SUFFICES ASSUME NEW i \in 1..(n + 1), enrolments'[i].there, NEW k \in 1..Len(accepted'[i])
                 PROVE  accepted'[i][k] <= enrolments'[i].step
      BY <2>6 DEF StepsBehind
    <3>1. CASE i = n + 1
      BY <2>7, <2>8, <3>1
    <3>2. CASE i \in 1..n
      <4>1. enrolments'[i] = enrolments[i] /\ enrolments[i].there /\ accepted'[i] = accepted[i]
        BY <2>5, <2>6, <2>8, <3>2
      <4> QED BY <3>2, <4>1 DEF FactorInv, StepsBehind
    <3> QED BY <2>9, <3>1, <3>2
  <2>13. Factor!CodeWorksOnce'
    <3> SUFFICES ASSUME NEW i \in 1..(n + 1), NEW j \in DOMAIN accepted'[i], NEW k \in DOMAIN accepted'[i], j < k
                 PROVE  accepted'[i][j] < accepted'[i][k]
      BY <2>8 DEF Factor!CodeWorksOnce
    <3>1. CASE i = n + 1
      BY <2>8, <3>1
    <3>2. CASE i \in 1..n
      <4>1. accepted'[i] = accepted[i] /\ i \in DOMAIN accepted
        BY <2>7, <2>8, <3>2
      <4> QED BY <4>1 DEF FactorInv, Factor!CodeWorksOnce
    <3> QED BY <2>9, <3>1, <3>2
  <2> QED BY <2>11, <2>12, <2>13 DEF FactorInv
<1>4. ASSUME NEW r \in Requests, Factor!Confirm(r) \/ Factor!Verify(r) PROVE FactorInv'
  <2>1. Factor!Find # 0
    BY <1>4 DEF Factor!Confirm, Factor!Verify, Factor!Confirmed
  <2>2. PICK op \in {"confirm", "verify", "recover"}, code \in (0..(FactorTime + Factor!TOTPSkew)) \cup RecoveryCodes :
          Factor!Read(r, op, code) /\ (op # "recover" => code \in 0..(FactorTime + Factor!TOTPSkew))
    BY <1>0, <1>4, CodesInRange DEF Factor!Confirm, Factor!Verify
  <2>3. UNCHANGED <<enrolments, clock, accepted, told>> /\ raced' \in BOOLEAN
    BY <1>0, <1>4 DEF Factor!Confirm, Factor!Verify, Factor!Changes
  <2> DEFINE v == [op |-> op, row |-> Factor!Find, codes |-> enrolments[Factor!Find].codes, step |-> enrolments[Factor!Find].step, code |-> code]
  <2>4. ReqSound(v, Len(enrolments)) /\ Factor!Set(r, v)
    BY <1>0, <2>1, <2>2, ReadSound DEF Factor!Read
  <2> HIDE DEF v
  <2> QED BY <1>0, <2>3, <2>4, FactorGoesOn
<1>5. ASSUME NEW r \in Requests, Factor!VerifyAndConsume(r) PROVE FactorInv'
  <2> DEFINE c == factorReq[r]
             i == c.row
             ok == c.code > c.step /\ Factor!MayClaim(c.row, c.code)
             new == [enrolments[i] EXCEPT !.step = c.code]
             v == IF ok /\ c.op = "confirm" THEN [c EXCEPT !.op = "confirmed"] ELSE Factor!Rest
  <2>1. ReqSound(c, Len(enrolments)) /\ c.op \in {"verify", "confirm"}
    BY <1>0, <1>5 DEF Factor!VerifyAndConsume, FactorTypes
  <2>2. i \in 1..Len(enrolments) /\ c.code \in 0..(FactorTime + Factor!TOTPSkew) /\ c.code \in Nat
    BY <2>1 DEF ReqSound
  <2>3. Factor!Set(r, v) /\ UNCHANGED <<clock, told, raced>>
    BY <1>5 DEF Factor!VerifyAndConsume
  <2>4. ReqSound(v, Len(enrolments))
    <3>1. [c EXCEPT !.op = "confirmed"].op = "confirmed" /\ [c EXCEPT !.op = "confirmed"].row = c.row
          /\ [c EXCEPT !.op = "confirmed"].codes = c.codes
      BY <1>5 DEF Factor!VerifyAndConsume
    <3> QED BY <1>0, <2>1, <2>2, <3>1, RestSound DEF ReqSound
  <2>5. CASE ~ok
    <3>1. enrolments' = enrolments /\ accepted' = accepted
      BY <1>5, <2>5 DEF Factor!VerifyAndConsume
    <3> HIDE DEF v
    <3> QED BY <1>0, <2>3, <2>4, <3>1, FactorGoesOn
  <2>6. CASE ok
    <3>1. enrolments' = [enrolments EXCEPT ![i] = new] /\ accepted' = [accepted EXCEPT ![i] = Append(accepted[i], c.code)]
      BY <1>5, <2>6 DEF Factor!VerifyAndConsume
    <3>2. enrolments[i].there /\ enrolments[i].step < c.code
      BY <2>6 DEF Factor!MayClaim
    <3>3. new \in EnrolmentRow /\ new.step = c.code
      BY <1>0, <2>2 DEF EnrolmentRow
    <3> HIDE DEF new, v
    <3>4. enrolments' \in Seq(EnrolmentRow) /\ Len(enrolments') = Len(enrolments) /\ enrolments'[i] = new /\ \A h \in 1..Len(enrolments) \ {i} : enrolments'[h] = enrolments[h]
      BY <1>0, <2>2, <3>1, <3>3
    <3>5. /\ accepted \in Seq(Seq(Nat)) /\ Len(accepted) = Len(enrolments) /\ DOMAIN accepted = 1..Len(enrolments)
          /\ accepted[i] \in Seq(Nat)
      BY <1>0, <2>2, Elements DEF FactorTypes
    <3> DEFINE a == accepted[i]
               b == Append(a, c.code)
    <3>6. b \in Seq(Nat) /\ Len(b) = Len(a) + 1 /\ b[Len(a) + 1] = c.code /\ (\A k \in 1..Len(a) : b[k] = a[k]) /\ Len(a) \in Nat
      BY <2>2, <3>5, Appended
    <3>7. accepted' = [accepted EXCEPT ![i] = b]
      BY <3>1
    <3>8. (\A k \in 1..Len(a) : a[k] \in Nat) /\ DOMAIN a = 1..Len(a) /\ DOMAIN b = 1..(Len(a) + 1)
      BY <3>5, <3>6, Elements
    <3>8b. enrolments[i].step \in Nat /\ \A k \in 1..Len(a) : a[k] <= enrolments[i].step
      <4>1. enrolments[i].step \in Nat
        BY <1>0, <2>2 DEF EnrolmentRow, Factor!TOTPSkew
      <4> QED BY <2>2, <3>2, <4>1 DEF FactorInv, StepsBehind
    <3>8c. \A j, k \in 1..Len(a) : j < k => a[j] < a[k]
      BY <2>2, <3>5, <3>8 DEF FactorInv, Factor!CodeWorksOnce
    <3> HIDE DEF a, b
    <3>9. /\ accepted' \in Seq(Seq(Nat)) /\ Len(accepted') = Len(enrolments) /\ accepted'[i] = b
          /\ \A h \in 1..Len(enrolments) \ {i} : accepted'[h] = accepted[h]
      BY <2>2, <3>5, <3>6, <3>7
    <3>10. DOMAIN factorReq' = Requests /\ \A q \in Requests : ReqSound(factorReq'[q], Len(enrolments))
      BY <1>0, <2>3, <2>4, SetSound
    <3>11. FactorTypes'
      BY <1>0, <2>3, <3>4, <3>9, <3>10 DEF FactorTypes
    <3>12. \A k \in 1..Len(a) : a[k] < c.code
      BY <2>2, <3>2, <3>8, <3>8b
    <3>13. StepsBehind'
      <4> SUFFICES ASSUME NEW h \in 1..Len(enrolments), enrolments'[h].there, NEW k \in 1..Len(accepted'[h])
                   PROVE  accepted'[h][k] <= enrolments'[h].step
        BY <3>4 DEF StepsBehind
      <4>1. CASE h = i
        <5>1. accepted'[h] = b /\ enrolments'[h].step = c.code /\ k \in 1..(Len(a) + 1)
          BY <3>3, <3>4, <3>6, <3>9, <4>1
        <5>2. CASE k = Len(a) + 1
          BY <2>2, <3>6, <5>1, <5>2
        <5>3. CASE k \in 1..Len(a)
          <6>1. b[k] < c.code /\ b[k] \in Nat
            BY <3>6, <3>8, <3>12, <5>3
          <6> QED BY <2>2, <5>1, <6>1
        <5> QED BY <3>6, <5>1, <5>2, <5>3
      <4>2. CASE h # i
        BY <3>4, <3>9, <4>2 DEF FactorInv, StepsBehind
      <4> QED BY <4>1, <4>2
    <3>14. Factor!CodeWorksOnce'
      <4> SUFFICES ASSUME NEW h \in 1..Len(enrolments), NEW j \in DOMAIN accepted'[h], NEW k \in DOMAIN accepted'[h], j < k
                   PROVE  accepted'[h][j] < accepted'[h][k]
        <5>1. DOMAIN accepted' = 1..Len(enrolments)
          BY <3>9, Elements
        <5> QED BY <5>1 DEF Factor!CodeWorksOnce
      <4>1. CASE h = i
        <5>1. j \in 1..(Len(a) + 1) /\ k \in 1..(Len(a) + 1) /\ accepted'[h] = b
          BY <3>8, <3>9, <4>1
        <5>2. j \in 1..Len(a)
          BY <5>1, <3>6
        <5>3. CASE k = Len(a) + 1
          BY <5>1, <5>2, <5>3, <3>6, <3>12
        <5>4. CASE k \in 1..Len(a)
          <6>1. a[j] < a[k]
            BY <3>8c, <5>2, <5>4
          <6> QED BY <3>6, <5>1, <5>2, <5>4, <6>1
        <5> QED BY <5>1, <5>3, <5>4, <3>6
      <4>2. CASE h # i
        <5>1. accepted'[h] = accepted[h] /\ h \in DOMAIN accepted
          BY <3>5, <3>9, <4>2
        <5> QED BY <5>1 DEF FactorInv, Factor!CodeWorksOnce
      <4> QED BY <4>1, <4>2
    <3> QED BY <3>11, <3>13, <3>14 DEF FactorInv
  <2> QED BY <2>5, <2>6
<1>6. ASSUME NEW r \in Requests, Factor!ConfirmWrite(r) PROVE FactorInv'
  <2> DEFINE f == [i \in DOMAIN enrolments |-> IF i = factorReq[r].row /\ enrolments[i].there THEN [enrolments[i] EXCEPT !.confirmed = TRUE] ELSE enrolments[i]]
  <2>1. enrolments' = f /\ told' = factorReq[r].row /\ Factor!Set(r, Factor!Rest) /\ UNCHANGED <<clock, accepted, raced>> /\ factorReq[r].row \in 0..Len(enrolments)
    BY <1>0, <1>6 DEF Factor!ConfirmWrite, FactorTypes, ReqSound
  <2>2. ASSUME NEW i \in 1..Len(enrolments) PROVE f[i] \in EnrolmentRow /\ f[i].there = enrolments[i].there /\ f[i].step = enrolments[i].step
    <3>1. enrolments[i] \in EnrolmentRow
      BY <1>0
    <3>2. [enrolments[i] EXCEPT !.confirmed = TRUE] \in EnrolmentRow /\ [enrolments[i] EXCEPT !.confirmed = TRUE].there = enrolments[i].there
          /\ [enrolments[i] EXCEPT !.confirmed = TRUE].step = enrolments[i].step
      BY <3>1 DEF EnrolmentRow
    <3>3. f[i] = [enrolments[i] EXCEPT !.confirmed = TRUE] \/ f[i] = enrolments[i]
      BY <1>0
    <3> HIDE DEF f
    <3> QED BY <3>1, <3>2, <3>3
  <2>3. f \in [1..Len(enrolments) -> EnrolmentRow]
    <3>1. DOMAIN f = 1..Len(enrolments) /\ f = [i \in DOMAIN f |-> f[i]]
      BY <1>0
    <3> HIDE DEF f
    <3> QED BY <2>2, <3>1
  <2> HIDE DEF f
  <2>4. f \in Seq(EnrolmentRow) /\ Len(f) = Len(enrolments)
    BY <1>0, <2>3, AsSeq
  <2> QED BY <1>0, <2>1, <2>2, <2>4, RestSound, FactorGoesOn
<1>7. ASSUME NEW r \in Requests, Factor!UseRecoveryCode(r) PROVE FactorInv'
  <2> DEFINE c == factorReq[r]
             new == [enrolments[c.row] EXCEPT !.codes = c.codes \ {c.code}]
  <2>1. Factor!Set(r, Factor!Rest) /\ UNCHANGED <<clock, accepted, told, raced>> /\ (enrolments' = enrolments \/ enrolments' = [enrolments EXCEPT ![c.row] = new])
    BY <1>7 DEF Factor!UseRecoveryCode
  <2>2. c.row \in 1..Len(enrolments) /\ c.codes \subseteq RecoveryCodes
    BY <1>0, <1>7 DEF Factor!UseRecoveryCode, FactorTypes, ReqSound
  <2>3. new \in EnrolmentRow /\ new.there = enrolments[c.row].there /\ new.step = enrolments[c.row].step
    BY <1>0, <2>2 DEF EnrolmentRow
  <2> HIDE DEF new
  <2>4. enrolments' \in Seq(EnrolmentRow) /\ Len(enrolments') = Len(enrolments)
        /\ \A i \in 1..Len(enrolments) : enrolments'[i] = enrolments[i] \/ (i = c.row /\ enrolments'[i] = new)
    BY <1>0, <2>1, <2>2, <2>3
  <2> QED BY <1>0, <2>1, <2>3, <2>4, RestSound, FactorGoesOn
<1>8. ASSUME NEW r \in Requests, Factor!Disable(r) PROVE FactorInv'
  <2> DEFINE f == [i \in DOMAIN enrolments |-> Factor!Gone]
  <2>1. enrolments' = f /\ told' = 0 /\ UNCHANGED <<clock, factorReq, accepted>> /\ raced' \in BOOLEAN
    BY <1>0, <1>8 DEF Factor!Disable, Factor!Changes
  <2>2. Factor!Gone \in EnrolmentRow /\ ~Factor!Gone.there
    BY DEF Factor!Gone, EnrolmentRow, Factor!TwoFactorConstants, Factor!TOTPSkew
  <2>3. f \in [1..Len(enrolments) -> EnrolmentRow] /\ \A i \in 1..Len(enrolments) : f[i] = Factor!Gone
    BY <1>0, <2>2
  <2> HIDE DEF f
  <2>4. f \in Seq(EnrolmentRow) /\ Len(f) = Len(enrolments)
    BY <1>0, <2>3, AsSeq
  <2>5. FactorTypes'
    BY <1>0, <2>1, <2>4 DEF FactorTypes
  <2>6. \A i \in 1..Len(enrolments) : ~enrolments'[i].there
    BY <2>1, <2>2, <2>3
  <2> QED BY <2>1, <2>4, <2>5, <2>6, SameSteps DEF FactorInv
<1> QED BY <1>1, <1>2, <1>3, <1>4, <1>5, <1>6, <1>7, <1>8 DEF Factor!Next

-----------------------------------------------------------------------------
(* The challenge, while changes of the enrolment come one at a time.         *)

\* The newest enrolment, when there is one.
Shown(i, newest, table) == i # 0 /\ i = newest /\ table[i].there

\* One change at most is under way; the enrolment told is the newest and is
\* confirmed; a change under way found none confirmed, and the one it is about
\* to confirm is the newest.
OneChange ==
  /\ \A r, s \in Factor!Changing : r = s
  /\ told # 0 => Shown(told, Factor!Find, enrolments) /\ enrolments[told].confirmed
  /\ \A r \in Factor!Changing : told = 0
  /\ \A r \in Requests : factorReq[r].op \in {"confirm", "confirmed"} => Shown(factorReq[r].row, Factor!Find, enrolments)

EnrolmentInv == FactorInv /\ (~raced => OneChange)

LEMMA OneChangeEnforces == ASSUME EnrolmentInv PROVE Factor!EnabledIsEnforced
BY DEF EnrolmentInv, OneChange, Factor!EnabledIsEnforced, Factor!Confirmed, Shown

\* The rows stay there and confirmed, or not, as they are.
LEMMA SameShown ==
  ASSUME Len(enrolments') = Len(enrolments), enrolments \in Seq(EnrolmentRow), enrolments' \in Seq(EnrolmentRow),
         \A i \in 1..Len(enrolments) : enrolments'[i].there = enrolments[i].there
  PROVE  Factor!Live' = Factor!Live /\ Factor!Find' = Factor!Find
<1>1. DOMAIN enrolments = 1..Len(enrolments) /\ DOMAIN enrolments' = 1..Len(enrolments)
  BY Elements
<1>2. Factor!Live' = Factor!Live
  BY <1>1 DEF Factor!Live
<1> QED BY <1>2, SameFind

\* A request that goes on with v where the rows show what they did.
LEMMA NextShown ==
  ASSUME EnrolmentInv, ~raced', OneChange, FactorTypes, Len(enrolments') = Len(enrolments), enrolments' \in Seq(EnrolmentRow), told' = told,
         \A i \in 1..Len(enrolments) : enrolments'[i].there = enrolments[i].there /\ enrolments'[i].confirmed = enrolments[i].confirmed,
         NEW r \in Requests, NEW v, Factor!Set(r, v),
         v.op \in {"setup", "confirm", "confirmed", "disable"} =>
           \/ r \in Factor!Changing
           \/ Factor!Changing = {} /\ told = 0,
         v.op \in {"confirm", "confirmed"} => Shown(v.row, Factor!Find, enrolments)
  PROVE  OneChange'
<1>1. Factor!Find' = Factor!Find /\ (\A i \in 1..Len(enrolments) : Shown(i, Factor!Find', enrolments') <=> Shown(i, Factor!Find, enrolments)) /\ enrolments \in Seq(EnrolmentRow)
  <2>1. enrolments \in Seq(EnrolmentRow)
    BY DEF FactorTypes
  <2> QED BY <2>1, SameShown DEF Shown
<1>2. factorReq' = [factorReq EXCEPT ![r] = v] /\ DOMAIN factorReq = Requests
  BY DEF Factor!Set, FactorTypes
<1>3. factorReq'[r] = v /\ \A s \in Requests \ {r} : factorReq'[s] = factorReq[s]
  BY <1>2
<1>4. Factor!Changing' \subseteq Factor!Changing \cup {r} /\ (r \in Factor!Changing' => r \in Factor!Changing \/ (Factor!Changing = {} /\ told = 0))
  BY <1>3 DEF Factor!Changing
<1>5. \A s, t \in Factor!Changing' : s = t
  BY <1>4 DEF OneChange
<1>6. \A s \in Factor!Changing' : told' = 0
  BY <1>4 DEF OneChange
<1>7. Factor!Find \in 0..Len(enrolments) /\ Len(enrolments) \in Nat
  BY FoundNewest DEF FactorTypes
<1>8. \A i : Shown(i, Factor!Find, enrolments) => i \in 1..Len(enrolments)
  BY <1>7 DEF Shown
<1>9. \A i : Shown(i, Factor!Find, enrolments) => Shown(i, Factor!Find', enrolments')
  BY <1>1, <1>8
<1>10. told' # 0 => Shown(told', Factor!Find', enrolments') /\ enrolments'[told'].confirmed
  BY <1>8, <1>9 DEF OneChange
<1>11. \A s \in Requests : factorReq'[s].op \in {"confirm", "confirmed"} => Shown(factorReq'[s].row, Factor!Find', enrolments')
  BY <1>3, <1>9 DEF OneChange
<1> QED BY <1>5, <1>6, <1>10, <1>11 DEF OneChange

LEMMA ChangesAlone == ASSUME EnrolmentInv, Factor!Changes, ~raced' PROVE ~raced /\ OneChange /\ Factor!Changing = {}
BY DEF EnrolmentInv, Factor!Changes

\* While no enrolment is confirmed, none has been told.
LEMMA NoneTold == ASSUME OneChange, FactorTypes, Factor!Confirmed = 0 PROVE told = 0
BY DEF OneChange, Factor!Confirmed, Shown, FactorTypes

LEMMA EnrolmentStep == ASSUME Factor!TwoFactorConstants, EnrolmentInv, [Factor!Next]_Factor!vars PROVE EnrolmentInv'
<1>0. FactorInv' /\ FactorTypes /\ Len(enrolments) \in Nat /\ enrolments \in Seq(EnrolmentRow) /\ DOMAIN enrolments = 1..Len(enrolments)
  BY FactorStep DEF EnrolmentInv, FactorInv, FactorTypes
<1> SUFFICES ASSUME ~raced' PROVE OneChange'
  BY <1>0 DEF EnrolmentInv
<1>1. CASE UNCHANGED Factor!vars \/ Factor!Tick
  <2>1. UNCHANGED <<enrolments, factorReq, told, raced>>
    BY <1>1 DEF Factor!vars, Factor!Tick
  <2>2. OneChange
    BY <2>1 DEF EnrolmentInv
  <2>3. UNCHANGED <<Factor!Changing, Factor!Find>>
    BY <2>1 DEF Factor!Changing, Factor!Find, Factor!Live
  <2> QED BY <2>1, <2>2, <2>3 DEF OneChange, Shown
<1>2. ASSUME NEW r \in Requests, Factor!Setup(r) PROVE OneChange'
  <2> DEFINE v == [Factor!Rest EXCEPT !.op = "setup"]
  <2>1. Factor!Changes /\ Factor!Set(r, v) /\ UNCHANGED <<enrolments, told>> /\ Factor!Confirmed = 0
    BY <1>2 DEF Factor!Setup
  <2>2. ~raced /\ OneChange /\ Factor!Changing = {} /\ told = 0
    BY <1>0, <2>1, ChangesAlone, NoneTold
  <2>3. v.op = "setup"
    BY DEF Factor!Rest
  <2> HIDE DEF v
  <2> QED BY <1>0, <2>1, <2>2, <2>3, NextShown
<1>3. ASSUME NEW r \in Requests, Factor!SetupWrite(r) PROVE OneChange'
  <2>1. raced' = raced /\ told' = told /\ Factor!Set(r, Factor!Rest) /\ r \in Factor!Changing
    BY <1>3 DEF Factor!SetupWrite, Factor!Changing
  <2>2. OneChange /\ told = 0 /\ \A s \in Factor!Changing : s = r
    BY <2>1 DEF EnrolmentInv, OneChange
  <2>3. factorReq'[r].op = "rest" /\ \A s \in Requests \ {r} : factorReq'[s] = factorReq[s]
    BY <1>0, <2>1 DEF Factor!Set, Factor!Rest, FactorTypes
  <2>4. \A s \in Requests : factorReq'[s].op \notin {"setup", "confirm", "confirmed", "disable"}
    BY <2>2, <2>3 DEF Factor!Changing
  <2>5. Factor!Changing' = {}
    BY <2>4 DEF Factor!Changing
  <2> QED BY <2>1, <2>2, <2>4, <2>5 DEF OneChange
<1>4. ASSUME NEW r \in Requests, Factor!Confirm(r) PROVE OneChange'
  <2>1. Factor!Changes /\ UNCHANGED <<enrolments, told>> /\ Factor!Confirmed = 0 /\ Factor!Find # 0
    BY <1>4 DEF Factor!Confirm
  <2>2. ~raced /\ OneChange /\ Factor!Changing = {} /\ told = 0
    BY <1>0, <2>1, ChangesAlone, NoneTold
  <2>3. PICK step : Factor!Read(r, "confirm", step)
    BY <1>4 DEF Factor!Confirm
  <2> DEFINE v == [op |-> "confirm", row |-> Factor!Find, codes |-> enrolments[Factor!Find].codes, step |-> enrolments[Factor!Find].step, code |-> step]
  <2>4. Factor!Set(r, v) /\ v.row = Factor!Find
    BY <2>3 DEF Factor!Read
  <2>5. Shown(Factor!Find, Factor!Find, enrolments)
    BY <1>0, <2>1, FoundNewest DEF Shown, Factor!Live
  <2> HIDE DEF v
  <2> QED BY <1>0, <2>1, <2>2, <2>4, <2>5, NextShown
<1>5. ASSUME NEW r \in Requests, Factor!Verify(r) PROVE OneChange'
  <2>1. UNCHANGED <<enrolments, told, raced>>
    BY <1>5 DEF Factor!Verify
  <2>2a. PICK op \in {"verify", "recover"} : \E code : Factor!Read(r, op, code)
    BY <1>5 DEF Factor!Verify
  <2>2. PICK code : Factor!Read(r, op, code)
    BY <2>2a
  <2> DEFINE v == [op |-> op, row |-> Factor!Find, codes |-> enrolments[Factor!Find].codes, step |-> enrolments[Factor!Find].step, code |-> code]
  <2>3. Factor!Set(r, v) /\ v.op \in {"verify", "recover"}
    BY <2>2 DEF Factor!Read
  <2>4. OneChange
    BY <2>1 DEF EnrolmentInv
  <2> HIDE DEF v
  <2> QED BY <1>0, <2>1, <2>3, <2>4, NextShown
<1>6. ASSUME NEW r \in Requests, Factor!VerifyAndConsume(r) PROVE OneChange'
  <2> DEFINE c == factorReq[r]
             ok == c.code > c.step /\ Factor!MayClaim(c.row, c.code)
             v == IF ok /\ c.op = "confirm" THEN [c EXCEPT !.op = "confirmed"] ELSE Factor!Rest
  <2>1. /\ UNCHANGED <<told, raced>> /\ Factor!Set(r, v) /\ c.op \in {"verify", "confirm"}
        /\ enrolments' = enrolments \/ enrolments' = [enrolments EXCEPT ![c.row].step = c.code]
    BY <1>6 DEF Factor!VerifyAndConsume
  <2>2. OneChange
    BY <2>1 DEF EnrolmentInv
  <2>3. c.op = "confirm" => r \in Factor!Changing /\ Shown(c.row, Factor!Find, enrolments)
    BY <2>2 DEF Factor!Changing, OneChange
  <2>4. v.op \in {"rest", "confirmed"} /\ (v.op = "confirmed" => c.op = "confirm" /\ v.row = c.row)
    <3>1. Factor!Rest.op = "rest"
      BY DEF Factor!Rest
    <3>2. ASSUME c.op = "confirm" PROVE [c EXCEPT !.op = "confirmed"].op = "confirmed" /\ [c EXCEPT !.op = "confirmed"].row = c.row
      BY <1>0, <3>2 DEF FactorTypes, ReqSound
    <3> QED BY <3>1, <3>2
  <2>5. Len(enrolments') = Len(enrolments) /\ enrolments' \in Seq(EnrolmentRow)
        /\ \A i \in 1..Len(enrolments) : enrolments'[i].there = enrolments[i].there /\ enrolments'[i].confirmed = enrolments[i].confirmed
    <3>1. Len(enrolments') = Len(enrolments) /\ enrolments' \in Seq(EnrolmentRow)
      BY <1>0, <2>1 DEF FactorInv, FactorTypes
    <3>2. \A i \in 1..Len(enrolments) : enrolments[i] \in EnrolmentRow
      BY <1>0
    <3>3. CASE enrolments' = enrolments
      BY <3>1, <3>3
    <3>4. CASE enrolments' = [enrolments EXCEPT ![c.row].step = c.code]
      <4>1. \A i \in 1..Len(enrolments) :
              LET new == [enrolments[i] EXCEPT !.step = c.code]
              IN  (enrolments'[i] = enrolments[i] \/ enrolments'[i] = new) /\ new.there = enrolments[i].there /\ new.confirmed = enrolments[i].confirmed
        BY <1>0, <3>2, <3>4 DEF EnrolmentRow
      <4> QED BY <3>1, <4>1
    <3> QED BY <2>1, <3>3, <3>4
  <2> HIDE DEF v
  <2> QED BY <1>0, <2>1, <2>2, <2>3, <2>4, <2>5, NextShown
<1>7. ASSUME NEW r \in Requests, Factor!ConfirmWrite(r) PROVE OneChange'
  <2> DEFINE i == factorReq[r].row
             f == [k \in DOMAIN enrolments |-> IF k = i /\ enrolments[k].there THEN [enrolments[k] EXCEPT !.confirmed = TRUE] ELSE enrolments[k]]
  <2>1. raced' = raced /\ told' = i /\ Factor!Set(r, Factor!Rest) /\ r \in Factor!Changing /\ factorReq[r].op = "confirmed" /\ enrolments' = f
    BY <1>7 DEF Factor!ConfirmWrite, Factor!Changing
  <2>2. OneChange /\ Shown(i, Factor!Find, enrolments) /\ \A s \in Factor!Changing : s = r
    BY <2>1 DEF EnrolmentInv, OneChange
  <2>3. factorReq'[r].op = "rest" /\ \A s \in Requests \ {r} : factorReq'[s] = factorReq[s]
    BY <1>0, <2>1 DEF Factor!Set, Factor!Rest, FactorTypes
  <2>4. \A s \in Requests : factorReq'[s].op \notin {"setup", "confirm", "confirmed", "disable"}
    BY <2>2, <2>3 DEF Factor!Changing
  <2>5. Factor!Changing' = {}
    BY <2>4 DEF Factor!Changing
  <2>6. i \in 1..Len(enrolments) /\ enrolments[i] \in EnrolmentRow /\ enrolments[i].there
    BY <1>0, <2>2, FoundNewest DEF Shown
  <2>7. enrolments'[i].confirmed /\ \A k \in 1..Len(enrolments) : enrolments'[k].there = enrolments[k].there
    <3>1. \A k \in 1..Len(enrolments) : enrolments[k] \in EnrolmentRow
      BY <1>0
    <3>2. \A k \in 1..Len(enrolments) : [enrolments[k] EXCEPT !.confirmed = TRUE].there = enrolments[k].there /\ [enrolments[k] EXCEPT !.confirmed = TRUE].confirmed
      BY <3>1 DEF EnrolmentRow
    <3>3. \A k \in 1..Len(enrolments) : f[k] = IF k = i /\ enrolments[k].there THEN [enrolments[k] EXCEPT !.confirmed = TRUE] ELSE enrolments[k]
      BY <1>0
    <3> HIDE DEF f, i
    <3>4. \A k \in 1..Len(enrolments) : enrolments'[k] = IF k = i /\ enrolments[k].there THEN [enrolments[k] EXCEPT !.confirmed = TRUE] ELSE enrolments[k]
      BY <2>1, <3>3
    <3>5. enrolments'[i] = [enrolments[i] EXCEPT !.confirmed = TRUE]
      BY <2>6, <3>4
    <3>6. enrolments'[i].confirmed
      BY <2>6, <3>2, <3>5
    <3>7. ASSUME NEW k \in 1..Len(enrolments) PROVE enrolments'[k].there = enrolments[k].there
      BY <3>2, <3>4
    <3> QED BY <3>6, <3>7
  <2>8. Len(enrolments') = Len(enrolments) /\ enrolments' \in Seq(EnrolmentRow)
    <3>1. DOMAIN f = 1..Len(enrolments)
      BY <1>0
    <3>2. enrolments' \in Seq(EnrolmentRow)
      BY <1>0 DEF FactorInv, FactorTypes
    <3> HIDE DEF f
    <3> QED BY <1>0, <2>1, <3>1, <3>2, Elements
  <2>9. Shown(i, Factor!Find', enrolments')
    BY <1>0, <2>2, <2>6, <2>7, <2>8, SameShown DEF Shown
  <2> QED BY <2>1, <2>4, <2>5, <2>7, <2>9 DEF OneChange
<1>8. ASSUME NEW r \in Requests, Factor!UseRecoveryCode(r) PROVE OneChange'
  <2> DEFINE c == factorReq[r]
  <2>1. /\ UNCHANGED <<told, raced>> /\ Factor!Set(r, Factor!Rest)
        /\ enrolments' = enrolments \/ enrolments' = [enrolments EXCEPT ![c.row].codes = c.codes \ {c.code}]
    BY <1>8 DEF Factor!UseRecoveryCode
  <2>2. OneChange
    BY <2>1 DEF EnrolmentInv
  <2>3. Len(enrolments') = Len(enrolments) /\ enrolments' \in Seq(EnrolmentRow)
    BY <1>0, <2>1 DEF FactorInv, FactorTypes
  <2>4. \A i \in 1..Len(enrolments) : enrolments'[i].there = enrolments[i].there /\ enrolments'[i].confirmed = enrolments[i].confirmed
    <3> TAKE i \in 1..Len(enrolments)
    <3>1. enrolments[i] \in EnrolmentRow /\ DOMAIN enrolments = 1..Len(enrolments)
      BY <1>0
    <3>2. enrolments'[i] = enrolments[i] \/ enrolments'[i] = [enrolments[i] EXCEPT !.codes = c.codes \ {c.code}]
      <4> HIDE DEF c
      <4> QED BY <2>1, <3>1
    <3>3. enrolments[i] = [there |-> enrolments[i].there, confirmed |-> enrolments[i].confirmed,
                           codes |-> enrolments[i].codes, step |-> enrolments[i].step]
      BY <3>1 DEF EnrolmentRow
    <3> QED BY <3>2, <3>3
  <2>5. Factor!Rest.op = "rest"
    BY DEF Factor!Rest
  <2> QED BY <1>0, <2>1, <2>2, <2>3, <2>4, <2>5, NextShown
<1>9. ASSUME NEW r \in Requests, Factor!Disable(r) PROVE OneChange'
  <2>1. Factor!Changes /\ told' = 0 /\ factorReq' = factorReq
    BY <1>9 DEF Factor!Disable
  <2>2. Factor!Changing' = {} /\ \A s \in Requests : factorReq'[s].op \notin {"confirm", "confirmed"}
    BY <2>1, ChangesAlone DEF Factor!Changing
  <2> QED BY <2>1, <2>2 DEF OneChange
<1> QED BY <1>1, <1>2, <1>3, <1>4, <1>5, <1>6, <1>7, <1>8, <1>9 DEF Factor!Next

LEMMA EnrolmentInit == ASSUME Factor!TwoFactorConstants, Factor!Init PROVE EnrolmentInv
<1>1. FactorInv
  BY FactorInit
<1>2. told = 0 /\ \A r \in Requests : factorReq[r].op = "rest"
  BY DEF Factor!Init, Factor!Rest
<1>3. Factor!Changing = {}
  BY <1>2 DEF Factor!Changing
<1> QED BY <1>1, <1>2, <1>3 DEF EnrolmentInv, OneChange

LEMMA EnrolmentPromise == ASSUME EnrolmentInv PROVE Factor!TypeOK /\ Factor!EnrolmentHolds
<1>1. Factor!TypeOK
  BY DEF EnrolmentInv, FactorInv, FactorTypes, ReqSound, EnrolmentRow, Factor!TypeOK
<1>2. Factor!CodeWorksOnce /\ Factor!EnabledIsEnforced
  BY OneChangeEnforces DEF EnrolmentInv, FactorInv
<1> QED BY <1>1, <1>2 DEF Factor!EnrolmentHolds

\* A six-digit code is accepted once for an enrolment, and none at or before it
\* later, however many requests carry it (VerifyAndConsume).
THEOREM CodesWorkOnce == Factor!Spec => []Factor!CodeWorksOnce
<1>1. FactorInv => Factor!CodeWorksOnce
  BY DEF FactorInv
<1> QED BY <1>1, AccessConstants, FactorInit, FactorStep, PTL DEF Factor!Spec

\* Who was told that two-factor is on is challenged until it is turned off,
\* unless two changes of the enrolment overlapped (Confirm, Setup, Disable).
THEOREM ToldAreChallenged == Factor!Spec => []Factor!EnabledIsEnforced
BY AccessConstants, EnrolmentInit, EnrolmentStep, OneChangeEnforces, PTL DEF Factor!Spec

-----------------------------------------------------------------------------
\* Single sign-on (SignOn).

Answering(r) == {c \in Requests : callback[c].at \in {"prune", "claim"} /\ callback[c].message.answers = r}
Remembered(r) == \E row \in messageIds : row.kind = "request" /\ row.id = r

SignOnTypes ==
  /\ clock \in Nat /\ issued \subseteq SSO!Message /\ messageIds \subseteq SSO!Row /\ DOMAIN callback = Requests
  /\ signedIn \in [Messages -> Nat] /\ answered \in [SamlRequests -> Nat]

IdsUnique ==
  /\ \A r, s \in messageIds : r.kind = s.kind /\ r.id = s.id => r = s
  /\ \A i, j \in issued : i.id = j.id => i = j

MessagesIssued ==
  /\ \A c \in Requests : callback[c].at \in {"prune", "claim"} => callback[c].message \in issued
  /\ \A i \in issued : i.kind = "jwt" => i.answers = Nil

ClaimsStay ==
  \A m \in Messages : signedIn[m] > 0 => \E i \in issued : i.id = m /\ (SSO!ClaimedRow(i) \in messageIds \/ SSO!Unix(clock) >= SSO!ClaimedRow(i).expires)

OneAnswer ==
  \A r \in SamlRequests :
    /\ answered[r] <= 1
    /\ answered[r] = 1 => ~Remembered(r) /\ Answering(r) = {}
    /\ Answering(r) # {} => ~Remembered(r)
    /\ \A c, d \in Answering(r) : c = d

SignOnInv == SignOnTypes /\ IdsUnique /\ MessagesIssued /\ ClaimsStay /\ OneAnswer

LEMMA SignOnInit == ASSUME SSO!Init PROVE SignOnInv
<1>1. \A c \in Requests : callback[c].at = "idle"
  BY DEF SSO!Init, SSO!Idle
<1>2. SignOnTypes /\ IdsUnique /\ MessagesIssued /\ ClaimsStay
  BY <1>1 DEF SSO!Init, SignOnTypes, IdsUnique, MessagesIssued, ClaimsStay
<1>3. OneAnswer
  BY <1>1 DEF SSO!Init, OneAnswer, Answering, Remembered
<1> QED BY <1>2, <1>3 DEF SignOnInv

\* Cut to seconds, time still does not go back.
LEMMA Seconds == \A s, t \in Nat : SSO!Unix(s) \in Nat /\ (s <= t => SSO!Unix(s) <= SSO!Unix(t))
BY DEF SSO!Unix

LEMMA ClaimedRows ==
  ASSUME SSO!SignOnConstants, NEW m \in SSO!Message
  PROVE  SSO!ClaimedRow(m) \in SSO!Row /\ SSO!ClaimedRow(m).kind = m.kind /\ SSO!ClaimedRow(m).kind # "request"
         /\ SSO!ClaimedRow(m).id = m.id /\ SSO!ClaimedRow(m).expires \in Nat
         /\ m.id \in Messages /\ m.answers \in SamlRequests \cup {Nil}
<1>1. /\ SSO!Unix(SSO!Until(m)) + Skew \in Nat /\ m.id \in Messages /\ m.answers \in SamlRequests \cup {Nil}
      /\ m.kind \in {"saml", "jwt"}
  <2>1. m.until \in Untils /\ m.id \in Messages /\ m.answers \in SamlRequests \cup {Nil} /\ m.kind \in {"saml", "jwt"}
    BY DEF SSO!Message
  <2>2. m.until \in Nat /\ Skew \in Nat
    BY <2>1 DEF SSO!SignOnConstants
  <2>3. SSO!Unix(SSO!Until(m)) \in Nat
    <3>1. SSO!Unix(m.until) \in Nat
      BY <2>2, Seconds
    <3>2. SSO!Until(m) \in Nat
      BY <2>2, <3>1 DEF SSO!Until
    <3> QED BY <3>2, Seconds
  <2> QED BY <2>1, <2>2, <2>3
<1>2. m.kind # "request" /\ m.kind \in {"request", "saml", "jwt"} /\ m.id \in SamlRequests \cup Messages
  BY <1>1
<1>3. SSO!ClaimedRow(m) \in SSO!Row
  BY <1>1, <1>2 DEF SSO!ClaimedRow, SSO!Row
<1> QED BY <1>1, <1>2, <1>3 DEF SSO!ClaimedRow

\* Rows that go were requests, or have expired.
LEMMA ClaimsKept ==
  ASSUME SSO!SignOnConstants, SignOnInv, clock' \in Nat, clock' >= clock, issued \subseteq issued', signedIn' = signedIn,
         \A row \in messageIds : row.kind = "request" \/ row.expires <= SSO!Unix(clock) \/ row \in messageIds'
  PROVE  ClaimsStay'
<1> SUFFICES ASSUME NEW m \in Messages, signedIn[m] > 0
             PROVE  \E i \in issued' : i.id = m /\ (SSO!ClaimedRow(i) \in messageIds' \/ SSO!Unix(clock') >= SSO!ClaimedRow(i).expires)
  BY DEF ClaimsStay, SSO!ClaimedRow
<1>1. PICK i \in issued : i.id = m /\ (SSO!ClaimedRow(i) \in messageIds \/ SSO!Unix(clock) >= SSO!ClaimedRow(i).expires)
  BY DEF SignOnInv, ClaimsStay
<1>2. i \in SSO!Message /\ clock \in Nat
  BY DEF SignOnInv, SignOnTypes
<1>3. SSO!ClaimedRow(i).kind # "request" /\ SSO!ClaimedRow(i).expires \in Nat
  BY <1>2, ClaimedRows
<1>4. SSO!ClaimedRow(i) \in messageIds' \/ SSO!Unix(clock') >= SSO!ClaimedRow(i).expires
  <2>1. SSO!Unix(clock) \in Nat /\ SSO!Unix(clock') \in Nat /\ SSO!Unix(clock) <= SSO!Unix(clock')
    BY <1>2, Seconds
  <2> QED BY <1>1, <1>3, <2>1
<1> QED BY <1>1, <1>4

\* No request is remembered anew, and no callback takes one up.
LEMMA AnswersKept ==
  ASSUME SignOnInv, answered' = answered, {row \in messageIds' : row.kind = "request"} \subseteq messageIds,
         \A c \in Requests : callback'[c].at \in {"prune", "claim"} =>
           callback[c].at \in {"prune", "claim"} /\ callback'[c].message = callback[c].message
  PROVE  OneAnswer'
<1> SUFFICES ASSUME NEW r \in SamlRequests
             PROVE  /\ answered[r] <= 1
                    /\ answered[r] = 1 => ~Remembered(r)' /\ Answering(r)' = {}
                    /\ Answering(r)' # {} => ~Remembered(r)'
                    /\ \A c, d \in Answering(r)' : c = d
  BY DEF OneAnswer
<1>1. Answering(r)' \subseteq Answering(r) /\ (Remembered(r)' => Remembered(r))
  BY DEF Answering, Remembered
<1> QED BY <1>1 DEF SignOnInv, OneAnswer

LEMMA SignOnStep == ASSUME SSO!SignOnConstants, SignOnInv, [SSO!Next]_SSO!vars PROVE SignOnInv'
<1>0. SignOnTypes /\ IdsUnique /\ MessagesIssued /\ ClaimsStay /\ OneAnswer
  BY DEF SignOnInv
<1>1. CASE UNCHANGED <<messageIds, issued, callback, signedIn, answered>> /\ clock' \in Nat /\ clock' >= clock
  <2>1. SignOnTypes' /\ IdsUnique' /\ MessagesIssued'
    BY <1>0, <1>1 DEF SignOnTypes, IdsUnique, MessagesIssued
  <2>2. ClaimsStay'
    BY <1>1, ClaimsKept
  <2>3. OneAnswer'
    BY <1>1, AnswersKept
  <2> QED BY <2>1, <2>2, <2>3 DEF SignOnInv
<1>2. CASE UNCHANGED SSO!vars \/ SSO!Tick \/ SSO!UpdateSettings
  <2>1. UNCHANGED <<messageIds, issued, callback, signedIn, answered>> /\ clock' \in Nat /\ clock' >= clock
    BY <1>0, <1>2 DEF SSO!vars, SSO!Tick, SSO!UpdateSettings, SignOnTypes
  <2> QED BY <1>1, <2>1
<1>3. ASSUME NEW b \in Browsers, SSO!Login(b) PROVE SignOnInv'
  <2>1. UNCHANGED <<clock, issued, callback, signedIn, answered>>
    BY <1>3 DEF SSO!Login
  <2>2. CASE SSO!SAMLLoginURL
    <3>1. PICK q \in SamlRequests :
            /\ answered[q] = 0 /\ (\A i \in issued : i.answers # q) /\ (\A row \in messageIds : row.id # q)
            /\ messageIds' = SSO!Pruned \cup {[kind |-> "request", id |-> q, expires |-> SSO!Unix(clock) + TTL]}
      BY <2>2 DEF SSO!SAMLLoginURL
    <3> DEFINE new == [kind |-> "request", id |-> q, expires |-> SSO!Unix(clock) + TTL]
    <3>2. new \in SSO!Row /\ new.kind = "request" /\ new.id = q
      <4>1. SSO!Unix(clock) + TTL \in Nat
        BY <1>0, Seconds DEF SignOnTypes, SSO!SignOnConstants
      <4> QED BY <4>1 DEF SSO!Row
    <3> HIDE DEF new
    <3>3. messageIds' = SSO!Pruned \cup {new} /\ SSO!Pruned \subseteq messageIds /\ \A row \in messageIds : row.expires > SSO!Unix(clock) => row \in messageIds'
      BY <3>1 DEF SSO!Pruned, new
    <3>4. SignOnTypes' /\ MessagesIssued'
      BY <1>0, <2>1, <3>2, <3>3 DEF SignOnTypes, MessagesIssued
    <3>5. IdsUnique'
      BY <1>0, <2>1, <3>1, <3>2, <3>3 DEF IdsUnique
    <3>6. ClaimsStay'
      <4>1. \A row \in messageIds : row.expires \in Nat
        BY <1>0 DEF SignOnTypes, SSO!Row
      <4>2. clock \in Nat /\ clock' = clock /\ clock' >= clock /\ SSO!Unix(clock) \in Nat
        BY <1>0, <2>1, Seconds DEF SignOnTypes
      <4> QED BY <2>1, <3>3, <4>1, <4>2, ClaimsKept
    <3>7. ASSUME NEW r \in SamlRequests
          PROVE  /\ answered'[r] <= 1
                 /\ answered'[r] = 1 => ~Remembered(r)' /\ Answering(r)' = {}
                 /\ Answering(r)' # {} => ~Remembered(r)'
                 /\ \A c, d \in Answering(r)' : c = d
      <4>1. Answering(r)' = Answering(r)
        BY <2>1 DEF Answering
      <4>2. CASE r = q
        <5>1. Answering(r) = {}
          BY <1>0, <3>1, <4>2 DEF Answering, MessagesIssued
        <5> QED BY <2>1, <3>1, <4>1, <4>2, <5>1
      <4>3. CASE r # q
        <5>1. Remembered(r)' => Remembered(r)
          BY <3>2, <3>3, <4>3 DEF Remembered
        <5> QED BY <1>0, <2>1, <4>1, <5>1 DEF OneAnswer
      <4> QED BY <4>2, <4>3
    <3> QED BY <3>4, <3>5, <3>6, <3>7 DEF SignOnInv, OneAnswer
  <2>3. CASE SSO!OAuthStart(b)
    <3>1. messageIds' = messageIds /\ clock' \in Nat /\ clock' >= clock
      BY <1>0, <2>1, <2>3 DEF SSO!OAuthStart, SignOnTypes
    <3> QED BY <1>1, <2>1, <3>1
  <2> QED BY <1>3, <2>2, <2>3 DEF SSO!Login
<1>4. ASSUME NEW m \in SSO!Message, SSO!Issue(m) PROVE SignOnInv'
  <2>1. /\ (\A i \in issued : i.id # m.id) /\ (m.kind = "jwt" => m.answers = Nil) /\ issued' = issued \cup {m}
        /\ UNCHANGED <<clock, messageIds, callback, signedIn, answered>>
    BY <1>4 DEF SSO!Issue
  <2>2. SignOnTypes' /\ IdsUnique' /\ MessagesIssued'
    BY <1>0, <2>1 DEF SignOnTypes, IdsUnique, MessagesIssued
  <2>3. ClaimsStay'
    BY <1>0, <2>1, ClaimsKept DEF SignOnTypes
  <2>4. OneAnswer'
    BY <2>1, AnswersKept
  <2> QED BY <2>2, <2>3, <2>4 DEF SignOnInv
<1>5. ASSUME NEW c \in Requests, SSO!ACS(c) PROVE SignOnInv'
  <2>1. PICK m \in issued :
          /\ m.kind = "saml"
          /\ IF m.answers = Nil THEN SSO!Unsolicited ELSE SSO!consume(m.answers)
          /\ callback' = [callback EXCEPT ![c] = IF SSO!Valid(m) THEN [at |-> "prune", message |-> m] ELSE SSO!Idle]
    BY <1>5 DEF SSO!ACS
  <2>2. UNCHANGED <<clock, issued, signedIn, answered>> /\ callback[c].at = "idle"
    BY <1>5 DEF SSO!ACS
  <2>3. messageIds' \subseteq messageIds /\ \A row \in messageIds : row.kind = "request" \/ row \in messageIds'
    BY <2>1 DEF SSO!Unsolicited, SSO!consume
  <2>4. /\ DOMAIN callback' = Requests /\ \A d \in Requests \ {c} : callback'[d] = callback[d]
        /\ callback'[c].at \in {"prune", "claim"} => callback'[c].message = m
    BY <1>0, <2>1 DEF SignOnTypes, SSO!Idle
  <2>5. SignOnTypes' /\ IdsUnique' /\ MessagesIssued'
    BY <1>0, <2>2, <2>3, <2>4 DEF SignOnTypes, IdsUnique, MessagesIssued
  <2>6. ClaimsStay'
    BY <1>0, <2>2, <2>3, ClaimsKept DEF SignOnTypes
  <2>7. ASSUME NEW r \in SamlRequests
        PROVE  /\ answered'[r] <= 1
               /\ answered'[r] = 1 => ~Remembered(r)' /\ Answering(r)' = {}
               /\ Answering(r)' # {} => ~Remembered(r)'
               /\ \A d, e \in Answering(r)' : d = e
    <3>1. Remembered(r)' => Remembered(r)
      BY <2>3 DEF Remembered
    <3>2. Answering(r)' \subseteq Answering(r) \cup {c} /\ (c \in Answering(r)' => m.answers = r)
      BY <2>4 DEF Answering
    <3>3. CASE m.answers # r
      <4>1. Answering(r)' \subseteq Answering(r)
        BY <2>2, <3>2, <3>3 DEF Answering
      <4> QED BY <1>0, <2>2, <3>1, <4>1 DEF OneAnswer
    <3>4. CASE m.answers = r
      <4>1. SSO!consume(r)
        BY <2>1, <3>4 DEF SSO!SignOnConstants
      <4>2. Remembered(r) /\ ~Remembered(r)'
        BY <1>0, <4>1 DEF SSO!consume, Remembered, IdsUnique
      <4>3. answered[r] # 1 /\ Answering(r) = {} /\ answered[r] <= 1
        BY <1>0, <4>2 DEF OneAnswer
      <4> QED BY <2>2, <3>2, <4>2, <4>3
    <3> QED BY <3>3, <3>4
  <2> QED BY <2>5, <2>6, <2>7 DEF SignOnInv, OneAnswer
<1>6. ASSUME NEW c \in Requests, SSO!JWTCallback(c) PROVE SignOnInv'
  <2>1. PICK m \in issued : m.kind = "jwt" /\ callback' = [callback EXCEPT ![c] = [at |-> "prune", message |-> m]]
    BY <1>6 DEF SSO!JWTCallback
  <2>2. UNCHANGED <<clock, messageIds, issued, signedIn, answered>> /\ m.answers = Nil
    BY <1>0, <1>6, <2>1 DEF SSO!JWTCallback, MessagesIssued
  <2>3. /\ DOMAIN callback' = Requests /\ \A d \in Requests \ {c} : callback'[d] = callback[d]
        /\ callback'[c].message = m
    BY <1>0, <2>1 DEF SignOnTypes
  <2>4. SignOnTypes' /\ IdsUnique' /\ MessagesIssued'
    BY <1>0, <2>2, <2>3 DEF SignOnTypes, IdsUnique, MessagesIssued
  <2>5. ClaimsStay'
    BY <1>0, <2>2, ClaimsKept DEF SignOnTypes
  <2>6. \A r \in SamlRequests : Answering(r)' \subseteq Answering(r) /\ (Remembered(r)' <=> Remembered(r))
    BY <2>2, <2>3 DEF Answering, Remembered, SSO!SignOnConstants
  <2>7. OneAnswer'
    BY <1>0, <2>2, <2>6 DEF OneAnswer
  <2> QED BY <2>4, <2>5, <2>7 DEF SignOnInv
<1>7. ASSUME NEW c \in Requests, NEW b \in Browsers, SSO!OAuthCallback(c, b) PROVE SignOnInv'
  <2>1. PICK exchanged \in BOOLEAN :
          callback' = [callback EXCEPT ![c] = IF SSO!Unix(clock) < cookie[b] /\ exchanged THEN [SSO!Idle EXCEPT !.at = "resolve"] ELSE SSO!Idle]
    BY <1>7 DEF SSO!OAuthCallback
  <2>2. UNCHANGED <<clock, messageIds, issued, signedIn, answered>>
    BY <1>7 DEF SSO!OAuthCallback
  <2>3. DOMAIN callback' = Requests /\ (\A d \in Requests \ {c} : callback'[d] = callback[d]) /\ callback'[c].at \in {"resolve", "idle"}
    BY <1>0, <2>1 DEF SignOnTypes, SSO!Idle
  <2>4. SignOnTypes' /\ IdsUnique' /\ MessagesIssued'
    BY <1>0, <2>2, <2>3 DEF SignOnTypes, IdsUnique, MessagesIssued
  <2>5. ClaimsStay'
    BY <1>0, <2>2, ClaimsKept DEF SignOnTypes
  <2>6. OneAnswer'
    BY <2>2, <2>3, AnswersKept
  <2> QED BY <2>4, <2>5, <2>6 DEF SignOnInv
<1>8. ASSUME NEW c \in Requests, SSO!Prune(c) PROVE SignOnInv'
  <2>1. /\ callback[c].at = "prune" /\ callback' = [callback EXCEPT ![c].at = "claim"] /\ messageIds' = SSO!Pruned
        /\ UNCHANGED <<clock, issued, signedIn, answered>>
    BY <1>8 DEF SSO!Prune
  <2>2. messageIds' \subseteq messageIds /\ \A row \in messageIds : row.expires <= SSO!Unix(clock) \/ row \in messageIds'
    <3>1. \A row \in messageIds : row.expires \in Nat /\ SSO!Unix(clock) \in Nat
      BY <1>0, Seconds DEF SignOnTypes, SSO!Row
    <3> QED BY <2>1, <3>1 DEF SSO!Pruned
  <2>3. DOMAIN callback' = Requests /\ (\A d \in Requests \ {c} : callback'[d] = callback[d]) /\ callback'[c] = [callback[c] EXCEPT !.at = "claim"]
    BY <1>0, <2>1 DEF SignOnTypes
  <2>4. callback'[c].message = callback[c].message
    BY <2>3
  <2>5. SignOnTypes' /\ IdsUnique' /\ MessagesIssued'
    BY <1>0, <2>1, <2>2, <2>3, <2>4 DEF SignOnTypes, IdsUnique, MessagesIssued
  <2>6. ClaimsStay'
    BY <1>0, <2>1, <2>2, ClaimsKept DEF SignOnTypes
  <2>7. OneAnswer'
    BY <2>1, <2>2, <2>3, <2>4, AnswersKept
  <2> QED BY <2>5, <2>6, <2>7 DEF SignOnInv
<1>9. ASSUME NEW c \in Requests, SSO!claim(c) PROVE SignOnInv'
  <2> DEFINE m == callback[c].message
             free == \A r \in messageIds : ~(r.kind = m.kind /\ r.id = m.id)
  <2>1. /\ callback[c].at = "claim" /\ UNCHANGED <<clock, issued>>
        /\ callback' = [callback EXCEPT ![c] = IF free THEN [callback[c] EXCEPT !.at = "resolve"] ELSE SSO!Idle]
    BY <1>9 DEF SSO!claim
  <2>2. m \in issued /\ m \in SSO!Message
    BY <1>0, <2>1 DEF MessagesIssued, SignOnTypes
  <2>3. DOMAIN callback' = Requests /\ (\A d \in Requests \ {c} : callback'[d] = callback[d]) /\ callback'[c].at \in {"resolve", "idle"}
    <3>1. SSO!Idle.at = "idle" /\ (callback[c].at = "claim" => TRUE)
      BY DEF SSO!Idle
    <3>2. callback'[c] = IF free THEN [callback[c] EXCEPT !.at = "resolve"] ELSE SSO!Idle
      BY <1>0, <2>1 DEF SignOnTypes
    <3> QED BY <1>0, <2>1, <3>1, <3>2 DEF SignOnTypes
  <2>4. CASE ~free
    <3>1. UNCHANGED <<messageIds, signedIn, answered>>
      BY <1>9, <2>4 DEF SSO!claim
    <3>2. SignOnTypes' /\ IdsUnique' /\ MessagesIssued'
      BY <1>0, <2>1, <2>3, <3>1 DEF SignOnTypes, IdsUnique, MessagesIssued
    <3>3. ClaimsStay'
      BY <1>0, <2>1, <3>1, ClaimsKept DEF SignOnTypes
    <3>4. OneAnswer'
      BY <2>3, <3>1, AnswersKept
    <3> QED BY <3>2, <3>3, <3>4 DEF SignOnInv
  <2>5. CASE free
    <3>1. /\ messageIds' = messageIds \cup {SSO!ClaimedRow(m)} /\ signedIn' = [signedIn EXCEPT ![m.id] = @ + 1]
          /\ answered' = IF m.answers # Nil THEN [answered EXCEPT ![m.answers] = @ + 1] ELSE answered
      BY <1>9, <2>5 DEF SSO!claim
    <3>2. /\ SSO!ClaimedRow(m) \in SSO!Row /\ SSO!ClaimedRow(m).kind = m.kind /\ SSO!ClaimedRow(m).kind # "request" /\ SSO!ClaimedRow(m).id = m.id
          /\ m.id \in Messages /\ m.answers \in SamlRequests \cup {Nil}
      BY <2>2, ClaimedRows
    <3>3. SignOnTypes'
      BY <1>0, <2>1, <2>3, <3>1, <3>2 DEF SignOnTypes
    <3>4. IdsUnique' /\ MessagesIssued'
      BY <1>0, <2>1, <2>3, <2>5, <3>1, <3>2 DEF IdsUnique, MessagesIssued
    <3>5. ClaimsStay'
      <4> SUFFICES ASSUME NEW k \in Messages, signedIn'[k] > 0
                   PROVE  \E i \in issued' : i.id = k /\ (SSO!ClaimedRow(i) \in messageIds' \/ SSO!Unix(clock') >= SSO!ClaimedRow(i).expires)
        BY DEF ClaimsStay, SSO!ClaimedRow
      <4>1. CASE k = m.id
        BY <2>1, <2>2, <3>1, <4>1
      <4>2. CASE k # m.id
        <5>1. signedIn[k] > 0
          BY <1>0, <3>1, <4>2 DEF SignOnTypes
        <5> QED BY <1>0, <2>1, <3>1, <5>1 DEF ClaimsStay
      <4> QED BY <4>1, <4>2
    <3>6. ASSUME NEW r \in SamlRequests
          PROVE  /\ answered'[r] <= 1
                 /\ answered'[r] = 1 => ~Remembered(r)' /\ Answering(r)' = {}
                 /\ Answering(r)' # {} => ~Remembered(r)'
                 /\ \A d, e \in Answering(r)' : d = e
      <4>1. Remembered(r)' => Remembered(r)
        BY <3>1, <3>2 DEF Remembered
      <4>2. Answering(r)' \subseteq Answering(r) \ {c}
        BY <2>3 DEF Answering
      <4>3. CASE r # m.answers
        <5>1. answered'[r] = answered[r]
          BY <1>0, <3>1, <3>2, <4>3 DEF SignOnTypes
        <5> QED BY <1>0, <4>1, <4>2, <5>1 DEF OneAnswer
      <4>4. CASE r = m.answers
        <5>1. c \in Answering(r)
          BY <2>1, <4>4 DEF Answering
        <5>2. answered[r] = 0 /\ ~Remembered(r) /\ Answering(r) = {c}
          <6>1. answered[r] <= 1 /\ answered[r] \in Nat /\ answered[r] # 1
            BY <1>0, <5>1 DEF OneAnswer, SignOnTypes
          <6> QED BY <1>0, <5>1, <6>1 DEF OneAnswer
        <5>3. answered'[r] = 1
          <6>1. m.answers # Nil /\ answered \in [SamlRequests -> Nat]
            BY <1>0, <4>4 DEF SSO!SignOnConstants, SignOnTypes
          <6> QED BY <3>1, <4>4, <5>2, <6>1
        <5> QED BY <4>1, <4>2, <5>2, <5>3
      <4> QED BY <4>3, <4>4
    <3> QED BY <3>3, <3>4, <3>5, <3>6 DEF SignOnInv, OneAnswer
  <2> QED BY <2>4, <2>5
<1>10. ASSUME NEW c \in Requests, NEW e, NEW q, NEW create, NEW sync, SSO!signIn(c, e, q, create, sync) PROVE SignOnInv'
  <2>1. callback' = [callback EXCEPT ![c] = SSO!Idle] /\ UNCHANGED <<clock, messageIds, issued, signedIn, answered>>
    BY <1>10 DEF SSO!signIn
  <2>2. DOMAIN callback' = Requests /\ (\A d \in Requests \ {c} : callback'[d] = callback[d]) /\ callback'[c].at = "idle"
    BY <1>0, <2>1 DEF SignOnTypes, SSO!Idle
  <2>3. SignOnTypes' /\ IdsUnique' /\ MessagesIssued'
    BY <1>0, <2>1, <2>2 DEF SignOnTypes, IdsUnique, MessagesIssued
  <2>4. ClaimsStay'
    BY <1>0, <2>1, ClaimsKept DEF SignOnTypes
  <2>5. OneAnswer'
    BY <2>1, <2>2, AnswersKept
  <2> QED BY <2>3, <2>4, <2>5 DEF SignOnInv
<1> QED BY <1>2, <1>3, <1>4, <1>5, <1>6, <1>7, <1>8, <1>9, <1>10 DEF SSO!Next

\* What the settings, the cookies, the users and the callbacks may be.
SignOnTyped ==
  /\ clock \in 0..SignOnTime
  /\ settings \in [provider : SSO!Providers, secret : BOOLEAN]
  /\ users \in [Emails -> HostRoles \cup {Nil, "none"}]
  /\ cookie \in [Browsers -> 0..(SSO!Unix(SignOnTime) + TTL)]
  /\ \A c \in Requests : callback[c].at \in {"idle", "prune", "claim", "resolve"}

LEMMA TypedInit == ASSUME SSO!SignOnConstants, SSO!Init PROVE SignOnTyped
BY Seconds DEF SSO!SignOnConstants, SSO!Init, SignOnTyped, SSO!Providers, SSO!Idle

LEMMA TypedStep ==
  ASSUME SSO!SignOnConstants, SignOnInv, SignOnTyped, [SSO!Next]_SSO!vars
  PROVE  SignOnTyped'
<1>0. DOMAIN callback = Requests /\ SignOnTime \in Nat /\ TTL \in Nat
  BY DEF SignOnInv, SignOnTypes, SSO!SignOnConstants
<1> USE DEF SSO!Idle
<1>1. CASE UNCHANGED <<clock, settings, users, cookie, callback>>
  BY <1>1 DEF SignOnTyped
<1>2. CASE SSO!Tick
  BY <1>0, <1>2 DEF SSO!Tick, SignOnTyped
<1>3. CASE SSO!UpdateSettings
  <2>1. PICK p \in SSO!Providers, secret \in {"masked", "empty", "new"} :
          settings' = [provider |-> p, secret |-> IF secret = "masked" THEN settings.secret ELSE secret = "new"]
    BY <1>3 DEF SSO!UpdateSettings
  <2>2. settings.secret \in BOOLEAN /\ (secret = "new") \in BOOLEAN
    BY DEF SignOnTyped
  <2>3. (IF secret = "masked" THEN settings.secret ELSE secret = "new") \in BOOLEAN
    BY <2>2
  <2>4. settings' \in [provider : SSO!Providers, secret : BOOLEAN]
    BY <2>1, <2>3
  <2> QED BY <1>3, <2>4 DEF SSO!UpdateSettings, SignOnTyped
<1>4. ASSUME NEW b \in Browsers, SSO!Login(b) PROVE SignOnTyped'
  <2>1. CASE SSO!SAMLLoginURL
    BY <1>4, <2>1 DEF SSO!Login, SSO!SAMLLoginURL, SignOnTyped
  <2>2. CASE SSO!OAuthStart(b)
    <3>1. SSO!Unix(clock) + TTL \in 0..(SSO!Unix(SignOnTime) + TTL)
      BY <1>0, Seconds DEF SignOnTyped
    <3>2. cookie' \in [Browsers -> 0..(SSO!Unix(SignOnTime) + TTL)]
      BY <2>2, <3>1 DEF SSO!OAuthStart, SignOnTyped
    <3> QED BY <1>4, <3>2 DEF SSO!Login, SignOnTyped
  <2> QED BY <1>4, <2>1, <2>2 DEF SSO!Login
<1>5. ASSUME NEW b \in Browsers, NEW c \in Requests, SSO!OAuthCallback(c, b) PROVE SignOnTyped'
  <2>1. PICK exchanged \in BOOLEAN :
          callback' = [callback EXCEPT ![c] = IF SSO!Unix(clock) < cookie[b] /\ exchanged THEN [SSO!Idle EXCEPT !.at = "resolve"] ELSE SSO!Idle]
    BY <1>5 DEF SSO!OAuthCallback
  <2>2. \A d \in Requests : callback'[d].at \in {"idle", "prune", "claim", "resolve"}
    BY <1>0, <2>1 DEF SignOnTyped
  <2>3. 0 \in 0..(SSO!Unix(SignOnTime) + TTL)
    BY <1>0, Seconds
  <2>4. cookie' \in [Browsers -> 0..(SSO!Unix(SignOnTime) + TTL)]
    BY <1>5, <2>3 DEF SSO!OAuthCallback, SignOnTyped
  <2> QED BY <1>5, <2>2, <2>4 DEF SSO!OAuthCallback, SignOnTyped
<1>6. ASSUME NEW c \in Requests, SSO!ACS(c) PROVE SignOnTyped'
  <2>1. PICK m \in issued : callback' = [callback EXCEPT ![c] = IF SSO!Valid(m) THEN [at |-> "prune", message |-> m] ELSE SSO!Idle]
    BY <1>6 DEF SSO!ACS
  <2>2. \A d \in Requests : callback'[d].at \in {"idle", "prune", "claim", "resolve"}
    BY <1>0, <2>1 DEF SignOnTyped
  <2> QED BY <1>6, <2>2 DEF SSO!ACS, SignOnTyped
<1>7. ASSUME NEW c \in Requests, SSO!JWTCallback(c) PROVE SignOnTyped'
  <2>1. PICK m \in issued : callback' = [callback EXCEPT ![c] = [at |-> "prune", message |-> m]]
    BY <1>7 DEF SSO!JWTCallback
  <2>2. \A d \in Requests : callback'[d].at \in {"idle", "prune", "claim", "resolve"}
    BY <1>0, <2>1 DEF SignOnTyped
  <2> QED BY <1>7, <2>2 DEF SSO!JWTCallback, SignOnTyped
<1>8. ASSUME NEW c \in Requests, SSO!Prune(c) PROVE SignOnTyped'
  BY <1>0, <1>8 DEF SSO!Prune, SignOnTyped
<1>9. ASSUME NEW c \in Requests, SSO!claim(c) PROVE SignOnTyped'
  BY <1>0, <1>9 DEF SSO!claim, SignOnTyped
<1>10. ASSUME NEW c \in Requests, NEW e \in Emails, NEW r \in HostRoles \cup {Nil}, NEW create \in BOOLEAN,
              NEW sync \in BOOLEAN, SSO!signIn(c, e, r, create, sync)
       PROVE  SignOnTyped'
  BY <1>0, <1>10 DEF SSO!signIn, SignOnTyped
<1> QED BY <1>1, <1>2, <1>3, <1>4, <1>5, <1>6, <1>7, <1>8, <1>9, <1>10 DEF SSO!Next, SSO!Issue, SSO!vars

LEMMA SignOnPromise == ASSUME SignOnInv, SignOnTyped PROVE SSO!TypeOK /\ SSO!AnsweredOnce
BY DEF SignOnInv, SignOnTypes, SignOnTyped, IdsUnique, OneAnswer, SSO!TypeOK, SSO!AnsweredOnce

\* What is claimed again was claimed when its row still stood, which has gone:
\* its validity is over, or an assertion's is in its last second.
LEMMA ClaimedStep == ASSUME SSO!SignOnConstants, SignOnInv, [SSO!Next]_SSO!vars PROVE SSO!ClaimedOnce
<1> SUFFICES ASSUME NEW m \in Messages, signedIn'[m] > signedIn[m], signedIn[m] # 0
             PROVE  \E i \in issued : i.id = m /\ (SSO!Valid(i) => i.kind = "saml" /\ SSO!Unix(clock) = SSO!Unix(SSO!Until(i)) + Skew)
  BY DEF SSO!ClaimedOnce
<1>1. signedIn[m] \in Nat /\ signedIn \in [Messages -> Nat]
  BY DEF SignOnInv, SignOnTypes
<1>2. PICK c \in Requests : SSO!claim(c)
  <2>1. signedIn' # signedIn
    BY <1>1
  <2> QED BY <2>1 DEF SSO!vars, SSO!Next, SSO!Tick, SSO!UpdateSettings, SSO!Login, SSO!OAuthCallback, SSO!Issue, SSO!ACS, SSO!JWTCallback, SSO!Prune, SSO!signIn
<1>3. PICK i \in issued : i.id = m /\ (SSO!ClaimedRow(i) \in messageIds \/ SSO!Unix(clock) >= SSO!ClaimedRow(i).expires)
  BY <1>1 DEF SignOnInv, ClaimsStay
<1>4. callback[c].message \in issued /\ callback[c].message.id = m
  <2>1. callback[c].at = "claim"
    BY <1>2 DEF SSO!claim
  <2>2. callback[c].message.id = m
    BY <1>1, <1>2 DEF SSO!claim
  <2> QED BY <2>1, <2>2 DEF SignOnInv, MessagesIssued
<1>5. i = callback[c].message
  BY <1>3, <1>4 DEF SignOnInv, IdsUnique
<1>6. SSO!ClaimedRow(i) \notin messageIds
  BY <1>1, <1>2, <1>5 DEF SSO!claim, SSO!ClaimedRow
<1>7. i \in SSO!Message /\ clock \in Nat /\ Skew \in Nat
  BY DEF SignOnInv, SignOnTypes, SSO!SignOnConstants
<1>8. ASSUME SSO!Valid(i) PROVE i.kind = "saml" /\ SSO!Unix(clock) = SSO!Unix(SSO!Until(i)) + Skew
  <2> DEFINE u == SSO!Until(i)
  <2>1. i.until \in Nat /\ i.kind \in {"saml", "jwt"}
    BY <1>7 DEF SSO!Message, SSO!SignOnConstants
  <2>2. u \in Nat /\ (i.kind = "jwt" => u = 2 * SSO!Unix(u))
    BY <2>1 DEF SSO!Until, SSO!Unix
  <2>3. SSO!Unix(clock) >= SSO!Unix(u) + Skew
    BY <1>3, <1>6 DEF SSO!ClaimedRow
  <2>4. clock < u + 2 * Skew
    BY <1>8 DEF SSO!Valid
  <2> HIDE DEF u
  <2>5. SSO!Unix(clock) = SSO!Unix(u) + Skew
    BY <1>7, <2>2, <2>3, <2>4 DEF SSO!Unix
  <2>6. u # 2 * SSO!Unix(u)
    BY <1>7, <2>2, <2>3, <2>4 DEF SSO!Unix
  <2> QED BY <2>1, <2>2, <2>5, <2>6 DEF u
<1> QED BY <1>3, <1>8

\* One SAML request brings one sign-in at most, whatever responses answer it and
\* however its callbacks overlap (consume, claim).
THEOREM RequestsAnsweredOnce == SSO!Spec => []SSO!AnsweredOnce
<1>1. SignOnInv => SSO!AnsweredOnce
  BY DEF SignOnInv, OneAnswer, SSO!AnsweredOnce
<1> QED BY <1>1, AccessConstants, SignOnInit, SignOnStep, PTL DEF SSO!Spec

\* A message signs in once while it is valid, whatever is pruned meanwhile and
\* however many callbacks bring it, until the second an assertion's validity
\* ends in begins: its row goes then (claim, prune).
THEOREM MessagesClaimedOnce == SSO!Spec => [][SSO!ClaimedOnce]_SSO!vars
BY AccessConstants, SignOnInit, SignOnStep, ClaimedStep, PTL DEF SSO!Spec

-----------------------------------------------------------------------------
\* Roles and who has them (Roles).

\* What a worker has read and is about to write.  Who changes their own roles
\* saw one among those sent that manages roles.
JobSound(j) ==
  /\ j.at \in {"idle", "save", "destroy", "replace", "assign"}
  /\ j.at = "save" => j.perms \subseteq Perms /\ (j.id # Nil => j.id \in Ids)
  /\ j.at = "destroy" => j.id \in Ids
  /\ j.at = "replace" => j.user \in Users /\ j.ids \subseteq Ids /\ (j.own => j.saw # {} /\ j.saw \subseteq j.ids)
  /\ j.at = "assign" => j.user \in Users /\ j.id \in Ids

StaffTypes ==
  /\ role \in [Ids -> Staff!Row \cup {Staff!None}] /\ has \subseteq Users \X Ids
  /\ DOMAIN job = Requests /\ \A w \in Requests : JobSound(job[w])

\* No two roles share a slug; the system roles are all there, and they are the
\* roles with the system's slugs.
RoleTable ==
  /\ \A i, j \in Ids : role[i].slug = role[j].slug /\ role[i].slug # Nil => i = j
  /\ \A id \in Ids : role[id].system <=> role[id].slug \in System
  /\ \A slug \in System : \E id \in Ids : role[id].slug = slug

StaffInv ==
  /\ StaffTypes /\ RoleTable
  /\ \A p \in has : role[p[2]].slug # Nil
  /\ \A w \in Requests : job[w].at = "destroy" => ~role[job[w].id].system

LEMMA RoleOrNone ==
  ASSUME Staff!RolesConstants, StaffTypes, NEW id \in Ids
  PROVE  /\ Staff!Exists(id) <=> role[id].slug # Nil
         /\ Staff!Exists(id) => role[id] \in Staff!Row
         /\ ~Staff!Exists(id) => role[id] = Staff!None
<1>1. role[id] \in Staff!Row \cup {Staff!None}
  BY DEF StaffTypes
<1>2. CASE role[id] \in Staff!Row
  <2>1. role[id].slug \in Slugs /\ Staff!None.slug = Nil
    BY <1>2 DEF Staff!Row, Staff!None
  <2> QED BY <1>2, <2>1 DEF Staff!Exists, Staff!RolesConstants
<1>3. CASE role[id] = Staff!None
  BY <1>3 DEF Staff!Exists, Staff!None
<1> QED BY <1>1, <1>2, <1>3

\* One worker goes on with a sound job.
LEMMA JobsSound ==
  ASSUME StaffTypes, NEW w \in Requests, NEW v, JobSound(v), job' = [job EXCEPT ![w] = v]
  PROVE  /\ DOMAIN job' = Requests /\ \A x \in Requests : JobSound(job'[x])
         /\ job'[w] = v /\ \A x \in Requests \ {w} : job'[x] = job[x]
<1>1. job'[w] = v /\ \A x \in Requests \ {w} : job'[x] = job[x]
  BY DEF StaffTypes
<1>2. ASSUME NEW x \in Requests PROVE JobSound(job'[x])
  BY <1>1 DEF StaffTypes
<1>3. DOMAIN job' = Requests
  BY DEF StaffTypes
<1> QED BY <1>1, <1>2, <1>3

LEMMA IdleJob == JobSound(Staff!Idle) /\ Staff!Idle.at = "idle"
BY DEF JobSound, Staff!Idle

LEMMA StaffInit == ASSUME Staff!RolesConstants, Staff!Init PROVE StaffInv
<1>1. PICK at \in [System -> Ids] :
        /\ \A s, t \in System : s # t => at[s] # at[t]
        /\ role = [id \in Ids |-> IF \E s \in System : at[s] = id
                                 THEN [slug |-> CHOOSE s \in System : at[s] = id, system |-> TRUE, perms |-> Perms] ELSE Staff!None]
  BY DEF Staff!Init
<1>2. ASSUME NEW id \in Ids
      PROVE  /\ role[id] \in Staff!Row \cup {Staff!None}
             /\ role[id].slug # Nil => role[id].slug \in System /\ at[role[id].slug] = id /\ role[id].system
             /\ role[id].slug = Nil => ~role[id].system
             /\ \A s \in System : at[s] = id => role[id].slug = s
  <2>1. CASE \E s \in System : at[s] = id
    <3>1. PICK s \in System : at[s] = id /\ s = CHOOSE t \in System : at[t] = id
      BY <2>1
    <3>2. role[id] = [slug |-> s, system |-> TRUE, perms |-> Perms]
      BY <1>1, <2>1, <3>1
    <3>3. s \in Slugs /\ s # Nil
      BY DEF Staff!RolesConstants
    <3>4. role[id] \in Staff!Row
      BY <3>2, <3>3 DEF Staff!Row
    <3> QED BY <1>1, <3>1, <3>2, <3>3, <3>4
  <2>2. CASE ~\E s \in System : at[s] = id
    BY <1>1, <2>2 DEF Staff!None
  <2> QED BY <2>1, <2>2
<1>3. RoleTable
  <2>1. \A i, j \in Ids : role[i].slug = role[j].slug /\ role[i].slug # Nil => i = j
    BY <1>2
  <2>2. \A id \in Ids : role[id].system <=> role[id].slug \in System
    BY <1>2 DEF Staff!RolesConstants
  <2>3. \A slug \in System : \E id \in Ids : role[id].slug = slug
    BY <1>2
  <2> QED BY <2>1, <2>2, <2>3 DEF RoleTable
<1>4. role \in [Ids -> Staff!Row \cup {Staff!None}]
  BY <1>1, <1>2
<1>5. has = {} /\ job = [w \in Requests |-> Staff!Idle]
  BY DEF Staff!Init
<1> QED BY <1>3, <1>4, <1>5, IdleJob DEF StaffInv, StaffTypes

\* The rows keep their slugs and stay, or not, the system's.
LEMMA SameSlugs ==
  ASSUME StaffInv, \A id \in Ids : role'[id].slug = role[id].slug /\ role'[id].system = role[id].system
  PROVE  RoleTable'
BY DEF StaffInv, RoleTable

\* Seed() again gives the system's roles what they have.
LEMMA SeedKeeps ==
  ASSUME Staff!RolesConstants, StaffInv, Staff!Seed
  PROVE  /\ role' \in [Ids -> Staff!Row \cup {Staff!None}] /\ has' = has /\ job' = job
         /\ \A id \in Ids : role'[id].slug = role[id].slug /\ role'[id].system = role[id].system
<1>1. ASSUME NEW id \in Ids
      PROVE  /\ role'[id] \in Staff!Row \cup {Staff!None}
             /\ role'[id].slug = role[id].slug /\ role'[id].system = role[id].system
  <2>1. role'[id] = IF role[id].slug \in System THEN [role[id] EXCEPT !.system = TRUE, !.perms = Perms] ELSE role[id]
    BY DEF Staff!Seed
  <2>2. CASE role[id].slug \in System
    <3>1. role[id].slug # Nil /\ role[id].system
      BY <2>2 DEF Staff!RolesConstants, StaffInv, RoleTable
    <3>2. role[id] \in Staff!Row
      BY <3>1, RoleOrNone DEF StaffInv
    <3>3. role[id].system = TRUE
      BY <3>1, <3>2 DEF Staff!Row
    <3> QED BY <2>1, <2>2, <3>2, <3>3 DEF Staff!Row
  <2>3. CASE role[id].slug \notin System
    BY <2>1, <2>3 DEF StaffInv, StaffTypes
  <2> QED BY <2>2, <2>3
<1>2. role' = [id \in Ids |-> role'[id]] /\ has' = has /\ job' = job
  BY DEF Staff!Seed
<1> QED BY <1>1, <1>2

\* SaveRole(): a new role takes a slug no role has, which is not the system's.
LEMMA SaveKeeps ==
  ASSUME Staff!RolesConstants, StaffInv, NEW w \in Requests, Staff!SaveRole(w)
  PROVE  /\ role' \in [Ids -> Staff!Row \cup {Staff!None}] /\ has' = has /\ RoleTable'
         /\ job' = [job EXCEPT ![w] = Staff!Idle]
         /\ \A id \in Ids : /\ role'[id].system = role[id].system
                            /\ role[id].slug # Nil => role'[id].slug = role[id].slug
<1> DEFINE j == job[w]
<1>1. j.at = "save" /\ job' = [job EXCEPT ![w] = Staff!Idle] /\ has' = has /\ JobSound(j)
  BY DEF Staff!SaveRole, StaffInv, StaffTypes
<1>2. role \in [Ids -> Staff!Row \cup {Staff!None}]
  BY DEF StaffInv, StaffTypes
<1>3. ASSUME NEW id \in Ids \ Staff!Existing, NEW slug \in Slugs, Staff!uniqueSlug(slug),
             role' = [role EXCEPT ![id] = [slug |-> slug, system |-> FALSE, perms |-> j.perms]]
      PROVE  /\ role' \in [Ids -> Staff!Row \cup {Staff!None}] /\ RoleTable'
             /\ \A k \in Ids : /\ role'[k].system = role[k].system
                               /\ role[k].slug # Nil => role'[k].slug = role[k].slug
  <2> DEFINE new == [slug |-> slug, system |-> FALSE, perms |-> j.perms]
  <2>1. new \in Staff!Row /\ new.slug = slug /\ new.system = FALSE
    BY <1>1 DEF JobSound, Staff!Row
  <2>2. slug # Nil
    BY DEF Staff!RolesConstants
  <2>a. id \in Ids /\ ~Staff!Exists(id)
    BY DEF Staff!Existing
  <2>b. role[id] = Staff!None
    BY <2>a, RoleOrNone DEF StaffInv
  <2>3. id \in Ids /\ role[id].slug = Nil /\ role[id].system = FALSE
    BY <2>a, <2>b DEF Staff!None
  <2>4. \A k \in Ids : role[k].slug # slug
    <3> SUFFICES ASSUME NEW k \in Ids, role[k].slug = slug PROVE FALSE
      OBVIOUS
    <3>1. Staff!Exists(k)
      BY <2>2, RoleOrNone DEF StaffInv
    <3> QED BY <1>3, <3>1 DEF Staff!uniqueSlug, Staff!WithSlug, Staff!Existing
  <2>5. slug \notin System
    BY <2>4 DEF StaffInv, RoleTable
  <2> HIDE DEF new
  <2>6. role'[id] = new /\ (\A k \in Ids \ {id} : role'[k] = role[k]) /\ role' \in [Ids -> Staff!Row \cup {Staff!None}]
    BY <1>2, <1>3, <2>1 DEF new
  <2>7. \A i, k \in Ids : role'[i].slug = role'[k].slug /\ role'[i].slug # Nil => i = k
    BY <2>1, <2>4, <2>6 DEF StaffInv, RoleTable
  <2>8. \A k \in Ids : role'[k].system <=> role'[k].slug \in System
    BY <2>1, <2>5, <2>6 DEF StaffInv, RoleTable
  <2>9. \A s \in System : \E k \in Ids : role'[k].slug = s
    <3> SUFFICES ASSUME NEW s \in System PROVE \E k \in Ids : role'[k].slug = s
      OBVIOUS
    <3>1. PICK k \in Ids : role[k].slug = s
      BY DEF StaffInv, RoleTable
    <3>2. k # id
      BY <2>3, <3>1 DEF Staff!RolesConstants
    <3> QED BY <2>6, <3>1, <3>2
  <2>10. RoleTable'
    BY <2>7, <2>8, <2>9 DEF RoleTable
  <2> QED BY <2>1, <2>3, <2>6, <2>10
<1>4. CASE j.id # Nil /\ role' = IF Staff!Exists(j.id) THEN [role EXCEPT ![j.id].perms = j.perms] ELSE role
  <2>1. j.id \in Ids /\ j.perms \subseteq Perms
    BY <1>1, <1>4 DEF JobSound
  <2>2. CASE ~Staff!Exists(j.id)
    BY <1>1, <1>2, <1>4, <2>2, SameSlugs
  <2>3. CASE Staff!Exists(j.id)
    <3> DEFINE new == [role[j.id] EXCEPT !.perms = j.perms]
    <3>1. role[j.id] \in Staff!Row
      BY <2>1, <2>3, RoleOrNone DEF StaffInv
    <3>2. new \in Staff!Row /\ new.slug = role[j.id].slug /\ new.system = role[j.id].system
      BY <2>1, <3>1 DEF Staff!Row
    <3>3. role' = [role EXCEPT ![j.id] = new]
      BY <1>4, <2>3
    <3> HIDE DEF new
    <3>4. role' \in [Ids -> Staff!Row \cup {Staff!None}]
      BY <1>2, <2>1, <3>2, <3>3
    <3>5. \A id \in Ids : role'[id].slug = role[id].slug /\ role'[id].system = role[id].system
      BY <1>2, <2>1, <3>2, <3>3
    <3> QED BY <1>1, <3>4, <3>5, SameSlugs
  <2> QED BY <2>2, <2>3
<1>5. CASE UNCHANGED role
  BY <1>1, <1>2, <1>5, SameSlugs
<1> QED BY <1>1, <1>3, <1>4, <1>5 DEF Staff!SaveRole

\* DeleteRole(): no system's role, and nobody has the role any longer.
LEMMA DeleteKeeps ==
  ASSUME Staff!RolesConstants, StaffInv, NEW w \in Requests, Staff!DeleteRole(w)
  PROVE  /\ role' \in [Ids -> Staff!Row \cup {Staff!None}] /\ has' \subseteq has /\ RoleTable'
         /\ job' = [job EXCEPT ![w] = Staff!Idle]
         /\ \A id \in Ids : role'[id].system = role[id].system
         /\ \A p \in has' : role'[p[2]].slug # Nil
<1> DEFINE id == job[w].id
<1>1. /\ job[w].at = "destroy" /\ job' = [job EXCEPT ![w] = Staff!Idle]
      /\ role' = [role EXCEPT ![id] = Staff!None] /\ has' = {p \in has : p[2] # id}
  BY DEF Staff!DeleteRole
<1>2. id \in Ids /\ ~role[id].system
  BY <1>1 DEF StaffInv, StaffTypes, JobSound
<1>3. role[id].system = FALSE
  <2>1. role[id].system \in BOOLEAN
    <3>1. CASE role[id] \in Staff!Row
      BY <3>1 DEF Staff!Row
    <3>2. CASE role[id] = Staff!None
      BY <3>2 DEF Staff!None
    <3> QED BY <1>2, <3>1, <3>2 DEF StaffInv, StaffTypes
  <2> QED BY <1>2, <2>1
<1> HIDE DEF id
<1>4. /\ role'[id] = Staff!None /\ (\A k \in Ids \ {id} : role'[k] = role[k])
      /\ role' \in [Ids -> Staff!Row \cup {Staff!None}]
  BY <1>1, <1>2 DEF StaffInv, StaffTypes
<1>5. Staff!None.slug = Nil /\ Staff!None.system = FALSE /\ Nil \notin System
  BY DEF Staff!None, Staff!RolesConstants
<1>6. \A i, k \in Ids : role'[i].slug = role'[k].slug /\ role'[i].slug # Nil => i = k
  BY <1>4, <1>5 DEF StaffInv, RoleTable
<1>7. \A k \in Ids : role'[k].system <=> role'[k].slug \in System
  BY <1>4, <1>5 DEF StaffInv, RoleTable
<1>8. \A s \in System : \E k \in Ids : role'[k].slug = s
  <2> SUFFICES ASSUME NEW s \in System PROVE \E k \in Ids : role'[k].slug = s
    OBVIOUS
  <2>1. PICK k \in Ids : role[k].slug = s
    BY DEF StaffInv, RoleTable
  <2>2. role[k].system
    BY <2>1 DEF StaffInv, RoleTable
  <2> QED BY <1>2, <1>4, <2>1, <2>2
<1>9. RoleTable'
  BY <1>6, <1>7, <1>8 DEF RoleTable
<1>10. \A p \in has' : p[2] \in Ids /\ p[2] # id /\ role[p[2]].slug # Nil
  BY <1>1 DEF StaffInv, StaffTypes
<1> QED BY <1>1, <1>3, <1>4, <1>5, <1>9, <1>10

\* A worker reads, and nothing else changes.
LEMMA ReadKeeps ==
  ASSUME StaffInv, NEW w \in Requests, NEW v, JobSound(v), job' = [job EXCEPT ![w] = v],
         v.at = "destroy" => ~role[v.id].system, UNCHANGED <<role, has>>
  PROVE  StaffInv'
<1>1. /\ DOMAIN job' = Requests /\ \A x \in Requests : JobSound(job'[x])
      /\ job'[w] = v /\ \A x \in Requests \ {w} : job'[x] = job[x]
  BY JobsSound DEF StaffInv
<1>2. StaffTypes'
  BY <1>1 DEF StaffInv, StaffTypes
<1>3. RoleTable'
  BY DEF StaffInv, RoleTable
<1>4. \A x \in Requests : job'[x].at = "destroy" => ~role'[job'[x].id].system
  BY <1>1 DEF StaffInv
<1> QED BY <1>2, <1>3, <1>4 DEF StaffInv

\* A worker is done, whatever it wrote.
LEMMA DoneKeeps ==
  ASSUME StaffInv, NEW w \in Requests, job' = [job EXCEPT ![w] = Staff!Idle],
         role' \in [Ids -> Staff!Row \cup {Staff!None}], RoleTable', has' \subseteq Users \X Ids,
         \A id \in Ids : role'[id].system = role[id].system, \A p \in has' : role'[p[2]].slug # Nil
  PROVE  StaffInv'
<1>1. /\ DOMAIN job' = Requests /\ \A x \in Requests : JobSound(job'[x])
      /\ job'[w].at = "idle" /\ \A x \in Requests \ {w} : job'[x] = job[x]
  BY JobsSound, IdleJob DEF StaffInv
<1>2. StaffTypes'
  BY <1>1 DEF StaffTypes
<1>3. \A x \in Requests : job'[x].at = "destroy" => ~role'[job'[x].id].system
  <2> SUFFICES ASSUME NEW x \in Requests, job'[x].at = "destroy" PROVE ~role'[job'[x].id].system
    OBVIOUS
  <2>1. job'[x] = job[x] /\ job[x].id \in Ids
    BY <1>1 DEF StaffInv, StaffTypes, JobSound
  <2> QED BY <2>1 DEF StaffInv
<1> QED BY <1>2, <1>3 DEF StaffInv

LEMMA StaffStep == ASSUME Staff!RolesConstants, StaffInv, [Staff!Next]_Staff!vars PROVE StaffInv'
<1>0. StaffTypes /\ RoleTable /\ \A p \in has : role[p[2]].slug # Nil
  BY DEF StaffInv
<1>1. CASE Staff!Seed
  <2>1. /\ role' \in [Ids -> Staff!Row \cup {Staff!None}] /\ has' = has /\ job' = job
        /\ \A id \in Ids : role'[id].slug = role[id].slug /\ role'[id].system = role[id].system
    BY <1>1, SeedKeeps
  <2>2. RoleTable'
    BY <2>1, SameSlugs
  <2>3. StaffTypes'
    BY <1>0, <2>1 DEF StaffTypes
  <2>4. \A p \in has' : role'[p[2]].slug # Nil
    BY <1>0, <2>1 DEF StaffTypes
  <2>5. \A w \in Requests : job'[w].at = "destroy" => ~role'[job'[w].id].system
    BY <2>1 DEF StaffInv, StaffTypes, JobSound
  <2> QED BY <2>2, <2>3, <2>4, <2>5 DEF StaffInv
<1>2. ASSUME NEW w \in Requests, Staff!SaveRole(w) PROVE StaffInv'
  <2>1. /\ role' \in [Ids -> Staff!Row \cup {Staff!None}] /\ has' = has /\ RoleTable'
        /\ job' = [job EXCEPT ![w] = Staff!Idle]
        /\ \A id \in Ids : /\ role'[id].system = role[id].system
                           /\ role[id].slug # Nil => role'[id].slug = role[id].slug
    BY <1>2, SaveKeeps
  <2>2. has' \subseteq Users \X Ids /\ \A p \in has' : role'[p[2]].slug # Nil
    BY <1>0, <2>1 DEF StaffTypes
  <2> QED BY <2>1, <2>2, DoneKeeps
<1>3. ASSUME NEW w \in Requests, Staff!DeleteRole(w) PROVE StaffInv'
  <2>1. /\ role' \in [Ids -> Staff!Row \cup {Staff!None}] /\ has' \subseteq has /\ RoleTable'
        /\ job' = [job EXCEPT ![w] = Staff!Idle]
        /\ \A id \in Ids : role'[id].system = role[id].system
        /\ \A p \in has' : role'[p[2]].slug # Nil
    BY <1>3, DeleteKeeps
  <2>2. has' \subseteq Users \X Ids
    BY <1>0, <2>1 DEF StaffTypes
  <2> QED BY <2>1, <2>2, DoneKeeps
<1>4. ASSUME NEW w \in Requests, Staff!ReplaceUserRoles(w) PROVE StaffInv'
  <2> DEFINE j == job[w]
             others == {p \in has : p[1] # j.user}
             new == {<<j.user, id>> : id \in j.ids}
  <2>1. /\ j.at = "replace" /\ job' = [job EXCEPT ![w] = Staff!Idle] /\ UNCHANGED role
        /\ has' = IF j.ids \subseteq Staff!Existing THEN others \cup new ELSE has
    BY <1>4 DEF Staff!ReplaceUserRoles
  <2>2. j.user \in Users /\ j.ids \subseteq Ids
    BY <1>0, <2>1 DEF StaffTypes, JobSound
  <2>3. has' \subseteq Users \X Ids
    BY <1>0, <2>1, <2>2 DEF StaffTypes
  <2>4. \A p \in has' : role'[p[2]].slug # Nil
    <3>1. CASE j.ids \subseteq Staff!Existing
      <4>1. \A id \in j.ids : role[id].slug # Nil
        <5> SUFFICES ASSUME NEW id \in j.ids PROVE role[id].slug # Nil
          OBVIOUS
        <5>1. id \in Ids /\ Staff!Exists(id)
          BY <2>2, <3>1 DEF Staff!Existing
        <5> QED BY <1>0, <5>1, RoleOrNone
      <4> QED BY <1>0, <2>1, <3>1, <4>1
    <3>2. CASE ~(j.ids \subseteq Staff!Existing)
      BY <1>0, <2>1, <3>2
    <3> QED BY <3>1, <3>2
  <2> QED BY <1>0, <2>1, <2>3, <2>4, DoneKeeps DEF StaffTypes, RoleTable
<1>5. ASSUME NEW w \in Requests, Staff!Assigned(w) PROVE StaffInv'
  <2> DEFINE j == job[w]
             p == <<j.user, j.id>>
  <2>1. /\ j.at = "assign" /\ job' = [job EXCEPT ![w] = Staff!Idle] /\ UNCHANGED role
        /\ has' = IF Staff!Exists(j.id) THEN has \cup {p} ELSE has
    BY <1>5 DEF Staff!Assigned
  <2>2. j.user \in Users /\ j.id \in Ids
    BY <1>0, <2>1 DEF StaffTypes, JobSound
  <2>3. has' \subseteq Users \X Ids
    BY <1>0, <2>1, <2>2 DEF StaffTypes
  <2>4. \A q \in has' : role'[q[2]].slug # Nil
    <3>1. Staff!Exists(j.id) => role[j.id].slug # Nil
      BY <1>0, <2>2, RoleOrNone
    <3> QED BY <1>0, <2>1, <3>1
  <2> QED BY <1>0, <2>1, <2>3, <2>4, DoneKeeps DEF StaffTypes, RoleTable
<1>6. ASSUME NEW w \in Requests, NEW at \in {"save", "destroy"}, NEW id \in Ids \cup {Nil}, NEW perms \in SUBSET Perms,
             Staff!Find(w, at, id, perms), at = "destroy" => id \in Ids /\ ~role[id].system
      PROVE  StaffInv'
  <2> DEFINE v == [Staff!Idle EXCEPT !.at = at, !.id = id, !.perms = perms]
  <2>1. JobSound(v) /\ (v.at = "destroy" => ~role[v.id].system)
    BY <1>6 DEF JobSound, Staff!Idle
  <2>2. job' = [job EXCEPT ![w] = v] /\ UNCHANGED <<role, has>>
    BY <1>6 DEF Staff!Find
  <2> HIDE DEF v
  <2> QED BY <2>1, <2>2, ReadKeeps
<1>7. ASSUME NEW w \in Requests, NEW a \in Users, NEW u \in Users, NEW ids \in SUBSET Ids, Staff!UpdateUserRoles(w, a, u, ids)
      PROVE  StaffInv'
  <2> DEFINE saw == {id \in ids : Manage \in role[id].perms}
             v == [Staff!Idle EXCEPT !.at = "replace", !.user = u, !.ids = ids, !.own = (a = u), !.saw = saw]
  <2>1. job' = [job EXCEPT ![w] = v] /\ UNCHANGED <<role, has>> /\ (a = u => saw # {})
    BY <1>7 DEF Staff!UpdateUserRoles, Staff!KeepsOwn
  <2>2. v.at = "replace" /\ v.user = u /\ v.ids = ids /\ v.own = (a = u) /\ v.saw = saw
    BY DEF Staff!Idle
  <2>3. saw \subseteq ids
    OBVIOUS
  <2> HIDE DEF v, saw
  <2>4. JobSound(v)
    BY <2>1, <2>2, <2>3 DEF JobSound
  <2> QED BY <2>1, <2>2, <2>4, ReadKeeps
<1>8. ASSUME NEW w \in Requests, NEW u \in Users, NEW id \in Ids, Staff!SyncRole(w, u, id) PROVE StaffInv'
  <2> DEFINE v == [Staff!Idle EXCEPT !.at = "replace", !.user = u, !.ids = {id}]
  <2>1. JobSound(v) /\ v.at # "destroy"
    BY DEF JobSound, Staff!Idle
  <2>2. job' = [job EXCEPT ![w] = v] /\ UNCHANGED <<role, has>>
    BY <1>8 DEF Staff!SyncRole
  <2> HIDE DEF v
  <2> QED BY <2>1, <2>2, ReadKeeps
<1>9. ASSUME NEW w \in Requests, NEW u \in Users, NEW id \in Ids, Staff!Assign(w, u, id) PROVE StaffInv'
  <2> DEFINE v == [Staff!Idle EXCEPT !.at = "assign", !.user = u, !.id = id]
  <2>1. JobSound(v) /\ v.at # "destroy"
    BY DEF JobSound, Staff!Idle
  <2>2. job' = [job EXCEPT ![w] = v] /\ UNCHANGED <<role, has>>
    BY <1>9 DEF Staff!Assign
  <2> HIDE DEF v
  <2> QED BY <2>1, <2>2, ReadKeeps
<1>10. ASSUME NEW w \in Requests, NEW perms \in SUBSET Perms, Staff!Store(w, perms) PROVE StaffInv'
  BY <1>6, <1>10 DEF Staff!Store
<1>11. ASSUME NEW w \in Requests, NEW perms \in SUBSET Perms, NEW id \in Ids, Staff!Update(w, id, perms) PROVE StaffInv'
  BY <1>6, <1>11 DEF Staff!Update
<1>12. ASSUME NEW w \in Requests, NEW id \in Ids, Staff!Destroy(w, id) PROVE StaffInv'
  BY <1>6, <1>12 DEF Staff!Destroy
<1>13. CASE UNCHANGED Staff!vars
  BY <1>0, <1>13 DEF Staff!vars, StaffInv, StaffTypes, RoleTable
<1> QED
  BY <1>1, <1>2, <1>3, <1>4, <1>5, <1>7, <1>8, <1>9, <1>10, <1>11, <1>12, <1>13 DEF Staff!Next

LEMMA StaffPromise == ASSUME Staff!RolesConstants, StaffInv PROVE Staff!TypeOK /\ Staff!RolesHold
<1>1. Staff!TypeOK
  BY DEF StaffInv, StaffTypes, JobSound, Staff!TypeOK
<1>2. ASSUME NEW p \in has PROVE Staff!Exists(p[2])
  <2>1. p[2] \in Ids /\ role[p[2]].slug # Nil
    BY DEF StaffInv, StaffTypes
  <2> QED BY <2>1, RoleOrNone DEF StaffInv
<1>3. ASSUME NEW slug \in Slugs PROVE Staff!Cardinality(Staff!WithSlug(slug)) <= 1
  <2>0. \A S : Staff!Cardinality(S) = Cardinality(S)
    BY DEF Staff!Cardinality, Cardinality
  <2>1. \A i, j \in Staff!WithSlug(slug) : i = j
    BY DEF StaffInv, RoleTable, Staff!WithSlug, Staff!Existing, Staff!RolesConstants
  <2>2. CASE Staff!WithSlug(slug) = {}
    BY <2>0, <2>2, FS_EmptySet
  <2>3. CASE Staff!WithSlug(slug) # {}
    <3>1. PICK i : Staff!WithSlug(slug) = {i}
      BY <2>1, <2>3
    <3>2. Cardinality({i}) = 1
      BY FS_Singleton
    <3> QED BY <2>0, <3>1, <3>2
  <2> QED BY <2>2, <2>3
<1> QED BY <1>1, <1>2, <1>3 DEF Staff!RolesHold

\* Only the worker's own transaction ends its change of its roles, and it
\* writes what was sent.
LEMMA ManagementStep ==
  ASSUME Staff!RolesConstants, StaffInv, [Staff!Next]_Staff!vars
  PROVE  Staff!ManagementKept
<1>1. ASSUME NEW w \in Requests, job[w].at = "replace", job[w].own, job'[w].at = "idle", has' # has,
             job[w].saw = {} \/ \E id \in job[w].saw : Manage \in role[id].perms
      PROVE  \E id \in Ids : <<job[w].user, id>> \in has' /\ Manage \in role'[id].perms
  <2>1. job[w].ids \subseteq Ids /\ job[w].saw # {} /\ job[w].saw \subseteq job[w].ids
    BY <1>1 DEF StaffInv, StaffTypes, JobSound
  <2>2. PICK id \in job[w].saw : Manage \in role[id].perms
    BY <1>1, <2>1
  <2>3. ASSUME NEW x \in Requests, Staff!ReplaceUserRoles(x) PROVE x = w
    <3>1. job' = [job EXCEPT ![x] = Staff!Idle]
      BY <2>3 DEF Staff!ReplaceUserRoles
    <3>2. x # w => job'[w] = job[w]
      BY <3>1 DEF StaffInv, StaffTypes
    <3> QED BY <1>1, <3>2
  <2>4. Staff!ReplaceUserRoles(w)
    <3>1. ASSUME NEW x \in Requests, job[x].at # "replace", NEW v, job' = [job EXCEPT ![x] = v] PROVE FALSE
      BY <1>1, <3>1 DEF StaffInv, StaffTypes
    <3>2. ASSUME NEW x \in Requests, Staff!DeleteRole(x) PROVE FALSE
      BY <3>1, <3>2 DEF Staff!DeleteRole
    <3>3. ASSUME NEW x \in Requests, Staff!Assigned(x) PROVE FALSE
      BY <3>1, <3>3 DEF Staff!Assigned
    <3>4. has' # has
      BY <1>1
    <3>5. ~Staff!Seed /\ ~UNCHANGED Staff!vars
      BY <3>4 DEF Staff!Seed, Staff!vars
    <3>6. ASSUME NEW x \in Requests, Staff!SaveRole(x) PROVE FALSE
      BY <3>4, <3>6 DEF Staff!SaveRole
    <3>7. ASSUME NEW x \in Requests, NEW at, NEW i, NEW perms, Staff!Find(x, at, i, perms) PROVE FALSE
      BY <3>4, <3>7 DEF Staff!Find
    <3>8. ASSUME NEW x \in Requests, NEW perms \in SUBSET Perms,
                 Staff!Store(x, perms) \/ \E i \in Ids : Staff!Update(x, i, perms)
          PROVE  FALSE
      BY <3>7, <3>8 DEF Staff!Store, Staff!Update
    <3>9. ASSUME NEW x \in Requests, NEW i \in Ids,
                 Staff!Destroy(x, i) \/ \E u \in Users : Staff!Assign(x, u, i) \/ Staff!SyncRole(x, u, i)
          PROVE  FALSE
      BY <3>4, <3>7, <3>9 DEF Staff!Destroy, Staff!Assign, Staff!SyncRole
    <3>10. ASSUME NEW x \in Requests, NEW a \in Users, NEW u \in Users, NEW ids \in SUBSET Ids, Staff!UpdateUserRoles(x, a, u, ids)
           PROVE  FALSE
      BY <3>4, <3>10 DEF Staff!UpdateUserRoles
    <3> QED BY <2>3, <3>2, <3>3, <3>5, <3>6, <3>8, <3>9, <3>10 DEF Staff!Next
  <2>5. has' = {p \in has : p[1] # job[w].user} \cup {<<job[w].user, i>> : i \in job[w].ids} /\ role' = role
    BY <1>1, <2>4 DEF Staff!ReplaceUserRoles
  <2> QED BY <2>1, <2>2, <2>5
<1>2. ASSUME NEW id \in Ids, role[id].system PROVE role'[id].system
  <2>1. role[id].slug \in System
    BY <1>2 DEF StaffInv, RoleTable
  <2>2. ASSUME NEW w \in Requests, Staff!SaveRole(w) \/ Staff!DeleteRole(w) PROVE role'[id].system
    BY <1>2, <2>2, SaveKeeps, DeleteKeeps
  <2>3. Staff!Seed => role'[id].system
    BY <1>2, SeedKeeps
  <2>4. role' = role => role'[id].system
    BY <1>2
  <2>5. ASSUME NEW x \in Requests, NEW at, NEW i, NEW perms, Staff!Find(x, at, i, perms) PROVE role' = role
    BY <2>5 DEF Staff!Find
  <2>6. ASSUME NEW x \in Requests, NEW perms \in SUBSET Perms,
               Staff!Store(x, perms) \/ \E i \in Ids : Staff!Update(x, i, perms)
        PROVE  role' = role
    BY <2>5, <2>6 DEF Staff!Store, Staff!Update
  <2>7. ASSUME NEW x \in Requests, NEW i \in Ids,
               Staff!Destroy(x, i) \/ \E u \in Users : Staff!Assign(x, u, i) \/ Staff!SyncRole(x, u, i)
        PROVE  role' = role
    BY <2>5, <2>7 DEF Staff!Destroy, Staff!Assign, Staff!SyncRole
  <2>8. ASSUME NEW x \in Requests, NEW a \in Users, NEW u \in Users, NEW ids \in SUBSET Ids, Staff!UpdateUserRoles(x, a, u, ids)
        PROVE  role' = role
    BY <2>8 DEF Staff!UpdateUserRoles
  <2>9. ASSUME NEW x \in Requests, Staff!ReplaceUserRoles(x) \/ Staff!Assigned(x) PROVE role' = role
    BY <2>9 DEF Staff!ReplaceUserRoles, Staff!Assigned
  <2>10. UNCHANGED Staff!vars => role' = role
    BY DEF Staff!vars
  <2> QED BY <2>2, <2>3, <2>4, <2>6, <2>7, <2>8, <2>9, <2>10 DEF Staff!Next
<1> QED BY <1>1, <1>2 DEF Staff!ManagementKept

\* Whatever is deleted while a change is under way, nobody has a role that does
\* not exist and no slug is given twice (SaveRole, DeleteRole, ReplaceUserRoles).
THEOREM RolesStayWhole == Staff!Spec => [](Staff!TypeOK /\ Staff!RolesHold)
BY AccessConstants, StaffInit, StaffStep, StaffPromise, PTL DEF Staff!Spec

\* Nobody loses the roles that manage roles by their own hand, and no role of
\* the system is deleted (UpdateUserRoles, Destroy).
THEOREM ManagementStays == Staff!Spec => [][Staff!ManagementKept]_Staff!vars
BY AccessConstants, StaffInit, StaffStep, ManagementStep, PTL DEF Staff!Spec

-----------------------------------------------------------------------------
\* The scopes of agents (TicketScope).

LEMMA ParentsAre ==
  /\ Scope!parents["tickets"] = {} /\ Scope!parents["replies"] = {<<"ticket_id", "tickets">>}
  /\ Scope!parents["attachments"] = {<<"ticket_id", "tickets">>, <<"reply_id", "replies">>}
  /\ Scope!parents["ticket_links"] = {<<"parent_ticket_id", "tickets">>, <<"child_ticket_id", "tickets">>}
  /\ Scope!parents["chat_sessions"] = {<<"ticket_id", "tickets">>}
  /\ Scope!parents["chat_messages"] = {<<"chat_session_id", "chat_sessions">>}
BY DEF Scope!parents

\* Nothing hangs deeper than two steps below a ticket, or from its own table.
LEMMA TwoLevels ==
  ASSUME NEW t \in Scope!Tables, NEW p \in Scope!parents[t]
  PROVE  /\ p[2] \in Scope!Tables /\ p[2] # t /\ t # "tickets"
         /\ \A q \in Scope!parents[p[2]] : q[2] = "tickets" /\ q[2] # t
<1>1. CASE t = "tickets"
  BY <1>1, ParentsAre
<1>2. CASE t = "replies"
  BY <1>2, ParentsAre DEF Scope!Tables
<1>3. CASE t = "attachments"
  BY <1>3, ParentsAre DEF Scope!Tables
<1>4. CASE t = "ticket_links"
  BY <1>4, ParentsAre DEF Scope!Tables
<1>5. CASE t = "chat_sessions"
  BY <1>5, ParentsAre DEF Scope!Tables
<1>6. CASE t = "chat_messages"
  BY <1>6, ParentsAre DEF Scope!Tables
<1> QED BY <1>1, <1>2, <1>3, <1>4, <1>5, <1>6 DEF Scope!Tables

-----------------------------------------------------------------------------
\* The rows of a table that are seen where visible are the parents seen.
Seen(actor, mem, d, t, visible) ==
  IF ~Scope!Restricted(actor) THEN DOMAIN d[t]
  ELSE IF t = "tickets" THEN {i \in DOMAIN d[t] : Scope!ticketPredicate(actor, mem, d[t][i])}
  ELSE {i \in DOMAIN d[t] : Scope!relationPredicate(t, d[t][i], [u \in {p[2] : p \in Scope!parents[t]} |-> visible[u]])}

LEMMA ProjectionChosen ==
  ASSUME NEW actor, NEW mem, NEW d
  PROVE  Scope!projection(actor, mem, d) = CHOOSE v : v = [t \in Scope!Tables |-> Seen(actor, mem, d, t, v)]
BY Zenon DEF Scope!projection, Seen

LEMMA SeenSame ==
  ASSUME NEW actor, NEW mem, NEW d, NEW t, NEW v, NEW w, \A p \in Scope!parents[t] : v[p[2]] = w[p[2]]
  PROVE  Seen(actor, mem, d, t, v) = Seen(actor, mem, d, t, w)
<1>1. [u \in {p[2] : p \in Scope!parents[t]} |-> v[u]] = [u \in {p[2] : p \in Scope!parents[t]} |-> w[u]]
  OBVIOUS
<1> QED BY <1>1 DEF Seen

\* The recursion ends: three rounds from anything are one that repeats itself.
LEMMA ProjectionEquation ==
  ASSUME NEW actor, NEW mem, NEW d
  PROVE  Scope!projection(actor, mem, d) = [t \in Scope!Tables |-> Seen(actor, mem, d, t, Scope!projection(actor, mem, d))]
<1> DEFINE round(v) == [t \in Scope!Tables |-> Seen(actor, mem, d, t, v)]
           one == round([t \in Scope!Tables |-> {}])
           two == round(one)
           three == round(two)
<1>1. one["tickets"] = two["tickets"] /\ two["tickets"] = three["tickets"]
  <2>1. "tickets" \in Scope!Tables
    BY DEF Scope!Tables
  <2> QED BY <2>1, SeenSame, ParentsAre
<1>2. ASSUME NEW t \in Scope!Tables, \A p \in Scope!parents[t] : p[2] = "tickets" PROVE two[t] = three[t]
  <2>1. Seen(actor, mem, d, t, one) = Seen(actor, mem, d, t, two)
    <3> HIDE DEF one, two
    <3> QED BY <1>1, <1>2, SeenSame
  <2> QED BY <2>1
<1>3. ASSUME NEW t \in Scope!Tables PROVE Seen(actor, mem, d, t, two) = Seen(actor, mem, d, t, three)
  <2>1. ASSUME NEW p \in Scope!parents[t] PROVE two[p[2]] = three[p[2]]
    <3> HIDE DEF two, three
    <3>1. p[2] \in Scope!Tables /\ \A q \in Scope!parents[p[2]] : q[2] = "tickets"
      BY TwoLevels
    <3> QED BY <1>2, <3>1
  <2> HIDE DEF two, three
  <2> QED BY <2>1, SeenSame
<1>4. three = round(three)
  BY <1>3
<1> HIDE DEF three
<1> QED BY <1>4, ProjectionChosen, Zenon

LEMMA ProjectionIs ==
  ASSUME NEW actor, NEW mem, NEW d, NEW t \in Scope!Tables
  PROVE  Scope!projection(actor, mem, d)[t] =
           {i \in DOMAIN d[t] : Scope!Restricted(actor) =>
              /\ t = "tickets" => Scope!ticketPredicate(actor, mem, d[t][i])
              /\ Scope!relationPredicate(t, d[t][i], Scope!projection(actor, mem, d))}
<1> DEFINE v == Scope!projection(actor, mem, d)
           up == [u \in {p[2] : p \in Scope!parents[t]} |-> v[u]]
<1>1. v[t] = Seen(actor, mem, d, t, v)
  BY ProjectionEquation
<1>2. \A c : Scope!relationPredicate(t, c, up) <=> Scope!relationPredicate(t, c, v)
  BY DEF Scope!relationPredicate
<1>3. t = "tickets" => \A c : Scope!relationPredicate(t, c, v)
  BY ParentsAre DEF Scope!relationPredicate
<1> HIDE DEF v
<1>4. Seen(actor, mem, d, t, v) = IF ~Scope!Restricted(actor) THEN DOMAIN d[t]
         ELSE IF t = "tickets" THEN {i \in DOMAIN d[t] : Scope!ticketPredicate(actor, mem, d[t][i])}
         ELSE {i \in DOMAIN d[t] : Scope!relationPredicate(t, d[t][i], up)}
  BY Zenon DEF Seen
<1> QED BY <1>1, <1>2, <1>3, <1>4 DEF v
-----------------------------------------------------------------------------
\* The tables give no row the id that stands for none.
Keyed(d) == \A t \in Scope!Tables : Scope!NoId \notin DOMAIN d[t]

\* The parents a row names and finds.
Found(d, t, i) == {p \in Scope!parents[t] : d[t][i][p[1]] \in DOMAIN d[p[2]]}

LEMMA AboveIs ==
  ASSUME NEW d, NEW t, NEW i
  PROVE  \A b : b \in Scope!Above(d, <<t, i>>) <=> \E p \in Found(d, t, i) : b = <<p[2], d[t][i][p[1]]>>
BY DEF Scope!Above, Found

LEMMA LineageIs ==
  ASSUME NEW d, NEW t \in Scope!Tables, NEW i
  PROVE  \A b : b \in Scope!Lineage(d, t, i) <=>
                  b = <<t, i>> \/ \E p \in Found(d, t, i) : b \in Scope!Lineage(d, p[2], d[t][i][p[1]])
<1>1. ASSUME NEW p \in Found(d, t, i), NEW a \in Scope!Above(d, <<p[2], d[t][i][p[1]]>>)
      PROVE  Scope!Above(d, a) = {}
  <2>1. p \in Scope!parents[t]
    BY DEF Found
  <2> DEFINE j == d[t][i][p[1]]
  <2>a. a \in Scope!Above(d, <<p[2], j>>)
    BY <1>1
  <2> HIDE DEF j
  <2>b. PICK q \in Found(d, p[2], j) : a = <<q[2], d[p[2]][j][q[1]]>>
    BY <2>a, AboveIs
  <2>2. q \in Scope!parents[p[2]] /\ a[1] = q[2]
    BY <2>b DEF Found
  <2>3. a[1] = "tickets"
    BY <2>1, <2>2, TwoLevels
  <2> QED BY <2>3, ParentsAre DEF Scope!Above
<1> TAKE b
<1> DEFINE of(p) == <<p[2], d[t][i][p[1]]>>
<1>2. ASSUME NEW p \in Found(d, t, i)
      PROVE  b \in Scope!Lineage(d, p[2], d[t][i][p[1]]) <=> b = of(p) \/ b \in Scope!Above(d, of(p))
  BY <1>1, <1>2 DEF Scope!Lineage
<1>3. b \in Scope!Lineage(d, t, i) <=> b = <<t, i>> \/ \E p \in Found(d, t, i) : b = of(p) \/ b \in Scope!Above(d, of(p))
  <2>1. \A a : a \in Scope!Above(d, <<t, i>>) <=> \E p \in Found(d, t, i) : a = of(p)
    BY AboveIs
  <2> HIDE DEF of
  <2> QED BY <2>1 DEF Scope!Lineage
<1> QED BY <1>2, <1>3

\* A row is in scope where it is a ticket in scope, or all its parents are.
LEMMA ScopeStep ==
  ASSUME NEW actor, NEW mem, NEW d, NEW t \in Scope!Tables, NEW i, Scope!Restricted(actor), Keyed(d)
  PROVE  Scope!InScope(actor, mem, d, t, i) <=>
           /\ t = "tickets" => Scope!ticketPredicate(actor, mem, d["tickets"][i])
           /\ \A p \in Scope!parents[t] :
                \/ d[t][i][p[1]] \in DOMAIN d[p[2]] /\ Scope!InScope(actor, mem, d, p[2], d[t][i][p[1]])
                \/ Scope!Nullable(t, p[1]) /\ d[t][i][p[1]] = Scope!NoId
<1> DEFINE ok(a) == /\ Scope!Hangs(d, a[1], d[a[1]][a[2]])
                    /\ a[1] = "tickets" => Scope!ticketPredicate(actor, mem, d["tickets"][a[2]])
           c == d[t][i]
<1>1. \A u, j : Scope!InScope(actor, mem, d, u, j) <=> \A a \in Scope!Lineage(d, u, j) : ok(a)
  BY DEF Scope!InScope
<1>2. ok(<<t, i>>) <=> Scope!Hangs(d, t, c) /\ (t = "tickets" => Scope!ticketPredicate(actor, mem, d["tickets"][i]))
  OBVIOUS
<1> HIDE DEF ok
<1>3. Scope!InScope(actor, mem, d, t, i) <=> ok(<<t, i>>) /\ \A p \in Found(d, t, i) : Scope!InScope(actor, mem, d, p[2], c[p[1]])
  BY <1>1, LineageIs
<1>4. \A p \in Scope!parents[t] : p[2] \in Scope!Tables
  BY TwoLevels
<1> QED BY <1>2, <1>3, <1>4 DEF Scope!Hangs, Found, Keyed

\* What is read is what is in scope, in any tables that give no id twice.
LEMMA Reads ==
  ASSUME NEW actor, NEW mem, NEW d, Keyed(d)
  PROVE  \A t \in Scope!Tables : \A i \in DOMAIN d[t] :
            i \in Scope!projection(actor, mem, d)[t] <=> Scope!InScope(actor, mem, d, t, i)
<1> DEFINE agree(t) == \A i \in DOMAIN d[t] : i \in Scope!projection(actor, mem, d)[t] <=> Scope!InScope(actor, mem, d, t, i)
           v == Scope!projection(actor, mem, d)
<1>1. CASE ~Scope!Restricted(actor)
  BY <1>1, ProjectionIs DEF Scope!InScope
<1>2. CASE Scope!Restricted(actor)
  <2>1. ASSUME NEW t \in Scope!Tables, \A p \in Scope!parents[t] : agree(p[2]) PROVE agree(t)
    <3> SUFFICES ASSUME NEW i \in DOMAIN d[t] PROVE i \in v[t] <=> Scope!InScope(actor, mem, d, t, i)
      OBVIOUS
    <3>1. \A p \in Scope!parents[t] : p[2] \in Scope!Tables
      BY TwoLevels
    <3>2. \A u \in Scope!Tables : v[u] \subseteq DOMAIN d[u]
      BY ProjectionIs
    <3>3. i \in v[t] <=> (t = "tickets" => Scope!ticketPredicate(actor, mem, d[t][i])) /\ Scope!relationPredicate(t, d[t][i], v)
      BY <1>2, ProjectionIs
    <3> HIDE DEF v
    <3>4. Scope!relationPredicate(t, d[t][i], v) <=>
            \A p \in Scope!parents[t] : \/ d[t][i][p[1]] \in DOMAIN d[p[2]] /\ Scope!InScope(actor, mem, d, p[2], d[t][i][p[1]])
                                        \/ Scope!Nullable(t, p[1]) /\ d[t][i][p[1]] = Scope!NoId
      BY <2>1, <3>1, <3>2 DEF Scope!relationPredicate, v
    <3>5. Scope!InScope(actor, mem, d, t, i) <=>
            /\ t = "tickets" => Scope!ticketPredicate(actor, mem, d["tickets"][i])
            /\ \A p \in Scope!parents[t] :
                 \/ d[t][i][p[1]] \in DOMAIN d[p[2]] /\ Scope!InScope(actor, mem, d, p[2], d[t][i][p[1]])
                 \/ Scope!Nullable(t, p[1]) /\ d[t][i][p[1]] = Scope!NoId
      BY <1>2, ScopeStep
    <3>6. t = "tickets" => d[t][i] = d["tickets"][i]
      OBVIOUS
    <3>7. Scope!relationPredicate(t, d[t][i], v) /\ (t = "tickets" => Scope!ticketPredicate(actor, mem, d["tickets"][i])) <=> Scope!InScope(actor, mem, d, t, i)
      BY <3>4, <3>5
    <3> QED BY <3>3, <3>6, <3>7
  <2> HIDE DEF agree
  <2>2. agree("tickets")
    BY <2>1, ParentsAre DEF Scope!Tables
  <2>3. ASSUME NEW t \in Scope!Tables, \A p \in Scope!parents[t] : p[2] = "tickets" PROVE agree(t)
    BY <2>1, <2>2, <2>3
  <2>4. ASSUME NEW t \in Scope!Tables PROVE agree(t)
    <3>1. \A p \in Scope!parents[t] : agree(p[2])
      BY <2>3, TwoLevels
    <3> QED BY <3>1, <2>1
  <2> QED BY <2>4 DEF agree
<1> QED BY <1>1, <1>2
-----------------------------------------------------------------------------
\* Tables whose rows have the columns, and the ids, of their table.
Tabled(d) ==
  /\ d = [t \in Scope!Tables |-> d[t]]
  /\ \A t \in Scope!Tables : d[t] \in [DOMAIN d[t] -> Scope!Rows(t)] /\ DOMAIN d[t] \subseteq RowIds[t]

\* Parents that are named were there at some time, given the ids drawn.
NamesDrawn(c, t, dr) == \A p \in Scope!parents[t] : p[1] \in DOMAIN c => c[p[1]] \in dr[p[2]] \/ (Scope!Nullable(t, p[1]) /\ c[p[1]] = Scope!NoId)
AllDrawn(d, dr) == \A t \in Scope!Tables : DOMAIN d[t] \subseteq dr[t] /\ \A i \in DOMAIN d[t] : NamesDrawn(d[t][i], t, dr)

LEMMA TabledKeyed == ASSUME Scope!ScopeConstants, NEW d, Tabled(d) PROVE Keyed(d)
BY DEF Scope!ScopeConstants, Tabled, Keyed

LEMMA StatementIs ==
  ASSUME NEW s \in Scope!Statements
  PROVE  /\ s.table \in Scope!Tables /\ s.kind \in {"insert", "update", "delete"}
         /\ s.kind = "insert" => s.columns \in Scope!Rows(s.table)
         /\ s.kind = "update" => s.columns \in Scope!Changes(s.table)
         /\ s.kind = "delete" => s.columns = Scope!NoColumns
<1>1. CASE s = Scope!Nothing
  BY <1>1 DEF Scope!Nothing, Scope!Statement, Scope!Tables
<1>2. ASSUME NEW t \in Scope!Tables,
             s \in {Scope!Statement("insert", t, {}, c) : c \in Scope!Rows(t)}
                     \cup {Scope!Statement("update", t, ids, c) : ids \in Picks[t], c \in Scope!Changes(t)}
                     \cup {Scope!Statement("delete", t, ids, Scope!NoColumns) : ids \in Picks[t]}
      PROVE  /\ s.table = t /\ s.kind \in {"insert", "update", "delete"}
             /\ s.kind = "insert" => s.columns \in Scope!Rows(s.table)
             /\ s.kind = "update" => s.columns \in Scope!Changes(s.table)
             /\ s.kind = "delete" => s.columns = Scope!NoColumns
  <2>1. CASE s \in {Scope!Statement("insert", t, {}, c) : c \in Scope!Rows(t)}
    BY <2>1 DEF Scope!Statement
  <2>2. CASE s \in {Scope!Statement("update", t, ids, c) : ids \in Picks[t], c \in Scope!Changes(t)}
    BY <2>2 DEF Scope!Statement
  <2>3. CASE s \in {Scope!Statement("delete", t, ids, Scope!NoColumns) : ids \in Picks[t]}
    BY <2>3 DEF Scope!Statement
  <2> QED BY <1>2, <2>1, <2>2, <2>3
<1> QED BY <1>1, <1>2 DEF Scope!Statements

LEMMA NothingIs == Scope!Nothing \in Scope!Statements
BY DEF Scope!Statements

LEMMA ColumnsIn == ASSUME NEW t \in Scope!Tables PROVE \A p \in Scope!parents[t] : p[1] \in Scope!Columns(t)
BY DEF Scope!Columns

\* A row that is changed keeps the shape of its table.
LEMMA ChangedRow ==
  ASSUME Scope!ScopeConstants, NEW t \in Scope!Tables, NEW row \in Scope!Rows(t), NEW c \in Scope!Changes(t)
  PROVE  /\ Scope!SetColumns(row, c) \in Scope!Rows(t)
         /\ \A dr : NamesDrawn(row, t, dr) /\ NamesDrawn(c, t, dr) => NamesDrawn(Scope!SetColumns(row, c), t, dr)
<1>1. \A dr : NamesDrawn(row, t, dr) /\ NamesDrawn(c, t, dr) => NamesDrawn(Scope!SetColumns(row, c), t, dr)
  BY DEF NamesDrawn, Scope!SetColumns
<1>2. CASE t = "tickets"
  <2>1. row \in Filings /\ c \in Filings
    BY <1>2 DEF Scope!Rows, Scope!Changes
  <2>2. DOMAIN row = {"department", "account", "requester"} /\ DOMAIN c = {"department", "account", "requester"}
    BY <2>1 DEF Scope!ScopeConstants
  <2>3. c = [k \in {"department", "account", "requester"} |-> c[k]]
    BY <2>1 DEF Scope!ScopeConstants
  <2>4. Scope!SetColumns(row, c) = c
    BY <2>2, <2>3 DEF Scope!SetColumns
  <2> QED BY <1>1, <1>2, <2>1, <2>4 DEF Scope!Rows
<1>3. CASE t # "tickets"
  <2>1. row \in Scope!Naming(t, Scope!Columns(t))
    BY <1>3 DEF Scope!Rows
  <2>2. PICK S \in SUBSET Scope!Columns(t) : c \in Scope!Naming(t, S)
    BY <1>3 DEF Scope!Changes
  <2>3. Scope!SetColumns(row, c) \in Scope!Naming(t, Scope!Columns(t))
    BY <2>1, <2>2, ColumnsIn DEF Scope!Naming, Scope!SetColumns
  <2> QED BY <1>1, <1>3, <2>3 DEF Scope!Rows
<1> QED BY <1>2, <1>3

\* An attachment that loses its reply is one of its ticket.
LEMMA UnhungRow ==
  ASSUME NEW t \in Scope!Tables, NEW row \in Scope!Rows(t), NEW replies
  PROVE  /\ Scope!Unhung(t, row, replies) \in Scope!Rows(t)
         /\ \A dr : NamesDrawn(row, t, dr) => NamesDrawn(Scope!Unhung(t, row, replies), t, dr)
<1>1. CASE Scope!Unhung(t, row, replies) = row
  BY <1>1
<1>2. CASE t = "attachments" /\ Scope!Unhung(t, row, replies) = [row EXCEPT !["reply_id"] = Scope!NoId]
  <2>1. row \in Scope!Naming(t, Scope!Columns(t))
    BY <1>2 DEF Scope!Rows
  <2>2. [row EXCEPT !["reply_id"] = Scope!NoId] \in Scope!Naming(t, Scope!Columns(t))
    BY <2>1, <1>2, ParentsAre, ColumnsIn DEF Scope!Naming, Scope!Nullable
  <2>3. \A dr : NamesDrawn(row, t, dr) => NamesDrawn([row EXCEPT !["reply_id"] = Scope!NoId], t, dr)
    BY <2>1, <1>2, ParentsAre DEF Scope!Naming, NamesDrawn, Scope!Nullable
  <2> QED BY <1>2, <2>2, <2>3 DEF Scope!Rows
<1> QED BY <1>1, <1>2 DEF Scope!Unhung

LEMMA InsertedIs ==
  ASSUME NEW d, Tabled(d), NEW t \in Scope!Tables, NEW id \in RowIds[t], NEW c \in Scope!Rows(t)
  PROVE  /\ Tabled(Scope!Inserted(d, t, id, c))
         /\ \A u \in Scope!Tables : u # t => Scope!Inserted(d, t, id, c)[u] = d[u]
         /\ DOMAIN Scope!Inserted(d, t, id, c)[t] = DOMAIN d[t] \cup {id}
         /\ \A i \in DOMAIN d[t] \cup {id} : Scope!Inserted(d, t, id, c)[t][i] = IF i = id THEN c ELSE d[t][i]
<1> DEFINE e == Scope!Inserted(d, t, id, c)
           rows == [i \in DOMAIN d[t] \cup {id} |-> IF i = id THEN c ELSE d[t][i]]
<1>1. e = [u \in Scope!Tables |-> IF u = t THEN rows ELSE d[u]]
  BY DEF Scope!Inserted, Tabled
<1>2. rows \in [DOMAIN rows -> Scope!Rows(t)] /\ DOMAIN rows \subseteq RowIds[t]
  BY DEF Tabled
<1> HIDE DEF e
<1>3. Tabled(e)
  BY <1>1, <1>2 DEF Tabled
<1> QED BY <1>1, <1>3 DEF e

LEMMA UpdatedIs ==
  ASSUME Scope!ScopeConstants, NEW d, Tabled(d), NEW t \in Scope!Tables, NEW hit, NEW c \in Scope!Changes(t)
  PROVE  /\ Tabled(Scope!Updated(d, t, hit, c))
         /\ \A u \in Scope!Tables : u # t => Scope!Updated(d, t, hit, c)[u] = d[u]
         /\ \A u \in Scope!Tables : DOMAIN Scope!Updated(d, t, hit, c)[u] = DOMAIN d[u]
         /\ \A i \in DOMAIN d[t] : Scope!Updated(d, t, hit, c)[t][i] = IF i \in hit THEN Scope!SetColumns(d[t][i], c) ELSE d[t][i]
<1> DEFINE e == Scope!Updated(d, t, hit, c)
           rows == [i \in DOMAIN d[t] |-> IF i \in hit THEN Scope!SetColumns(d[t][i], c) ELSE d[t][i]]
<1>1. e = [u \in Scope!Tables |-> IF u = t THEN rows ELSE d[u]]
  BY DEF Scope!Updated, Tabled
<1>2. rows \in [DOMAIN rows -> Scope!Rows(t)] /\ DOMAIN rows \subseteq RowIds[t]
  BY ChangedRow DEF Tabled
<1> HIDE DEF e
<1>3. Tabled(e)
  BY <1>1, <1>2 DEF Tabled
<1> QED BY <1>1, <1>3 DEF e

LEMMA DeletedIs ==
  ASSUME NEW d, Tabled(d), NEW t \in Scope!Tables, NEW hit
  PROVE  /\ Tabled(Scope!Deleted(d, t, hit))
         /\ \A u \in Scope!Tables : DOMAIN Scope!Deleted(d, t, hit)[u] = DOMAIN d[u] \ Scope!Lost(d, t, hit)[u]
         /\ \A u \in Scope!Tables : \A i \in DOMAIN d[u] \ Scope!Lost(d, t, hit)[u] :
               Scope!Deleted(d, t, hit)[u][i] = Scope!Unhung(u, d[u][i], Scope!Lost(d, t, hit)["replies"])
<1> DEFINE e == Scope!Deleted(d, t, hit)
           lost == Scope!Lost(d, t, hit)
<1>1. e = [u \in Scope!Tables |-> [i \in DOMAIN d[u] \ lost[u] |-> Scope!Unhung(u, d[u][i], lost["replies"])]]
  BY DEF Scope!Deleted
<1> HIDE DEF e, lost
<1>2. ASSUME NEW u \in Scope!Tables PROVE e[u] \in [DOMAIN e[u] -> Scope!Rows(u)] /\ DOMAIN e[u] \subseteq RowIds[u]
  BY <1>1, <1>2, UnhungRow DEF Tabled
<1>3. Tabled(e)
  BY <1>1, <1>2 DEF Tabled
<1> QED BY <1>1, <1>3 DEF e, lost
-----------------------------------------------------------------------------
TablesOK(d, dr) ==
  /\ Tabled(d) /\ AllDrawn(d, dr)
  /\ dr \in [Scope!Tables -> SUBSET UNION {RowIds[t] : t \in Scope!Tables}] /\ \A t \in Scope!Tables : dr[t] \subseteq RowIds[t]

LEMMA NamedDrawn ==
  ASSUME NEW s \in Scope!Statements, NEW dr, \A p \in Scope!Named(s) : s.columns[p[1]] \in dr[p[2]]
  PROVE  NamesDrawn(s.columns, s.table, dr)
BY DEF Scope!Named, NamesDrawn

LEMMA DrawnGrows ==
  ASSUME NEW c, NEW t, NEW dr, NEW er, NamesDrawn(c, t, dr), \A p \in Scope!parents[t] : dr[p[2]] \subseteq er[p[2]]
  PROVE  NamesDrawn(c, t, er)
BY DEF NamesDrawn

LEMMA ExecuteKeeps ==
  ASSUME Scope!ScopeConstants, TablesOK(db, drawn), NEW s \in Scope!Statements, NEW actor, Scope!Execute(actor, s),
         \A p \in Scope!Named(s) : s.columns[p[1]] \in drawn[p[2]]
  PROVE  TablesOK(db', drawn') /\ \A t \in Scope!Tables : drawn[t] \subseteq drawn'[t]
<1> DEFINE t == s.table
<1>0. t \in Scope!Tables /\ NamesDrawn(s.columns, t, drawn) /\ Tabled(db)
  BY StatementIs, NamedDrawn DEF TablesOK
<1>1. CASE Scope!Insert(s)
  <2>1. PICK i \in Scope!Fresh(t) : db' = Scope!Inserted(db, t, i, s.columns) /\ drawn' = [drawn EXCEPT ![t] = @ \cup {i}]
    BY <1>1 DEF Scope!Insert
  <2>2. i \in RowIds[t] /\ s.columns \in Scope!Rows(t)
    BY <1>1, StatementIs DEF Scope!Fresh, Scope!Insert
  <2>3. \A u \in Scope!Tables : drawn[u] \subseteq drawn'[u] /\ drawn'[u] = IF u = t THEN drawn[u] \cup {i} ELSE drawn[u]
    BY <2>1, <1>0 DEF TablesOK
  <2>4. /\ Tabled(db') /\ \A u \in Scope!Tables : u # t => db'[u] = db[u]
        /\ DOMAIN db'[t] = DOMAIN db[t] \cup {i}
        /\ \A j \in DOMAIN db[t] \cup {i} : db'[t][j] = IF j = i THEN s.columns ELSE db[t][j]
    BY <2>1, <2>2, <1>0, InsertedIs
  <2>5. ASSUME NEW u \in Scope!Tables PROVE DOMAIN db'[u] \subseteq drawn'[u] /\ \A j \in DOMAIN db'[u] : NamesDrawn(db'[u][j], u, drawn')
    <3>1. \A p \in Scope!parents[u] : drawn[p[2]] \subseteq drawn'[p[2]]
      BY <2>3, TwoLevels
    <3>2. \A j \in DOMAIN db[u] : NamesDrawn(db[u][j], u, drawn')
      BY <3>1, DrawnGrows DEF TablesOK, AllDrawn
    <3>3. u = t => NamesDrawn(s.columns, u, drawn')
      BY <1>0, <3>1, DrawnGrows
    <3>4. DOMAIN db[u] \subseteq drawn[u]
      BY DEF TablesOK, AllDrawn
    <3> QED BY <2>3, <2>4, <3>2, <3>3, <3>4
  <2>6. drawn' \in [Scope!Tables -> SUBSET UNION {RowIds[u] : u \in Scope!Tables}] /\ \A u \in Scope!Tables : drawn'[u] \subseteq RowIds[u]
    BY <2>1, <2>2, <1>0 DEF TablesOK
  <2> QED BY <2>3, <2>4, <2>5, <2>6 DEF TablesOK, AllDrawn
<1>2. CASE Scope!Update(actor, s)
  <2> DEFINE hit == Scope!Hit(actor, s)
  <2>1. db' = Scope!Updated(db, t, hit, s.columns) /\ drawn' = drawn /\ s.columns \in Scope!Changes(t)
    BY <1>2, StatementIs DEF Scope!Update
  <2> HIDE DEF hit
  <2>2. /\ Tabled(db') /\ \A u \in Scope!Tables : u # t => db'[u] = db[u]
        /\ \A u \in Scope!Tables : DOMAIN db'[u] = DOMAIN db[u]
        /\ \A i \in DOMAIN db[t] : db'[t][i] = IF i \in hit THEN Scope!SetColumns(db[t][i], s.columns) ELSE db[t][i]
    BY <2>1, <1>0, UpdatedIs
  <2>3. \A i \in DOMAIN db[t] : NamesDrawn(Scope!SetColumns(db[t][i], s.columns), t, drawn)
    BY <2>1, <1>0, ChangedRow DEF TablesOK, AllDrawn, Tabled
  <2>4. AllDrawn(db', drawn)
    BY <2>2, <2>3 DEF TablesOK, AllDrawn
  <2> QED BY <2>1, <2>2, <2>4 DEF TablesOK
<1>3. CASE Scope!Delete(actor, s)
  <2> DEFINE hit == Scope!Hit(actor, s)
             lost == Scope!Lost(db, t, hit)
  <2>1. db' = Scope!Deleted(db, t, hit) /\ drawn' = drawn
    BY <1>3 DEF Scope!Delete
  <2> HIDE DEF hit
  <2>2. /\ Tabled(db') /\ \A u \in Scope!Tables : DOMAIN db'[u] = DOMAIN db[u] \ lost[u]
        /\ \A u \in Scope!Tables : \A i \in DOMAIN db[u] \ lost[u] : db'[u][i] = Scope!Unhung(u, db[u][i], lost["replies"])
    BY <2>1, <1>0, DeletedIs
  <2> HIDE DEF lost
  <2>3. \A u \in Scope!Tables : \A i \in DOMAIN db[u] : NamesDrawn(Scope!Unhung(u, db[u][i], lost["replies"]), u, drawn)
    BY UnhungRow DEF TablesOK, AllDrawn, Tabled
  <2>4. AllDrawn(db', drawn)
    BY <2>2, <2>3 DEF TablesOK, AllDrawn
  <2> QED BY <2>1, <2>2, <2>4 DEF TablesOK
<1> QED BY <1>1, <1>2, <1>3 DEF Scope!Execute

-----------------------------------------------------------------------------
\* What a request's statement has looked up was there, and unless something
\* else changed beside it, still is and is seen.
LookedUp(w) == Scope!Named(w.s) \ w.left
StepSound(w, dr) ==
  /\ w.at # "idle" => Scope!Restricted(w.actor)
  /\ w.left \subseteq Scope!Named(w.s)
  /\ w.at = "check" => \A p \in LookedUp(w) : w.s.columns[p[1]] \in dr[p[2]]
StepSeen(w, mem, d) ==
  w.at = "check" => \A p \in LookedUp(w) : w.s.columns[p[1]] \in Scope!projection(w.actor, mem, d)[p[2]]

HostTypes == members \subseteq Departments \X Viewers /\ directory \in [Viewers -> Identities] /\ overlapped \subseteq ScopeRequests
WorkTypes == work \in [ScopeRequests -> [at : {"idle", "ready", "check"}, actor : Scope!AllActors, s : Scope!Statements,
                                     left : SUBSET UNION {Scope!parents[t] : t \in Scope!Tables}]]

ScopeInv ==
  /\ TablesOK(db, drawn) /\ HostTypes /\ WorkTypes
  /\ \A x \in ScopeRequests : StepSound(work[x], drawn) /\ (x \notin overlapped => StepSeen(work[x], members, db))

LEMMA ScopeTypes == ASSUME ScopeInv PROVE Scope!TypeOK
BY DEF ScopeInv, Scope!TypeOK, TablesOK, Tabled, AllDrawn, HostTypes, WorkTypes

LEMMA ActorsIn == ASSUME HostTypes, NEW u \in Viewers PROVE Scope!ForUser(u, directory[u]) \in Scope!AllActors
BY DEF HostTypes, Scope!AllActors

LEMMA NothingNamed == ASSUME NEW at \in {"idle", "ready"}, NEW actor, at = "idle" \/ Scope!Restricted(actor), NEW dr
                      PROVE  StepSound(Scope!Step(at, actor, Scope!Nothing, {}), dr) /\ \A mem, d : StepSeen(Scope!Step(at, actor, Scope!Nothing, {}), mem, d)
BY DEF StepSound, StepSeen, Scope!Step, Scope!Nothing, Scope!Statement

LEMMA ScopeInit == ASSUME Scope!ScopeConstants, Scope!Init PROVE ScopeInv
<1>1. Tabled(db)
  <2>1. [i \in {} |-> Scope!NoColumns] \in [{} -> Scope!Rows("tickets")] /\ DOMAIN [i \in {} |-> Scope!NoColumns] = {}
    OBVIOUS
  <2>2. \A t \in Scope!Tables : db[t] = [i \in {} |-> Scope!NoColumns]
    BY DEF Scope!Init
  <2>3. \A t \in Scope!Tables : db[t] \in [DOMAIN db[t] -> Scope!Rows(t)] /\ DOMAIN db[t] = {}
    BY <2>2
  <2> QED BY <2>3 DEF Scope!Init, Tabled
<1>2. TablesOK(db, drawn)
  <2>1. \A t \in Scope!Tables : db[t] = [i \in {} |-> Scope!NoColumns] /\ drawn[t] = {}
    BY DEF Scope!Init
  <2>2. \A t \in Scope!Tables : DOMAIN db[t] = {}
    BY <2>1
  <2>3. drawn \in [Scope!Tables -> SUBSET UNION {RowIds[t] : t \in Scope!Tables}]
    BY DEF Scope!Init
  <2> QED BY <1>1, <2>1, <2>2, <2>3 DEF TablesOK, AllDrawn
<1>3. HostTypes
  BY DEF Scope!Init, HostTypes
<1>4. WorkTypes
  <2>1. Scope!Unrestricted \in Scope!AllActors
    BY DEF Scope!AllActors
  <2> QED BY <2>1, NothingIs DEF Scope!Init, WorkTypes, Scope!Idle, Scope!Step
<1>5. \A x \in ScopeRequests : work[x] = Scope!Step("idle", Scope!Unrestricted, Scope!Nothing, {})
  BY DEF Scope!Init, Scope!Idle
<1> QED BY <1>2, <1>3, <1>4, <1>5, NothingNamed DEF ScopeInv

\* What a request is at, in a record of its own.
StepTypes == [at : {"idle", "ready", "check"}, actor : Scope!AllActors, s : Scope!Statements,
              left : SUBSET UNION {Scope!parents[t] : t \in Scope!Tables}]

\* A step of one request that changes nothing but what it is at.
LEMMA OneRequest ==
  ASSUME ScopeInv, NEW x \in ScopeRequests, NEW w \in StepTypes, work' = [work EXCEPT ![x] = w],
         UNCHANGED <<db, drawn, members, directory>>, overlapped' = overlapped \/ overlapped' = overlapped \ {x},
         StepSound(w, drawn), x \notin overlapped' => StepSeen(w, members, db)
  PROVE  ScopeInv'
<1>1. WorkTypes'
  BY DEF ScopeInv, WorkTypes, StepTypes
<1>2. TablesOK(db, drawn)' /\ HostTypes'
  BY DEF ScopeInv, TablesOK, HostTypes, Tabled, AllDrawn
<1>3. \A y \in ScopeRequests : work'[y] = IF y = x THEN w ELSE work[y]
  BY DEF ScopeInv, WorkTypes
<1>4. ASSUME NEW y \in ScopeRequests
      PROVE  StepSound(work'[y], drawn') /\ (y \notin overlapped' => StepSeen(work'[y], members', db'))
  <2>1. CASE y = x
    BY <1>3, <2>1
  <2>2. CASE y # x
    BY <1>3, <2>2 DEF ScopeInv
  <2> QED BY <2>1, <2>2
<1> QED BY <1>1, <1>2, <1>4 DEF ScopeInv

LEMMA ReadyIn ==
  ASSUME NEW actor \in Scope!AllActors
  PROVE  Scope!Ready(actor) \in StepTypes
BY NothingIs DEF Scope!Ready, Scope!Step, StepTypes

LEMMA BecomesReady ==
  ASSUME ScopeInv, NEW x \in ScopeRequests, NEW actor \in Scope!AllActors, Scope!Restricted(actor), work' = [work EXCEPT ![x] = Scope!Ready(actor)],
         UNCHANGED <<db, drawn, members, directory>>, overlapped' = overlapped \/ overlapped' = overlapped \ {x}
  PROVE  ScopeInv'
<1>1. StepSound(Scope!Ready(actor), drawn) /\ StepSeen(Scope!Ready(actor), members, db)
  BY NothingNamed DEF Scope!Ready
<1> QED BY <1>1, ReadyIn, OneRequest

\* Somebody else's change leaves nothing that was looked up relied on.
LEMMA Overtaken ==
  ASSUME ScopeInv, TablesOK(db, drawn)', HostTypes', \A t \in Scope!Tables : drawn[t] \subseteq drawn'[t], UNCHANGED work,
         overlapped' = overlapped \cup Scope!Checking
  PROVE  ScopeInv'
<1>1. WorkTypes'
  BY DEF ScopeInv, WorkTypes
<1>2. ASSUME NEW x \in ScopeRequests
      PROVE  StepSound(work[x], drawn') /\ (x \notin overlapped' => StepSeen(work[x], members', db'))
  <2>1. StepSound(work[x], drawn)
    BY DEF ScopeInv
  <2>2. work[x].s \in Scope!Statements
    BY DEF ScopeInv, WorkTypes
  <2>3. \A p \in LookedUp(work[x]) : p[2] \in Scope!Tables
    BY <2>2, TwoLevels, StatementIs DEF LookedUp, Scope!Named
  <2>4. StepSound(work[x], drawn')
    BY <2>1, <2>3 DEF StepSound
  <2>5. x \notin overlapped' => StepSeen(work[x], members', db')
    BY DEF Scope!Checking, StepSeen
  <2> QED BY <2>4, <2>5
<1> QED BY <1>1, <1>2 DEF ScopeInv

LEMMA ScopeStepInv == ASSUME Scope!ScopeConstants, ScopeInv, [Scope!Next]_Scope!vars PROVE ScopeInv'
<1> USE DEF StepTypes
<1>0. work \in [ScopeRequests -> StepTypes]
  BY DEF ScopeInv, WorkTypes
<1>1. ASSUME NEW x \in ScopeRequests, NEW u \in Viewers, Scope!Begin(x, u) PROVE ScopeInv'
  <2>1. Scope!ForUser(u, directory[u]) \in Scope!AllActors
    BY ActorsIn DEF ScopeInv
  <2> QED BY <1>1, <2>1, BecomesReady DEF Scope!Begin
<1>2. ASSUME NEW x \in ScopeRequests, Scope!Issue(x) PROVE ScopeInv'
  <2>0. PICK s \in Scope!Statements : work' = [work EXCEPT ![x] = Scope!Step("check", work[x].actor, s, Scope!Named(s))]
    BY <1>2 DEF Scope!Issue
  <2> DEFINE w == Scope!Step("check", work[x].actor, s, Scope!Named(s))
  <2>1. w \in StepTypes
    BY <1>0, StatementIs DEF Scope!Step, Scope!Named
  <2>2. work' = [work EXCEPT ![x] = w]
    BY <2>0
  <2>3. Scope!Restricted(work[x].actor)
    BY <1>2 DEF ScopeInv, StepSound, Scope!Issue
  <2>4. StepSound(w, drawn) /\ StepSeen(w, members, db)
    BY <2>3 DEF StepSound, StepSeen, LookedUp, Scope!Step
  <2> HIDE DEF w
  <2> QED BY <1>2, <2>1, <2>2, <2>4, OneRequest DEF Scope!Issue
<1>3. ASSUME NEW x \in ScopeRequests, NEW p \in work[x].left, Scope!guardInsert(x, p) PROVE ScopeInv'
  <2>0. work[x] \in StepTypes /\ StepSound(work[x], drawn)
    BY <1>0 DEF ScopeInv
  <2>1. CASE work[x].s.columns[p[1]] \in Scope!projection(work[x].actor, members, db)[p[2]]
    <3> DEFINE w == [work[x] EXCEPT !.left = @ \ {p}]
    <3>1. w \in StepTypes /\ w.at = work[x].at /\ w.actor = work[x].actor /\ w.s = work[x].s /\ w.left = work[x].left \ {p}
      BY <2>0
    <3>2. work' = [work EXCEPT ![x] = w] /\ overlapped' = overlapped
      BY <1>3, <2>1 DEF Scope!guardInsert
    <3> HIDE DEF w
    <3>3. LookedUp(w) \subseteq LookedUp(work[x]) \cup {p}
      BY <3>1 DEF LookedUp
    <3>4. p \in Scope!parents[work[x].s.table] /\ work[x].s.table \in Scope!Tables
      BY <2>0, StatementIs DEF StepSound, Scope!Named
    <3>5. p[2] \in Scope!Tables
      BY <3>4, TwoLevels
    <3>6. work[x].s.columns[p[1]] \in drawn[p[2]]
      BY <2>1, <3>5, ProjectionIs DEF ScopeInv, TablesOK, AllDrawn
    <3>7. StepSound(w, drawn)
      BY <2>0, <3>1, <3>3, <3>6 DEF StepSound
    <3>8. x \notin overlapped => StepSeen(w, members, db)
      BY <2>1, <3>1, <3>3 DEF ScopeInv, StepSeen
    <3> QED BY <1>3, <3>1, <3>2, <3>7, <3>8, OneRequest DEF Scope!guardInsert
  <2>2. CASE ~(work[x].s.columns[p[1]] \in Scope!projection(work[x].actor, members, db)[p[2]])
    <3>1. work' = [work EXCEPT ![x] = Scope!Ready(work[x].actor)] /\ overlapped' = overlapped \ {x}
      BY <1>3, <2>2 DEF Scope!guardInsert
    <3>2. Scope!Restricted(work[x].actor)
      BY <1>3, <2>0 DEF StepSound, Scope!guardInsert
    <3> QED BY <1>3, <2>0, <3>1, <3>2, BecomesReady DEF Scope!guardInsert
  <2> QED BY <2>1, <2>2
<1>4. ASSUME NEW x \in ScopeRequests, Scope!Run(x) PROVE ScopeInv'
  <2> DEFINE s == work[x].s
  <2>0. work[x] \in StepTypes /\ StepSound(work[x], drawn) /\ s \in Scope!Statements
    BY <1>0 DEF ScopeInv
  <2>1. \A p \in Scope!Named(s) : s.columns[p[1]] \in drawn[p[2]]
    BY <1>4, <2>0 DEF StepSound, LookedUp, Scope!Run
  <2>2. TablesOK(db', drawn') /\ \A t \in Scope!Tables : drawn[t] \subseteq drawn'[t]
    BY <1>4, <2>0, <2>1, ExecuteKeeps DEF Scope!Run, ScopeInv
  <2>3. HostTypes'
    BY <1>4 DEF HostTypes, ScopeInv, Scope!Run, Scope!BesideOthers, Scope!Checking
  <2>4. work' = [work EXCEPT ![x] = Scope!Ready(work[x].actor)] /\ Scope!Ready(work[x].actor) \in StepTypes
    BY <1>4, <2>0, ReadyIn DEF Scope!Run
  <2>5. WorkTypes'
    BY <1>0, <2>4 DEF WorkTypes
  <2>6. ASSUME NEW y \in ScopeRequests
        PROVE  StepSound(work'[y], drawn') /\ (y \notin overlapped' => StepSeen(work'[y], members', db'))
    <3>1. CASE y = x
      <4>1. work'[y] = Scope!Step("ready", work[x].actor, Scope!Nothing, {})
        BY <1>0, <2>4, <3>1 DEF Scope!Ready
      <4>2. Scope!Restricted(work[x].actor)
        BY <1>4, <2>0 DEF StepSound, Scope!Run
      <4> QED BY <4>1, <4>2, NothingNamed
    <3>2. CASE y # x
      <4>1. work'[y] = work[y] /\ StepSound(work[y], drawn) /\ work[y].s \in Scope!Statements
        BY <1>0, <2>4, <3>2 DEF ScopeInv
      <4>2. \A p \in LookedUp(work[y]) : p[2] \in Scope!Tables
        BY <4>1, TwoLevels, StatementIs DEF LookedUp, Scope!Named
      <4>3. StepSound(work[y], drawn')
        BY <4>1, <4>2, <2>2 DEF StepSound
      <4>4. y \notin overlapped' => StepSeen(work[y], members', db')
        BY <1>4, <3>2 DEF Scope!Run, Scope!BesideOthers, Scope!Checking, StepSeen
      <4> QED BY <4>1, <4>3, <4>4
    <3> QED BY <3>1, <3>2
  <2> QED BY <2>2, <2>3, <2>5, <2>6 DEF ScopeInv
<1>5. ASSUME NEW x \in ScopeRequests, Scope!Fail(x) PROVE ScopeInv'
  <2>1. work[x].actor \in Scope!AllActors /\ Scope!Restricted(work[x].actor)
    BY <1>0, <1>5 DEF ScopeInv, StepSound, Scope!Fail
  <2> QED BY <1>5, <2>1, BecomesReady DEF Scope!Fail
<1>6. ASSUME NEW x \in ScopeRequests, Scope!Leave(x) PROVE ScopeInv'
  <2>1. Scope!Idle \in StepTypes
    BY NothingIs DEF Scope!Idle, Scope!Step, Scope!AllActors
  <2>2. StepSound(Scope!Idle, drawn) /\ StepSeen(Scope!Idle, members, db)
    BY NothingNamed DEF Scope!Idle
  <2> QED BY <1>6, <2>1, <2>2, OneRequest DEF Scope!Leave
<1>7. ASSUME NEW s \in Scope!Statements, Scope!Unscoped(s) PROVE ScopeInv'
  <2>1. TablesOK(db', drawn') /\ \A t \in Scope!Tables : drawn[t] \subseteq drawn'[t]
    BY <1>7, ExecuteKeeps DEF Scope!Unscoped, ScopeInv
  <2>2. HostTypes'
    BY <1>7 DEF HostTypes, ScopeInv, Scope!Unscoped, Scope!Checking
  <2> QED BY <1>7, <2>1, <2>2, Overtaken DEF Scope!Unscoped
<1>8. ASSUME NEW m \in Departments \X Viewers, Scope!HostChangesMembers(m) PROVE ScopeInv'
  <2>1. TablesOK(db, drawn)' /\ HostTypes'
    BY <1>8 DEF HostTypes, ScopeInv, Scope!HostChangesMembers, Scope!Checking, TablesOK, Tabled, AllDrawn
  <2> QED BY <1>8, <2>1, Overtaken DEF Scope!HostChangesMembers
<1>9. ASSUME NEW u \in Viewers, NEW identity \in Identities, Scope!HostChangesUser(u, identity) PROVE ScopeInv'
  <2>1. HostTypes'
    BY <1>9 DEF HostTypes, ScopeInv, Scope!HostChangesUser
  <2> QED BY <1>9, <2>1 DEF Scope!HostChangesUser, ScopeInv, WorkTypes, TablesOK, Tabled, AllDrawn
<1>10. CASE UNCHANGED Scope!vars
  BY <1>10 DEF Scope!vars, ScopeInv, HostTypes, WorkTypes, TablesOK, Tabled, AllDrawn
<1> QED BY <1>1, <1>2, <1>3, <1>4, <1>5, <1>6, <1>7, <1>8, <1>9, <1>10 DEF Scope!Next

\* Agents see tickets by their departments and account, customers their own.
LEMMA Told == ASSUME Scope!ScopeConstants, ScopeInv PROVE Scope!ToldInScope
<1> SUFFICES ASSUME ScopeOptions.departments \/ ScopeOptions.accounts, NEW i \in DOMAIN db["tickets"], NEW u \in Viewers
             PROVE  u \in Scope!Recipients(Viewers, i) <=>
                      /\ u # Scope!Nobody
                      /\ \/ directory[u].admin
                         \/ /\ directory[u].agent
                            /\ ScopeOptions.departments => <<db["tickets"][i].department, u>> \in members
                            /\ ScopeOptions.accounts => directory[u].account # Nil /\ db["tickets"][i].account = directory[u].account
                         \/ ~directory[u].agent /\ ~directory[u].admin /\ db["tickets"][i].requester = u
  BY DEF Scope!ToldInScope
<1> DEFINE actor == Scope!ForUser(u, directory[u])
           pred == Scope!ticketPredicate(actor, members, db["tickets"][i])
<1>0. directory[u].agent \in BOOLEAN /\ directory[u].admin \in BOOLEAN /\ ScopeOptions.accounts \in BOOLEAN /\ ScopeOptions.departments \in BOOLEAN
  BY DEF ScopeInv, HostTypes, Scope!ScopeConstants
<1>1. i \in Scope!projection(actor, members, db)["tickets"] <=> (Scope!Restricted(actor) => pred)
  <2>1. "tickets" \in Scope!Tables /\ Scope!relationPredicate("tickets", db["tickets"][i], Scope!projection(actor, members, db))
    BY ParentsAre DEF Scope!relationPredicate, Scope!Tables
  <2> HIDE DEF actor
  <2> QED BY <2>1, ProjectionIs
<1>2. u \in Scope!Recipients(Viewers, i) <=>
        u # Scope!Nobody /\ (Scope!Restricted(actor) => pred) /\ (directory[u].agent \/ directory[u].admin \/ db["tickets"][i].requester = u)
  BY <1>1 DEF Scope!Recipients, Scope!CanViewUser
<1>3. CASE directory[u].admin \/ ~directory[u].agent
  <2>1. actor = Scope!Unrestricted
    BY <1>3 DEF Scope!ForUser
  <2>2. ~Scope!Restricted(actor)
    BY <2>1 DEF Scope!Restricted, Scope!Unrestricted
  <2> QED BY <1>0, <1>2, <1>3, <2>2
<1>4. CASE ~directory[u].admin /\ directory[u].agent
  <2>1. actor = [user |-> u, departments |-> ScopeOptions.departments, accounts |-> ScopeOptions.accounts,
                 account |-> IF ScopeOptions.accounts THEN directory[u].account ELSE Nil]
    BY <1>4 DEF Scope!ForUser
  <2>2. Scope!Restricted(actor)
    BY <2>1 DEF Scope!Restricted
  <2>3. pred <=> /\ u # Scope!Nobody
                 /\ ScopeOptions.departments => <<db["tickets"][i].department, u>> \in members
                 /\ ScopeOptions.accounts => directory[u].account # Nil /\ db["tickets"][i].account = directory[u].account
    BY <2>1 DEF Scope!ticketPredicate
  <2> QED BY <1>0, <1>2, <1>4, <2>2, <2>3
<1> QED BY <1>0, <1>3, <1>4

LEMMA ScopePromise == ASSUME Scope!ScopeConstants, ScopeInv PROVE Scope!TypeOK /\ Scope!ScopeHolds
<1>1. Keyed(db)
  BY TabledKeyed DEF ScopeInv, TablesOK
<1>2. Scope!ReadsInScope
  BY <1>1, Reads DEF Scope!ReadsInScope
<1> QED BY <1>2, Told, ScopeTypes DEF Scope!ScopeHolds
-----------------------------------------------------------------------------
\* What holds of a table when it does of those it hangs from holds of all.
LEMMA ByLevels ==
  ASSUME NEW S, \A t \in Scope!Tables : (\A p \in Scope!parents[t] : p[2] \in S) => t \in S
  PROVE  Scope!Tables \subseteq S
<1>1. "tickets" \in S
  BY ParentsAre DEF Scope!Tables
<1>2. ASSUME NEW t \in Scope!Tables, \A p \in Scope!parents[t] : p[2] = "tickets" PROVE t \in S
  BY <1>1, <1>2
<1>3. ASSUME NEW t \in Scope!Tables PROVE t \in S
  <2>1. \A p \in Scope!parents[t] : p[2] \in S
    BY <1>2, TwoLevels
  <2> QED BY <2>1
<1> QED BY <1>3

\* What a row's scope follows from.
HeldBy(actor, mem, d, t, i) ==
  /\ t = "tickets" => Scope!ticketPredicate(actor, mem, d["tickets"][i])
  /\ \A p \in Scope!parents[t] :
       \/ d[t][i][p[1]] \in DOMAIN d[p[2]] /\ Scope!InScope(actor, mem, d, p[2], d[t][i][p[1]])
       \/ Scope!Nullable(t, p[1]) /\ d[t][i][p[1]] = Scope!NoId

LEMMA ScopeHeld ==
  ASSUME NEW actor, NEW mem, NEW d, NEW t \in Scope!Tables, NEW i, Scope!Restricted(actor), Keyed(d)
  PROVE  Scope!InScope(actor, mem, d, t, i) <=> HeldBy(actor, mem, d, t, i)
BY ScopeStep DEF HeldBy

\* Rows whose tables, and tickets, are left alone stay in or out of scope.
LEMMA ScopeSame ==
  ASSUME NEW actor, NEW mem, NEW d, NEW e, Keyed(d), Keyed(e), Scope!Restricted(actor), NEW u \in Scope!Tables, d[u] = e[u],
         d["tickets"] = e["tickets"], \A q \in Scope!parents[u] : q[2] = "tickets", NEW i
  PROVE  Scope!InScope(actor, mem, d, u, i) <=> Scope!InScope(actor, mem, e, u, i)
<1>1. \A j : Scope!InScope(actor, mem, d, "tickets", j) <=> Scope!InScope(actor, mem, e, "tickets", j)
  <2>1. "tickets" \in Scope!Tables
    BY DEF Scope!Tables
  <2> QED BY <2>1, ScopeStep, ParentsAre
<1>2. HeldBy(actor, mem, d, u, i) <=> HeldBy(actor, mem, e, u, i)
  BY <1>1 DEF HeldBy
<1> QED BY <1>2, ScopeHeld

\* Rows are gained only by what their names come to mean.
LEMMA Gains ==
  ASSUME NEW actor, NEW mem, NEW d, NEW e, Keyed(d), Keyed(e), Scope!Restricted(actor),
         \A t \in Scope!Tables : \A i \in DOMAIN d[t] \cap DOMAIN e[t] :
            \/ Scope!InScope(actor, mem, d, t, i)
            \/ /\ t = "tickets" => e[t][i] = d[t][i]
               /\ \A p \in Scope!parents[t] :
                    \/ e[t][i][p[1]] = d[t][i][p[1]] /\ (d[t][i][p[1]] \in DOMAIN e[p[2]] => d[t][i][p[1]] \in DOMAIN d[p[2]])
                    \/ d[t][i][p[1]] \in DOMAIN d[p[2]] /\ Scope!InScope(actor, mem, d, p[2], d[t][i][p[1]])
  PROVE  \A t \in Scope!Tables : \A i \in DOMAIN d[t] \cap DOMAIN e[t] : Scope!InScope(actor, mem, e, t, i) => Scope!InScope(actor, mem, d, t, i)
<1> DEFINE S == {t \in Scope!Tables : \A i \in DOMAIN d[t] \cap DOMAIN e[t] : Scope!InScope(actor, mem, e, t, i) => Scope!InScope(actor, mem, d, t, i)}
<1>1. ASSUME NEW t \in Scope!Tables, \A p \in Scope!parents[t] : p[2] \in S, NEW i \in DOMAIN d[t] \cap DOMAIN e[t], Scope!InScope(actor, mem, e, t, i),
             ~Scope!InScope(actor, mem, d, t, i)
      PROVE  FALSE
  <2>0. t \in Scope!Tables /\ Scope!InScope(actor, mem, e, t, i)
    BY <1>1
  <2>5. HeldBy(actor, mem, e, t, i)
    BY <2>0, ScopeHeld
  <2>1. /\ t = "tickets" => Scope!ticketPredicate(actor, mem, e["tickets"][i])
        /\ \A p \in Scope!parents[t] :
             \/ e[t][i][p[1]] \in DOMAIN e[p[2]] /\ Scope!InScope(actor, mem, e, p[2], e[t][i][p[1]])
             \/ Scope!Nullable(t, p[1]) /\ e[t][i][p[1]] = Scope!NoId
    BY <2>5 DEF HeldBy
  <2>2. ASSUME NEW p \in Scope!parents[t]
        PROVE  \/ d[t][i][p[1]] \in DOMAIN d[p[2]] /\ Scope!InScope(actor, mem, d, p[2], d[t][i][p[1]])
               \/ Scope!Nullable(t, p[1]) /\ d[t][i][p[1]] = Scope!NoId
    <3>1. p[2] \in S
      BY <1>1
    <3> QED BY <1>1, <2>1, <3>1
  <2>3. t = "tickets" => Scope!ticketPredicate(actor, mem, d["tickets"][i])
    BY <1>1, <2>1
  <2> HIDE DEF S
  <2> QED BY <1>1, <2>2, <2>3, ScopeStep
<1>2. \A t \in Scope!Tables : (\A p \in Scope!parents[t] : p[2] \in S) => t \in S
  BY <1>1
<1>3. Scope!Tables \subseteq S
  <2> HIDE DEF S
  <2> QED BY <1>2, ByLevels
<1> QED BY <1>3
-----------------------------------------------------------------------------
\* A statement of a request's own changes the tables when it is the request's.
LEMMA WhoRuns == ASSUME ScopeInv, [Scope!Next]_Scope!vars, NEW x \in ScopeRequests, Scope!Runs(x) PROVE Scope!Run(x)
<1>0. db' # db /\ work[x].at = "check" /\ work'[x].at = "ready"
  BY DEF Scope!Runs, Scope!Ready, Scope!Step
<1>1. PICK y \in ScopeRequests : Scope!Run(y)
  BY <1>0 DEF Scope!Next, Scope!vars, Scope!Begin, Scope!Issue, Scope!guardInsert, Scope!Fail, Scope!Leave, Scope!Unscoped, Scope!HostChangesMembers, Scope!HostChangesUser
<1>2. CASE y # x
  BY <1>0, <1>1, <1>2 DEF Scope!Run, ScopeInv, WorkTypes
<1> QED BY <1>1, <1>2

\* What is known of a request when its statement runs.
Running(x, actor, s) ==
  /\ TablesOK(db, drawn) /\ TablesOK(db', drawn') /\ Keyed(db) /\ Keyed(db')
  /\ s \in Scope!Statements /\ Scope!Restricted(actor) /\ Scope!Execute(actor, s)
  /\ x \notin overlapped => \A p \in Scope!Named(s) : s.columns[p[1]] \in Scope!projection(actor, members, db)[p[2]]

LEMMA RunningIs == ASSUME Scope!ScopeConstants, ScopeInv, [Scope!Next]_Scope!vars, NEW x \in ScopeRequests, Scope!Runs(x) PROVE Running(x, work[x].actor, work[x].s)
<1>1. Scope!Run(x)
  BY WhoRuns
<1>2. ScopeInv'
  BY ScopeStepInv
<1>3. Keyed(db) /\ Keyed(db')
  BY <1>2, TabledKeyed DEF ScopeInv, TablesOK
<1>4. work[x].left = {} /\ work[x].at = "check" /\ Scope!Execute(work[x].actor, work[x].s) /\ work[x].s \in Scope!Statements
  BY <1>1 DEF Scope!Run, ScopeInv, WorkTypes
<1>5. Scope!Restricted(work[x].actor)
  BY <1>4 DEF ScopeInv, StepSound
<1>6. x \notin overlapped => \A p \in Scope!Named(work[x].s) : work[x].s.columns[p[1]] \in Scope!projection(work[x].actor, members, db)[p[2]]
  BY <1>4 DEF ScopeInv, StepSeen, LookedUp
<1> QED BY <1>2, <1>3, <1>4, <1>5, <1>6 DEF Running, ScopeInv

\* The row that an insert makes has an id that none has, and names no other.
LEMMA NewRow ==
  ASSUME NEW x, NEW actor, NEW s, Running(x, actor, s), Scope!Insert(s)
  PROVE  \E id \in RowIds[s.table] \ DOMAIN db[s.table] :
            /\ ~Reuses => id \notin drawn[s.table]
            /\ \A u \in Scope!Tables : u # s.table => db'[u] = db[u]
            /\ DOMAIN db'[s.table] = DOMAIN db[s.table] \cup {id}
            /\ db'[s.table][id] = s.columns
            /\ \A i \in DOMAIN db[s.table] : db'[s.table][i] = db[s.table][i]
<1> DEFINE t == s.table
<1>0. t \in Scope!Tables /\ s.columns \in Scope!Rows(t) /\ Tabled(db) /\ DOMAIN db[t] \subseteq drawn[t]
  BY StatementIs DEF Running, TablesOK, AllDrawn, Scope!Insert
<1>1. PICK id \in Scope!Fresh(t) : db' = Scope!Inserted(db, t, id, s.columns)
  BY DEF Scope!Insert
<1>2. id \in RowIds[t] /\ id \notin DOMAIN db[t] /\ (~Reuses => id \notin drawn[t])
  BY <1>0 DEF Scope!Fresh
<1>3. /\ \A u \in Scope!Tables : u # t => db'[u] = db[u]
      /\ DOMAIN db'[t] = DOMAIN db[t] \cup {id}
      /\ \A i \in DOMAIN db[t] \cup {id} : db'[t][i] = IF i = id THEN s.columns ELSE db[t][i]
  BY <1>0, <1>1, <1>2, InsertedIs
<1> QED BY <1>2, <1>3

\* An update changes rows of its table that are in scope.
LEMMA ChangedRows ==
  ASSUME Scope!ScopeConstants, NEW x, NEW actor, NEW s, Running(x, actor, s), Scope!Update(actor, s)
  PROVE  /\ \A u \in Scope!Tables : u # s.table => db'[u] = db[u]
         /\ \A u \in Scope!Tables : DOMAIN db'[u] = DOMAIN db[u]
         /\ \A i \in DOMAIN db[s.table] :
              \/ db'[s.table][i] = db[s.table][i]
              \/ db'[s.table][i] = Scope!SetColumns(db[s.table][i], s.columns) /\ Scope!InScope(actor, members, db, s.table, i)
<1> DEFINE t == s.table
           hit == Scope!Hit(actor, s)
<1>0. t \in Scope!Tables /\ s.columns \in Scope!Changes(t) /\ Tabled(db) /\ Keyed(db)
  BY StatementIs DEF Running, TablesOK, Scope!Update
<1>1. db' = Scope!Updated(db, t, hit, s.columns)
  BY DEF Scope!Update
<1>2. \A i \in DOMAIN db[t] : i \in hit => Scope!InScope(actor, members, db, t, i)
  BY <1>0, Reads DEF Scope!Hit
<1> HIDE DEF hit
<1>3. /\ \A u \in Scope!Tables : u # t => db'[u] = db[u]
      /\ \A u \in Scope!Tables : DOMAIN db'[u] = DOMAIN db[u]
      /\ \A i \in DOMAIN db[t] : db'[t][i] = IF i \in hit THEN Scope!SetColumns(db[t][i], s.columns) ELSE db[t][i]
  BY <1>0, <1>1, UpdatedIs
<1> QED BY <1>2, <1>3

\* What a delete takes: rows of its table in scope and the rows that go with
\* them; the attachments that are left without their reply lose one in scope.
Takes(actor, s, lost) ==
  /\ \A u \in Scope!Tables : DOMAIN db'[u] = DOMAIN db[u] \ lost[u]
  /\ \A u \in Scope!Tables : \A k \in DOMAIN db'[u] : db'[u][k] = Scope!Unhung(u, db[u][k], lost["replies"])
  /\ \A u \in {s.table, "replies"} : \A k \in lost[u] : k \in DOMAIN db[u] /\ Scope!InScope(actor, members, db, u, k)
  /\ s.table \notin {"replies", "tickets"} => lost["replies"] = {}
  /\ \A u \in Scope!Tables : \A k \in lost[u] :
       \/ u = s.table
       \/ s.table = "tickets" /\ u \in Scope!Declared /\ db[u][k]["ticket_id"] \in lost["tickets"]

LEMMA GoneRows ==
  ASSUME NEW x, NEW actor, NEW s, Running(x, actor, s), Scope!Delete(actor, s)
  PROVE  \E lost : Takes(actor, s, lost)
<1> DEFINE t == s.table
           hit == Scope!Hit(actor, s)
           lost == Scope!Lost(db, t, hit)
<1>0. t \in Scope!Tables /\ Tabled(db) /\ Keyed(db) /\ Scope!Restricted(actor)
  BY StatementIs DEF Running, TablesOK
<1>1. db' = Scope!Deleted(db, t, hit)
  BY DEF Scope!Delete
<1>2. \A i \in hit : i \in DOMAIN db[t] /\ Scope!InScope(actor, members, db, t, i)
  <2>1. hit \subseteq DOMAIN db[t]
    BY <1>0, ProjectionIs DEF Scope!Hit
  <2> QED BY <1>0, <2>1, Reads DEF Scope!Hit
<1> HIDE DEF hit
<1>3. /\ \A u \in Scope!Tables : DOMAIN db'[u] = DOMAIN db[u] \ lost[u]
      /\ \A u \in Scope!Tables : \A i \in DOMAIN db[u] \ lost[u] : db'[u][i] = Scope!Unhung(u, db[u][i], lost["replies"])
  BY <1>0, <1>1, DeletedIs
<1>4. "replies" \in Scope!Tables /\ "tickets" \in Scope!Tables
  BY DEF Scope!Tables
<1>5. ASSUME NEW i \in lost["replies"] PROVE i \in DOMAIN db["replies"] /\ Scope!InScope(actor, members, db, "replies", i)
  <2>1. CASE t = "replies"
    BY <1>2, <1>4, <1>5, <2>1 DEF Scope!Lost
  <2>2. CASE t # "replies"
    <3>1. t = "tickets" /\ i \in DOMAIN db["replies"] /\ db["replies"][i]["ticket_id"] \in hit
      BY <1>4, <1>5, <2>2 DEF Scope!Lost
    <3>2. \A p \in Scope!parents["replies"] : p[1] = "ticket_id" /\ p[2] = "tickets"
      BY ParentsAre
    <3> QED BY <1>0, <1>2, <1>4, <3>1, <3>2, ScopeStep
  <2> QED BY <2>1, <2>2
<1>6. lost[t] = hit
  BY <1>0 DEF Scope!Lost
<1>7. t \notin {"replies", "tickets"} => lost["replies"] = {}
  BY <1>4 DEF Scope!Lost
<1>8. ASSUME NEW u \in Scope!Tables, NEW i \in lost[u] PROVE u = t \/ (t = "tickets" /\ u \in Scope!Declared /\ db[u][i]["ticket_id"] \in lost["tickets"])
  BY <1>4, <1>8 DEF Scope!Lost
<1> HIDE DEF lost
<1>9. Takes(actor, s, lost)
  BY <1>2, <1>3, <1>5, <1>6, <1>7, <1>8 DEF Takes
<1> QED BY <1>9

-----------------------------------------------------------------------------
\* A row changes because it is in scope, or because one it hung from went.
LEMMA TouchedInScope ==
  ASSUME Scope!ScopeConstants, NEW x, NEW actor, NEW s, Running(x, actor, s), NEW t \in Scope!Tables, NEW i \in DOMAIN db[t],
         ~(i \in DOMAIN db'[t] /\ db'[t][i] = db[t][i]), ~Scope!InScope(actor, members, db, t, i)
  PROVE  \E p \in Scope!parents[t] : \E j \in DOMAIN db[p[2]] \ DOMAIN db'[p[2]] :
            db[t][i][p[1]] = j /\ Scope!InScope(actor, members, db, p[2], j)
<1>0. s.table \in Scope!Tables /\ Scope!Execute(actor, s)
  BY StatementIs DEF Running
<1>1. CASE Scope!Insert(s)
  BY <1>0, <1>1, NewRow
<1>2. CASE Scope!Update(actor, s)
  BY <1>0, <1>2, ChangedRows
<1>3. CASE Scope!Delete(actor, s)
  <2>0. PICK lost : Takes(actor, s, lost)
    BY <1>3, GoneRows
  <2>1. /\ \A u \in Scope!Tables : DOMAIN db'[u] = DOMAIN db[u] \ lost[u]
        /\ \A u \in Scope!Tables : \A k \in DOMAIN db'[u] : db'[u][k] = Scope!Unhung(u, db[u][k], lost["replies"])
        /\ \A u \in {s.table, "replies"} : \A k \in lost[u] : k \in DOMAIN db[u] /\ Scope!InScope(actor, members, db, u, k)
        /\ s.table \notin {"replies", "tickets"} => lost["replies"] = {}
        /\ \A u \in Scope!Tables : \A k \in lost[u] :
             \/ u = s.table
             \/ s.table = "tickets" /\ u \in Scope!Declared /\ db[u][k]["ticket_id"] \in lost["tickets"]
    BY <2>0 DEF Takes
  <2>2. CASE i \in lost[t]
    <3>1. s.table = "tickets" /\ t \in Scope!Declared /\ db[t][i]["ticket_id"] \in lost["tickets"]
      BY <2>1, <2>2
    <3>2. <<"ticket_id", "tickets">> \in Scope!parents[t] /\ "tickets" \in Scope!Tables
      BY <3>1, ParentsAre DEF Scope!Declared, Scope!Tables
    <3>3. db[t][i]["ticket_id"] \in DOMAIN db["tickets"] \ DOMAIN db'["tickets"]
          /\ Scope!InScope(actor, members, db, "tickets", db[t][i]["ticket_id"])
      BY <2>1, <3>1, <3>2
    <3> QED BY <3>2, <3>3
  <2>3. CASE i \notin lost[t]
    <3>1. i \in DOMAIN db'[t]
      BY <2>1, <2>3
    <3>2. t = "attachments" /\ db[t][i]["reply_id"] \in lost["replies"]
      BY <2>1, <3>1 DEF Scope!Unhung
    <3>3. <<"reply_id", "replies">> \in Scope!parents[t] /\ "replies" \in Scope!Tables
      BY <3>2, ParentsAre DEF Scope!Tables
    <3>4. db[t][i]["reply_id"] \in DOMAIN db["replies"] \ DOMAIN db'["replies"]
          /\ Scope!InScope(actor, members, db, "replies", db[t][i]["reply_id"])
      BY <2>1, <3>2, <3>3
    <3> QED BY <3>3, <3>4
  <2> QED BY <2>2, <2>3
<1> QED BY <1>0, <1>1, <1>2, <1>3 DEF Scope!Execute

\* The parents a statement named are in scope once it has run, as they were.
LEMMA ParentStays ==
  ASSUME NEW x, NEW actor, NEW s, Running(x, actor, s), s.table # "tickets",
         \A u \in Scope!Tables : u # s.table => db'[u] = db[u], NEW p \in Scope!parents[s.table],
         NEW j \in DOMAIN db[p[2]], Scope!InScope(actor, members, db, p[2], j)
  PROVE  j \in DOMAIN db'[p[2]] /\ Scope!InScope(actor, members, db', p[2], j)
<1>1. s.table \in Scope!Tables /\ Scope!Restricted(actor) /\ Keyed(db) /\ Keyed(db')
  BY StatementIs DEF Running
<1>2. p[2] \in Scope!Tables /\ db[p[2]] = db'[p[2]] /\ \A q \in Scope!parents[p[2]] : q[2] = "tickets"
  BY <1>1, TwoLevels
<1>3. db["tickets"] = db'["tickets"]
  BY <1>1 DEF Scope!Tables
<1> QED BY <1>1, <1>2, <1>3, ScopeSame

\* What a statement hangs, it hangs in scope, where nothing else changed.
LEMMA HungInScope ==
  ASSUME Scope!ScopeConstants, NEW x, NEW actor, NEW s, Running(x, actor, s), x \notin overlapped, s.table # "tickets",
         NEW i \in DOMAIN db'[s.table], ~(i \in DOMAIN db[s.table] /\ db'[s.table][i] = db[s.table][i])
  PROVE  Scope!InScope(actor, members, db', s.table, i)
<1> DEFINE t == s.table
<1>0. /\ t \in Scope!Tables /\ Scope!Execute(actor, s) /\ Scope!Restricted(actor) /\ Keyed(db) /\ Keyed(db') /\ s \in Scope!Statements
      /\ Tabled(db)
  BY StatementIs DEF Running, TablesOK
<1>1. ASSUME NEW p \in Scope!parents[t], p[1] \in DOMAIN s.columns, \A u \in Scope!Tables : u # t => db'[u] = db[u]
      PROVE  \/ s.columns[p[1]] \in DOMAIN db'[p[2]] /\ Scope!InScope(actor, members, db', p[2], s.columns[p[1]])
             \/ Scope!Nullable(t, p[1]) /\ s.columns[p[1]] = Scope!NoId
  <2>1. CASE p \in Scope!Named(s)
    <3>1. s.columns[p[1]] \in Scope!projection(actor, members, db)[p[2]] /\ p[2] \in Scope!Tables
      BY <1>0, <2>1, TwoLevels DEF Running
    <3>2. s.columns[p[1]] \in DOMAIN db[p[2]]
      BY <3>1, ProjectionIs
    <3>3. Scope!InScope(actor, members, db, p[2], s.columns[p[1]])
      BY <1>0, <3>1, <3>2, Reads
    <3> QED BY <1>1, <3>2, <3>3, ParentStays
  <2>2. CASE p \notin Scope!Named(s)
    BY <1>1, <2>2 DEF Scope!Named
  <2> QED BY <2>1, <2>2
<1>2. CASE Scope!Insert(s)
  <2>1. PICK id \in RowIds[t] \ DOMAIN db[t] :
            /\ \A u \in Scope!Tables : u # t => db'[u] = db[u]
            /\ DOMAIN db'[t] = DOMAIN db[t] \cup {id}
            /\ db'[t][id] = s.columns
            /\ \A k \in DOMAIN db[t] : db'[t][k] = db[t][k]
    BY <1>2, NewRow
  <2>2. i = id /\ db'[t][i] = s.columns
    BY <2>1
  <2>3. DOMAIN s.columns = Scope!Columns(t)
    BY <1>0, <1>2, StatementIs DEF Scope!Insert, Scope!Rows, Scope!Naming
  <2>4. HeldBy(actor, members, db', t, i)
    BY <1>1, <2>1, <2>2, <2>3, ColumnsIn, <1>0 DEF HeldBy
  <2> QED BY <1>0, <2>4, ScopeHeld
<1>3. CASE Scope!Update(actor, s)
  <2>1. /\ \A u \in Scope!Tables : u # t => db'[u] = db[u]
        /\ \A u \in Scope!Tables : DOMAIN db'[u] = DOMAIN db[u]
        /\ \A k \in DOMAIN db[t] :
             \/ db'[t][k] = db[t][k]
             \/ db'[t][k] = Scope!SetColumns(db[t][k], s.columns) /\ Scope!InScope(actor, members, db, t, k)
    BY <1>3, ChangedRows
  <2>2. i \in DOMAIN db[t] /\ db'[t][i] = Scope!SetColumns(db[t][i], s.columns) /\ Scope!InScope(actor, members, db, t, i)
    BY <1>0, <2>1
  <2>3. HeldBy(actor, members, db, t, i)
    BY <1>0, <2>2, ScopeHeld
  <2>4. DOMAIN db[t][i] = Scope!Columns(t)
    BY <1>0, <2>2 DEF Tabled, Scope!Rows, Scope!Naming
  <2>5. ASSUME NEW p \in Scope!parents[t]
        PROVE  \/ db'[t][i][p[1]] \in DOMAIN db'[p[2]] /\ Scope!InScope(actor, members, db', p[2], db'[t][i][p[1]])
               \/ Scope!Nullable(t, p[1]) /\ db'[t][i][p[1]] = Scope!NoId
    <3>1. db'[t][i][p[1]] = IF p[1] \in DOMAIN s.columns THEN s.columns[p[1]] ELSE db[t][i][p[1]]
      BY <1>0, <2>2, <2>4, ColumnsIn DEF Scope!SetColumns
    <3>2. CASE p[1] \in DOMAIN s.columns
      BY <1>1, <2>1, <3>1, <3>2
    <3>3. CASE p[1] \notin DOMAIN s.columns
      BY <2>1, <2>3, <3>1, <3>3, ParentStays DEF HeldBy
    <3> QED BY <3>2, <3>3
  <2>6. HeldBy(actor, members, db', t, i)
    BY <2>5 DEF HeldBy
  <2> QED BY <1>0, <2>6, ScopeHeld
<1>4. CASE Scope!Delete(actor, s)
  <2>0. PICK lost : Takes(actor, s, lost)
    BY <1>4, GoneRows
  <2>1. /\ \A u \in Scope!Tables : DOMAIN db'[u] = DOMAIN db[u] \ lost[u]
        /\ \A u \in Scope!Tables : \A k \in DOMAIN db'[u] : db'[u][k] = Scope!Unhung(u, db[u][k], lost["replies"])
        /\ s.table \notin {"replies", "tickets"} => lost["replies"] = {}
    BY <2>0 DEF Takes
  <2>2. t = "attachments" => lost["replies"] = {}
    BY <2>1
  <2>3. db'[t][i] = db[t][i] /\ i \in DOMAIN db[t]
    BY <1>0, <2>1, <2>2 DEF Scope!Unhung
  <2> QED BY <2>3
<1> QED BY <1>0, <1>2, <1>3, <1>4 DEF Scope!Execute

LEMMA Writes == ASSUME Scope!ScopeConstants, ScopeInv, [Scope!Next]_Scope!vars PROVE Scope!WritesInScope
<1> SUFFICES ASSUME NEW x \in ScopeRequests, Scope!Runs(x)
             PROVE  \A actor \in {work[x].actor}, s \in {work[x].s} :
                      /\ \A t \in Scope!Tables : \A i \in DOMAIN db[t] :
                           \/ i \in DOMAIN db'[t] /\ db'[t][i] = db[t][i]
                           \/ Scope!InScope(actor, members, db, t, i)
                           \/ \E p \in Scope!parents[t] : \E j \in DOMAIN db[p[2]] \ DOMAIN db'[p[2]] :
                                 db[t][i][p[1]] = j /\ Scope!InScope(actor, members, db, p[2], j)
                      /\ x \notin overlapped /\ s.table # "tickets" =>
                           \A i \in DOMAIN db'[s.table] :
                              \/ i \in DOMAIN db[s.table] /\ db'[s.table][i] = db[s.table][i]
                              \/ Scope!InScope(actor, members, db', s.table, i)
  BY DEF Scope!WritesInScope
<1> TAKE actor \in {work[x].actor}, s \in {work[x].s}
<1>1. Running(x, actor, s)
  BY RunningIs
<1>2. \A t \in Scope!Tables : \A i \in DOMAIN db[t] :
         \/ i \in DOMAIN db'[t] /\ db'[t][i] = db[t][i]
         \/ Scope!InScope(actor, members, db, t, i)
         \/ \E p \in Scope!parents[t] : \E j \in DOMAIN db[p[2]] \ DOMAIN db'[p[2]] :
               db[t][i][p[1]] = j /\ Scope!InScope(actor, members, db, p[2], j)
  BY <1>1, TouchedInScope
<1>3. x \notin overlapped /\ s.table # "tickets" =>
         \A i \in DOMAIN db'[s.table] :
            \/ i \in DOMAIN db[s.table] /\ db'[s.table][i] = db[s.table][i]
            \/ Scope!InScope(actor, members, db', s.table, i)
  BY <1>1, HungInScope
<1> QED BY <1>2, <1>3
-----------------------------------------------------------------------------
\* A statement gives no name a meaning, where no id is given again.
LEMMA NothingGainedBy ==
  ASSUME Scope!ScopeConstants, ~Reuses, NEW x, NEW actor, NEW s, Running(x, actor, s)
  PROVE  \A t \in Scope!Tables : \A i \in DOMAIN db[t] \cap DOMAIN db'[t] :
            Scope!InScope(actor, members, db', t, i) => Scope!InScope(actor, members, db, t, i)
<1> DEFINE fine(t, i) ==
             \/ Scope!InScope(actor, members, db, t, i)
             \/ /\ t = "tickets" => db'[t][i] = db[t][i]
                /\ \A p \in Scope!parents[t] :
                     \/ db'[t][i][p[1]] = db[t][i][p[1]] /\ (db[t][i][p[1]] \in DOMAIN db'[p[2]] => db[t][i][p[1]] \in DOMAIN db[p[2]])
                     \/ db[t][i][p[1]] \in DOMAIN db[p[2]] /\ Scope!InScope(actor, members, db, p[2], db[t][i][p[1]])
<1>0. /\ s.table \in Scope!Tables /\ Scope!Execute(actor, s) /\ Scope!Restricted(actor) /\ Keyed(db) /\ Keyed(db')
      /\ AllDrawn(db, drawn) /\ Tabled(db)
  BY StatementIs DEF Running, TablesOK
<1>1. ASSUME NEW t \in Scope!Tables, NEW i \in DOMAIN db[t] \cap DOMAIN db'[t], Scope!Insert(s) PROVE fine(t, i)
  <2>1. PICK id \in RowIds[s.table] \ DOMAIN db[s.table] :
            /\ id \notin drawn[s.table]
            /\ \A u \in Scope!Tables : u # s.table => db'[u] = db[u]
            /\ DOMAIN db'[s.table] = DOMAIN db[s.table] \cup {id}
            /\ db'[s.table][id] = s.columns
            /\ \A k \in DOMAIN db[s.table] : db'[s.table][k] = db[s.table][k]
    BY <1>1, NewRow
  <2>2. db'[t][i] = db[t][i]
    BY <2>1
  <2>3. ASSUME NEW p \in Scope!parents[t], db[t][i][p[1]] \in DOMAIN db'[p[2]] PROVE db[t][i][p[1]] \in DOMAIN db[p[2]]
    <3>1. p[2] \in Scope!Tables
      BY TwoLevels
    <3>2. p[1] \in DOMAIN db[t][i]
      <4>1. t # "tickets" /\ db[t][i] \in Scope!Rows(t)
        BY <1>0, TwoLevels DEF Tabled
      <4> QED BY <4>1, ColumnsIn DEF Scope!Rows, Scope!Naming
    <3>3. db[t][i][p[1]] \in drawn[p[2]] \/ db[t][i][p[1]] = Scope!NoId
      BY <1>0, <3>2 DEF AllDrawn, NamesDrawn
    <3>4. db[t][i][p[1]] # Scope!NoId
      BY <1>0, <2>3, <3>1 DEF Keyed
    <3> QED BY <2>1, <2>3, <3>1, <3>3, <3>4
  <2> QED BY <2>2, <2>3
<1>2. ASSUME NEW t \in Scope!Tables, NEW i \in DOMAIN db[t] \cap DOMAIN db'[t], Scope!Update(actor, s) PROVE fine(t, i)
  <2>1. /\ \A u \in Scope!Tables : u # s.table => db'[u] = db[u]
        /\ \A u \in Scope!Tables : DOMAIN db'[u] = DOMAIN db[u]
        /\ \A k \in DOMAIN db[s.table] : db'[s.table][k] = db[s.table][k] \/ Scope!InScope(actor, members, db, s.table, k)
    BY <1>2, ChangedRows
  <2>2. db'[t][i] = db[t][i] \/ Scope!InScope(actor, members, db, t, i)
    BY <2>1
  <2>3. \A p \in Scope!parents[t] : DOMAIN db'[p[2]] = DOMAIN db[p[2]]
    BY <2>1, TwoLevels
  <2> QED BY <2>2, <2>3
<1>3. ASSUME NEW t \in Scope!Tables, NEW i \in DOMAIN db[t] \cap DOMAIN db'[t], Scope!Delete(actor, s) PROVE fine(t, i)
  <2>0. PICK lost : Takes(actor, s, lost)
    BY <1>3, GoneRows
  <2>1. /\ \A u \in Scope!Tables : DOMAIN db'[u] = DOMAIN db[u] \ lost[u]
        /\ \A u \in Scope!Tables : \A k \in DOMAIN db'[u] : db'[u][k] = Scope!Unhung(u, db[u][k], lost["replies"])
        /\ \A u \in {s.table, "replies"} : \A k \in lost[u] : k \in DOMAIN db[u] /\ Scope!InScope(actor, members, db, u, k)
    BY <2>0 DEF Takes
  <2>2. \A p \in Scope!parents[t] : DOMAIN db'[p[2]] \subseteq DOMAIN db[p[2]]
    BY <2>1, TwoLevels
  <2>3. CASE db'[t][i] = db[t][i]
    BY <2>2, <2>3
  <2>4. CASE db'[t][i] # db[t][i]
    <3>1. t = "attachments" /\ db[t][i]["reply_id"] \in lost["replies"] /\ db'[t][i] = [db[t][i] EXCEPT !["reply_id"] = Scope!NoId]
      BY <2>1, <2>4 DEF Scope!Unhung
    <3>2. db[t][i]["reply_id"] \in DOMAIN db["replies"] /\ Scope!InScope(actor, members, db, "replies", db[t][i]["reply_id"])
      BY <2>1, <3>1
    <3>3. db'[t][i]["ticket_id"] = db[t][i]["ticket_id"]
      BY <3>1
    <3>4. ASSUME NEW p \in Scope!parents[t]
          PROVE  \/ db'[t][i][p[1]] = db[t][i][p[1]]
                 \/ db[t][i][p[1]] \in DOMAIN db[p[2]] /\ Scope!InScope(actor, members, db, p[2], db[t][i][p[1]])
      BY <3>1, <3>2, <3>3, ParentsAre
    <3> QED BY <2>2, <3>1, <3>4
  <2> QED BY <2>3, <2>4
<1>4. \A t \in Scope!Tables : \A i \in DOMAIN db[t] \cap DOMAIN db'[t] : fine(t, i)
  <2> HIDE DEF fine
  <2> QED BY <1>0, <1>1, <1>2, <1>3 DEF Scope!Execute
<1> QED BY <1>0, <1>4, Gains

LEMMA NoGain == ASSUME Scope!ScopeConstants, ~Reuses, ScopeInv, [Scope!Next]_Scope!vars PROVE Scope!NothingGained
<1> SUFFICES ASSUME NEW x \in ScopeRequests, Scope!Runs(x)
             PROVE  \A actor \in {work[x].actor} : \A t \in Scope!Tables : \A i \in DOMAIN db[t] \cap DOMAIN db'[t] :
                       Scope!InScope(actor, members, db', t, i) => Scope!InScope(actor, members, db, t, i)
  BY DEF Scope!NothingGained
<1>1. Running(x, work[x].actor, work[x].s)
  BY RunningIs
<1> QED BY <1>1, NothingGainedBy

\* A restricted agent reads exactly what hangs from tickets in scope, and who is
\* told of a ticket may see it, whatever is merged, moved or deleted and whoever
\* joins or leaves a department meanwhile (scopedSQL, Recipients).
THEOREM AgentsReadTheirScope == Scope!Spec => [](Scope!TypeOK /\ Scope!ScopeHolds)
BY AccessConstants, ScopeInit, ScopeStepInv, ScopePromise, PTL DEF Scope!Spec

\* A statement of theirs touches rows in scope, and those that hung from one it
\* deletes; unless others changed something since its parents were looked up,
\* what it hangs, it hangs in scope (scopedSQL, guardInsert).
THEOREM AgentsWriteInScope == Scope!Spec => [][Scope!WritesInScope]_Scope!vars
BY AccessConstants, ScopeInit, ScopeStepInv, Writes, PTL DEF Scope!Spec

\* Where no id is given twice, no statement of theirs brings into their scope a
\* row that was out of it, raced or not (guardInsert).
THEOREM NothingIsGained == ~Reuses => (Scope!Spec => [][Scope!NothingGained]_Scope!vars)
<1>1. ~Reuses /\ ScopeInv /\ [Scope!Next]_Scope!vars => Scope!NothingGained
  BY AccessConstants, NoGain
<1>2. Scope!Init => ScopeInv
  BY AccessConstants, ScopeInit
<1>3. ScopeInv /\ [Scope!Next]_Scope!vars => ScopeInv'
  BY AccessConstants, ScopeStepInv
<1>4. CASE Reuses
  BY <1>4
<1>5. CASE ~Reuses
  <2>1. ScopeInv /\ [Scope!Next]_Scope!vars => Scope!NothingGained
    BY <1>1, <1>5
  <2>2. Scope!Spec => [][Scope!NothingGained]_Scope!vars
    BY <2>1, <1>2, <1>3, PTL DEF Scope!Spec
  <2> QED BY <2>2
<1> QED BY <1>4, <1>5

-----------------------------------------------------------------------------
\* All of them together (Access).

\* The codes go on or stand still in every behaviour; of the others, the part
\* that runs keeps its invariant.
AccessInv ==
  /\ IInv
  /\ part = "tokens" => TokensInv
  /\ part = "limits" => LimitsInv /\ DueCounts
  /\ part = "factor" => EnrolmentInv
  /\ part = "sso" => SignOnInv /\ SignOnTyped
  /\ part = "staff" => StaffInv
  /\ part = "scope" => ScopeInv

LEMMA AccessStarts == AccessInit => AccessInv
<1> SUFFICES ASSUME AccessInit PROVE AccessInv
  OBVIOUS
<1>1. IInv
  BY InitInv DEF AccessInit
<1>2. /\ part = "tokens" => Tokens!Init
      /\ part = "limits" => Limits!Init
      /\ part = "factor" => Factor!Init
      /\ part = "sso" => SSO!Init
      /\ part = "staff" => Staff!Init
      /\ part = "scope" => Scope!Init
  BY DEF AccessInit
<1>3. part = "tokens" => TokensInv
  BY <1>2, AccessConstants, TokensInit
<1>4. part = "limits" => LimitsInv /\ DueCounts
  BY <1>2, AccessConstants, LimitsInit, DueInit
<1>5. part = "factor" => EnrolmentInv
  BY <1>2, AccessConstants, EnrolmentInit
<1>6. part = "sso" => SignOnInv /\ SignOnTyped
  BY <1>2, AccessConstants, SignOnInit, TypedInit
<1>7. part = "staff" => StaffInv
  BY <1>2, AccessConstants, StaffInit
<1>8. part = "scope" => ScopeInv
  BY <1>2, AccessConstants, ScopeInit
<1> QED BY <1>1, <1>3, <1>4, <1>5, <1>6, <1>7, <1>8 DEF AccessInv

\* A step of the whole is one of the part that runs, or leaves it alone.
LEMMA PartsStep ==
  ASSUME [AccessNext]_accessVars
  PROVE  /\ part' = part
         /\ [Next]_vars
         /\ part = "tokens" => [Tokens!Next]_Tokens!vars
         /\ part = "limits" => [Limits!Next]_Limits!vars
         /\ part = "factor" => [Factor!Next]_Factor!vars
         /\ part = "sso" => [SSO!Next]_SSO!vars
         /\ part = "staff" => [Staff!Next]_Staff!vars
         /\ part = "scope" => [Scope!Next]_Scope!vars
<1>1. part' = part
  BY DEF AccessNext, accessVars
<1>2. CASE UNCHANGED accessVars
  <2>1. UNCHANGED <<vars, clock, tokensVars, limitsVars, factorVars, signOnVars, staffVars, scopeVars>>
    BY <1>2 DEF accessVars
  <2>2. UNCHANGED Tokens!vars /\ UNCHANGED Limits!vars /\ UNCHANGED Factor!vars
    BY <2>1 DEF tokensVars, limitsVars, factorVars, Tokens!vars, Limits!vars, Factor!vars
  <2>3. UNCHANGED SSO!vars /\ UNCHANGED Staff!vars /\ UNCHANGED Scope!vars
    BY <2>1 DEF signOnVars, staffVars, scopeVars, SSO!vars, Staff!vars, Scope!vars
  <2> QED BY <1>1, <2>1, <2>2, <2>3
<1>3. CASE AccessNext
  BY <1>3 DEF AccessNext
<1> QED BY <1>2, <1>3

LEMMA AccessStep == AccessInv /\ [AccessNext]_accessVars => AccessInv'
<1> SUFFICES ASSUME AccessInv, [AccessNext]_accessVars PROVE AccessInv'
  OBVIOUS
<1>1. IInv'
  BY PartsStep, StepInv DEF AccessInv
<1>2. part = "tokens" => TokensInv'
  BY PartsStep, AccessConstants, TokensStep DEF AccessInv
<1>3. part = "limits" => LimitsInv' /\ DueCounts'
  BY PartsStep, AccessConstants, LimitsStep, DueStep DEF AccessInv
<1>4. part = "factor" => EnrolmentInv'
  BY PartsStep, AccessConstants, EnrolmentStep DEF AccessInv
<1>5. part = "sso" => SignOnInv' /\ SignOnTyped'
  BY PartsStep, AccessConstants, SignOnStep, TypedStep DEF AccessInv
<1>6. part = "staff" => StaffInv'
  BY PartsStep, AccessConstants, StaffStep DEF AccessInv
<1>7. part = "scope" => ScopeInv'
  BY PartsStep, AccessConstants, ScopeStepInv DEF AccessInv
<1> QED BY <1>1, <1>2, <1>3, <1>4, <1>5, <1>6, <1>7, PartsStep DEF AccessInv

LEMMA AccessPromise == AccessInv => AccessTypeOK /\ GuestsHold /\ StaffHolds
<1> SUFFICES ASSUME AccessInv PROVE AccessTypeOK /\ GuestsHold /\ StaffHolds
  OBVIOUS
<1>1. TypeOK
  BY DEF AccessInv, IInv
<1>2. part = "tokens" => Tokens!TypeOK /\ Tokens!OneKey /\ Tokens!MovedTokenGone
  BY TokensHold DEF AccessInv
<1>3. part = "limits" => Limits!TypeOK /\ Limits!WithinLimit /\ Limits!OnlyAdmittedGoOn
  BY LimitsPromise DEF AccessInv
<1>4. part = "factor" => Factor!TypeOK /\ Factor!EnrolmentHolds
  BY EnrolmentPromise DEF AccessInv
<1>5. part = "sso" => SSO!TypeOK /\ SSO!AnsweredOnce
  BY SignOnPromise DEF AccessInv
<1>6. part = "staff" => Staff!TypeOK /\ Staff!RolesHold
  BY AccessConstants, StaffPromise DEF AccessInv
<1>7. part = "scope" => Scope!TypeOK /\ Scope!ScopeHolds
  BY AccessConstants, ScopePromise DEF AccessInv
<1> QED BY <1>1, <1>2, <1>3, <1>4, <1>5, <1>6, <1>7 DEF AccessTypeOK, GuestsHold, StaffHolds

\* What is proved of the codes alone holds of them in the whole: its steps are
\* theirs or leave them alone.
THEOREM AccessHasCodes == AccessSpec => Spec
<1>1. AccessInit => Init
  BY DEF AccessInit
<1>2. [AccessNext]_accessVars => [Next]_vars
  BY PartsStep
<1> QED BY <1>1, <1>2, PTL DEF AccessSpec, Spec

\* Every part keeps its types, and holds what it has issued, counted, enrolled,
\* answered and granted, in every interleaving of its requests.
THEOREM AccessIsTyped == AccessSpec => []AccessTypeOK
BY AccessStarts, AccessStep, AccessPromise, PTL DEF AccessSpec

\* One credential at most opens a ticket, none that was moved or ended does, and
\* a client over its own limit uses up nobody else's, for any tickets, guests,
\* keys, limits and requests (GuestTokens, RateLimit).
THEOREM GuestsAreHeld == AccessSpec => []GuestsHold
BY AccessStarts, AccessStep, AccessPromise, PTL DEF AccessSpec

\* A code and an assertion work once, who was told that two-factor is on is
\* challenged, who has a role has one that exists, and restricted agents read
\* what is in scope, no less (TwoFactor, SignOn, Roles, TicketScope).
THEOREM StaffAreHeld == AccessSpec => []StaffHolds
BY AccessStarts, AccessStep, AccessPromise, PTL DEF AccessSpec

\* No step ends a grant but a lookup of its mailbox, accepts a message twice,
\* takes a user's last managing role by their own hand, or writes out of scope.
THEOREM StepsAreKept == AccessSpec => StepsKeepAccess
<1>1. AccessInv /\ [AccessNext]_accessVars
      => /\ part = "tokens" => Tokens!GrantKeptForMailbox
         /\ part = "sso" => SSO!ClaimedOnce
         /\ part = "staff" => Staff!ManagementKept
         /\ part = "scope" => Scope!StatementsHold
  <2> SUFFICES ASSUME AccessInv, [AccessNext]_accessVars
               PROVE  /\ part = "tokens" => Tokens!GrantKeptForMailbox
                      /\ part = "sso" => SSO!ClaimedOnce
                      /\ part = "staff" => Staff!ManagementKept
                      /\ part = "scope" => Scope!StatementsHold
    OBVIOUS
  <2>1. part = "tokens" => Tokens!GrantKeptForMailbox
    BY PartsStep, AccessConstants, GrantsKept DEF AccessInv
  <2>2. part = "sso" => SSO!ClaimedOnce
    BY PartsStep, AccessConstants, ClaimedStep DEF AccessInv
  <2>3. part = "staff" => Staff!ManagementKept
    BY PartsStep, AccessConstants, ManagementStep DEF AccessInv
  <2>4. part = "scope" => Scope!StatementsHold
    BY PartsStep, AccessConstants, Writes, NoGain DEF AccessInv, Scope!StatementsHold
  <2> QED BY <2>1, <2>2, <2>3, <2>4
<1> QED BY <1>1, AccessStarts, AccessStep, PTL DEF AccessSpec, StepsKeepAccess

\* Where the limits run, their map of windows with its sweep is a fixed-window
\* counter a key.
THEOREM LimitsAreFixedWindows == AccessSpec => AreFixedWindows
<1>1. AccessInit => (part = "limits" => Limits!StartsFresh)
  BY FixedInit DEF AccessInit
<1>2. AccessInv /\ [AccessNext]_accessVars => (part = "limits" => Limits!IsFixedWindows)
  <2> SUFFICES ASSUME AccessInv, [AccessNext]_accessVars, part = "limits" PROVE Limits!IsFixedWindows
    OBVIOUS
  <2> QED BY PartsStep, AccessConstants, FixedStep DEF AccessInv
<1> QED BY <1>1, <1>2, AccessStarts, AccessStep, PTL DEF AccessSpec, AreFixedWindows

=============================================================================
