--------------------------------- MODULE SignOn ---------------------------------
(***************************************************************************)
(* Single sign-on (access/sso.go, sso_users.go, handlers/sso.go).           *)
(*                                                                         *)
(* An identity provider hands browsers messages: SAML responses, which      *)
(* answer a request this server issued or none, and JWTs.  A message is     *)
(* good for one sign-in: its id is claimed in a table whose rows go when    *)
(* they expire, as the ids of the requests still to be answered do.         *)
(* Callbacks run concurrently, each in several database steps, while time   *)
(* passes.  OAuth keeps its state in the browser instead.                   *)
(*                                                                         *)
(* Time runs in half seconds, a half standing for any fraction: validity    *)
(* is compared exactly, what the table and the cookie keep is cut to        *)
(* seconds.                                                                 *)
(***************************************************************************)
EXTENDS Naturals, FiniteSets

CONSTANTS Callbacks,   \* callback requests being served
          Browsers,    \* people signing in
          Requests,    \* SAML request ids
          Messages,    \* assertion ids and jtis
          Emails, Roles, Nil,
          Untils,      \* ends of the messages' validity
          Skew,        \* drift allowed on validity windows, in seconds
          TTL,         \* SAMLRequestTTL, in seconds
          MaxTime,
          MaxSignIns   \* a message that signed in so often is brought no more

SignOnConstants ==
  Untils \subseteq Nat /\ Skew \in Nat /\ TTL \in Nat \ {0} /\ MaxTime \in Nat /\ Nil \notin Requests \cup Messages \cup Emails \cup Roles

VARIABLES now,
          settings,   \* the chosen provider and whether a secret is stored
          ids,        \* escalated_sso_message_ids
          issued,     \* messages the provider has handed out (external)
          cookie,     \* the OAuth state each browser holds, until when
          callback,   \* what each callback is at
          users,      \* host users: [email -> their role, Nil when none], external
          signedIn,   \* sign-ins by message, and the time of the last
          answered    \* sign-ins by request
vars == <<now, settings, ids, issued, cookie, callback, users, signedIn, answered>>
-----------------------------------------------------------------------------
\* Time.Unix.
Unix(t) == t \div 2

Providers == {"none", "saml", "oauth", "jwt"}
Message == [id : Messages, kind : {"saml", "jwt"}, until : Untils, answers : Requests \cup {Nil}]
NoMessage == [id |-> Nil, kind |-> "jwt", until |-> CHOOSE u \in Untils : TRUE, answers |-> Nil]
Idle == [at |-> "idle", message |-> NoMessage]
Row == [kind : {"request", "saml", "jwt"}, id : Requests \cup Messages, expires : Nat]

TypeOK ==
  /\ now \in 0..MaxTime
  /\ settings \in [provider : Providers, secret : BOOLEAN]
  /\ ids \subseteq Row /\ \A r, s \in ids : r.kind = s.kind /\ r.id = s.id => r = s
  /\ issued \subseteq Message
  /\ \A c \in Callbacks : callback[c].at \in {"idle", "prune", "claim", "resolve"}
  /\ users \in [Emails -> Roles \cup {Nil, "none"}]
  /\ cookie \in [Browsers -> 0..(Unix(MaxTime) + TTL)]
  /\ signedIn \in [Messages -> Nat] /\ answered \in [Requests -> Nat]

Init ==
  /\ now = 0 /\ settings = [provider |-> "none", secret |-> FALSE]
  /\ ids = {} /\ issued = {}
  /\ cookie = [b \in Browsers |-> 0]
  /\ callback = [c \in Callbacks |-> Idle]
  /\ users = [e \in Emails |-> "none"]
  /\ signedIn = [m \in Messages |-> 0] /\ answered = [r \in Requests |-> 0]
-----------------------------------------------------------------------------
Tick ==
  /\ now < MaxTime /\ now' = now + 1
  /\ UNCHANGED <<settings, ids, issued, cookie, callback, users, signedIn, answered>>

\* A masked secret posted back keeps the stored one; the provider chosen must
\* come with what it needs, the mask included.
UpdateSettings ==
  /\ \E p \in Providers, secret \in {"masked", "empty", "new"} :
       /\ p = "jwt" => secret # "empty"
       /\ settings' = [provider |-> p, secret |-> IF secret = "masked" THEN settings.secret ELSE secret = "new"]
  /\ UNCHANGED <<now, ids, issued, cookie, callback, users, signedIn, answered>>

\* prune(): rows go when they expire.
Pruned == {r \in ids : r.expires > Unix(now)}

\* SAML: the request's id is remembered until it must be answered.
SAMLLoginURL ==
  /\ settings.provider = "saml"
  /\ \E r \in Requests :
       /\ answered[r] = 0 /\ \A i \in issued : i.answers # r
       /\ \A row \in ids : row.id # r
       /\ ids' = Pruned \cup {[kind |-> "request", id |-> r, expires |-> Unix(now) + TTL]}
  /\ UNCHANGED cookie

\* OAuth: a fresh state goes into the browser's cookie.
OAuthStart(b) ==
  /\ settings.provider = "oauth"
  /\ cookie' = [cookie EXCEPT ![b] = Unix(now) + TTL]
  /\ UNCHANGED ids

Login(b) ==
  /\ SAMLLoginURL \/ OAuthStart(b)
  /\ UNCHANGED <<now, settings, issued, callback, users, signedIn, answered>>

\* The provider hands out a message with a new id (external).
Issue(m) ==
  /\ \A i \in issued : i.id # m.id
  /\ m.kind = "jwt" => m.answers = Nil
  /\ m.answers # Nil => \E r \in ids : r.id = m.answers
  /\ issued' = issued \cup {m}
  /\ UNCHANGED <<now, settings, ids, cookie, callback, users, signedIn, answered>>

\* A JWT's exp is read to the second (its library), NotOnOrAfter as it is.
Until(m) == IF m.kind = "jwt" THEN 2 * Unix(m.until) ELSE m.until

Valid(m) == now < Until(m) + 2 * Skew

\* A request is answered once: its row goes with the answer.
consume(r) ==
  LET mine == {row \in ids : row.kind = "request" /\ row.id = r /\ row.expires > Unix(now)}
  IN  mine # {} /\ ids' = ids \ mine

Unsolicited == ids' = ids

\* A SAML response comes back: its request is consumed, then the response
\* and its window are checked.  What fails after that has used the request up.
ACS(c) ==
  /\ callback[c].at = "idle" /\ settings.provider = "saml"
  /\ \E m \in issued :
       /\ m.kind = "saml" /\ signedIn[m.id] < MaxSignIns
       /\ IF m.answers = Nil THEN Unsolicited ELSE consume(m.answers)
       /\ callback' = [callback EXCEPT ![c] = IF Valid(m) THEN [at |-> "prune", message |-> m] ELSE Idle]
  /\ UNCHANGED <<now, settings, issued, cookie, users, signedIn, answered>>

JWTCallback(c) ==
  /\ callback[c].at = "idle" /\ settings.provider = "jwt" /\ settings.secret
  /\ \E m \in issued :
       /\ m.kind = "jwt" /\ Valid(m) /\ signedIn[m.id] < MaxSignIns
       /\ callback' = [callback EXCEPT ![c] = [at |-> "prune", message |-> m]]
  /\ UNCHANGED <<now, settings, ids, issued, cookie, users, signedIn, answered>>

\* OAuth: the state must be the cookie's and not have expired; the cookie
\* goes whatever happens.  The code buys an identity from the provider.
OAuthCallback(c, b) ==
  /\ callback[c].at = "idle" /\ settings.provider = "oauth"
  /\ cookie[b] > 0
  /\ cookie' = [cookie EXCEPT ![b] = 0]
  /\ \E exchanged \in BOOLEAN :
       callback' = [callback EXCEPT ![c] = IF Unix(now) < cookie[b] /\ exchanged THEN [Idle EXCEPT !.at = "resolve"] ELSE Idle]
  /\ UNCHANGED <<now, settings, ids, issued, users, signedIn, answered>>

\* claim(): what has expired goes, then the id is recorded unless it is there.
Prune(c) ==
  /\ callback[c].at = "prune"
  /\ ids' = Pruned
  /\ callback' = [callback EXCEPT ![c].at = "claim"]
  /\ UNCHANGED <<now, settings, issued, cookie, users, signedIn, answered>>

ClaimedRow(m) == [kind |-> m.kind, id |-> m.id, expires |-> Unix(Until(m)) + Skew]

claim(c) ==
  LET m == callback[c].message
      free == \A r \in ids : ~(r.kind = m.kind /\ r.id = m.id)
  IN  /\ callback[c].at = "claim"
      /\ ids' = IF free THEN ids \cup {ClaimedRow(m)} ELSE ids
      /\ callback' = [callback EXCEPT ![c] = IF free THEN [@ EXCEPT !.at = "resolve"] ELSE Idle]
      /\ signedIn' = IF free THEN [signedIn EXCEPT ![m.id] = @ + 1] ELSE signedIn
      /\ answered' = IF free /\ m.answers # Nil THEN [answered EXCEPT ![m.answers] = @ + 1] ELSE answered
      /\ UNCHANGED <<now, settings, issued, cookie, users>>

\* Resolve(): the user with that address, or a new one where allowed; the
\* asserted role replaces theirs where roles are synced and it exists.
signIn(c, email, role, create, sync) ==
  LET known == users[email] # "none"
  IN  /\ callback[c].at = "resolve"
      /\ callback' = [callback EXCEPT ![c] = Idle]
      /\ users' = IF ~known /\ ~create THEN users
                  ELSE [users EXCEPT ![email] = IF sync /\ role # Nil THEN role ELSE IF known THEN @ ELSE Nil]
      /\ UNCHANGED <<now, settings, ids, issued, cookie, signedIn, answered>>
-----------------------------------------------------------------------------
Next ==
  \/ Tick \/ UpdateSettings
  \/ \E b \in Browsers : Login(b) \/ \E c \in Callbacks : OAuthCallback(c, b)
  \/ \E m \in Message : Issue(m)
  \/ \E c \in Callbacks : ACS(c) \/ JWTCallback(c) \/ Prune(c) \/ claim(c)
                          \/ \E e \in Emails, r \in Roles \cup {Nil}, create, sync \in BOOLEAN : signIn(c, e, r, create, sync)

Spec == Init /\ [][Next]_vars
-----------------------------------------------------------------------------
\* A message signs in once while it is valid, however many callbacks bring it
\* and whatever is pruned meanwhile (claim, prune).  Again only when its validity
\* ended between the check of it and its claim, or, for an assertion, within the
\* second its validity ends in: the row is kept until that second begins.
ClaimedOnce ==
  \A m \in Messages : signedIn'[m] > signedIn[m] =>
    \/ signedIn[m] = 0
    \/ \E i \in issued : /\ i.id = m
                         /\ Valid(i) => i.kind = "saml" /\ Unix(now) = Unix(Until(i)) + Skew

\* A SAML request brings one sign-in at most.
AnsweredOnce == \A r \in Requests : answered[r] <= 1
=============================================================================
