------------------------------ MODULE GuestCodes ------------------------------
(***************************************************************************)
(* One-time email codes (services/guest_access.go) and the guest writes they *)
(* authorise.  Consume is three statements and the write comes after it:     *)
(* count the guess, read and compare, mark used, create; each is a step      *)
(* here, so the requests of several guests interleave between them.  A write *)
(* that fails hands the code back.                                           *)
(***************************************************************************)
EXTENDS Naturals, FiniteSets

CONSTANTS
  Codes,        \* verification ids (fresh UUIDs: each is inserted at most once)
  Mailboxes,
  Purposes,     \* which of ticket, chat, lookup the instance uses
  Requests,     \* request handlers, of every replica
  MaxAttempts,  \* guestCodeMaxAttempts
  CodeTTL,      \* guestCodeTTL
  Kept,         \* how long an expired code stays in the table (24 hours)
  MaxTime,      \* bound of the clock
  MaxCrashes,   \* bound of the number of crashes
  Nil

ASSUME CodesConstants ==
  /\ Purposes \subseteq {"ticket", "chat", "lookup"}
  /\ MaxAttempts \in Nat \ {0} /\ CodeTTL \in Nat /\ Kept \in Nat
  /\ MaxTime \in Nat /\ MaxCrashes \in Nat
  /\ IsFiniteSet(Requests)

Verification == [mailbox  : Mailboxes,
                 purpose  : Purposes,
                 attempts : 0..MaxAttempts,
                 used     : BOOLEAN,      \* used_at is set
                 expires  : Nat]

ASSUME NilIsNothing ==
  Nil \notin Codes \cup Mailboxes \cup {"ticket", "chat", "lookup"} \cup Verification

VARIABLES
  codes,     \* guest_verifications: a row, or Nil
  inserted,  \* the ids ever inserted
  known,     \* the ids a Challenge has answered with
  now,
  req,       \* what each handler is in the middle of
  compared,  \* how often a guess was compared with the code
  tickets,   \* the tickets inserted under the code
  finished,  \* the writes that succeeded under the code
  crashes

vars == <<codes, inserted, known, now, req, compared, tickets, finished, crashes>>

Steps == {"idle", "mail", "compare", "use", "write", "session", "release"}

\* code and purpose of the request; right: the digits are those mailed.
Request == [step    : Steps,
            code    : Codes \cup {Nil},
            mailbox : Mailboxes \cup {Nil},
            purpose : Purposes \cup {Nil},
            right   : BOOLEAN]

Idle == [step |-> "idle", code |-> Nil, mailbox |-> Nil, purpose |-> Nil, right |-> FALSE]

Init ==
  /\ codes = [c \in Codes |-> Nil]
  /\ inserted = {} /\ known = {}
  /\ now = 0
  /\ req = [r \in Requests |-> Idle]
  /\ compared = [c \in Codes |-> 0]
  /\ tickets = [c \in Codes |-> 0]
  /\ finished = [c \in Codes |-> 0]
  /\ crashes = 0

GoTo(r, step) == req' = [req EXCEPT ![r].step = step]
End(r) == req' = [req EXCEPT ![r] = Idle]

-----------------------------------------------------------------------------
\* Challenge (its budget: GuestBudget): codes expired long ago are deleted, the
\* new one is inserted ...
Purged(t) == [c \in Codes |-> IF codes[c] # Nil /\ codes[c].expires + Kept < t
                              THEN Nil ELSE codes[c]]

InsertCode(r) ==
  /\ req[r].step = "idle"
  /\ \E c \in Codes \ inserted, m \in Mailboxes, q \in Purposes :
       /\ codes' = [Purged(now) EXCEPT ![c] = [mailbox |-> m, purpose |-> q, attempts |-> 0,
                                               used |-> FALSE, expires |-> now + CodeTTL]]
       /\ inserted' = inserted \cup {c}
       /\ req' = [req EXCEPT ![r] = [Idle EXCEPT !.step = "mail", !.code = c]]
  /\ UNCHANGED <<known, now, compared, tickets, finished, crashes>>

\* ... and mailed; a failed mail deletes it again and the id is never told.
MailCode(r) ==
  LET c == req[r].code
  IN  /\ req[r].step = "mail"
      /\ \/ known' = known \cup {c} /\ UNCHANGED codes
         \/ codes' = [codes EXCEPT ![c] = Nil] /\ UNCHANGED known
      /\ End(r)
      /\ UNCHANGED <<inserted, now, compared, tickets, finished, crashes>>

\* UPDATE ... attempts + 1 WHERE unused, unexpired and under five.
Guessable(c) == /\ codes[c] # Nil /\ ~codes[c].used
                /\ codes[c].expires > now /\ codes[c].attempts < MaxAttempts

\* Fault: the guess is counted once it has been compared and found wrong.
CountLater(r) ==
  /\ req[r].step = "idle"
  /\ \E c \in known, m \in Mailboxes, q \in Purposes, right \in BOOLEAN :
       /\ Guessable(c)
       /\ codes' = [codes EXCEPT ![c].attempts = IF right THEN @ ELSE @ + 1]
       /\ req' = [req EXCEPT ![r] = [step |-> "compare", code |-> c, mailbox |-> m,
                                     purpose |-> q, right |-> right]]
  /\ UNCHANGED <<inserted, known, now, compared, tickets, finished, crashes>>

\* Consume: a guest's request, with any mailbox, for any purpose, counted.
CountGuess(r) ==
  /\ req[r].step = "idle"
  /\ \E c \in known, m \in Mailboxes, q \in Purposes, right \in BOOLEAN :
       /\ Guessable(c)
       /\ codes' = [codes EXCEPT ![c].attempts = @ + 1]
       /\ req' = [req EXCEPT ![r] = [step |-> "compare", code |-> c, mailbox |-> m,
                                     purpose |-> q, right |-> right]]
  /\ UNCHANGED <<inserted, known, now, compared, tickets, finished, crashes>>

\* The code is that of the row, mailed to this mailbox for this purpose.
Matches(r) == LET c == req[r].code
              IN  /\ codes[c] # Nil
                  /\ req[r].right
                  /\ codes[c].mailbox = req[r].mailbox /\ codes[c].purpose = req[r].purpose

CompareCode(r) ==
  /\ req[r].step = "compare"
  /\ compared' = [compared EXCEPT ![req[r].code] = @ + 1]
  /\ IF Matches(r) THEN GoTo(r, "use") ELSE End(r)
  /\ UNCHANGED <<codes, inserted, known, now, tickets, finished, crashes>>

\* UPDATE ... used_at WHERE used_at IS NULL: of several right guesses one wins.
UseCode(r) ==
  LET c == req[r].code
      free == codes[c] # Nil /\ ~codes[c].used
  IN  /\ req[r].step = "use"
      /\ codes' = IF free THEN [codes EXCEPT ![c].used = TRUE] ELSE codes
      /\ IF free THEN GoTo(r, "write") ELSE End(r)
      /\ UNCHANGED <<inserted, known, now, compared, tickets, finished, crashes>>

-----------------------------------------------------------------------------
\* Fault: a ticket whose grant cannot be issued hands its code back.
WriteOrRelease(r) ==
  LET c == req[r].code
  IN  /\ req[r].step = "write"
      /\ tickets' = [tickets EXCEPT ![c] = @ + 1]
      /\ GoTo(r, "release")
      /\ UNCHANGED <<codes, inserted, known, now, compared, finished, crashes>>

\* createVerifiedGuestTicket, WidgetChat's start and Lookup: the write the code
\* authorised.  A ticket is one INSERT (and a
\* grant, whose failure hands nothing back); a chat inserts its ticket here and its
\* session in a second step; a lookup keeps the code whatever comes of it.
Write(r) ==
  LET c == req[r].code
      q == req[r].purpose
  IN  /\ req[r].step = "write"
      /\ \/ /\ q = "ticket"
            /\ tickets' = [tickets EXCEPT ![c] = @ + 1]
            /\ finished' = [finished EXCEPT ![c] = @ + 1]
            /\ End(r)
         \/ /\ q = "chat"
            /\ tickets' = [tickets EXCEPT ![c] = @ + 1]
            /\ GoTo(r, "session") /\ UNCHANGED finished
         \/ /\ q = "lookup"
            /\ finished' = [finished EXCEPT ![c] = @ + 1]
            /\ End(r) /\ UNCHANGED tickets
      /\ UNCHANGED <<codes, inserted, known, now, compared, crashes>>

\* An error: a ticket or a chat hands the code back, a lookup does not.
WriteFails(r) ==
  /\ req[r].step \in {"write", "session"}
  /\ IF req[r].purpose = "lookup" THEN End(r) ELSE GoTo(r, "release")
  /\ UNCHANGED <<codes, inserted, known, now, compared, tickets, finished, crashes>>

\* StartSession's second INSERT, in no transaction with the ticket's.
InsertSession(r) ==
  /\ req[r].step = "session"
  /\ finished' = [finished EXCEPT ![req[r].code] = @ + 1]
  /\ End(r)
  /\ UNCHANGED <<codes, inserted, known, now, compared, tickets, crashes>>

\* Fault: the code handed back forgets its guesses.
ReleaseAfresh(r) ==
  LET c == req[r].code
  IN  /\ req[r].step = "release"
      /\ codes' = IF codes[c] = Nil THEN codes
                  ELSE [codes EXCEPT ![c].used = FALSE, ![c].attempts = 0]
      /\ End(r)
      /\ UNCHANGED <<inserted, known, now, compared, tickets, finished, crashes>>

\* Release: used_at is cleared, the guesses stay counted.
Release(r) ==
  LET c == req[r].code
  IN  /\ req[r].step = "release"
      /\ codes' = IF codes[c] = Nil THEN codes ELSE [codes EXCEPT ![c].used = FALSE]
      /\ End(r)
      /\ UNCHANGED <<inserted, known, now, compared, tickets, finished, crashes>>

-----------------------------------------------------------------------------
Tick ==
  /\ now < MaxTime
  /\ now' = now + 1
  /\ UNCHANGED <<codes, inserted, known, req, compared, tickets, finished, crashes>>

\* A process stops in the middle of a request; a code it held stays used.
Crash(r) ==
  /\ crashes < MaxCrashes /\ req[r].step # "idle"
  /\ crashes' = crashes + 1
  /\ End(r)
  /\ UNCHANGED <<codes, inserted, known, now, compared, tickets, finished>>

Next ==
  \/ Tick
  \/ \E r \in Requests :
       \/ InsertCode(r) \/ MailCode(r)
       \/ CountGuess(r) \/ CompareCode(r) \/ UseCode(r)
       \/ Write(r) \/ WriteFails(r) \/ InsertSession(r) \/ Release(r)
       \/ Crash(r)

Spec == Init /\ [][Next]_vars

-----------------------------------------------------------------------------
TypeOK ==
  /\ codes \in [Codes -> Verification \cup {Nil}]
  /\ inserted \subseteq Codes /\ known \subseteq inserted
  /\ now \in Nat
  /\ req \in [Requests -> Request]
  /\ compared \in [Codes -> Nat]
  /\ tickets \in [Codes -> Nat] /\ finished \in [Codes -> Nat]
  /\ crashes \in Nat

\* A request holds a code: it used it and has not released it.
Holds(r, c) == req[r].code = c /\ req[r].step \in {"write", "session", "release"}

\* However requests interleave and writes fail, a code is held by one request
\* at a time.
OneHolder ==
  \A r1, r2 \in Requests : \A c \in Codes :
    Holds(r1, c) /\ Holds(r2, c) => r1 = r2

\* "Allows five guesses ... wrong guesses stay counted": concurrent guesses and
\* a code handed back allow no more.
FiveGuesses == \A c \in Codes : compared[c] <= MaxAttempts

\* The codes seen as CodeOnce sees them: taken by the request that holds it, by a
\* set used_at, or for good by a write.
Written == {c \in Codes : finished[c] > 0}
Taken == {c \in Codes : \/ finished[c] > 0
                         \/ \E r \in Requests : Holds(r, c)
                         \/ (codes[c] # Nil /\ codes[c].used)}

Once == INSTANCE CodeOnce WITH MaxGuesses <- MaxAttempts, guesses <- compared,
                               taken <- Taken, written <- Written

\* Consume and Release, with crashes and failed writes, keep CodeOnce's promise.
IsCodeOnce == Once!OnceSpec

\* "Consumed once": one write succeeds under a code, and while a code can still
\* be guessed none has.
ConsumedOnce ==
  \A c \in Codes : /\ finished[c] <= 1
                   /\ Guessable(c) => finished[c] = 0

\* "If the write a code authorised fails, the code is handed back": a ticket's
\* code that can be guessed again has left no ticket behind.
NothingLeftBehind ==
  \A c \in Codes : Guessable(c) /\ codes[c].purpose # "chat" => tickets[c] = 0

\* The same of every code: starting a chat inserts twice, and the first insert
\* stays when the second fails.
ChatLeavesNothing == \A c \in Codes : Guessable(c) => tickets[c] = 0
=============================================================================
