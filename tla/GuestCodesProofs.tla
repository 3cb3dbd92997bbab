--------------------------- MODULE GuestCodesProofs ---------------------------
(***************************************************************************)
(* Proofs about GuestCodes: of any number of codes, requests, guesses and    *)
(* crashes.                                                                  *)
(***************************************************************************)
EXTENDS GuestCodes, FiniteSetTheorems, TLAPS

\* The requests whose guess is counted and not yet compared.
Pending(c) == {r \in Requests : req[r].step = "compare" /\ req[r].code = c}

\* A guess compared or still to be compared was counted on the row.
GuessesCounted ==
  \A c \in Codes :
    LET guessed == compared[c] + Cardinality(Pending(c))
    IN  /\ guessed <= MaxAttempts
        /\ codes[c] # Nil => guessed <= codes[c].attempts

\* A request in the middle of something has a code that was inserted.
CodeInHand ==
  \A r \in Requests : req[r].step # "idle" => req[r].code \in inserted

\* Nothing is known of a code before it is inserted.
NothingBefore ==
  \A c \in Codes \ inserted :
    codes[c] = Nil /\ compared[c] = 0 /\ finished[c] = 0 /\ tickets[c] = 0

\* A held code is marked used, if it still has a row, and nothing is finished
\* under it yet; a code something was finished under stays used.
HeldIsUsed ==
  /\ \A c \in Codes, r \in Requests :
       Holds(r, c) => finished[c] = 0 /\ (codes[c] # Nil => codes[c].used)
  /\ \A c \in Codes : finished[c] > 0 /\ codes[c] # Nil => codes[c].used
  /\ \A c \in Codes : finished[c] <= 1

\* A request about to use a code has compared a guess with it.
ComparedBeforeUse ==
  \A r \in Requests : req[r].step = "use" => compared[req[r].code] > 0

\* A request that got past the comparison has a code of its own purpose.
RightPurpose ==
  \A r \in Requests :
    req[r].step \in {"use", "write", "session", "release"} /\ codes[req[r].code] # Nil
      => codes[req[r].code].purpose = req[r].purpose

\* A ticket inserted under a code that is not a chat's is a write that succeeded.
TicketIsFinished ==
  \A c \in Codes : codes[c] # Nil /\ codes[c].purpose # "chat" /\ tickets[c] > 0
                     => finished[c] > 0

IInv == TypeOK /\ GuessesCounted /\ CodeInHand /\ NothingBefore /\ ComparedBeforeUse
          /\ HeldIsUsed /\ OneHolder /\ RightPurpose /\ TicketIsFinished

-----------------------------------------------------------------------------
\* Every step keeps the types.
LEMMA TypeStep == TypeOK /\ CodeInHand /\ [Next]_vars => TypeOK'
<1> SUFFICES ASSUME TypeOK, CodeInHand, [Next]_vars PROVE TypeOK'
  OBVIOUS
<1> USE CodesConstants, NilIsNothing DEF TypeOK
<1>a. \A r \in Requests : req[r] \in Request /\ (req[r].step # "idle" => req[r].code \in Codes)
  BY DEF CodeInHand
<1>b. \A r \in Requests, step \in Steps : GoTo(r, step) => req' \in [Requests -> Request]
  BY <1>a DEF GoTo, Request
<1>c. \A r \in Requests : End(r) => req' \in [Requests -> Request]
  BY DEF End, Idle, Request, Steps
<1>d. \A c \in Codes, b \in BOOLEAN : codes[c] # Nil =>
        [codes EXCEPT ![c].used = b] \in [Codes -> Verification \cup {Nil}]
  BY DEF Verification
<1>1. CASE Tick
  BY <1>1 DEF Tick
<1>2. ASSUME NEW r \in Requests, InsertCode(r) PROVE TypeOK'
  <2>1. PICK c \in Codes \ inserted, m \in Mailboxes, q \in Purposes :
           /\ codes' = [Purged(now) EXCEPT ![c] = [mailbox |-> m, purpose |-> q, attempts |-> 0,
                                                   used |-> FALSE, expires |-> now + CodeTTL]]
           /\ inserted' = inserted \cup {c}
           /\ req' = [req EXCEPT ![r] = [Idle EXCEPT !.step = "mail", !.code = c]]
    BY <1>2 DEF InsertCode
  <2>2. Purged(now) \in [Codes -> Verification \cup {Nil}]
    BY DEF Purged
  <2>3. codes' \in [Codes -> Verification \cup {Nil}]
    BY <2>1, <2>2 DEF Verification
  <2>4. req' \in [Requests -> Request]
    BY <2>1 DEF Request, Idle, Steps
  <2> QED BY <1>2, <2>1, <2>3, <2>4 DEF InsertCode
<1>3. ASSUME NEW r \in Requests, MailCode(r) PROVE TypeOK'
  <2>1. req[r].code \in inserted
    BY <1>3 DEF MailCode, CodeInHand
  <2>2. codes' \in [Codes -> Verification \cup {Nil}] /\ known' \subseteq inserted'
    BY <1>3, <2>1 DEF MailCode
  <2> QED BY <1>3, <2>2, <1>c DEF MailCode
<1>4. ASSUME NEW r \in Requests, CountGuess(r) PROVE TypeOK'
  <2>1. PICK c \in known, m \in Mailboxes, q \in Purposes, right \in BOOLEAN :
           /\ Guessable(c)
           /\ codes' = [codes EXCEPT ![c].attempts = @ + 1]
           /\ req' = [req EXCEPT ![r] = [step |-> "compare", code |-> c, mailbox |-> m,
                                         purpose |-> q, right |-> right]]
    BY <1>4 DEF CountGuess
  <2>2. c \in Codes /\ codes[c] \in Verification
    BY <2>1 DEF Guessable
  <2>3. codes' \in [Codes -> Verification \cup {Nil}]
    BY <2>1, <2>2 DEF Guessable, Verification
  <2>4. req' \in [Requests -> Request]
    BY <2>1, <2>2 DEF Request, Steps
  <2> QED BY <1>4, <2>1, <2>3, <2>4 DEF CountGuess
<1>5. ASSUME NEW r \in Requests, CompareCode(r) PROVE TypeOK'
  <2>1. req' \in [Requests -> Request]
    BY <1>5, <1>b, <1>c DEF CompareCode, Steps
  <2>2. compared' \in [Codes -> Nat]
    BY <1>5, <1>a DEF CompareCode
  <2> QED BY <1>5, <2>1, <2>2 DEF CompareCode
<1>6. ASSUME NEW r \in Requests, UseCode(r) PROVE TypeOK'
  <2>1. req' \in [Requests -> Request]
    BY <1>6, <1>b, <1>c DEF UseCode, Steps
  <2>2. codes' \in [Codes -> Verification \cup {Nil}]
    BY <1>6, <1>a, <1>d DEF UseCode
  <2> QED BY <1>6, <2>1, <2>2 DEF UseCode
<1>7. ASSUME NEW r \in Requests, Write(r) PROVE TypeOK'
  <2>1. req' \in [Requests -> Request]
    BY <1>7, <1>b, <1>c DEF Write, Steps
  <2>2. tickets' \in [Codes -> Nat] /\ finished' \in [Codes -> Nat]
    BY <1>7, <1>a DEF Write
  <2> QED BY <1>7, <2>1, <2>2 DEF Write
<1>8. ASSUME NEW r \in Requests, WriteFails(r) PROVE TypeOK'
  BY <1>8, <1>b, <1>c DEF WriteFails, Steps
<1>9. ASSUME NEW r \in Requests, InsertSession(r) PROVE TypeOK'
  BY <1>9, <1>a, <1>c DEF InsertSession
<1>10. ASSUME NEW r \in Requests, Release(r) PROVE TypeOK'
  <2>1. codes' \in [Codes -> Verification \cup {Nil}]
    BY <1>10, <1>a, <1>d DEF Release
  <2> QED BY <1>10, <2>1, <1>c DEF Release
<1>11. ASSUME NEW r \in Requests, Crash(r) PROVE TypeOK'
  BY <1>11, <1>c DEF Crash
<1>12. CASE UNCHANGED vars
  BY <1>12 DEF vars
<1> QED
  BY <1>1, <1>2, <1>3, <1>4, <1>5, <1>6, <1>7, <1>8, <1>9, <1>10, <1>11, <1>12 DEF Next

-----------------------------------------------------------------------------
Core == CodeInHand /\ NothingBefore /\ HeldIsUsed /\ OneHolder

\* The parts about who holds a code survive every step.
LEMMA CoreStep == TypeOK /\ Core /\ [Next]_vars => Core'
<1> SUFFICES ASSUME TypeOK, Core, [Next]_vars PROVE Core'
  OBVIOUS
<1> USE CodesConstants, NilIsNothing
    DEF TypeOK, Core, CodeInHand, NothingBefore, HeldIsUsed, OneHolder
<1>a. \A r \in Requests : req[r] \in Request /\ (req[r].step # "idle" => req[r].code \in inserted)
  OBVIOUS
<1>1. CASE Tick
  BY <1>1 DEF Tick, Holds
<1>2. ASSUME NEW r \in Requests, InsertCode(r) PROVE Core'
  <2>1. PICK c \in Codes \ inserted, m \in Mailboxes, q \in Purposes :
           /\ codes' = [Purged(now) EXCEPT ![c] = [mailbox |-> m, purpose |-> q, attempts |-> 0,
                                                   used |-> FALSE, expires |-> now + CodeTTL]]
           /\ inserted' = inserted \cup {c}
           /\ req' = [req EXCEPT ![r] = [Idle EXCEPT !.step = "mail", !.code = c]]
    BY <1>2 DEF InsertCode
  <2>2. \A d \in Codes : d # c => codes'[d] \in {codes[d], Nil}
    BY <2>1 DEF Purged
  <2>3. \A d \in Codes, s \in Requests : Holds(s, d)' => d # c /\ Holds(s, d)
    BY <2>1, <1>a DEF Holds, Idle
  <2>4. finished[c] = 0
    BY <2>1
  <2>5. UNCHANGED <<finished, tickets, compared>>
    BY <1>2 DEF InsertCode
  <2>6. CodeInHand' /\ NothingBefore'
    BY <2>1, <2>2, <2>5, <1>a DEF Idle
  <2>7. HeldIsUsed' /\ OneHolder'
    BY <2>2, <2>3, <2>4, <2>5
  <2> QED BY <2>6, <2>7
<1>3. ASSUME NEW r \in Requests, MailCode(r) PROVE Core'
  <2>1. \A d \in Codes : codes'[d] \in {codes[d], Nil}
    BY <1>3 DEF MailCode
  <2>2. \A d \in Codes, s \in Requests : Holds(s, d)' => Holds(s, d)
    BY <1>3 DEF MailCode, End, Holds, Idle
  <2>3. CodeInHand'
    BY <1>3 DEF MailCode, End, Idle
  <2> QED BY <1>3, <2>1, <2>2, <2>3 DEF MailCode
<1>4. ASSUME NEW r \in Requests, CountGuess(r) PROVE Core'
  <2>1. PICK c \in known, m \in Mailboxes, q \in Purposes, right \in BOOLEAN :
           /\ Guessable(c)
           /\ codes' = [codes EXCEPT ![c].attempts = @ + 1]
           /\ req' = [req EXCEPT ![r] = [step |-> "compare", code |-> c, mailbox |-> m,
                                         purpose |-> q, right |-> right]]
    BY <1>4 DEF CountGuess
  <2>2. c \in inserted /\ c \in Codes /\ codes[c] \in Verification
    BY <2>1 DEF Guessable
  <2>3. \A d \in Codes :
          /\ codes'[d] # Nil => codes[d] # Nil
          /\ codes[d] # Nil /\ codes[d].used => codes'[d].used
          /\ codes[d] = Nil => codes'[d] = Nil
    BY <2>1, <2>2 DEF Verification
  <2>4. \A d \in Codes, s \in Requests : Holds(s, d)' => Holds(s, d)
    BY <2>1 DEF Holds
  <2>5. CodeInHand'
    BY <2>1, <2>2, <1>4 DEF CountGuess
  <2>6. UNCHANGED <<inserted, compared, finished, tickets>>
    BY <1>4 DEF CountGuess
  <2>7. HeldIsUsed' /\ OneHolder'
    BY <2>3, <2>4, <2>6
  <2>8. NothingBefore'
    BY <2>3, <2>6
  <2> QED BY <2>5, <2>7, <2>8
<1>5. ASSUME NEW r \in Requests, CompareCode(r) PROVE Core'
  <2>1. \A d \in Codes, s \in Requests : Holds(s, d)' => Holds(s, d)
    BY <1>5, <1>a DEF CompareCode, GoTo, End, Holds, Idle, Request
  <2>2. CodeInHand'
    BY <1>5, <1>a DEF CompareCode, GoTo, End, Idle, Request
  <2>3. \A c \in Codes \ inserted : compared'[c] = compared[c]
    BY <1>5, <1>a DEF CompareCode
  <2> QED BY <1>5, <2>1, <2>2, <2>3 DEF CompareCode
<1>6. ASSUME NEW r \in Requests, UseCode(r) PROVE Core'
  <2> DEFINE c == req[r].code
  <2>1. c \in inserted /\ c \in Codes
    BY <1>6, <1>a DEF UseCode
  <2>2. CodeInHand'
    BY <1>6, <1>a DEF UseCode, GoTo, End, Idle, Request
  <2>3. CASE codes[c] # Nil /\ ~codes[c].used
    <3>1. \A d \in Codes, s \in Requests : Holds(s, d)' => Holds(s, d) \/ (s = r /\ d = c)
      BY <1>6, <2>3, <1>a DEF UseCode, GoTo, Holds, Request
    <3>2. \A s \in Requests : ~Holds(s, c)
      BY <2>1, <2>3
    <3>3. finished[c] = 0
      BY <2>1, <2>3
    <3>4. codes'[c] # Nil => codes'[c].used
      BY <1>6, <2>1, <2>3 DEF UseCode, Verification
    <3>5. \A d \in Codes : d # c => codes'[d] = codes[d]
      BY <1>6, <2>3 DEF UseCode
    <3> QED BY <1>6, <2>1, <2>2, <3>1, <3>2, <3>3, <3>4, <3>5 DEF UseCode
  <2>4. CASE ~(codes[c] # Nil /\ ~codes[c].used)
    <3>1. \A d \in Codes, s \in Requests : Holds(s, d)' => Holds(s, d)
      BY <1>6, <2>4 DEF UseCode, End, Holds, Idle
    <3> QED BY <1>6, <2>2, <2>4, <3>1 DEF UseCode
  <2> QED BY <2>3, <2>4
<1>7. ASSUME NEW r \in Requests, Write(r) PROVE Core'
  <2> DEFINE c == req[r].code
  <2>1. c \in inserted /\ c \in Codes /\ Holds(r, c)
    BY <1>7, <1>a DEF Write, Holds
  <2>2. finished[c] = 0 /\ (codes[c] # Nil => codes[c].used)
    BY <2>1
  <2>3. CodeInHand'
    BY <1>7, <1>a DEF Write, GoTo, End, Idle, Request
  <2>4. CASE req[r].purpose = "chat"
    <3>1. \A d \in Codes, s \in Requests : Holds(s, d)' => Holds(s, d)
      BY <1>7, <2>4, <1>a DEF Write, GoTo, Holds, Request
    <3>2. "chat" \in Purposes
      BY <2>4, <1>a DEF Request
    <3>3. \A d \in Codes \ inserted : tickets'[d] = tickets[d]
      BY <1>7, <2>1 DEF Write
    <3> QED BY <1>7, <2>3, <2>4, <3>1, <3>2, <3>3 DEF Write
  <2>5. CASE req[r].purpose # "chat"
    <3>1. \A d \in Codes, s \in Requests : Holds(s, d)' => Holds(s, d) /\ d # c
      BY <1>7, <2>5, <2>1 DEF Write, End, Holds, Idle
    <3>2. finished'[c] = 1
      BY <1>7, <2>1, <2>2, <2>5 DEF Write
    <3>3. \A d \in Codes : d # c => finished'[d] = finished[d] /\ tickets'[d] = tickets[d]
      BY <1>7, <2>5 DEF Write
    <3> QED BY <1>7, <2>1, <2>2, <2>3, <3>1, <3>2, <3>3 DEF Write
  <2> QED BY <2>4, <2>5
<1>8. ASSUME NEW r \in Requests, WriteFails(r) PROVE Core'
  <2>1. \A d \in Codes, s \in Requests : Holds(s, d)' => Holds(s, d)
    BY <1>8, <1>a DEF WriteFails, GoTo, End, Holds, Idle, Request
  <2>2. CodeInHand'
    BY <1>8, <1>a DEF WriteFails, GoTo, End, Idle, Request
  <2> QED BY <1>8, <2>1, <2>2 DEF WriteFails
<1>9. ASSUME NEW r \in Requests, InsertSession(r) PROVE Core'
  <2> DEFINE c == req[r].code
  <2>1. c \in inserted /\ c \in Codes /\ Holds(r, c)
    BY <1>9, <1>a DEF InsertSession, Holds
  <2>2. finished[c] = 0 /\ (codes[c] # Nil => codes[c].used)
    BY <2>1
  <2>3. CodeInHand'
    BY <1>9, <1>a DEF InsertSession, End, Idle, Request
  <2>4. \A d \in Codes, s \in Requests : Holds(s, d)' => Holds(s, d) /\ d # c
    BY <1>9, <2>1 DEF InsertSession, End, Holds, Idle
  <2>5. finished'[c] = 1
    BY <1>9, <2>1, <2>2 DEF InsertSession
  <2>6. \A d \in Codes : d # c => finished'[d] = finished[d]
    BY <1>9 DEF InsertSession
  <2> QED BY <1>9, <2>1, <2>2, <2>3, <2>4, <2>5, <2>6 DEF InsertSession
<1>10. ASSUME NEW r \in Requests, Release(r) PROVE Core'
  <2> DEFINE c == req[r].code
  <2>1. c \in inserted /\ c \in Codes /\ Holds(r, c)
    BY <1>10, <1>a DEF Release, Holds
  <2>2. finished[c] = 0
    BY <2>1
  <2>3. CodeInHand'
    BY <1>10, <1>a DEF Release, End, Idle, Request
  <2>4. \A d \in Codes, s \in Requests : Holds(s, d)' => Holds(s, d) /\ d # c
    BY <1>10, <2>1 DEF Release, End, Holds, Idle
  <2>5. \A d \in Codes : d # c => codes'[d] = codes[d]
    BY <1>10 DEF Release
  <2> QED BY <1>10, <2>1, <2>2, <2>3, <2>4, <2>5 DEF Release
<1>11. ASSUME NEW r \in Requests, Crash(r) PROVE Core'
  <2>1. \A d \in Codes, s \in Requests : Holds(s, d)' => Holds(s, d)
    BY <1>11 DEF Crash, End, Holds, Idle
  <2>2. CodeInHand'
    BY <1>11, <1>a DEF Crash, End, Idle, Request
  <2> QED BY <1>11, <2>1, <2>2 DEF Crash
<1>12. CASE UNCHANGED vars
  BY <1>12 DEF vars, Holds
<1> QED
  BY <1>1, <1>2, <1>3, <1>4, <1>5, <1>6, <1>7, <1>8, <1>9, <1>10, <1>11, <1>12 DEF Next

-----------------------------------------------------------------------------
\* Guesses still to be compared are finitely many.
LEMMA PendingFinite == \A c : IsFiniteSet(Pending(c)) /\ Cardinality(Pending(c)) \in Nat
<1> TAKE c
<1>1. IsFiniteSet(Pending(c))
  BY CodesConstants, FS_Subset DEF Pending
<1> QED BY <1>1, FS_CardinalityType

\* A step that leaves the guesses under way and the counts alone.
LEMMA GuessesUntouched ==
  ASSUME GuessesCounted,
         \A c \in Codes : Pending(c)' = Pending(c),
         compared' = compared,
         \A c \in Codes : codes'[c] # Nil => codes[c] # Nil /\ codes'[c].attempts = codes[c].attempts
  PROVE  GuessesCounted'
BY DEF GuessesCounted

\* Every step keeps guesses within the count of the row.
LEMMA GuessStep == TypeOK /\ CodeInHand /\ NothingBefore /\ GuessesCounted /\ [Next]_vars => GuessesCounted'
<1> SUFFICES ASSUME TypeOK, CodeInHand, NothingBefore, GuessesCounted, [Next]_vars
             PROVE  GuessesCounted'
  OBVIOUS
<1> USE CodesConstants, NilIsNothing DEF TypeOK
<1>a. \A r \in Requests : req[r] \in Request /\ (req[r].step # "idle" => req[r].code \in inserted)
  BY DEF CodeInHand
<1>b. \A c \in Codes : codes[c] # Nil => codes[c].attempts \in 0..MaxAttempts
  BY DEF Verification
\* A request that leaves "compare" takes one guess away.
<1>c. ASSUME NEW r \in Requests, NEW c \in Codes, req[r].step = "compare", req[r].code = c,
             \A s \in Requests \ {r} : req'[s] = req[s],
             req'[r].step # "compare"
      PROVE  /\ Cardinality(Pending(c)') = Cardinality(Pending(c)) - 1
             /\ \A d \in Codes \ {c} : Pending(d)' = Pending(d)
  <2>1. Pending(c)' = Pending(c) \ {r} /\ r \in Pending(c)
    BY <1>c DEF Pending
  <2>2. \A d \in Codes \ {c} : Pending(d)' = Pending(d)
    BY <1>c DEF Pending
  <2> QED BY <2>1, <2>2, PendingFinite, FS_RemoveElement
<1>1. CASE Tick
  BY <1>1, GuessesUntouched DEF Tick, Pending
<1>2. ASSUME NEW r \in Requests, InsertCode(r) PROVE GuessesCounted'
  <2>1. PICK c \in Codes \ inserted, m \in Mailboxes, q \in Purposes :
           /\ codes' = [Purged(now) EXCEPT ![c] = [mailbox |-> m, purpose |-> q, attempts |-> 0,
                                                   used |-> FALSE, expires |-> now + CodeTTL]]
           /\ inserted' = inserted \cup {c}
           /\ req' = [req EXCEPT ![r] = [Idle EXCEPT !.step = "mail", !.code = c]]
    BY <1>2 DEF InsertCode
  <2>2. \A d \in Codes : Pending(d)' = Pending(d)
    BY <1>2, <2>1 DEF Pending, InsertCode, Idle
  <2>3. \A d \in Codes : d # c => codes'[d] \in {codes[d], Nil}
    BY <2>1 DEF Purged
  <2>4. compared' = compared
    BY <1>2 DEF InsertCode
  <2>5. compared[c] = 0 /\ Pending(c) = {}
    BY <1>a DEF NothingBefore, Pending
  <2>6. compared[c] + Cardinality(Pending(c)) = 0
    BY <2>5, FS_EmptySet
  <2>7. codes'[c].attempts = 0
    BY <2>1 DEF Purged
  <2> QED BY <2>2, <2>3, <2>4, <2>6, <2>7 DEF GuessesCounted
<1>3. ASSUME NEW r \in Requests, MailCode(r) PROVE GuessesCounted'
  <2>1. \A d \in Codes : Pending(d)' = Pending(d)
    BY <1>3 DEF MailCode, End, Pending, Idle
  <2>2. \A d \in Codes : codes'[d] \in {codes[d], Nil}
    BY <1>3 DEF MailCode
  <2> QED BY <1>3, <2>1, <2>2, GuessesUntouched DEF MailCode
<1>4. ASSUME NEW r \in Requests, CountGuess(r) PROVE GuessesCounted'
  <2>1. PICK c \in known, m \in Mailboxes, q \in Purposes, right \in BOOLEAN :
           /\ Guessable(c)
           /\ codes' = [codes EXCEPT ![c].attempts = @ + 1]
           /\ req' = [req EXCEPT ![r] = [step |-> "compare", code |-> c, mailbox |-> m,
                                         purpose |-> q, right |-> right]]
    BY <1>4 DEF CountGuess
  <2>2. c \in Codes /\ codes[c] \in Verification /\ codes[c].attempts < MaxAttempts
    BY <2>1 DEF Guessable
  <2>3. r \notin Pending(c) /\ Pending(c)' = Pending(c) \cup {r}
    BY <1>4, <2>1 DEF CountGuess, Pending
  <2>4. Cardinality(Pending(c)') = Cardinality(Pending(c)) + 1
    BY <2>3, PendingFinite, FS_AddElement
  <2>5. \A d \in Codes \ {c} : Pending(d)' = Pending(d) /\ codes'[d] = codes[d]
    BY <1>4, <2>1 DEF CountGuess, Pending
  <2>6. codes'[c].attempts = codes[c].attempts + 1
    BY <2>1, <2>2 DEF Verification
  <2>7. compared' = compared
    BY <1>4 DEF CountGuess
  <2>8. compared[c] + Cardinality(Pending(c)) <= codes[c].attempts
    BY <2>2 DEF GuessesCounted
  <2>9. compared[c] \in Nat /\ Cardinality(Pending(c)) \in Nat /\ codes[c].attempts \in Nat
    BY <2>2, <1>b, PendingFinite
  <2>10. LET guessed == compared[c] + Cardinality(Pending(c)')
         IN  guessed <= MaxAttempts /\ guessed <= codes'[c].attempts
    BY <2>2, <2>4, <2>6, <2>8, <2>9
  <2> QED BY <2>5, <2>7, <2>10 DEF GuessesCounted
<1>5. ASSUME NEW r \in Requests, CompareCode(r) PROVE GuessesCounted'
  <2>0. PICK c \in Codes : c = req[r].code
    BY <1>5, <1>a DEF CompareCode
  <2>1. c \in Codes /\ codes' = codes /\ compared' = [compared EXCEPT ![c] = @ + 1]
    BY <1>5, <2>0 DEF CompareCode
  <2>2. (\A s \in Requests \ {r} : req'[s] = req[s]) /\ req'[r].step # "compare"
    BY <1>5, <1>a DEF CompareCode, GoTo, End, Idle, Request
  <2>3. /\ Cardinality(Pending(c)') = Cardinality(Pending(c)) - 1
        /\ \A d \in Codes \ {c} : Pending(d)' = Pending(d)
    BY <1>5, <2>0, <2>1, <2>2, <1>c DEF CompareCode
  <2>4. compared'[c] + Cardinality(Pending(c)') = compared[c] + Cardinality(Pending(c))
    BY <2>1, <2>3, PendingFinite
  <2> QED BY <2>1, <2>3, <2>4 DEF GuessesCounted
<1>6. ASSUME NEW r \in Requests, UseCode(r) PROVE GuessesCounted'
  <2>1. \A d \in Codes : Pending(d)' = Pending(d)
    BY <1>6, <1>a DEF UseCode, GoTo, End, Pending, Idle, Request
  <2>2. \A d \in Codes : codes'[d] # Nil => codes[d] # Nil /\ codes'[d].attempts = codes[d].attempts
    BY <1>6, <1>a DEF UseCode, Verification
  <2> QED BY <1>6, <2>1, <2>2, GuessesUntouched DEF UseCode
<1>7. ASSUME NEW r \in Requests, Write(r) PROVE GuessesCounted'
  <2>1. \A d \in Codes : Pending(d)' = Pending(d)
    BY <1>7, <1>a DEF Write, GoTo, End, Pending, Idle, Request
  <2> QED BY <1>7, <2>1, GuessesUntouched DEF Write
<1>8. ASSUME NEW r \in Requests, WriteFails(r) PROVE GuessesCounted'
  <2>1. \A d \in Codes : Pending(d)' = Pending(d)
    BY <1>8, <1>a DEF WriteFails, GoTo, End, Pending, Idle, Request
  <2> QED BY <1>8, <2>1, GuessesUntouched DEF WriteFails
<1>9. ASSUME NEW r \in Requests, InsertSession(r) PROVE GuessesCounted'
  <2>1. \A d \in Codes : Pending(d)' = Pending(d)
    BY <1>9 DEF InsertSession, End, Pending, Idle
  <2> QED BY <1>9, <2>1, GuessesUntouched DEF InsertSession
<1>10. ASSUME NEW r \in Requests, Release(r) PROVE GuessesCounted'
  <2>1. \A d \in Codes : Pending(d)' = Pending(d)
    BY <1>10 DEF Release, End, Pending, Idle
  <2>2. \A d \in Codes : codes'[d] # Nil => codes[d] # Nil /\ codes'[d].attempts = codes[d].attempts
    BY <1>10, <1>a DEF Release, Verification
  <2> QED BY <1>10, <2>1, <2>2, GuessesUntouched DEF Release
<1>11. ASSUME NEW r \in Requests, Crash(r) PROVE GuessesCounted'
  <2>0. PICK c \in Codes : c = req[r].code
    BY <1>11, <1>a DEF Crash
  <2>1. (\A s \in Requests \ {r} : req'[s] = req[s]) /\ req'[r].step # "compare"
        /\ codes' = codes /\ compared' = compared
    BY <1>11, <1>a DEF Crash, End, Idle
  <2>2. CASE req[r].step = "compare"
    <3>1. /\ Cardinality(Pending(c)') = Cardinality(Pending(c)) - 1
          /\ \A d \in Codes \ {c} : Pending(d)' = Pending(d)
      BY <2>0, <2>1, <2>2, <1>c
    <3>2. compared'[c] + Cardinality(Pending(c)') < compared[c] + Cardinality(Pending(c))
      BY <2>1, <3>1, PendingFinite
    <3>3. compared'[c] + Cardinality(Pending(c)') \in Int /\ compared[c] + Cardinality(Pending(c)) \in Int
      BY <2>1, <3>1, PendingFinite
    <3>4. LET guessed == compared'[c] + Cardinality(Pending(c)')
          IN  guessed <= MaxAttempts /\ (codes[c] # Nil => guessed <= codes[c].attempts)
      BY <2>1, <3>2, <3>3, <1>b DEF GuessesCounted
    <3> QED BY <2>1, <3>1, <3>4 DEF GuessesCounted
  <2>3. CASE req[r].step # "compare"
    <3>1. \A d \in Codes : Pending(d)' = Pending(d)
      BY <2>1, <2>3 DEF Pending
    <3> QED BY <2>1, <3>1, GuessesUntouched
  <2> QED BY <2>2, <2>3
<1>12. CASE UNCHANGED vars
  BY <1>12, GuessesUntouched DEF vars, Pending
<1> QED
  BY <1>1, <1>2, <1>3, <1>4, <1>5, <1>6, <1>7, <1>8, <1>9, <1>10, <1>11, <1>12 DEF Next

-----------------------------------------------------------------------------
\* Only a comparison leads to "use", and comparisons are never uncounted.
LEMMA UseStep == TypeOK /\ CodeInHand /\ ComparedBeforeUse /\ [Next]_vars => ComparedBeforeUse'
<1> SUFFICES ASSUME TypeOK, CodeInHand, ComparedBeforeUse, [Next]_vars PROVE ComparedBeforeUse'
  OBVIOUS
<1>a. \A r \in Requests : req[r] \in Request /\ (req[r].step # "idle" => req[r].code \in Codes)
  BY DEF TypeOK, CodeInHand
<1>b. ASSUME compared' = compared,
             \A s \in Requests : req'[s].step = "use" => req'[s] = req[s]
      PROVE  ComparedBeforeUse'
  BY <1>b DEF ComparedBeforeUse
<1>1. CASE Tick
  BY <1>1, <1>b DEF Tick
<1>2. ASSUME NEW r \in Requests, InsertCode(r) PROVE ComparedBeforeUse'
  BY <1>2, <1>b DEF InsertCode, Idle, TypeOK
<1>3. ASSUME NEW r \in Requests, MailCode(r) PROVE ComparedBeforeUse'
  BY <1>3, <1>b DEF MailCode, End, Idle, TypeOK
<1>4. ASSUME NEW r \in Requests, CountGuess(r) PROVE ComparedBeforeUse'
  <2>1. \A s \in Requests : req'[s].step = "use" => req'[s] = req[s]
    BY <1>4 DEF CountGuess, TypeOK
  <2> QED BY <1>4, <1>b, <2>1 DEF CountGuess
<1>5. ASSUME NEW r \in Requests, CompareCode(r) PROVE ComparedBeforeUse'
  <2>0. PICK c \in Codes : c = req[r].code
    BY <1>5, <1>a DEF CompareCode
  <2>1. compared' = [compared EXCEPT ![c] = @ + 1] /\ compared \in [Codes -> Nat]
    BY <1>5, <2>0 DEF CompareCode, TypeOK
  <2>2. \A d \in Codes : compared[d] > 0 => compared'[d] > 0
    BY <2>1
  <2>3. compared'[c] > 0
    BY <2>1
  <2>4. \A s \in Requests \ {r} : req'[s] = req[s]
    BY <1>5 DEF CompareCode, GoTo, End, TypeOK
  <2>5. req'[r].step = "use" => req'[r].code = c
    BY <1>5, <1>a, <2>0 DEF CompareCode, GoTo, End, Idle, TypeOK, Request
  <2> QED BY <1>a, <2>2, <2>3, <2>4, <2>5 DEF ComparedBeforeUse
<1>6. ASSUME NEW r \in Requests, UseCode(r) PROVE ComparedBeforeUse'
  BY <1>6, <1>a, <1>b DEF UseCode, GoTo, End, Idle, Request, TypeOK
<1>7. ASSUME NEW r \in Requests, Write(r) PROVE ComparedBeforeUse'
  BY <1>7, <1>a, <1>b DEF Write, GoTo, End, Idle, Request, TypeOK
<1>8. ASSUME NEW r \in Requests, WriteFails(r) PROVE ComparedBeforeUse'
  BY <1>8, <1>a, <1>b DEF WriteFails, GoTo, End, Idle, Request, TypeOK
<1>9. ASSUME NEW r \in Requests, InsertSession(r) PROVE ComparedBeforeUse'
  BY <1>9, <1>b DEF InsertSession, End, Idle, TypeOK
<1>10. ASSUME NEW r \in Requests, Release(r) PROVE ComparedBeforeUse'
  BY <1>10, <1>b DEF Release, End, Idle, TypeOK
<1>11. ASSUME NEW r \in Requests, Crash(r) PROVE ComparedBeforeUse'
  BY <1>11, <1>b DEF Crash, End, Idle, TypeOK
<1>12. CASE UNCHANGED vars
  BY <1>12, <1>b DEF vars
<1> QED
  BY <1>1, <1>2, <1>3, <1>4, <1>5, <1>6, <1>7, <1>8, <1>9, <1>10, <1>11, <1>12 DEF Next

-----------------------------------------------------------------------------
\* A row keeps its purpose, and a request passes the comparison only with it.
LEMMA PurposeStep == TypeOK /\ CodeInHand /\ RightPurpose /\ [Next]_vars => RightPurpose'
<1> SUFFICES ASSUME TypeOK, CodeInHand, RightPurpose, [Next]_vars PROVE RightPurpose'
  OBVIOUS
<1> USE CodesConstants, NilIsNothing
<1> DEFINE Past(q) == q.step \in {"use", "write", "session", "release"}
<1>a. \A r \in Requests : /\ req[r] \in Request
                          /\ req[r].step # "idle" => req[r].code \in inserted /\ req[r].code \in Codes
  BY DEF TypeOK, CodeInHand
<1>b. ASSUME \A c \in inserted : codes'[c] # Nil =>
               codes[c] # Nil /\ codes'[c].purpose = codes[c].purpose,
             \A s \in Requests : Past(req'[s]) =>
               /\ req'[s].code = req[s].code /\ req'[s].purpose = req[s].purpose
               /\ \/ Past(req[s])
                  \/ /\ req[s].step # "idle"
                     /\ codes[req[s].code] # Nil => codes[req[s].code].purpose = req[s].purpose
      PROVE  RightPurpose'
  BY <1>a, <1>b DEF RightPurpose
<1>1. CASE Tick
  BY <1>1, <1>b DEF Tick
<1>2. ASSUME NEW r \in Requests, InsertCode(r) PROVE RightPurpose'
  <2>1. PICK c \in Codes \ inserted, m \in Mailboxes, q \in Purposes :
           /\ codes' = [Purged(now) EXCEPT ![c] = [mailbox |-> m, purpose |-> q, attempts |-> 0,
                                                   used |-> FALSE, expires |-> now + CodeTTL]]
           /\ req' = [req EXCEPT ![r] = [Idle EXCEPT !.step = "mail", !.code = c]]
    BY <1>2 DEF InsertCode
  <2>2. \A d \in inserted : codes'[d] \in {codes[d], Nil}
    BY <2>1 DEF Purged, TypeOK
  <2>3. \A s \in Requests : Past(req'[s]) => req'[s] = req[s]
    BY <2>1 DEF Idle, TypeOK
  <2> QED BY <1>b, <2>2, <2>3
<1>3. ASSUME NEW r \in Requests, MailCode(r) PROVE RightPurpose'
  <2>1. \A d \in inserted : codes'[d] \in {codes[d], Nil}
    BY <1>3 DEF MailCode, TypeOK
  <2>2. \A s \in Requests : Past(req'[s]) => req'[s] = req[s]
    BY <1>3 DEF MailCode, End, Idle, TypeOK
  <2> QED BY <1>b, <2>1, <2>2
<1>4. ASSUME NEW r \in Requests, CountGuess(r) PROVE RightPurpose'
  <2>1. \A d \in inserted : codes'[d] # Nil =>
           codes[d] # Nil /\ codes'[d].purpose = codes[d].purpose
    BY <1>4 DEF CountGuess, Guessable, TypeOK, Verification
  <2>2. \A s \in Requests : Past(req'[s]) => req'[s] = req[s]
    BY <1>4 DEF CountGuess, TypeOK
  <2> QED BY <1>b, <2>1, <2>2
<1>5. ASSUME NEW r \in Requests, CompareCode(r) PROVE RightPurpose'
  <2>1. \A s \in Requests \ {r} : req'[s] = req[s]
    BY <1>5 DEF CompareCode, GoTo, End, TypeOK
  <2>2. Past(req'[r]) => /\ req'[r].code = req[r].code /\ req'[r].purpose = req[r].purpose
                         /\ codes[req[r].code].purpose = req[r].purpose
    BY <1>5, <1>a DEF CompareCode, Matches, GoTo, End, Idle, TypeOK, Request
  <2>3. codes' = codes /\ req[r].step # "idle"
    BY <1>5 DEF CompareCode
  <2> QED BY <1>b, <2>1, <2>2, <2>3
<1>6. ASSUME NEW r \in Requests,
             \A d \in inserted : codes'[d] # Nil =>
               codes[d] # Nil /\ codes'[d].purpose = codes[d].purpose,
             Past(req[r]), GoTo(r, "write") \/ GoTo(r, "session") \/ GoTo(r, "release") \/ End(r)
      PROVE  RightPurpose'
  <2>1. \A s \in Requests \ {r} : req'[s] = req[s]
    BY <1>6 DEF GoTo, End, TypeOK
  <2>2. Past(req'[r]) => req'[r].code = req[r].code /\ req'[r].purpose = req[r].purpose
    BY <1>6, <1>a DEF GoTo, End, Idle, TypeOK, Request
  <2> QED BY <1>b, <1>6, <2>1, <2>2
<1>7. ASSUME NEW r \in Requests, UseCode(r) PROVE RightPurpose'
  <2>1. \A d \in inserted : codes'[d] # Nil =>
           codes[d] # Nil /\ codes'[d].purpose = codes[d].purpose
    BY <1>7 DEF UseCode, TypeOK, Verification
  <2> QED BY <1>6, <1>7, <2>1 DEF UseCode
<1>8. ASSUME NEW r \in Requests, Write(r) \/ WriteFails(r) \/ InsertSession(r) PROVE RightPurpose'
  BY <1>6, <1>8 DEF Write, WriteFails, InsertSession
<1>9. ASSUME NEW r \in Requests, Release(r) PROVE RightPurpose'
  <2>1. \A d \in inserted : codes'[d] # Nil =>
           codes[d] # Nil /\ codes'[d].purpose = codes[d].purpose
    BY <1>9 DEF Release, TypeOK, Verification
  <2> QED BY <1>6, <1>9, <2>1 DEF Release
<1>10. ASSUME NEW r \in Requests, Crash(r) PROVE RightPurpose'
  <2>1. \A s \in Requests : Past(req'[s]) => req'[s] = req[s]
    BY <1>10 DEF Crash, End, Idle, TypeOK
  <2> QED BY <1>b, <1>10, <2>1 DEF Crash
<1>11. CASE UNCHANGED vars
  BY <1>11, <1>b DEF vars
<1> QED
  BY <1>1, <1>2, <1>3, <1>4, <1>5, <1>7, <1>8, <1>9, <1>10, <1>11 DEF Next

\* A ticket's code that has left a ticket has finished its write.
LEMMA TicketStep ==
  TypeOK /\ CodeInHand /\ NothingBefore /\ RightPurpose /\ TicketIsFinished /\ [Next]_vars
    => TicketIsFinished'
<1> SUFFICES ASSUME TypeOK, CodeInHand, NothingBefore, RightPurpose, TicketIsFinished, [Next]_vars
             PROVE  TicketIsFinished'
  OBVIOUS
<1> USE CodesConstants, NilIsNothing
<1>a. ASSUME tickets' = tickets,
             \A c \in Codes : finished[c] > 0 => finished'[c] > 0,
             \A c \in Codes : codes'[c] # Nil /\ tickets[c] > 0 =>
               codes[c] # Nil /\ codes'[c].purpose = codes[c].purpose
      PROVE  TicketIsFinished'
  BY <1>a DEF TicketIsFinished
<1>1. CASE Tick
  BY <1>1, <1>a DEF Tick
<1>2. ASSUME NEW r \in Requests, InsertCode(r) PROVE TicketIsFinished'
  <2>1. PICK c \in Codes \ inserted, m \in Mailboxes, q \in Purposes :
           codes' = [Purged(now) EXCEPT ![c] = [mailbox |-> m, purpose |-> q, attempts |-> 0,
                                                used |-> FALSE, expires |-> now + CodeTTL]]
    BY <1>2 DEF InsertCode
  <2>2. \A d \in Codes : d # c => codes'[d] \in {codes[d], Nil}
    BY <2>1 DEF Purged
  <2>3. tickets[c] = 0
    BY DEF NothingBefore
  <2> QED BY <1>2, <1>a, <2>2, <2>3 DEF InsertCode
<1>3. ASSUME NEW r \in Requests, MailCode(r) PROVE TicketIsFinished'
  BY <1>3, <1>a DEF MailCode, TypeOK
<1>4. ASSUME NEW r \in Requests, CountGuess(r) PROVE TicketIsFinished'
  BY <1>4, <1>a DEF CountGuess, Guessable, TypeOK, Verification
<1>5. ASSUME NEW r \in Requests, CompareCode(r) \/ WriteFails(r) \/ Crash(r) PROVE TicketIsFinished'
  BY <1>5, <1>a DEF CompareCode, WriteFails, Crash
<1>6. ASSUME NEW r \in Requests, UseCode(r) \/ Release(r) PROVE TicketIsFinished'
  BY <1>6, <1>a DEF UseCode, Release, TypeOK, Verification
<1>7. ASSUME NEW r \in Requests, InsertSession(r) PROVE TicketIsFinished'
  <2>1. \A c \in Codes : finished[c] > 0 => finished'[c] > 0
    BY <1>7 DEF InsertSession, TypeOK
  <2> QED BY <1>7, <1>a, <2>1 DEF InsertSession
<1>8. ASSUME NEW r \in Requests, Write(r) PROVE TicketIsFinished'
  <2>0. PICK c \in Codes : c = req[r].code /\ codes' = codes
    BY <1>8 DEF Write, CodeInHand, TypeOK
  <2>1. CASE req[r].purpose = "chat"
    <3>1. codes[c] # Nil => codes[c].purpose = "chat"
      BY <1>8, <2>0, <2>1 DEF Write, RightPurpose
    <3>2. \A d \in Codes \ {c} : tickets'[d] = tickets[d]
      BY <1>8, <2>0, <2>1 DEF Write, TypeOK
    <3>3. finished' = finished
      BY <1>8, <2>1 DEF Write
    <3> QED BY <2>0, <3>1, <3>2, <3>3 DEF TicketIsFinished
  <2>2. CASE req[r].purpose # "chat"
    <3>1. finished'[c] > 0
      BY <1>8, <2>0, <2>2 DEF Write, TypeOK
    <3>2. \A d \in Codes \ {c} : tickets'[d] = tickets[d] /\ finished'[d] = finished[d]
      BY <1>8, <2>0, <2>2 DEF Write, TypeOK
    <3> QED BY <2>0, <3>1, <3>2 DEF TicketIsFinished
  <2> QED BY <2>1, <2>2
<1>9. CASE UNCHANGED vars
  BY <1>9, <1>a DEF vars
<1> QED
  BY <1>1, <1>2, <1>3, <1>4, <1>5, <1>6, <1>7, <1>8, <1>9 DEF Next

-----------------------------------------------------------------------------
\* The initial states.
LEMMA InitInv == Init => IInv
<1> SUFFICES ASSUME Init PROVE IInv
  OBVIOUS
<1> USE CodesConstants, NilIsNothing DEF Init
<1>1. TypeOK
  BY DEF TypeOK, Idle, Request, Steps
<1>2. \A c \in Codes : Pending(c) = {}
  BY DEF Pending, Idle
<1>3. \A c \in Codes : compared[c] + Cardinality(Pending(c)) = 0
  BY <1>2, FS_EmptySet
<1>4. GuessesCounted
  BY <1>3 DEF GuessesCounted
<1> QED BY <1>1, <1>4
          DEF IInv, CodeInHand, NothingBefore, ComparedBeforeUse, HeldIsUsed, OneHolder,
              RightPurpose, TicketIsFinished, Holds, Idle

LEMMA StepInv == IInv /\ [Next]_vars => IInv'
BY TypeStep, CoreStep, GuessStep, UseStep, PurposeStep, TicketStep DEF IInv, Core

\* In every reachable state the inductive invariant holds.
THEOREM Invariant == Spec => []IInv
BY InitInv, StepInv, PTL DEF Spec

\* The variables keep their types.
THEOREM TypeCorrect == Spec => []TypeOK
<1>1. IInv => TypeOK
  BY DEF IInv
<1> QED BY Invariant, <1>1, PTL

\* At most one request at a time holds a code, however many race for it.
THEOREM HolderIsUnique == Spec => []OneHolder
<1>1. IInv => OneHolder
  BY DEF IInv
<1> QED BY Invariant, <1>1, PTL

\* No code is ever compared with more than MaxAttempts guesses.
THEOREM GuessesAreBounded == Spec => []FiveGuesses
<1>1. IInv => FiveGuesses
  <2> SUFFICES ASSUME IInv, NEW c \in Codes PROVE compared[c] <= MaxAttempts
    BY DEF FiveGuesses
  <2>1. compared[c] + Cardinality(Pending(c)) <= MaxAttempts
    BY DEF IInv, GuessesCounted
  <2>2. compared[c] \in Nat /\ Cardinality(Pending(c)) \in Nat
    BY PendingFinite DEF IInv, TypeOK
  <2> QED BY <2>1, <2>2, CodesConstants
<1> QED BY Invariant, <1>1, PTL

\* At most one write succeeds under a code, and none before the last guess.
THEOREM CodeIsConsumedOnce == Spec => []ConsumedOnce
<1>1. IInv => ConsumedOnce
  BY DEF IInv, TypeOK, HeldIsUsed, ConsumedOnce, Guessable
<1> QED BY Invariant, <1>1, PTL

\* A ticket's code that can be guessed has left no ticket behind, whatever was
\* handed back before.
THEOREM NoTicketBehind == Spec => []NothingLeftBehind
<1>1. IInv => NothingLeftBehind
  BY DEF IInv, TypeOK, HeldIsUsed, TicketIsFinished, NothingLeftBehind, Guessable
<1> QED BY Invariant, <1>1, PTL

-----------------------------------------------------------------------------
onceVars == <<compared, Taken, Written>>

\* Codes that cease to be taken without being written under were handed back.
LEMMA OnlyHandsBack ==
  ASSUME compared' = compared, Written' = Written, Taken' \subseteq Taken, Written \subseteq Taken'
  PROVE  [Once!OnceNext]_onceVars
<1> DEFINE C == Taken \ Taken'
<1>1. C \in SUBSET (Taken \ Written)
  OBVIOUS
<1>2. Taken' = Taken \ C
  OBVIOUS
<1>3. Once!HandBack(C)
  BY <1>2 DEF Once!HandBack
<1> QED BY <1>1, <1>3 DEF Once!OnceNext

\* Every step of Consume, the write and Release is a step of CodeOnce.
LEMMA OnceStep == IInv /\ [Next]_vars => [Once!OnceNext]_onceVars
<1> SUFFICES ASSUME IInv, [Next]_vars PROVE [Once!OnceNext]_onceVars
  OBVIOUS
<1> USE CodesConstants, NilIsNothing
<1>a. TypeOK /\ Core /\ GuessesCounted
  BY DEF IInv, Core
<1>b. \A r \in Requests : req[r] \in Request /\ (req[r].step # "idle" => req[r].code \in Codes)
  BY <1>a DEF TypeOK, Core, CodeInHand
<1>c. Written' = Written => Written \subseteq Taken'
  BY DEF Written, Taken
\* A step that finishes nothing and takes nothing.
<1>d. ASSUME compared' = compared, finished' = finished,
             \A d \in Codes, s \in Requests : Holds(s, d)' => Holds(s, d),
             \A d \in Codes : codes'[d] # Nil /\ codes'[d].used =>
               \/ codes[d] # Nil /\ codes[d].used
               \/ \E s \in Requests : Holds(s, d)
      PROVE  [Once!OnceNext]_onceVars
  <2>1. Written' = Written
    BY <1>d DEF Written
  <2>2. Taken' \subseteq Taken
    BY <1>d, <2>1 DEF Taken
  <2> QED BY <1>c, <1>d, <2>1, <2>2, OnlyHandsBack
\* A write that succeeds under the code its request holds.
<1>e. ASSUME NEW r \in Requests, NEW c \in Codes, Holds(r, c),
             finished' = [finished EXCEPT ![c] = @ + 1], compared' = compared, codes' = codes,
             \A d \in Codes \ {c}, s \in Requests : Holds(s, d)' <=> Holds(s, d)
      PROVE  [Once!OnceNext]_onceVars
  <2>1. finished[c] = 0 /\ finished'[c] = 1
    BY <1>a, <1>e DEF Core, HeldIsUsed, TypeOK
  <2>2. \A d \in Codes \ {c} : finished'[d] = finished[d]
    BY <1>a, <1>e DEF TypeOK
  <2>3. Written' = Written \cup {c} /\ c \notin Written
    BY <2>1, <2>2 DEF Written
  <2>4. c \in Taken /\ c \in Taken'
    BY <1>e, <2>1 DEF Taken
  <2>5. ASSUME NEW d \in Codes \ {c} PROVE d \in Taken' <=> d \in Taken
    BY <1>e, <2>2 DEF Taken
  <2>6. Taken' = Taken
    BY <2>4, <2>5 DEF Taken
  <2>7. Once!WriteUnder(c)
    BY <1>e, <2>3, <2>4, <2>6 DEF Once!WriteUnder
  <2> QED BY <2>7 DEF Once!OnceNext
<1>1. CASE Tick
  BY <1>1, <1>d DEF Tick, Holds
<1>2. ASSUME NEW r \in Requests, InsertCode(r) PROVE [Once!OnceNext]_onceVars
  <2>1. PICK c \in Codes \ inserted, m \in Mailboxes, q \in Purposes :
           /\ codes' = [Purged(now) EXCEPT ![c] = [mailbox |-> m, purpose |-> q, attempts |-> 0,
                                                   used |-> FALSE, expires |-> now + CodeTTL]]
           /\ req' = [req EXCEPT ![r] = [Idle EXCEPT !.step = "mail", !.code = c]]
    BY <1>2 DEF InsertCode
  <2>2. \A d \in Codes : d # c => codes'[d] \in {codes[d], Nil}
    BY <2>1 DEF Purged
  <2>3. ~codes'[c].used
    BY <2>1 DEF Purged
  <2>4. \A d \in Codes, s \in Requests : Holds(s, d)' => Holds(s, d)
    BY <1>a, <2>1 DEF Holds, Idle, TypeOK
  <2> QED BY <1>2, <1>d, <2>2, <2>3, <2>4 DEF InsertCode
<1>3. ASSUME NEW r \in Requests, MailCode(r) PROVE [Once!OnceNext]_onceVars
  <2>1. \A d \in Codes : codes'[d] \in {codes[d], Nil}
    BY <1>3, <1>a DEF MailCode, TypeOK
  <2>2. \A d \in Codes, s \in Requests : Holds(s, d)' => Holds(s, d)
    BY <1>3, <1>a DEF MailCode, End, Holds, Idle, TypeOK
  <2> QED BY <1>3, <1>d, <2>1, <2>2 DEF MailCode
<1>4. ASSUME NEW r \in Requests, CountGuess(r) PROVE [Once!OnceNext]_onceVars
  <2>1. PICK c \in known, m \in Mailboxes, q \in Purposes, right \in BOOLEAN :
           /\ Guessable(c)
           /\ codes' = [codes EXCEPT ![c].attempts = @ + 1]
           /\ req' = [req EXCEPT ![r] = [step |-> "compare", code |-> c, mailbox |-> m,
                                         purpose |-> q, right |-> right]]
    BY <1>4 DEF CountGuess
  <2>2. c \in Codes /\ codes[c] \in Verification
    BY <1>a, <2>1 DEF Guessable, TypeOK
  <2>3. \A d \in Codes : codes'[d] # Nil /\ codes'[d].used => codes[d] # Nil /\ codes[d].used
    BY <1>a, <2>1, <2>2 DEF Verification, TypeOK
  <2>4. \A d \in Codes, s \in Requests : Holds(s, d)' => Holds(s, d)
    BY <1>a, <2>1 DEF Holds, TypeOK
  <2>5. compared' = compared /\ finished' = finished
    BY <1>4 DEF CountGuess
  <2> QED BY <1>d, <2>3, <2>4, <2>5
<1>5. ASSUME NEW r \in Requests, CompareCode(r) PROVE [Once!OnceNext]_onceVars
  <2>0. PICK c \in Codes : c = req[r].code
    BY <1>5, <1>b DEF CompareCode
  <2>1. compared' = [compared EXCEPT ![c] = @ + 1]
    BY <1>5, <2>0 DEF CompareCode
  <2>2. r \in Pending(c)
    BY <1>5, <2>0 DEF CompareCode, Pending
  <2>3. Cardinality(Pending(c)) # 0
    BY <2>2, PendingFinite, FS_EmptySet
  <2>4. compared[c] + Cardinality(Pending(c)) <= MaxAttempts
    BY <1>a DEF GuessesCounted
  <2>5. compared[c] < MaxAttempts
    BY <1>a, <2>3, <2>4, PendingFinite DEF TypeOK
  <2>6. \A d \in Codes, s \in Requests : Holds(s, d)' <=> Holds(s, d)
    BY <1>5, <1>a, <1>b DEF CompareCode, GoTo, End, Holds, Idle, Request, TypeOK
  <2>7. Written' = Written /\ Taken' = Taken
    BY <1>5, <2>6 DEF CompareCode, Written, Taken
  <2>8. Once!Guess(c)
    BY <2>1, <2>5, <2>7 DEF Once!Guess
  <2> QED BY <2>8 DEF Once!OnceNext
<1>6. ASSUME NEW r \in Requests, UseCode(r) PROVE [Once!OnceNext]_onceVars
  <2>0. PICK c \in Codes : c = req[r].code
    BY <1>6, <1>b DEF UseCode
  <2>1. CASE codes[c] # Nil /\ ~codes[c].used
    <3>1. \A d \in Codes, s \in Requests : Holds(s, d)' => Holds(s, d) \/ d = c
      BY <1>6, <2>0, <2>1, <1>a, <1>b DEF UseCode, GoTo, Holds, Request, TypeOK
    <3>2. \A d \in Codes, s \in Requests : Holds(s, d) => Holds(s, d)'
      BY <1>6, <2>0, <2>1, <1>a, <1>b DEF UseCode, GoTo, Holds, Request, TypeOK
    <3>3. codes[c] \in Verification
      BY <1>a, <2>1 DEF TypeOK
    <3>4. codes'[c] # Nil /\ codes'[c].used
      BY <1>6, <1>a, <2>0, <2>1, <3>3 DEF UseCode, Verification, TypeOK
    <3>5. \A d \in Codes \ {c} : codes'[d] = codes[d]
      BY <1>6, <1>a, <2>0, <2>1 DEF UseCode, TypeOK
    <3>6. Written' = Written /\ compared' = compared /\ finished' = finished
      BY <1>6 DEF UseCode, Written
    <3>7. c \notin Taken
      <4>1. \A s \in Requests : ~Holds(s, c)
        BY <1>a, <2>1 DEF Core, HeldIsUsed
      <4>2. ~(finished[c] > 0)
        BY <1>a, <2>1 DEF Core, HeldIsUsed
      <4> QED BY <2>1, <4>1, <4>2 DEF Taken, Written
    <3>8. c \in Taken'
      BY <3>4 DEF Taken
    <3>9. ASSUME NEW d \in Codes \ {c} PROVE d \in Taken' <=> d \in Taken
      BY <3>1, <3>2, <3>5, <3>6 DEF Taken
    <3>10. Taken' = Taken \cup {c}
      BY <3>8, <3>9 DEF Taken
    <3>11. compared[c] > 0
      BY <1>6, <2>0 DEF UseCode, IInv, ComparedBeforeUse
    <3>12. Once!Take(c)
      BY <3>6, <3>7, <3>10, <3>11 DEF Once!Take
    <3> QED BY <3>12 DEF Once!OnceNext
  <2>2. CASE ~(codes[c] # Nil /\ ~codes[c].used)
    <3>1. \A d \in Codes, s \in Requests : Holds(s, d)' => Holds(s, d)
      BY <1>6, <2>0, <2>2, <1>a DEF UseCode, End, Holds, Idle, TypeOK
    <3> QED BY <1>6, <1>d, <2>0, <2>2, <3>1 DEF UseCode
  <2> QED BY <2>1, <2>2
<1>7. ASSUME NEW r \in Requests, Write(r) PROVE [Once!OnceNext]_onceVars
  <2>0. PICK c \in Codes : c = req[r].code /\ Holds(r, c)
    BY <1>7, <1>b DEF Write, Holds
  <2>1. CASE req[r].purpose = "chat"
    <3>1. \A d \in Codes, s \in Requests : Holds(s, d)' => Holds(s, d)
      BY <1>7, <2>1, <1>a, <1>b DEF Write, GoTo, Holds, Request, TypeOK
    <3> QED BY <1>7, <1>d, <2>1, <3>1 DEF Write
  <2>2. CASE req[r].purpose # "chat"
    <3>1. finished' = [finished EXCEPT ![c] = @ + 1] /\ compared' = compared /\ codes' = codes
      BY <1>7, <2>0, <2>2 DEF Write
    <3>2. \A d \in Codes, s \in Requests : d # c => (Holds(s, d)' <=> Holds(s, d))
      BY <1>7, <2>0, <2>2, <1>a DEF Write, End, Holds, Idle, TypeOK
    <3> QED BY <1>e, <2>0, <3>1, <3>2
  <2> QED BY <2>1, <2>2
<1>8. ASSUME NEW r \in Requests, WriteFails(r) PROVE [Once!OnceNext]_onceVars
  <2>1. \A d \in Codes, s \in Requests : Holds(s, d)' => Holds(s, d)
    BY <1>8, <1>a, <1>b DEF WriteFails, GoTo, End, Holds, Idle, Request, TypeOK
  <2> QED BY <1>8, <1>d, <2>1 DEF WriteFails
<1>9. ASSUME NEW r \in Requests, InsertSession(r) PROVE [Once!OnceNext]_onceVars
  <2>0. PICK c \in Codes : c = req[r].code /\ Holds(r, c)
    BY <1>9, <1>b DEF InsertSession, Holds
  <2>1. finished' = [finished EXCEPT ![c] = @ + 1] /\ compared' = compared /\ codes' = codes
    BY <1>9, <2>0 DEF InsertSession
  <2>2. \A d \in Codes, s \in Requests : d # c => (Holds(s, d)' <=> Holds(s, d))
    BY <1>9, <2>0, <1>a DEF InsertSession, End, Holds, Idle, TypeOK
  <2> QED BY <1>e, <2>0, <2>1, <2>2
<1>10. ASSUME NEW r \in Requests, Release(r) PROVE [Once!OnceNext]_onceVars
  <2>1. \A d \in Codes, s \in Requests : Holds(s, d)' => Holds(s, d)
    BY <1>10, <1>a DEF Release, End, Holds, Idle, TypeOK
  <2>2. \A d \in Codes : codes'[d] # Nil /\ codes'[d].used => codes[d] # Nil /\ codes[d].used
    BY <1>10, <1>a, <1>b DEF Release, TypeOK, Verification
  <2> QED BY <1>10, <1>d, <2>1, <2>2 DEF Release
<1>11. ASSUME NEW r \in Requests, Crash(r) PROVE [Once!OnceNext]_onceVars
  <2>1. \A d \in Codes, s \in Requests : Holds(s, d)' => Holds(s, d)
    BY <1>11, <1>a DEF Crash, End, Holds, Idle, TypeOK
  <2> QED BY <1>11, <1>d, <2>1 DEF Crash
<1>12. CASE UNCHANGED vars
  BY <1>12, <1>d DEF vars, Holds
<1> QED
  BY <1>1, <1>2, <1>3, <1>4, <1>5, <1>6, <1>7, <1>8, <1>9, <1>10, <1>11, <1>12 DEF Next

\* Guest codes implement CodeOnce: whatever races, fails or crashes, a code is
\* guessed a bounded number of times, taken by one request at a time and written
\* under once.
THEOREM ImplementsCodeOnce == Spec => IsCodeOnce
<1>1. Init => Once!OnceInit
  <2> SUFFICES ASSUME Init PROVE Once!OnceInit
    OBVIOUS
  <2>1. Written = {}
    BY DEF Init, Written
  <2>2. Taken = {}
    BY <2>1 DEF Init, Taken, Holds, Idle
  <2> QED BY <2>1, <2>2 DEF Init, Once!OnceInit
<1>2. IInv /\ [Next]_vars => [Once!OnceNext]_onceVars
  BY OnceStep
<1> QED BY Invariant, <1>1, <1>2, PTL DEF Spec, IsCodeOnce, Once!OnceSpec, onceVars

=============================================================================
