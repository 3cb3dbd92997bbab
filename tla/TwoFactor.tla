----------------------------- MODULE TwoFactor -----------------------------
(***************************************************************************)
(* One user's two-factor enrolment (access/twofactor.go and its handlers).  *)
(* Each request reads the newest enrolment row and writes it in a statement *)
(* of its own; only the time step is claimed by a conditional update.       *)
(***************************************************************************)
EXTENDS Naturals, FiniteSets, Sequences

CONSTANTS Requests,    \* requests of the user being served
          RecoveryCodes,
          MaxRows,     \* enrolments set up
          MaxTime      \* time steps that pass

TwoFactorConstants == MaxRows \in Nat /\ MaxTime \in Nat \ {0}

TOTPSkew == 1

VARIABLES rows,      \* the user's enrolments, by id
          now,       \* the current time step
          req,       \* what each request has read
          accepted,  \* ghost: the time steps accepted for each enrolment, in order
          used,      \* ghost: how often each recovery code of each was accepted
          told,      \* ghost: the enrolment the user was last told is enabled
          raced      \* ghost: two changes of the enrolment overlapped
vars == <<rows, now, req, accepted, used, told, raced>>
-----------------------------------------------------------------------------
Gone == [there |-> FALSE, confirmed |-> FALSE, codes |-> {}, step |-> 0]
Pending == [there |-> TRUE, confirmed |-> FALSE, codes |-> RecoveryCodes, step |-> 0]
Rest == [op |-> "rest", row |-> 0, codes |-> {}, step |-> 0, code |-> 0]

Live == {i \in DOMAIN rows : rows[i].there}

\* Find: the newest enrolment; 0 for none.
Find == IF Live = {} THEN 0 ELSE CHOOSE i \in Live : \A j \in Live : j <= i

\* The newest enrolment, when it is confirmed: who has one is challenged.
Confirmed == IF Find # 0 /\ rows[Find].confirmed THEN Find ELSE 0

TypeOK ==
  /\ rows \in Seq([there : BOOLEAN, confirmed : BOOLEAN, codes : SUBSET RecoveryCodes, step : 0..(MaxTime + TOTPSkew)])
  /\ now \in 1..MaxTime
  /\ \A r \in Requests :
       /\ req[r].op \in {"rest", "setup", "confirm", "confirmed", "verify", "recover", "disable"}
       /\ req[r].row \in 0..Len(rows) /\ req[r].codes \subseteq RecoveryCodes
  /\ told \in 0..Len(rows) /\ raced \in BOOLEAN

Init ==
  /\ rows = <<>> /\ now = 1 /\ req = [r \in Requests |-> Rest]
  /\ accepted = <<>> /\ used = <<>> /\ told = 0 /\ raced = FALSE
-----------------------------------------------------------------------------
Set(r, v) == req' = [req EXCEPT ![r] = v]
Read(r, op, code) ==
  Set(r, [op |-> op, row |-> Find, codes |-> rows[Find].codes, step |-> rows[Find].step, code |-> code])

\* Requests that change which enrolment there is.
Changing == {r \in Requests : req[r].op \in {"setup", "confirm", "confirmed", "disable"}}
Changes == raced' = (raced \/ Changing # {})

\* Setup is refused while an enrolment is confirmed, and otherwise makes the
\* secret and the codes before it writes.
Setup(r) ==
  /\ req[r].op = "rest" /\ Confirmed = 0 /\ Len(rows) < MaxRows
  /\ Set(r, [Rest EXCEPT !.op = "setup"]) /\ Changes
  /\ UNCHANGED <<rows, now, accepted, used, told>>

\* One transaction: what is pending goes, a new pending enrolment comes.
SetupWrite(r) ==
  /\ req[r].op = "setup" /\ Len(rows) < MaxRows
  /\ rows' = Append([i \in DOMAIN rows |-> IF rows[i].confirmed THEN rows[i] ELSE Gone], Pending)
  /\ accepted' = Append(accepted, <<>>)
  /\ used' = Append(used, [c \in RecoveryCodes |-> 0])
  /\ Set(r, Rest)
  /\ UNCHANGED <<now, told, raced>>

\* Confirm wants a pending enrolment, and a code of it.
Confirm(r) ==
  /\ req[r].op = "rest" /\ Find # 0 /\ Confirmed = 0
  /\ \E step \in (now - TOTPSkew)..(now + TOTPSkew) : Read(r, "confirm", step)
  /\ Changes
  /\ UNCHANGED <<rows, now, accepted, used, told>>

\* The challenge wants a confirmed enrolment, and a code or a recovery code.
Verify(r) ==
  /\ req[r].op = "rest" /\ Confirmed # 0
  /\ \/ \E step \in (now - TOTPSkew)..(now + TOTPSkew) : Read(r, "verify", step)
     \/ \E code \in RecoveryCodes : Read(r, "recover", code)
  /\ UNCHANGED <<rows, now, accepted, used, told, raced>>

\* Fault: the update that claims the step has no condition.
MayClaimAny(i, step) == rows[i].there

\* The condition of the update that claims a step.
MayClaim(i, step) == rows[i].there /\ rows[i].step < step

\* VerifyAndConsume: a step no later than the one read is refused, and so is
\* one the update does not find free.
VerifyAndConsume(r) ==
  /\ req[r].op \in {"verify", "confirm"}
  /\ LET c == req[r]
         ok == c.code > c.step /\ MayClaim(c.row, c.code)
     IN  /\ rows' = IF ok THEN [rows EXCEPT ![c.row].step = c.code] ELSE rows
         /\ accepted' = IF ok THEN [accepted EXCEPT ![c.row] = Append(@, c.code)] ELSE accepted
         /\ Set(r, IF ok /\ c.op = "confirm" THEN [c EXCEPT !.op = "confirmed"] ELSE Rest)
  /\ UNCHANGED <<now, used, told, raced>>

\* The row confirmed is the one read, if it is still there; the user is told
\* all the same.
ConfirmWrite(r) ==
  /\ req[r].op = "confirmed"
  /\ rows' = [i \in DOMAIN rows |-> IF i = req[r].row /\ rows[i].there THEN [rows[i] EXCEPT !.confirmed = TRUE] ELSE rows[i]]
  /\ told' = req[r].row
  /\ Set(r, Rest)
  /\ UNCHANGED <<now, accepted, used, raced>>

\* A recovery code of the list read is accepted, and the list without it
\* written back whole.
UseRecoveryCode(r) ==
  /\ req[r].op = "recover"
  /\ LET c == req[r]
         ok == c.code \in c.codes
     IN  /\ rows' = IF ok /\ rows[c.row].there THEN [rows EXCEPT ![c.row].codes = c.codes \ {c.code}] ELSE rows
         /\ used' = IF ok THEN [used EXCEPT ![c.row][c.code] = @ + 1] ELSE used
  /\ Set(r, Rest)
  /\ UNCHANGED <<now, accepted, told, raced>>

\* Disable deletes every enrolment of the user.
Disable(r) ==
  /\ req[r].op = "rest" /\ Live # {}
  /\ rows' = [i \in DOMAIN rows |-> Gone] /\ told' = 0 /\ Changes
  /\ UNCHANGED <<now, req, accepted, used>>

Tick == now < MaxTime /\ now' = now + 1 /\ UNCHANGED <<rows, req, accepted, used, told, raced>>

Next ==
  \/ Tick
  \/ \E r \in Requests :
       \/ Setup(r) \/ SetupWrite(r) \/ Confirm(r) \/ ConfirmWrite(r)
       \/ Verify(r) \/ VerifyAndConsume(r) \/ UseRecoveryCode(r) \/ Disable(r)

Spec == Init /\ [][Next]_vars
-----------------------------------------------------------------------------
\* A six-digit code works once, and none after a later one, however many
\* requests carry it at once.
CodeWorksOnce ==
  \A i \in DOMAIN accepted : \A j, k \in DOMAIN accepted[i] : j < k => accepted[i][j] < accepted[i][k]

\* A user told that two-factor is on is challenged until it is turned off,
\* unless two changes of the enrolment overlapped.
EnabledIsEnforced == told # 0 /\ ~raced => Confirmed = told

EnrolmentHolds == CodeWorksOnce /\ EnabledIsEnforced

\* A recovery code is single-use.
RecoveryCodeOnce == \A i \in DOMAIN used : \A c \in RecoveryCodes : used[i][c] <= 1
=============================================================================
