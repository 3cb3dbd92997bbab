------------------------------- MODULE Presence -------------------------------
(***************************************************************************)
(* Whether a ticket's customer is on the site (services/agent_panel.go,      *)
(* agent_panel.go). A visit takes the time, then updates the row when the    *)
(* one kept is older than the throttle, then inserts it if nothing changed.  *)
(* Instants are counted PerSecond to the second; the row holds seconds.      *)
(***************************************************************************)
EXTENDS Integers

CONSTANTS Subjects, Requests, PerSecond,
          Throttle, Window,  \* seconds
          Slowest,           \* how long a visit's statements take at most
          MaxTime            \* bound: the last instant

\* Window is a host's setting; nothing makes it longer than the throttle.
PresenceConstants ==
  PerSecond \in Nat \ {0} /\ Throttle \in Nat /\ Window \in Nat /\ Slowest \in Nat /\ MaxTime \in Nat

VARIABLES now,
          seen,    \* last_seen_at, -1 for no row
          visit,   \* request -> where it is, whose, and the second it took
          last     \* the latest visit that is over, -1 for none
vars == <<now, seen, visit, last>>

Second(i) == i \div PerSecond
TypeOK ==
  /\ now \in 0..MaxTime
  /\ seen \in [Subjects -> -1..Second(MaxTime)] /\ last \in [Subjects -> -1..MaxTime]
  /\ visit \in [Requests -> [at : {"none", "update", "insert", "over"}, of : Subjects, began : 0..MaxTime]]

Init ==
  /\ now = 0 /\ seen = [s \in Subjects |-> -1] /\ last = [s \in Subjects |-> -1]
  /\ visit \in [Requests -> [at : {"none"}, of : Subjects, began : {0}]]

Tick ==
  /\ now < MaxTime /\ \A q \in Requests : visit[q].at \in {"update", "insert"} => now - visit[q].began < Slowest
  /\ now' = now + 1 /\ UNCHANGED <<seen, visit, last>>
Later(i, j) == IF i < j THEN j ELSE i

\* SeeUser, SeeTicketCustomer: not for staff.
See(q) ==
  /\ visit[q].at = "none"
  /\ visit' = [visit EXCEPT ![q].at = "update", ![q].began = now]
  /\ UNCHANGED <<now, seen, last>>

Update(q) ==
  LET s == visit[q].of
      second == Second(visit[q].began)
      writes == seen[s] # -1 /\ seen[s] < second - Throttle
  IN  /\ visit[q].at = "update"
      /\ seen' = IF writes THEN [seen EXCEPT ![s] = second] ELSE seen
      /\ visit' = [visit EXCEPT ![q].at = IF writes THEN "over" ELSE "insert"]
      /\ last' = IF writes THEN [last EXCEPT ![s] = Later(@, visit[q].began)] ELSE last
      /\ UNCHANGED now

\* ON CONFLICT DO NOTHING: the row of another request stays.
Insert(q) ==
  LET s == visit[q].of IN
  /\ visit[q].at = "insert"
  /\ seen' = IF seen[s] = -1 THEN [seen EXCEPT ![s] = Second(visit[q].began)] ELSE seen
  /\ visit' = [visit EXCEPT ![q].at = "over"]
  /\ last' = [last EXCEPT ![s] = Later(@, visit[q].began)]
  /\ UNCHANGED now

Next == Tick \/ \E q \in Requests : See(q) \/ Update(q) \/ Insert(q)
Spec == Init /\ [][Next]_vars

\* requester_online, of RowFields.
Online(s) == seen[s] # -1 /\ seen[s] * PerSecond >= now - Window * PerSecond
-----------------------------------------------------------------------------
\* However visits overlap, a customer whose last visit is not longer ago than
\* the window less the throttle, the second a row is cut to and the slowest
\* visit (whose insert may come first) shows as online; and what is kept is a visit's time.
SeenHolds ==
  \A s \in Subjects :
    /\ last[s] # -1 /\ now - last[s] <= (Window - Throttle) * PerSecond - (PerSecond - 1) - Slowest => Online(s)
    /\ seen[s] # -1 => \E q \in Requests : visit[q].of = s /\ visit[q].at # "none" /\ Second(visit[q].began) = seen[s]
=============================================================================
