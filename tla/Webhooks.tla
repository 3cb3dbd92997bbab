------------------------------- MODULE Webhooks -------------------------------
(***************************************************************************)
(* Outbound webhooks (services/webhook_dispatcher.go, webhook_destination.go,*)
(* handlers/webhook.go). Every event is a run of its own in the background:  *)
(* it reads the webhooks once, then sends to one after the other, with all   *)
(* its retries; nothing of it is kept over a restart. The payload, signature *)
(* and waiting are abstracted away; a secret is a version of its own.        *)
(***************************************************************************)
EXTENDS Naturals, FiniteSets

CONSTANTS Hooks, Events, Names, Runs, Nil,
          MaxAttempts,
          MaxEdits,               \* bound: edits of the admin, moves of names, failures
          MaxRetries              \* bound on the deliveries sent again by hand

HooksConstants == MaxAttempts \in Nat \ {0} /\ MaxEdits \in Nat /\ MaxRetries \in Nat

VARIABLES hooks,       \* webhook -> [name, events, secret, active] or Nil
          dns,         \* host name -> where it leads: "public", "private", "nowhere"
          deliveries,  \* rows [id, hook, event, attempt, code, delivered]; an id tells its run, too
          run,         \* run -> where it is
          deleting,    \* webhooks whose deliveries are deleted and which are next
          reached,     \* where the client connected, with the secret it signed by
          edits, retries
vars == <<hooks, dns, deliveries, run, deleting, reached, edits, retries>>

Hook == [name : Names, events : SUBSET Events, secret : 0..MaxEdits, active : BOOLEAN]
Places == {"public", "private", "nowhere"}
Codes == {"none", "ok", "bad", "error"}  \* 2xx, any other answer, no answer
Off == [at |-> "off", event |-> Nil, left |-> {}, hook |-> Nil, row |-> Nil, attempt |-> 0, id |-> <<>>, done |-> {}]

TypeOK ==
  /\ hooks \in [Hooks -> Hook \cup {Nil}] /\ dns \in [Names -> Places]
  /\ \A d \in deliveries : d.hook \in Hooks /\ d.event \in Events /\ d.attempt \in 1..MaxAttempts /\ d.code \in Codes /\ d.delivered \in BOOLEAN
  /\ \A r \in Runs : run[r].at \in {"off", "next", "record", "post", "over", "dead"} /\ run[r].left \subseteq Hooks /\ run[r].attempt \in 0..MaxAttempts
  /\ deleting \subseteq Hooks /\ edits \in 0..MaxEdits /\ retries \in 0..MaxRetries

Init ==
  /\ hooks = [h \in Hooks |-> Nil] /\ dns \in [Names -> Places] /\ deliveries = {} /\ run = [r \in Runs |-> Off]
  /\ deleting = {} /\ reached = {} /\ edits = 0 /\ retries = 0
-----------------------------------------------------------------------------
(* The admin.                                                               *)

Edit == edits < MaxEdits /\ edits' = edits + 1
Edited == UNCHANGED <<dns, deliveries, run, deleting, reached, retries>>

\* A name that leads nowhere just now is taken.
ValidateWebhookURL(name) == dns[name] # "private"

Create(h, name, events, active) ==
  /\ Edit /\ hooks[h] = Nil /\ events # {} /\ ValidateWebhookURL(name)
  /\ hooks' = [hooks EXCEPT ![h] = [name |-> name, events |-> events, secret |-> 0, active |-> active]]
  /\ Edited

\* Update(): only the fields sent; here one at a time.
UpdateURL(h, name) ==
  /\ Edit /\ hooks[h] # Nil /\ ValidateWebhookURL(name) /\ hooks' = [hooks EXCEPT ![h].name = name] /\ Edited
UpdateSecret(h) == Edit /\ hooks[h] # Nil /\ hooks' = [hooks EXCEPT ![h].secret = edits'] /\ Edited
UpdateActive(h) == Edit /\ hooks[h] # Nil /\ hooks' = [hooks EXCEPT ![h].active = ~hooks[h].active] /\ Edited

\* Delete(): its deliveries first; one recorded in between stays.
DeleteDeliveries(h) ==
  /\ Edit /\ hooks[h] # Nil /\ h \notin deleting
  /\ deliveries' = {d \in deliveries : d.hook # h} /\ deleting' = deleting \cup {h}
  /\ UNCHANGED <<hooks, dns, run, reached, retries>>
DeleteHook(h) ==
  /\ h \in deleting /\ deleting' = deleting \ {h}
  /\ hooks' = [hooks EXCEPT ![h] = Nil]
  /\ UNCHANGED <<dns, deliveries, run, reached, edits, retries>>

\* The receiver's own DNS.
Move(n, place) ==
  /\ Edit /\ dns[n] # place /\ dns' = [dns EXCEPT ![n] = place]
  /\ UNCHANGED <<hooks, deliveries, run, deleting, reached, retries>>
-----------------------------------------------------------------------------
(* A run.                                                                   *)

SubscribedTo(h, event) == hooks[h] # Nil /\ hooks[h].active /\ event \in hooks[h].events
Step(r, rec) == run' = [run EXCEPT ![r] = rec]

\* The rows as they are now; what is sent is what they say.
Dispatch(r, event) ==
  /\ run[r] = Off
  /\ Step(r, [Off EXCEPT !.at = "next", !.event = event, !.left = {h \in Hooks : SubscribedTo(h, event)},
                         !.row = [h \in Hooks |-> hooks[h]]])
  /\ UNCHANGED <<hooks, dns, deliveries, deleting, reached, edits, retries>>

Next1(r) ==
  /\ run[r].at = "next" /\ run[r].left # {}
  /\ \E h \in run[r].left : Step(r, [run[r] EXCEPT !.at = "record", !.left = run[r].left \ {h}, !.hook = h, !.attempt = 1])
  /\ UNCHANGED <<hooks, dns, deliveries, deleting, reached, edits, retries>>

\* RetryDelivery(): the webhook as it is now, active or not.
RetryDelivery(r, d) ==
  /\ run[r] = Off /\ retries < MaxRetries /\ hooks[d.hook] # Nil
  /\ retries' = retries + 1
  /\ Step(r, [Off EXCEPT !.at = "record", !.event = d.event, !.hook = d.hook, !.attempt = 1, !.row = [h \in {d.hook} |-> hooks[h]]])
  /\ UNCHANGED <<hooks, dns, deliveries, deleting, reached, edits>>

\* send() records the attempt before it is made, and makes it when the insert
\* failed, too. No foreign key ties a delivery to a webhook.
recordAttempt(r, kept) ==
  LET id == <<r, run[r].hook, run[r].attempt>>
  IN  /\ run[r].at = "record" /\ (IF kept THEN UNCHANGED edits ELSE Edit)
      /\ deliveries' = IF kept THEN deliveries \cup {[id |-> id, hook |-> run[r].hook, event |-> run[r].event, attempt |-> run[r].attempt,
                                                      code |-> "none", delivered |-> FALSE]}
                       ELSE deliveries
      /\ Step(r, [run[r] EXCEPT !.at = "post", !.id = IF kept THEN id ELSE <<>>])
      /\ UNCHANGED <<hooks, dns, deleting, reached, retries>>

Url(r) == run[r].row[run[r].hook].name

\* Whatever was answered counts as delivered. An update that fails is logged
\* and the delivery stays as it was recorded.
recordResult(r, code, kept) ==
  /\ deliveries' = IF kept THEN {IF d.id = run[r].id THEN [d EXCEPT !.code = code, !.delivered = code # "error"] ELSE d : d \in deliveries}
                   ELSE deliveries
  /\ IF kept THEN UNCHANGED edits ELSE run[r].id # <<>> /\ Edit

\* Unless the answer was good or the address refused, maybeRetry() follows.
Result(r, code, retried) ==
  /\ \E kept \in BOOLEAN : recordResult(r, code, kept)
  /\ LET again == retried /\ run[r].attempt < MaxAttempts
         next == IF run[r].left = {} THEN "over" ELSE "next"
     IN  Step(r, IF again THEN [run[r] EXCEPT !.at = "record", !.attempt = run[r].attempt + 1]
                 ELSE [run[r] EXCEPT !.at = next, !.done = run[r].done \cup {<<run[r].hook, IF retried THEN "given up" ELSE code>>}])
  /\ UNCHANGED <<hooks, dns, deleting, retries>>

\* The address is checked when it is connected to.
MayConnect(r) == dns[Url(r)] = "public"

Answered(r, code) ==
  /\ run[r].at = "post" /\ MayConnect(r)
  /\ reached' = reached \cup {[place |-> dns[Url(r)], hook |-> run[r].hook, run |-> r, secret |-> run[r].row[run[r].hook].secret]}
  /\ Result(r, code, code # "ok")

\* No connection, or none in time.
Failed(r) ==
  /\ run[r].at = "post" /\ dns[Url(r)] \in {"public", "nowhere"} /\ Result(r, "error", TRUE) /\ UNCHANGED reached

\* ErrWebhookDestinationNotAllowed.
Refused(r) ==
  /\ run[r].at = "post" /\ ~MayConnect(r) /\ dns[Url(r)] = "private"
  /\ Result(r, "error", FALSE) /\ UNCHANGED reached

\* Nothing is left of a run the process stopped in.
Crash ==
  /\ Edit /\ \E r \in Runs : run[r].at \in {"next", "record", "post"}
  /\ run' = [r \in Runs |-> IF run[r].at \in {"next", "record", "post"} THEN [run[r] EXCEPT !.at = "dead"] ELSE run[r]]
  /\ UNCHANGED <<hooks, dns, deliveries, deleting, reached, retries>>

Nothing(r) ==
  /\ run[r].at = "next" /\ run[r].left = {} /\ Step(r, [run[r] EXCEPT !.at = "over"])
  /\ UNCHANGED <<hooks, dns, deliveries, deleting, reached, edits, retries>>
-----------------------------------------------------------------------------
Next ==
  \/ \E h \in Hooks :
       \/ \E n \in Names, es \in SUBSET Events, b \in BOOLEAN : Create(h, n, es, b)
       \/ \E n \in Names : UpdateURL(h, n)
       \/ UpdateSecret(h) \/ UpdateActive(h) \/ DeleteDeliveries(h) \/ DeleteHook(h)
  \/ \E n \in Names, p \in Places : Move(n, p)
  \/ \E r \in Runs :
       \/ \E e \in Events : Dispatch(r, e)
       \/ \E d \in deliveries : RetryDelivery(r, d)
       \/ Next1(r) \/ Nothing(r) \/ Failed(r) \/ Refused(r)
       \/ \E kept \in BOOLEAN : recordAttempt(r, kept)
       \/ \E code \in {"ok", "bad"} : Answered(r, code)
  \/ Crash

Spec == Init /\ [][Next]_vars
-----------------------------------------------------------------------------
\* A private address is never connected to, wherever names move; a run that is
\* over has served every webhook subscribed when it began, each until a good
\* answer, a refused address or the last attempt, whatever the others answered;
\* no attempt follows a good answer; and a delivery says what its own attempt
\* was answered.
HooksHold ==
  /\ \A x \in reached : x.place = "public"
  /\ \A r \in Runs : run[r].at = "over" =>
       \A h \in DOMAIN run[r].row : run[r].row[h] # Nil /\ run[r].row[h].active /\ run[r].event \in run[r].row[h].events =>
         \E x \in run[r].done : x[1] = h
  /\ \A r \in Runs, h \in Hooks :
       LET mine == {d \in deliveries : d.id[1] = r /\ d.hook = h} IN
       /\ \A d, e \in mine : d.code = "ok" => e.attempt <= d.attempt
       /\ <<h, "given up">> \in run[r].done => \A d \in mine : d.code # "ok"
       /\ \A d \in mine : d.delivered <=> d.code \in {"ok", "bad"}
=============================================================================
