---------------------------- MODULE PluginBridge ----------------------------
(***************************************************************************)
(* The plugin host and its bridge to the Node runtime (plugins/).           *)
(*                                                                         *)
(* SDK plugins all live in one runtime process, spoken to over one pipe.    *)
(* Requests, cron ticks, hooks and the admin screen (Callers) list the      *)
(* active plugins, make sure a runtime is up, take the next call id, leave  *)
(* a scope under it, write the call and wait for the answer, the timeout    *)
(* or the death of the process.  While it serves a call the runtime makes   *)
(* ctx.* calls back, each answered in a goroutine of its own, which must     *)
(* decide for which plugin and in which user's request it acts.  A new      *)
(* process starts its ids again; the old one's reader and its ctx calls may *)
(* still be at work.                                                        *)
(***************************************************************************)
EXTENDS Naturals, FiniteSets, Sequences

CONSTANTS Plugins,    \* SDK plugins the runtime reports
          Callers,    \* goroutines of the host that call the runtime
          Admins,     \* those that serve the plugin screen
          Requests,   \* HTTP requests (signed-in users) that calls serve
          Ctx,        \* goroutines answering ctx.* calls
          Nil,
          MaxGens,    \* runtime processes started
          MaxCalls,   \* calls made to each process: [1..MaxGens -> Nat]
          MaxCtx      \* ctx.* calls made

PluginConstants ==
  /\ IsFiniteSet(Callers) /\ Admins \subseteq Callers /\ Nil \notin Plugins \cup Requests
  /\ MaxGens \in Nat /\ MaxCalls \in [1..MaxGens -> Nat] /\ MaxCtx \in Nat

VARIABLES row,      \* escalated_plugins: [plugin -> "on" | "off"], no row being "off"
          runtime,  \* the bridge's process: its number, whether it lives, the
                    \* last id given out, the plugins it last reported
          resting,  \* the backoff after a failed start has not passed
          job,      \* what each caller is doing
          ctx,      \* ctx.* calls being answered
          made      \* ctx.* calls made so far
vars == <<row, runtime, resting, job, ctx, made>>
-----------------------------------------------------------------------------
\* What a caller is at, and what it has left to do, to plugin of, when its call
\* returns.
Idle == [at |-> "idle", then |-> <<>>, of |-> Nil, plugins |-> {}, request |-> Nil,
         gen |-> 0, id |-> 0, box |-> Nil]
Free == [at |-> "free", gen |-> 0, stamp |-> 0, named |-> Nil,
         as |-> Nil, request |-> Nil]

Key(j) == [gen |-> j.gen, id |-> j.id]

TypeOK ==
  /\ row \in [Plugins -> {"on", "off"}]
  /\ runtime \in [gen: 0..MaxGens, up: BOOLEAN, last: Nat, known: {{}, Plugins}]
  /\ resting \in BOOLEAN
  /\ \A h \in Callers :
       /\ job[h].at \in {"idle", "owned", "waiting", "next"}
       /\ job[h].then \in Seq({"announce", "lifecycle", "off"})
       /\ job[h].plugins \subseteq Plugins
       /\ job[h].request \in Requests \cup {Nil}
       /\ job[h].at = "waiting" => job[h].id \in 3..(MaxCalls[job[h].gen] + 2)
  /\ \A c \in Ctx : ctx[c].at \in {"free", "new", "acting"} /\ ctx[c].as \in Plugins \cup {Nil}

Init ==
  /\ row = [p \in Plugins |-> "on"]
  /\ runtime = [gen |-> 0, up |-> FALSE, last |-> 0, known |-> {}]
  /\ resting = FALSE
  /\ job = [h \in Callers |-> Idle]
  /\ ctx = [c \in Ctx |-> Free]
  /\ made = 0
-----------------------------------------------------------------------------
(* The process.                                                             *)

\* A new process has answered the handshake (id 1) and the manifest (id 2).
Started == [gen |-> runtime.gen + 1, up |-> TRUE, last |-> 2, known |-> Plugins]

Alive(g) == runtime.up /\ runtime.gen = g

\* ensure(): the live process, or a new one; none while the backoff of a
\* failed start lasts, or when this start fails too.
MayStart == ~runtime.up /\ ~resting /\ runtime.gen < MaxGens
NoRuntime ==
  /\ ~runtime.up /\ resting' = TRUE
  /\ UNCHANGED runtime

RestOver == resting /\ resting' = FALSE /\ UNCHANGED <<row, runtime, job, ctx, made>>

\* The process dies by itself, or the host closes it.
Die ==
  /\ runtime.up
  /\ runtime' = [runtime EXCEPT !.up = FALSE]
  /\ UNCHANGED <<row, resting, job, ctx, made>>
-----------------------------------------------------------------------------
(* The callers.                                                             *)

Set(h, j) == job' = [job EXCEPT ![h] = j]

\* entries(): the runtime is started to learn its plugins; the last list
\* stays when it will not start.
Entries ==
  \/ runtime.up /\ UNCHANGED <<runtime, resting>>
  \/ MayStart /\ runtime' = Started /\ resting' = FALSE
  \/ NoRuntime

\* Only active plugins are listed.
Active == {p \in runtime'.known : row[p] = "on"}

Calls(h, plugins, r) ==
  Set(h, [Idle EXCEPT !.at = "owned", !.plugins = plugins, !.request = r])

\* An action or a filter goes to every active plugin in one call.
Dispatch(h) ==
  /\ job[h].at = "idle" /\ Entries /\ Active # {}
  /\ \E r \in Requests \cup {Nil} : Calls(h, Active, r)
  /\ UNCHANGED <<row, ctx, made>>

\* A cron schedule runs for one plugin and in no request.
RunDueCron(h) ==
  /\ job[h].at = "idle" /\ Entries
  /\ \E p \in Active : Calls(h, {p}, Nil)
  /\ UNCHANGED <<row, ctx, made>>

\* A page, badge, endpoint or webhook is one plugin's, in the request; an
\* endpoint may want a capability and a page script.
serveRoute(h) ==
  /\ job[h].at = "idle" /\ Entries
  /\ \E p \in Active, r \in Requests, webhook, capable, script \in BOOLEAN :
       /\ webhook \/ (capable /\ script)
       /\ Calls(h, {p}, r)
  /\ UNCHANGED <<row, ctx, made>>

\* What a caller has left to do after a call, whatever the call returned.
Following(h, then, p, r) ==
  Set(h, [Idle EXCEPT !.at = "next", !.then = then, !.of = p, !.request = r])

\* Activate writes the row first, calls the plugin and tells the others;
\* activating an active plugin does nothing.
Activate(h, p) ==
  /\ job[h].at = "idle" /\ Entries /\ p \in runtime'.known
  /\ row[p] = "off"
  /\ row' = [row EXCEPT ![p] = "on"]
  /\ \E r \in Requests : Following(h, <<"lifecycle", "announce">>, p, r)
  /\ UNCHANGED <<ctx, made>>

\* Deactivate tells the others and calls the plugin while its row still says
\* active. (Uninstall refuses a plugin of the runtime: it is package-managed.)
Deactivate(h, p) ==
  /\ job[h].at = "idle" /\ Entries /\ p \in runtime'.known
  /\ row[p] = "on"
  /\ \E r \in Requests : Following(h, <<"announce", "lifecycle", "off">>, p, r)
  /\ UNCHANGED <<row, ctx, made>>

\* The next of these: the plugin is called, the active plugins are told (no
\* call when none of them listens), or the row is written.
Proceed(h) ==
  LET j == job[h]
      rest == [j EXCEPT !.then = Tail(@), !.at = IF Len(j.then) = 1 THEN "idle" ELSE "next"]
      on == {p \in runtime.known : row[p] = "on"}
      owning(plugins) == Set(h, [j EXCEPT !.then = Tail(@), !.at = "owned", !.plugins = plugins])
      done == Set(h, IF rest.at = "idle" THEN Idle ELSE rest)
  IN  /\ j.at = "next"
      /\ \/ Head(j.then) = "lifecycle" /\ owning({j.of}) /\ UNCHANGED row
         \/ Head(j.then) = "announce" /\ on # {} /\ owning(on) /\ UNCHANGED row
         \/ Head(j.then) = "announce" /\ done /\ UNCHANGED row
         \/ Head(j.then) = "off" /\ row' = [row EXCEPT ![j.of] = "off"] /\ done
      /\ UNCHANGED <<runtime, resting, ctx, made>>

\* A call has returned, whatever it returned.
After(h) ==
  IF job[h].then = <<>> THEN Idle
  ELSE [job[h] EXCEPT !.at = "next", !.plugins = {}, !.gen = 0, !.id = 0, !.box = Nil]

\* call(): a process, its next id, the scope left under both, and the call
\* written and pending.  Without a process there is no call.
Take(h, p) ==
  /\ p.last < MaxCalls[p.gen] + 2
  /\ runtime' = [p EXCEPT !.last = @ + 1]
  /\ Set(h, [job[h] EXCEPT !.at = "waiting", !.gen = p.gen, !.id = p.last + 1])

call(h) ==
  /\ job[h].at = "owned"
  /\ \/ runtime.up /\ Take(h, runtime) /\ UNCHANGED resting
     \/ MayStart /\ Take(h, Started) /\ resting' = FALSE
     \/ NoRuntime /\ Set(h, After(h))
  /\ UNCHANGED <<row, ctx, made>>

\* sendAs() returns with the answer, at the timeout or when the process stops
\* (a write that fails included), whichever it sees first; nobody waits under
\* the id then, and the scope is gone.
sendAs(h) ==
  /\ job[h].at = "waiting"
  /\ Set(h, After(h))
  /\ UNCHANGED <<row, runtime, resting, ctx, made>>
-----------------------------------------------------------------------------
(* The runtime (external), and the reader of its output.                    *)

Pending(h, m) == job[h].at = "waiting" /\ job[h].box = Nil /\ Key(job[h]) = m

\* The runtime answers a call it was sent, at any time, and read() hands the
\* answer to the caller waiting under that id at that process, or to nobody.
\* What a dead process had written is still read.
read(m) ==
  /\ \E h \in Callers : Pending(h, m)
  /\ job' = [h \in Callers |-> IF Pending(h, m) THEN [job[h] EXCEPT !.box = m] ELSE job[h]]
  /\ UNCHANGED <<row, runtime, resting, ctx, made>>

Sent == [gen : {runtime.gen}, id : 3..runtime.last]

\* A plugin makes a ctx.* call while, or after, the runtime serves m.  The
\* runtime stamps it with m's id; an older runtime does not.
CtxCall(c, m) ==
  /\ ctx[c].at = "free" /\ made < MaxCtx /\ Alive(m.gen)
  /\ made' = made + 1
  /\ \E stamp \in {m.id, 0}, named \in Plugins \cup {Nil} :
       ctx' = [ctx EXCEPT ![c] = [Free EXCEPT !.at = "new", !.gen = m.gen, !.stamp = stamp, !.named = named]]
  /\ UNCHANGED <<row, runtime, resting, job>>
-----------------------------------------------------------------------------
(* Answering ctx.* calls.                                                   *)

\* Callers whose scope is registered.
InFlight == {h \in Callers : job[h].at = "waiting"}

\* Fault: scopes kept under the id alone.
ScopeAtAnyProcess(gen, id) == {h \in InFlight : job[h].id = id}

\* The scope of the call a stamp names, at the process the ctx call came from.
Scope(gen, id) == {h \in InFlight : Key(job[h]) = [gen |-> gen, id |-> id]}

Serving(p) == {h \in InFlight : p \in job[h].plugins}

Refused == [as |-> Nil, request |-> Nil]

\* A call stamped with a host call in flight is that call's: one of its
\* plugins (its only one when it names none), in its request.
Stamped(h, named) ==
  IF named \in job[h].plugins THEN [as |-> named, request |-> job[h].request]
  ELSE IF named = Nil /\ Cardinality(job[h].plugins) = 1
       THEN [as |-> CHOOSE p \in job[h].plugins : TRUE, request |-> job[h].request]
       ELSE Refused

\* Otherwise it must name a plugin being served now, and has a request only
\* when every call serving that plugin has the same one; naming none, it
\* acts for the plugin of the only call in flight.
Named(named) ==
  LET requests == {job[h].request : h \in Serving(named)}
  IN  IF Serving(named) = {} THEN Refused
      ELSE [as |-> named, request |-> IF Cardinality(requests) = 1 THEN CHOOSE r \in requests : TRUE ELSE Nil]

Unnamed ==
  IF Cardinality(InFlight) = 1 THEN Stamped(CHOOSE h \in InFlight : TRUE, Nil) ELSE Refused

resolve(c) ==
  LET mine == Scope(c.gen, c.stamp)
  IN  IF mine # {} THEN Stamped(CHOOSE h \in mine : TRUE, c.named)
      ELSE IF c.named = Nil THEN Unnamed ELSE Named(c.named)

answer(c) ==
  /\ ctx[c].at = "new"
  /\ LET to == resolve(ctx[c])
     IN  ctx' = [ctx EXCEPT ![c] =
                   IF to = Refused THEN Free
                   ELSE [@ EXCEPT !.at = "acting", !.as = to.as, !.request = to.request]]
  /\ UNCHANGED <<row, runtime, resting, job, made>>

\* The call is served (config, store, tickets, broadcast) and answered.
Serve(c) ==
  /\ ctx[c].at = "acting"
  /\ ctx' = [ctx EXCEPT ![c] = Free]
  /\ UNCHANGED <<row, runtime, resting, job, made>>
-----------------------------------------------------------------------------
Step(h) == Dispatch(h) \/ RunDueCron(h) \/ serveRoute(h) \/ Proceed(h) \/ call(h) \/ sendAs(h)

Next ==
  \/ RestOver \/ Die
  \/ \E h \in Callers : Step(h)
  \/ \E h \in Admins, p \in Plugins : Activate(h, p) \/ Deactivate(h, p)
  \/ \E g \in 1..runtime.gen : \E i \in 3..(MaxCalls[g] + 2) : read([gen |-> g, id |-> i])
  \/ \E c \in Ctx : answer(c) \/ Serve(c) \/ \E m \in Sent : CtxCall(c, m)

Spec == Init /\ [][Next]_vars
-----------------------------------------------------------------------------
\* A ctx.* call stamped with a call still in flight acts for a plugin of that
\* call and in that call's request, whatever else is in flight and whatever
\* process came since; any other acts only for a plugin being served, and in
\* a user's request only when every call serving the plugin is that user's.
ActsForItsCall ==
  \A c \in Ctx : ctx[c].at = "new" /\ ctx'[c].at = "acting" =>
    LET own == {h \in InFlight : job[h].gen = ctx[c].gen /\ job[h].id = ctx[c].stamp}
    IN  IF own # {}
        THEN \A h \in own : ctx'[c].as \in job[h].plugins /\ ctx'[c].request = job[h].request
        ELSE \E h \in InFlight : /\ ctx'[c].as \in job[h].plugins
                                 /\ \A g \in InFlight : ctx'[c].request # Nil /\ ctx'[c].as \in job[g].plugins
                                                          => ctx'[c].request = job[g].request

\* What a call returns is the runtime's answer to that very call: an answer
\* that comes late, or from a process that has been replaced, reaches nobody,
\* and no two calls wait for one answer, whichever process serves them.
OwnAnswer ==
  \A h \in Callers :
    /\ job[h].box # Nil => job[h].box = Key(job[h])
    /\ \A g \in Callers \ {h} : job[g].at = "waiting" /\ job[h].at = "waiting" => Key(job[g]) # Key(job[h])
=============================================================================
