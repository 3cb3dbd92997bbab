---------------------------- MODULE ServicesProofs ----------------------------
(*****************************************************************************)
(* What other programs are reached through, proved for any number of plugins,*)
(* messages, endpoints, streams and publishers: the plugin bridge and store, *)
(* the mail that comes in, webhooks and the real-time stream.  Then what all *)
(* the services promise together.                                            *)
(*****************************************************************************)
EXTENDS DeskProofs

-----------------------------------------------------------------------------
\* The plugin bridge (PluginBridge).

Process == [gen : 0..MaxGens, up : BOOLEAN, last : Nat, known : {{}, Plugins}]
Caller == [at : {"idle", "owned", "waiting", "next"}, then : Seq({"announce", "lifecycle", "off"}), of : Plugins \cup {Nil},
           plugins : SUBSET Plugins, request : Requests \cup {Nil}, gen : 0..MaxGens, id : Nat, box : {Nil} \cup [gen : Nat, id : Nat]]
CtxJob == [at : {"free", "new", "acting"}, gen : Nat, stamp : Nat, named : Plugins \cup {Nil}, as : Plugins \cup {Nil}, request : Requests \cup {Nil}]

\* Where a caller can be beside process p: a call that waits has an id p or a
\* process before it gave out, and an answer in its box is its own.
CallSound(j, p) ==
  /\ j \in Caller
  /\ j.at = "next" => j.then # <<>>
  /\ j.then # <<>> => j.of \in Plugins
  /\ j.at = "waiting" => /\ j.gen \in 1..MaxGens /\ j.id \in 3..(MaxCalls[j.gen] + 2) /\ j.gen <= p.gen
                         /\ j.gen = p.gen => j.id <= p.last
  /\ j.at # "waiting" => j.box = Nil
  /\ j.box # Nil => j.box = Bridge!Key(j)

BridgeTypes ==
  /\ pluginRow \in [Plugins -> {"on", "off"}] /\ resting \in BOOLEAN
  /\ runtime \in Process /\ (runtime.up => runtime.gen >= 1 /\ runtime.last >= 2)
  /\ ctx \in [Ctx -> CtxJob]

\* No two calls wait under one id of one process.
OneUnderAKey ==
  \A g, h \in Callers : callers[g].at = "waiting" /\ callers[h].at = "waiting" /\ Bridge!Key(callers[g]) = Bridge!Key(callers[h]) => g = h

BridgeInv ==
  /\ BridgeTypes /\ OneUnderAKey
  /\ callers \in [Callers -> Caller] /\ \A h \in Callers : CallSound(callers[h], runtime)

LEMMA BridgeInit == ASSUME Bridge!PluginConstants, Bridge!Init PROVE BridgeInv
<1>1. Bridge!Idle \in Caller /\ Bridge!Idle.then = <<>> /\ Bridge!Idle.at = "idle" /\ Bridge!Idle.box = Nil
  BY DEF Bridge!Idle, Caller, Bridge!PluginConstants
<1>2. Bridge!Free \in CtxJob
  BY DEF Bridge!Free, CtxJob
<1>3. BridgeTypes
  <2>1. 0 \in 0..MaxGens
    BY DEF Bridge!PluginConstants
  <2>2. runtime = [gen |-> 0, up |-> FALSE, last |-> 0, known |-> {}]
    BY DEF Bridge!Init
  <2>3. runtime \in Process /\ ~runtime.up
    BY <2>1, <2>2 DEF Process
  <2> QED BY <1>2, <2>3 DEF Bridge!Init, BridgeTypes
<1>4. callers = [h \in Callers |-> Bridge!Idle]
  BY DEF Bridge!Init
<1> QED BY <1>1, <1>3, <1>4 DEF BridgeInv, OneUnderAKey, CallSound

\* Processes only come after one another, and give out ids one after another.
Grown(p, q) ==
  /\ q \in Process /\ (q.up => q.gen >= 1 /\ q.last >= 2)
  /\ q.gen > p.gen \/ (q.gen = p.gen /\ q.last >= p.last)

LEMMA GrownSound ==
  ASSUME Bridge!PluginConstants, NEW p \in Process, NEW q, Grown(p, q), NEW j, CallSound(j, p) PROVE CallSound(j, q)
<1>1. CASE j.at # "waiting"
  BY <1>1 DEF CallSound
<1>2. CASE j.at = "waiting"
  <2>1. p.gen \in Int /\ q.gen \in Int /\ p.last \in Int /\ q.last \in Int
    BY DEF Grown, Process, Bridge!PluginConstants
  <2>2. j.gen \in Int /\ j.id \in Int /\ j.gen <= p.gen /\ (j.gen = p.gen => j.id <= p.last)
    BY <1>2 DEF CallSound, Bridge!PluginConstants
  <2>3. j.gen <= q.gen /\ (j.gen = q.gen => j.id <= q.last)
    BY <2>1, <2>2 DEF Grown
  <2> QED BY <1>2, <2>3 DEF CallSound
<1> QED BY <1>1, <1>2

\* One caller goes on.
LEMMA CallerMoves ==
  ASSUME Bridge!PluginConstants, BridgeInv, NEW h \in Callers, NEW j, CallSound(j, runtime'), Grown(runtime, runtime'),
         callers' = [callers EXCEPT ![h] = j],
         j.at = "waiting" => \A g \in Callers : g # h /\ callers[g].at = "waiting" => Bridge!Key(callers[g]) # Bridge!Key(j),
         pluginRow' \in [Plugins -> {"on", "off"}], resting' \in BOOLEAN, ctx' \in [Ctx -> CtxJob]
  PROVE  BridgeInv'
<1>1. \A g \in Callers : callers'[g] = IF g = h THEN j ELSE callers[g]
  BY DEF BridgeInv
<1>2. callers' \in [Callers -> Caller]
  BY DEF BridgeInv, CallSound
<1>3. BridgeTypes'
  BY DEF BridgeTypes, Grown
<1>4. runtime \in Process
  BY DEF BridgeInv, BridgeTypes
<1>5. ASSUME NEW g \in Callers PROVE CallSound(callers'[g], runtime')
  BY <1>1, <1>4, GrownSound DEF BridgeInv
<1>6. OneUnderAKey'
  BY <1>1 DEF BridgeInv, OneUnderAKey
<1> QED BY <1>2, <1>3, <1>5, <1>6 DEF BridgeInv
LEMMA CallersStay ==
  ASSUME Bridge!PluginConstants, BridgeInv, Grown(runtime, runtime'), callers' = callers,
         pluginRow' \in [Plugins -> {"on", "off"}], resting' \in BOOLEAN, ctx' \in [Ctx -> CtxJob]
  PROVE  BridgeInv'
<1>1. runtime \in Process
  BY DEF BridgeInv, BridgeTypes
<1>2. \A g \in Callers : CallSound(callers'[g], runtime')
  BY <1>1, GrownSound DEF BridgeInv
<1>3. OneUnderAKey'
  BY DEF BridgeInv, OneUnderAKey
<1>4. BridgeTypes'
  BY DEF BridgeTypes, Grown
<1> QED BY <1>2, <1>3, <1>4 DEF BridgeInv

\* entries() and ensure() leave the process or start the next one.
LEMMA ProcessGrows ==
  ASSUME Bridge!PluginConstants, BridgeInv
  PROVE  /\ runtime' = runtime => Grown(runtime, runtime')
         /\ Bridge!MayStart => Grown(runtime, Bridge!Started) /\ Bridge!Started.up
         /\ Bridge!Entries => Grown(runtime, runtime') /\ resting' \in BOOLEAN
<1>1. runtime \in Process /\ (runtime.up => runtime.gen >= 1 /\ runtime.last >= 2) /\ resting \in BOOLEAN /\ MaxGens \in Nat
  BY DEF BridgeInv, BridgeTypes, Bridge!PluginConstants
<1>2. runtime' = runtime => Grown(runtime, runtime')
  BY <1>1 DEF Grown, Process
<1>3. ASSUME Bridge!MayStart PROVE Grown(runtime, Bridge!Started) /\ Bridge!Started.up
  <2>1. runtime.gen + 1 \in 0..MaxGens /\ runtime.gen + 1 >= 1 /\ runtime.gen + 1 > runtime.gen
    BY <1>1, <1>3 DEF Process, Bridge!MayStart
  <2> QED BY <2>1 DEF Grown, Process, Bridge!Started
<1> QED BY <1>1, <1>2, <1>3 DEF Bridge!Entries, Bridge!NoRuntime

\* What Active lists are plugins.
LEMMA ActivePlugins == ASSUME Grown(runtime, runtime') PROVE Bridge!Active \subseteq Plugins
BY DEF Grown, Process, Bridge!Active

LEMMA AfterSound ==
  ASSUME Bridge!PluginConstants, BridgeInv, NEW h \in Callers
  PROVE  CallSound(Bridge!After(h), runtime) /\ Bridge!After(h).at # "waiting"
<1>1. callers[h] \in Caller /\ CallSound(callers[h], runtime)
  BY DEF BridgeInv
<1>0. 0 \in 0..MaxGens
  BY DEF Bridge!PluginConstants
<1>2. CASE callers[h].then = <<>>
  <2>1. Bridge!After(h) = Bridge!Idle
    BY <1>2 DEF Bridge!After
  <2>2. Bridge!Idle \in Caller /\ Bridge!Idle.at = "idle" /\ Bridge!Idle.then = <<>> /\ Bridge!Idle.box = Nil
    BY <1>0 DEF Bridge!Idle, Caller
  <2> QED BY <2>1, <2>2 DEF CallSound
<1>3. CASE callers[h].then # <<>>
  <2> DEFINE j == [callers[h] EXCEPT !.at = "next", !.plugins = {}, !.gen = 0, !.id = 0, !.box = Nil]
  <2>1. Bridge!After(h) = j
    BY <1>3 DEF Bridge!After
  <2>2. j \in Caller /\ j.at = "next" /\ j.then = callers[h].then /\ j.of = callers[h].of /\ j.box = Nil
    BY <1>0, <1>1 DEF Caller
  <2> HIDE DEF j
  <2> QED BY <1>1, <1>3, <2>1, <2>2 DEF CallSound
<1> QED BY <1>2, <1>3

\* A call takes the next id of process p, which no call has had.
LEMMA Taken ==
  ASSUME Bridge!PluginConstants, BridgeInv, NEW h \in Callers, callers[h].at = "owned",
         NEW p, Grown(runtime, p), p.up, Bridge!Take(h, p), pluginRow' = pluginRow, resting' \in BOOLEAN, ctx' = ctx
  PROVE  BridgeInv'
<1> DEFINE j == [callers[h] EXCEPT !.at = "waiting", !.gen = p.gen, !.id = p.last + 1]
<1>1. p.gen \in 1..MaxGens /\ p.last \in Nat /\ p.last >= 2 /\ p.last < MaxCalls[p.gen] + 2 /\ MaxCalls[p.gen] \in Nat
  BY DEF Grown, Process, Bridge!Take, Bridge!PluginConstants
<1>2. p.last + 1 \in 3..(MaxCalls[p.gen] + 2) /\ p.last + 1 \in Nat
  BY <1>1
<1>3. runtime' = [p EXCEPT !.last = @ + 1] /\ callers' = [callers EXCEPT ![h] = j]
  BY DEF Bridge!Take, Bridge!Set
<1>4. runtime'.gen = p.gen /\ runtime'.last = p.last + 1
  BY <1>3 DEF Grown, Process
<1>5. Grown(runtime, runtime')
  <2>1. runtime' \in Process /\ runtime'.up = p.up
    BY <1>2, <1>3 DEF Grown, Process
  <2>2. runtime \in Process
    BY DEF BridgeInv, BridgeTypes
  <2> QED BY <1>1, <1>4, <2>1, <2>2 DEF Grown, Process
<1>6. CallSound(callers[h], runtime)
  BY DEF BridgeInv
<1>7. j.at = "waiting" /\ j.gen = p.gen /\ j.id = p.last + 1 /\ j.then = callers[h].then /\ j.of = callers[h].of /\ j.box = Nil /\ j \in Caller
  <2>1. callers[h] \in Caller /\ callers[h].box = Nil
    BY <1>6 DEF CallSound
  <2>2. p.gen \in 0..MaxGens
    BY <1>1 DEF Bridge!PluginConstants
  <2> QED BY <1>2, <2>1, <2>2 DEF Caller
<1>8. CallSound(j, runtime')
  BY <1>1, <1>2, <1>4, <1>6, <1>7 DEF CallSound
<1>9. ASSUME NEW g \in Callers, callers[g].at = "waiting" PROVE Bridge!Key(callers[g]) # Bridge!Key(j)
  <2>1. callers[g].gen <= runtime.gen /\ (callers[g].gen = runtime.gen => callers[g].id <= runtime.last) /\ callers[g] \in Caller
    BY <1>9 DEF BridgeInv, CallSound
  <2>2. runtime.gen \in Nat /\ runtime.last \in Nat
    BY DEF BridgeInv, BridgeTypes, Process
  <2>3. callers[g].gen # p.gen \/ callers[g].id # p.last + 1
    BY <1>1, <2>1, <2>2 DEF Grown, Caller
  <2> QED BY <1>7, <2>3 DEF Bridge!Key
<1>10. pluginRow' \in [Plugins -> {"on", "off"}] /\ ctx' \in [Ctx -> CtxJob]
  BY DEF BridgeInv, BridgeTypes
<1> HIDE DEF j
<1> QED BY <1>3, <1>5, <1>8, <1>9, <1>10, CallerMoves

\* A ctx.* call that is not refused acts for a plugin.
LEMMA StampedSomewhere ==
  ASSUME Bridge!PluginConstants, BridgeInv, NEW h \in Callers, NEW named \in Plugins \cup {Nil}
  PROVE  \/ Bridge!Stamped(h, named) = Bridge!Refused
         \/ Bridge!Stamped(h, named).as \in callers[h].plugins /\ Bridge!Stamped(h, named).request = callers[h].request
<1>1. CASE named \in callers[h].plugins
  BY <1>1 DEF Bridge!Stamped
<1>2. CASE named \notin callers[h].plugins /\ named = Nil /\ Bridge!Cardinality(callers[h].plugins) = 1
  <2>1. callers[h].plugins # {}
    <3>1. Bridge!Cardinality({}) = 0
      BY FS_EmptySet DEF Bridge!Cardinality, Cardinality
    <3> QED BY <1>2, <3>1
  <2>2. (CHOOSE p \in callers[h].plugins : TRUE) \in callers[h].plugins
    BY <2>1
  <2> QED BY <1>2, <2>2 DEF Bridge!Stamped
<1> QED BY <1>1, <1>2 DEF Bridge!Stamped

LEMMA OneOf ==
  ASSUME NEW S, IsFiniteSet(S), Bridge!Cardinality(S) = 1 PROVE \A x \in S : x = CHOOSE y \in S : TRUE
<1>1. Cardinality(S) = 1
  BY DEF Bridge!Cardinality, Cardinality
<1>2. PICK x : S = {x}
  BY <1>1, FS_Singleton
<1> QED BY <1>2

\* What acts, acts for a plugin of the call in flight its stamp names, or else
\* of one that serves the plugin; in that call's request, or else in the
\* request of all that do.
LEMMA Resolves ==
  ASSUME Bridge!PluginConstants, BridgeInv, NEW c \in CtxJob, Bridge!resolve(c) # Bridge!Refused
  PROVE  LET own == Bridge!Scope(c.gen, c.stamp)
             to == Bridge!resolve(c)
         IN  /\ own # {} => \A h \in own : to.as \in callers[h].plugins /\ to.request = callers[h].request
             /\ own = {} => \E h \in Bridge!InFlight : /\ to.as \in callers[h].plugins
                                                       /\ \A g \in Bridge!InFlight : to.request # Nil /\ to.as \in callers[g].plugins
                                                                                     => to.request = callers[g].request
             /\ to.as \in Plugins /\ to.request \in Requests \cup {Nil}
<1> DEFINE own == Bridge!Scope(c.gen, c.stamp)
           to == Bridge!resolve(c)
<1>0. callers \in [Callers -> Caller] /\ c.named \in Plugins \cup {Nil} /\ Nil \notin Plugins /\ IsFiniteSet(Callers)
  BY DEF BridgeInv, CtxJob, Bridge!PluginConstants, Bridge!IsFiniteSet, IsFiniteSet
<1>t. \A h \in Callers : callers[h].plugins \subseteq Plugins /\ callers[h].request \in Requests \cup {Nil}
  BY <1>0 DEF Caller
<1>f. Bridge!InFlight \subseteq Callers /\ IsFiniteSet(Bridge!InFlight)
  BY <1>0, FS_Subset DEF Bridge!InFlight
<1>1. CASE own # {}
  <2> DEFINE h == CHOOSE x \in own : TRUE
  <2>1. h \in own /\ own \subseteq Callers
    BY <1>1 DEF Bridge!Scope, Bridge!InFlight
  <2>2. \A g \in own : g = h
    BY <2>1 DEF Bridge!Scope, Bridge!InFlight, BridgeInv, OneUnderAKey
  <2>3. to = Bridge!Stamped(h, c.named)
    BY <1>1 DEF Bridge!resolve
  <2> HIDE DEF h, own, to
  <2>4. to.as \in callers[h].plugins /\ to.request = callers[h].request
    BY <1>0, <2>1, <2>3, StampedSomewhere DEF to
  <2> QED BY <1>1, <1>t, <2>1, <2>2, <2>4 DEF own, to
<1>2. CASE own = {} /\ c.named = Nil
  <2> DEFINE h == CHOOSE x \in Bridge!InFlight : TRUE
  <2>1. to = Bridge!Unnamed
    BY <1>2 DEF Bridge!resolve
  <2>2. Bridge!Cardinality(Bridge!InFlight) = 1 /\ to = Bridge!Stamped(h, Nil)
    BY <2>1 DEF Bridge!Unnamed
  <2>3. \A g \in Bridge!InFlight : g = h
    BY <1>f, <2>2, OneOf
  <2>4. Bridge!InFlight # {}
    <3>1. Bridge!Cardinality({}) = 0
      BY FS_EmptySet DEF Bridge!Cardinality, Cardinality
    <3> QED BY <2>2, <3>1
  <2>5. h \in Bridge!InFlight /\ h \in Callers
    BY <1>f, <2>4
  <2> HIDE DEF h, own, to
  <2>6. to.as \in callers[h].plugins /\ to.request = callers[h].request
    BY <2>2, <2>5, StampedSomewhere DEF to
  <2> QED BY <1>2, <1>t, <2>3, <2>5, <2>6 DEF own, to
<1>3. CASE own = {} /\ c.named # Nil
  <2> DEFINE requests == {callers[h].request : h \in Bridge!Serving(c.named)}
  <2>1. to = Bridge!Named(c.named)
    BY <1>3 DEF Bridge!resolve
  <2>2. Bridge!Serving(c.named) # {}
    BY <2>1 DEF Bridge!Named
  <2>3. Bridge!Serving(c.named) \subseteq Bridge!InFlight /\ \A h \in Bridge!InFlight : h \in Bridge!Serving(c.named) <=> c.named \in callers[h].plugins
    BY DEF Bridge!Serving
  <2>4. IsFiniteSet(requests)
    <3>1. IsFiniteSet(Bridge!Serving(c.named))
      BY <1>f, <2>3, FS_Subset
    <3> DEFINE S == Bridge!Serving(c.named)
    <3>2. IsFiniteSet(S)
      BY <3>1
    <3> HIDE DEF S
    <3>3. [h \in S |-> callers[h].request] \in Surjection(S, {callers[h].request : h \in S})
      BY DEF Surjection
    <3>4. IsFiniteSet({callers[h].request : h \in S})
      BY <3>2, <3>3, FS_Surjection
    <3> QED BY <3>4 DEF S
  <2>5. to = [as |-> c.named, request |-> IF Bridge!Cardinality(requests) = 1 THEN CHOOSE r \in requests : TRUE ELSE Nil]
    BY <2>1, <2>2 DEF Bridge!Named
  <2>6. PICK h \in Bridge!Serving(c.named) : TRUE
    BY <2>2
  <2>7. ASSUME NEW g \in Bridge!Serving(c.named) PROVE callers[g].request \in requests
    OBVIOUS
  <2>8. requests \subseteq Requests \cup {Nil}
    BY <1>f, <1>t, <2>3
  <2> HIDE DEF requests, own, to
  <2>9. to.as = c.named /\ (to.request # Nil => \A g \in Bridge!Serving(c.named) : to.request = callers[g].request)
    BY <2>4, <2>5, <2>7, OneOf
  <2>10. to.request \in Requests \cup {Nil}
    <3>1. CASE Bridge!Cardinality(requests) = 1
      <4>1. to.request = CHOOSE r \in requests : TRUE
        BY <2>5, <3>1
      <4>2. (CHOOSE r \in requests : TRUE) \in requests
        BY <2>6, <2>7
      <4> QED BY <2>8, <4>1, <4>2
    <3> QED BY <2>5, <3>1
  <2> QED BY <1>0, <1>3, <2>3, <2>6, <2>9, <2>10 DEF own, to
<1> QED BY <1>1, <1>2, <1>3

LEMMA BridgeStep == ASSUME Bridge!PluginConstants, BridgeInv, [Bridge!Next]_Bridge!vars PROVE BridgeInv'
<1>0. /\ pluginRow \in [Plugins -> {"on", "off"}] /\ resting \in BOOLEAN /\ ctx \in [Ctx -> CtxJob] /\ runtime \in Process
      /\ callers \in [Callers -> Caller] /\ 0 \in 0..MaxGens
  BY DEF BridgeInv, BridgeTypes, Bridge!PluginConstants
<1>a. \A h \in Callers : CallSound(callers[h], runtime)
  BY DEF BridgeInv
<1>b. Bridge!Idle \in Caller /\ Bridge!Idle.at = "idle" /\ Bridge!Idle.then = <<>> /\ Bridge!Idle.box = Nil
  BY <1>0 DEF Bridge!Idle, Caller
<1>1. CASE UNCHANGED Bridge!vars
  BY <1>0, <1>1, ProcessGrows, CallersStay DEF Bridge!vars
<1>2. CASE Bridge!RestOver
  BY <1>0, <1>2, ProcessGrows, CallersStay DEF Bridge!RestOver
<1>3. CASE Bridge!Die
  <2>1. runtime' = [runtime EXCEPT !.up = FALSE]
    BY <1>3 DEF Bridge!Die
  <2>2. runtime' \in Process /\ ~runtime'.up /\ runtime'.gen = runtime.gen /\ runtime'.last = runtime.last
    BY <1>0, <2>1 DEF Process
  <2>3. runtime.last \in Nat
    BY <1>0 DEF Process
  <2>4. Grown(runtime, runtime')
    BY <2>2, <2>3 DEF Grown
  <2> QED BY <1>0, <1>3, <2>4, CallersStay DEF Bridge!Die
\* A caller begins.
<1>4. ASSUME NEW h \in Callers, NEW ps \in SUBSET Plugins, NEW r \in Requests \cup {Nil}, Bridge!Entries, Bridge!Calls(h, ps, r),
             pluginRow' = pluginRow, ctx' = ctx
      PROVE  BridgeInv'
  <2> DEFINE j == [Bridge!Idle EXCEPT !.at = "owned", !.plugins = ps, !.request = r]
  <2>1. j \in Caller /\ j.at = "owned" /\ j.then = <<>> /\ j.box = Nil
    BY <1>b DEF Caller
  <2>2. callers' = [callers EXCEPT ![h] = j]
    BY <1>4 DEF Bridge!Calls, Bridge!Set
  <2> HIDE DEF j
  <2>3. CallSound(j, runtime')
    BY <2>1 DEF CallSound
  <2>4. Grown(runtime, runtime') /\ resting' \in BOOLEAN
    BY <1>4, ProcessGrows
  <2> QED BY <1>0, <1>4, <2>1, <2>2, <2>3, <2>4, CallerMoves
<1>5. ASSUME NEW h \in Callers, Bridge!Dispatch(h) PROVE BridgeInv'
  <2>1. Bridge!Active \subseteq Plugins
    BY <1>5, ProcessGrows, ActivePlugins DEF Bridge!Dispatch
  <2> QED BY <1>4, <1>5, <2>1 DEF Bridge!Dispatch
<1>6. ASSUME NEW h \in Callers, Bridge!RunDueCron(h) PROVE BridgeInv'
  <2>1. Bridge!Active \subseteq Plugins
    BY <1>6, ProcessGrows, ActivePlugins DEF Bridge!RunDueCron
  <2>2. PICK p \in Bridge!Active : Bridge!Calls(h, {p}, Nil)
    BY <1>6 DEF Bridge!RunDueCron
  <2>3. {p} \in SUBSET Plugins
    BY <2>1
  <2> QED BY <1>4, <1>6, <2>2, <2>3 DEF Bridge!RunDueCron
<1>7. ASSUME NEW h \in Callers, Bridge!serveRoute(h) PROVE BridgeInv'
  <2>1. Bridge!Active \subseteq Plugins
    BY <1>7, ProcessGrows, ActivePlugins DEF Bridge!serveRoute
  <2>2. PICK p \in Bridge!Active, r \in Requests : Bridge!Calls(h, {p}, r)
    BY <1>7 DEF Bridge!serveRoute
  <2>3. {p} \in SUBSET Plugins
    BY <2>1
  <2> QED BY <1>4, <1>7, <2>2, <2>3 DEF Bridge!serveRoute
<1>8. ASSUME NEW h \in Callers, NEW p \in Plugins, NEW r \in Requests, NEW then \in Seq({"announce", "lifecycle", "off"}), then # <<>>,
             Bridge!Entries, Bridge!Following(h, then, p, r), pluginRow' \in [Plugins -> {"on", "off"}], ctx' = ctx
      PROVE  BridgeInv'
  <2> DEFINE j == [Bridge!Idle EXCEPT !.at = "next", !.then = then, !.of = p, !.request = r]
  <2>1. j \in Caller /\ j.at = "next" /\ j.then = then /\ j.of = p /\ j.box = Nil
    BY <1>b DEF Caller
  <2>2. callers' = [callers EXCEPT ![h] = j]
    BY <1>8 DEF Bridge!Following, Bridge!Set
  <2> HIDE DEF j
  <2>3. CallSound(j, runtime')
    BY <1>8, <2>1 DEF CallSound
  <2>4. Grown(runtime, runtime') /\ resting' \in BOOLEAN
    BY <1>8, ProcessGrows
  <2> QED BY <1>0, <1>8, <2>1, <2>2, <2>3, <2>4, CallerMoves
<1>9. ASSUME NEW h \in Callers, NEW p \in Plugins, Bridge!Activate(h, p) \/ Bridge!Deactivate(h, p) PROVE BridgeInv'
  <2>1. <<"lifecycle", "announce">> \in Seq({"announce", "lifecycle", "off"}) /\ <<"lifecycle", "announce">> # <<>>
    OBVIOUS
  <2>2. <<"announce", "lifecycle", "off">> \in Seq({"announce", "lifecycle", "off"}) /\ <<"announce", "lifecycle", "off">> # <<>>
    OBVIOUS
  <2>3. CASE Bridge!Activate(h, p)
    <3>1. pluginRow' \in [Plugins -> {"on", "off"}]
      BY <1>0, <2>3 DEF Bridge!Activate
    <3> QED BY <1>8, <2>1, <2>3, <3>1 DEF Bridge!Activate
  <2>4. CASE Bridge!Deactivate(h, p)
    BY <1>0, <1>8, <2>2, <2>4 DEF Bridge!Deactivate
  <2> QED BY <1>9, <2>3, <2>4
\* A caller goes on.
<1>10. ASSUME NEW h \in Callers, Bridge!Proceed(h) PROVE BridgeInv'
  <2> DEFINE j == callers[h]
             rest == [j EXCEPT !.then = Tail(@), !.at = IF Len(j.then) = 1 THEN "idle" ELSE "next"]
  <2>1. j \in Caller /\ j.at = "next" /\ j.then # <<>> /\ j.of \in Plugins /\ j.box = Nil
    BY <1>a, <1>10 DEF Bridge!Proceed, CallSound
  <2>2. Tail(j.then) \in Seq({"announce", "lifecycle", "off"}) /\ (Len(j.then) # 1 => Tail(j.then) # <<>>)
    <3>1. j.then \in Seq({"announce", "lifecycle", "off"})
      BY <2>1 DEF Caller
    <3> DEFINE s == j.then
    <3>2. s \in Seq({"announce", "lifecycle", "off"}) /\ s # <<>>
      BY <2>1, <3>1
    <3> HIDE DEF s
    <3>3. Tail(s) \in Seq({"announce", "lifecycle", "off"}) /\ Len(s) \in Nat /\ Len(s) # 0
      BY <3>2
    <3>4. Len(Tail(s)) = Len(s) - 1
      BY <3>2, HeadTailProperties
    <3>5. Len(s) # 1 => Len(Tail(s)) # 0
      BY <3>3, <3>4
    <3>6. Len(s) # 1 => Tail(s) # <<>>
      BY <3>5, EmptySeq
    <3> QED BY <3>3, <3>6 DEF s
  <2>3. Grown(runtime, runtime') /\ resting' \in BOOLEAN /\ ctx' = ctx
    BY <1>0, <1>10, ProcessGrows DEF Bridge!Proceed
  <2>4. ASSUME NEW ps \in SUBSET Plugins, callers' = [callers EXCEPT ![h] = [j EXCEPT !.then = Tail(@), !.at = "owned", !.plugins = ps]], pluginRow' = pluginRow
        PROVE  BridgeInv'
    <3> DEFINE k == [j EXCEPT !.then = Tail(@), !.at = "owned", !.plugins = ps]
    <3>1. k \in Caller /\ k.at = "owned" /\ k.of = j.of /\ k.box = Nil
      BY <2>1, <2>2 DEF Caller
    <3> HIDE DEF k, j
    <3>2. CallSound(k, runtime')
      BY <2>1, <3>1 DEF CallSound
    <3> QED BY <1>0, <2>3, <2>4, <3>1, <3>2, CallerMoves DEF k
  <2>5. ASSUME callers' = [callers EXCEPT ![h] = IF rest.at = "idle" THEN Bridge!Idle ELSE rest], pluginRow' \in [Plugins -> {"on", "off"}]
        PROVE  BridgeInv'
    <3>1. CASE Len(j.then) = 1
      <4>1. callers' = [callers EXCEPT ![h] = Bridge!Idle]
        BY <2>1, <2>5, <3>1 DEF Caller
      <4>2. CallSound(Bridge!Idle, runtime')
        BY <1>b DEF CallSound
      <4> QED BY <1>0, <1>b, <2>3, <2>5, <4>1, <4>2, CallerMoves
    <3>2. CASE Len(j.then) # 1
      <4>1. rest \in Caller /\ rest.at = "next" /\ rest.then = Tail(j.then) /\ rest.of = j.of /\ rest.box = Nil
        BY <2>1, <2>2, <3>2 DEF Caller
      <4> HIDE DEF rest, j
      <4>2. callers' = [callers EXCEPT ![h] = rest]
        BY <2>5, <4>1
      <4>3. CallSound(rest, runtime')
        BY <2>1, <2>2, <3>2, <4>1 DEF CallSound
      <4> QED BY <1>0, <2>3, <2>5, <4>1, <4>2, <4>3, CallerMoves
    <3> QED BY <3>1, <3>2
  <2>6. CASE pluginRow' = pluginRow /\ callers' = [callers EXCEPT ![h] = [j EXCEPT !.then = Tail(@), !.at = "owned", !.plugins = {j.of}]]
    <3>1. {j.of} \in SUBSET Plugins
      BY <2>1
    <3> HIDE DEF j
    <3> QED BY <2>4, <2>6, <3>1
  <2>7. CASE pluginRow' = pluginRow /\ callers' = [callers EXCEPT ![h] = [j EXCEPT !.then = Tail(@), !.at = "owned", !.plugins = {p \in runtime.known : pluginRow[p] = "on"}]]
    <3>1. {p \in runtime.known : pluginRow[p] = "on"} \in SUBSET Plugins
      BY <1>0 DEF Process
    <3> QED BY <2>4, <2>7, <3>1
  <2>8. CASE pluginRow' \in {pluginRow, [pluginRow EXCEPT ![j.of] = "off"]} /\ callers' = [callers EXCEPT ![h] = IF rest.at = "idle" THEN Bridge!Idle ELSE rest]
    BY <1>0, <2>1, <2>5, <2>8
  <2> QED BY <1>10, <2>6, <2>7, <2>8 DEF Bridge!Proceed, Bridge!Set
<1>11. ASSUME NEW h \in Callers, Bridge!call(h) PROVE BridgeInv'
  <2>1. CASE runtime.up /\ Bridge!Take(h, runtime) /\ UNCHANGED resting
    <3>1. Grown(runtime, runtime)
      BY <1>0 DEF Grown, BridgeInv, BridgeTypes, Process
    <3> QED BY <1>0, <1>11, <2>1, <3>1, Taken DEF Bridge!call
  <2>2. CASE Bridge!MayStart /\ Bridge!Take(h, Bridge!Started) /\ resting' = FALSE
    BY <1>0, <1>11, <2>2, Taken, ProcessGrows DEF Bridge!call
  <2>3. CASE Bridge!NoRuntime /\ Bridge!Set(h, Bridge!After(h))
    <3>1. Grown(runtime, runtime') /\ resting' \in BOOLEAN /\ runtime' = runtime
      BY <2>3, ProcessGrows DEF Bridge!NoRuntime
    <3>2. callers' = [callers EXCEPT ![h] = Bridge!After(h)]
      BY <2>3 DEF Bridge!Set
    <3>3. pluginRow' = pluginRow /\ ctx' = ctx
      BY <1>11 DEF Bridge!call
    <3> QED BY <1>0, <3>1, <3>2, <3>3, AfterSound, CallerMoves
  <2> QED BY <1>11, <2>1, <2>2, <2>3 DEF Bridge!call
<1>12. ASSUME NEW h \in Callers, Bridge!sendAs(h) PROVE BridgeInv'
  <2>1. Grown(runtime, runtime') /\ runtime' = runtime /\ resting' = resting /\ pluginRow' = pluginRow /\ ctx' = ctx
    BY <1>12, ProcessGrows DEF Bridge!sendAs
  <2>2. callers' = [callers EXCEPT ![h] = Bridge!After(h)]
    BY <1>12 DEF Bridge!sendAs, Bridge!Set
  <2> QED BY <1>0, <2>1, <2>2, AfterSound, CallerMoves
\* The runtime answers.
<1>13. ASSUME NEW m \in [gen : Nat, id : Nat], Bridge!read(m) PROVE BridgeInv'
  <2>1. callers' = [h \in Callers |-> IF Bridge!Pending(h, m) THEN [callers[h] EXCEPT !.box = m] ELSE callers[h]]
    BY <1>13 DEF Bridge!read
  <2>2. runtime' = runtime /\ resting' = resting /\ pluginRow' = pluginRow /\ ctx' = ctx
    BY <1>13 DEF Bridge!read
  <2>3. ASSUME NEW h \in Callers
        PROVE  /\ callers'[h] \in Caller /\ CallSound(callers'[h], runtime)
               /\ callers'[h].at = callers[h].at /\ Bridge!Key(callers'[h]) = Bridge!Key(callers[h])
    <3>1. CASE ~Bridge!Pending(h, m)
      BY <1>0, <1>a, <2>1, <3>1
    <3>2. CASE Bridge!Pending(h, m)
      <4> DEFINE j == [callers[h] EXCEPT !.box = m]
      <4>1. callers[h] \in Caller /\ callers[h].at = "waiting" /\ Bridge!Key(callers[h]) = m /\ CallSound(callers[h], runtime)
        BY <1>0, <1>a, <3>2 DEF Bridge!Pending
      <4>2. /\ j \in Caller /\ j.box = m /\ j.at = callers[h].at /\ j.gen = callers[h].gen /\ j.id = callers[h].id
            /\ j.then = callers[h].then /\ j.of = callers[h].of
        BY <4>1 DEF Caller
      <4>3. callers'[h] = j
        BY <2>1, <3>2
      <4> HIDE DEF j
      <4> QED BY <4>1, <4>2, <4>3 DEF CallSound, Bridge!Key
    <3> QED BY <3>1, <3>2
  <2>4. callers' \in [Callers -> Caller]
    BY <2>1, <2>3
  <2>5. OneUnderAKey'
    BY <2>3 DEF BridgeInv, OneUnderAKey
  <2> QED BY <2>2, <2>3, <2>4, <2>5 DEF BridgeInv, BridgeTypes
<1>14. ASSUME NEW c \in Ctx, NEW v \in CtxJob, ctx' = [ctx EXCEPT ![c] = v], UNCHANGED <<pluginRow, runtime, resting, callers>> PROVE BridgeInv'
  <2>1. ctx' \in [Ctx -> CtxJob]
    BY <1>0, <1>14
  <2> QED BY <1>0, <1>14, <2>1, ProcessGrows, CallersStay
<1>c. Bridge!Free \in CtxJob
  BY DEF Bridge!Free, CtxJob
<1>15. ASSUME NEW c \in Ctx, Bridge!answer(c) PROVE BridgeInv'
  <2>1. Bridge!resolve(ctx[c]) = Bridge!Refused \/ (Bridge!resolve(ctx[c]).as \in Plugins /\ Bridge!resolve(ctx[c]).request \in Requests \cup {Nil})
    BY <1>0, Resolves
  <2>2. CASE Bridge!resolve(ctx[c]) = Bridge!Refused
    BY <1>c, <1>14, <1>15, <2>2 DEF Bridge!answer
  <2>3. CASE Bridge!resolve(ctx[c]) # Bridge!Refused
    <3> DEFINE v == [ctx[c] EXCEPT !.at = "acting", !.as = Bridge!resolve(ctx[c]).as, !.request = Bridge!resolve(ctx[c]).request]
    <3>1. v \in CtxJob
      BY <1>0, <2>1, <2>3 DEF CtxJob
    <3>2. ctx' = [ctx EXCEPT ![c] = v] /\ UNCHANGED <<pluginRow, runtime, resting, callers>>
      BY <1>15, <2>3 DEF Bridge!answer
    <3> HIDE DEF v
    <3> QED BY <1>14, <3>1, <3>2
  <2> QED BY <2>2, <2>3
<1>16. ASSUME NEW c \in Ctx, Bridge!Serve(c) PROVE BridgeInv'
  BY <1>c, <1>14, <1>16 DEF Bridge!Serve
<1>17. ASSUME NEW c \in Ctx, NEW m \in Bridge!Sent, Bridge!CtxCall(c, m) PROVE BridgeInv'
  <2>1. PICK stamp \in {m.id, 0}, named \in Plugins \cup {Nil} :
          ctx' = [ctx EXCEPT ![c] = [Bridge!Free EXCEPT !.at = "new", !.gen = m.gen, !.stamp = stamp, !.named = named]]
    BY <1>17 DEF Bridge!CtxCall
  <2>2. m.gen \in Nat /\ stamp \in Nat
    BY <1>0, <2>1 DEF Bridge!Sent, Process, Bridge!PluginConstants
  <2>3. [Bridge!Free EXCEPT !.at = "new", !.gen = m.gen, !.stamp = stamp, !.named = named] \in CtxJob
    BY <2>2 DEF Bridge!Free, CtxJob
  <2> QED BY <1>14, <1>17, <2>1, <2>3 DEF Bridge!CtxCall
<1>18. ASSUME NEW g \in 1..runtime.gen, NEW i \in 3..(MaxCalls[g] + 2) PROVE [gen |-> g, id |-> i] \in [gen : Nat, id : Nat]
  <2>1. g \in Nat /\ g \in 1..MaxGens
    BY <1>0 DEF Process, Bridge!PluginConstants
  <2>2. MaxCalls[g] \in Nat
    BY <2>1 DEF Bridge!PluginConstants
  <2> QED BY <2>1, <2>2
<1>19. PluginAdmins \subseteq Callers
  BY DEF Bridge!PluginConstants
<1> QED
  BY <1>1, <1>2, <1>3, <1>5, <1>6, <1>7, <1>9, <1>10, <1>11, <1>12, <1>13, <1>15, <1>16, <1>17, <1>18, <1>19
  DEF Bridge!Next, Bridge!Step

LEMMA BridgeHas == ASSUME Bridge!PluginConstants, BridgeInv PROVE Bridge!TypeOK /\ Bridge!OwnAnswer
<1>1. ASSUME NEW h \in Callers
      PROVE  /\ callers[h].at \in {"idle", "owned", "waiting", "next"}
             /\ callers[h].then \in Seq({"announce", "lifecycle", "off"})
             /\ callers[h].plugins \subseteq Plugins
             /\ callers[h].request \in Requests \cup {Nil}
             /\ callers[h].at = "waiting" => callers[h].id \in 3..(MaxCalls[callers[h].gen] + 2)
             /\ callers[h].box # Nil => callers[h].box = Bridge!Key(callers[h])
  <2>1. callers[h] \in Caller /\ CallSound(callers[h], runtime)
    BY DEF BridgeInv
  <2> QED BY <2>1 DEF Caller, CallSound
<1>2. \A c \in Ctx : ctx[c].at \in {"free", "new", "acting"} /\ ctx[c].as \in Plugins \cup {Nil}
  BY DEF BridgeInv, BridgeTypes, CtxJob
<1>3. Bridge!OwnAnswer
  BY DEF Bridge!OwnAnswer, BridgeInv, CallSound, OneUnderAKey
<1> QED BY <1>1, <1>2, <1>3 DEF Bridge!TypeOK, BridgeInv, BridgeTypes, Process

\* Only an answer makes a new ctx.* call act.
LEMMA BridgeActs == ASSUME Bridge!PluginConstants, BridgeInv, [Bridge!Next]_Bridge!vars PROVE Bridge!ActsForItsCall
<1>1. \/ ctx' = ctx
      \/ \E d \in Ctx : Bridge!answer(d) \/ Bridge!Serve(d) \/ \E m \in Bridge!Sent : Bridge!CtxCall(d, m)
  <2>1. ASSUME NEW h \in Callers, Bridge!Step(h) PROVE ctx' = ctx
    BY <2>1 DEF Bridge!Step, Bridge!Dispatch, Bridge!RunDueCron, Bridge!serveRoute, Bridge!Proceed, Bridge!call, Bridge!sendAs
  <2>2. ASSUME NEW h \in PluginAdmins, NEW p \in Plugins, Bridge!Activate(h, p) \/ Bridge!Deactivate(h, p) PROVE ctx' = ctx
    BY <2>2 DEF Bridge!Activate, Bridge!Deactivate
  <2>3. ASSUME NEW m, Bridge!read(m) PROVE ctx' = ctx
    BY <2>3 DEF Bridge!read
  <2>4. Bridge!RestOver \/ Bridge!Die \/ UNCHANGED Bridge!vars => ctx' = ctx
    BY DEF Bridge!RestOver, Bridge!Die, Bridge!vars
  <2> QED BY <2>1, <2>2, <2>3, <2>4 DEF Bridge!Next
<1>2. SUFFICES ASSUME NEW c \in Ctx, ctx[c].at = "new", ctx'[c].at = "acting"
      PROVE  LET own == {h \in Bridge!InFlight : callers[h].gen = ctx[c].gen /\ callers[h].id = ctx[c].stamp}
             IN  IF own # {}
                 THEN \A h \in own : ctx'[c].as \in callers[h].plugins /\ ctx'[c].request = callers[h].request
                 ELSE \E h \in Bridge!InFlight : /\ ctx'[c].as \in callers[h].plugins
                                                  /\ \A g \in Bridge!InFlight : ctx'[c].request # Nil /\ ctx'[c].as \in callers[g].plugins
                                                                                => ctx'[c].request = callers[g].request
  BY DEF Bridge!ActsForItsCall
<1>3. ctx \in [Ctx -> CtxJob] /\ ctx[c] \in CtxJob
  BY DEF BridgeInv, BridgeTypes
<1>4. Bridge!answer(c)
  <2>1. ASSUME NEW d \in Ctx, Bridge!answer(d), d # c PROVE FALSE
    BY <1>2, <1>3, <2>1 DEF Bridge!answer
  <2>2. ASSUME NEW d \in Ctx, Bridge!Serve(d) PROVE FALSE
    BY <1>2, <1>3, <2>2 DEF Bridge!Serve, Bridge!Free
  <2>3. ASSUME NEW d \in Ctx, NEW m \in Bridge!Sent, Bridge!CtxCall(d, m) PROVE FALSE
    <3>1. d # c
      BY <1>2, <2>3 DEF Bridge!CtxCall
    <3>2. ctx'[c] = ctx[c]
      BY <1>3, <2>3, <3>1 DEF Bridge!CtxCall
    <3> QED BY <1>2, <3>2
  <2> QED BY <1>1, <1>2, <2>1, <2>2, <2>3
<1>5. Bridge!resolve(ctx[c]) # Bridge!Refused /\ ctx'[c].as = Bridge!resolve(ctx[c]).as /\ ctx'[c].request = Bridge!resolve(ctx[c]).request
  BY <1>2, <1>3, <1>4 DEF Bridge!answer, Bridge!Free, CtxJob
<1>6. \A h \in Bridge!InFlight : Bridge!Key(callers[h]) = [gen |-> ctx[c].gen, id |-> ctx[c].stamp] <=> callers[h].gen = ctx[c].gen /\ callers[h].id = ctx[c].stamp
  BY DEF Bridge!Key
<1>7. Bridge!Scope(ctx[c].gen, ctx[c].stamp) = {h \in Bridge!InFlight : callers[h].gen = ctx[c].gen /\ callers[h].id = ctx[c].stamp}
  BY <1>6 DEF Bridge!Scope
<1> QED BY <1>3, <1>5, <1>7, Resolves

-----------------------------------------------------------------------------
\* A plugin's store (PluginStore).

StoreRow == [there : BOOLEAN, data : Store!Data]
StoreJob == [op : {"rest", "merge", "set", "update"}, data : Store!Data, row : 0..StoreCalls, alone : BOOLEAN]

\* What a table of rows rs answers a get with, and the row a set finds in it.
LiveIn(rs) == {i \in DOMAIN rs : rs[i].there}
FoundIn(rs) == IF LiveIn(rs) = {} THEN {0} ELSE {CHOOSE i \in LiveIn(rs) : \A j \in LiveIn(rs) : i <= j}
GotFrom(rs) == {IF i = 0 THEN Store!None ELSE rs[i].data : i \in FoundIn(rs)}

LEMMA FoundIs == Store!Live = LiveIn(storeRows) /\ Store!find = FoundIn(storeRows) /\ Store!get = GotFrom(storeRows)
                 /\ Store!Live' = LiveIn(storeRows') /\ Store!find' = FoundIn(storeRows') /\ Store!get' = GotFrom(storeRows')
BY DEF LiveIn, FoundIn, GotFrom, Store!Live, Store!find, Store!get

LEMMA Finds ==
  ASSUME NEW rs \in Seq(StoreRow)
  PROVE  /\ LiveIn(rs) \subseteq 1..Len(rs)
         /\ LiveIn(rs) = {} => FoundIn(rs) = {0} /\ GotFrom(rs) = {Store!None}
         /\ LiveIn(rs) # {} => \E i \in LiveIn(rs) : \A j \in LiveIn(rs) : i <= j
         /\ \A i \in LiveIn(rs) : (\A j \in LiveIn(rs) : i <= j) => FoundIn(rs) = {i} /\ GotFrom(rs) = {rs[i].data}
<1>1. LiveIn(rs) \subseteq 1..Len(rs) /\ LiveIn(rs) \subseteq Nat
  BY DEF LiveIn
<1>2. ASSUME LiveIn(rs) = {} PROVE FoundIn(rs) = {0} /\ GotFrom(rs) = {Store!None}
  BY <1>2 DEF FoundIn, GotFrom
<1>3. LiveIn(rs) # {} => \E i \in LiveIn(rs) : \A j \in LiveIn(rs) : i <= j
  BY <1>1, Smallest
<1>4. ASSUME NEW i \in LiveIn(rs), \A j \in LiveIn(rs) : i <= j PROVE FoundIn(rs) = {i} /\ GotFrom(rs) = {rs[i].data}
  <2> DEFINE L == LiveIn(rs)
  <2>1. \A k \in L : (\A j \in L : k <= j) => k = i
    BY <1>1, <1>4
  <2>2. (CHOOSE k \in L : \A j \in L : k <= j) = i
    BY <1>4, <2>1
  <2>3. FoundIn(rs) = {i} /\ i # 0
    BY <1>1, <1>4, <2>2 DEF FoundIn
  <2> QED BY <2>3 DEF GotFrom
<1> QED BY <1>1, <1>2, <1>3, <1>4

\* A call that overlaps none has found the row a get would answer from.  Every
\* call in flight may still insert a row.
StoreInv ==
  /\ storeRows \in Seq(StoreRow) /\ storeWork \in [Workers -> StoreJob] /\ calls \in 0..StoreCalls /\ settled \subseteq Store!Data
  /\ IsFiniteSet(Store!Busy) /\ Len(storeRows) + Cardinality(Store!Busy) <= calls
  /\ Store!get \subseteq settled
  /\ \A w \in Store!Busy : storeWork[w].alone =>
       Store!Busy = {w} /\ {storeWork[w].row} = Store!find
  /\ \A w \in Store!Busy : storeWork[w].row <= Len(storeRows)

LEMMA StoreInit == ASSUME Store!StoreConstants, Store!Init PROVE StoreInv
<1>1. Store!None \in Store!Data
  BY DEF Store!None, Store!Data
<1>2. Store!Rest \in StoreJob /\ Store!Rest.op = "rest"
  BY <1>1 DEF Store!Rest, StoreJob, Store!StoreConstants
<1>3. Store!Busy = {} /\ storeWork \in [Workers -> StoreJob]
  BY <1>2 DEF Store!Init, Store!Busy
<1>4. storeRows = <<>> /\ storeRows \in Seq(StoreRow) /\ Len(storeRows) = 0
  BY DEF Store!Init
<1>5. Store!get = {Store!None}
  <2>1. LiveIn(storeRows) = {}
    BY <1>4 DEF LiveIn
  <2> QED BY <1>4, <2>1, Finds, FoundIs
<1>6. IsFiniteSet({}) /\ Cardinality({}) = 0
  BY FS_EmptySet
<1> QED BY <1>1, <1>3, <1>4, <1>5, <1>6 DEF StoreInv, Store!Init, Store!StoreConstants

LEMMA StoreHas == ASSUME Store!StoreConstants, StoreInv PROVE Store!TypeOK /\ Store!ReadsTheLastWrite
<1>1. Cardinality(Store!Busy) \in Nat /\ Len(storeRows) \in Nat
  BY FS_CardinalityType DEF StoreInv
<1>2. Len(storeRows) <= StoreCalls
  BY <1>1 DEF StoreInv, Store!StoreConstants
<1> QED BY <1>2 DEF StoreInv, Store!TypeOK, Store!ReadsTheLastWrite, StoreRow, StoreJob

\* What a call may write is a record's data.
LEMMA Writes ==
  ASSUME Store!StoreConstants, StoreInv
  PROVE  /\ Store!None \in Store!Data
         /\ \A i \in Store!find : i \in 0..Len(storeRows) /\ i \in 0..StoreCalls /\ (i # 0 => i \in DOMAIN storeRows /\ storeRows[i].data \in Store!Data)
         /\ \A i \in Store!find, d \in Store!Data : i # 0 => Store!Merge(storeRows[i].data, d) \in Store!Data
<1>1. Store!None \in Store!Data
  BY DEF Store!None, Store!Data
<1>2. storeRows \in Seq(StoreRow) /\ Len(storeRows) \in Nat /\ Len(storeRows) <= StoreCalls
  BY StoreHas DEF Store!TypeOK, StoreInv
<1>3. ASSUME NEW i \in Store!find PROVE i \in 0..Len(storeRows) /\ i \in 0..StoreCalls /\ (i # 0 => i \in DOMAIN storeRows /\ storeRows[i].data \in Store!Data)
  <2>1. i \in FoundIn(storeRows)
    BY FoundIs
  <2>2. CASE i = 0
    BY <1>2, <2>2 DEF Store!StoreConstants
  <2>3. CASE i # 0
    <3>1. LiveIn(storeRows) # {}
      BY <1>2, <2>1, <2>3, Finds
    <3>2. i \in LiveIn(storeRows)
      BY <1>2, <2>1, <3>1, Finds
    <3>3. i \in 1..Len(storeRows) /\ storeRows[i] \in StoreRow
      BY <1>2, <3>2, Finds
    <3>4. storeRows[i].data \in Store!Data
      BY <3>3 DEF StoreRow
    <3>5. DOMAIN storeRows = 1..Len(storeRows) /\ StoreCalls \in Nat
      BY <1>2 DEF Store!StoreConstants
    <3>6. i \in 0..Len(storeRows) /\ i \in 0..StoreCalls
      BY <1>2, <3>3, <3>5
    <3> QED BY <3>3, <3>4, <3>5, <3>6
  <2> QED BY <2>2, <2>3
<1>4. ASSUME NEW old \in Store!Data, NEW d \in Store!Data PROVE Store!Merge(old, d) \in Store!Data
  BY <1>4 DEF Store!Merge, Store!Data
<1> QED BY <1>1, <1>3, <1>4

LEMMA StoreBegins ==
  ASSUME Store!StoreConstants, StoreInv, NEW w \in Workers, w \notin Store!Busy, Store!Count,
         NEW op \in {"merge", "set", "update"}, NEW d \in Store!Data, NEW i \in Store!find, Store!Begin(w, op, d, i), UNCHANGED <<storeRows, settled>>
  PROVE  StoreInv'
<1>1. storeWork' = [v \in Workers |-> IF v = w THEN [op |-> op, data |-> d, row |-> i, alone |-> Store!Busy = {}]
                                     ELSE [storeWork[v] EXCEPT !.alone = @ /\ v \notin Store!Busy]]
  BY DEF Store!Begin
<1>2. i \in 0..Len(storeRows) /\ i \in 0..StoreCalls
  BY Writes
<1>3. ASSUME NEW v \in Workers, v # w
      PROVE  storeWork'[v] \in StoreJob /\ storeWork'[v].op = storeWork[v].op /\ storeWork'[v].row = storeWork[v].row /\ (v \in Store!Busy => ~storeWork'[v].alone)
  <2>1. storeWork'[v] = [storeWork[v] EXCEPT !.alone = @ /\ v \notin Store!Busy]
    BY <1>1, <1>3
  <2>2. storeWork[v] \in StoreJob
    BY DEF StoreInv
  <2> QED BY <2>1, <2>2 DEF StoreJob
<1>4. storeWork'[w] = [op |-> op, data |-> d, row |-> i, alone |-> Store!Busy = {}]
  BY <1>1
<1>5. storeWork'[w] \in StoreJob
  BY <1>2, <1>4 DEF StoreJob
<1>6. storeWork' \in [Workers -> StoreJob]
  BY <1>1, <1>3, <1>5
<1>7. Store!Busy' = Store!Busy \cup {w}
  BY <1>3, <1>4 DEF Store!Busy
<1>8. IsFiniteSet(Store!Busy') /\ Cardinality(Store!Busy') = Cardinality(Store!Busy) + 1 /\ Cardinality(Store!Busy) \in Nat /\ Len(storeRows) \in Nat
  BY <1>7, FS_AddElement, FS_CardinalityType DEF StoreInv
<1>9. calls' = calls + 1 /\ calls' \in 0..StoreCalls /\ calls \in Nat
  BY DEF Store!Count, StoreInv, Store!StoreConstants
<1>10. Len(storeRows') + Cardinality(Store!Busy') <= calls'
  BY <1>8, <1>9 DEF StoreInv
<1>11. Store!get' \subseteq settled' /\ Store!find' = Store!find
  BY FoundIs DEF StoreInv
<1>12. \A v \in Store!Busy' : storeWork'[v].alone => Store!Busy' = {v} /\ {storeWork'[v].row} = Store!find'
  <2>1. Store!find = {i}
    BY FoundIs DEF FoundIn
  <2>2. Store!Busy \subseteq Workers
    BY DEF Store!Busy
  <2>3. ASSUME NEW v \in Store!Busy', storeWork'[v].alone PROVE v = w
    BY <1>3, <1>7, <2>2, <2>3
  <2>4. storeWork'[w].alone => Store!Busy' = {w}
    <3>1. storeWork'[w].alone = (Store!Busy = {})
      BY <1>4
    <3>2. Store!Busy = {} => Store!Busy \cup {w} = {w}
      OBVIOUS
    <3> QED BY <1>7, <3>1, <3>2
  <2>5. {storeWork'[w].row} = Store!find'
    BY <1>4, <1>11, <2>1
  <2> QED BY <2>3, <2>4, <2>5
<1>13. \A v \in Store!Busy' : storeWork'[v].row <= Len(storeRows')
  BY <1>2, <1>3, <1>4, <1>7 DEF StoreInv, Store!Busy
<1> QED BY <1>6, <1>8, <1>9, <1>10, <1>11, <1>12, <1>13 DEF StoreInv

\* With the calls that wait still there, and none of them alone any more, the
\* table may change; and so may it by the call that ends.
LEMMA StoreWrites ==
  ASSUME Store!StoreConstants, StoreInv, storeRows' \in Seq(StoreRow), Len(storeRows') >= Len(storeRows),
         storeWork' \in [Workers -> StoreJob], Store!Busy' \subseteq Store!Busy, calls' \in 0..StoreCalls, settled' \subseteq Store!Data,
         Len(storeRows') + Cardinality(Store!Busy') <= calls', Store!get' \subseteq settled',
         \A v \in Store!Busy' : storeWork'[v].row = storeWork[v].row /\ ~storeWork'[v].alone
  PROVE  StoreInv'
<1>1. IsFiniteSet(Store!Busy')
  BY FS_Subset DEF StoreInv
<1>2. \A v \in Store!Busy' : storeWork'[v].row <= Len(storeRows')
  <2>1. ASSUME NEW v \in Store!Busy PROVE storeWork[v].row \in Nat /\ storeWork[v].row <= Len(storeRows)
    BY DEF StoreInv, StoreJob, Store!Busy
  <2>2. Len(storeRows) \in Nat /\ Len(storeRows') \in Nat
    BY DEF StoreInv
  <2> QED BY <2>1, <2>2
<1> QED BY <1>1, <1>2 DEF StoreInv

LEMMA StoreStep == ASSUME Store!StoreConstants, StoreInv, [Store!Next]_Store!vars PROVE StoreInv'
<1>0. /\ storeRows \in Seq(StoreRow) /\ Len(storeRows) \in Nat /\ storeWork \in [Workers -> StoreJob] /\ settled \subseteq Store!Data
      /\ Cardinality(Store!Busy) \in Nat /\ calls \in Nat /\ IsFiniteSet(Store!Busy)
  BY FS_CardinalityType DEF StoreInv, Store!StoreConstants
<1>1. CASE UNCHANGED Store!vars
  <2>1. Store!Busy' = Store!Busy /\ Store!get' = Store!get /\ Store!find' = Store!find
    BY <1>1 DEF Store!vars, Store!Busy, Store!get, Store!find, Store!Live
  <2> QED BY <1>1, <2>1 DEF Store!vars, StoreInv
<1>2. ASSUME NEW w \in Workers, NEW d \in Store!Data, Store!set(w, d) PROVE StoreInv'
  BY <1>2, StoreBegins DEF Store!set
<1>3. ASSUME NEW w \in Workers, NEW d \in Store!Data, Store!configSet(w, d) PROVE StoreInv'
  <2>1. PICK i \in Store!find : Store!Begin(w, "merge", IF i = 0 THEN d ELSE Store!Merge(storeRows[i].data, d), i)
    BY <1>3 DEF Store!configSet
  <2>2. CASE i = 0
    BY <1>3, <2>1, <2>2, StoreBegins DEF Store!configSet
  <2>3. CASE i # 0
    <3> DEFINE e == Store!Merge(storeRows[i].data, d)
    <3>1. Store!Begin(w, "merge", e, i) /\ e \in Store!Data
      BY <2>1, <2>3, Writes
    <3> HIDE DEF e
    <3> QED BY <1>3, <3>1, StoreBegins DEF Store!configSet
  <2> QED BY <2>2, <2>3
<1>4. ASSUME NEW w \in Workers, NEW d \in Store!Data, Store!update(w, d) PROVE StoreInv'
  <2>1. PICK i \in Store!find : i # 0 /\ Store!Begin(w, "update", Store!Merge(storeRows[i].data, d), i)
    BY <1>4 DEF Store!update
  <2> DEFINE e == Store!Merge(storeRows[i].data, d)
  <2>2. Store!Begin(w, "update", e, i) /\ e \in Store!Data
    BY <2>1, Writes
  <2> HIDE DEF e
  <2> QED BY <1>4, <2>2, StoreBegins DEF Store!update
<1>f. ASSUME NEW w \in Workers, Store!FindAgain(w) PROVE StoreInv'
  <2>1. PICK i \in Store!find : storeWork' = [storeWork EXCEPT ![w].op = "set", ![w].row = i]
    BY <1>f DEF Store!FindAgain
  <2>2. storeWork[w].op = "merge" /\ w \in Store!Busy /\ UNCHANGED <<storeRows, calls, settled>>
    BY <1>f DEF Store!FindAgain, Store!Busy
  <2>3. i \in 0..Len(storeRows) /\ i \in 0..StoreCalls
    BY Writes
  <2> DEFINE c == [storeWork[w] EXCEPT !.op = "set", !.row = i]
  <2>a. storeWork' = [storeWork EXCEPT ![w] = c]
    BY <1>0, <2>1
  <2>b. c \in StoreJob /\ c.op = "set" /\ c.row = i /\ c.alone = storeWork[w].alone
    BY <1>0, <2>3 DEF StoreJob
  <2> HIDE DEF c
  <2>4. storeWork'[w] = c /\ \A v \in Workers : v # w => storeWork'[v] = storeWork[v]
    BY <1>0, <2>a
  <2>5. storeWork'[w] \in StoreJob /\ storeWork'[w].op = "set" /\ storeWork'[w].row = i /\ storeWork'[w].alone = storeWork[w].alone
    BY <2>b, <2>4
  <2>6. storeWork' \in [Workers -> StoreJob]
    BY <1>0, <2>a, <2>b
  <2>7. Store!Busy' = Store!Busy
    BY <2>2, <2>4, <2>5 DEF Store!Busy
  <2>8. Store!find' = Store!find /\ Store!get' = Store!get /\ Store!find = {i}
    BY <2>2, FoundIs DEF FoundIn
  <2>9. \A v \in Store!Busy' : storeWork'[v].alone => Store!Busy' = {v} /\ {storeWork'[v].row} = Store!find'
    <3>1. ASSUME NEW v \in Store!Busy, storeWork'[v].alone PROVE Store!Busy = {v} /\ {storeWork'[v].row} = Store!find
      <4>1. storeWork[v].alone /\ v \in Workers
        BY <2>4, <2>5, <3>1 DEF Store!Busy
      <4>2. Store!Busy = {v} /\ {storeWork[v].row} = Store!find
        BY <4>1 DEF StoreInv
      <4>3. v = w
        BY <2>2, <4>2
      <4> QED BY <2>5, <2>8, <4>2, <4>3
    <3> QED BY <2>7, <2>8, <3>1
  <2>10. \A v \in Store!Busy' : storeWork'[v].row <= Len(storeRows')
    BY <2>2, <2>3, <2>4, <2>5, <2>7 DEF StoreInv, Store!Busy
  <2> QED BY <2>2, <2>6, <2>7, <2>8, <2>9, <2>10 DEF StoreInv
\* A row is added at the end: an older one stays what a get answers from.
<1>a. ASSUME NEW d \in Store!Data, storeRows' = Append(storeRows, Store!Row(d))
      PROVE  /\ storeRows' \in Seq(StoreRow) /\ Len(storeRows') = Len(storeRows) + 1
             /\ Store!get' \subseteq Store!get \cup {d}
             /\ Store!Live = {} => Store!get' = {d}
  <2> DEFINE r == Store!Row(d)
             n == Len(storeRows) + 1
  <2>1. r \in StoreRow /\ r.there /\ r.data = d
    BY DEF Store!Row, StoreRow
  <2> HIDE DEF r
  <2>2. storeRows' = Append(storeRows, r)
    BY <1>a DEF r
  <2>3. storeRows' \in Seq(StoreRow) /\ Len(storeRows') = n /\ storeRows'[n] = r /\ \A i \in 1..Len(storeRows) : storeRows'[i] = storeRows[i]
    BY <1>0, <2>1, <2>2, AppendProperties
  <2>4. DOMAIN storeRows' = 1..n /\ DOMAIN storeRows = 1..Len(storeRows)
    BY <1>0, <2>3
  <2>5. 1..n = (1..Len(storeRows)) \cup {n} /\ n \notin 1..Len(storeRows)
    BY <1>0
  <2> HIDE DEF n
  <2>6. LiveIn(storeRows') = LiveIn(storeRows) \cup {n}
    BY <2>1, <2>3, <2>4, <2>5 DEF LiveIn
  <2>7. \A i \in LiveIn(storeRows) : i <= n
    BY <1>0, Finds DEF n
  <2>8. CASE LiveIn(storeRows) = {}
    <3>1. GotFrom(storeRows') = {d}
      <4>1. n \in LiveIn(storeRows') /\ \A j \in LiveIn(storeRows') : n <= j
        BY <1>0, <2>6, <2>8 DEF n
      <4> QED BY <2>1, <2>3, <4>1, Finds
    <3> QED BY <2>3, <3>1, FoundIs DEF n
  <2>9. CASE LiveIn(storeRows) # {}
    <3>1. PICK i \in LiveIn(storeRows) : \A j \in LiveIn(storeRows) : i <= j
      BY <1>0, <2>9, Finds
    <3>2. i \in LiveIn(storeRows') /\ \A j \in LiveIn(storeRows') : i <= j
      BY <2>6, <2>7, <3>1
    <3>3. storeRows'[i] = storeRows[i]
      BY <1>0, <2>3, <3>1, Finds
    <3>4. GotFrom(storeRows') = {storeRows'[i].data} /\ GotFrom(storeRows) = {storeRows[i].data}
      BY <1>0, <2>3, <3>1, <3>2, Finds
    <3> QED BY <2>3, <2>9, <3>3, <3>4, FoundIs DEF n
  <2> QED BY <2>8, <2>9
\* Whoever waits is no longer alone.
<1>b. ASSUME storeWork' = [v \in Workers |-> [storeWork[v] EXCEPT !.alone = @ /\ v \notin Store!Busy]]
      PROVE  /\ storeWork' \in [Workers -> StoreJob] /\ Store!Busy' = Store!Busy
             /\ \A v \in Store!Busy' : storeWork'[v].row = storeWork[v].row /\ ~storeWork'[v].alone
  <2>1. ASSUME NEW v \in Workers
        PROVE  storeWork'[v] \in StoreJob /\ storeWork'[v].op = storeWork[v].op /\ storeWork'[v].row = storeWork[v].row /\ (v \in Store!Busy => ~storeWork'[v].alone)
    <3>1. storeWork'[v] = [storeWork[v] EXCEPT !.alone = @ /\ v \notin Store!Busy] /\ storeWork[v] \in StoreJob
      BY <1>0, <1>b
    <3> QED BY <3>1 DEF StoreJob
  <2>2. storeWork' \in [Workers -> StoreJob]
    BY <1>b, <2>1
  <2>3. Store!Busy' = Store!Busy
    BY <2>1 DEF Store!Busy
  <2> QED BY <2>1, <2>2, <2>3 DEF Store!Busy
<1>5. ASSUME NEW w \in Workers, NEW d \in Store!Data, Store!insert(w, d) PROVE StoreInv'
  <2>1. settled' = (IF Store!Live = {} /\ Store!Busy = {} THEN {d} ELSE settled \cup {d}) /\ calls' = calls + 1 /\ calls < StoreCalls
    BY <1>5 DEF Store!insert, Store!Count
  <2>2. storeRows' = Append(storeRows, Store!Row(d)) /\ storeWork' = [v \in Workers |-> [storeWork[v] EXCEPT !.alone = @ /\ v \notin Store!Busy]]
    BY <1>5 DEF Store!insert
  <2>3. Store!get' \subseteq settled' /\ settled' \subseteq Store!Data
    BY <1>0, <1>a, <2>1, <2>2 DEF StoreInv
  <2>4. calls' \in 0..StoreCalls /\ Len(storeRows') + Cardinality(Store!Busy') <= calls' /\ Len(storeRows') >= Len(storeRows)
    BY <1>0, <1>a, <1>b, <2>1, <2>2 DEF StoreInv, Store!StoreConstants
  <2> QED BY <1>a, <1>b, <2>2, <2>3, <2>4, StoreWrites
<1>6. ASSUME NEW w \in Workers, Store!delete(w) PROVE StoreInv'
  <2>1. storeRows' = [i \in DOMAIN storeRows |-> Store!Gone] /\ storeWork' = [v \in Workers |-> [storeWork[v] EXCEPT !.alone = @ /\ v \notin Store!Busy]]
    BY <1>6 DEF Store!delete
  <2>2. settled' = (IF Store!Busy = {} THEN {Store!None} ELSE settled \cup {Store!None}) /\ calls' = calls + 1 /\ calls < StoreCalls
    BY <1>6 DEF Store!delete, Store!Return, Store!Count
  <2>3. Store!None \in Store!Data /\ Store!Gone \in StoreRow /\ Store!Gone.there = FALSE
    BY Writes DEF Store!Gone, StoreRow
  <2>4. storeRows' \in Seq(StoreRow) /\ Len(storeRows') = Len(storeRows)
    <3>1. storeRows' \in [1..Len(storeRows) -> StoreRow]
      BY <1>0, <2>1, <2>3
    <3> QED BY <1>0, <3>1
  <2>5. LiveIn(storeRows') = {}
    BY <2>1, <2>3 DEF LiveIn
  <2>6. Store!get' = {Store!None}
    BY <2>4, <2>5, Finds, FoundIs
  <2>7. Store!get' \subseteq settled' /\ settled' \subseteq Store!Data
    BY <1>0, <2>2, <2>3, <2>6
  <2>8. calls' \in 0..StoreCalls /\ Len(storeRows') + Cardinality(Store!Busy') <= calls' /\ Len(storeRows') >= Len(storeRows)
    BY <1>0, <1>b, <2>1, <2>2, <2>4 DEF StoreInv, Store!StoreConstants
  <2> QED BY <1>b, <2>1, <2>4, <2>7, <2>8, StoreWrites
<1>7. ASSUME NEW w \in Workers, Store!Write(w) PROVE StoreInv'
  <2> DEFINE c == storeWork[w]
  <2>0. w \in Store!Busy /\ c \in StoreJob /\ c.row <= Len(storeRows)
    BY <1>0, <1>7 DEF Store!Write, Store!Busy, StoreInv
  <2>1. storeWork' = [storeWork EXCEPT ![w] = Store!Rest] /\ calls' = calls
    BY <1>7 DEF Store!Write
  <2>2. settled' = IF c.alone THEN {c.data} ELSE settled \cup {c.data}
    BY <1>7 DEF Store!Write, Store!Return
  <2>3. storeRows' = IF c.row = 0 THEN Append(storeRows, Store!Row(c.data))
                     ELSE IF storeRows[c.row].there THEN [storeRows EXCEPT ![c.row] = Store!Row(c.data)] ELSE storeRows
    BY <1>7 DEF Store!Write
  <2>4. Store!Rest \in StoreJob /\ Store!Rest.op = "rest"
    BY Writes DEF Store!Rest, StoreJob, Store!StoreConstants
  <2>5. storeWork' \in [Workers -> StoreJob] /\ Store!Busy' = Store!Busy \ {w}
    BY <1>0, <2>1, <2>4 DEF Store!Busy
  <2>6. Cardinality(Store!Busy') = Cardinality(Store!Busy) - 1
    BY <1>0, <2>0, <2>5, FS_RemoveElement
  <2>7. \A v \in Store!Busy' : storeWork'[v].row = storeWork[v].row /\ ~storeWork'[v].alone
    <3>1. ASSUME NEW v \in Store!Busy' PROVE storeWork'[v] = storeWork[v] /\ v # w /\ v \in Store!Busy
      BY <1>0, <2>1, <2>5 DEF Store!Busy
    <3> QED BY <2>0, <3>1 DEF StoreInv
  <2>8. c.data \in Store!Data /\ settled' \subseteq Store!Data /\ c.alone \in BOOLEAN /\ c.row \in Nat
    BY <1>0, <2>0, <2>2 DEF StoreJob
  <2>9. c.alone => {c.row} = Store!find
    BY <2>0 DEF StoreInv
  <2> HIDE DEF c
  <2>10. CASE c.row = 0
    <3>1. storeRows' = Append(storeRows, Store!Row(c.data))
      BY <2>3, <2>10
    <3>2. c.alone => LiveIn(storeRows) = {}
      <4>1. ASSUME c.alone, LiveIn(storeRows) # {} PROVE FALSE
        <5>1. FoundIn(storeRows) = {0}
          BY <2>9, <2>10, <4>1, FoundIs
        <5>2. PICK i \in LiveIn(storeRows) : \A j \in LiveIn(storeRows) : i <= j
          BY <1>0, <4>1, Finds
        <5>3. FoundIn(storeRows) = {i}
          BY <1>0, <5>2, Finds
        <5>4. i \in 1..Len(storeRows)
          BY DEF LiveIn
        <5> QED BY <5>1, <5>3, <5>4
      <4> QED BY <4>1
    <3>3. Store!get' \subseteq settled'
      BY <1>a, <2>2, <2>8, <3>1, <3>2, FoundIs DEF StoreInv
    <3>4. Len(storeRows') + Cardinality(Store!Busy') <= calls' /\ Len(storeRows') >= Len(storeRows) /\ calls' \in 0..StoreCalls
      BY <1>0, <1>a, <2>1, <2>6, <2>8, <3>1 DEF StoreInv
    <3> QED BY <1>a, <2>5, <2>7, <2>8, <3>1, <3>3, <3>4, StoreWrites
  <2>11. CASE c.row # 0 /\ storeRows[c.row].there
    <3> DEFINE r == Store!Row(c.data)
    <3>1. r \in StoreRow /\ r.there /\ r.data = c.data
      BY <2>8 DEF Store!Row, StoreRow
    <3>2. storeRows' = [storeRows EXCEPT ![c.row] = r]
      BY <2>3, <2>11
    <3> HIDE DEF r
    <3>3. c.row \in 1..Len(storeRows) /\ DOMAIN storeRows = 1..Len(storeRows)
      BY <1>0, <2>0, <2>8, <2>11 DEF c
    <3>4. storeRows' \in Seq(StoreRow) /\ Len(storeRows') = Len(storeRows)
      BY <1>0, <3>1, <3>2, <3>3, ExceptSeq
    <3>5. \A i \in DOMAIN storeRows : storeRows'[i] = IF i = c.row THEN r ELSE storeRows[i]
      BY <3>2
    <3>6. LiveIn(storeRows') = LiveIn(storeRows) /\ c.row \in LiveIn(storeRows)
      BY <2>11, <3>1, <3>2, <3>3, <3>5 DEF LiveIn
    <3>7. PICK i \in LiveIn(storeRows) : \A j \in LiveIn(storeRows) : i <= j
      BY <1>0, <3>6, Finds
    <3>8. FoundIn(storeRows) = {i} /\ GotFrom(storeRows) = {storeRows[i].data} /\ GotFrom(storeRows') = {storeRows'[i].data}
      BY <1>0, <3>4, <3>6, <3>7, Finds
    <3>9. i \in DOMAIN storeRows
      BY <3>7 DEF LiveIn
    <3>10. storeRows'[i].data = IF i = c.row THEN c.data ELSE storeRows[i].data
      BY <3>1, <3>5, <3>9
    <3>11. c.alone => c.row = i
      BY <2>9, <3>8, FoundIs
    <3>12. Store!get' \subseteq settled'
      BY <2>2, <3>8, <3>10, <3>11, FoundIs DEF StoreInv
    <3>13. Len(storeRows') + Cardinality(Store!Busy') <= calls' /\ Len(storeRows') >= Len(storeRows) /\ calls' \in 0..StoreCalls
      BY <1>0, <2>1, <2>6, <3>4 DEF StoreInv
    <3> QED BY <2>5, <2>7, <2>8, <3>4, <3>12, <3>13, StoreWrites
  <2>12. CASE c.row # 0 /\ ~storeRows[c.row].there
    <3>1. storeRows' = storeRows
      BY <2>3, <2>12
    <3>2. ~c.alone
      <4>1. ASSUME c.alone PROVE c.row \in LiveIn(storeRows)
        <5>1. FoundIn(storeRows) = {c.row}
          BY <2>9, <4>1, FoundIs
        <5>2. LiveIn(storeRows) # {}
          BY <1>0, <2>12, <5>1, Finds
        <5>3. PICK i \in LiveIn(storeRows) : \A j \in LiveIn(storeRows) : i <= j
          BY <1>0, <5>2, Finds
        <5>4. FoundIn(storeRows) = {i}
          BY <1>0, <5>3, Finds
        <5> QED BY <5>1, <5>3, <5>4
      <4> QED BY <2>12, <4>1 DEF LiveIn
    <3>3. Store!get' \subseteq settled'
      BY <2>2, <3>1, <3>2, FoundIs DEF StoreInv
    <3>4. Len(storeRows') + Cardinality(Store!Busy') <= calls' /\ Len(storeRows') >= Len(storeRows) /\ calls' \in 0..StoreCalls
      BY <1>0, <2>1, <2>6, <3>1 DEF StoreInv
    <3> QED BY <1>0, <2>5, <2>7, <2>8, <3>1, <3>3, <3>4, StoreWrites
  <2> QED BY <2>10, <2>11, <2>12
<1> QED BY <1>1, <1>2, <1>3, <1>4, <1>5, <1>6, <1>7, <1>f DEF Store!Next

-----------------------------------------------------------------------------
\* Inbound e-mail (InboundMail).

MailRow == [requester : Addresses, status : Mail!Statuses]
MailPost == [at : {"none", "resolve", "author", "reply", "reopen", "create", "over", "failed"}, message : Messages \cup {Nil},
             ticket : MailTickets \cup {Nil}, requester : Addresses \cup {Nil}, finished : BOOLEAN]
MailReply == [post : Workers, message : Messages, ticket : MailTickets, as : Addresses]

MailTyped ==
  /\ mailTickets \in [MailTickets -> MailRow \cup {Nil}] /\ post \in [Workers -> MailPost]
  /\ mailReplies \subseteq MailReply /\ opened \subseteq [post : Workers, message : Messages] /\ answered \subseteq Workers
  /\ signed \in BOOLEAN /\ mailFaults \in 0..MailFaults /\ mailEdits \in 0..MailEdits

\* What a post that has found a ticket knows of it still holds; who replies is
\* the ticket's requester.
Found(j) ==
  /\ j.at \in {"author", "reply", "reopen"} =>
       /\ j.ticket \in MailTickets /\ j.requester \in Addresses /\ (signed => j.ticket = j.message.to)
       /\ mailTickets[j.ticket] # Nil => mailTickets[j.ticket].requester = j.requester
  /\ j.at \in {"reply", "reopen"} => j.message.from = j.requester
  /\ j.at \in {"resolve", "author", "reply", "reopen", "create"} => j.message \in Messages

\* A reply is of its sender, in the ticket its post found; a post that is over
\* has reopened what was finished, faults aside.
ReplySound(r) ==
  /\ r.as = r.message.from /\ (signed => r.ticket = r.message.to)
  /\ mailTickets[r.ticket] # Nil => mailTickets[r.ticket].requester = r.as
  /\ post[r.post].at \in {"reopen", "over", "failed"} /\ post[r.post].ticket = r.ticket
  /\ post[r.post].at = "over" /\ post[r.post].finished =>
       <<r.ticket, r.post>> \in reopens \/ mailTickets[r.ticket] = Nil \/ mailFaults > 0

\* A post does one thing at most, and is over when it has done it.
DoneOnce ==
  /\ \A r, q \in mailReplies : r.post = q.post => r = q
  /\ \A o, x \in opened : o.post = x.post => o = x
  /\ \A o \in opened : post[o.post].at \in {"over", "failed"} /\ \A r \in mailReplies : r.post # o.post

Dealt(p) == (\E r \in mailReplies : r.post = p) \/ (\E o \in opened : o.post = p) \/ post[p].message.empty

MailInv ==
  /\ MailTyped /\ (\A p \in Workers : Found(post[p])) /\ (\A r \in mailReplies : ReplySound(r)) /\ DoneOnce
  /\ \A p \in Workers : post[p].at = "over" => Dealt(p)
  /\ \A p \in Workers : post[p].at = "reopen" => \E r \in mailReplies : r.post = p /\ r.ticket = post[p].ticket
  /\ answered \subseteq {p \in Workers : post[p].at = "over"}
  /\ \A x \in reopens : \E r \in mailReplies : r.post = x[2] /\ r.ticket = x[1]

LEMMA MailInit == ASSUME Mail!MailConstants, Mail!Init PROVE MailInv
<1>1. /\ signed \in BOOLEAN /\ mailTickets \in [MailTickets -> [requester : Addresses, status : {"open", "closed"}]]
      /\ post = [p \in Workers |-> Mail!Fresh] /\ mailReplies = {} /\ opened = {} /\ answered = {} /\ reopens = {} /\ mailFaults = 0 /\ mailEdits = 0
  BY DEF Mail!Init
<1>2. Mail!Fresh \in MailPost /\ Mail!Fresh.at = "none"
  BY DEF Mail!Fresh, MailPost
<1>3. [requester : Addresses, status : {"open", "closed"}] \subseteq MailRow
  BY DEF MailRow, Mail!Statuses
<1>4. mailTickets \in [MailTickets -> MailRow \cup {Nil}]
  BY <1>1, <1>3
<1>5. MailTyped
  BY <1>1, <1>2, <1>4 DEF MailTyped, Mail!MailConstants
<1> QED BY <1>1, <1>2, <1>5 DEF MailInv, Found, DoneOnce

LEMMA MailHas == ASSUME MailInv PROVE Mail!TypeOK /\ Mail!MailHolds
<1>1. Mail!TypeOK
  BY DEF Mail!TypeOK, MailInv, MailTyped, MailRow, MailPost, MailReply
<1>2. ASSUME NEW r \in mailReplies
      PROVE  /\ r.as = r.message.from /\ (signed => r.ticket = r.message.to)
             /\ mailTickets[r.ticket] # Nil => mailTickets[r.ticket].requester = r.as
             /\ r.post \in answered /\ post[r.post].finished =>
                  <<r.ticket, r.post>> \in reopens \/ mailTickets[r.ticket] = Nil \/ mailFaults > 0
  BY DEF MailInv, ReplySound
<1>3. ASSUME NEW p \in Workers
      PROVE  LET did == {r \in mailReplies : r.post = p} \cup {o \in opened : o.post = p} IN
             /\ Cardinality(did) <= 1
             /\ p \in answered => did # {} \/ post[p].message.empty
  <2> DEFINE did == {r \in mailReplies : r.post = p} \cup {o \in opened : o.post = p}
  <2>1. \A x, y \in did : x = y
    BY DEF MailInv, DoneOnce
  <2>2. p \in answered => did # {} \/ post[p].message.empty
    BY DEF MailInv, Dealt
  <2> HIDE DEF did
  <2>3. Cardinality(did) <= 1
    <3>1. CASE did = {}
      BY <3>1, FS_EmptySet
    <3>2. CASE did # {}
      <4>1. PICK x : x \in did
        BY <3>2
      <4>2. did = {x}
        BY <2>1, <4>1
      <4> QED BY <4>2, FS_Singleton
    <3> QED BY <3>1, <3>2
  <2> QED BY <2>2, <2>3 DEF did
<1>4. \A p \in Workers : LET did == {r \in mailReplies : r.post = p} \cup {o \in opened : o.post = p} IN
             /\ Mail!Cardinality(did) <= 1
             /\ p \in answered => did # {} \/ post[p].message.empty
  BY <1>3 DEF Mail!Cardinality, Cardinality
<1>5. \A x \in reopens : \E r \in mailReplies : r.post = x[2] /\ r.ticket = x[1]
  BY DEF MailInv
<1> QED BY <1>1, <1>2, <1>4, <1>5 DEF Mail!MailHolds

\* The ticket found is one that is there, and the signed address's own.
LEMMA MailFinds ==
  ASSUME Mail!MailConstants, MailTyped, NEW m \in Messages
  PROVE  /\ Mail!resolved(m) \in MailTickets \cup {Nil}
         /\ Mail!resolved(m) # Nil => Mail!resolved(m) \in MailTickets /\ mailTickets[Mail!resolved(m)] # Nil /\ (signed => Mail!resolved(m) = m.to)
<1>0. m.to \in MailTickets \cup {Nil} /\ m.headers \in Seq(MailTickets) /\ m.tag \in MailTickets \cup {Nil}
  BY DEF Mail!MailConstants, Mail!Message
<1>1. ASSUME NEW s \in Seq(MailTickets \cup {Nil})
      PROVE  /\ Mail!First(s) \in MailTickets \cup {Nil}
             /\ Mail!First(s) # Nil => mailTickets[Mail!First(s)] # Nil /\ \E k \in DOMAIN s : Mail!First(s) = s[k]
  <2> DEFINE found == {k \in DOMAIN s : s[k] # Nil /\ mailTickets[s[k]] # Nil}
             k == CHOOSE k \in found : \A i \in found : k <= i
  <2>1. Mail!First(s) = IF found = {} THEN Nil ELSE s[k]
    BY DEF Mail!First
  <2>2. found \in SUBSET Nat /\ DOMAIN s = 1..Len(s) /\ \A i \in DOMAIN s : s[i] \in MailTickets \cup {Nil}
    OBVIOUS
  <2>3. ASSUME found # {} PROVE k \in found
    <3> HIDE DEF found
    <3>1. \E i \in found : \A n \in found : i <= n
      BY <2>2, <2>3, Smallest
    <3> QED BY <3>1 DEF k
  <2> QED BY <2>1, <2>2, <2>3
<1>2. CASE signed
  <2>1. <<m.to>> \in Seq(MailTickets \cup {Nil}) /\ Mail!resolved(m) = Mail!First(<<m.to>>)
    BY <1>0, <1>2 DEF Mail!resolved
  <2>2. \A k \in DOMAIN <<m.to>> : <<m.to>>[k] = m.to
    OBVIOUS
  <2> QED BY <1>0, <1>1, <2>1, <2>2
<1>3. CASE ~signed
  <2>1. m.headers \o <<m.tag>> \in Seq(MailTickets \cup {Nil})
    <3>1. m.headers \in Seq(MailTickets \cup {Nil}) /\ <<m.tag>> \in Seq(MailTickets \cup {Nil})
      BY <1>0
    <3> QED BY <3>1, ConcatProperties
  <2>2. Mail!resolved(m) = Mail!First(m.headers \o <<m.tag>>)
    BY <1>3 DEF Mail!resolved
  <2> QED BY <1>1, <1>3, <2>1, <2>2
<1> QED BY <1>2, <1>3

\* A post that has done nothing yet goes on.
LEMMA MailMoves ==
  ASSUME MailInv, NEW p \in Workers, NEW j \in MailPost, Found(j), post' = [post EXCEPT ![p] = j],
         post[p].at \in {"none", "resolve", "author"}, j.at \notin {"over", "reopen"},
         UNCHANGED <<signed, mailTickets, mailReplies, opened, answered, reopens, mailFaults, mailEdits>>
  PROVE  MailInv'
<1>1. post' \in [Workers -> MailPost] /\ \A q \in Workers : post'[q] = IF q = p THEN j ELSE post[q]
  BY DEF MailInv, MailTyped
<1>2. (\A r \in mailReplies : r.post # p) /\ (\A o \in opened : o.post # p)
  BY DEF MailInv, ReplySound, DoneOnce
<1>3. \A r \in mailReplies : r.post \in Workers
  BY DEF MailInv, MailTyped, MailReply
<1>4. \A o \in opened : o.post \in Workers
  BY DEF MailInv, MailTyped
<1>5. MailTyped'
  BY <1>1 DEF MailInv, MailTyped
<1>6. \A q \in Workers : Found(post[q])'
  BY <1>1 DEF MailInv, Found
<1>7. \A r \in mailReplies' : ReplySound(r)'
  BY <1>1, <1>2, <1>3 DEF MailInv, ReplySound
<1>8. DoneOnce'
  BY <1>1, <1>2, <1>3, <1>4 DEF MailInv, DoneOnce
<1>9. \A q \in Workers : post'[q].at = "over" => Dealt(q)'
  BY <1>1 DEF MailInv, Dealt
<1>10. \A q \in Workers : post'[q].at = "reopen" => \E r \in mailReplies' : r.post = q /\ r.ticket = post'[q].ticket
  BY <1>1 DEF MailInv
<1>11. answered' \subseteq {q \in Workers : post'[q].at = "over"}
  BY <1>1 DEF MailInv
<1> QED BY <1>5, <1>6, <1>7, <1>8, <1>9, <1>10, <1>11 DEF MailInv

\* A provider posts, the ticket is found, its author is.
LEMMA MailLooks ==
  ASSUME Mail!MailConstants, MailInv, NEW p \in Workers
  PROVE  /\ \A m \in Messages : Mail!Inbound(p, m) => MailInv'
         /\ Mail!ResolveTicket(p) \/ Mail!replyAuthor(p) => MailInv'
<1>0. MailTyped /\ post[p] \in MailPost /\ Found(post[p])
  BY DEF MailInv, MailTyped
<1>1. ASSUME NEW m \in Messages, Mail!Inbound(p, m) PROVE MailInv'
  <2> DEFINE j == [Mail!Fresh EXCEPT !.at = "resolve", !.message = m]
  <2>1. post[p].at = "none" /\ post' = [post EXCEPT ![p] = j]
    BY <1>1 DEF Mail!Inbound, Mail!Step, Mail!Fresh
  <2>2. j \in MailPost /\ j.at = "resolve" /\ j.message = m
    BY DEF Mail!Fresh, MailPost
  <2> HIDE DEF j
  <2>3. Found(j)
    BY <2>2 DEF Found
  <2> QED BY <1>1, <2>1, <2>2, <2>3, MailMoves DEF Mail!Inbound
<1>2. CASE Mail!ResolveTicket(p)
  <2> DEFINE m == post[p].message
             t == Mail!resolved(m)
             a == IF t = Nil THEN "create" ELSE "author"
             q == IF t = Nil THEN Nil ELSE mailTickets[t].requester
             f == t # Nil /\ mailTickets[t].status \in Mail!Finished
             j == [post[p] EXCEPT !.at = a, !.ticket = t, !.requester = q, !.finished = f]
  <2>1. post[p].at = "resolve" /\ post' = [post EXCEPT ![p] = j]
    BY <1>2 DEF Mail!ResolveTicket, Mail!Step
  <2>2. m \in Messages
    BY <1>0, <2>1 DEF Found
  <2>3. t \in MailTickets \cup {Nil} /\ (t # Nil => t \in MailTickets /\ mailTickets[t] # Nil /\ (signed => t = m.to))
    BY <1>0, <2>2, MailFinds
  <2> HIDE DEF t
  <2>4. t # Nil => mailTickets[t] \in MailRow
    BY <1>0, <2>3 DEF MailTyped
  <2>5. a \in {"create", "author"} /\ q \in Addresses \cup {Nil} /\ f \in BOOLEAN /\ (t # Nil => q \in Addresses /\ mailTickets[t].requester = q)
    BY <2>4 DEF MailRow
  <2>6. a = "author" => t # Nil
    OBVIOUS
  <2> HIDE DEF a, q, f
  <2>7. j \in MailPost /\ j.at = a /\ j.ticket = t /\ j.requester = q /\ j.message = m
    BY <1>0, <2>3, <2>5 DEF MailPost
  <2> HIDE DEF j, m
  <2>8. Found(j)
    BY <2>2, <2>3, <2>5, <2>6, <2>7 DEF Found
  <2> QED BY <1>2, <2>1, <2>5, <2>7, <2>8, MailMoves DEF Mail!ResolveTicket
<1>3. CASE Mail!replyAuthor(p)
  <2> DEFINE a == IF Mail!mayReply(post[p].message, post[p].requester) THEN "reply" ELSE "create"
             j == [post[p] EXCEPT !.at = a]
  <2>1. post[p].at = "author" /\ post' = [post EXCEPT ![p] = j]
    BY <1>3 DEF Mail!replyAuthor, Mail!Step
  <2>2. a \in {"reply", "create"} /\ (a = "reply" => post[p].message.from = post[p].requester)
    BY DEF Mail!mayReply
  <2> HIDE DEF a
  <2>3. j \in MailPost /\ j.at = a /\ j.ticket = post[p].ticket /\ j.requester = post[p].requester /\ j.message = post[p].message
    BY <1>0, <2>2 DEF MailPost
  <2> HIDE DEF j
  <2>4. Found(j)
    BY <1>0, <2>1, <2>2, <2>3 DEF Found
  <2> QED BY <1>3, <2>1, <2>2, <2>3, <2>4, MailMoves DEF Mail!replyAuthor
<1> QED BY <1>1, <1>2, <1>3

\* A post's end leaves the others' as they were.
LEMMA PostEnds ==
  ASSUME MailInv, NEW p \in Workers, NEW a \in {"reopen", "over", "failed"}, post' = [post EXCEPT ![p] = [post[p] EXCEPT !.at = a]]
  PROVE  /\ post' \in [Workers -> MailPost] /\ \A q \in Workers : q # p => post'[q] = post[q]
         /\ post'[p].at = a /\ post'[p].message = post[p].message /\ post'[p].ticket = post[p].ticket
         /\ post'[p].requester = post[p].requester /\ post'[p].finished = post[p].finished
<1>1. post \in [Workers -> MailPost]
  BY DEF MailInv, MailTyped
<1> DEFINE j == [post[p] EXCEPT !.at = a]
<1>2. j \in MailPost /\ j.at = a /\ j.message = post[p].message /\ j.ticket = post[p].ticket /\ j.requester = post[p].requester /\ j.finished = post[p].finished
  BY <1>1 DEF MailPost
<1>3. post' = [post EXCEPT ![p] = j]
  OBVIOUS
<1> HIDE DEF j
<1> QED BY <1>1, <1>2, <1>3

\* A post replies, reopens or opens a ticket.
LEMMA MailDoes ==
  ASSUME Mail!MailConstants, MailInv, NEW p \in Workers
  PROVE  Mail!AddReply(p) \/ Mail!Create(p) \/ Mail!Fail(p) \/ (\E done \in BOOLEAN : Mail!reopenIfFinished(p, done)) => MailInv'
<1> DEFINE j == post[p]
           t == j.ticket
<1>0. /\ MailTyped /\ j \in MailPost /\ Found(j) /\ \A q \in Workers : Found(post[q])
      /\ \A r \in mailReplies : ReplySound(r) /\ r.post \in Workers
      /\ \A o \in opened : o.post \in Workers /\ post[o.post].at \in {"over", "failed"}
  BY DEF MailInv, MailTyped, MailReply, DoneOnce
<1>a. mailFaults \in Nat /\ MailFaults \in Nat
  BY DEF MailInv, MailTyped, Mail!MailConstants
<1>1. CASE Mail!AddReply(p)
  <2>1. j.at = "reply" /\ t \in MailTickets /\ j.requester \in Addresses /\ j.message \in Messages /\ j.message.from = j.requester
    BY <1>0, <1>1 DEF Mail!AddReply, Found
  <2>2. (\A r \in mailReplies : r.post # p) /\ (\A o \in opened : o.post # p) /\ p \notin answered
    BY <1>0, <2>1 DEF MailInv, ReplySound
  <2>3. UNCHANGED <<signed, mailTickets, opened, reopens, mailFaults, mailEdits>>
    BY <1>1 DEF Mail!AddReply
  <2>4. CASE mailTickets[t] = Nil
    <3>1. post' = [post EXCEPT ![p] = [j EXCEPT !.at = "failed"]] /\ UNCHANGED <<mailReplies, answered>>
      BY <1>1, <2>4 DEF Mail!AddReply, Mail!Step
    <3>2. /\ post' \in [Workers -> MailPost] /\ \A q \in Workers : q # p => post'[q] = post[q]
          /\ post'[p].at = "failed"
      BY <3>1, PostEnds
    <3> HIDE DEF j, t
    <3>3. MailTyped'
      BY <1>0, <2>3, <3>1, <3>2 DEF MailTyped
    <3>4. \A q \in Workers : Found(post[q])'
      BY <1>0, <2>3, <3>2 DEF Found
    <3>5. \A r \in mailReplies' : ReplySound(r)'
      BY <1>0, <2>2, <2>3, <3>1, <3>2 DEF ReplySound
    <3>6. DoneOnce'
      BY <1>0, <2>2, <2>3, <3>1, <3>2 DEF MailInv, DoneOnce
    <3>7. \A q \in Workers : post'[q].at = "over" => Dealt(q)'
      BY <2>3, <3>1, <3>2 DEF MailInv, Dealt
    <3>8. \A q \in Workers : post'[q].at = "reopen" => \E r \in mailReplies' : r.post = q /\ r.ticket = post'[q].ticket
      BY <3>1, <3>2 DEF MailInv
    <3>9. answered' \subseteq {q \in Workers : post'[q].at = "over"}
      BY <2>2, <3>1, <3>2 DEF MailInv
    <3>10. \A x \in reopens' : \E r \in mailReplies' : r.post = x[2] /\ r.ticket = x[1]
      BY <2>3, <3>1 DEF MailInv
    <3> QED BY <3>3, <3>4, <3>5, <3>6, <3>7, <3>8, <3>9, <3>10 DEF MailInv
  <2>5. CASE mailTickets[t] # Nil
    <3> DEFINE a == IF j.finished THEN "reopen" ELSE "over"
               r0 == [post |-> p, message |-> j.message, ticket |-> t, as |-> j.requester]
    <3>1. /\ post' = [post EXCEPT ![p] = [j EXCEPT !.at = a]] /\ mailReplies' = mailReplies \cup {r0}
          /\ answered' = IF j.finished THEN answered ELSE answered \cup {p}
      BY <1>1, <2>5 DEF Mail!AddReply, Mail!Step
    <3>2. r0 \in MailReply /\ r0.post = p /\ r0.message = j.message /\ r0.ticket = t /\ r0.as = j.requester
      BY <2>1 DEF MailReply
    <3>3. a \in {"reopen", "over"} /\ (a = "reopen" <=> j.finished)
      BY <1>0 DEF MailPost
    <3>r. PICK r1 \in MailReply : r1 = r0
      BY <3>2
    <3> HIDE DEF r0, a
    <3>4. /\ post' \in [Workers -> MailPost] /\ \A q \in Workers : q # p => post'[q] = post[q]
          /\ post'[p].at = a /\ post'[p].message = j.message /\ post'[p].ticket = t /\ post'[p].requester = j.requester /\ post'[p].finished = j.finished
      BY <3>1, <3>3, PostEnds
    <3>5. /\ (signed => t = j.message.to) /\ mailTickets[t].requester = j.requester
      BY <1>0, <2>1, <2>5 DEF Found
    <3> HIDE DEF j, t
    <3>6. MailTyped'
      BY <1>0, <2>3, <3>1, <3>2, <3>4 DEF MailTyped
    <3>7. \A q \in Workers : Found(post[q])'
      BY <1>0, <2>1, <2>3, <3>3, <3>4, <3>5 DEF Found
    <3>8. ReplySound(r1)'
      BY <2>1, <2>3, <3>r, <3>2, <3>3, <3>4, <3>5 DEF ReplySound
    <3>9. \A r \in mailReplies' : ReplySound(r)'
      BY <1>0, <2>2, <2>3, <3>r, <3>1, <3>4, <3>8 DEF ReplySound
    <3>10. DoneOnce'
      BY <1>0, <2>2, <2>3, <3>1, <3>2, <3>4 DEF MailInv, DoneOnce
    <3>11. \A q \in Workers : post'[q].at = "over" => Dealt(q)'
      BY <2>3, <3>1, <3>2, <3>4 DEF MailInv, Dealt
    <3>12. \A q \in Workers : post'[q].at = "reopen" => \E r \in mailReplies' : r.post = q /\ r.ticket = post'[q].ticket
      BY <3>1, <3>2, <3>4 DEF MailInv
    <3>13. answered' \subseteq {q \in Workers : post'[q].at = "over"}
      BY <2>2, <3>1, <3>3, <3>4 DEF MailInv
    <3>14. \A x \in reopens' : \E r \in mailReplies' : r.post = x[2] /\ r.ticket = x[1]
      BY <2>3, <3>1 DEF MailInv
    <3> QED BY <3>6, <3>7, <3>9, <3>10, <3>11, <3>12, <3>13, <3>14 DEF MailInv
  <2> QED BY <2>4, <2>5
<1>2. CASE Mail!Create(p)
  <2> DEFINE o0 == [post |-> p, message |-> j.message]
  <2>1. j.at = "create" /\ j.message \in Messages
    BY <1>0, <1>2 DEF Mail!Create, Found
  <2>2. (\A r \in mailReplies : r.post # p) /\ (\A o \in opened : o.post # p)
    BY <1>0, <2>1 DEF ReplySound
  <2>3. /\ UNCHANGED <<signed, mailTickets, mailReplies, reopens, mailFaults, mailEdits>> /\ answered' = answered \cup {p}
        /\ opened' = (IF j.message.empty THEN opened ELSE opened \cup {o0}) /\ post' = [post EXCEPT ![p] = [j EXCEPT !.at = "over"]]
    BY <1>2 DEF Mail!Create, Mail!Step
  <2>4. /\ post' \in [Workers -> MailPost] /\ \A q \in Workers : q # p => post'[q] = post[q]
        /\ post'[p].at = "over" /\ post'[p].message = j.message
    BY <2>3, PostEnds
  <2>5. o0 \in [post : Workers, message : Messages] /\ o0.post = p
    BY <2>1
  <2> HIDE DEF o0, j, t
  <2>6. opened' \subseteq opened \cup {o0} /\ opened \subseteq opened' /\ (j.message.empty \/ o0 \in opened')
    BY <2>3
  <2>7. MailTyped'
    BY <1>0, <2>3, <2>4, <2>5, <2>6 DEF MailTyped
  <2>8. \A q \in Workers : Found(post[q])'
    BY <1>0, <2>3, <2>4 DEF Found
  <2>9. \A r \in mailReplies' : ReplySound(r)'
    BY <1>0, <2>2, <2>3, <2>4 DEF ReplySound
  <2>10. DoneOnce'
    BY <1>0, <2>2, <2>3, <2>4, <2>5, <2>6 DEF MailInv, DoneOnce
  <2>11. \A q \in Workers : post'[q].at = "over" => Dealt(q)'
    BY <2>3, <2>4, <2>5, <2>6 DEF MailInv, Dealt
  <2>12. \A q \in Workers : post'[q].at = "reopen" => \E r \in mailReplies' : r.post = q /\ r.ticket = post'[q].ticket
    BY <2>3, <2>4 DEF MailInv
  <2>13. answered' \subseteq {q \in Workers : post'[q].at = "over"}
    BY <2>3, <2>4 DEF MailInv
  <2>14. \A x \in reopens' : \E r \in mailReplies' : r.post = x[2] /\ r.ticket = x[1]
    BY <2>3 DEF MailInv
  <2> QED BY <2>7, <2>8, <2>9, <2>10, <2>11, <2>12, <2>13, <2>14 DEF MailInv
<1>3. CASE Mail!Fail(p)
  <2>1. mailFaults' = mailFaults + 1 /\ mailFaults < MailFaults /\ UNCHANGED <<signed, mailTickets, mailReplies, opened, reopens, mailEdits>>
    BY <1>3 DEF Mail!Fail
  <2>2. mailFaults' \in 0..MailFaults /\ mailFaults' > 0
    BY <1>a, <2>1
  <2>3. CASE j.at \in {"resolve", "author", "reply", "create", "reopen"} /\ post' = [post EXCEPT ![p] = [j EXCEPT !.at = "failed"]] /\ UNCHANGED answered
    <3>1. /\ post' \in [Workers -> MailPost] /\ \A q \in Workers : q # p => post'[q] = post[q]
          /\ post'[p].at = "failed" /\ post'[p].ticket = j.ticket
      BY <2>3, PostEnds
    <3>2. p \notin answered
      BY <2>3 DEF MailInv
    <3> HIDE DEF j, t
    <3>3. MailTyped'
      BY <1>0, <2>1, <2>2, <2>3, <3>1 DEF MailTyped
    <3>4. \A q \in Workers : Found(post[q])'
      BY <1>0, <2>1, <3>1 DEF Found
    <3>5. ASSUME NEW r \in mailReplies PROVE ReplySound(r)'
      <4>1. post'[r.post].ticket = post[r.post].ticket /\ (post'[r.post].at = "failed" \/ post'[r.post] = post[r.post])
        BY <1>0, <3>1 DEF j
      <4>2. ReplySound(r) /\ (mailFaults > 0 => mailFaults' > 0)
        BY <1>0, <2>2
      <4> QED BY <2>1, <2>3, <4>1, <4>2 DEF ReplySound
    <3>6. DoneOnce'
      BY <1>0, <2>1, <3>1 DEF MailInv, DoneOnce
    <3>7. \A q \in Workers : post'[q].at = "over" => Dealt(q)'
      BY <2>1, <3>1 DEF MailInv, Dealt
    <3>8. \A q \in Workers : post'[q].at = "reopen" => \E r \in mailReplies' : r.post = q /\ r.ticket = post'[q].ticket
      BY <2>1, <3>1 DEF MailInv
    <3>9. answered' \subseteq {q \in Workers : post'[q].at = "over"}
      BY <2>3, <3>1, <3>2 DEF MailInv
    <3>10. \A x \in reopens' : \E r \in mailReplies' : r.post = x[2] /\ r.ticket = x[1]
      BY <2>1 DEF MailInv
    <3> QED BY <2>1, <3>3, <3>4, <3>5, <3>6, <3>7, <3>8, <3>9, <3>10 DEF MailInv
  <2>4. CASE answered' = answered \ {p} /\ UNCHANGED post
    <3> HIDE DEF j, t
    <3>3. MailTyped'
      BY <1>0, <2>1, <2>2, <2>4 DEF MailTyped
    <3>4. \A q \in Workers : Found(post[q])'
      BY <1>0, <2>1, <2>4 DEF Found
    <3>5. \A r \in mailReplies' : ReplySound(r)'
      BY <1>0, <2>1, <2>2, <2>4 DEF ReplySound
    <3>6. DoneOnce'
      BY <2>1, <2>4 DEF MailInv, DoneOnce
    <3>7. \A q \in Workers : post'[q].at = "over" => Dealt(q)'
      BY <2>1, <2>4 DEF MailInv, Dealt
    <3>8. answered' \subseteq {q \in Workers : post'[q].at = "over"}
      BY <2>4 DEF MailInv
    <3> QED BY <2>1, <2>4, <3>3, <3>4, <3>5, <3>6, <3>7, <3>8 DEF MailInv
  <2> QED BY <1>3, <2>3, <2>4 DEF Mail!Fail, Mail!Step
<1>4. ASSUME NEW done \in BOOLEAN, Mail!reopenIfFinished(p, done) PROVE MailInv'
  <2>1. /\ j.at = "reopen" /\ (IF done THEN mailTickets[t] # Nil ELSE mailTickets[t] = Nil \/ mailFaults < MailFaults)
        /\ mailTickets' = (IF done THEN [mailTickets EXCEPT ![t].status = "reopened"] ELSE mailTickets)
        /\ reopens' = (IF done THEN reopens \cup {<<t, p>>} ELSE reopens)
        /\ mailFaults' = (IF done \/ mailTickets[t] = Nil THEN mailFaults ELSE mailFaults + 1)
        /\ answered' = answered \cup {p} /\ post' = [post EXCEPT ![p] = [j EXCEPT !.at = "over"]]
        /\ UNCHANGED <<signed, mailReplies, opened, mailEdits>>
    BY <1>4 DEF Mail!reopenIfFinished, Mail!Step
  <2>2. t \in MailTickets
    BY <1>0, <2>1 DEF Found
  <2>3. /\ post' \in [Workers -> MailPost] /\ \A q \in Workers : q # p => post'[q] = post[q]
        /\ post'[p].at = "over" /\ post'[p].message = j.message /\ post'[p].ticket = t /\ post'[p].finished = j.finished
    BY <2>1, PostEnds
  <2>4. PICK r0 \in mailReplies : r0.post = p /\ r0.ticket = t
    BY <2>1 DEF MailInv
  <2>5. \A r \in mailReplies : r.post = p => r.ticket = t
    BY <2>4 DEF MailInv, DoneOnce
  <2>6. /\ mailTickets' \in [MailTickets -> MailRow \cup {Nil}]
        /\ \A u \in MailTickets : (mailTickets[u] = Nil => mailTickets'[u] = Nil)
                                  /\ (mailTickets'[u] # Nil => mailTickets[u] # Nil /\ mailTickets'[u].requester = mailTickets[u].requester)
    <3>1. CASE done
      <4> DEFINE row == [mailTickets[t] EXCEPT !.status = "reopened"]
      <4>1. mailTickets[t] \in MailRow /\ mailTickets[t] # Nil
        BY <1>0, <2>1, <2>2, <3>1 DEF MailTyped
      <4>2. row \in MailRow /\ row.requester = mailTickets[t].requester
        BY <4>1 DEF MailRow, Mail!Statuses
      <4>3. mailTickets' = [mailTickets EXCEPT ![t] = row]
        BY <2>1, <3>1
      <4> HIDE DEF row, t
      <4> QED BY <1>0, <2>2, <4>1, <4>2, <4>3 DEF MailTyped
    <3>2. CASE ~done
      BY <1>0, <2>1, <3>2 DEF MailTyped
    <3> QED BY <3>1, <3>2
  <2>7. mailFaults' \in 0..MailFaults /\ mailFaults' >= mailFaults /\ (mailFaults > 0 => mailFaults' > 0) /\ (done \/ mailTickets[t] = Nil \/ mailFaults' > 0)
    BY <1>a, <1>0, <2>1 DEF MailTyped
  <2>8. reopens \subseteq reopens' /\ (done => <<t, p>> \in reopens') /\ \A x \in reopens' : x \in reopens \/ x = <<t, p>>
    BY <2>1
  <2>9. \A r \in mailReplies : r.ticket \in MailTickets
    BY <1>0 DEF MailTyped, MailReply
  <2> HIDE DEF j, t
  <2>10. MailTyped'
    BY <1>0, <2>1, <2>3, <2>6, <2>7 DEF MailTyped
  <2>11. \A q \in Workers : Found(post[q])'
    BY <1>0, <2>1, <2>3, <2>6 DEF Found
  <2>12. ASSUME NEW r \in mailReplies PROVE ReplySound(r)'
    <3>1. /\ r.as = r.message.from /\ (signed => r.ticket = r.message.to)
          /\ mailTickets'[r.ticket] # Nil => mailTickets'[r.ticket].requester = r.as
      BY <1>0, <2>6, <2>9 DEF ReplySound
    <3>2. post'[r.post].at \in {"reopen", "over", "failed"} /\ post'[r.post].ticket = r.ticket
      BY <1>0, <2>3, <2>5 DEF ReplySound
    <3>3. post'[r.post].at = "over" /\ post'[r.post].finished => <<r.ticket, r.post>> \in reopens' \/ mailTickets'[r.ticket] = Nil \/ mailFaults' > 0
      <4>1. CASE r.post = p
        BY <2>1, <2>2, <2>5, <2>6, <2>7, <2>8, <4>1
      <4>2. CASE r.post # p
        BY <1>0, <2>3, <2>6, <2>7, <2>8, <2>9, <4>2 DEF ReplySound
      <4> QED BY <4>1, <4>2
    <3> QED BY <2>1, <3>1, <3>2, <3>3 DEF ReplySound
  <2>13. DoneOnce'
    BY <1>0, <2>1, <2>3 DEF MailInv, DoneOnce
  <2>14. \A q \in Workers : post'[q].at = "over" => Dealt(q)'
    BY <2>1, <2>3, <2>4 DEF MailInv, Dealt
  <2>15. \A q \in Workers : post'[q].at = "reopen" => \E r \in mailReplies' : r.post = q /\ r.ticket = post'[q].ticket
    BY <2>1, <2>3 DEF MailInv
  <2>16. answered' \subseteq {q \in Workers : post'[q].at = "over"}
    BY <2>1, <2>3 DEF MailInv
  <2>17. \A x \in reopens' : \E r \in mailReplies' : r.post = x[2] /\ r.ticket = x[1]
    BY <2>1, <2>4, <2>8 DEF MailInv
  <2> QED BY <2>1, <2>10, <2>11, <2>12, <2>13, <2>14, <2>15, <2>16, <2>17 DEF MailInv
<1> QED BY <1>1, <1>2, <1>3, <1>4

\* An agent changes a ticket's status, or deletes it.
LEMMA MailEdited == ASSUME Mail!MailConstants, MailInv, NEW t \in MailTickets, Mail!Edit(t) PROVE MailInv'
<1>0. MailTyped /\ mailEdits \in Nat /\ MailEdits \in Nat /\ \A r \in mailReplies : r.ticket \in MailTickets
  BY DEF MailInv, MailTyped, MailReply, Mail!MailConstants
<1>1. UNCHANGED <<signed, post, mailReplies, opened, answered, reopens, mailFaults>> /\ mailEdits' \in 0..MailEdits /\ mailTickets[t] # Nil
  BY <1>0 DEF Mail!Edit
<1>2. /\ mailTickets' \in [MailTickets -> MailRow \cup {Nil}]
      /\ \A u \in MailTickets : (mailTickets[u] = Nil => mailTickets'[u] = Nil)
                                /\ (mailTickets'[u] # Nil => mailTickets[u] # Nil /\ mailTickets'[u].requester = mailTickets[u].requester)
  <2>1. CASE mailTickets' = [mailTickets EXCEPT ![t] = Nil]
    BY <1>0, <1>1, <2>1 DEF MailTyped
  <2>2. ASSUME NEW s \in Mail!Statuses, mailTickets' = [mailTickets EXCEPT ![t].status = s]
        PROVE  /\ mailTickets' \in [MailTickets -> MailRow \cup {Nil}]
               /\ \A u \in MailTickets : (mailTickets[u] = Nil => mailTickets'[u] = Nil)
                                         /\ (mailTickets'[u] # Nil => mailTickets[u] # Nil /\ mailTickets'[u].requester = mailTickets[u].requester)
    <3> DEFINE row == [mailTickets[t] EXCEPT !.status = s]
    <3>1. mailTickets[t] \in MailRow
      BY <1>0, <1>1 DEF MailTyped
    <3>2. row \in MailRow /\ row.requester = mailTickets[t].requester
      BY <3>1 DEF MailRow
    <3>3. mailTickets' = [mailTickets EXCEPT ![t] = row]
      BY <2>2
    <3> HIDE DEF row
    <3> QED BY <1>0, <1>1, <3>2, <3>3 DEF MailTyped
  <2> QED BY <2>1, <2>2 DEF Mail!Edit
<1>3. MailTyped'
  BY <1>0, <1>1, <1>2 DEF MailTyped
<1>4. \A q \in Workers : Found(post[q])'
  BY <1>1, <1>2 DEF MailInv, Found
<1>5. \A r \in mailReplies' : ReplySound(r)'
  BY <1>0, <1>1, <1>2 DEF MailInv, ReplySound
<1>6. DoneOnce' /\ \A q \in Workers : post'[q].at = "over" => Dealt(q)'
  BY <1>1 DEF MailInv, DoneOnce, Dealt
<1> QED BY <1>1, <1>3, <1>4, <1>5, <1>6 DEF MailInv

LEMMA MailStep == ASSUME Mail!MailConstants, MailInv, Mail!Next \/ UNCHANGED mailVars PROVE MailInv'
<1>1. CASE UNCHANGED mailVars
  <2>1. MailTyped' /\ \A q \in Workers : Found(post[q])'
    BY <1>1 DEF mailVars, MailInv, MailTyped, Found
  <2>2. (\A r \in mailReplies' : ReplySound(r)') /\ DoneOnce' /\ \A q \in Workers : post'[q].at = "over" => Dealt(q)'
    BY <1>1 DEF mailVars, MailInv, ReplySound, DoneOnce, Dealt
  <2> QED BY <1>1, <2>1, <2>2 DEF mailVars, MailInv
<1>2. CASE Mail!Next
  BY <1>2, MailLooks, MailDoes, MailEdited DEF Mail!Next
<1> QED BY <1>1, <1>2

-----------------------------------------------------------------------------
\* Outbound webhooks (Webhooks).

HookRows == {Nil} \cup UNION {[S -> Outbound!Hook \cup {Nil}] : S \in SUBSET Hooks}
HookIds == Workers \X Hooks \X (1..MaxAttempts)
HookRun == [at : {"off", "next", "record", "post", "over", "dead"}, event : HookEvents \cup {Nil}, left : SUBSET Hooks, hook : Hooks \cup {Nil},
            row : HookRows, attempt : 0..MaxAttempts, id : HookIds \cup {<<>>}, done : SUBSET (Hooks \X {"ok", "bad", "error", "given up"})]
Delivery == [id : HookIds, hook : Hooks, event : HookEvents, attempt : 1..MaxAttempts, code : Outbound!Codes, delivered : BOOLEAN]

HooksTyped ==
  /\ hooks \in [Hooks -> Outbound!Hook \cup {Nil}] /\ dns \in [HostNames -> Outbound!Places] /\ deliveries \subseteq Delivery
  /\ hookRun \in [Workers -> HookRun] /\ deleting \subseteq Hooks /\ edits \in 0..HookEdits /\ retries \in 0..MaxRetries

Sending(j) == j.at \in {"record", "post"}
ServedBy(j, h) == \E x \in j.done : x[1] = h
Subscribed(j, h) == j.row[h] # Nil /\ j.row[h].active /\ j.event \in j.row[h].events

\* A run sends to one webhook it has not served; those subscribed are waiting,
\* being sent to, or served.
RunSound(r, j) ==
  /\ j \in HookRun
  /\ j.at \in {"next", "record", "post"} => j.event \in HookEvents
  /\ Sending(j) => j.hook \in Hooks /\ j.hook \notin j.left /\ ~ServedBy(j, j.hook) /\ j.attempt \in 1..MaxAttempts
  /\ \A h \in j.left : ~ServedBy(j, h)
  /\ j.at = "post" => j.id \in {<<>>, <<r, j.hook, j.attempt>>}
  /\ j.at \in {"next", "record", "post", "over"} =>
       \A h \in DOMAIN j.row : Subscribed(j, h) => h \in j.left \/ (Sending(j) /\ h = j.hook) \/ ServedBy(j, h)
  /\ j.at = "over" => j.left = {}

\* A delivery is of a webhook its run has come to; while that one is being sent
\* to, the attempts before got no good answer and this one is not answered.
DeliverySound(d, j) ==
  /\ d.id = <<d.id[1], d.hook, d.attempt>>
  /\ d.delivered <=> d.code \in {"ok", "bad"}
  /\ j.at # "off" /\ d.hook \notin j.left
  /\ Sending(j) /\ j.hook = d.hook =>
       \/ d.attempt < j.attempt /\ d.code # "ok"
       \/ j.at = "post" /\ d.attempt = j.attempt /\ d.id = j.id /\ d.code # "ok"
  /\ <<d.hook, "given up">> \in j.done => d.code # "ok"

OkIsLast == \A d, e \in deliveries : d.id[1] = e.id[1] /\ d.hook = e.hook /\ d.code = "ok" => e.attempt <= d.attempt

HooksInv ==
  /\ HooksTyped /\ (\A r \in Workers : RunSound(r, hookRun[r])) /\ (\A d \in deliveries : DeliverySound(d, hookRun[d.id[1]]))
  /\ OkIsLast /\ \A x \in reached : x.place = "public"

LEMMA HooksInit == ASSUME Outbound!HooksConstants, Outbound!Init PROVE HooksInv
<1>1. Outbound!Off \in HookRun /\ Outbound!Off.at = "off" /\ Outbound!Off.left = {}
  <2>1. Nil \in HookRows
    BY DEF HookRows
  <2>2. 0 \in 0..MaxAttempts
    BY DEF Outbound!HooksConstants
  <2> HIDE DEF HookRows
  <2> QED BY <2>1, <2>2 DEF Outbound!Off, HookRun
<1>2. /\ hooks = [h \in Hooks |-> Nil] /\ dns \in [HostNames -> Outbound!Places] /\ deliveries = {} /\ deleting = {} /\ reached = {} /\ edits = 0 /\ retries = 0
      /\ hookRun = [r \in Workers |-> Outbound!Off]
  BY DEF Outbound!Init
<1>3. ASSUME NEW r \in Workers PROVE RunSound(r, hookRun[r])
  BY <1>1, <1>2 DEF RunSound, Sending
<1>4. HooksTyped
  BY <1>1, <1>2 DEF HooksTyped, Outbound!HooksConstants
<1> QED BY <1>2, <1>3, <1>4 DEF HooksInv, OkIsLast

LEMMA HooksHas == ASSUME Outbound!HooksConstants, HooksInv PROVE Outbound!TypeOK /\ Outbound!HooksHold
<1>1. Outbound!TypeOK
  <2>1. \A r \in Workers : hookRun[r] \in HookRun
    BY DEF HooksInv, HooksTyped
  <2>2. \A r \in Workers : hookRun[r].at \in {"off", "next", "record", "post", "over", "dead"} /\ hookRun[r].left \subseteq Hooks /\ hookRun[r].attempt \in 0..MaxAttempts
    BY <2>1 DEF HookRun
  <2>3. \A d \in deliveries : d.hook \in Hooks /\ d.event \in HookEvents /\ d.attempt \in 1..MaxAttempts /\ d.code \in Outbound!Codes /\ d.delivered \in BOOLEAN
    BY DEF HooksInv, HooksTyped, Delivery
  <2> QED BY <2>2, <2>3 DEF Outbound!TypeOK, HooksInv, HooksTyped
<1>2. ASSUME NEW r \in Workers, hookRun[r].at = "over", NEW h \in DOMAIN hookRun[r].row,
             hookRun[r].row[h] # Nil /\ hookRun[r].row[h].active /\ hookRun[r].event \in hookRun[r].row[h].events
      PROVE  \E x \in hookRun[r].done : x[1] = h
  <2>1. RunSound(r, hookRun[r]) /\ Subscribed(hookRun[r], h)
    BY <1>2 DEF HooksInv, Subscribed
  <2> QED BY <1>2, <2>1 DEF RunSound, ServedBy, Sending
<1>3. ASSUME NEW r \in Workers, NEW h \in Hooks
      PROVE  LET mine == {d \in deliveries : d.id[1] = r /\ d.hook = h} IN
             /\ \A d, e \in mine : d.code = "ok" => e.attempt <= d.attempt
             /\ <<h, "given up">> \in hookRun[r].done => \A d \in mine : d.code # "ok"
             /\ \A d \in mine : d.delivered <=> d.code \in {"ok", "bad"}
  <2>1. \A d \in deliveries : d.id[1] = r /\ d.hook = h => (<<h, "given up">> \in hookRun[r].done => d.code # "ok") /\ (d.delivered <=> d.code \in {"ok", "bad"})
    BY DEF HooksInv, DeliverySound
  <2> QED BY <2>1 DEF HooksInv, OkIsLast
<1> QED BY <1>1, <1>2, <1>3 DEF Outbound!HooksHold, HooksInv

\* What the admin and the receiver's DNS change leaves the runs as they were.
LEMMA HooksEdited ==
  ASSUME HooksInv, deliveries' \subseteq deliveries, UNCHANGED <<hookRun, reached>>,
         hooks' \in [Hooks -> Outbound!Hook \cup {Nil}], dns' \in [HostNames -> Outbound!Places], deleting' \subseteq Hooks,
         edits' \in 0..HookEdits, retries' \in 0..MaxRetries
  PROVE  HooksInv'
<1>1. HooksTyped'
  BY DEF HooksInv, HooksTyped
<1>2. \A r \in Workers : RunSound(r, hookRun'[r])
  BY DEF HooksInv
<1>3. \A d \in deliveries' : DeliverySound(d, hookRun'[d.id[1]])
  BY DEF HooksInv
<1>4. OkIsLast' /\ \A x \in reached' : x.place = "public"
  BY DEF HooksInv, OkIsLast
<1> QED BY <1>1, <1>2, <1>3, <1>4 DEF HooksInv

LEMMA HooksAdmin ==
  ASSUME Outbound!HooksConstants, HooksInv
  PROVE  /\ \A h \in Hooks :
              /\ \A n \in HostNames, es \in SUBSET HookEvents, b \in BOOLEAN : Outbound!Create(h, n, es, b) => HooksInv'
              /\ \A n \in HostNames : Outbound!UpdateURL(h, n) => HooksInv'
              /\ Outbound!UpdateSecret(h) \/ Outbound!UpdateActive(h) \/ Outbound!DeleteDeliveries(h) \/ Outbound!DeleteHook(h) => HooksInv'
         /\ \A n \in HostNames, p \in Outbound!Places : Outbound!Move(n, p) => HooksInv'
<1>0. /\ hooks \in [Hooks -> Outbound!Hook \cup {Nil}] /\ dns \in [HostNames -> Outbound!Places] /\ deleting \subseteq Hooks
      /\ edits \in 0..HookEdits /\ retries \in 0..MaxRetries /\ HookEdits \in Nat
  BY DEF HooksInv, HooksTyped, Outbound!HooksConstants
<1>1. Outbound!Edit => edits' \in 0..HookEdits
  BY <1>0 DEF Outbound!Edit
<1>2. ASSUME NEW h \in Hooks, NEW row \in Outbound!Hook, hooks' = [hooks EXCEPT ![h] = row], Outbound!Edit, Outbound!Edited PROVE HooksInv'
  <2>1. hooks' \in [Hooks -> Outbound!Hook \cup {Nil}]
    BY <1>0, <1>2
  <2> QED BY <1>0, <1>1, <1>2, <2>1, HooksEdited DEF Outbound!Edited
<1>3. ASSUME NEW h \in Hooks, NEW n \in HostNames, NEW es \in SUBSET HookEvents, NEW b \in BOOLEAN, Outbound!Create(h, n, es, b) PROVE HooksInv'
  <2> DEFINE row == [name |-> n, events |-> es, secret |-> 0, active |-> b]
  <2>1. row \in Outbound!Hook
    BY <1>0 DEF Outbound!Hook
  <2>2. hooks' = [hooks EXCEPT ![h] = row] /\ Outbound!Edit /\ Outbound!Edited
    BY <1>3 DEF Outbound!Create
  <2> HIDE DEF row
  <2> QED BY <1>2, <2>1, <2>2
<1>4. ASSUME NEW h \in Hooks, NEW n \in HostNames, Outbound!UpdateURL(h, n) PROVE HooksInv'
  <2> DEFINE row == [hooks[h] EXCEPT !.name = n]
  <2>1. hooks[h] \in Outbound!Hook
    BY <1>0, <1>4 DEF Outbound!UpdateURL
  <2>2. row \in Outbound!Hook
    BY <2>1 DEF Outbound!Hook
  <2>3. hooks' = [hooks EXCEPT ![h] = row] /\ Outbound!Edit /\ Outbound!Edited
    BY <1>4 DEF Outbound!UpdateURL
  <2> HIDE DEF row
  <2> QED BY <1>2, <2>2, <2>3
<1>5. ASSUME NEW h \in Hooks, Outbound!UpdateSecret(h) PROVE HooksInv'
  <2> DEFINE row == [hooks[h] EXCEPT !.secret = edits']
  <2>1. hooks[h] \in Outbound!Hook /\ edits' \in 0..HookEdits
    BY <1>0, <1>1, <1>5 DEF Outbound!UpdateSecret
  <2>2. row \in Outbound!Hook
    BY <2>1 DEF Outbound!Hook
  <2>3. hooks' = [hooks EXCEPT ![h] = row] /\ Outbound!Edit /\ Outbound!Edited
    BY <1>5 DEF Outbound!UpdateSecret
  <2> HIDE DEF row
  <2> QED BY <1>2, <2>2, <2>3
<1>6. ASSUME NEW h \in Hooks, Outbound!UpdateActive(h) PROVE HooksInv'
  <2> DEFINE row == [hooks[h] EXCEPT !.active = ~hooks[h].active]
  <2>1. hooks[h] \in Outbound!Hook
    BY <1>0, <1>6 DEF Outbound!UpdateActive
  <2>2. row \in Outbound!Hook
    BY <2>1 DEF Outbound!Hook
  <2>3. hooks' = [hooks EXCEPT ![h] = row] /\ Outbound!Edit /\ Outbound!Edited
    BY <1>6 DEF Outbound!UpdateActive
  <2> HIDE DEF row
  <2> QED BY <1>2, <2>2, <2>3
<1>7. ASSUME NEW h \in Hooks, Outbound!DeleteDeliveries(h) PROVE HooksInv'
  <2>1. deliveries' \subseteq deliveries /\ deleting' \subseteq Hooks /\ Outbound!Edit /\ UNCHANGED <<hooks, dns, hookRun, reached, retries>>
    BY <1>0, <1>7 DEF Outbound!DeleteDeliveries
  <2> QED BY <1>0, <1>1, <2>1, HooksEdited
<1>8. ASSUME NEW h \in Hooks, Outbound!DeleteHook(h) PROVE HooksInv'
  <2>1. hooks' \in [Hooks -> Outbound!Hook \cup {Nil}] /\ deleting' \subseteq Hooks /\ UNCHANGED <<dns, deliveries, hookRun, reached, edits, retries>>
    BY <1>0, <1>8 DEF Outbound!DeleteHook
  <2> QED BY <1>0, <2>1, HooksEdited
<1>9. ASSUME NEW n \in HostNames, NEW p \in Outbound!Places, Outbound!Move(n, p) PROVE HooksInv'
  <2>1. dns' \in [HostNames -> Outbound!Places] /\ Outbound!Edit /\ UNCHANGED <<hooks, deliveries, hookRun, deleting, reached, retries>>
    BY <1>0, <1>9 DEF Outbound!Move
  <2> QED BY <1>0, <1>1, <2>1, HooksEdited
<1> QED BY <1>3, <1>4, <1>5, <1>6, <1>7, <1>8, <1>9

\* A run goes on; its deliveries, with the one it records, stay sound.
LEMMA RunGoes ==
  ASSUME HooksInv, NEW r \in Workers, NEW j, RunSound(r, j), hookRun' = [hookRun EXCEPT ![r] = j],
         \A d \in deliveries' : d.id[1] = r => DeliverySound(d, j),
         \A d \in deliveries' : d.id[1] # r => d \in deliveries,
         deliveries' \subseteq Delivery, OkIsLast', \A x \in reached' : x.place = "public",
         UNCHANGED <<hooks, dns, deleting>>, edits' \in 0..HookEdits, retries' \in 0..MaxRetries
  PROVE  HooksInv'
<1>1. j \in HookRun
  BY DEF RunSound
<1>2. hookRun' \in [Workers -> HookRun] /\ \A q \in Workers : hookRun'[q] = IF q = r THEN j ELSE hookRun[q]
  BY <1>1 DEF HooksInv, HooksTyped
<1>3. HooksTyped'
  BY <1>2 DEF HooksInv, HooksTyped
<1>4. \A q \in Workers : RunSound(q, hookRun'[q])
  BY <1>2 DEF HooksInv
<1>5. ASSUME NEW d \in deliveries' PROVE DeliverySound(d, hookRun'[d.id[1]])
  <2>1. d.id[1] \in Workers
    BY DEF Delivery, HookIds
  <2> QED BY <1>2, <2>1 DEF HooksInv
<1> QED BY <1>3, <1>4, <1>5 DEF HooksInv

\* A run begins, or comes to its next webhook.
LEMMA RunLooks ==
  ASSUME Outbound!HooksConstants, HooksInv, NEW r \in Workers
  PROVE  /\ \A e \in HookEvents : Outbound!Dispatch(r, e) => HooksInv'
         /\ \A d \in deliveries : Outbound!RetryDelivery(r, d) => HooksInv'
         /\ Outbound!Next1(r) \/ Outbound!Nothing(r) => HooksInv'
<1> DEFINE j == hookRun[r]
<1>0. /\ HooksTyped /\ RunSound(r, j) /\ j \in HookRun /\ OkIsLast /\ \A x \in reached : x.place = "public"
      /\ \A d \in deliveries : DeliverySound(d, hookRun[d.id[1]])
  BY DEF HooksInv, HooksTyped
<1>c. MaxAttempts \in Nat \ {0} /\ 0 \in 0..MaxAttempts /\ 1 \in 1..MaxAttempts /\ 1 \in 0..MaxAttempts /\ MaxRetries \in Nat
  BY DEF Outbound!HooksConstants
<1>d. j = Outbound!Off => \A d \in deliveries : d.id[1] # r
  <2>1. Outbound!Off.at = "off"
    BY DEF Outbound!Off
  <2>2. \A d \in deliveries : hookRun[d.id[1]].at # "off"
    BY <1>0 DEF DeliverySound
  <2> QED BY <2>1, <2>2
<1>1. ASSUME NEW e \in HookEvents, Outbound!Dispatch(r, e) PROVE HooksInv'
  <2> DEFINE L == {h \in Hooks : Outbound!SubscribedTo(h, e)}
             W == [h \in Hooks |-> hooks[h]]
             k == [Outbound!Off EXCEPT !.at = "next", !.event = e, !.left = L, !.row = W]
  <2>1. j = Outbound!Off /\ hookRun' = [hookRun EXCEPT ![r] = k] /\ UNCHANGED <<hooks, dns, deliveries, deleting, reached, edits, retries>>
    BY <1>1 DEF Outbound!Dispatch, Outbound!Step
  <2>2. W \in [Hooks -> Outbound!Hook \cup {Nil}] /\ L \in SUBSET Hooks
    BY <1>0 DEF HooksTyped
  <2>3. W \in HookRows
    BY <2>2 DEF HookRows
  <2>4. \A h \in Hooks : W[h] # Nil /\ W[h].active /\ e \in W[h].events => h \in L
    BY DEF Outbound!SubscribedTo
  <2> HIDE DEF W, L, HookRows
  <2>5. k \in HookRun /\ k.at = "next" /\ k.event = e /\ k.left = L /\ k.row = W /\ k.done = {}
    BY <1>c, <2>2, <2>3 DEF Outbound!Off, HookRun
  <2> HIDE DEF k
  <2>6. DOMAIN W = Hooks
    BY <2>2
  <2>7. RunSound(r, k)
    <3>1. \A h \in DOMAIN k.row : Subscribed(k, h) => h \in k.left
      BY <2>4, <2>5, <2>6 DEF Subscribed
    <3>2. \A h : ~ServedBy(k, h)
      BY <2>5 DEF ServedBy
    <3> QED BY <2>5, <3>1, <3>2 DEF RunSound, Sending
  <2>8. (\A d \in deliveries' : d.id[1] # r) /\ deliveries' \subseteq Delivery /\ OkIsLast'
    BY <1>0, <1>d, <2>1 DEF HooksTyped, OkIsLast
  <2>9. edits' \in 0..HookEdits /\ retries' \in 0..MaxRetries
    BY <1>0, <2>1 DEF HooksTyped
  <2> HIDE DEF j
  <2> QED BY <1>0, <2>1, <2>7, <2>8, <2>9, RunGoes
<1>2. ASSUME NEW d \in deliveries, Outbound!RetryDelivery(r, d) PROVE HooksInv'
  <2> DEFINE W == [h \in {d.hook} |-> hooks[h]]
             k == [Outbound!Off EXCEPT !.at = "record", !.event = d.event, !.hook = d.hook, !.attempt = 1, !.row = W]
  <2>1. /\ j = Outbound!Off /\ hookRun' = [hookRun EXCEPT ![r] = k] /\ UNCHANGED <<hooks, dns, deliveries, deleting, reached, edits>>
        /\ retries' = retries + 1 /\ retries < MaxRetries /\ hooks[d.hook] # Nil
    BY <1>2 DEF Outbound!RetryDelivery, Outbound!Step
  <2>2. d.hook \in Hooks /\ d.event \in HookEvents
    BY <1>0 DEF HooksTyped, Delivery
  <2>3. W \in HookRows
    <3>1. W \in [{d.hook} -> Outbound!Hook \cup {Nil}] /\ {d.hook} \in SUBSET Hooks
      BY <1>0, <2>2 DEF HooksTyped
    <3> HIDE DEF W
    <3> QED BY <3>1 DEF HookRows
  <2>4. DOMAIN W = {d.hook}
    OBVIOUS
  <2> HIDE DEF W, HookRows
  <2>5. k \in HookRun /\ k.at = "record" /\ k.event = d.event /\ k.left = {} /\ k.hook = d.hook /\ k.attempt = 1 /\ k.row = W /\ k.done = {}
    BY <1>c, <2>2, <2>3 DEF Outbound!Off, HookRun
  <2> HIDE DEF k
  <2>7. RunSound(r, k)
    BY <1>c, <2>2, <2>4, <2>5 DEF RunSound, Sending, Subscribed, ServedBy
  <2>8. (\A x \in deliveries' : x.id[1] # r) /\ deliveries' \subseteq Delivery /\ OkIsLast'
    BY <1>0, <1>d, <2>1 DEF HooksTyped, OkIsLast
  <2>9. edits' \in 0..HookEdits /\ retries' \in 0..MaxRetries
    BY <1>0, <1>c, <2>1 DEF HooksTyped
  <2> HIDE DEF j
  <2> QED BY <1>0, <2>1, <2>7, <2>8, <2>9, RunGoes
<1>3. CASE Outbound!Next1(r)
  <2>1. PICK h \in j.left : Outbound!Step(r, [hookRun[r] EXCEPT !.at = "record", !.left = hookRun[r].left \ {h}, !.hook = h, !.attempt = 1])
    BY <1>3 DEF Outbound!Next1
  <2> DEFINE k == [j EXCEPT !.at = "record", !.left = j.left \ {h}, !.hook = h, !.attempt = 1]
  <2>2. j.at = "next" /\ hookRun' = [hookRun EXCEPT ![r] = k] /\ UNCHANGED <<hooks, dns, deliveries, deleting, reached, edits, retries>>
    BY <1>3, <2>1 DEF Outbound!Next1, Outbound!Step
  <2>3. j.left \subseteq Hooks /\ h \in Hooks
    BY <1>0 DEF HookRun
  <2>4. /\ k \in HookRun /\ k.at = "record" /\ k.event = j.event /\ k.left = j.left \ {h} /\ k.hook = h /\ k.attempt = 1
        /\ k.row = j.row /\ k.done = j.done
    BY <1>0, <1>c, <2>3 DEF HookRun
  <2> HIDE DEF k
  <2>5. RunSound(r, k)
    BY <1>0, <1>c, <2>2, <2>3, <2>4 DEF RunSound, Sending, Subscribed, ServedBy
  <2>6. ASSUME NEW d \in deliveries, d.id[1] = r PROVE DeliverySound(d, k)
    <3>1. DeliverySound(d, j)
      BY <1>0, <2>6
    <3> HIDE DEF j
    <3> QED BY <2>2, <2>4, <3>1 DEF DeliverySound, Sending
  <2>7. deliveries' \subseteq Delivery /\ OkIsLast' /\ edits' \in 0..HookEdits /\ retries' \in 0..MaxRetries
    BY <1>0, <2>2 DEF HooksTyped, OkIsLast
  <2> HIDE DEF j
  <2> QED BY <1>0, <2>2, <2>5, <2>6, <2>7, RunGoes
<1>4. CASE Outbound!Nothing(r)
  <2> DEFINE k == [j EXCEPT !.at = "over"]
  <2>1. j.at = "next" /\ j.left = {} /\ hookRun' = [hookRun EXCEPT ![r] = k] /\ UNCHANGED <<hooks, dns, deliveries, deleting, reached, edits, retries>>
    BY <1>4 DEF Outbound!Nothing, Outbound!Step
  <2>2. k \in HookRun /\ k.at = "over" /\ k.event = j.event /\ k.left = j.left /\ k.row = j.row /\ k.done = j.done
    BY <1>0 DEF HookRun
  <2> HIDE DEF k
  <2>3. RunSound(r, k)
    BY <1>0, <2>1, <2>2 DEF RunSound, Sending, Subscribed, ServedBy
  <2>4. ASSUME NEW d \in deliveries, d.id[1] = r PROVE DeliverySound(d, k)
    <3>1. DeliverySound(d, j)
      BY <1>0, <2>4
    <3> HIDE DEF j
    <3> QED BY <2>1, <2>2, <3>1 DEF DeliverySound, Sending
  <2>5. deliveries' \subseteq Delivery /\ OkIsLast' /\ edits' \in 0..HookEdits /\ retries' \in 0..MaxRetries
    BY <1>0, <2>1 DEF HooksTyped, OkIsLast
  <2> HIDE DEF j
  <2> QED BY <1>0, <2>1, <2>3, <2>4, <2>5, RunGoes
<1> QED BY <1>1, <1>2, <1>3, <1>4

LEMMA NoId == ASSUME NEW a, NEW b, NEW c PROVE <<a, b, c>> # <<>>
OBVIOUS

LEMMA Serves == ASSUME NEW j, NEW h, NEW x, <<h, x>> \in j.done PROVE ServedBy(j, h)
<1>1. <<h, x>>[1] = h
  OBVIOUS
<1> QED BY <1>1 DEF ServedBy

\* An attempt is recorded, or could not be.
LEMMA RunRecords ==
  ASSUME Outbound!HooksConstants, HooksInv, NEW r \in Workers, NEW kept \in BOOLEAN, Outbound!recordAttempt(r, kept) PROVE HooksInv'
<1> DEFINE j == hookRun[r]
           id == <<r, j.hook, j.attempt>>
           i == IF kept THEN id ELSE <<>>
           d0 == [id |-> id, hook |-> j.hook, event |-> j.event, attempt |-> j.attempt, code |-> "none", delivered |-> FALSE]
           k == [j EXCEPT !.at = "post", !.id = i]
<1>0. /\ HooksTyped /\ RunSound(r, j) /\ j \in HookRun /\ OkIsLast /\ \A x \in reached : x.place = "public"
      /\ \A d \in deliveries : DeliverySound(d, hookRun[d.id[1]])
  BY DEF HooksInv, HooksTyped
<1>1. /\ j.at = "record" /\ hookRun' = [hookRun EXCEPT ![r] = k] /\ UNCHANGED <<hooks, dns, deleting, reached, retries>>
      /\ deliveries' = (IF kept THEN deliveries \cup {d0} ELSE deliveries) /\ (IF kept THEN UNCHANGED edits ELSE Outbound!Edit)
  BY DEF Outbound!recordAttempt, Outbound!Step
<1>2. j.hook \in Hooks /\ j.hook \notin j.left /\ j.attempt \in 1..MaxAttempts /\ ~ServedBy(j, j.hook) /\ j.event \in HookEvents
  BY <1>0, <1>1 DEF RunSound, Sending
<1>3. id \in HookIds /\ i \in HookIds \cup {<<>>} /\ i \in {<<>>, <<r, j.hook, j.attempt>>}
  BY <1>2 DEF HookIds
<1>4. d0 \in Delivery /\ d0.id = id /\ d0.hook = j.hook /\ d0.attempt = j.attempt /\ d0.code = "none" /\ d0.delivered = FALSE
  BY <1>2, <1>3 DEF Delivery, Outbound!Codes
<1>5. /\ k \in HookRun /\ k.at = "post" /\ k.event = j.event /\ k.left = j.left /\ k.hook = j.hook /\ k.attempt = j.attempt
      /\ k.row = j.row /\ k.done = j.done /\ k.id = i
  <2> HIDE DEF i, id, d0
  <2> QED BY <1>0, <1>3 DEF HookRun
<1>6. id[1] = r /\ id = <<r, j.hook, j.attempt>>
  OBVIOUS
<1>i. kept => i = id
  OBVIOUS
<1>7. edits' \in 0..HookEdits /\ retries' \in 0..MaxRetries
  BY <1>0, <1>1 DEF HooksTyped, Outbound!Edit, Outbound!HooksConstants
<1> HIDE DEF k, d0, i, id
<1>8. RunSound(r, k)
  BY <1>0, <1>1, <1>2, <1>3, <1>5 DEF RunSound, Sending, Subscribed, ServedBy
<1>9. ASSUME NEW d \in deliveries, d.id[1] = r PROVE DeliverySound(d, k) /\ (d.hook = j.hook => d.attempt < j.attempt /\ d.code # "ok")
  <2>1. DeliverySound(d, j)
    BY <1>0, <1>9
  <2> HIDE DEF j
  <2> QED BY <1>1, <1>5, <2>1 DEF DeliverySound, Sending
<1>10. kept => DeliverySound(d0, k)
  <2>1. <<d0.hook, "given up">> \notin k.done
    BY <1>2, <1>4, <1>5, Serves
  <2> HIDE DEF j
  <2> QED BY <1>2, <1>4, <1>5, <1>6, <1>i, <2>1 DEF DeliverySound, Sending
<1>11. OkIsLast'
  <2>1. CASE ~kept
    BY <1>0, <1>1, <2>1 DEF OkIsLast
  <2>2. CASE kept
    <3>1. deliveries' = deliveries \cup {d0}
      BY <1>1, <2>2
    <3>2. \A d \in deliveries : d.id[1] = r /\ d.hook = j.hook => d.code # "ok"
      BY <1>9
    <3> HIDE DEF j
    <3> QED BY <1>0, <1>4, <1>6, <3>1, <3>2 DEF OkIsLast
  <2> QED BY <2>1, <2>2
<1>12. deliveries' \subseteq Delivery /\ \A d \in deliveries' : (d.id[1] # r => d \in deliveries) /\ (d.id[1] = r => DeliverySound(d, k))
  BY <1>0, <1>1, <1>4, <1>6, <1>9, <1>10 DEF HooksTyped
<1> HIDE DEF j
<1> QED BY <1>0, <1>1, <1>7, <1>8, <1>11, <1>12, RunGoes

\* What is being sent to is answered, fails or is refused: the run tries again
\* or has served it.
LEMMA RunHears ==
  ASSUME Outbound!HooksConstants, HooksInv, NEW r \in Workers, NEW code \in {"ok", "bad", "error"}, NEW retried \in BOOLEAN,
         hookRun[r].at = "post", Outbound!Result(r, code, retried), retried => code # "ok", \A x \in reached' : x.place = "public"
  PROVE  HooksInv'
<1> DEFINE j == hookRun[r]
           end == IF j.left = {} THEN "over" ELSE "next"
           word == IF retried THEN "given up" ELSE code
           again == retried /\ j.attempt < MaxAttempts
           k1 == [j EXCEPT !.at = "record", !.attempt = j.attempt + 1]
           k2 == [j EXCEPT !.at = end, !.done = j.done \cup {<<j.hook, word>>}]
           k == IF again THEN k1 ELSE k2
<1>k. PICK kept \in BOOLEAN : Outbound!recordResult(r, code, kept)
  BY DEF Outbound!Result
<1> DEFINE New(d) == IF kept /\ d.id = j.id THEN [d EXCEPT !.code = code, !.delivered = code # "error"] ELSE d
<1>0. /\ HooksTyped /\ RunSound(r, j) /\ j \in HookRun /\ OkIsLast
      /\ \A d \in deliveries : DeliverySound(d, hookRun[d.id[1]]) /\ d \in Delivery
  BY DEF HooksInv, HooksTyped
<1>1. /\ j.at = "post" /\ hookRun' = [hookRun EXCEPT ![r] = k] /\ UNCHANGED <<hooks, dns, deleting, retries>>
  BY DEF Outbound!Result, Outbound!Step
<1>d. deliveries' = {New(d) : d \in deliveries}
  <2>1. CASE kept
    BY <1>k, <2>1 DEF Outbound!recordResult
  <2>2. CASE ~kept
    <3>1. deliveries' = deliveries
      BY <1>k, <2>2 DEF Outbound!recordResult
    <3>2. {New(d) : d \in deliveries} = {d : d \in deliveries}
      BY <2>2
    <3>3. {d : d \in deliveries} = deliveries
      OBVIOUS
    <3> QED BY <3>1, <3>2, <3>3
  <2> QED BY <2>1, <2>2
<1>2. /\ j.hook \in Hooks /\ j.hook \notin j.left /\ j.attempt \in 1..MaxAttempts /\ ~ServedBy(j, j.hook) /\ j.event \in HookEvents
      /\ j.id \in {<<>>, <<r, j.hook, j.attempt>>} /\ MaxAttempts \in Nat /\ j.left \subseteq Hooks
  BY <1>0, <1>1 DEF RunSound, Sending, Outbound!HooksConstants, HookRun
<1>3. edits' \in 0..HookEdits /\ retries' \in 0..MaxRetries
  <2>1. edits' = edits \/ Outbound!Edit
    BY <1>k DEF Outbound!recordResult
  <2>2. edits \in 0..HookEdits /\ HookEdits \in Nat /\ retries \in 0..MaxRetries
    BY <1>0 DEF HooksTyped, Outbound!HooksConstants
  <2>3. edits' \in 0..HookEdits
    BY <2>1, <2>2 DEF Outbound!Edit
  <2> QED BY <1>1, <2>2, <2>3
<1>4. ASSUME again
      PROVE  /\ k \in HookRun /\ k.at = "record" /\ k.event = j.event /\ k.left = j.left /\ k.hook = j.hook /\ k.attempt = j.attempt + 1
             /\ k.row = j.row /\ k.done = j.done /\ retried /\ k.attempt \in 1..MaxAttempts
  <2>1. j.attempt + 1 \in 0..MaxAttempts /\ j.attempt + 1 \in 1..MaxAttempts
    BY <1>2, <1>4
  <2> QED BY <1>0, <1>4, <2>1 DEF HookRun
<1>5. ASSUME ~again
      PROVE  /\ k \in HookRun /\ k.at = end /\ k.event = j.event /\ k.left = j.left /\ k.hook = j.hook /\ k.attempt = j.attempt
             /\ k.row = j.row /\ k.done = j.done \cup {<<j.hook, word>>}
  <2>1. end \in {"over", "next"} /\ <<j.hook, word>> \in Hooks \X {"ok", "bad", "error", "given up"}
    BY <1>2
  <2> HIDE DEF end, word
  <2> QED BY <1>0, <1>5, <2>1 DEF HookRun
<1>6. end \in {"over", "next"} /\ (end = "over" <=> j.left = {})
  OBVIOUS
<1>7. word = "given up" => retried
  OBVIOUS
<1>8. ASSUME NEW d \in deliveries
      PROVE  /\ New(d) \in Delivery /\ New(d).id = d.id /\ New(d).hook = d.hook /\ New(d).attempt = d.attempt
             /\ New(d).delivered <=> New(d).code \in {"ok", "bad"}
             /\ New(d) = d \/ New(d).code = code
             /\ d.id # j.id => New(d) = d
  <2>1. d \in Delivery /\ (d.delivered <=> d.code \in {"ok", "bad"})
    BY <1>0 DEF DeliverySound
  <2> DEFINE e == [d EXCEPT !.code = code, !.delivered = code # "error"]
  <2>2. e \in Delivery /\ e.id = d.id /\ e.hook = d.hook /\ e.attempt = d.attempt /\ e.code = code /\ e.delivered = (code # "error")
    BY <2>1 DEF Delivery, Outbound!Codes
  <2>3. (code # "error") <=> code \in {"ok", "bad"}
    OBVIOUS
  <2>4. New(d) = IF kept /\ d.id = j.id THEN e ELSE d
    OBVIOUS
  <2> HIDE DEF e, New
  <2>5. e.delivered <=> e.code \in {"ok", "bad"}
    BY <2>2, <2>3
  <2>6. CASE kept /\ d.id = j.id
    BY <2>2, <2>4, <2>5, <2>6
  <2>7. CASE ~(kept /\ d.id = j.id)
    BY <2>1, <2>4, <2>7
  <2> QED BY <2>6, <2>7
<1>n. \A d \in deliveries' : \E e \in deliveries : d = New(e)
  BY <1>d
<1> HIDE DEF k, end, word, New
<1>9. RunSound(r, k)
  <2>1. CASE again
    <3> HIDE DEF again
    <3> QED BY <1>0, <1>1, <1>2, <1>4, <2>1 DEF RunSound, Sending, Subscribed, ServedBy
  <2>2. CASE ~again
    <3> HIDE DEF again
    <3>1. \A h : ServedBy(k, h) <=> ServedBy(j, h) \/ h = j.hook
      <4>1. <<j.hook, word>>[1] = j.hook /\ k.done = j.done \cup {<<j.hook, word>>}
        BY <1>5, <2>2
      <4> HIDE DEF j
      <4> QED BY <4>1 DEF ServedBy
    <3>2. \A h \in DOMAIN k.row : Subscribed(k, h) => h \in k.left \/ ServedBy(k, h)
      BY <1>0, <1>1, <1>5, <2>2, <3>1 DEF RunSound, Subscribed
    <3>3. \A h \in k.left : ~ServedBy(k, h)
      BY <1>0, <1>2, <1>5, <2>2, <3>1 DEF RunSound
    <3>4. k \in HookRun /\ k.at \in {"over", "next"} /\ (k.at = "over" => k.left = {}) /\ k.event \in HookEvents
      BY <1>2, <1>5, <1>6, <2>2
    <3> HIDE DEF j
    <3> QED BY <3>2, <3>3, <3>4 DEF RunSound, Sending
  <2> QED BY <2>1, <2>2
<1>10. ASSUME NEW d \in deliveries, d.id[1] = r
       PROVE  /\ d.id = <<r, d.hook, d.attempt>> /\ d.attempt \in 1..MaxAttempts
              /\ (d.delivered <=> d.code \in {"ok", "bad"}) /\ d.hook \notin j.left
              /\ j.hook = d.hook => (d.attempt < j.attempt /\ d.code # "ok") \/ (d.attempt = j.attempt /\ d.id = j.id /\ d.code # "ok")
              /\ <<d.hook, "given up">> \in j.done => d.code # "ok"
              /\ d.id = j.id => d.hook = j.hook /\ d.attempt = j.attempt
              /\ j.hook = d.hook => d.attempt <= j.attempt
  <2>1. DeliverySound(d, j) /\ d \in Delivery
    BY <1>0, <1>10
  <2>2. d.id # <<>>
    <3>1. d.id = <<d.id[1], d.hook, d.attempt>>
      BY <2>1 DEF DeliverySound
    <3> QED BY <3>1, NoId
  <2>3. d.id = j.id => d.hook = j.hook /\ d.attempt = j.attempt
    <3>1. d.id = <<d.id[1], d.hook, d.attempt>>
      BY <2>1 DEF DeliverySound
    <3> HIDE DEF j
    <3> QED BY <1>2, <2>2, <3>1
  <2> HIDE DEF j
  <2>4. d.attempt \in 1..MaxAttempts
    BY <2>1 DEF Delivery
  <2>5. j.hook = d.hook => (d.attempt < j.attempt /\ d.code # "ok") \/ (d.attempt = j.attempt /\ d.id = j.id /\ d.code # "ok")
    BY <1>1, <2>1 DEF DeliverySound, Sending
  <2>6. j.hook = d.hook => d.attempt <= j.attempt
    BY <1>2, <2>4, <2>5
  <2> QED BY <1>10, <2>1, <2>3, <2>4, <2>5, <2>6 DEF DeliverySound
<1>11. ASSUME NEW d \in deliveries, d.id[1] = r PROVE DeliverySound(New(d), k)
  <2>1. /\ New(d).id = <<New(d).id[1], New(d).hook, New(d).attempt>> /\ (New(d).delivered <=> New(d).code \in {"ok", "bad"})
        /\ New(d).hook \notin j.left
    <3>1. New(d).id = d.id /\ New(d).hook = d.hook /\ New(d).attempt = d.attempt
      BY <1>8
    <3>2. d.id = <<r, d.hook, d.attempt>> /\ d.hook \notin j.left
      BY <1>10, <1>11
    <3>3. New(d).delivered <=> New(d).code \in {"ok", "bad"}
      BY <1>8
    <3> QED BY <1>11, <3>1, <3>2, <3>3
  <2>2. j.hook = d.hook /\ retried => New(d).code # "ok"
    BY <1>8, <1>10, <1>11
  <2>3. j.hook = d.hook => d.attempt <= j.attempt
    BY <1>10, <1>11
  <2>4. <<d.hook, "given up">> \in j.done => New(d).code # "ok"
    BY <1>2, <1>8, <1>10, <1>11 DEF ServedBy
  <2>5. New(d).hook = d.hook /\ New(d).attempt = d.attempt /\ d.attempt \in 1..MaxAttempts
    BY <1>8, <1>10, <1>11
  <2>6. CASE again
    <3>1. k.at = "record" /\ k.left = j.left /\ k.hook = j.hook /\ k.attempt = j.attempt + 1 /\ k.done = j.done /\ retried
      BY <1>4, <2>6
    <3> HIDE DEF again
    <3>2. k.hook = d.hook => d.attempt < k.attempt
      <4> HIDE DEF j
      <4> QED BY <1>2, <2>3, <2>5, <3>1
    <3> HIDE DEF j
    <3> QED BY <2>1, <2>2, <2>4, <2>5, <3>1, <3>2 DEF DeliverySound, Sending
  <2>7. CASE ~again
    <3>1. k.at \in {"over", "next"} /\ k.left = j.left /\ k.done = j.done \cup {<<j.hook, word>>}
      BY <1>5, <1>6, <2>7
    <3>2. <<d.hook, "given up">> \in k.done => <<d.hook, "given up">> \in j.done \/ (d.hook = j.hook /\ retried)
      BY <1>7, <3>1
    <3> HIDE DEF again, j
    <3> QED BY <2>1, <2>2, <2>4, <2>5, <3>1, <3>2 DEF DeliverySound, Sending
  <2> QED BY <2>6, <2>7
<1>o. ASSUME NEW d \in deliveries, d.id = j.id PROVE d.id[1] = r
  <2>1. d.id = <<d.id[1], d.hook, d.attempt>>
    BY <1>0 DEF DeliverySound
  <2>2. d.id # <<>>
    BY <2>1, NoId
  <2> HIDE DEF j
  <2> QED BY <1>2, <1>o, <2>2
<1>12. \A d \in deliveries : d.id[1] # r => New(d) = d
  BY <1>8, <1>o
<1>13. \A d \in deliveries' : (d.id[1] = r => DeliverySound(d, k)) /\ (d.id[1] # r => d \in deliveries) /\ d \in Delivery
  BY <1>n, <1>8, <1>11, <1>12
<1>14. ASSUME NEW d \in deliveries, NEW e \in deliveries, d.id[1] = e.id[1], d.hook = e.hook, New(d).code = "ok" PROVE e.attempt <= d.attempt
  <2>1. CASE d.id = j.id
    <3>1. d.id[1] = r
      BY <1>o, <2>1
    <3>2. e.attempt \in 1..MaxAttempts /\ d.attempt = j.attempt /\ j.hook = e.hook /\ (e.attempt < j.attempt \/ e.attempt = j.attempt)
      BY <1>10, <1>14, <2>1, <3>1
    <3> HIDE DEF j
    <3> QED BY <1>2, <3>2
  <2>2. CASE d.id # j.id
    BY <1>0, <1>8, <1>14, <2>2 DEF OkIsLast
  <2> QED BY <2>1, <2>2
<1>15. OkIsLast'
  BY <1>n, <1>8, <1>14 DEF OkIsLast
<1> HIDE DEF j, again
<1> QED BY <1>1, <1>3, <1>9, <1>13, <1>15, RunGoes

LEMMA HooksStep == ASSUME Outbound!HooksConstants, HooksInv, Outbound!Next \/ UNCHANGED hookVars PROVE HooksInv'
<1>1. CASE UNCHANGED hookVars
  BY <1>1 DEF hookVars, HooksInv, HooksTyped, OkIsLast
<1>2. ASSUME NEW r \in Workers, Outbound!Failed(r) \/ Outbound!Refused(r) \/ \E code \in {"ok", "bad"} : Outbound!Answered(r, code) PROVE HooksInv'
  <2>1. \A x \in reached : x.place = "public"
    BY DEF HooksInv
  <2>2. CASE Outbound!Failed(r)
    <3>1. hookRun[r].at = "post" /\ Outbound!Result(r, "error", TRUE) /\ \A x \in reached' : x.place = "public"
      BY <2>1, <2>2 DEF Outbound!Failed
    <3> QED BY <3>1, RunHears
  <2>3. CASE Outbound!Refused(r)
    <3>1. hookRun[r].at = "post" /\ Outbound!Result(r, "error", FALSE) /\ \A x \in reached' : x.place = "public"
      BY <2>1, <2>3 DEF Outbound!Refused
    <3> QED BY <3>1, RunHears
  <2>4. ASSUME NEW code \in {"ok", "bad"}, Outbound!Answered(r, code) PROVE HooksInv'
    <3> DEFINE b == code # "ok"
    <3>1. hookRun[r].at = "post" /\ Outbound!Result(r, code, b) /\ \A x \in reached' : x.place = "public"
      BY <2>1, <2>4 DEF Outbound!Answered, Outbound!MayConnect
    <3>2. b \in BOOLEAN /\ (b => code # "ok") /\ code \in {"ok", "bad", "error"}
      OBVIOUS
    <3> HIDE DEF b
    <3> QED BY <3>1, <3>2, RunHears
  <2> QED BY <1>2, <2>2, <2>3, <2>4
<1>3. CASE Outbound!Crash
  <2>1. /\ Outbound!Edit /\ UNCHANGED <<hooks, dns, deliveries, deleting, reached, retries>>
        /\ hookRun' = [r \in Workers |-> IF hookRun[r].at \in {"next", "record", "post"} THEN [hookRun[r] EXCEPT !.at = "dead"] ELSE hookRun[r]]
    BY <1>3 DEF Outbound!Crash
  <2>2. ASSUME NEW r \in Workers
        PROVE  RunSound(r, hookRun'[r]) /\ \A d : DeliverySound(d, hookRun[r]) => DeliverySound(d, hookRun'[r])
    <3>1. CASE hookRun[r].at \in {"next", "record", "post"}
      <4> DEFINE k == [hookRun[r] EXCEPT !.at = "dead"]
      <4>1. hookRun'[r] = k /\ RunSound(r, hookRun[r]) /\ hookRun[r] \in HookRun
        BY <2>1, <3>1 DEF HooksInv, RunSound
      <4>2. k \in HookRun /\ k.at = "dead" /\ k.left = hookRun[r].left /\ k.done = hookRun[r].done
        BY <4>1 DEF HookRun
      <4> HIDE DEF k
      <4>3. RunSound(r, k)
        BY <4>1, <4>2 DEF RunSound, Sending, ServedBy
      <4>4. \A d : DeliverySound(d, hookRun[r]) => DeliverySound(d, k)
        BY <4>2 DEF DeliverySound, Sending
      <4> QED BY <4>1, <4>3, <4>4
    <3>2. CASE hookRun[r].at \notin {"next", "record", "post"}
      BY <2>1, <3>2 DEF HooksInv
    <3> QED BY <3>1, <3>2
  <2>3. hookRun' \in [Workers -> HookRun]
    BY <2>1, <2>2 DEF RunSound
  <2>4. edits' \in 0..HookEdits
    BY <2>1 DEF HooksInv, HooksTyped, Outbound!Edit, Outbound!HooksConstants
  <2>5. HooksTyped'
    BY <2>1, <2>3, <2>4 DEF HooksInv, HooksTyped
  <2>6. ASSUME NEW d \in deliveries PROVE DeliverySound(d, hookRun'[d.id[1]])
    <3>1. d.id[1] \in Workers
      BY DEF HooksInv, HooksTyped, Delivery, HookIds
    <3> QED BY <2>2, <3>1 DEF HooksInv
  <2>7. OkIsLast'
    BY <2>1 DEF HooksInv, OkIsLast
  <2> QED BY <2>1, <2>2, <2>5, <2>6, <2>7 DEF HooksInv
<1>4. CASE Outbound!Next
  BY <1>2, <1>3, <1>4, HooksAdmin, RunLooks, RunRecords DEF Outbound!Next
<1> QED BY <1>1, <1>4

-----------------------------------------------------------------------------
\* The real-time stream (Broadcaster).

Sent == Stream!Events
Runs == {"open", "check", "write", "leave"}
StreamRow == [at : {"off", "open", "check", "write", "leave", "over"}, user : Clients \cup {Nil}, channels : SUBSET Channels,
              events : Seq(Sent), done : BOOLEAN, held : Sent \cup {Nil}]
Published == [n : 0..MaxEvents, channel : Channels \cup {Nil}, left : SUBSET Streams]
Holding(j) == j.at \in {"check", "write"}
Earlier(d, e) == d.by = e.by => d.n < e.n

StreamsTyped ==
  /\ subscribers \in [Clients -> Streams \cup {Nil}] /\ sight \subseteq Clients \X Channels
  /\ stream \in [Streams -> StreamRow] /\ publish \in [Publishers -> Published]
  /\ written \in [Streams -> Seq(Sent)] /\ unseen \in [Streams -> {0, 1}]

\* A publisher's event is not ahead of the publisher, and behind it for a
\* stream that has yet to get the latest one.
Behind(s, e, m) == e.n <= m[e.by].n /\ (s \in m[e.by].left => e.n < m[e.by].n)

\* What a stream has written, holds and has in its buffer, in that order, is in
\* the order published.
InOrder(j, w) ==
  /\ \A i, k \in DOMAIN w : i < k => Earlier(w[i], w[k])
  /\ \A i \in DOMAIN w, k \in DOMAIN j.events : Earlier(w[i], j.events[k])
  /\ \A i, k \in DOMAIN j.events : i < k => Earlier(j.events[i], j.events[k])
  /\ Holding(j) => /\ \A i \in DOMAIN w : Earlier(w[i], j.held)
                   /\ \A k \in DOMAIN j.events : Earlier(j.held, j.events[k])
AllBehind(s, j, w, m) ==
  /\ \A i \in DOMAIN w : Behind(s, w[i], m)
  /\ \A k \in DOMAIN j.events : Behind(s, j.events[k], m)
  /\ Holding(j) => Behind(s, j.held, m)

\* A stream that runs and is not closed is the one of its user in the map; what
\* it is about to write was in sight unless sight changed since.
StreamSound(s, j, w, x) ==
  /\ InOrder(j, w) /\ AllBehind(s, j, w, publish)
  /\ Len(j.events) <= BufferSize /\ (Holding(j) => j.held \in Sent)
  /\ j.at \in Runs => j.user \in Clients /\ (~j.done => subscribers[j.user] = s)
  /\ j.at = "write" /\ x = 1 => Stream!Allowed(j.user, j.held.channel)

InMap == {u \in Clients : subscribers[u] # Nil}
MapSound ==
  /\ \A u \in InMap : stream[subscribers[u]].at \in Runs /\ stream[subscribers[u]].user = u /\ ~stream[subscribers[u]].done
  /\ IsFiniteSet(InMap) /\ Cardinality(InMap) <= MaxSubscribers

\* Who has yet to get an event is a stream, and the event is one.
PublishSound == \A p \in Publishers : publish[p].left # {} => publish[p].n >= 1 /\ publish[p].channel \in Channels

StreamsInv ==
  /\ StreamsTyped /\ MapSound /\ PublishSound
  /\ \A s \in Streams : StreamSound(s, stream[s], written[s], unseen[s])

LEMMA StreamsInit == ASSUME Stream!StreamsConstants, Stream!Init PROVE StreamsInv
<1>1. /\ subscribers = [u \in Clients |-> Nil] /\ stream = [s \in Streams |-> Stream!Off] /\ sight = Clients \X Channels
      /\ publish = [p \in Publishers |-> [n |-> 0, channel |-> Nil, left |-> {}]]
      /\ written = [s \in Streams |-> <<>>] /\ unseen = [s \in Streams |-> 0]
  BY DEF Stream!Init
<1>2. <<>> \in Seq(Sent) /\ DOMAIN <<>> = {} /\ Len(<<>>) = 0
  OBVIOUS
<1>3. Stream!Off \in StreamRow /\ Stream!Off.at = "off" /\ Stream!Off.events = <<>>
  BY <1>2 DEF Stream!Off, StreamRow
<1>4. [n |-> 0, channel |-> Nil, left |-> {}] \in Published /\ 0 <= BufferSize /\ 0 <= MaxSubscribers
  BY DEF Published, Stream!StreamsConstants
<1>5. StreamsTyped
  BY <1>1, <1>2, <1>3, <1>4 DEF StreamsTyped
<1>6. MapSound
  <2>1. InMap = {}
    BY <1>1 DEF InMap
  <2> QED BY <1>4, <2>1, FS_EmptySet DEF MapSound
<1>7. PublishSound
  BY <1>1 DEF PublishSound
<1>8. ASSUME NEW s \in Streams PROVE StreamSound(s, stream[s], written[s], unseen[s])
  <2>1. stream[s] = Stream!Off /\ written[s] = <<>>
    BY <1>1
  <2> HIDE DEF Runs
  <2>2. InOrder(stream[s], written[s]) /\ AllBehind(s, stream[s], written[s], publish)
    BY <1>2, <1>3, <2>1 DEF InOrder, AllBehind, Holding
  <2> QED BY <1>2, <1>3, <1>4, <2>1, <2>2 DEF StreamSound, Holding, Runs
<1> QED BY <1>5, <1>6, <1>7, <1>8 DEF StreamsInv

LEMMA StreamsHas == ASSUME Stream!StreamsConstants, StreamsInv PROVE Stream!TypeOK /\ Stream!StreamsHold
<1>1. ASSUME NEW s \in Streams
      PROVE  /\ stream[s].at \in {"off", "open", "check", "write", "leave", "over"} /\ stream[s].channels \subseteq Channels
             /\ stream[s].user \in Clients \cup {Nil} /\ stream[s].held \in Sent \cup {Nil}
             /\ Len(stream[s].events) <= BufferSize /\ Stream!IsInjective(stream[s].events)
             /\ unseen[s] <= 1
             /\ \A i, j \in 1..Len(written[s]) : i < j /\ written[s][i].by = written[s][j].by => written[s][i].n < written[s][j].n
  <2>1. stream[s] \in StreamRow /\ StreamSound(s, stream[s], written[s], unseen[s]) /\ unseen[s] \in {0, 1} /\ written[s] \in Seq(Sent)
    BY DEF StreamsInv, StreamsTyped
  <2> DEFINE q == stream[s].events
  <2>2. q \in Seq(Sent) /\ \A i, k \in DOMAIN q : i < k => Earlier(q[i], q[k])
    BY <2>1 DEF StreamSound, InOrder, StreamRow
  <2> HIDE DEF q
  <2>3. ASSUME NEW i \in DOMAIN q, NEW k \in DOMAIN q, q[i] = q[k] PROVE i = k
    <3>1. i \in Nat /\ k \in Nat /\ q[i] \in Sent /\ q[i].n \in Nat
      <4>1. DOMAIN q = 1..Len(q) /\ Len(q) \in Nat /\ q[i] \in Sent
        BY <2>2
      <4>2. q[i].n \in Nat
        BY <4>1 DEF Sent, Stream!Events, Stream!StreamsConstants
      <4> QED BY <4>1, <4>2
    <3>2. ~Earlier(q[i], q[k]) /\ ~Earlier(q[k], q[i])
      <4>1. q[k].n = q[i].n /\ q[i].by = q[k].by
        BY <2>3
      <4>2. ASSUME NEW n \in Nat PROVE ~(n < n)
        OBVIOUS
      <4>3. ~(q[i].n < q[i].n)
        BY <3>1, <4>2
      <4> QED BY <4>1, <4>3 DEF Earlier
    <3>3. ~(i < k) /\ ~(k < i)
      BY <2>2, <3>2
    <3> QED BY <3>1, <3>3
  <2>4. Stream!IsInjective(q)
    BY <2>3 DEF Stream!IsInjective
  <2>5. \A i, j \in 1..Len(written[s]) : i < j /\ written[s][i].by = written[s][j].by => written[s][i].n < written[s][j].n
    <3>1. DOMAIN written[s] = 1..Len(written[s])
      BY <2>1
    <3> QED BY <2>1, <3>1 DEF StreamSound, InOrder, Earlier
  <2>6. unseen[s] <= 1 /\ Len(stream[s].events) <= BufferSize
    BY <2>1 DEF StreamSound
  <2> QED BY <2>1, <2>4, <2>5, <2>6 DEF StreamRow, q
<1>2. ASSUME NEW u \in Clients, subscribers[u] # Nil
      PROVE  subscribers[u] \in Stream!Running /\ stream[subscribers[u]].user = u /\ ~stream[subscribers[u]].done
  <2>1. u \in InMap /\ subscribers[u] \in Streams
    BY <1>2 DEF InMap, StreamsInv, StreamsTyped
  <2> QED BY <2>1 DEF StreamsInv, MapSound, Runs, Stream!Running
<1>3. ASSUME NEW s \in Stream!Running, NEW t \in Stream!Running, stream[s].user = stream[t].user, ~stream[s].done, ~stream[t].done PROVE s = t
  <2>1. s \in Streams /\ t \in Streams /\ stream[s].at \in Runs /\ stream[t].at \in Runs
    BY DEF Stream!Running, Runs
  <2>2. subscribers[stream[s].user] = s /\ subscribers[stream[t].user] = t
    BY <1>3, <2>1 DEF StreamsInv, StreamSound
  <2> QED BY <1>3, <2>2
<1>4. Stream!Cardinality({u \in Clients : subscribers[u] # Nil}) <= MaxSubscribers
  <2>1. Cardinality({u \in Clients : subscribers[u] # Nil}) <= MaxSubscribers
    BY DEF StreamsInv, MapSound, InMap
  <2> QED BY <2>1 DEF Stream!Cardinality, Cardinality
<1>5. Stream!TypeOK
  BY <1>1, <1>4 DEF Stream!TypeOK, StreamsInv, StreamsTyped, Published, Sent
<1> QED BY <1>1, <1>2, <1>3, <1>5 DEF Stream!StreamsHold

\* What is behind a publisher stays behind it.
BehindStays == \A t \in Streams, e \in Sent : Behind(t, e, publish) => Behind(t, e, publish)'

LEMMA AllStayBehind ==
  ASSUME BehindStays, NEW s \in Streams, NEW j \in StreamRow, NEW w \in Seq(Sent), Holding(j) => j.held \in Sent, AllBehind(s, j, w, publish)
  PROVE  AllBehind(s, j, w, publish')
<1>1. (\A i \in DOMAIN w : w[i] \in Sent) /\ \A k \in DOMAIN j.events : j.events[k] \in Sent
  <2>1. j.events \in Seq(Sent)
    BY DEF StreamRow
  <2> HIDE DEF Sent
  <2> QED BY <2>1
<1> QED BY <1>1 DEF AllBehind, BehindStays, Behind

\* A step that changes one stream, and neither its user nor whether it runs.
LEMMA StreamGoes ==
  ASSUME StreamsInv, NEW s \in Streams, NEW j \in StreamRow, NEW w \in Seq(Sent), NEW x \in {0, 1},
         stream' = [stream EXCEPT ![s] = j], written' = [written EXCEPT ![s] = w], unseen' = [unseen EXCEPT ![s] = x],
         UNCHANGED <<subscribers, sight>>, publish' \in [Publishers -> Published], PublishSound', BehindStays,
         j.user = stream[s].user /\ j.done = stream[s].done /\ (j.at \in Runs <=> stream[s].at \in Runs),
         InOrder(j, w), AllBehind(s, j, w, publish'), Len(j.events) <= BufferSize, Holding(j) => j.held \in Sent,
         j.at = "write" /\ x = 1 => Stream!Allowed(j.user, j.held.channel)
  PROVE  StreamsInv'
<1>1. /\ stream' \in [Streams -> StreamRow] /\ written' \in [Streams -> Seq(Sent)] /\ unseen' \in [Streams -> {0, 1}]
      /\ \A t \in Streams : /\ stream'[t] = (IF t = s THEN j ELSE stream[t]) /\ written'[t] = (IF t = s THEN w ELSE written[t])
                            /\ unseen'[t] = IF t = s THEN x ELSE unseen[t]
  <2> HIDE DEF StreamRow, Sent
  <2> QED BY DEF StreamsInv, StreamsTyped
<1>2. StreamsTyped'
  BY <1>1 DEF StreamsInv, StreamsTyped
<1>3. MapSound'
  <2>1. InMap' = InMap
    BY DEF InMap
  <2>2. \A u \in InMap : subscribers[u] \in Streams
    BY DEF InMap, StreamsInv, StreamsTyped
  <2> QED BY <1>1, <2>1, <2>2 DEF StreamsInv, MapSound
<1>4. ASSUME NEW t \in Streams PROVE StreamSound(t, stream[t], written[t], unseen[t])'
  <2>1. StreamSound(t, stream[t], written[t], unseen[t]) /\ stream[t] \in StreamRow /\ written[t] \in Seq(Sent)
    BY DEF StreamsInv, StreamsTyped
  <2>2. \A u, c : Stream!Allowed(u, c)' <=> Stream!Allowed(u, c)
    BY DEF Stream!Allowed
  <2>3. CASE t = s
    <3>1. stream'[t] = j /\ written'[t] = w /\ unseen'[t] = x
      BY <1>1, <2>3
    <3>2. j.at \in Runs => j.user \in Clients /\ (~j.done => subscribers'[j.user] = t)
      BY <2>1, <2>3 DEF StreamSound
    <3> QED BY <2>2, <2>3, <3>1, <3>2 DEF StreamSound
  <2>4. CASE t # s
    <3>1. stream'[t] = stream[t] /\ written'[t] = written[t] /\ unseen'[t] = unseen[t]
      BY <1>1, <2>4
    <3>2. AllBehind(t, stream[t], written[t], publish')
      BY <2>1, AllStayBehind DEF StreamSound
    <3> QED BY <2>1, <2>2, <3>1, <3>2 DEF StreamSound
  <2> QED BY <2>3, <2>4
<1> QED BY <1>2, <1>3, <1>4 DEF StreamsInv

\* Sight and channels change.
LEMMA StreamsChange ==
  ASSUME Stream!StreamsConstants, StreamsInv, NEW u \in Clients, NEW c \in Channels
  PROVE  Stream!AddChannel(u, c) \/ Stream!RemoveChannel(u, c) \/ Stream!ChangeSight(u, c) => StreamsInv'
<1>1. ASSUME NEW C \in SUBSET Channels, subscribers[u] # Nil, stream' = [stream EXCEPT ![subscribers[u]].channels = C],
             UNCHANGED <<subscribers, sight, publish, written, unseen>>
      PROVE  StreamsInv'
  <2> DEFINE s == subscribers[u]
             j == [stream[s] EXCEPT !.channels = C]
             w == written[s]
             x == unseen[s]
  <2>1. s \in Streams /\ stream[s] \in StreamRow /\ w \in Seq(Sent) /\ x \in {0, 1} /\ StreamSound(s, stream[s], w, x)
    BY <1>1 DEF StreamsInv, StreamsTyped
  <2>2. /\ j \in StreamRow /\ j.at = stream[s].at /\ j.user = stream[s].user /\ j.done = stream[s].done /\ j.events = stream[s].events
        /\ j.held = stream[s].held
    BY <2>1 DEF StreamRow
  <2>3. stream' = [stream EXCEPT ![s] = j] /\ written' = [written EXCEPT ![s] = w] /\ unseen' = [unseen EXCEPT ![s] = x]
    BY <1>1, <2>1 DEF StreamsInv, StreamsTyped
  <2> HIDE DEF j
  <2>4. /\ InOrder(j, w) /\ AllBehind(s, j, w, publish) /\ Len(j.events) <= BufferSize /\ (Holding(j) => j.held \in Sent)
        /\ (j.at = "write" /\ x = 1 => Stream!Allowed(j.user, j.held.channel))
    BY <2>1, <2>2 DEF StreamSound, InOrder, AllBehind, Holding
  <2>5. publish' \in [Publishers -> Published] /\ PublishSound' /\ BehindStays /\ AllBehind(s, j, w, publish')
    BY <1>1, <2>4 DEF StreamsInv, StreamsTyped, PublishSound, BehindStays, Behind, AllBehind
  <2> HIDE DEF s, w, x
  <2> QED BY <1>1, <2>1, <2>2, <2>3, <2>4, <2>5, StreamGoes
<1>2. CASE Stream!AddChannel(u, c)
  <2> DEFINE C == stream[subscribers[u]].channels \cup {c}
  <2>1. subscribers[u] # Nil /\ UNCHANGED <<subscribers, sight, publish, written, unseen>> /\ stream' = [stream EXCEPT ![subscribers[u]].channels = C]
    BY <1>2 DEF Stream!AddChannel, StreamsInv, StreamsTyped
  <2>2. C \in SUBSET Channels
    <3>1. stream[subscribers[u]] \in StreamRow
      BY <2>1 DEF StreamsInv, StreamsTyped
    <3> QED BY <3>1 DEF StreamRow
  <2> HIDE DEF C
  <2> QED BY <1>1, <2>1, <2>2
<1>3. CASE Stream!RemoveChannel(u, c)
  <2> DEFINE C == stream[subscribers[u]].channels \ {c}
  <2>1. subscribers[u] # Nil /\ UNCHANGED <<subscribers, sight, publish, written, unseen>> /\ stream' = [stream EXCEPT ![subscribers[u]].channels = C]
    BY <1>3 DEF Stream!RemoveChannel, StreamsInv, StreamsTyped
  <2>2. C \in SUBSET Channels
    <3>1. stream[subscribers[u]] \in StreamRow
      BY <2>1 DEF StreamsInv, StreamsTyped
    <3> QED BY <3>1 DEF StreamRow
  <2> HIDE DEF C
  <2> QED BY <1>1, <2>1, <2>2
<1>4. CASE Stream!ChangeSight(u, c)
  <2>1. UNCHANGED <<subscribers, stream, publish, written>> /\ unseen' = [s \in Streams |-> 0] /\ sight' \subseteq Clients \X Channels
    BY <1>4 DEF Stream!ChangeSight, StreamsInv, StreamsTyped
  <2>2. StreamsTyped' /\ MapSound' /\ PublishSound'
    BY <2>1 DEF StreamsInv, StreamsTyped, MapSound, PublishSound, InMap
  <2>3. ASSUME NEW s \in Streams PROVE StreamSound(s, stream[s], written[s], unseen[s])'
    <3>1. unseen'[s] = 0 /\ StreamSound(s, stream[s], written[s], unseen[s])
      BY <2>1 DEF StreamsInv
    <3> QED BY <2>1, <3>1 DEF StreamSound
  <2> QED BY <2>2, <2>3 DEF StreamsInv
<1> QED BY <1>2, <1>3, <1>4

\* A publisher takes the subscribers.
LEMMA StreamsPublish ==
  ASSUME Stream!StreamsConstants, StreamsInv, NEW p \in Publishers, NEW c \in Channels, Stream!Publish(p, c) PROVE StreamsInv'
<1> DEFINE L == {s \in Streams : \E u \in Clients : subscribers[u] = s /\ c \in stream[s].channels}
           m == [n |-> publish[p].n + 1, channel |-> c, left |-> L]
<1>0. publish[p].n \in 0..MaxEvents /\ MaxEvents \in Nat /\ publish \in [Publishers -> Published]
  BY DEF StreamsInv, StreamsTyped, Published, Stream!StreamsConstants
<1>1. publish[p].left = {} /\ publish[p].n < MaxEvents /\ publish' = [publish EXCEPT ![p] = m] /\ UNCHANGED <<subscribers, stream, sight, written, unseen>>
  BY DEF Stream!Publish
<1>2. m.n \in 0..MaxEvents /\ m.n >= 1 /\ m.n > publish[p].n
  BY <1>0, <1>1
<1>3. m \in Published /\ m.channel = c
  <2> HIDE DEF L
  <2>1. L \subseteq Streams
    BY DEF L
  <2> QED BY <1>0, <1>1, <2>1 DEF Published
<1> HIDE DEF m
<1>4. publish' \in [Publishers -> Published] /\ publish'[p] = m /\ \A q \in Publishers : q # p => publish'[q] = publish[q]
  BY <1>0, <1>1, <1>3
<1>5. StreamsTyped' /\ MapSound' /\ PublishSound'
  BY <1>1, <1>2, <1>3, <1>4 DEF StreamsInv, StreamsTyped, MapSound, InMap, PublishSound
<1>6. BehindStays
  <2>1. ASSUME NEW t \in Streams, NEW e \in Sent, Behind(t, e, publish) PROVE Behind(t, e, publish')
    <3>1. e.by \in Publishers /\ e.n \in Nat
      BY DEF Sent, Stream!Events, Stream!StreamsConstants
    <3>2. CASE e.by = p
      <4>1. e.n <= publish[p].n
        BY <2>1, <3>2 DEF Behind
      <4>2. e.n <= m.n /\ e.n < m.n
        BY <1>0, <1>2, <3>1, <4>1
      <4> QED BY <1>4, <3>2, <4>2 DEF Behind
    <3>3. CASE e.by # p
      BY <1>4, <2>1, <3>1, <3>3 DEF Behind
    <3> QED BY <3>2, <3>3
  <2> QED BY <2>1 DEF BehindStays, Behind
<1>7. ASSUME NEW s \in Streams PROVE StreamSound(s, stream[s], written[s], unseen[s])'
  <2>1. StreamSound(s, stream[s], written[s], unseen[s]) /\ stream[s] \in StreamRow /\ written[s] \in Seq(Sent)
    BY DEF StreamsInv, StreamsTyped
  <2>2. AllBehind(s, stream[s], written[s], publish')
    BY <1>6, <2>1, AllStayBehind DEF StreamSound
  <2>3. \A u, d : Stream!Allowed(u, d)' <=> Stream!Allowed(u, d)
    BY <1>1 DEF Stream!Allowed
  <2> QED BY <1>1, <2>1, <2>2, <2>3 DEF StreamSound
<1> QED BY <1>5, <1>7 DEF StreamsInv

\* The head and the tail of a buffer, and a buffer with one more.
LEMMA TakesHead ==
  ASSUME NEW S, NEW q \in Seq(S), q # <<>>
  PROVE  /\ Head(q) = q[1] /\ 1 \in DOMAIN q /\ Head(q) \in S /\ Tail(q) \in Seq(S) /\ Len(Tail(q)) <= Len(q)
         /\ \A i \in DOMAIN Tail(q) : Tail(q)[i] = q[i + 1] /\ i + 1 \in DOMAIN q /\ 1 < i + 1 /\ i \in Nat
<1>1. Len(q) \in Nat /\ Len(q) # 0 /\ DOMAIN q = 1..Len(q)
  BY EmptySeq
<1>2. Head(q) = q[1] /\ 1 \in DOMAIN q /\ q[1] \in S
  BY <1>1
<1>3. Tail(q) \in Seq(S) /\ Len(Tail(q)) = Len(q) - 1 /\ \A i \in 1..(Len(q) - 1) : Tail(q)[i] = q[i + 1]
  BY HeadTailProperties, <1>1
<1>4. DOMAIN Tail(q) = 1..(Len(q) - 1)
  BY <1>3
<1> QED BY <1>1, <1>2, <1>3, <1>4

LEMMA TakesOne ==
  ASSUME NEW S, NEW q \in Seq(S), NEW e \in S
  PROVE  /\ Append(q, e) \in Seq(S) /\ Len(Append(q, e)) = Len(q) + 1
         /\ \A i \in DOMAIN Append(q, e) : (i \in DOMAIN q /\ Append(q, e)[i] = q[i] /\ i < Len(q) + 1) \/ (i = Len(q) + 1 /\ Append(q, e)[i] = e)
<1>1. Len(q) \in Nat /\ DOMAIN q = 1..Len(q)
  OBVIOUS
<1>2. Append(q, e) \in Seq(S) /\ Len(Append(q, e)) = Len(q) + 1 /\ DOMAIN Append(q, e) = 1..(Len(q) + 1)
  OBVIOUS
<1>3. (\A i \in 1..Len(q) : Append(q, e)[i] = q[i]) /\ Append(q, e)[Len(q) + 1] = e
  OBVIOUS
<1>4. ASSUME NEW i \in 1..(Len(q) + 1) PROVE (i \in 1..Len(q) /\ i < Len(q) + 1) \/ i = Len(q) + 1
  BY <1>1
<1> QED BY <1>1, <1>2, <1>3, <1>4

\* A publisher sends to one stream, or loses the event for it.
LEMMA StreamsDeliver ==
  ASSUME Stream!StreamsConstants, StreamsInv, NEW p \in Publishers, NEW s \in Streams, NEW sent \in BOOLEAN, Stream!Deliver(p, s, sent)
  PROVE  StreamsInv'
<1> DEFINE e == [by |-> p, n |-> publish[p].n, channel |-> publish[p].channel]
           L == publish[p].left \ {s}
           m == [publish[p] EXCEPT !.left = L]
           w == written[s]
           x == unseen[s]
           q == stream[s].events
           r == Append(q, e)
           j == [stream[s] EXCEPT !.events = r]
<1>0. /\ publish \in [Publishers -> Published] /\ publish[p] \in Published /\ stream[s] \in StreamRow /\ w \in Seq(Sent) /\ x \in {0, 1}
      /\ StreamSound(s, stream[s], w, x) /\ MaxEvents \in Nat /\ BufferSize \in Nat /\ stream \in [Streams -> StreamRow]
      /\ written \in [Streams -> Seq(Sent)] /\ unseen \in [Streams -> {0, 1}]
  BY DEF StreamsInv, StreamsTyped, Stream!StreamsConstants
<1>1. /\ s \in publish[p].left /\ publish' = [publish EXCEPT ![p] = m] /\ UNCHANGED <<subscribers, sight, written, unseen>>
      /\ stream' = (IF sent THEN [stream EXCEPT ![s] = j] ELSE stream) /\ (sent => Len(q) < BufferSize)
  BY <1>0 DEF Stream!Deliver
<1>2. m \in Published /\ m.n = publish[p].n /\ m.channel = publish[p].channel /\ m.left = L
  BY <1>0 DEF Published
<1>3. publish[p].n >= 1 /\ publish[p].channel \in Channels
  BY <1>1 DEF StreamsInv, PublishSound
<1>4. e \in Sent /\ e.by = p /\ e.n = publish[p].n
  <2>1. publish[p].n \in 1..MaxEvents
    BY <1>0, <1>3 DEF Published
  <2> QED BY <1>3, <2>1 DEF Sent, Stream!Events
<1>5. publish' \in [Publishers -> Published] /\ publish'[p] = m /\ \A o \in Publishers : o # p => publish'[o] = publish[o]
  <2> HIDE DEF m
  <2> QED BY <1>0, <1>1, <1>2
<1> HIDE DEF m, e
<1>6. PublishSound'
  BY <1>2, <1>3, <1>5 DEF StreamsInv, PublishSound
<1>7. ASSUME NEW t \in Streams, NEW d \in Sent, Behind(t, d, publish) PROVE Behind(t, d, publish')
  <2>1. d.by \in Publishers
    BY DEF Sent, Stream!Events
  <2> QED BY <1>2, <1>5, <1>7, <2>1 DEF Behind
<1>8. BehindStays
  BY <1>7 DEF BehindStays, Behind
<1>9. CASE ~sent
  <2> DEFINE k == stream[s]
  <2>1. stream' = [stream EXCEPT ![s] = k] /\ written' = [written EXCEPT ![s] = w] /\ unseen' = [unseen EXCEPT ![s] = x]
    BY <1>0, <1>1, <1>9
  <2>2. /\ InOrder(k, w) /\ AllBehind(s, k, w, publish) /\ Len(k.events) <= BufferSize /\ (Holding(k) => k.held \in Sent)
        /\ (k.at = "write" /\ x = 1 => Stream!Allowed(k.user, k.held.channel))
    BY <1>0 DEF StreamSound
  <2>3. AllBehind(s, k, w, publish')
    BY <1>0, <1>8, <2>2, AllStayBehind
  <2>4. k.user = stream[s].user /\ k.done = stream[s].done /\ (k.at \in Runs <=> stream[s].at \in Runs) /\ k \in StreamRow
    BY <1>0
  <2> HIDE DEF k, w, x
  <2> QED BY <1>0, <1>1, <1>5, <1>6, <1>8, <2>1, <2>2, <2>3, <2>4, StreamGoes
<1>10. CASE sent
  <2>1. stream' = [stream EXCEPT ![s] = j] /\ written' = [written EXCEPT ![s] = w] /\ unseen' = [unseen EXCEPT ![s] = x]
    BY <1>0, <1>1, <1>10
  <2>2. q \in Seq(Sent)
    BY <1>0 DEF StreamRow
  <2> DEFINE S == Sent
  <2>3. q \in Seq(S) /\ e \in S
    BY <1>4, <2>2
  <2> HIDE DEF q, S
  <2>4. /\ r \in Seq(S) /\ Len(r) = Len(q) + 1
        /\ \A i \in DOMAIN r : (i \in DOMAIN q /\ r[i] = q[i] /\ i < Len(q) + 1) \/ (i = Len(q) + 1 /\ r[i] = e)
    BY <2>3, TakesOne
  <2>5. Len(r) <= BufferSize
    <3>1. Len(q) \in Nat
      BY <2>3
    <3> QED BY <1>0, <1>1, <1>10, <2>4, <3>1
  <2> USE DEF S
  <2> HIDE DEF r
  <2>6. /\ j \in StreamRow /\ j.at = stream[s].at /\ j.user = stream[s].user /\ j.done = stream[s].done /\ j.events = r
        /\ j.held = stream[s].held
    BY <1>0, <2>4 DEF StreamRow
  <2> HIDE DEF j
  <2>7. /\ InOrder(stream[s], w) /\ AllBehind(s, stream[s], w, publish) /\ (Holding(stream[s]) => stream[s].held \in Sent)
        /\ (stream[s].at = "write" /\ x = 1 => Stream!Allowed(stream[s].user, stream[s].held.channel))
    BY <1>0 DEF StreamSound
  <2>8. ASSUME NEW d \in Sent, Behind(s, d, publish) PROVE Earlier(d, e)
    BY <1>1, <1>4, <2>8 DEF Behind, Earlier
  <2>9. InOrder(j, w)
    <3>1. \A i, k \in DOMAIN w : i < k => Earlier(w[i], w[k])
      BY <2>7 DEF InOrder
    <3>2. \A i \in DOMAIN w : w[i] \in Sent /\ Behind(s, w[i], publish)
      BY <1>0, <2>7 DEF AllBehind
    <3>3. \A i \in DOMAIN q : q[i] \in Sent /\ Behind(s, q[i], publish)
      <4>1. \A i \in DOMAIN q : Behind(s, q[i], publish)
        BY <2>7 DEF AllBehind, q
      <4>2. \A i \in DOMAIN q : q[i] \in Sent
        <5> HIDE DEF Sent
        <5> QED BY <2>2
      <4> QED BY <4>1, <4>2
    <3>4. \A i \in DOMAIN w, k \in DOMAIN r : Earlier(w[i], r[k])
      <4>1. \A i \in DOMAIN w, k \in DOMAIN q : Earlier(w[i], q[k])
        BY <2>7 DEF InOrder, q
      <4> QED BY <2>4, <2>8, <3>2, <4>1
    <3>5. ASSUME NEW i \in DOMAIN r, NEW k \in DOMAIN r, i < k PROVE Earlier(r[i], r[k])
      <4>1. \A a, b \in DOMAIN q : a < b => Earlier(q[a], q[b])
        BY <2>7 DEF InOrder, q
      <4>2. Len(q) \in Nat /\ DOMAIN q = 1..Len(q) /\ DOMAIN r = 1..Len(r)
        BY <2>3, <2>4
      <4>3. i \in DOMAIN q /\ r[i] = q[i]
        <5>1. i # Len(q) + 1
          BY <2>4, <3>5, <4>2
        <5> QED BY <2>4, <5>1
      <4>4. Earlier(q[i], e)
        BY <2>8, <3>3, <4>3
      <4> QED BY <2>4, <3>5, <4>1, <4>3, <4>4
    <3>6. Holding(j) => (\A i \in DOMAIN w : Earlier(w[i], j.held)) /\ \A k \in DOMAIN r : Earlier(j.held, r[k])
      <4>1. Holding(j) <=> Holding(stream[s])
        BY <2>6 DEF Holding
      <4>2. Holding(j) => (\A i \in DOMAIN w : Earlier(w[i], j.held)) /\ (\A k \in DOMAIN q : Earlier(j.held, q[k])) /\ Earlier(j.held, e)
        BY <2>6, <2>7, <2>8, <4>1 DEF InOrder, AllBehind, q
      <4> QED BY <2>4, <4>2
    <3> QED BY <2>6, <3>1, <3>4, <3>5, <3>6 DEF InOrder
  <2>10. AllBehind(s, j, w, publish')
    <3>1. AllBehind(s, stream[s], w, publish')
      BY <1>0, <1>8, <2>7, AllStayBehind
    <3>2. Behind(s, e, publish')
      <4>1. e.n \in Nat
        BY <1>0, <1>4 DEF Published
      <4> QED BY <1>2, <1>4, <1>5, <4>1 DEF Behind
    <3>3. \A k \in DOMAIN r : Behind(s, r[k], publish')
      <4>1. \A k \in DOMAIN q : Behind(s, q[k], publish')
        BY <3>1 DEF AllBehind, q
      <4> QED BY <2>4, <3>2, <4>1
    <3> QED BY <2>6, <3>1, <3>3 DEF AllBehind, Holding
  <2>11. /\ (Holding(j) => j.held \in Sent) /\ (j.at = "write" /\ x = 1 => Stream!Allowed(j.user, j.held.channel))
         /\ (j.at \in Runs <=> stream[s].at \in Runs) /\ Len(j.events) <= BufferSize
    BY <2>5, <2>6, <2>7 DEF Holding
  <2> HIDE DEF w, x
  <2> QED BY <1>0, <1>1, <1>5, <1>6, <1>8, <2>1, <2>6, <2>9, <2>10, <2>11, StreamGoes
<1> QED BY <1>9, <1>10

\* The same for a step that is not a publisher's.
LEMMA StreamGoesOn ==
  ASSUME StreamsInv, NEW s \in Streams, NEW j \in StreamRow, NEW w \in Seq(Sent), NEW x \in {0, 1},
         stream' = [stream EXCEPT ![s] = j], written' = [written EXCEPT ![s] = w], unseen' = [unseen EXCEPT ![s] = x],
         UNCHANGED <<subscribers, sight, publish>>,
         j.user = stream[s].user /\ j.done = stream[s].done /\ (j.at \in Runs <=> stream[s].at \in Runs),
         InOrder(j, w), AllBehind(s, j, w, publish), Len(j.events) <= BufferSize, Holding(j) => j.held \in Sent,
         j.at = "write" /\ x = 1 => Stream!Allowed(j.user, j.held.channel)
  PROVE  StreamsInv'
<1>1. publish' \in [Publishers -> Published] /\ PublishSound' /\ BehindStays /\ AllBehind(s, j, w, publish')
  BY DEF StreamsInv, StreamsTyped, PublishSound, BehindStays, Behind, AllBehind
<1> QED BY <1>1, StreamGoes

\* The stream's loop: it takes an event, checks it once more, writes it, or
\* its client goes.
LEMMA StreamsTake == ASSUME Stream!StreamsConstants, StreamsInv, NEW s \in Streams, Stream!Take(s) PROVE StreamsInv'
<1> DEFINE q == stream[s].events
           j == [stream[s] EXCEPT !.at = "check", !.held = Head(q), !.events = Tail(q)]
           w == written[s]
           x == unseen[s]
<1>0. /\ stream[s] \in StreamRow /\ w \in Seq(Sent) /\ x \in {0, 1} /\ StreamSound(s, stream[s], w, x) /\ BufferSize \in Nat
      /\ stream \in [Streams -> StreamRow] /\ written \in [Streams -> Seq(Sent)] /\ unseen \in [Streams -> {0, 1}]
  BY DEF StreamsInv, StreamsTyped, Stream!StreamsConstants
<1>1. stream[s].at = "open" /\ q # <<>> /\ stream' = [stream EXCEPT ![s] = j] /\ UNCHANGED <<subscribers, sight, publish, written, unseen>>
  BY <1>0 DEF Stream!Take
<1>2. q \in Seq(Sent)
  BY <1>0 DEF StreamRow
<1>3. /\ Head(q) = q[1] /\ 1 \in DOMAIN q /\ Head(q) \in Sent /\ Tail(q) \in Seq(Sent) /\ Len(Tail(q)) <= Len(q)
      /\ \A i \in DOMAIN Tail(q) : Tail(q)[i] = q[i + 1] /\ i + 1 \in DOMAIN q /\ 1 < i + 1 /\ i \in Nat
  <2> DEFINE S == Sent
  <2>1. q \in Seq(S) /\ q # <<>>
    BY <1>1, <1>2
  <2> HIDE DEF q, S
  <2>2. /\ Head(q) = q[1] /\ 1 \in DOMAIN q /\ Head(q) \in S /\ Tail(q) \in Seq(S) /\ Len(Tail(q)) <= Len(q)
        /\ \A i \in DOMAIN Tail(q) : Tail(q)[i] = q[i + 1] /\ i + 1 \in DOMAIN q /\ 1 < i + 1 /\ i \in Nat
    BY <2>1, TakesHead
  <2> QED BY <2>2 DEF S
<1> DEFINE h == Head(q)
           r == Tail(q)
<1>4. h = q[1] /\ 1 \in DOMAIN q /\ h \in Sent /\ r \in Seq(Sent) /\ Len(r) <= Len(q)
  BY <1>3
<1>5. \A i \in DOMAIN r : r[i] = q[i + 1] /\ i + 1 \in DOMAIN q /\ 1 < i + 1 /\ i \in Nat
  BY <1>3
<1> HIDE DEF h, r
<1>6. /\ j \in StreamRow /\ j.at = "check" /\ j.user = stream[s].user /\ j.done = stream[s].done /\ j.events = r /\ j.held = h
  <2> HIDE DEF q
  <2>1. [stream[s] EXCEPT !.at = "check", !.held = h, !.events = r] \in StreamRow
    BY <1>0, <1>4 DEF StreamRow
  <2> QED BY <1>0, <2>1 DEF StreamRow, h, r
<1> HIDE DEF j
<1>7. InOrder(stream[s], w) /\ AllBehind(s, stream[s], w, publish) /\ Len(q) <= BufferSize
  BY <1>0 DEF StreamSound
<1>8. InOrder(j, w)
  <2>1. /\ \A i, k \in DOMAIN w : i < k => Earlier(w[i], w[k])
        /\ \A i \in DOMAIN w, k \in DOMAIN q : Earlier(w[i], q[k])
        /\ \A i, k \in DOMAIN q : i < k => Earlier(q[i], q[k])
    BY <1>7 DEF InOrder
  <2> HIDE DEF q, w
  <2>2. \A i \in DOMAIN w, k \in DOMAIN r : Earlier(w[i], r[k])
    BY <1>5, <2>1
  <2>3. ASSUME NEW i \in DOMAIN r, NEW k \in DOMAIN r, i < k PROVE Earlier(r[i], r[k])
    <3>1. i + 1 < k + 1
      BY <1>5, <2>3
    <3> QED BY <1>5, <2>1, <3>1
  <2>4. (\A i \in DOMAIN w : Earlier(w[i], h)) /\ \A k \in DOMAIN r : Earlier(h, r[k])
    BY <1>4, <1>5, <2>1
  <2> QED BY <1>6, <2>1, <2>2, <2>3, <2>4 DEF InOrder
<1>9. AllBehind(s, j, w, publish)
  <2>1. (\A i \in DOMAIN w : Behind(s, w[i], publish)) /\ \A k \in DOMAIN q : Behind(s, q[k], publish)
    BY <1>7 DEF AllBehind
  <2> HIDE DEF q, w
  <2> QED BY <1>4, <1>5, <1>6, <2>1 DEF AllBehind
<1>10. Len(j.events) <= BufferSize
  <2>1. Len(q) \in Nat /\ Len(r) \in Nat
    BY <1>2, <1>4
  <2> QED BY <1>0, <1>4, <1>6, <1>7, <2>1
<1>11. (Holding(j) => j.held \in Sent) /\ j.at # "write" /\ (j.at \in Runs <=> stream[s].at \in Runs)
  BY <1>1, <1>4, <1>6 DEF Runs
<1>12. written' = [written EXCEPT ![s] = w] /\ unseen' = [unseen EXCEPT ![s] = x]
  BY <1>0, <1>1
<1> HIDE DEF w, x
<1> QED BY <1>0, <1>1, <1>6, <1>8, <1>9, <1>10, <1>11, <1>12, StreamGoesOn

LEMMA StreamsCheck == ASSUME Stream!StreamsConstants, StreamsInv, NEW s \in Streams, Stream!CanDeliver(s) \/ Stream!Leave(s) PROVE StreamsInv'
<1> DEFINE w == written[s]
           x == unseen[s]
<1>0. /\ stream[s] \in StreamRow /\ w \in Seq(Sent) /\ x \in {0, 1} /\ StreamSound(s, stream[s], w, x)
      /\ stream \in [Streams -> StreamRow] /\ written \in [Streams -> Seq(Sent)] /\ unseen \in [Streams -> {0, 1}]
  BY DEF StreamsInv, StreamsTyped
<1>1. UNCHANGED <<subscribers, sight, publish, written, unseen>> /\ stream[s].at \in {"check", "open"}
  BY DEF Stream!CanDeliver, Stream!Leave
<1>2. PICK j \in StreamRow :
        /\ stream' = [stream EXCEPT ![s] = j] /\ j.user = stream[s].user /\ j.done = stream[s].done /\ j.events = stream[s].events
        /\ j.at \in {"write", "open", "leave"}
        /\ j.at = "write" => Holding(stream[s]) /\ j.held = stream[s].held /\ Stream!Allowed(j.user, j.held.channel)
  <2> DEFINE P(j) == /\ stream' = [stream EXCEPT ![s] = j] /\ j.user = stream[s].user /\ j.done = stream[s].done /\ j.events = stream[s].events
                     /\ j.at \in {"write", "open", "leave"}
                     /\ j.at = "write" => Holding(stream[s]) /\ j.held = stream[s].held /\ Stream!Allowed(j.user, j.held.channel)
  <2>1. CASE Stream!Leave(s)
    <3> DEFINE j1 == [stream[s] EXCEPT !.at = "leave"]
    <3>1. stream' = [stream EXCEPT ![s] = j1]
      BY <1>0, <2>1 DEF Stream!Leave
    <3>2. j1 \in StreamRow /\ j1.at = "leave" /\ j1.user = stream[s].user /\ j1.done = stream[s].done /\ j1.events = stream[s].events
      BY <1>0 DEF StreamRow
    <3> QED BY <3>1, <3>2
  <2>2. CASE Stream!CanDeliver(s) /\ Stream!Allowed(stream[s].user, stream[s].held.channel)
    <3> DEFINE j1 == [stream[s] EXCEPT !.at = "write"]
    <3>1. stream' = [stream EXCEPT ![s] = j1] /\ Holding(stream[s])
      BY <1>0, <2>2 DEF Stream!CanDeliver, Holding
    <3>2. /\ j1 \in StreamRow /\ j1.at = "write" /\ j1.user = stream[s].user /\ j1.done = stream[s].done /\ j1.events = stream[s].events
          /\ j1.held = stream[s].held
      BY <1>0 DEF StreamRow
    <3> QED BY <2>2, <3>1, <3>2
  <2>3. CASE Stream!CanDeliver(s) /\ ~Stream!Allowed(stream[s].user, stream[s].held.channel)
    <3> DEFINE j1 == [stream[s] EXCEPT !.at = "open", !.held = Nil]
    <3>1. stream' = [stream EXCEPT ![s] = j1]
      BY <1>0, <2>3 DEF Stream!CanDeliver
    <3>2. j1 \in StreamRow /\ j1.at = "open" /\ j1.user = stream[s].user /\ j1.done = stream[s].done /\ j1.events = stream[s].events
      BY <1>0 DEF StreamRow
    <3> QED BY <3>1, <3>2
  <2> QED BY <2>1, <2>2, <2>3
<1>3. /\ InOrder(stream[s], w) /\ AllBehind(s, stream[s], w, publish) /\ Len(stream[s].events) <= BufferSize
      /\ (Holding(stream[s]) => stream[s].held \in Sent)
  BY <1>0 DEF StreamSound
<1>4. Holding(j) => j.at = "write" /\ Holding(stream[s]) /\ j.held = stream[s].held
  BY <1>2 DEF Holding
<1>5. InOrder(j, w) /\ AllBehind(s, j, w, publish) /\ Len(j.events) <= BufferSize /\ (Holding(j) => j.held \in Sent)
  BY <1>2, <1>3, <1>4 DEF InOrder, AllBehind
<1>6. j.at \in Runs <=> stream[s].at \in Runs
  BY <1>1, <1>2 DEF Runs
<1>7. written' = [written EXCEPT ![s] = w] /\ unseen' = [unseen EXCEPT ![s] = x]
  BY <1>0, <1>1
<1> HIDE DEF w, x
<1> QED BY <1>0, <1>1, <1>2, <1>5, <1>6, <1>7, StreamGoesOn

LEMMA StreamsWrite == ASSUME Stream!StreamsConstants, StreamsInv, NEW s \in Streams, Stream!Write(s) PROVE StreamsInv'
<1> DEFINE h == stream[s].held
           w == written[s]
           v == Append(w, h)
           x == unseen[s]
           y == IF Stream!Allowed(stream[s].user, h.channel) THEN x ELSE x + 1
           j == [stream[s] EXCEPT !.at = "open", !.held = Nil]
<1>0. /\ stream[s] \in StreamRow /\ w \in Seq(Sent) /\ x \in {0, 1} /\ StreamSound(s, stream[s], w, x)
      /\ stream \in [Streams -> StreamRow] /\ written \in [Streams -> Seq(Sent)] /\ unseen \in [Streams -> {0, 1}]
  BY DEF StreamsInv, StreamsTyped
<1>1. /\ stream[s].at = "write" /\ UNCHANGED <<subscribers, sight, publish>>
      /\ stream' = [stream EXCEPT ![s] = j] /\ written' = [written EXCEPT ![s] = v] /\ unseen' = [unseen EXCEPT ![s] = y]
  BY <1>0 DEF Stream!Write
<1>2. Holding(stream[s]) /\ h \in Sent /\ (x = 1 => Stream!Allowed(stream[s].user, h.channel))
  BY <1>0, <1>1 DEF StreamSound, Holding
<1>3. y \in {0, 1}
  BY <1>0, <1>2
<1>4. /\ j \in StreamRow /\ j.at = "open" /\ j.user = stream[s].user /\ j.done = stream[s].done /\ j.events = stream[s].events
  BY <1>0 DEF StreamRow
<1> HIDE DEF j, y
<1>5. InOrder(stream[s], w) /\ AllBehind(s, stream[s], w, publish) /\ Len(stream[s].events) <= BufferSize
  BY <1>0 DEF StreamSound
<1> DEFINE q == stream[s].events
<1>6. /\ \A i, k \in DOMAIN w : i < k => Earlier(w[i], w[k])
      /\ \A i \in DOMAIN w, k \in DOMAIN q : Earlier(w[i], q[k])
      /\ \A i, k \in DOMAIN q : i < k => Earlier(q[i], q[k])
      /\ \A i \in DOMAIN w : Earlier(w[i], h)
      /\ \A k \in DOMAIN q : Earlier(h, q[k])
  BY <1>2, <1>5 DEF InOrder
<1>7. (\A i \in DOMAIN w : Behind(s, w[i], publish)) /\ (\A k \in DOMAIN q : Behind(s, q[k], publish)) /\ Behind(s, h, publish)
  BY <1>2, <1>5 DEF AllBehind
<1>8. /\ v \in Seq(Sent) /\ Len(v) = Len(w) + 1
      /\ \A i \in DOMAIN v : (i \in DOMAIN w /\ v[i] = w[i] /\ i < Len(w) + 1) \/ (i = Len(w) + 1 /\ v[i] = h)
  <2> DEFINE S == Sent
  <2>1. w \in Seq(S) /\ h \in S
    BY <1>0, <1>2
  <2> HIDE DEF w, h, S
  <2>2. /\ v \in Seq(S) /\ Len(v) = Len(w) + 1
        /\ \A i \in DOMAIN v : (i \in DOMAIN w /\ v[i] = w[i] /\ i < Len(w) + 1) \/ (i = Len(w) + 1 /\ v[i] = h)
    BY <2>1, TakesOne
  <2> QED BY <2>2 DEF S
<1>9. Len(w) \in Nat /\ DOMAIN w = 1..Len(w) /\ DOMAIN v = 1..Len(v)
  <2> DEFINE S == Sent
  <2>1. w \in Seq(S) /\ v \in Seq(S)
    BY <1>0, <1>8
  <2> HIDE DEF w, v, S
  <2> QED BY <2>1
<1> HIDE DEF v, w, h, q
<1>10. InOrder(j, v)
  <2>1. ASSUME NEW i \in DOMAIN v, NEW k \in DOMAIN v, i < k PROVE Earlier(v[i], v[k])
    <3>1. i # Len(w) + 1
      BY <1>8, <1>9, <2>1
    <3> QED BY <1>6, <1>8, <2>1, <3>1
  <2>2. \A i \in DOMAIN v, k \in DOMAIN q : Earlier(v[i], q[k])
    BY <1>6, <1>8
  <2> QED BY <1>4, <1>6, <2>1, <2>2 DEF InOrder, Holding, q
<1>11. AllBehind(s, j, v, publish)
  BY <1>4, <1>7, <1>8 DEF AllBehind, Holding, q
<1>12. (Holding(j) => j.held \in Sent) /\ j.at # "write" /\ (j.at \in Runs <=> stream[s].at \in Runs) /\ Len(j.events) <= BufferSize
  BY <1>1, <1>4, <1>5 DEF Runs, Holding
<1> QED BY <1>0, <1>1, <1>3, <1>4, <1>8, <1>10, <1>11, <1>12, StreamGoesOn

\* A step that changes who is in the map, whose stream is closed and which one
\* starts or ends.
LEMMA StreamsRemap ==
  ASSUME StreamsInv, UNCHANGED <<sight, publish, written, unseen>>, stream' \in [Streams -> StreamRow],
         subscribers' \in [Clients -> Streams \cup {Nil}], MapSound',
         \A t \in Streams :
           /\ stream'[t].events = stream[t].events
           /\ Holding(stream'[t]) => stream'[t].at = stream[t].at /\ stream'[t].held = stream[t].held /\ stream'[t].user = stream[t].user
           /\ stream'[t].at \in Runs => stream'[t].user \in Clients /\ (~stream'[t].done => subscribers'[stream'[t].user] = t)
  PROVE  StreamsInv'
<1>1. StreamsTyped' /\ PublishSound'
  BY DEF StreamsInv, StreamsTyped, PublishSound
<1>2. ASSUME NEW t \in Streams PROVE StreamSound(t, stream[t], written[t], unseen[t])'
  <2> DEFINE w == written[t]
             k == stream[t]
  <2>1. PICK j \in StreamRow : j = stream'[t]
    OBVIOUS
  <2>2. StreamSound(t, k, w, unseen[t])
    BY DEF StreamsInv
  <2>3. /\ j.events = k.events /\ (Holding(j) => j.at = k.at /\ j.held = k.held /\ j.user = k.user)
        /\ (j.at \in Runs => j.user \in Clients /\ (~j.done => subscribers'[j.user] = t))
    BY <2>1
  <2> HIDE DEF w, k
  <2>4. Holding(j) => Holding(k)
    BY <2>3 DEF Holding
  <2>5. InOrder(j, w) /\ AllBehind(t, j, w, publish) /\ Len(j.events) <= BufferSize /\ (Holding(j) => j.held \in Sent)
    BY <2>2, <2>3, <2>4 DEF StreamSound, InOrder, AllBehind
  <2>6. j.at = "write" /\ unseen[t] = 1 => Stream!Allowed(j.user, j.held.channel)
    BY <2>2, <2>3 DEF StreamSound, Holding
  <2>7. \A u, c : Stream!Allowed(u, c)' <=> Stream!Allowed(u, c)
    BY DEF Stream!Allowed
  <2>8. StreamSound(t, j, w, unseen[t])'
    <3>1. AllBehind(t, j, w, publish')
      BY <2>5 DEF AllBehind, Behind
    <3>2. w' = w /\ unseen'[t] = unseen[t]
      BY DEF w
    <3> QED BY <2>3, <2>5, <2>6, <2>7, <3>1, <3>2 DEF StreamSound
  <2> QED BY <2>1, <2>8 DEF w
<1> QED BY <1>1, <1>2 DEF StreamsInv

LEMMA StreamsSubscribe ==
  ASSUME Stream!StreamsConstants, StreamsInv, NEW s \in Streams, NEW u \in Clients, NEW cs \in SUBSET Channels, Stream!Subscribe(s, u, cs)
  PROVE  StreamsInv'
<1> DEFINE o == subscribers[u]
           C == {c \in cs : <<u, c>> \in sight}
           b == Stream!Off
           j == [b EXCEPT !.at = "open", !.user = u, !.channels = C]
           z == [stream[o] EXCEPT !.done = TRUE]
<1>0. /\ stream \in [Streams -> StreamRow] /\ subscribers \in [Clients -> Streams \cup {Nil}] /\ o \in Streams \cup {Nil}
      /\ Nil \notin Streams /\ MaxSubscribers \in Nat
  BY DEF StreamsInv, StreamsTyped, Stream!StreamsConstants
<1>1. /\ stream[s] = Stream!Off /\ Cardinality(InMap) < MaxSubscribers /\ subscribers' = [subscribers EXCEPT ![u] = s]
      /\ stream' = [(IF o = Nil THEN stream ELSE [stream EXCEPT ![o] = z]) EXCEPT ![s] = j]
      /\ UNCHANGED <<sight, publish, written, unseen>>
  <2>1. Cardinality(InMap) < MaxSubscribers
    <3>1. Stream!Cardinality({v \in Clients : subscribers[v] # Nil}) < MaxSubscribers
      BY DEF Stream!Subscribe
    <3> QED BY <3>1 DEF InMap, Stream!Cardinality, Cardinality
  <2>2. o # Nil => Stream!Closed(o) = [stream EXCEPT ![o] = z]
    BY <1>0 DEF Stream!Closed
  <2> QED BY <2>1, <2>2 DEF Stream!Subscribe
<1>2. /\ j \in StreamRow /\ j.at = "open" /\ j.user = u /\ ~j.done /\ j.events = <<>>
      /\ stream[s].at = "off" /\ stream[s].events = <<>>
  <2>1. C \in SUBSET Channels /\ <<>> \in Seq(Sent)
    OBVIOUS
  <2>2. b \in StreamRow /\ b.at = "off" /\ b.events = <<>> /\ b.done = FALSE
    BY <2>1 DEF StreamRow, Stream!Off
  <2> HIDE DEF C, b
  <2>3. j \in StreamRow
    BY <2>1, <2>2 DEF StreamRow
  <2>4. j.at = "open" /\ j.user = u /\ ~j.done /\ j.events = <<>>
    BY <2>2 DEF StreamRow
  <2> QED BY <1>1, <2>2, <2>3, <2>4 DEF b
<1>3. o # Nil => /\ o \in Streams /\ u \in InMap /\ stream[o].at \in Runs /\ o # s
                 /\ z \in StreamRow /\ z.at = stream[o].at /\ z.user = stream[o].user /\ z.done = TRUE /\ z.events = stream[o].events
                 /\ z.held = stream[o].held
  <2>1. o # Nil => o \in Streams /\ u \in InMap /\ stream[o].at \in Runs
    BY <1>0 DEF InMap, StreamsInv, MapSound
  <2>2. o # Nil => o # s
    BY <1>2, <2>1 DEF Runs
  <2>3. ASSUME o # Nil
        PROVE  /\ z \in StreamRow /\ z.at = stream[o].at /\ z.user = stream[o].user /\ z.done = TRUE /\ z.events = stream[o].events
               /\ z.held = stream[o].held
    <3>1. PICK k \in StreamRow : k = stream[o]
      <4> HIDE DEF StreamRow, o
      <4> QED BY <1>0, <2>1, <2>3
    <3>2. z = [k EXCEPT !.done = TRUE]
      BY <3>1
    <3> HIDE DEF z, o
    <3> QED BY <3>1, <3>2 DEF StreamRow
  <2> QED BY <2>1, <2>2, <2>3
<1> HIDE DEF j, z
<1>4. stream' \in [Streams -> StreamRow] /\ stream'[s] = j /\ \A t \in Streams \ {s} : stream'[t] = IF t = o THEN z ELSE stream[t]
  <2> HIDE DEF StreamRow, o
  <2>1. CASE o = Nil
    BY <1>0, <1>1, <1>2, <2>1
  <2>2. CASE o # Nil
    BY <1>0, <1>1, <1>2, <1>3, <2>2
  <2> QED BY <2>1, <2>2
<1>5. subscribers' \in [Clients -> Streams \cup {Nil}] /\ subscribers'[u] = s /\ \A v \in Clients : v # u => subscribers'[v] = subscribers[v]
  BY <1>0, <1>1
<1>6. MapSound'
  <2>1. InMap' = InMap \cup {u}
    BY <1>0, <1>5 DEF InMap
  <2>2. IsFiniteSet(InMap) /\ Cardinality(InMap) < MaxSubscribers
    BY <1>1 DEF StreamsInv, MapSound
  <2>3. IsFiniteSet(InMap') /\ Cardinality(InMap') <= MaxSubscribers
    <3>1. /\ IsFiniteSet(InMap \cup {u})
          /\ Cardinality(InMap \cup {u}) = IF u \in InMap THEN Cardinality(InMap) ELSE Cardinality(InMap) + 1
      BY <2>2, FS_AddElement
    <3>2. Cardinality(InMap) \in Nat
      BY <2>2, FS_CardinalityType
    <3> QED BY <1>0, <2>1, <2>2, <3>1, <3>2
  <2>4. ASSUME NEW v \in InMap'
        PROVE  stream'[subscribers'[v]].at \in Runs /\ stream'[subscribers'[v]].user = v /\ ~stream'[subscribers'[v]].done
    <3>1. CASE v = u
      BY <1>2, <1>4, <1>5, <3>1 DEF Runs
    <3>2. CASE v # u
      <4>1. v \in InMap /\ v \in Clients /\ subscribers'[v] = subscribers[v] /\ subscribers[v] \in Streams
        BY <1>0, <1>5, <2>1, <3>2 DEF InMap
      <4>2. stream[subscribers[v]].at \in Runs /\ stream[subscribers[v]].user = v /\ ~stream[subscribers[v]].done
        BY <4>1 DEF StreamsInv, MapSound
      <4>3. subscribers[v] # s
        BY <1>2, <4>2 DEF Runs
      <4>4. subscribers[v] # o
        <5>1. o # Nil => stream[o].user = u
          BY <1>3 DEF StreamsInv, MapSound
        <5> QED BY <1>0, <3>2, <4>1, <4>2, <5>1
      <4> QED BY <1>4, <4>1, <4>2, <4>3, <4>4
    <3> QED BY <3>1, <3>2
  <2> QED BY <2>3, <2>4 DEF MapSound
<1>7. ASSUME NEW t \in Streams
      PROVE  /\ stream'[t].events = stream[t].events
             /\ Holding(stream'[t]) => stream'[t].at = stream[t].at /\ stream'[t].held = stream[t].held /\ stream'[t].user = stream[t].user
             /\ stream'[t].at \in Runs => stream'[t].user \in Clients /\ (~stream'[t].done => subscribers'[stream'[t].user] = t)
  <2>1. CASE t = s
    BY <1>2, <1>4, <1>5, <2>1 DEF Holding
  <2>2. CASE t # s
    <3>1. stream'[t] = IF t = o THEN z ELSE stream[t]
      BY <1>4, <2>2
    <3>2. stream[t].at \in Runs => stream[t].user \in Clients /\ (~stream[t].done => subscribers[stream[t].user] = t)
      BY DEF StreamsInv, StreamSound
    <3>3. CASE t = o
      <4>1. o # Nil
        BY <1>0, <3>3
      <4>2. /\ stream'[t].at = stream[t].at /\ stream'[t].user = stream[t].user /\ stream'[t].done = TRUE /\ stream'[t].events = stream[t].events
            /\ stream'[t].held = stream[t].held
        BY <1>3, <3>1, <3>3, <4>1
      <4> HIDE DEF o
      <4> QED BY <3>2, <4>2
    <3>4. CASE t # o
      <4>1. stream'[t] = stream[t]
        BY <3>1, <3>4
      <4>2. stream[t].at \in Runs /\ ~stream[t].done => stream[t].user # u
        BY <3>2, <3>4
      <4> HIDE DEF o
      <4> QED BY <1>5, <3>2, <4>1, <4>2
    <3> QED BY <3>3, <3>4
  <2> QED BY <2>1, <2>2
<1> HIDE DEF o
<1> QED BY <1>1, <1>4, <1>5, <1>6, <1>7, StreamsRemap

LEMMA StreamsUnsubscribe == ASSUME Stream!StreamsConstants, StreamsInv, NEW s \in Streams, Stream!Unsubscribe(s) PROVE StreamsInv'
<1> DEFINE u == stream[s].user
           o == subscribers[u]
           z == [stream[o] EXCEPT !.done = TRUE]
           B == IF o = Nil THEN stream ELSE [stream EXCEPT ![o] = z]
           j == [B[s] EXCEPT !.at = "over"]
<1>0. /\ stream \in [Streams -> StreamRow] /\ subscribers \in [Clients -> Streams \cup {Nil}] /\ Nil \notin Streams
  BY DEF StreamsInv, StreamsTyped, Stream!StreamsConstants
<1>1. stream[s].at = "leave" /\ u \in Clients
  <2>1. stream[s].at = "leave"
    BY DEF Stream!Unsubscribe
  <2> QED BY <2>1 DEF StreamsInv, StreamSound, Runs
<1>2. o \in Streams \cup {Nil}
  BY <1>0, <1>1
<1>3. o # Nil => /\ o \in Streams /\ u \in InMap /\ stream[o].user = u
                 /\ z \in StreamRow /\ z.at = stream[o].at /\ z.user = stream[o].user /\ z.done = TRUE /\ z.events = stream[o].events
                 /\ z.held = stream[o].held
  <2>1. o # Nil => o \in Streams /\ u \in InMap
    BY <1>1, <1>2 DEF InMap
  <2>2. o # Nil => stream[o].user = u
    BY <2>1 DEF StreamsInv, MapSound
  <2>3. ASSUME o # Nil
        PROVE  /\ z \in StreamRow /\ z.at = stream[o].at /\ z.user = stream[o].user /\ z.done = TRUE /\ z.events = stream[o].events
               /\ z.held = stream[o].held
    <3>1. PICK k \in StreamRow : k = stream[o]
      <4> HIDE DEF StreamRow, o
      <4> QED BY <1>0, <2>1, <2>3
    <3>2. z = [k EXCEPT !.done = TRUE]
      BY <3>1
    <3> HIDE DEF z, o
    <3> QED BY <3>1, <3>2 DEF StreamRow
  <2> QED BY <2>1, <2>2, <2>3
<1>4. B \in [Streams -> StreamRow] /\ \A t \in Streams : B[t] = IF t = o THEN z ELSE stream[t]
  <2> HIDE DEF StreamRow, o, z
  <2>1. CASE o = Nil
    BY <1>0, <2>1
  <2>2. CASE o # Nil
    BY <1>0, <1>3, <2>2
  <2> QED BY <2>1, <2>2
<1>5. /\ subscribers' = [subscribers EXCEPT ![u] = Nil] /\ stream' = [B EXCEPT ![s] = j]
      /\ UNCHANGED <<sight, publish, written, unseen>>
  <2>1. o # Nil => Stream!Closed(o) = [stream EXCEPT ![o] = z]
    BY <1>0, <1>2 DEF Stream!Closed
  <2>2. (IF o = Nil THEN stream ELSE Stream!Closed(o)) = B
    <3> HIDE DEF o, z
    <3>1. CASE o = Nil
      BY <3>1
    <3>2. CASE o # Nil
      BY <2>1, <3>2
    <3> QED BY <3>1, <3>2
  <2>3. stream' = [B EXCEPT ![s].at = "over"]
    BY <2>2 DEF Stream!Unsubscribe
  <2> HIDE DEF B
  <2> QED BY <1>4, <2>3 DEF Stream!Unsubscribe
<1> HIDE DEF B
<1>6. B[s].events = stream[s].events /\ B[s].user = u
  <2>1. CASE s = o
    <3>1. o # Nil /\ B[s] = z
      BY <1>0, <1>4, <2>1
    <3> HIDE DEF z
    <3> QED BY <1>3, <2>1, <3>1
  <2>2. CASE s # o
    BY <1>4, <2>2
  <2> QED BY <2>1, <2>2
<1>7. j \in StreamRow /\ j.at = "over" /\ j.user = u /\ j.events = stream[s].events
  <2> HIDE DEF u, o
  <2>1. B[s] \in StreamRow
    BY <1>4
  <2> QED BY <1>6, <2>1 DEF StreamRow
<1> HIDE DEF j, z
<1>8. stream' \in [Streams -> StreamRow] /\ stream'[s] = j /\ \A t \in Streams : t # s => stream'[t] = IF t = o THEN z ELSE stream[t]
  <2> HIDE DEF StreamRow, o, u
  <2> QED BY <1>4, <1>5, <1>7
<1>9. subscribers' \in [Clients -> Streams \cup {Nil}] /\ subscribers'[u] = Nil /\ \A v \in Clients : v # u => subscribers'[v] = subscribers[v]
  BY <1>0, <1>1, <1>5
<1>10. MapSound'
  <2>1. InMap' = InMap \ {u}
    BY <1>0, <1>9 DEF InMap
  <2>2. IsFiniteSet(InMap') /\ Cardinality(InMap') <= MaxSubscribers
    <3>1. IsFiniteSet(InMap) /\ Cardinality(InMap) <= MaxSubscribers
      BY DEF StreamsInv, MapSound
    <3>2. IsFiniteSet(InMap') /\ Cardinality(InMap') <= Cardinality(InMap)
      BY <2>1, <3>1, FS_Subset
    <3>3. Cardinality(InMap) \in Nat /\ Cardinality(InMap') \in Nat
      BY <3>1, <3>2, FS_CardinalityType
    <3>4. MaxSubscribers \in Nat
      BY DEF Stream!StreamsConstants
    <3> QED BY <3>1, <3>2, <3>3, <3>4
  <2>3. ASSUME NEW v \in InMap'
        PROVE  stream'[subscribers'[v]].at \in Runs /\ stream'[subscribers'[v]].user = v /\ ~stream'[subscribers'[v]].done
    <3>1. v \in InMap /\ v \in Clients /\ v # u /\ subscribers'[v] = subscribers[v] /\ subscribers[v] \in Streams
      BY <1>0, <1>9, <2>1 DEF InMap
    <3>2. stream[subscribers[v]].at \in Runs /\ stream[subscribers[v]].user = v /\ ~stream[subscribers[v]].done
      BY <3>1 DEF StreamsInv, MapSound
    <3>3. subscribers[v] # s
      BY <3>1, <3>2
    <3>4. subscribers[v] # o
      BY <1>0, <1>3, <3>1, <3>2
    <3> QED BY <1>8, <3>1, <3>2, <3>3, <3>4
  <2> QED BY <2>2, <2>3 DEF MapSound
<1>11. ASSUME NEW t \in Streams
       PROVE  /\ stream'[t].events = stream[t].events
              /\ Holding(stream'[t]) => stream'[t].at = stream[t].at /\ stream'[t].held = stream[t].held /\ stream'[t].user = stream[t].user
              /\ stream'[t].at \in Runs => stream'[t].user \in Clients /\ (~stream'[t].done => subscribers'[stream'[t].user] = t)
  <2>1. CASE t = s
    BY <1>7, <1>8, <2>1 DEF Holding, Runs
  <2>2. CASE t # s
    <3>1. stream'[t] = IF t = o THEN z ELSE stream[t]
      BY <1>8, <2>2
    <3>2. stream[t].at \in Runs => stream[t].user \in Clients /\ (~stream[t].done => subscribers[stream[t].user] = t)
      BY DEF StreamsInv, StreamSound
    <3>3. CASE t = o
      <4>1. o # Nil
        BY <1>0, <3>3
      <4>2. /\ stream'[t].at = stream[t].at /\ stream'[t].user = stream[t].user /\ stream'[t].done = TRUE /\ stream'[t].events = stream[t].events
            /\ stream'[t].held = stream[t].held
        BY <1>3, <3>1, <3>3, <4>1
      <4> HIDE DEF o, u
      <4> QED BY <3>2, <4>2
    <3>4. CASE t # o
      <4>1. stream'[t] = stream[t]
        BY <3>1, <3>4
      <4>2. stream[t].at \in Runs /\ ~stream[t].done => stream[t].user # u
        BY <3>2, <3>4
      <4> HIDE DEF o, u
      <4> QED BY <1>9, <3>2, <4>1, <4>2
    <3> QED BY <3>3, <3>4
  <2> QED BY <2>1, <2>2
<1> HIDE DEF o, u
<1> QED BY <1>5, <1>8, <1>9, <1>10, <1>11, StreamsRemap

LEMMA StreamsStep == ASSUME Stream!StreamsConstants, StreamsInv, Stream!Next \/ UNCHANGED streamVars PROVE StreamsInv'
<1>1. CASE UNCHANGED streamVars
  <2>1. UNCHANGED <<subscribers, stream, sight, publish, written, unseen>>
    BY <1>1 DEF streamVars
  <2>2. StreamsTyped' /\ MapSound' /\ PublishSound'
    BY <2>1 DEF StreamsInv, StreamsTyped, MapSound, PublishSound, InMap
  <2>3. ASSUME NEW s \in Streams PROVE StreamSound(s, stream[s], written[s], unseen[s])'
    <3>1. StreamSound(s, stream[s], written[s], unseen[s])
      BY DEF StreamsInv
    <3> QED BY <2>1, <3>1 DEF StreamSound, Stream!Allowed
  <2> QED BY <2>2, <2>3 DEF StreamsInv
<1>2. CASE Stream!Next
  <2>1. ASSUME NEW u \in Clients, NEW c \in Channels, Stream!AddChannel(u, c) \/ Stream!RemoveChannel(u, c) \/ Stream!ChangeSight(u, c) PROVE StreamsInv'
    BY <2>1, StreamsChange
  <2>2. ASSUME NEW p \in Publishers, NEW c \in Channels, Stream!Publish(p, c) PROVE StreamsInv'
    BY <2>2, StreamsPublish
  <2>3. ASSUME NEW p \in Publishers, NEW s \in Streams, NEW sent \in BOOLEAN, Stream!Deliver(p, s, sent) PROVE StreamsInv'
    BY <2>3, StreamsDeliver
  <2>4. ASSUME NEW s \in Streams, NEW u \in Clients, NEW cs \in SUBSET Channels, Stream!Subscribe(s, u, cs) PROVE StreamsInv'
    BY <2>4, StreamsSubscribe
  <2>5. ASSUME NEW s \in Streams, Stream!Take(s) PROVE StreamsInv'
    BY <2>5, StreamsTake
  <2>6. ASSUME NEW s \in Streams, Stream!CanDeliver(s) \/ Stream!Leave(s) PROVE StreamsInv'
    BY <2>6, StreamsCheck
  <2>7. ASSUME NEW s \in Streams, Stream!Write(s) PROVE StreamsInv'
    BY <2>7, StreamsWrite
  <2>8. ASSUME NEW s \in Streams, Stream!Unsubscribe(s) PROVE StreamsInv'
    BY <2>8, StreamsUnsubscribe
  <2> QED BY <1>2, <2>1, <2>2, <2>3, <2>4, <2>5, <2>6, <2>7, <2>8 DEF Stream!Next
<1> QED BY <1>1, <1>2

-----------------------------------------------------------------------------
\* All of them together (Services).

\* The part that runs keeps its invariant; the views do where the database
\* never gives an id again.
ServicesInv ==
  /\ part = "bridge" => BridgeInv
  /\ part = "store" => StoreInv
  /\ part = "imports" => ImportInv
  /\ part = "custom" => CustomInv
  /\ part = "panel" => PanelInv
  /\ part = "presence" => PresenceInv
  /\ part = "hooks" => HooksInv
  /\ part = "streams" => StreamsInv
  /\ part = "views" /\ ~Reuses => ViewsInv
  /\ part = "mail" => MailInv

LEMMA ServicesStarts == Init => ServicesInv
<1> SUFFICES ASSUME Init PROVE ServicesInv
  OBVIOUS
<1>1. /\ part = "bridge" => Bridge!Init
      /\ part = "store" => Store!Init
      /\ part = "imports" => Imports!Init
      /\ part = "custom" => Custom!Init
      /\ part = "panel" => Panel!Init
      /\ part = "presence" => Seen!Init
      /\ part = "hooks" => Outbound!Init
      /\ part = "streams" => Stream!Init
      /\ part = "views" => View!Init
      /\ part = "mail" => Mail!Init
  BY DEF Init
<1>2. part = "bridge" => BridgeInv
  BY <1>1, ServicesConstants, BridgeInit
<1>3. part = "store" => StoreInv
  BY <1>1, ServicesConstants, StoreInit
<1>4. part = "imports" => ImportInv
  BY <1>1, ServicesConstants, ImportInit
<1>5. part = "custom" => CustomInv
  BY <1>1, ServicesConstants, CustomInit
<1>6. part = "panel" => PanelInv
  BY <1>1, ServicesConstants, PanelInit
<1>7. part = "presence" => PresenceInv
  BY <1>1, ServicesConstants, PresenceInit
<1>8. part = "hooks" => HooksInv
  BY <1>1, ServicesConstants, HooksInit
<1>9. part = "streams" => StreamsInv
  BY <1>1, ServicesConstants, StreamsInit
<1>10. part = "views" => ViewsInv
  BY <1>1, ServicesConstants, ViewsInit
<1>11. part = "mail" => MailInv
  BY <1>1, ServicesConstants, MailInit
<1> QED BY <1>2, <1>3, <1>4, <1>5, <1>6, <1>7, <1>8, <1>9, <1>10, <1>11 DEF ServicesInv

\* A step of the whole is one of the part that runs.
LEMMA PartGoes ==
  ASSUME Next
  PROVE  /\ part' = part
         /\ part = "bridge" => Bridge!Next
         /\ part = "store" => Store!Next
         /\ part = "imports" => Imports!Next
         /\ part = "custom" => Custom!Next
         /\ part = "panel" => Panel!Next
         /\ part = "presence" => Seen!Next
         /\ part = "hooks" => Outbound!Next
         /\ part = "streams" => Stream!Next
         /\ part = "views" => View!Next
         /\ part = "mail" => Mail!Next
BY DEF Next, Only

\* A step of the whole, or none, leaves the part that runs its own steps.
LEMMA PartsStep ==
  ASSUME [Next]_vars
  PROVE  /\ part' = part
         /\ part = "bridge" => [Bridge!Next]_Bridge!vars
         /\ part = "store" => [Store!Next]_Store!vars
         /\ part = "imports" => Imports!Next \/ UNCHANGED importVars
         /\ part = "custom" => Custom!Next \/ UNCHANGED customVars
         /\ part = "panel" => [Panel!Next]_Panel!vars
         /\ part = "presence" => [Seen!Next]_Seen!vars
         /\ part = "hooks" => Outbound!Next \/ UNCHANGED hookVars
         /\ part = "streams" => Stream!Next \/ UNCHANGED streamVars
         /\ part = "views" => [View!Next]_View!vars
         /\ part = "mail" => Mail!Next \/ UNCHANGED mailVars
<1>1. CASE UNCHANGED vars
  <2>1. /\ UNCHANGED <<part, clock, bridgeVars, storeVars, importVars, customVars>>
        /\ UNCHANGED <<panelVars, presenceVars, hookVars, streamVars, viewVars, mailVars>>
    BY <1>1 DEF vars
  <2>2. UNCHANGED Bridge!vars /\ UNCHANGED Store!vars
    BY <2>1 DEF bridgeVars, storeVars, Bridge!vars, Store!vars
  <2>3. UNCHANGED Panel!vars /\ UNCHANGED Seen!vars /\ UNCHANGED View!vars
    BY <2>1 DEF panelVars, presenceVars, viewVars, Panel!vars, Seen!vars, View!vars
  <2> QED BY <2>1, <2>2, <2>3
<1>2. CASE Next
  BY <1>2, PartGoes
<1> QED BY <1>1, <1>2

LEMMA ServicesStep == ServicesInv /\ [Next]_vars => ServicesInv'
<1> SUFFICES ASSUME ServicesInv, [Next]_vars PROVE ServicesInv'
  OBVIOUS
<1>1. part = "bridge" => BridgeInv'
  BY PartsStep, ServicesConstants, BridgeStep DEF ServicesInv
<1>2. part = "store" => StoreInv'
  BY PartsStep, ServicesConstants, StoreStep DEF ServicesInv
<1>3. part = "imports" => ImportInv'
  BY PartsStep, ServicesConstants, ImportStep DEF ServicesInv
<1>4. part = "custom" => CustomInv'
  BY PartsStep, ServicesConstants, CustomStep DEF ServicesInv
<1>5. part = "panel" => PanelInv'
  BY PartsStep, ServicesConstants, PanelStep DEF ServicesInv
<1>6. part = "presence" => PresenceInv'
  BY PartsStep, ServicesConstants, PresenceStep DEF ServicesInv
<1>7. part = "hooks" => HooksInv'
  BY PartsStep, ServicesConstants, HooksStep DEF ServicesInv
<1>8. part = "streams" => StreamsInv'
  BY PartsStep, ServicesConstants, StreamsStep DEF ServicesInv
<1>9. part = "views" /\ ~Reuses => ViewsInv'
  BY PartsStep, ServicesConstants, ViewsStep DEF ServicesInv
<1>10. part = "mail" => MailInv'
  BY PartsStep, ServicesConstants, MailStep DEF ServicesInv
<1> QED BY <1>1, <1>2, <1>3, <1>4, <1>5, <1>6, <1>7, <1>8, <1>9, <1>10, PartsStep DEF ServicesInv

\* What the invariant of the part that runs promises.
LEMMA ServicesPromise == ServicesInv => (~Reuses => TypeOK) /\ PluginsHold /\ ImportHolds /\ DeskHolds /\ TrafficHolds
<1> SUFFICES ASSUME ServicesInv PROVE (~Reuses => TypeOK) /\ PluginsHold /\ ImportHolds /\ DeskHolds /\ TrafficHolds
  OBVIOUS
<1>1. part = "bridge" => Bridge!TypeOK /\ Bridge!OwnAnswer
  BY ServicesConstants, BridgeHas DEF ServicesInv
<1>2. part = "store" => Store!TypeOK /\ Store!ReadsTheLastWrite
  BY ServicesConstants, StoreHas DEF ServicesInv
<1>3. part = "imports" => Imports!TypeOK /\ Imports!ImportHolds
  BY ServicesConstants, ImportHas DEF ServicesInv
<1>4. part = "custom" => Custom!TypeOK /\ Custom!FieldsHold
  BY CustomHas DEF ServicesInv
<1>5. part = "panel" => Panel!TypeOK /\ Panel!PanelHolds
  BY ServicesConstants, PanelHas DEF ServicesInv
<1>6. part = "presence" => Seen!TypeOK /\ Seen!SeenHolds
  BY ServicesConstants, PresenceHas DEF ServicesInv
<1>7. part = "hooks" => Outbound!TypeOK /\ Outbound!HooksHold
  BY ServicesConstants, HooksHas DEF ServicesInv
<1>8. part = "streams" => Stream!TypeOK /\ Stream!StreamsHold
  BY ServicesConstants, StreamsHas DEF ServicesInv
<1>9. part = "views" /\ ~Reuses => View!TypeOK
  BY ViewsHas DEF ServicesInv
<1>10. part = "mail" => Mail!TypeOK /\ Mail!MailHolds
  BY MailHas DEF ServicesInv
<1>11. ~Reuses => TypeOK
  BY <1>1, <1>2, <1>3, <1>4, <1>5, <1>6, <1>7, <1>8, <1>9, <1>10 DEF TypeOK
<1>12. PluginsHold /\ ImportHolds
  BY <1>1, <1>2, <1>3 DEF PluginsHold, ImportHolds
<1>13. DeskHolds /\ TrafficHolds
  BY <1>4, <1>5, <1>6, <1>7, <1>8, <1>10 DEF DeskHolds, TrafficHolds
<1> QED BY <1>11, <1>12, <1>13

\* Every part keeps its types, where the database never gives an id again.
THEOREM ServicesAreTyped == ASSUME ~Reuses PROVE Spec => []TypeOK
<1>1. ServicesInv => TypeOK
  BY ServicesPromise
<1> QED BY <1>1, ServicesStarts, ServicesStep, PTL DEF Spec

\* A plugin's caller gets its own answer, whatever processes come and go, and a
\* get finds what was last written (PluginBridge, PluginStore).
THEOREM PluginsAreHeld == Spec => []PluginsHold
BY ServicesStarts, ServicesStep, ServicesPromise, PTL DEF Spec

\* A completed import left nothing out and created nothing twice but where it
\* was disturbed, for any source, runs, pauses, cancels and crashes (ImportJobs).
THEOREM ImportIsHeld == Spec => []ImportHolds
BY ServicesStarts, ServicesStep, ServicesPromise, PTL DEF Spec

\* One slug each and nothing without what it hangs on; a reply told of once and
\* shown unread; a visit seen (CustomFields, AgentPanel, Presence).
THEOREM DeskIsHeld == Spec => []DeskHolds
BY ServicesStarts, ServicesStep, ServicesPromise, PTL DEF Spec

\* Webhooks reach public addresses, streams who may see the event and in order,
\* mail the ticket its sender may answer (Webhooks, Broadcaster, InboundMail).
THEOREM TrafficIsHeld == Spec => []TrafficHolds
BY ServicesStarts, ServicesStep, ServicesPromise, PTL DEF Spec

\* A plugin's call into the host acts for the call it was made in.
THEOREM CtxActsForItsCall == Spec => ActsForItsCall
<1>1. ServicesInv /\ [Next]_vars => (part = "bridge" => Bridge!ActsForItsCall)
  <2> SUFFICES ASSUME ServicesInv, [Next]_vars, part = "bridge" PROVE Bridge!ActsForItsCall
    OBVIOUS
  <2> QED BY PartsStep, ServicesConstants, BridgeActs DEF ServicesInv
<1> QED BY <1>1, ServicesStarts, ServicesStep, PTL DEF Spec, ActsForItsCall

\* What is deleted goes whole, and a view changes by its owner's hand, where the
\* database never gives an id again.
THEOREM RowsAreKept == ASSUME ~Reuses PROVE Spec => StepsKeepRows
<1>1. ServicesInv /\ Next => /\ part = "custom" => Custom!DeletedWhole
                             /\ part = "views" => View!ViewsHold
  <2> SUFFICES ASSUME ServicesInv, Next
               PROVE  /\ part = "custom" => Custom!DeletedWhole
                      /\ part = "views" => View!ViewsHold
    OBVIOUS
  <2>1. part = "custom" => Custom!DeletedWhole
    BY PartGoes, ServicesConstants, CustomActs DEF ServicesInv
  <2>2. part = "views" => View!ViewsHold
    BY PartsStep, ServicesConstants, ViewsActs DEF ServicesInv
  <2> QED BY <2>1, <2>2
<1> QED BY <1>1, ServicesStarts, ServicesStep, PTL DEF Spec, StepsKeepRows
=============================================================================
