------------------------------- MODULE Services -------------------------------
(***************************************************************************)
(* The services around a ticket: the plugin bridge and store, imports,       *)
(* custom fields, the agent panel and presence, webhooks, event streams,     *)
(* saved views and inbound e-mail.  They share nothing but a clock and the   *)
(* names of workers, so a behaviour is of one of them, `part`, and the       *)
(* variables of the others stand still.                                     *)
(***************************************************************************)
EXTENDS Integers, Sequences

CONSTANTS
  Workers, Nil, PerSecond, Tickets, Agents, Users,
  Plugins, Callers, PluginAdmins, Requests, Ctx, MaxGens, MaxCalls, MaxCtx,
  StoreValues, StoreCalls,
  Source, HostUsers, Admins, MaxRuns, MaxAsks, ImportFaults,
  FieldIds, Categories, MaxSlug, FieldWrites,
  Customer, PanelTime, MaxReplies, MaxClicks,
  Subjects, Visits, Throttle, Window, Slowest, PresenceTime,
  Hooks, HookEvents, HostNames, MaxAttempts, HookEdits, MaxRetries,
  Clients, Streams, Publishers, Channels, BufferSize, MaxSubscribers, Restricted, MaxEvents, MaxChanges,
  ViewNames, Reuses, MaxViews, MaxPosition, ViewWrites,
  Messages, MailTickets, Addresses, MailFaults, MailEdits

VARIABLES
  part, clock,
  pluginRow, runtime, resting, callers, ctx, made,
  storeRows, storeWork, calls, settled,
  cookie, jobRow, sourceMap, entities, importRun, admin, queued, ghost, started, asks, faults,
  fields, objects, statuses, used, values, records, onStatus, worker, enforced, writes,
  panelTickets, sees, panelReplies, reads, notes, panelWork, told, late, clicks,
  seen, visit, last,
  hooks, dns, deliveries, hookRun, deleting, reached, edits, retries,
  subscribers, stream, sight, publish, written, unseen, changes,
  views, lastView, viewWork, begun,
  signed, mailTickets, post, mailReplies, opened, answered, reopens, mailFaults, mailEdits

bridgeVars == <<pluginRow, runtime, resting, callers, ctx, made>>
storeVars == <<storeRows, storeWork, calls, settled>>
importVars == <<cookie, jobRow, sourceMap, entities, importRun, admin, queued, ghost, started, asks, faults>>
customVars == <<fields, objects, statuses, used, values, records, onStatus, worker, enforced, writes>>
panelVars == <<panelTickets, sees, panelReplies, reads, notes, panelWork, told, late, clicks>>
presenceVars == <<seen, visit, last>>
hookVars == <<hooks, dns, deliveries, hookRun, deleting, reached, edits, retries>>
streamVars == <<subscribers, stream, sight, publish, written, unseen, changes>>
viewVars == <<views, lastView, viewWork, begun>>
mailVars == <<signed, mailTickets, post, mailReplies, opened, answered, reopens, mailFaults, mailEdits>>
vars == <<part, clock, bridgeVars, storeVars, importVars, customVars, panelVars, presenceVars, hookVars, streamVars, viewVars, mailVars>>

Bridge == INSTANCE PluginBridge WITH Admins <- PluginAdmins, row <- pluginRow, job <- callers

Store == INSTANCE PluginStore WITH Values <- StoreValues, MaxCalls <- StoreCalls, rows <- storeRows, work <- storeWork

Imports == INSTANCE ImportJobs WITH Runs <- Workers, MaxFaults <- ImportFaults, row <- jobRow, map <- sourceMap, run <- importRun

Custom == INSTANCE CustomFields WITH Ids <- FieldIds, MaxWrites <- FieldWrites

Panel == INSTANCE AgentPanel WITH
  MaxTime <- PanelTime, now <- clock, tickets <- panelTickets, replies <- panelReplies, work <- panelWork

Seen == INSTANCE Presence WITH Requests <- Visits, MaxTime <- PresenceTime, now <- clock

Outbound == INSTANCE Webhooks WITH
  Events <- HookEvents, Names <- HostNames, Runs <- Workers, MaxEdits <- HookEdits, run <- hookRun

Stream == INSTANCE Broadcaster WITH Users <- Clients

View == INSTANCE SavedViews WITH
  Names <- ViewNames, MaxId <- MaxViews, MaxWrites <- ViewWrites, last <- lastView, work <- viewWork

Mail == INSTANCE InboundMail WITH
  Tickets <- MailTickets, Posts <- Workers, MaxFaults <- MailFaults, MaxEdits <- MailEdits,
  tickets <- mailTickets, replies <- mailReplies, faults <- mailFaults, edits <- mailEdits

ASSUME ServicesConstants ==
  /\ Bridge!PluginConstants /\ Store!StoreConstants /\ Imports!ImportConstants /\ Custom!FieldsConstants /\ Panel!PanelConstants
  /\ Seen!PresenceConstants /\ Outbound!HooksConstants /\ Stream!StreamsConstants /\ View!ViewsConstants /\ Mail!MailConstants
-----------------------------------------------------------------------------
\* The variables of a part that does not run.
BridgeOff == pluginRow = Nil /\ runtime = Nil /\ resting = Nil /\ callers = Nil /\ ctx = Nil /\ made = Nil
StoreOff == storeRows = Nil /\ storeWork = Nil /\ calls = Nil /\ settled = Nil
ImportsOff == /\ cookie = Nil /\ jobRow = Nil /\ sourceMap = Nil /\ entities = Nil /\ importRun = Nil /\ admin = Nil /\ queued = Nil
              /\ ghost = Nil /\ started = Nil /\ asks = Nil /\ faults = Nil
CustomOff == /\ fields = Nil /\ objects = Nil /\ statuses = Nil /\ used = Nil /\ values = Nil /\ records = Nil /\ onStatus = Nil
             /\ worker = Nil /\ enforced = Nil /\ writes = Nil
PanelOff == /\ panelTickets = Nil /\ sees = Nil /\ panelReplies = Nil /\ reads = Nil /\ notes = Nil /\ panelWork = Nil
            /\ told = Nil /\ late = Nil /\ clicks = Nil
PresenceOff == seen = Nil /\ visit = Nil /\ last = Nil
HooksOff == /\ hooks = Nil /\ dns = Nil /\ deliveries = Nil /\ hookRun = Nil /\ deleting = Nil /\ reached = Nil
            /\ edits = Nil /\ retries = Nil
StreamsOff == /\ subscribers = Nil /\ stream = Nil /\ sight = Nil /\ publish = Nil /\ written = Nil /\ unseen = Nil /\ changes = Nil
ViewsOff == views = Nil /\ lastView = Nil /\ viewWork = Nil /\ begun = Nil
MailOff == /\ signed = Nil /\ mailTickets = Nil /\ post = Nil /\ mailReplies = Nil /\ opened = Nil /\ answered = Nil
           /\ reopens = Nil /\ mailFaults = Nil /\ mailEdits = Nil

Parts == {"bridge", "store", "imports", "custom", "panel", "presence", "hooks", "streams", "views", "mail"}

Init ==
  /\ part \in Parts
  /\ part \notin {"panel", "presence"} => clock = 0
  /\ IF part = "bridge" THEN Bridge!Init ELSE BridgeOff
  /\ IF part = "store" THEN Store!Init ELSE StoreOff
  /\ IF part = "imports" THEN Imports!Init ELSE ImportsOff
  /\ IF part = "custom" THEN Custom!Init ELSE CustomOff
  /\ IF part = "panel" THEN Panel!Init ELSE PanelOff
  /\ IF part = "presence" THEN Seen!Init ELSE PresenceOff
  /\ IF part = "hooks" THEN Outbound!Init ELSE HooksOff
  /\ IF part = "streams" THEN Stream!Init ELSE StreamsOff
  /\ IF part = "views" THEN View!Init ELSE ViewsOff
  /\ IF part = "mail" THEN Mail!Init ELSE MailOff

\* The part that runs, and the others left alone.
Only(p) ==
  /\ part = p /\ UNCHANGED part
  /\ p \notin {"panel", "presence"} => UNCHANGED clock
  /\ p # "bridge" => UNCHANGED bridgeVars
  /\ p # "store" => UNCHANGED storeVars
  /\ p # "imports" => UNCHANGED importVars
  /\ p # "custom" => UNCHANGED customVars
  /\ p # "panel" => UNCHANGED panelVars
  /\ p # "presence" => UNCHANGED presenceVars
  /\ p # "hooks" => UNCHANGED hookVars
  /\ p # "streams" => UNCHANGED streamVars
  /\ p # "views" => UNCHANGED viewVars
  /\ p # "mail" => UNCHANGED mailVars

Next ==
  \/ Only("bridge") /\ Bridge!Next
  \/ Only("store") /\ Store!Next
  \/ Only("imports") /\ Imports!Next
  \/ Only("custom") /\ Custom!Next
  \/ Only("panel") /\ Panel!Next
  \/ Only("presence") /\ Seen!Next
  \/ Only("hooks") /\ Outbound!Next
  \/ Only("streams") /\ Stream!Next
  \/ Only("views") /\ View!Next
  \/ Only("mail") /\ Mail!Next

Spec == Init /\ [][Next]_vars
-----------------------------------------------------------------------------
\* The types of every part.
TypeOK ==
  /\ part = "bridge" => Bridge!TypeOK
  /\ part = "store" => Store!TypeOK
  /\ part = "imports" => Imports!TypeOK
  /\ part = "custom" => Custom!TypeOK
  /\ part = "panel" => Panel!TypeOK
  /\ part = "presence" => Seen!TypeOK
  /\ part = "hooks" => Outbound!TypeOK
  /\ part = "streams" => Stream!TypeOK
  /\ part = "views" => View!TypeOK
  /\ part = "mail" => Mail!TypeOK

\* A plugin's caller gets its own answer, and its store what was last written.
PluginsHold ==
  /\ part = "bridge" => Bridge!OwnAnswer
  /\ part = "store" => Store!ReadsTheLastWrite

\* A completed import left nothing out, however its runs were paused, resumed,
\* cancelled or overlapped.
ImportHolds == part = "imports" => Imports!ImportHolds

\* Custom fields, objects and statuses keep one slug each and lose nothing they
\* hold; agents are told of replies once, and what they have not read shows.
DeskHolds ==
  /\ part = "custom" => Custom!FieldsHold
  /\ part = "panel" => Panel!PanelHolds
  /\ part = "presence" => Seen!SeenHolds

\* What goes out goes where it may, to whom may see it, once and in order; and
\* what comes in is answered for by its sender.
TrafficHolds ==
  /\ part = "hooks" => Outbound!HooksHold
  /\ part = "streams" => Stream!StreamsHold
  /\ part = "mail" => Mail!MailHolds

\* A plugin's ctx.* call acts for the call it was made in.
ActsForItsCall == [][part = "bridge" => Bridge!ActsForItsCall]_vars

\* What is deleted goes whole, and a view changes by its owner's hand.
StepsKeepRows ==
  [][/\ part = "custom" => Custom!DeletedWhole
     /\ part = "views" => View!ViewsHold]_vars
=============================================================================
