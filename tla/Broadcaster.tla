------------------------------ MODULE Broadcaster ------------------------------
(***************************************************************************)
(* The real-time stream (services/broadcaster.go, handlers/broadcasting.go). *)
(* A stream subscribes under its user's name, takes events from a bounded    *)
(* buffer, checks each once more and writes it; when it ends it unsubscribes *)
(* that name. Publishers take the subscribers first, then send to each.      *)
(***************************************************************************)
EXTENDS Naturals, Sequences, FiniteSets, SequencesExt

CONSTANTS Users, Streams, Publishers, Channels, Nil,
          BufferSize, MaxSubscribers,
          Restricted,   \* whether ticket access is
          MaxEvents,    \* bound on the events of each publisher
          MaxChanges    \* bound on the changes of sight and of channels

StreamsConstants ==
  /\ Nil \notin Streams /\ Restricted \in BOOLEAN
  /\ BufferSize \in Nat /\ MaxSubscribers \in Nat /\ MaxEvents \in Nat /\ MaxChanges \in Nat

VARIABLES subscribers,  \* user -> its stream, or Nil
          stream,       \* stream -> [at, user, channels, events, done, held]
          sight,        \* <<user, channel>> the host and ticket access allow
          publish,      \* publisher -> [n, channel, left]: its event, and who has yet to get it
          written,      \* stream -> the events written to its client
          unseen,       \* stream -> those of them out of sight, since sight last changed
          changes
vars == <<subscribers, stream, sight, publish, written, unseen, changes>>

Events == [by : Publishers, n : 1..MaxEvents, channel : Channels]
Off == [at |-> "off", user |-> Nil, channels |-> {}, events |-> <<>>, done |-> FALSE, held |-> Nil]
Running == {s \in Streams : stream[s].at \in {"open", "check", "write", "leave"}}

TypeOK ==
  /\ subscribers \in [Users -> Streams \cup {Nil}] /\ sight \subseteq Users \X Channels
  /\ \A s \in Streams :
       /\ stream[s].at \in {"off", "open", "check", "write", "leave", "over"} /\ stream[s].channels \subseteq Channels
       /\ stream[s].user \in Users \cup {Nil} /\ stream[s].held \in Events \cup {Nil}
       /\ Len(stream[s].events) <= BufferSize /\ IsInjective(stream[s].events)
  /\ publish \in [Publishers -> [n : 0..MaxEvents, channel : Channels \cup {Nil}, left : SUBSET Streams]]
  /\ Cardinality({u \in Users : subscribers[u] # Nil}) <= MaxSubscribers

Init ==
  /\ subscribers = [u \in Users |-> Nil] /\ stream = [s \in Streams |-> Off] /\ sight = Users \X Channels
  /\ publish = [p \in Publishers |-> [n |-> 0, channel |-> Nil, left |-> {}]]
  /\ written = [s \in Streams |-> <<>>] /\ unseen = [s \in Streams |-> 0] /\ changes = 0
-----------------------------------------------------------------------------
Allowed(u, c) == ~Restricted \/ <<u, c>> \in sight

\* Close(): the subscription's own channel; the map is another matter.
Closed(s) == [stream EXCEPT ![s].done = TRUE]

\* Subscribe(), whose limit comes before the user's old stream is closed.
Subscribe(s, u, channels) ==
  /\ stream[s] = Off /\ Cardinality({v \in Users : subscribers[v] # Nil}) < MaxSubscribers
  /\ stream' = [(IF subscribers[u] = Nil THEN stream ELSE Closed(subscribers[u])) EXCEPT
                  ![s] = [Off EXCEPT !.at = "open", !.user = u, !.channels = {c \in channels : <<u, c>> \in sight}]]
  /\ subscribers' = [subscribers EXCEPT ![u] = s]
  /\ UNCHANGED <<sight, publish, written, unseen, changes>>

AddChannel(u, c) ==
  /\ changes < MaxChanges /\ changes' = changes + 1
  /\ subscribers[u] # Nil /\ <<u, c>> \in sight
  /\ stream' = [stream EXCEPT ![subscribers[u]].channels = @ \cup {c}]
  /\ UNCHANGED <<subscribers, sight, publish, written, unseen>>
RemoveChannel(u, c) ==
  /\ changes < MaxChanges /\ changes' = changes + 1
  /\ subscribers[u] # Nil
  /\ stream' = [stream EXCEPT ![subscribers[u]].channels = @ \ {c}]
  /\ UNCHANGED <<subscribers, sight, publish, written, unseen>>

\* The host moves a ticket or an account.
ChangeSight(u, c) ==
  /\ changes < MaxChanges /\ changes' = changes + 1
  /\ sight' = IF <<u, c>> \in sight THEN sight \ {<<u, c>>} ELSE sight \cup {<<u, c>>}
  /\ unseen' = [s \in Streams |-> 0]
  /\ UNCHANGED <<subscribers, stream, publish, written>>
-----------------------------------------------------------------------------
(* A publisher: the subscribers under the read lock, then one after another  *)
(* without it.                                                              *)

Publish(p, c) ==
  /\ publish[p].left = {} /\ publish[p].n < MaxEvents
  /\ publish' = [publish EXCEPT ![p] = [n |-> @.n + 1, channel |-> c,
                                        left |-> {s \in Streams : \E u \in Users : subscribers[u] = s /\ c \in stream[s].channels}]]
  /\ UNCHANGED <<subscribers, stream, sight, written, unseen, changes>>

\* Fault: a send that does not ask whether the buffer has room.
DeliverToFull(p, s, sent) ==
  /\ s \in publish[p].left /\ sent
  /\ publish' = [publish EXCEPT ![p].left = @ \ {s}]
  /\ stream' = [stream EXCEPT ![s].events = Append(@, [by |-> p, n |-> publish[p].n, channel |-> publish[p].channel])]
  /\ UNCHANGED <<subscribers, sight, written, unseen, changes>>

\* Into the buffer when it has room; a closed subscription may get it or not;
\* a full one loses it.
Deliver(p, s, sent) ==
  LET e == [by |-> p, n |-> publish[p].n, channel |-> publish[p].channel]
      room == Len(stream[s].events) < BufferSize /\ Allowed(stream[s].user, e.channel)
  IN  /\ s \in publish[p].left
      /\ publish' = [publish EXCEPT ![p].left = @ \ {s}]
      /\ IF room THEN sent \/ stream[s].done ELSE ~sent
      /\ stream' = IF sent THEN [stream EXCEPT ![s].events = Append(@, e)] ELSE stream
      /\ UNCHANGED <<subscribers, sight, written, unseen, changes>>
-----------------------------------------------------------------------------
(* A stream's loop.                                                         *)

Take(s) ==
  /\ stream[s].at = "open" /\ stream[s].events # <<>>
  /\ stream' = [stream EXCEPT ![s].at = "check", ![s].held = Head(stream[s].events), ![s].events = Tail(@)]
  /\ UNCHANGED <<subscribers, sight, publish, written, unseen, changes>>

CanDeliver(s) ==
  /\ stream[s].at = "check"
  /\ stream' = IF Allowed(stream[s].user, stream[s].held.channel) THEN [stream EXCEPT ![s].at = "write"]
               ELSE [stream EXCEPT ![s].at = "open", ![s].held = Nil]
  /\ UNCHANGED <<subscribers, sight, publish, written, unseen, changes>>

Write(s) ==
  /\ stream[s].at = "write"
  /\ written' = [written EXCEPT ![s] = Append(@, stream[s].held)]
  /\ unseen' = IF Allowed(stream[s].user, stream[s].held.channel) THEN unseen ELSE [unseen EXCEPT ![s] = @ + 1]
  /\ stream' = [stream EXCEPT ![s].at = "open", ![s].held = Nil]
  /\ UNCHANGED <<subscribers, sight, publish, changes>>

\* Its client went away, or its subscription was closed.
Leave(s) ==
  /\ stream[s].at = "open" /\ stream' = [stream EXCEPT ![s].at = "leave"]
  /\ UNCHANGED <<subscribers, sight, publish, written, unseen, changes>>

\* The deferred Unsubscribe(): by the user's name, whoever holds it now.
Unsubscribe(s) ==
  LET u == stream[s].user
  IN  /\ stream[s].at = "leave"
      /\ stream' = [(IF subscribers[u] = Nil THEN stream ELSE Closed(subscribers[u])) EXCEPT ![s].at = "over"]
      /\ subscribers' = [subscribers EXCEPT ![u] = Nil]
      /\ UNCHANGED <<sight, publish, written, unseen, changes>>
-----------------------------------------------------------------------------
Next ==
  \/ \E u \in Users, c \in Channels : AddChannel(u, c) \/ RemoveChannel(u, c) \/ ChangeSight(u, c)
  \/ \E p \in Publishers :
       \/ \E c \in Channels : Publish(p, c)
       \/ \E s \in Streams, sent \in BOOLEAN : Deliver(p, s, sent)
  \/ \E s \in Streams :
       \/ \E u \in Users, cs \in SUBSET Channels : Subscribe(s, u, cs)
       \/ Take(s) \/ CanDeliver(s) \/ Write(s) \/ Leave(s) \/ Unsubscribe(s)

Spec == Init /\ [][Next]_vars
-----------------------------------------------------------------------------
\* A stream has an event of a publisher once and in the order published, drops
\* aside; after sight changes at most the event it was about to write is
\* written out of sight; a subscriber in the map has a stream that runs; and a
\* user has one stream at most that is not about to end.
StreamsHold ==
  /\ \A s \in Streams : \A i, j \in 1..Len(written[s]) : i < j /\ written[s][i].by = written[s][j].by => written[s][i].n < written[s][j].n
  /\ \A s \in Streams : unseen[s] <= 1
  /\ \A u \in Users : subscribers[u] # Nil => subscribers[u] \in Running /\ stream[subscribers[u]].user = u /\ ~stream[subscribers[u]].done
  /\ \A s, t \in Running : stream[s].user = stream[t].user /\ ~stream[s].done /\ ~stream[t].done => s = t

\* The stream that replaced another stays until its own client leaves or a
\* newer one of its user replaces it.
ReplacedByNewerOnly ==
  [][\A s \in Streams : ~stream[s].done /\ stream'[s].done =>
        stream[s].at = "leave" \/ (\E t \in Streams : t # s /\ stream[t].at = "off" /\ stream'[t].user = stream[s].user)]_vars
=============================================================================
