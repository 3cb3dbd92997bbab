------------------------------- MODULE MCAccess -------------------------------
(***************************************************************************)
(* A small instance of Access.                                              *)
(***************************************************************************)
EXTENDS Access, TLC

CONSTANT Pair  \* two things that differ in their names only

Budget == {"mailbox"} \cup Pair
AllKeys == Budget \cup {"route"}
KeyLimit == [k \in AllKeys |-> IF k = "mailbox" THEN 2 ELSE 1]
\* Two clients and a mailbox, with a limit of the route before them or without.
AllPaths == {<<p, "mailbox">> : p \in Pair} \cup {<<"route", p, "mailbox">> : p \in Pair}

\* Both restrictions, an agent who may turn customer, a ticket within reach and
\* one of another account; replies, and attachments with one and two parents.
Restrictions == [departments |-> TRUE, accounts |-> TRUE]
HostSays == {[agent |-> TRUE, admin |-> FALSE, account |-> "a1"], [agent |-> FALSE, admin |-> FALSE, account |-> Nil]}
TicketFilings == {[department |-> "d1", account |-> "a1", requester |-> "u1"], [department |-> "d1", account |-> Nil, requester |-> "c"]}
TableIds == [tickets |-> {1, 2}, replies |-> {1}, attachments |-> {1}, ticket_links |-> {}, chat_sessions |-> {}, chat_messages |-> {}]
\* One ticket and the reply are updated and deleted; the rest is only inserted.
RowAtATime == [t \in DOMAIN TableIds |-> IF t \in {"tickets", "replies"} THEN {{1}} ELSE {}]

Alike == Permutations(Requests) \cup Permutations(Pair)
=============================================================================
