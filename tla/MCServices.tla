------------------------------ MODULE MCServices ------------------------------
(***************************************************************************)
(* A small instance of the services around a ticket: what services.cfg       *)
(* cannot write down.                                                       *)
(***************************************************************************)
EXTENDS Services, TLC

CONSTANT Host  \* the user of the host that the source's agent is

\* The second runtime process gets one call less.
Calls == <<2, 1>>

\* A source with a contact and an agent, a ticket and a reply on it, each type
\* with its pages.
Rec(id, name, kind, of, needs) == [id |-> id, name |-> name, kind |-> kind, of |-> of, needs |-> needs]
Pages ==
  << <<<<Rec("c1", "c", "named", Nil, FALSE)>>, <<Rec("a1", Host, "host", Nil, FALSE)>>>>,
     <<<<Rec("t1", "t1", "new", Nil, FALSE)>>>>, <<<<Rec("r1", "r1", "new", "t1", TRUE)>>>> >>

\* To the signed address or not, answering a thread or not, with a subject or
\* none.
Mailed(from, to, headers, tag, empty) == [from |-> from, to |-> to, headers |-> headers, tag |-> tag, empty |-> empty]
Inbox == {Mailed("a1", "t1", <<"t2">>, "t1", FALSE), Mailed("a2", Nil, <<>>, "t1", TRUE), Mailed("a2", "t1", <<"t2", "t1">>, Nil, FALSE)}

Alike == Permutations(Workers) \cup Permutations(Agents)
=============================================================================
