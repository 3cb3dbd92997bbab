------------------------ MODULE TicketLifecycleProofs ------------------------
(***************************************************************************)
(* What survives lost updates.  UpdateTicket writes a whole row computed    *)
(* from one row read, so a property that every operation                 *)
(* preserves of a row holds of the table and of every row in memory,        *)
(* however the reads and writes interleave and whoever crashes.             *)
(***************************************************************************)
EXTENDS TicketLifecycle, TLAPS

\* What every operation preserves of the row of ticket t.
RowSound(t, r) ==
  /\ r \in Row
  /\ (r.snoozedUntil = Nil) <=> (r.before = Nil)
  /\ r.merged # Nil => ~RuleScope(r) /\ r.merged # t
  /\ r.custom # Nil /\ ~r.chat => r.status \in anchors[r.custom]

\* The current anchor of a custom status is one it has had.
Anchored == \A c \in CustomStatuses : Anchor(c) \in anchors[c]

LEMMA NilDistinct ==
  Nil \notin Nat /\ Nil \notin Tickets /\ Nil \notin CustomStatuses /\ Nil \notin BuiltIn
  /\ Nil \notin OpenStatuses /\ Nil \notin Row
BY RowConstants DEF OpenStatuses, BuiltIn

LEMMA AnchorBuiltIn == /\ \A k : CategoryAnchor(k) \in BuiltIn
                       /\ \A c : Anchor(c) \in BuiltIn
BY DEF Anchor, CategoryAnchor, BuiltIn

LEMMA ResolveType ==
  ASSUME Anchored, NEW v \in BuiltIn \cup CustomStatuses
  PROVE  /\ Resolve(v).status \in BuiltIn
         /\ Resolve(v).custom \in CustomStatuses \cup {Nil}
         /\ Resolve(v).custom # Nil => Resolve(v).status \in anchors[Resolve(v).custom]
BY AnchorBuiltIn, NilDistinct DEF Resolve, Anchored

LEMMA NewTicketSound ==
  ASSUME NEW t \in Tickets, NEW d \in Details, NEW at \in Nat
  PROVE  RowSound(t, NewTicket(d, at)) /\ RowSound(t, NewChat(d, at))
<1>1. NewTicket(d, at) \in Row
  BY NilDistinct, RowConstants DEF NewTicket, Row, Time, BuiltIn, OpenStatuses
<1>2. RowSound(t, NewTicket(d, at))
  BY <1>1 DEF RowSound, NewTicket
<1>3. NewChat(d, at) \in Row
  BY NilDistinct, RowConstants DEF NewChat, NewTicket, Row, Time, BuiltIn, OpenStatuses
<1>4. RowSound(t, NewChat(d, at))
  BY <1>3 DEF RowSound, NewChat, NewTicket
<1> QED BY <1>2, <1>4

LEMMA AssignedSound ==
  ASSUME NEW t \in Tickets, NEW r, RowSound(t, r), NEW a \in Agents
  PROVE  RowSound(t, Assigned(r, a))
<1>1. Assigned(r, a) \in Row
  BY DEF RowSound, Assigned, Row, BuiltIn
<1> QED
  BY <1>1 DEF RowSound, Assigned, Row, RuleScope

LEMMA UnassignedSound ==
  ASSUME NEW t \in Tickets, NEW r, RowSound(t, r)
  PROVE  RowSound(t, Unassigned(r))
<1>1. Unassigned(r) \in Row
  BY DEF RowSound, Unassigned, Row
<1> QED
  BY <1>1 DEF RowSound, Unassigned, Row, RuleScope

LEMMA EditedSound ==
  ASSUME NEW t \in Tickets, NEW r, RowSound(t, r), NEW d \in Details
  PROVE  RowSound(t, Edited(r, d))
<1>1. Edited(r, d) \in Row
  BY DEF RowSound, Row, Time, Edited
<1> QED
  BY <1>1 DEF RowSound, Row, Time, RuleScope, Edited

LEMMA WithStatusSound ==
  ASSUME Anchored, NEW t \in Tickets, NEW r, RowSound(t, r),
         NEW v \in BuiltIn \cup CustomStatuses, NEW at \in Nat
  PROVE  RowSound(t, WithStatus(r, v, at))
<1> DEFINE s == Resolve(v).status
           c == Resolve(v).custom
           ra == IF s = "resolved" /\ r.resolvedAt = Nil THEN at ELSE r.resolvedAt
           ca == IF s = "closed" /\ r.closedAt = Nil THEN at ELSE r.closedAt
<1>a. s \in BuiltIn /\ c \in CustomStatuses \cup {Nil} /\ ra \in Time /\ ca \in Time /\ r \in Row
  BY ResolveType DEF RowSound, Row, Time
<1>b. WithStatus(r, v, at) = [r EXCEPT !.status = s, !.custom = c, !.resolvedAt = ra, !.closedAt = ca]
  BY DEF WithStatus
<1>c. c # Nil => s \in anchors[c]
  BY ResolveType
<1>d. (r.resolvedAt # Nil => ra # Nil) /\ (r.closedAt # Nil => ca # Nil)
  OBVIOUS
<1> DEFINE w == WithStatus(r, v, at)
<1> HIDE DEF s, c, ra, ca
<1>1. w \in Row
  BY ZenonT(30), <1>a, <1>b DEF Row
<1>2. /\ w.status = s /\ w.custom = c /\ w.resolvedAt = ra /\ w.closedAt = ca
      /\ w.snoozedUntil = r.snoozedUntil /\ w.before = r.before
      /\ w.merged = r.merged /\ w.chat = r.chat
  BY <1>a, <1>b DEF Row
<1> HIDE DEF w
<1>3. RowSound(t, w)
  BY <1>1, <1>2, <1>c, <1>d DEF RowSound, RuleScope
<1> QED
  BY <1>3 DEF w

LEMMA DirectStatusSound ==
  ASSUME Anchored, NEW t \in Tickets, NEW r, RowSound(t, r), NEW v \in BuiltIn \cup CustomStatuses
  PROVE  RowSound(t, DirectStatus(r, v))
<1>1. DirectStatus(r, v) \in Row
  BY ResolveType DEF RowSound, Row, Time, DirectStatus
<1> QED
  BY <1>1, ResolveType DEF RowSound, Row, Time, RuleScope, DirectStatus

LEMMA RespondedSound ==
  ASSUME NEW t \in Tickets, NEW r, RowSound(t, r), NEW at \in Nat
  PROVE  RowSound(t, Responded(r, at))
<1>1. Responded(r, at) \in Row
  BY DEF RowSound, Row, Time, Responded
<1> QED
  BY <1>1 DEF RowSound, Row, Time, RuleScope, Responded

LEMMA SnoozedSound ==
  ASSUME NEW t \in Tickets, NEW r, RowSound(t, r), r.status \in OpenStatuses, NEW until \in Nat
  PROVE  RowSound(t, Snoozed(r, until))
<1>1. Snoozed(r, until) \in Row
  BY ZenonT(30), NilDistinct DEF RowSound, Row, Time, Snoozed, BuiltIn
<1> QED
  BY <1>1, NilDistinct DEF RowSound, Row, Time, RuleScope, Snoozed

LEMMA AwakeSound ==
  ASSUME NEW t \in Tickets, NEW r, RowSound(t, r)
  PROVE  RowSound(t, Awake(r))
<1> DEFINE s == IF r.before # Nil THEN r.before ELSE "open"
<1>a. s \in BuiltIn /\ Nil \in Time /\ r \in Row
  BY DEF RowSound, Row, Time, BuiltIn, OpenStatuses
<1>b. Awake(r) = [r EXCEPT !.status = s, !.snoozedUntil = Nil, !.before = Nil, !.custom = Nil]
  BY DEF Awake
<1> DEFINE w == Awake(r)
<1> HIDE DEF s
<1>1. w \in Row
  BY ZenonT(30), <1>a, <1>b DEF Row
<1>2. /\ w.custom = Nil /\ w.snoozedUntil = Nil /\ w.before = Nil
      /\ w.resolvedAt = r.resolvedAt /\ w.closedAt = r.closedAt /\ w.merged = r.merged
  BY <1>a, <1>b DEF Row
<1> HIDE DEF w
<1>3. RowSound(t, w)
  BY <1>1, <1>2 DEF RowSound, RuleScope
<1> QED
  BY <1>3 DEF w

LEMMA BreachedSound ==
  ASSUME NEW t \in Tickets, NEW r, RowSound(t, r)
  PROVE  RowSound(t, Breached(r))
<1>1. Breached(r) \in Row
  BY DEF RowSound, Row, Time, Breached
<1> QED
  BY <1>1 DEF RowSound, Row, Time, RuleScope, Breached

LEMMA WithPolicySound ==
  ASSUME NEW t \in Tickets, NEW r, RowSound(t, r), NEW at \in Nat
  PROVE  RowSound(t, WithPolicy(r, at))
<1>a. at + FirstWithin \in Time /\ at + ResolveWithin \in Time
  BY RowConstants DEF Time
<1>1. WithPolicy(r, at) \in Row
  BY <1>a DEF RowSound, Row, WithPolicy
<1> QED
  BY <1>1 DEF RowSound, Row, Time, RuleScope, WithPolicy

LEMMA MergedIntoSound ==
  ASSUME NEW t \in Tickets, NEW r, RowSound(t, r), NEW target \in Tickets \ {t}, NEW at \in Nat
  PROVE  RowSound(t, MergedInto(r, target, at))
<1> DEFINE ca == IF r.closedAt = Nil THEN at ELSE r.closedAt
<1>a. ca \in Time /\ r \in Row /\ "closed" \in BuiltIn
  BY DEF RowSound, Row, Time, BuiltIn
<1>b. MergedInto(r, target, at) = [r EXCEPT !.status = "closed", !.custom = Nil, !.merged = target,
                                            !.closedAt = ca]
  BY DEF MergedInto
<1>c. ca # Nil
  BY NilDistinct
<1> DEFINE w == MergedInto(r, target, at)
<1> HIDE DEF ca
<1>1. w \in Row
  BY ZenonT(30), <1>a, <1>b DEF Row
<1>2. /\ w.custom = Nil /\ w.merged = target /\ w.closedAt = ca
      /\ w.snoozedUntil = r.snoozedUntil /\ w.before = r.before
  BY <1>a, <1>b DEF Row
<1> HIDE DEF w
<1>3. RowSound(t, w)
  BY <1>1, <1>2, <1>c DEF RowSound, RuleScope
<1> QED
  BY <1>3 DEF w

LEMMA ChatOverSound ==
  ASSUME NEW t \in Tickets, NEW r, RowSound(t, r), r.chat
  PROVE  RowSound(t, ChatOver(r))
<1>1. ChatOver(r) \in Row
  BY DEF RowSound, Row, Time, ChatOver, BuiltIn
<1> QED
  BY <1>1 DEF RowSound, Row, Time, RuleScope, ChatOver

LEMMA ClearedCustomSound ==
  ASSUME NEW t \in Tickets, NEW r, RowSound(t, r)
  PROVE  RowSound(t, [r EXCEPT !.custom = Nil])
<1>1. [r EXCEPT !.custom = Nil] \in Row
  BY DEF RowSound, Row
<1> QED
  BY <1>1 DEF RowSound, Row, RuleScope

-----------------------------------------------------------------------------
\* What a goroutine may hold, C being the tickets created.
JobSound(j, C) ==
  /\ j \in Job
  /\ j.row # Nil => j.tk \in Tickets /\ RowSound(j.tk, j.row)
  /\ j.step \in {"save", "reply", "unsnooze", "wakeSave", "checkSave", "actSave"} => j.row # Nil
  /\ j.step \in {"resnooze", "merge"} => j.tk \in C
  /\ j.step = "merge" => j.target \in Tickets \ {j.tk}
  /\ j.step = "announce" => j.tk \in Tickets
  /\ j.step \in {"wake", "wakeSave", "act", "actSave"} => j.todo \subseteq C
  /\ j.step \in {"act", "actSave"} => j.value # Nil
  /\ \A t \in Tickets : j.rows[t] # Nil => RowSound(t, j.rows[t])
  /\ j.step \in {"check", "checkSave", "announce"} => \A t \in j.todo : j.rows[t] # Nil

\* The inductive invariant: every row is sound, in the table and in memory.
IInv ==
  /\ TypeOK
  /\ Anchored
  /\ \A t \in Created : RowSound(t, tickets[t])
  /\ \A p \in Procs : JobSound(job[p], Created)

LEMMA IdleSound == ASSUME NEW C PROVE JobSound(Idle, C)
BY DEF JobSound, Idle, Job, Steps, NoRows, SlaOpenStatuses

LEMMA WillSaveSound ==
  ASSUME NEW C, NEW t \in Tickets, NEW r, RowSound(t, r)
  PROVE  JobSound([Idle EXCEPT !.step = "save", !.tk = t, !.row = r], C)
<1> DEFINE j == [Idle EXCEPT !.step = "save", !.tk = t, !.row = r]
<1>1. r \in Row /\ r # Nil
  BY NilDistinct DEF RowSound
<1>2. j \in Job
  BY <1>1, IdleSound DEF JobSound, Job, Steps
<1> QED
  BY <1>1, <1>2 DEF JobSound, Idle, NoRows

LEMMA JobSoundMonotone ==
  ASSUME NEW C, NEW D, C \subseteq D, NEW j, JobSound(j, C)
  PROVE  JobSound(j, D)
BY DEF JobSound

\* A step of goroutine p that leaves it with j.
LEMMA ProcStep ==
  ASSUME IInv, NEW p \in Procs, NEW j,
         job' = [job EXCEPT ![p] = j], Created \subseteq Created', JobSound(j, Created'),
         tickets' \in [Tickets -> Row \cup {Nil}],
         \A t \in Created' : RowSound(t, tickets'[t]),
         statusRows' \subseteq CustomStatuses, UNCHANGED <<category, anchors>>, now' \in Nat,
         announced' \in [Tickets -> 0..2], responses' \subseteq Tickets,
         jobs' \in Nat, crashes' \in Nat
  PROVE  IInv'
<1>1. job' \in [Procs -> Job]
  BY DEF IInv, TypeOK, JobSound
<1>2. \A q \in Procs : JobSound(job'[q], Created')
  BY JobSoundMonotone DEF IInv, TypeOK
<1>3. \A t \in Created' : RowSound(t, tickets[t])'
  BY DEF RowSound
<1>4. \A q \in Procs : JobSound(job[q], Created)'
  BY <1>2 DEF JobSound, RowSound
<1>5. Anchored'
  BY DEF IInv, Anchored, Anchor
<1> QED
  BY <1>1, <1>3, <1>4, <1>5 DEF IInv, TypeOK

\* The same when the table does not change ...
LEMMA QuietStep ==
  ASSUME IInv, NEW p \in Procs, NEW j, job' = [job EXCEPT ![p] = j], JobSound(j, Created),
         UNCHANGED <<tickets, statusRows, category, anchors, now, announced, crashes>>,
         responses' \subseteq Tickets, jobs' \in Nat
  PROVE  IInv'
<1>1. Created' = Created
  BY DEF Created
<1> QED
  BY <1>1, ProcStep DEF IInv, TypeOK

\* ... and when the row in memory is written.
LEMMA WriteStep ==
  ASSUME IInv, NEW p \in Procs, NEW j, job' = [job EXCEPT ![p] = j],
         Write(p), job[p].row # Nil, JobSound(j, Created'),
         UNCHANGED <<statusRows, category, anchors, now, announced, responses, jobs, crashes>>
  PROVE  IInv'
<1>1. job[p].tk \in Tickets /\ RowSound(job[p].tk, job[p].row) /\ job[p].row \in Row
  BY DEF IInv, JobSound, RowSound
<1>2. tickets' \in [Tickets -> Row \cup {Nil}] /\ Created \subseteq Created'
  BY <1>1, NilDistinct DEF IInv, TypeOK, Write, Created
<1>3. \A t \in Created' : RowSound(t, tickets'[t])
  BY <1>1 DEF IInv, TypeOK, Write, Created
<1> QED
  BY <1>2, <1>3, ProcStep DEF IInv, TypeOK

-----------------------------------------------------------------------------
LEMMA RequestSaves ==
  ASSUME IInv, NEW p \in Procs, NEW t \in Tickets, NEW r, RowSound(t, r),
         Request(p), WillSave(p, t, r)
  PROVE  IInv'
<1> DEFINE j == [Idle EXCEPT !.step = "save", !.tk = t, !.row = r]
<1>1. job' = [job EXCEPT ![p] = j] /\ UNCHANGED <<tickets, statusRows, category, anchors, now, announced, crashes>>
      /\ responses' \subseteq Tickets /\ jobs' \in Nat
  BY DEF WillSave, Request, IInv, TypeOK
<1>2. JobSound(j, Created)
  BY WillSaveSound
<1> HIDE DEF j
<1> QED
  BY <1>1, <1>2, QuietStep

LEMMA CreatedSound ==
  ASSUME IInv, NEW t \in Created
  PROVE  t \in Tickets /\ RowSound(t, tickets[t]) /\ tickets[t] \in Row
BY DEF IInv, Created, RowSound

LEMMA BeginInvariant ==
  ASSUME IInv, NEW p \in Procs, Begin(p)
  PROVE  IInv'
<1>1. ASSUME NEW t \in Tickets, Create(p, t) PROVE IInv'
  <2>1. PICK r : RowSound(t, r) /\ tickets' = [tickets EXCEPT ![t] = r]
    BY <1>1, NewTicketSound DEF Create, IInv, TypeOK
  <2>2. r \in Row /\ r # Nil
    BY <2>1, NilDistinct DEF RowSound
  <2>3. tickets' \in [Tickets -> Row \cup {Nil}] /\ Created \subseteq Created'
    BY <2>1, <2>2 DEF IInv, TypeOK, Created
  <2>4. \A x \in Created' : RowSound(x, tickets'[x])
    BY <2>1, <2>2 DEF IInv, TypeOK, Created
  <2>5. job' = [job EXCEPT ![p] = job[p]] /\ JobSound(job[p], Created')
    BY <1>1, <2>3, JobSoundMonotone DEF Create, IInv, TypeOK
  <2>6. /\ statusRows' \subseteq CustomStatuses /\ UNCHANGED <<category, anchors>> /\ now' \in Nat
        /\ announced' \in [Tickets -> 0..2] /\ responses' \subseteq Tickets
        /\ jobs' \in Nat /\ crashes' \in Nat
    BY <1>1 DEF Create, Request, IInv, TypeOK
  <2> QED
    BY <2>3, <2>4, <2>5, <2>6, ProcStep
<1>2. ASSUME NEW t \in Tickets, Assign(p, t) PROVE IInv'
  BY <1>2, CreatedSound, AssignedSound, RequestSaves DEF Assign
<1>3. ASSUME NEW t \in Tickets, Unassign(p, t) PROVE IInv'
  <2>1. RowSound(t, Unassigned(tickets[t]))
    BY <1>3, CreatedSound, UnassignedSound DEF Unassign
  <2> QED
    BY <1>3, <2>1, RequestSaves DEF Unassign
<1>4. ASSUME NEW t \in Tickets, EditDetail(p, t) PROVE IInv'
  BY <1>4, CreatedSound, EditedSound, RequestSaves DEF EditDetail
<1>5. ASSUME NEW t \in Tickets, ChangeStatus(p, t) PROVE IInv'
  <2>1. PICK v \in BuiltIn \cup CustomStatuses : WillSave(p, t, WithStatus(tickets[t], v, now))
    BY <1>5, LifecycleConstants DEF ChangeStatus
  <2>2. RowSound(t, WithStatus(tickets[t], v, now))
    BY <1>5, CreatedSound, WithStatusSound DEF ChangeStatus, IInv, TypeOK
  <2> QED
    BY <1>5, <2>1, <2>2, RequestSaves DEF ChangeStatus
<1>6. ASSUME NEW t \in Tickets, ApplyPolicy(p, t) PROVE IInv'
  <2>1. RowSound(t, WithPolicy(tickets[t], now))
    BY <1>6, CreatedSound, WithPolicySound DEF ApplyPolicy, IInv, TypeOK
  <2> QED
    BY <1>6, <2>1, RequestSaves DEF ApplyPolicy
<1>7. ASSUME NEW t \in Tickets, EndChat(p, t) PROVE IInv'
  <2>1. RowSound(t, ChatOver(tickets[t]))
    BY <1>7, CreatedSound, ChatOverSound DEF EndChat
  <2> QED
    BY <1>7, <2>1, RequestSaves DEF EndChat
<1>8. ASSUME NEW t \in Tickets, AddReply(p, t) PROVE IInv'
  <2> DEFINE j == [Idle EXCEPT !.step = "reply", !.tk = t, !.row = tickets[t]]
  <2>1. RowSound(t, tickets[t]) /\ tickets[t] \in Row /\ tickets[t] # Nil
    BY <1>8, CreatedSound, NilDistinct DEF AddReply
  <2>2. j \in Job
    BY <2>1, IdleSound DEF JobSound, Job, Steps
  <2>3. JobSound(j, Created)
    BY <2>1, <2>2 DEF JobSound, Idle, NoRows
  <2>4. job' = [job EXCEPT ![p] = j] /\ UNCHANGED <<tickets, statusRows, category, anchors, now, announced, responses, crashes>>
        /\ jobs' \in Nat
    BY <1>8 DEF AddReply, Request, IInv, TypeOK
  <2> HIDE DEF j
  <2> QED
    BY <2>3, <2>4, QuietStep DEF IInv, TypeOK
<1>9. ASSUME NEW t \in Tickets, Snooze(p, t) PROVE IInv'
  <2>1. PICK d \in Nat :
          \/ /\ tickets[t].status \in OpenStatuses
             /\ WillSave(p, t, Snoozed(tickets[t], now + d))
          \/ /\ tickets[t].status = "snoozed"
             /\ job' = [job EXCEPT ![p] = [Idle EXCEPT !.step = "unsnooze", !.tk = t,
                                           !.row = Awake(tickets[t]), !.at = now + d]]
             /\ UNCHANGED <<tickets, statusRows, category, anchors, now, announced, responses, crashes>>
    BY <1>9, LifecycleConstants DEF Snooze
  <2>2. now + d \in Nat /\ RowSound(t, tickets[t]) /\ Request(p)
    BY <1>9, CreatedSound DEF Snooze, IInv, TypeOK
  <2>3. CASE /\ tickets[t].status \in OpenStatuses
             /\ WillSave(p, t, Snoozed(tickets[t], now + d))
    BY <2>2, <2>3, SnoozedSound, RequestSaves
  <2>4. CASE /\ job' = [job EXCEPT ![p] = [Idle EXCEPT !.step = "unsnooze", !.tk = t,
                                           !.row = Awake(tickets[t]), !.at = now + d]]
             /\ UNCHANGED <<tickets, statusRows, category, anchors, now, announced, responses, crashes>>
    <3> DEFINE r == Awake(tickets[t])
               j == [Idle EXCEPT !.step = "unsnooze", !.tk = t, !.row = r, !.at = now + d]
    <3>1. RowSound(t, r) /\ r \in Row /\ r # Nil
      BY <2>2, AwakeSound, NilDistinct DEF RowSound
    <3> HIDE DEF r
    <3>2. j \in Job
      BY <2>2, <3>1, IdleSound DEF JobSound, Job, Steps
    <3>3. JobSound(j, Created)
      BY <3>1, <3>2 DEF JobSound, Idle, NoRows
    <3>4. job' = [job EXCEPT ![p] = j] /\ jobs' \in Nat
      BY <2>2, <2>4 DEF Request, IInv, TypeOK, r
    <3> HIDE DEF j
    <3> QED
      BY <2>4, <3>3, <3>4, QuietStep DEF IInv, TypeOK
  <2> QED
    BY <2>1, <2>3, <2>4
<1>10. ASSUME NEW t \in Tickets, Unsnooze(p, t) PROVE IInv'
  <2>1. RowSound(t, Awake(tickets[t]))
    BY <1>10, CreatedSound, AwakeSound DEF Unsnooze
  <2> QED
    BY <1>10, <2>1, RequestSaves DEF Unsnooze
<1>11. ASSUME NEW t \in Tickets, FindMerge(p, t) PROVE IInv'
  <2>1. PICK target \in Tickets \ {t} :
          /\ job' = [job EXCEPT ![p] = [Idle EXCEPT !.step = "merge", !.tk = t, !.target = target]]
          /\ UNCHANGED <<tickets, statusRows, category, anchors, now, announced, responses, crashes>>
    BY <1>11 DEF FindMerge, Created
  <2> DEFINE j == [Idle EXCEPT !.step = "merge", !.tk = t, !.target = target]
  <2>2. j \in Job
    BY IdleSound DEF JobSound, Job, Steps
  <2>3. JobSound(j, Created)
    BY <1>11, <2>2 DEF JobSound, Idle, NoRows, FindMerge
  <2>4. jobs' = jobs + 1
    BY <1>11 DEF FindMerge, Request
  <2>5. jobs' \in Nat
    BY <2>4 DEF IInv, TypeOK
  <2>6. job' = [job EXCEPT ![p] = j]
    BY <2>1
  <2> HIDE DEF j
  <2> QED
    BY <2>1, <2>3, <2>5, <2>6, QuietStep DEF IInv, TypeOK
<1>12. ASSUME NEW c \in CustomStatuses, DeleteStatus(p, c) PROVE IInv'
  <2>1. \A t \in Created : RowSound(t, [tickets[t] EXCEPT !.custom = Nil])
                            /\ [tickets[t] EXCEPT !.custom = Nil] \in Row
    <3> SUFFICES ASSUME NEW t \in Created
                 PROVE  RowSound(t, [tickets[t] EXCEPT !.custom = Nil])
      BY DEF RowSound
    <3> QED
      BY CreatedSound, ClearedCustomSound
  <2>2. tickets' \in [Tickets -> Row \cup {Nil}] /\ Created' = Created
    <3> DEFINE cleared(t) == [tickets[t] EXCEPT !.custom = Nil]
               row(t) == IF t \in Created /\ tickets[t].custom = c THEN cleared(t) ELSE tickets[t]
    <3>1. tickets' = [t \in Tickets |-> row(t)]
      BY <1>12 DEF DeleteStatus
    <3>2. ASSUME NEW t \in Tickets
          PROVE  row(t) \in Row \cup {Nil} /\ (row(t) # Nil <=> t \in Created)
      <4>1. t \in Created <=> tickets[t] # Nil
        BY DEF Created
      <4>2. t \in Created => cleared(t) \in Row /\ cleared(t) # Nil
        BY <2>1, NilDistinct
      <4>3. tickets[t] \in Row \cup {Nil}
        BY DEF IInv, TypeOK
      <4> HIDE DEF cleared
      <4> QED
        BY <4>1, <4>2, <4>3
    <3> HIDE DEF row
    <3>3. \A t \in Tickets : tickets'[t] = row(t)
      BY <3>1
    <3>4. Created' = {t \in Tickets : tickets'[t] # Nil} /\ Created \subseteq Tickets
      BY DEF Created
    <3> QED
      BY <3>1, <3>2, <3>3, <3>4
  <2>3. \A t \in Created' : RowSound(t, tickets'[t])
    BY <1>12, <2>1, <2>2, CreatedSound DEF DeleteStatus, Created
  <2>4. job' = [job EXCEPT ![p] = job[p]] /\ JobSound(job[p], Created')
    BY <1>12, <2>2 DEF DeleteStatus, IInv, TypeOK
  <2>5. /\ statusRows' \subseteq CustomStatuses /\ UNCHANGED <<category, anchors>> /\ now' \in Nat
        /\ announced' \in [Tickets -> 0..2] /\ responses' \subseteq Tickets
        /\ jobs' \in Nat /\ crashes' \in Nat
    BY <1>12 DEF DeleteStatus, Request, IInv, TypeOK
  <2> QED
    BY <2>2, <2>3, <2>4, <2>5, ProcStep
<1>13. ASSUME NEW c \in CustomStatuses, UpdateStatus(p, c) PROVE IInv'
  <2>1. PICK k \in Categories :
          /\ category' = [category EXCEPT ![c] = k]
          /\ anchors' = [anchors EXCEPT ![c] = @ \cup {CategoryAnchor(k)}]
    BY <1>13, RowConstants DEF UpdateStatus
  <2>2. UNCHANGED <<tickets, statusRows, now, job, announced, responses, crashes>> /\ jobs' \in Nat
    BY <1>13 DEF UpdateStatus, Request, IInv, TypeOK
  <2>3. \A x \in CustomStatuses : anchors[x] \subseteq anchors'[x]
    BY <2>1 DEF IInv, TypeOK
  <2>4. \A t, r : RowSound(t, r) /\ r \in Row => RowSound(t, r)'
    BY <2>3, NilDistinct DEF RowSound, Row
  <2>5. Anchored'
    <3> SUFFICES ASSUME NEW x \in CustomStatuses PROVE CategoryAnchor(category'[x]) \in anchors'[x]
      BY DEF Anchored, Anchor
    <3>1. CASE x = c
      BY <2>1, <3>1 DEF IInv, TypeOK
    <3>2. CASE x # c
      BY <2>1, <3>2 DEF IInv, TypeOK, Anchored, Anchor
    <3> QED
      BY <3>1, <3>2
  <2>6. Created' = Created
    BY <2>2 DEF Created
  <2>7. \A t \in Created' : RowSound(t, tickets[t])'
    BY <2>2, <2>4, <2>6, CreatedSound
  <2>8. \A q \in Procs : JobSound(job[q], Created)'
    <3> SUFFICES ASSUME NEW q \in Procs PROVE JobSound(job[q], Created)'
      OBVIOUS
    <3>1. JobSound(job[q], Created)
      BY DEF IInv
    <3>2. job'[q] = job[q]
      BY <2>2
    <3>3. job[q].row # Nil => RowSound(job[q].tk, job[q].row)'
      BY <2>3, <3>1, <3>2, NilDistinct DEF JobSound, RowSound, Row
    <3>4. \A t \in Tickets : job[q].rows[t] # Nil => RowSound(t, job[q].rows[t])'
      BY <2>3, <3>1, <3>2, NilDistinct DEF JobSound, RowSound, Row
    <3> QED
      BY <2>2, <2>6, <3>1, <3>2, <3>3, <3>4 DEF JobSound, RowSound
  <2>9. /\ category' \in [CustomStatuses -> Categories]
        /\ anchors' \in [CustomStatuses -> SUBSET BuiltIn]
    BY <2>1, AnchorBuiltIn DEF IInv, TypeOK
  <2> QED
    BY <2>2, <2>5, <2>7, <2>8, <2>9 DEF IInv, TypeOK
<1> QED
  BY <1>1, <1>2, <1>3, <1>4, <1>5, <1>6, <1>7, <1>8, <1>9, <1>10, <1>11, <1>12, <1>13 DEF Begin

-----------------------------------------------------------------------------
LEMMA FinishInvariant ==
  ASSUME IInv, NEW p \in Procs, Finish(p)
  PROVE  IInv'
<1> DEFINE k == job[p]
<1>0. JobSound(k, Created) /\ k \in Job
  BY DEF IInv, JobSound
<1>1. CASE Save(p)
  BY <1>0, <1>1, IdleSound, WriteStep DEF Save, JobSound
<1>2. CASE InsertReply(p)
  <2>1. RowSound(k.tk, k.row) /\ k.tk \in Tickets /\ k.step = "reply"
    BY <1>0, <1>2 DEF InsertReply, JobSound
  <2>2. now \in Nat /\ responses' \subseteq Tickets
        /\ UNCHANGED <<tickets, statusRows, category, anchors, now, announced, jobs, crashes>>
    BY <1>2, <2>1 DEF InsertReply, IInv, TypeOK
  <2>3. CASE k.row.firstResponseAt = Nil
    <3> DEFINE r == Responded(k.row, now)
               j == [k EXCEPT !.step = "save", !.row = r]
    <3>1. RowSound(k.tk, r) /\ r \in Row
      BY <2>1, <2>2, RespondedSound DEF RowSound
    <3>2. job' = [job EXCEPT ![p] = j]
      BY <1>2, <2>3 DEF InsertReply
    <3> HIDE DEF r
    <3>3. j \in Job
      BY <1>0, <3>1 DEF Job, Steps
    <3>4. JobSound(j, Created)
      BY <1>0, <2>1, <3>1, <3>3, NilDistinct DEF JobSound, Job
    <3> HIDE DEF j
    <3> QED
      BY <2>2, <3>2, <3>4, QuietStep DEF IInv, TypeOK
  <2>4. CASE k.row.firstResponseAt # Nil
    <3>1. job' = [job EXCEPT ![p] = Idle]
      BY <1>2, <2>4 DEF InsertReply
    <3> QED
      BY <2>2, <3>1, IdleSound, QuietStep DEF IInv, TypeOK
  <2> QED
    BY <2>3, <2>4
<1>3. CASE SaveUnsnooze(p)
  <2>1. k.row # Nil /\ k.tk \in Tickets /\ RowSound(k.tk, k.row) /\ k.at \in Nat
    BY <1>0, <1>3 DEF SaveUnsnooze, JobSound, Job
  <2>2. CASE Writable(p)
    <3> DEFINE j == [Idle EXCEPT !.step = "resnooze", !.tk = k.tk, !.at = k.at]
    <3>1. j \in Job
      BY <2>1, IdleSound DEF JobSound, Job, Steps
    <3>2. k.tk \in Created'
      BY <1>3, <2>1, <2>2, NilDistinct DEF SaveUnsnooze, Write, Created, IInv, TypeOK, RowSound
    <3>3. JobSound(j, Created')
      BY <3>1, <3>2 DEF JobSound, Idle, NoRows
    <3>4. job' = [job EXCEPT ![p] = j]
      BY <1>3, <2>2 DEF SaveUnsnooze
    <3> HIDE DEF j
    <3> QED
      BY <1>3, <2>1, <3>3, <3>4, WriteStep DEF SaveUnsnooze
  <2>3. CASE ~Writable(p)
    <3>1. job' = [job EXCEPT ![p] = Idle]
      BY <1>3, <2>3 DEF SaveUnsnooze
    <3> QED
      BY <1>3, <2>1, <3>1, IdleSound, WriteStep DEF SaveUnsnooze
  <2> QED
    BY <2>2, <2>3
<1>4. CASE Resnooze(p)
  <2> DEFINE r == Snoozed(tickets[k.tk], k.at)
             j == [Idle EXCEPT !.step = "save", !.tk = k.tk, !.row = r]
  <2>1. k.tk \in Created /\ k.at \in Nat
    BY <1>0, <1>4 DEF Resnooze, JobSound, Job
  <2>2. UNCHANGED <<tickets, statusRows, category, anchors, now, announced, responses, jobs, crashes>>
    BY <1>4 DEF Resnooze
  <2>3. CASE tickets[k.tk].status \in OpenStatuses /\ k.at >= now
    <3>1. RowSound(k.tk, r)
      BY <2>1, <2>3, CreatedSound, SnoozedSound
    <3>2. job' = [job EXCEPT ![p] = j]
      BY <1>4, <2>3 DEF Resnooze
    <3> HIDE DEF r
    <3>3. JobSound(j, Created)
      BY <2>1, <3>1, WillSaveSound DEF Created
    <3> HIDE DEF j
    <3> QED
      BY <2>2, <3>2, <3>3, QuietStep DEF IInv, TypeOK
  <2>4. CASE ~(tickets[k.tk].status \in OpenStatuses /\ k.at >= now)
    <3>1. job' = [job EXCEPT ![p] = Idle]
      BY <1>4, <2>4 DEF Resnooze
    <3> QED
      BY <2>2, <3>1, IdleSound, QuietStep DEF IInv, TypeOK
  <2> QED
    BY <2>3, <2>4
<1>5. CASE CommitMerge(p)
  <2> DEFINE r == MergedInto(tickets[k.tk], k.target, now)
  <2>1. k.tk \in Created /\ k.target \in Tickets \ {k.tk} /\ now \in Nat
    BY <1>0, <1>5 DEF CommitMerge, JobSound, IInv, TypeOK
  <2>2. RowSound(k.tk, r) /\ r \in Row /\ r # Nil
    BY <2>1, CreatedSound, MergedIntoSound, NilDistinct DEF RowSound
  <2>3. tickets' = [tickets EXCEPT ![k.tk] = r]
    BY <1>5, <2>1 DEF CommitMerge, IInv, TypeOK
  <2> HIDE DEF r
  <2>4. tickets' \in [Tickets -> Row \cup {Nil}] /\ Created \subseteq Created'
    BY <2>1, <2>2, <2>3 DEF IInv, TypeOK, Created
  <2>5. \A t \in Created' : RowSound(t, tickets'[t])
    BY <2>1, <2>2, <2>3 DEF IInv, TypeOK, Created
  <2>6. job' = [job EXCEPT ![p] = Idle]
        /\ UNCHANGED <<statusRows, category, anchors, now, announced, responses, jobs, crashes>>
    BY <1>5 DEF CommitMerge
  <2> QED
    BY <2>4, <2>5, <2>6, IdleSound, ProcStep DEF IInv, TypeOK
<1> QED
  BY <1>1, <1>2, <1>3, <1>4, <1>5 DEF Finish

LEMMA ContinueSound ==
  ASSUME NEW C, NEW j, JobSound(j, C), NEW step \in {"wake", "act"},
         j.todo \subseteq C, step = "act" => j.value # Nil
  PROVE  JobSound(Continue(step, j), C)
<1>1. CASE j.todo = {}
  BY <1>1, IdleSound DEF Continue
<1>2. CASE j.todo # {}
  <2> DEFINE n == [j EXCEPT !.step = step, !.tk = Nil, !.row = Nil]
  <2>1. n \in Job
    BY DEF JobSound, Job, Steps
  <2>2. JobSound(n, C)
    BY <2>1 DEF JobSound, Job
  <2> QED
    BY <1>2, <2>2 DEF Continue
<1> QED
  BY <1>1, <1>2

LEMMA SavingSound ==
  ASSUME NEW C, NEW j, JobSound(j, C), NEW step \in {"wakeSave", "actSave"},
         j.todo \subseteq C, step = "actSave" => j.value # Nil,
         NEW t \in Tickets, NEW r, RowSound(t, r)
  PROVE  JobSound([j EXCEPT !.step = step, !.tk = t, !.row = r], C)
<1> DEFINE n == [j EXCEPT !.step = step, !.tk = t, !.row = r]
<1>1. r \in Row /\ r # Nil
  BY NilDistinct DEF RowSound
<1>2. n \in Job
  BY <1>1 DEF JobSound, Job, Steps
<1> QED
  BY <1>1, <1>2 DEF JobSound, Job

LEMMA RestSound ==
  ASSUME NEW C, NEW j, JobSound(j, C), NEW t
  PROVE  JobSound([j EXCEPT !.todo = @ \ {t}], C)
<1> DEFINE n == [j EXCEPT !.todo = @ \ {t}]
<1>1. n \in Job
  BY DEF JobSound, Job
<1> QED
  BY <1>1 DEF JobSound, Job

LEMMA CheckedSound ==
  ASSUME NEW C, NEW j, JobSound(j, C), \A t \in j.todo : j.rows[t] # Nil
  PROVE  JobSound(Checked(j), C)
<1>1. Checked(j) \in Job
  BY DEF JobSound, Job, Steps, Checked
<1> QED
  BY <1>1 DEF JobSound, Job, Checked

LEMMA WakeInvariant ==
  ASSUME IInv, NEW p \in Procs, Wake(p)
  PROVE  IInv'
<1> DEFINE k == job[p]
<1>0. JobSound(k, Created) /\ k \in Job
  BY DEF IInv, JobSound
<1>1. CASE ListSnoozed(p)
  <2> DEFINE due == {t \in Created : SnoozeDue(tickets[t], now)}
             j == [Idle EXCEPT !.step = "wake", !.todo = due]
  <2>1. job' = [job EXCEPT ![p] = j]
        /\ UNCHANGED <<tickets, statusRows, category, anchors, now, announced, responses, jobs, crashes>>
    BY <1>1 DEF ListSnoozed
  <2>2. due \subseteq Created /\ Created \subseteq Tickets
    BY DEF Created
  <2> HIDE DEF due
  <2>3. j \in Job
    BY <2>2, IdleSound DEF JobSound, Job, Steps
  <2>4. JobSound(j, Created)
    BY <2>2, <2>3 DEF JobSound, Idle, NoRows
  <2> HIDE DEF j
  <2> QED
    BY <2>1, <2>4, QuietStep DEF IInv, TypeOK
<1>2. CASE WakeNext(p)
  <2> DEFINE rest(t) == [k EXCEPT !.todo = @ \ {t}]
  <2>1. PICK t \in k.todo :
          /\ job' = [job EXCEPT ![p] =
                        IF tickets[t].status = "snoozed"
                        THEN [rest(t) EXCEPT !.step = "wakeSave", !.tk = t, !.row = Awake(tickets[t])]
                        ELSE Continue("wake", rest(t))]
          /\ k.step = "wake"
          /\ UNCHANGED <<tickets, statusRows, category, anchors, now, announced, responses, jobs, crashes>>
    BY <1>2 DEF WakeNext
  <2> DEFINE m == rest(t)
  <2>2. JobSound(m, Created)
    BY <1>0, RestSound
  <2>3. m.todo \subseteq Created /\ t \in Created /\ t \in Tickets
    BY <1>0, <2>1 DEF JobSound, Job, Created
  <2> HIDE DEF rest, m
  <2>4. JobSound(Continue("wake", m), Created)
    BY <2>2, <2>3, ContinueSound
  <2>5. RowSound(t, Awake(tickets[t]))
    BY <2>3, CreatedSound, AwakeSound
  <2>6. JobSound([m EXCEPT !.step = "wakeSave", !.tk = t, !.row = Awake(tickets[t])], Created)
    BY <2>2, <2>3, <2>5, SavingSound
  <2>7. PICK j : JobSound(j, Created) /\ job' = [job EXCEPT ![p] = j]
    BY <2>1, <2>4, <2>6 DEF m
  <2> QED
    BY <2>1, <2>7, QuietStep DEF IInv, TypeOK
<1>3. CASE SaveAwake(p)
  <2>1. k.row # Nil /\ k.todo \subseteq Created
    BY <1>0, <1>3 DEF SaveAwake, JobSound
  <2>2. JobSound(Continue("wake", k), Created)
    BY <1>0, <2>1, ContinueSound
  <2>3. Created \subseteq Created'
    BY <1>0, <1>3, <2>1, NilDistinct DEF SaveAwake, Write, Created, IInv, TypeOK, JobSound, RowSound
  <2>4. JobSound(Continue("wake", k), Created')
    BY <2>2, <2>3, JobSoundMonotone
  <2> QED
    BY <1>3, <2>1, <2>4, WriteStep DEF SaveAwake
<1> QED
  BY <1>1, <1>2, <1>3 DEF Wake

LEMMA CheckInvariant ==
  ASSUME IInv, NEW p \in Procs, Check(p)
  PROVE  IInv'
<1> DEFINE k == job[p]
<1>0. JobSound(k, Created) /\ k \in Job
  BY DEF IInv, JobSound
<1>1. CASE StartCheck(p)
  <2> DEFINE j == [Idle EXCEPT !.step = "scan", !.at = now]
  <2>1. job' = [job EXCEPT ![p] = j] /\ now \in Nat
        /\ UNCHANGED <<tickets, statusRows, category, anchors, now, announced, responses, jobs, crashes>>
    BY <1>1 DEF StartCheck, IInv, TypeOK
  <2>2. j \in Job
    BY <2>1, IdleSound DEF JobSound, Job, Steps
  <2>3. JobSound(j, Created)
    BY <2>2 DEF JobSound, Idle, NoRows
  <2> HIDE DEF j
  <2> QED
    BY <2>1, <2>3, QuietStep DEF IInv, TypeOK
<1>2. CASE ScanStatus(p)
  <2> DEFINE n == k.scanned + 1
             rows(f) == [t \in Tickets |-> IF t \in f THEN tickets[t] ELSE Nil]
             j(f) == [k EXCEPT !.scanned = n, !.todo = f, !.rows = rows(f),
                               !.step = IF f = {} THEN "scan" ELSE "check"]
  <2>1. /\ k.step = "scan"
        /\ UNCHANGED <<tickets, statusRows, category, anchors, now, announced, responses, jobs, crashes>>
    BY <1>2 DEF ScanStatus
  <2>2. CASE job' = [job EXCEPT ![p] = Idle]
    BY <2>1, <2>2, IdleSound, QuietStep DEF IInv, TypeOK
  <2>3. ASSUME n <= Len(SlaOpenStatuses), NEW found \in SUBSET Created, job' = [job EXCEPT ![p] = j(found)]
        PROVE  IInv'
    <3>1. n \in 0..Len(SlaOpenStatuses)
      BY <1>0, <2>3 DEF Job, SlaOpenStatuses
    <3>2. found \subseteq Tickets /\ rows(found) \in [Tickets -> Row \cup {Nil}]
      BY DEF Created, IInv, TypeOK
    <3>3. /\ \A t \in Tickets : rows(found)[t] # Nil => RowSound(t, rows(found)[t])
          /\ \A t \in found : rows(found)[t] # Nil
      BY DEF IInv, Created
    <3> DEFINE rf == rows(found)
               jf == [k EXCEPT !.scanned = n, !.todo = found, !.rows = rf,
                               !.step = IF found = {} THEN "scan" ELSE "check"]
    <3>4. job' = [job EXCEPT ![p] = jf]
      BY <2>3
    <3>r. rf \in [Tickets -> Row \cup {Nil}]
          /\ (\A t \in Tickets : rf[t] # Nil => RowSound(t, rf[t])) /\ \A t \in found : rf[t] # Nil
      BY <3>2, <3>3
    <3> HIDE DEF n, rows, j, rf
    <3>5. jf \in Job
      BY <1>0, <3>1, <3>2, <3>r DEF Job, Steps
    <3>6. JobSound(jf, Created)
      BY <1>0, <2>1, <3>2, <3>r, <3>5 DEF JobSound, Job
    <3> HIDE DEF jf
    <3> QED
      BY <2>1, <3>4, <3>6, QuietStep DEF IInv, TypeOK
  <2>4. \/ job' = [job EXCEPT ![p] = Idle]
        \/ n <= Len(SlaOpenStatuses) /\ \E found \in SUBSET Created : job' = [job EXCEPT ![p] = j(found)]
    BY <1>2 DEF ScanStatus, Listings
  <2> QED
    BY <2>2, <2>3, <2>4
<1>3. CASE CheckNext(p)
  <2> DEFINE rest(t) == [k EXCEPT !.todo = @ \ {t}, !.rows[t] = Nil]
  <2>1. PICK t \in k.todo :
          /\ job' = [job EXCEPT ![p] =
                        IF ~k.rows[t].breached /\ Overdue(k.rows[t], k.at)
                        THEN [rest(t) EXCEPT !.step = "checkSave", !.tk = t, !.row = Breached(k.rows[t])]
                        ELSE Checked(rest(t))]
          /\ k.step = "check"
          /\ UNCHANGED <<tickets, statusRows, category, anchors, now, announced, responses, jobs, crashes>>
    BY <1>3 DEF CheckNext
  <2> DEFINE m == rest(t)
             r == Breached(k.rows[t])
             s == [m EXCEPT !.step = "checkSave", !.tk = t, !.row = r]
  <2>2. t \in Tickets /\ RowSound(t, k.rows[t]) /\ \A x \in k.todo : k.rows[x] # Nil
    BY <1>0, <2>1 DEF JobSound, Job
  <2>3. RowSound(t, r) /\ r \in Row /\ r # Nil
    BY <2>2, BreachedSound, NilDistinct DEF RowSound
  <2>4. m \in Job
    BY <1>0, <2>2 DEF Job
  <2>5. JobSound(m, Created) /\ \A x \in m.todo : m.rows[x] # Nil
    BY <1>0, <2>1, <2>2, <2>4 DEF JobSound, Job
  <2>6. job' = [job EXCEPT ![p] = IF ~k.rows[t].breached /\ Overdue(k.rows[t], k.at)
                                   THEN s ELSE Checked(m)]
    BY <2>1
  <2> HIDE DEF m, r
  <2>7. s \in Job
    BY <2>2, <2>3, <2>5 DEF JobSound, Job, Steps
  <2>8. JobSound(s, Created)
    BY <2>2, <2>3, <2>5, <2>7 DEF JobSound, Job
  <2>9. JobSound(Checked(m), Created)
    BY <2>5, CheckedSound
  <2> HIDE DEF s
  <2>10. PICK j : JobSound(j, Created) /\ job' = [job EXCEPT ![p] = j]
    BY <2>6, <2>8, <2>9
  <2> QED
    BY <2>1, <2>10, QuietStep DEF IInv, TypeOK
<1>4. CASE SaveBreach(p)
  <2>1. k.row # Nil /\ k.tk \in Tickets /\ k.step = "checkSave"
    BY <1>0, <1>4 DEF SaveBreach, JobSound
  <2>2. Created \subseteq Created'
    BY <1>0, <1>4, <2>1, NilDistinct DEF SaveBreach, Write, Created, IInv, TypeOK, JobSound, RowSound
  <2>3. JobSound(k, Created')
    BY <1>0, <2>2, JobSoundMonotone
  <2> DEFINE j == [k EXCEPT !.step = "announce"]
  <2>4. j \in Job
    BY <1>0 DEF Job, Steps
  <2>5. JobSound(j, Created')
    BY <2>1, <2>3, <2>4 DEF JobSound, Job
  <2>6. JobSound(Checked(k), Created')
    BY <2>3, <1>4, CheckedSound DEF SaveBreach, JobSound
  <2>7. job' = [job EXCEPT ![p] = IF Writable(p) THEN j ELSE Checked(k)]
    BY <1>4 DEF SaveBreach
  <2> HIDE DEF j
  <2>8. PICK n : JobSound(n, Created') /\ job' = [job EXCEPT ![p] = n]
    BY <2>5, <2>6, <2>7
  <2> QED
    BY <1>4, <2>1, <2>8, WriteStep DEF SaveBreach
<1>5. CASE Announce(p)
  <2>1. k.tk \in Tickets /\ k.step = "announce"
    BY <1>0, <1>5 DEF Announce, JobSound
  <2>2. JobSound(Checked(k), Created)
    BY <1>0, <2>1, CheckedSound DEF JobSound
  <2>a. announced \in [Tickets -> 0..2]
        /\ announced' = [announced EXCEPT ![k.tk] = IF @ < 2 THEN @ + 1 ELSE @]
    BY <1>5 DEF Announce, IInv, TypeOK
  <2>b. (IF announced[k.tk] < 2 THEN announced[k.tk] + 1 ELSE announced[k.tk]) \in 0..2
    BY <2>1, <2>a
  <2>3. announced' \in [Tickets -> 0..2]
    BY <2>a, <2>b
  <2>4. Created' = Created /\ job' = [job EXCEPT ![p] = Checked(k)]
        /\ UNCHANGED <<tickets, statusRows, category, anchors, now, responses, jobs, crashes>>
    BY <1>5 DEF Announce, Created
  <2> QED
    BY <2>2, <2>3, <2>4, ProcStep DEF IInv, TypeOK
<1> QED
  BY <1>1, <1>2, <1>3, <1>4, <1>5 DEF Check

LEMMA RulesInvariant ==
  ASSUME IInv, NEW p \in Procs, Rules(p)
  PROVE  IInv'
<1> DEFINE k == job[p]
<1>0. JobSound(k, Created) /\ k \in Job
  BY DEF IInv, JobSound
<1>1. CASE MatchRule(p)
  <2>1. PICK v \in BuiltIn \cup CustomStatuses, ids \in SUBSET Created :
          job' = [job EXCEPT ![p] = [Idle EXCEPT !.step = "act", !.value = v, !.todo = ids]]
    BY <1>1, LifecycleConstants DEF MatchRule
  <2> DEFINE j == [Idle EXCEPT !.step = "act", !.value = v, !.todo = ids]
  <2>2. v # Nil /\ Created \subseteq Tickets
    BY NilDistinct DEF Created
  <2>3. j \in Job
    BY <2>2, IdleSound DEF JobSound, Job, Steps
  <2>4. JobSound(j, Created)
    BY <2>2, <2>3 DEF JobSound, Idle, NoRows
  <2>5. job' = [job EXCEPT ![p] = j]
    BY <2>1
  <2> HIDE DEF j
  <2>6. UNCHANGED <<tickets, statusRows, category, anchors, now, announced, responses, jobs, crashes>>
    BY <1>1 DEF MatchRule
  <2> QED
    BY <2>4, <2>5, <2>6, QuietStep DEF IInv, TypeOK
<1>2. CASE ActNext(p)
  <2> DEFINE rest(t) == [k EXCEPT !.todo = @ \ {t}]
  <2>1. /\ k.step = "act" /\ k.value # Nil /\ k.todo \subseteq Created /\ k.value \in BuiltIn \cup CustomStatuses
        /\ now \in Nat /\ Created \subseteq Tickets
        /\ UNCHANGED <<statusRows, category, anchors, now, announced, responses, jobs, crashes>>
    BY <1>0, <1>2 DEF ActNext, JobSound, Job, IInv, TypeOK, Created
  <2>2. PICK t \in k.todo :
          \/ /\ tickets' = [tickets EXCEPT ![t] = DirectStatus(@, k.value)]
             /\ job' = [job EXCEPT ![p] = Continue("act", rest(t))]
          \/ /\ job' = [job EXCEPT ![p] = [rest(t) EXCEPT !.step = "actSave", !.tk = t,
                                         !.row = WithStatus(tickets[t], k.value, now)]]
             /\ UNCHANGED tickets
          \/ /\ job' = [job EXCEPT ![p] = Continue("act", rest(t))]
             /\ UNCHANGED tickets
    BY <1>2 DEF ActNext
  <2> DEFINE m == rest(t)
  <2>3. JobSound(m, Created) /\ m.value = k.value /\ m.todo \subseteq Created
    BY <1>0, <2>1, RestSound DEF Job
  <2>4. t \in Created /\ t \in Tickets
    BY <2>1
  <2>5. \/ /\ tickets' = [tickets EXCEPT ![t] = DirectStatus(@, k.value)]
           /\ job' = [job EXCEPT ![p] = Continue("act", m)]
        \/ /\ job' = [job EXCEPT ![p] = [m EXCEPT !.step = "actSave", !.tk = t,
                                         !.row = WithStatus(tickets[t], k.value, now)]]
           /\ UNCHANGED tickets
        \/ /\ job' = [job EXCEPT ![p] = Continue("act", m)]
           /\ UNCHANGED tickets
    BY <2>2
  <2> HIDE DEF rest, m
  <2>6. JobSound(Continue("act", m), Created)
    BY <2>1, <2>3, ContinueSound
  <2>7. CASE tickets' = [tickets EXCEPT ![t] = DirectStatus(@, k.value)] /\ job' = [job EXCEPT ![p] = Continue("act", m)]
    <3> DEFINE r == DirectStatus(tickets[t], k.value)
    <3>1. RowSound(t, r) /\ r \in Row /\ r # Nil
      BY <2>1, <2>4, CreatedSound, DirectStatusSound, NilDistinct DEF RowSound, IInv
    <3>2. tickets' = [tickets EXCEPT ![t] = r]
      BY <2>7
    <3> HIDE DEF r
    <3>3. tickets' \in [Tickets -> Row \cup {Nil}] /\ Created \subseteq Created'
      BY <2>4, <3>1, <3>2 DEF IInv, TypeOK, Created
    <3>4. \A x \in Created' : RowSound(x, tickets'[x])
      BY <2>4, <3>1, <3>2 DEF IInv, TypeOK, Created
    <3>5. JobSound(Continue("act", m), Created')
      BY <2>6, <3>3, JobSoundMonotone
    <3> QED
      BY <2>1, <2>7, <3>3, <3>4, <3>5, ProcStep DEF IInv, TypeOK
  <2>8. CASE /\ job' = [job EXCEPT ![p] = [m EXCEPT !.step = "actSave", !.tk = t,
                                         !.row = WithStatus(tickets[t], k.value, now)]]
             /\ UNCHANGED tickets
    <3> DEFINE r == WithStatus(tickets[t], k.value, now)
               j == [m EXCEPT !.step = "actSave", !.tk = t, !.row = r]
    <3>1. RowSound(t, r)
      BY <2>1, <2>4, CreatedSound, WithStatusSound DEF IInv
    <3> HIDE DEF r
    <3>2. JobSound(j, Created)
      BY <2>1, <2>3, <2>4, <3>1, SavingSound
    <3>3. job' = [job EXCEPT ![p] = j]
      BY <2>8 DEF r
    <3> HIDE DEF j
    <3> QED
      BY <2>1, <2>8, <3>2, <3>3, QuietStep DEF IInv, TypeOK
  <2>9. CASE job' = [job EXCEPT ![p] = Continue("act", m)] /\ UNCHANGED tickets
    BY <2>1, <2>6, <2>9, QuietStep DEF IInv, TypeOK
  <2> QED
    BY <2>5, <2>7, <2>8, <2>9
<1>3. CASE SaveAct(p)
  <2>1. k.row # Nil /\ k.todo \subseteq Created /\ k.value # Nil
    BY <1>0, <1>3 DEF SaveAct, JobSound
  <2>2. JobSound(Continue("act", k), Created)
    BY <1>0, <2>1, ContinueSound
  <2>3. Created \subseteq Created'
    BY <1>0, <1>3, <2>1, NilDistinct DEF SaveAct, Write, Created, IInv, TypeOK, JobSound, RowSound
  <2>4. JobSound(Continue("act", k), Created')
    BY <2>2, <2>3, JobSoundMonotone
  <2> QED
    BY <1>3, <2>1, <2>4, WriteStep DEF SaveAct
<1>4. CASE RunWorkflow(p)
  <2>1. PICK t \in Created, v \in BuiltIn \cup CustomStatuses :
          tickets' = [tickets EXCEPT ![t] = DirectStatus(@, v)]
    BY <1>4, LifecycleConstants DEF RunWorkflow
  <2> DEFINE r == DirectStatus(tickets[t], v)
  <2>2. RowSound(t, r) /\ r \in Row /\ r # Nil /\ t \in Tickets
    BY CreatedSound, DirectStatusSound, NilDistinct DEF RowSound, IInv
  <2>3. tickets' = [tickets EXCEPT ![t] = r]
    BY <2>1
  <2> HIDE DEF r
  <2>4. tickets' \in [Tickets -> Row \cup {Nil}] /\ Created \subseteq Created'
    BY <2>2, <2>3 DEF IInv, TypeOK, Created
  <2>5. \A x \in Created' : RowSound(x, tickets'[x])
    BY <2>2, <2>3 DEF IInv, TypeOK, Created
  <2>6. job' = [job EXCEPT ![p] = k] /\ JobSound(k, Created')
        /\ UNCHANGED <<statusRows, category, anchors, now, announced, responses, jobs, crashes>>
    BY <1>0, <1>4, <2>4, JobSoundMonotone DEF RunWorkflow, IInv, TypeOK
  <2> HIDE DEF k
  <2> QED
    BY <2>4, <2>5, <2>6, ProcStep DEF IInv, TypeOK
<1> QED
  BY <1>1, <1>2, <1>3, <1>4 DEF Rules

-----------------------------------------------------------------------------
LEMMA InitInvariant == Init => IInv
<1> SUFFICES ASSUME Init PROVE IInv
  OBVIOUS
<1>1. PICK d \in Details : tickets = [t \in Tickets |-> IF t \in Existing THEN NewTicket(d, 0) ELSE Nil]
  BY DEF Init
<1>2. \A t \in Tickets : RowSound(t, NewTicket(d, 0)) /\ NewTicket(d, 0) \in Row
  BY NewTicketSound DEF RowSound
<1>3. tickets \in [Tickets -> Row \cup {Nil}] /\ \A t \in Created : RowSound(t, tickets[t])
  BY <1>1, <1>2 DEF Created
<1>4. \A p \in Procs : job[p] = Idle /\ JobSound(job[p], Created)
  BY IdleSound DEF Init
<1>5. job \in [Procs -> Job]
  BY IdleSound DEF Init, JobSound
<1>6. /\ statusRows \subseteq CustomStatuses /\ now \in Nat /\ announced \in [Tickets -> 0..2]
      /\ responses \subseteq Tickets /\ jobs \in Nat /\ crashes \in Nat
      /\ category \in [CustomStatuses -> Categories] /\ anchors \in [CustomStatuses -> SUBSET BuiltIn]
  BY AnchorBuiltIn, RowConstants DEF Init
<1>7. Anchored
  BY DEF Init, Anchored, Anchor
<1> QED
  BY <1>3, <1>4, <1>5, <1>6, <1>7 DEF IInv, TypeOK

\* A step that leaves the tickets, their statuses and the goroutines alone.
LEMMA StillStep ==
  ASSUME IInv, UNCHANGED <<tickets, statusRows, category, anchors, job, announced, responses>>,
         now' \in Nat, jobs' \in Nat, crashes' \in Nat
  PROVE  IInv'
<1>1. Created' = Created
  BY DEF Created
<1>2. \A t \in Created' : RowSound(t, tickets[t])'
  BY <1>1 DEF IInv, RowSound
<1>3. \A q \in Procs : JobSound(job[q], Created)'
  BY <1>1 DEF IInv, JobSound, RowSound
<1>4. Anchored'
  BY DEF IInv, Anchored, Anchor
<1> QED
  BY <1>2, <1>3, <1>4 DEF IInv, TypeOK

LEMMA StepInvariant == IInv /\ [Next]_vars => IInv'
<1> SUFFICES ASSUME IInv, [Next]_vars PROVE IInv'
  OBVIOUS
<1>1. CASE Tick
  BY <1>1, StillStep DEF Tick, IInv, TypeOK
<1>2. ASSUME NEW p \in Procs, Crash(p) PROVE IInv'
  <2>1. Created' = Created /\ crashes' \in Nat /\ job' = [job EXCEPT ![p] = Idle]
        /\ UNCHANGED <<tickets, statusRows, category, anchors, now, announced, responses, jobs>>
    BY <1>2 DEF Crash, IInv, TypeOK, Created
  <2> QED
    BY <2>1, IdleSound, ProcStep DEF IInv, TypeOK
<1>3. CASE UNCHANGED vars
  BY <1>3, StillStep DEF vars, IInv, TypeOK
<1> QED
  BY <1>1, <1>2, <1>3, BeginInvariant, FinishInvariant, WakeInvariant, CheckInvariant, RulesInvariant
     DEF Next

\* Every row in the table and in memory is sound, in every behaviour.
THEOREM Invariant == Spec => []IInv
BY InitInvariant, StepInvariant, PTL DEF Spec

\* The table and what the goroutines hold keep their types.
THEOREM TypeCorrect == Spec => []TypeOK
<1>1. IInv => TypeOK
  BY DEF IInv
<1> QED
  BY <1>1, Invariant, PTL

\* However handlers, tickers and rules overwrite each other, a row's snooze
\* columns stay together (SnoozeService, store.UpdateTicket).
THEOREM SnoozeFieldsStayTogether == Spec => []SnoozeFieldsTogether
<1>1. IInv => SnoozeFieldsTogether
  BY DEF IInv, RowSound, SnoozeFieldsTogether
<1> QED
  BY <1>1, Invariant, PTL

\* A merged ticket is never in the scope of the automation and escalation
\* rules again (TicketMergeService.Merge, AutomationRunner, EscalationService).
THEOREM MergedStaysOutOfScope == Spec => []MergedOutOfScope
<1>1. IInv => MergedOutOfScope
  BY DEF IInv, RowSound, MergedOutOfScope
<1> QED
  BY <1>1, Invariant, PTL

\* Off the chat channel the custom status never drifts from its anchor
\* (models.CategoryAnchor and every writer of the status).
THEOREM CustomStaysAtAnchor == Spec => []CustomAtAnchor
<1>1. IInv => CustomAtAnchor
  BY DEF IInv, RowSound, CustomAtAnchor
<1> QED
  BY <1>1, Invariant, PTL

-----------------------------------------------------------------------------
\* A step that writes the rows of tickets as C allows: what it writes has a
\* custom status that exists, or none.
LEMMA CustomKept ==
  ASSUME IInv, NoDeletedStatus, statusRows' = statusRows,
         \A t \in Created' : \/ t \in Created /\ tickets'[t] = tickets[t]
                             \/ tickets'[t].custom \in statusRows \cup {Nil}
  PROVE  NoDeletedStatus'
BY DEF NoDeletedStatus

LEMMA QuietKeepsCustom ==
  ASSUME IInv, NoDeletedStatus, UNCHANGED <<tickets, statusRows>>
  PROVE  NoDeletedStatus'
BY DEF NoDeletedStatus, Created

LEMMA WriteKeepsCustom ==
  ASSUME IInv, NoDeletedStatus, ForeignKeys, NEW p \in Procs, Write(p), job[p].row # Nil, statusRows' = statusRows
  PROVE  NoDeletedStatus'
<1>1. job[p].tk \in Tickets
  BY DEF IInv, JobSound
<1>2. CASE Writable(p)
  <2>1. tickets' = [tickets EXCEPT ![job[p].tk] = job[p].row] /\ job[p].row.custom \in statusRows \cup {Nil}
    BY <1>2 DEF Write, Writable
  <2>a. tickets \in [Tickets -> Row \cup {Nil}]
    BY DEF IInv, TypeOK
  <2>2. \A t \in Created' : \/ t \in Created /\ tickets'[t] = tickets[t]
                            \/ tickets'[t].custom \in statusRows \cup {Nil}
    BY <1>1, <2>1, <2>a DEF Created
  <2> QED BY <2>2, CustomKept
<1>3. CASE ~Writable(p)
  BY <1>3, QuietKeepsCustom DEF Write
<1> QED BY <1>2, <1>3

LEMMA DirectCustom ==
  ASSUME IInv, NEW t \in Created, NEW v \in BuiltIn \cup statusRows
  PROVE  DirectStatus(tickets[t], v).custom \in statusRows \cup {Nil}
<1>1. Resolve(v).custom \in statusRows \cup {Nil}
  BY RowConstants DEF Resolve, IInv, TypeOK
<1> QED BY <1>1, CreatedSound DEF DirectStatus, Row

LEMMA BeginKeepsCustom ==
  ASSUME IInv, NoDeletedStatus, NEW p \in Procs, Begin(p)
  PROVE  NoDeletedStatus'
<1>1. ASSUME NEW t \in Tickets, Create(p, t) PROVE NoDeletedStatus'
  <2>1. PICK d \in Details : tickets' = [tickets EXCEPT ![t] = NewTicket(d, now)] \/ tickets' = [tickets EXCEPT ![t] = NewChat(d, now)]
    BY <1>1 DEF Create
  <2>2. NewTicket(d, now).custom = Nil /\ NewChat(d, now).custom = Nil
    BY DEF NewTicket, NewChat
  <2>3. statusRows' = statusRows
    BY <1>1 DEF Create
  <2> QED BY <2>1, <2>2, <2>3, CustomKept DEF IInv, TypeOK, Created
<1>2. ASSUME NEW c \in CustomStatuses, DeleteStatus(p, c) PROVE NoDeletedStatus'
  <2>1. statusRows' = statusRows \ {c}
        /\ tickets' = [t \in Tickets |-> IF t \in Created /\ tickets[t].custom = c
                                         THEN [tickets[t] EXCEPT !.custom = Nil] ELSE tickets[t]]
    BY <1>2 DEF DeleteStatus
  <2>2. ASSUME NEW t \in Created' PROVE tickets'[t].custom \in statusRows' \cup {Nil}
    <3>1. t \in Tickets /\ t \in Created
      BY <2>1 DEF Created
    <3>2. tickets[t] \in Row
      BY <3>1, CreatedSound
    <3>3. tickets[t].custom \in statusRows \cup {Nil}
      BY <3>1 DEF NoDeletedStatus
    <3>4. CASE tickets[t].custom = c
      BY <2>1, <3>1, <3>2, <3>4 DEF Row
    <3>5. CASE tickets[t].custom # c
      BY <2>1, <3>1, <3>3, <3>5
    <3> QED BY <3>4, <3>5
  <2> QED BY <2>2 DEF NoDeletedStatus
<1>3. ASSUME NEW t \in Tickets,
             \/ Assign(p, t) \/ Unassign(p, t) \/ EditDetail(p, t) \/ ChangeStatus(p, t) \/ ApplyPolicy(p, t)
             \/ EndChat(p, t) \/ AddReply(p, t) \/ Snooze(p, t) \/ Unsnooze(p, t) \/ FindMerge(p, t)
      PROVE  NoDeletedStatus'
  <2>1. UNCHANGED <<tickets, statusRows>>
    BY <1>3 DEF Assign, Unassign, EditDetail, ChangeStatus, ApplyPolicy, EndChat, AddReply, Snooze, Unsnooze, FindMerge, WillSave
  <2> QED BY <2>1, QuietKeepsCustom
<1>4. ASSUME NEW c \in CustomStatuses, UpdateStatus(p, c) PROVE NoDeletedStatus'
  BY <1>4, QuietKeepsCustom DEF UpdateStatus
<1> QED BY <1>1, <1>2, <1>3, <1>4 DEF Begin

LEMMA StepKeepsCustom ==
  ASSUME IInv, ForeignKeys, NoDeletedStatus, [Next]_vars
  PROVE  NoDeletedStatus'
<1>1. CASE Tick \/ UNCHANGED vars
  BY <1>1, QuietKeepsCustom DEF Tick, vars
<1>2. ASSUME NEW p \in Procs, Crash(p) PROVE NoDeletedStatus'
  BY <1>2, QuietKeepsCustom DEF Crash
<1>3. ASSUME NEW p \in Procs, Finish(p) PROVE NoDeletedStatus'
  <2>1. CASE Save(p)
    <3>1. job[p].row # Nil
      BY <2>1 DEF Save, IInv, JobSound
    <3> QED BY <2>1, <3>1, WriteKeepsCustom DEF Save
  <2>2. CASE SaveUnsnooze(p)
    <3>1. job[p].row # Nil
      BY <2>2 DEF SaveUnsnooze, IInv, JobSound
    <3> QED BY <2>2, <3>1, WriteKeepsCustom DEF SaveUnsnooze
  <2>3. CASE InsertReply(p) \/ Resnooze(p)
    BY <2>3, QuietKeepsCustom DEF InsertReply, Resnooze
  <2>4. CASE CommitMerge(p)
    <3>1. tickets' = [tickets EXCEPT ![job[p].tk] = MergedInto(@, job[p].target, now)] /\ statusRows' = statusRows
          /\ job[p].tk \in Created
      BY <2>4 DEF CommitMerge, IInv, JobSound
    <3>2. MergedInto(tickets[job[p].tk], job[p].target, now).custom = Nil
      BY <3>1, CreatedSound DEF MergedInto, Row
    <3> QED BY <3>1, <3>2, CustomKept DEF IInv, TypeOK, Created
  <2> QED BY <1>3, <2>1, <2>2, <2>3, <2>4 DEF Finish
<1>4. ASSUME NEW p \in Procs, Wake(p) PROVE NoDeletedStatus'
  <2>1. CASE SaveAwake(p)
    <3>1. job[p].row # Nil
      BY <2>1 DEF SaveAwake, IInv, JobSound
    <3> QED BY <2>1, <3>1, WriteKeepsCustom DEF SaveAwake
  <2>2. CASE ListSnoozed(p) \/ WakeNext(p)
    BY <2>2, QuietKeepsCustom DEF ListSnoozed, WakeNext
  <2> QED BY <1>4, <2>1, <2>2 DEF Wake
<1>5. ASSUME NEW p \in Procs, Check(p) PROVE NoDeletedStatus'
  <2>1. CASE SaveBreach(p)
    <3>1. job[p].row # Nil
      BY <2>1 DEF SaveBreach, IInv, JobSound
    <3> QED BY <2>1, <3>1, WriteKeepsCustom DEF SaveBreach
  <2>2. CASE StartCheck(p) \/ ScanStatus(p) \/ CheckNext(p) \/ Announce(p)
    BY <2>2, QuietKeepsCustom DEF StartCheck, ScanStatus, CheckNext, Announce
  <2> QED BY <1>5, <2>1, <2>2 DEF Check
<1>6. ASSUME NEW t \in Created, NEW v \in BuiltIn \cup statusRows,
             tickets' = [tickets EXCEPT ![t] = DirectStatus(@, v)], statusRows' = statusRows
      PROVE  NoDeletedStatus'
  <2>1. DirectStatus(tickets[t], v).custom \in statusRows \cup {Nil}
    BY DirectCustom
  <2> QED BY <1>6, <2>1, CustomKept DEF IInv, TypeOK, Created
<1>7. ASSUME NEW p \in Procs, Rules(p) PROVE NoDeletedStatus'
  <2>1. CASE MatchRule(p)
    BY <2>1, QuietKeepsCustom DEF MatchRule
  <2>2. CASE ActNext(p)
    <3>1. job[p].todo \subseteq Created /\ statusRows' = statusRows
      <4>1. JobSound(job[p], Created)
        BY DEF IInv
      <4> QED BY <2>2, <4>1 DEF ActNext, JobSound
    <3>2. CASE UNCHANGED tickets
      BY <3>1, <3>2, QuietKeepsCustom
    <3>3. CASE ~UNCHANGED tickets
      <4>1. PICK t \in job[p].todo : job[p].value \in BuiltIn \cup statusRows /\ tickets' = [tickets EXCEPT ![t] = DirectStatus(@, job[p].value)]
        BY <2>2, <3>3 DEF ActNext
      <4>2. PICK v \in BuiltIn \cup statusRows : v = job[p].value
        BY <4>1
      <4> QED BY <1>6, <3>1, <4>1, <4>2
    <3> QED BY <3>2, <3>3
  <2>3. CASE SaveAct(p)
    <3>1. job[p].row # Nil
      BY <2>3 DEF SaveAct, IInv, JobSound
    <3> QED BY <2>3, <3>1, WriteKeepsCustom DEF SaveAct
  <2>4. CASE RunWorkflow(p)
    <3>1. PICK t \in Created, v \in RuleValues \cap (BuiltIn \cup statusRows) : tickets' = [tickets EXCEPT ![t] = DirectStatus(@, v)]
      BY <2>4 DEF RunWorkflow
    <3> QED BY <1>6, <2>4, <3>1 DEF RunWorkflow
  <2> QED BY <1>7, <2>1, <2>2, <2>3, <2>4 DEF Rules
<1> QED BY <1>1, <1>2, <1>3, <1>4, <1>5, <1>7, BeginKeepsCustom DEF Next

\* Where the database enforces its foreign keys, a deleted custom status is on
\* no ticket, whoever still holds a row with it (TicketStatusService.Delete
\* against store.UpdateTicket).
THEOREM DeletedStatusGone ==
  ASSUME ForeignKeys
  PROVE  Spec => []NoDeletedStatus
<1>1. Init => NoDeletedStatus
  <2> SUFFICES ASSUME Init, NEW t \in Created PROVE tickets[t].custom = Nil
    BY DEF NoDeletedStatus
  <2>1. PICK d \in Details : tickets = [u \in Tickets |-> IF u \in Existing THEN NewTicket(d, 0) ELSE Nil]
    BY DEF Init
  <2> QED BY <2>1 DEF Created, NewTicket
<1>2. IInv /\ NoDeletedStatus /\ [Next]_vars => NoDeletedStatus'
  BY StepKeepsCustom
<1> QED BY <1>1, <1>2, Invariant, PTL DEF Spec

-----------------------------------------------------------------------------
\* Tickets whose breach has been announced, is being announced, or may have been
\* lost in a crash.
Told == {t \in Tickets : \/ announced[t] > 0 \/ crashes > 0
                         \/ \E p \in Procs : job[p].step = "announce" /\ job[p].tk = t}

\* A row in memory that carries the flag carries it for a ticket of W, unless it
\* is about to be written to set it.
Honest(j, W) ==
  /\ j.row # Nil /\ j.step # "checkSave" /\ j.row.breached => j.tk \in W
  /\ \A t \in Tickets : j.rows[t] # Nil /\ j.rows[t].breached => t \in W

FInv ==
  /\ IInv
  /\ \A t \in Created : tickets[t].breached => t \in Told
  /\ \A p \in Procs : Honest(job[p], Told)

\* Only the checker sets the flag.
LEMMA SameFlag ==
  ASSUME NEW r \in Row
  PROVE  /\ \A a \in Agents : Assigned(r, a).breached = r.breached
         /\ Unassigned(r).breached = r.breached
         /\ \A d \in Details : Edited(r, d).breached = r.breached
         /\ \A v, at : WithStatus(r, v, at).breached = r.breached
         /\ \A v : DirectStatus(r, v).breached = r.breached
         /\ \A at : Responded(r, at).breached = r.breached
         /\ \A until : Snoozed(r, until).breached = r.breached
         /\ Awake(r).breached = r.breached
         /\ \A at : WithPolicy(r, at).breached = r.breached
         /\ \A target, at : MergedInto(r, target, at).breached = r.breached
         /\ ChatOver(r).breached = r.breached
         /\ [r EXCEPT !.custom = Nil].breached = r.breached
<1>1. \A a \in Agents : Assigned(r, a).breached = r.breached
  BY DEF Assigned, Row
<1>2. Unassigned(r).breached = r.breached /\ \A d \in Details : Edited(r, d).breached = r.breached
  BY DEF Unassigned, Edited, Row
<1>3. \A v, at : WithStatus(r, v, at).breached = r.breached
  BY DEF WithStatus, Row
<1>4. \A v : DirectStatus(r, v).breached = r.breached
  BY DEF DirectStatus, Row
<1>5. \A at : Responded(r, at).breached = r.breached /\ WithPolicy(r, at).breached = r.breached
  BY DEF Responded, WithPolicy, Row
<1>6. \A until : Snoozed(r, until).breached = r.breached
  BY DEF Snoozed, Row
<1>7. Awake(r).breached = r.breached
  BY DEF Awake, Row
<1>8. \A target, at : MergedInto(r, target, at).breached = r.breached
  BY DEF MergedInto, Row
<1>9. ChatOver(r).breached = r.breached /\ [r EXCEPT !.custom = Nil].breached = r.breached
  BY DEF ChatOver, Row
<1> QED BY <1>1, <1>2, <1>3, <1>4, <1>5, <1>6, <1>7, <1>8, <1>9

LEMMA IdleHonest == ASSUME NEW W PROVE Honest(Idle, W)
BY DEF Honest, Idle, NoRows

\* A goroutine that announces nothing moves on.
LEMMA ToldKept ==
  ASSUME IInv, NEW p \in Procs, NEW j, job' = [job EXCEPT ![p] = j], job[p].step # "announce",
         announced' = announced, crashes' = crashes
  PROVE  Told \subseteq Told'
<1>1. \A q \in Procs : job[q].step = "announce" => job'[q] = job[q]
  BY DEF IInv, TypeOK
<1> QED BY <1>1 DEF Told

LEMMA HonestStep ==
  ASSUME FInv, IInv', NEW p \in Procs, NEW j, job' = [job EXCEPT ![p] = j], Told \subseteq Told', Honest(j, Told'),
         \A t \in Created' : \/ t \in Created /\ tickets'[t].breached = tickets[t].breached
                             \/ tickets'[t].breached => t \in Told'
  PROVE  FInv'
<1>1. \A t \in Created' : tickets'[t].breached => t \in Told'
  BY DEF FInv
<1>2. \A q \in Procs : Honest(job'[q], Told')
  BY DEF FInv, Honest, IInv, TypeOK
<1> QED BY <1>1, <1>2 DEF FInv

\* The same for a step that writes no row ...
LEMMA QuietHonest ==
  ASSUME FInv, IInv', NEW p \in Procs, NEW j, job' = [job EXCEPT ![p] = j], job[p].step # "announce", Honest(j, Told),
         tickets' = tickets, announced' = announced, crashes' = crashes
  PROVE  FInv'
<1>1. Told \subseteq Told'
  BY ToldKept DEF FInv
<1>2. Honest(j, Told')
  BY <1>1 DEF Honest
<1> QED BY <1>1, <1>2, HonestStep DEF Created

\* ... and for one that writes the row in memory.
LEMMA WriteHonest ==
  ASSUME FInv, IInv', NEW p \in Procs, NEW j, job' = [job EXCEPT ![p] = j], job[p].step \notin {"announce", "checkSave"},
         Honest(j, Told), Write(p), job[p].row # Nil, announced' = announced, crashes' = crashes
  PROVE  FInv'
<1>1. Told \subseteq Told'
  BY ToldKept DEF FInv
<1>2. Honest(j, Told')
  BY <1>1 DEF Honest
<1>3. job[p].tk \in Tickets /\ (job[p].row.breached => job[p].tk \in Told)
  BY DEF FInv, IInv, JobSound, Honest
<1>4. \A t \in Created' : \/ t \in Created /\ tickets'[t].breached = tickets[t].breached
                          \/ tickets'[t].breached => t \in Told'
  BY <1>1, <1>3 DEF Write, Created, FInv, IInv, TypeOK
<1> QED BY <1>1, <1>2, <1>4, HonestStep

\* The row of a ticket read and changed, and what a sweep goes on with.
LEMMA SaverHonest ==
  ASSUME FInv, NEW t \in Created, NEW r, r.breached = tickets[t].breached,
         NEW m \in Job, Honest(m, Told), NEW step
  PROVE  Honest([m EXCEPT !.step = step, !.tk = t, !.row = r], Told)
<1> DEFINE j == [m EXCEPT !.step = step, !.tk = t, !.row = r]
<1>1. j.row = r /\ j.tk = t /\ j.rows = m.rows
  BY DEF Job
<1> HIDE DEF j
<1>2. Honest(j, Told)
  BY <1>1 DEF FInv, Honest
<1> QED BY <1>2 DEF j

LEMMA BeginHonest ==
  ASSUME FInv, IInv', NEW p \in Procs, Begin(p)
  PROVE  FInv'
<1>1. Idle \in Job /\ Honest(Idle, Told)
  BY IdleSound, IdleHonest DEF JobSound
<1>2. ASSUME NEW t \in Created, NEW r, r.breached = tickets[t].breached, Request(p), WillSave(p, t, r) PROVE FInv'
  <2>1. Honest([Idle EXCEPT !.step = "save", !.tk = t, !.row = r], Told)
    BY <1>1, <1>2, SaverHonest
  <2>2. job[p].step # "announce"
    BY <1>2 DEF Request, Free
  <2> QED BY <1>2, <2>1, <2>2, QuietHonest DEF WillSave
<1>3. ASSUME UNCHANGED <<job, announced, crashes>>,
             \A t \in Created' : \/ t \in Created /\ tickets'[t].breached = tickets[t].breached
                                 \/ ~tickets'[t].breached
      PROVE  FInv'
  <2>1. Told' = Told
    BY <1>3 DEF Told
  <2>2. job' = [job EXCEPT ![p] = job[p]]
    BY <1>3 DEF FInv, IInv, TypeOK
  <2>3. Honest(job[p], Told')
    BY <2>1 DEF FInv
  <2> QED BY <1>3, <2>1, <2>2, <2>3, HonestStep
<1>4. ASSUME NEW t \in Tickets, Create(p, t) PROVE FInv'
  <2>1. PICK r : r.breached = FALSE /\ tickets' = [tickets EXCEPT ![t] = r]
    <3>1. PICK d \in Details : tickets' = [tickets EXCEPT ![t] = NewTicket(d, now)] \/ tickets' = [tickets EXCEPT ![t] = NewChat(d, now)]
      BY <1>4 DEF Create
    <3>2. NewTicket(d, now).breached = FALSE /\ NewChat(d, now).breached = FALSE
      BY DEF NewTicket, NewChat
    <3> QED BY <3>1, <3>2
  <2>2. UNCHANGED <<job, announced, crashes>>
    BY <1>4 DEF Create
  <2> QED BY <1>3, <2>1, <2>2 DEF Created, FInv, IInv, TypeOK
<1>5. ASSUME NEW c \in CustomStatuses, DeleteStatus(p, c) PROVE FInv'
  <2>1. tickets' = [t \in Tickets |-> IF t \in Created /\ tickets[t].custom = c
                                      THEN [tickets[t] EXCEPT !.custom = Nil] ELSE tickets[t]]
        /\ UNCHANGED <<job, announced, crashes>>
    BY <1>5 DEF DeleteStatus
  <2>2. ASSUME NEW t \in Created' PROVE t \in Created /\ tickets'[t].breached = tickets[t].breached
    <3>1. t \in Created
      BY <2>1 DEF Created
    <3> QED BY <2>1, <3>1, CreatedSound, SameFlag DEF FInv, Created
  <2> QED BY <1>3, <2>1, <2>2
<1>6. ASSUME NEW t \in Tickets, Assign(p, t) \/ Unassign(p, t) \/ EditDetail(p, t) \/ ChangeStatus(p, t) \/ ApplyPolicy(p, t)
                                \/ EndChat(p, t) \/ Unsnooze(p, t)
      PROVE  FInv'
  <2>1. t \in Created /\ Request(p)
    BY <1>6 DEF Assign, Unassign, EditDetail, ChangeStatus, ApplyPolicy, EndChat, Unsnooze
  <2>2. PICK r : r.breached = tickets[t].breached /\ WillSave(p, t, r)
    <3>1. tickets[t] \in Row
      BY <2>1, CreatedSound DEF FInv
    <3>2. CASE Assign(p, t)
      BY <3>1, <3>2, SameFlag DEF Assign
    <3>3. CASE Unassign(p, t)
      BY <3>1, <3>3, SameFlag DEF Unassign
    <3>4. CASE EditDetail(p, t)
      BY <3>1, <3>4, SameFlag DEF EditDetail
    <3>5. CASE ChangeStatus(p, t)
      BY <3>1, <3>5, SameFlag DEF ChangeStatus
    <3>6. CASE ApplyPolicy(p, t)
      BY <3>1, <3>6, SameFlag DEF ApplyPolicy
    <3>7. CASE EndChat(p, t)
      BY <3>1, <3>7, SameFlag DEF EndChat
    <3>8. CASE Unsnooze(p, t)
      BY <3>1, <3>8, SameFlag DEF Unsnooze
    <3> QED BY <1>6, <3>2, <3>3, <3>4, <3>5, <3>6, <3>7, <3>8
  <2> QED BY <1>2, <2>1, <2>2
<1>7. ASSUME NEW t \in Tickets, AddReply(p, t) PROVE FInv'
  <2>1. t \in Created /\ job[p].step # "announce" /\ UNCHANGED <<tickets, announced, crashes>>
        /\ job' = [job EXCEPT ![p] = [Idle EXCEPT !.step = "reply", !.tk = t, !.row = tickets[t]]]
    BY <1>7 DEF AddReply, Request, Free
  <2>2. Honest([Idle EXCEPT !.step = "reply", !.tk = t, !.row = tickets[t]], Told)
    BY <1>1, <2>1, SaverHonest
  <2> QED BY <2>1, <2>2, QuietHonest
<1>8. ASSUME NEW t \in Tickets, Snooze(p, t) PROVE FInv'
  <2>1. t \in Created /\ Request(p) /\ job[p].step # "announce"
    BY <1>8 DEF Snooze, Request, Free
  <2>2. PICK d \in SnoozeFor :
           \/ WillSave(p, t, Snoozed(tickets[t], now + d))
           \/ /\ job' = [job EXCEPT ![p] = [Idle EXCEPT !.step = "unsnooze", !.tk = t, !.row = Awake(tickets[t]), !.at = now + d]]
              /\ UNCHANGED <<tickets, announced, crashes>>
    BY <1>8 DEF Snooze
  <2>3. tickets[t] \in Row
    BY <2>1, CreatedSound DEF FInv
  <2>4. CASE WillSave(p, t, Snoozed(tickets[t], now + d))
    BY <1>2, <2>1, <2>3, <2>4, SameFlag
  <2>5. CASE /\ job' = [job EXCEPT ![p] = [Idle EXCEPT !.step = "unsnooze", !.tk = t, !.row = Awake(tickets[t]), !.at = now + d]]
             /\ UNCHANGED <<tickets, announced, crashes>>
    <3> DEFINE j == [Idle EXCEPT !.step = "unsnooze", !.tk = t, !.row = Awake(tickets[t]), !.at = now + d]
    <3>1. j.tk = t /\ j.row.breached = tickets[t].breached /\ \A u \in Tickets : j.rows[u] = Nil
      BY <2>3, SameFlag DEF Idle, NoRows
    <3> HIDE DEF j
    <3>2. Honest(j, Told)
      BY <2>1, <3>1 DEF Honest, FInv
    <3> QED BY <2>1, <2>5, <3>2, QuietHonest DEF j
  <2> QED BY <2>2, <2>4, <2>5
<1>9. ASSUME NEW t \in Tickets, FindMerge(p, t) PROVE FInv'
  <2>1. PICK target : job' = [job EXCEPT ![p] = [Idle EXCEPT !.step = "merge", !.tk = t, !.target = target]]
    BY <1>9 DEF FindMerge
  <2>2. Honest([Idle EXCEPT !.step = "merge", !.tk = t, !.target = target], Told)
    BY DEF Honest, Idle, NoRows
  <2>3. job[p].step # "announce" /\ UNCHANGED <<tickets, announced, crashes>>
    BY <1>9 DEF FindMerge, Request, Free
  <2> QED BY <2>1, <2>2, <2>3, QuietHonest
<1>10. ASSUME NEW c \in CustomStatuses, UpdateStatus(p, c) PROVE FInv'
  <2>1. UNCHANGED <<tickets, job, announced, crashes>> /\ Created' = Created
    BY <1>10 DEF UpdateStatus, Created
  <2> QED BY <1>3, <2>1
<1> QED BY <1>4, <1>5, <1>6, <1>7, <1>8, <1>9, <1>10 DEF Begin

LEMMA FinishHonest ==
  ASSUME FInv, IInv', NEW p \in Procs, Finish(p)
  PROVE  FInv'
<1> DEFINE k == job[p]
<1>1. k \in Job /\ Idle \in Job /\ JobSound(k, Created) /\ Honest(k, Told) /\ Honest(Idle, Told)
  BY IdleSound, IdleHonest DEF FInv, IInv, JobSound
<1>2. CASE Save(p)
  <2>1. k.row # Nil /\ k.step \notin {"announce", "checkSave"}
    BY <1>1, <1>2 DEF Save, JobSound
  <2> QED BY <1>1, <1>2, <2>1, WriteHonest DEF Save
<1>3. CASE InsertReply(p)
  <2>1. /\ k.step = "reply" /\ k.row # Nil /\ UNCHANGED <<tickets, announced, crashes>>
        /\ \/ job' = [job EXCEPT ![p] = [k EXCEPT !.step = "save", !.row = Responded(k.row, now)]]
           \/ job' = [job EXCEPT ![p] = Idle]
    BY <1>1, <1>3 DEF InsertReply, JobSound
  <2> DEFINE j == [k EXCEPT !.step = "save", !.row = Responded(k.row, now)]
  <2>2. j.row.breached = k.row.breached /\ j.tk = k.tk /\ j.rows = k.rows
    <3>1. k.row \in Row
      BY <1>1, <2>1 DEF JobSound, RowSound
    <3> QED BY <1>1, <3>1, SameFlag DEF Job
  <2>3. CASE job' = [job EXCEPT ![p] = j]
    <3> HIDE DEF j
    <3>1. Honest(j, Told)
      BY <1>1, <2>1, <2>2 DEF Honest
    <3> QED BY <2>1, <2>3, <3>1, QuietHonest
  <2>4. CASE job' = [job EXCEPT ![p] = Idle]
    BY <1>1, <2>1, <2>4, QuietHonest
  <2> QED BY <2>1, <2>3, <2>4
<1>4. CASE SaveUnsnooze(p)
  <2>1. k.row # Nil /\ k.step \notin {"announce", "checkSave"}
    BY <1>1, <1>4 DEF SaveUnsnooze, JobSound
  <2>2. Honest([Idle EXCEPT !.step = "resnooze", !.tk = k.tk, !.at = k.at], Told)
    BY DEF Honest, Idle, NoRows
  <2>3. PICK j : Honest(j, Told) /\ job' = [job EXCEPT ![p] = j]
    BY <1>1, <1>4, <2>2 DEF SaveUnsnooze
  <2> QED BY <1>4, <2>1, <2>3, WriteHonest DEF SaveUnsnooze
<1>5. CASE Resnooze(p)
  <2>1. k.step = "resnooze" /\ k.tk \in Created /\ UNCHANGED <<tickets, announced, crashes>>
    BY <1>1, <1>5 DEF Resnooze, JobSound
  <2>2. Snoozed(tickets[k.tk], k.at).breached = tickets[k.tk].breached
    BY <2>1, CreatedSound, SameFlag DEF FInv
  <2>3. Honest([Idle EXCEPT !.step = "save", !.tk = k.tk, !.row = Snoozed(tickets[k.tk], k.at)], Told)
    BY <1>1, <2>1, <2>2, SaverHonest
  <2>4. PICK j : Honest(j, Told) /\ job' = [job EXCEPT ![p] = j]
    BY <1>1, <1>5, <2>3 DEF Resnooze
  <2> QED BY <2>1, <2>4, QuietHonest
<1>6. CASE CommitMerge(p)
  <2>1. /\ tickets' = [tickets EXCEPT ![k.tk] = MergedInto(@, k.target, now)] /\ k.tk \in Created /\ k.step = "merge"
        /\ job' = [job EXCEPT ![p] = Idle] /\ announced' = announced /\ crashes' = crashes
    BY <1>1, <1>6 DEF CommitMerge, JobSound
  <2>2. MergedInto(tickets[k.tk], k.target, now).breached = tickets[k.tk].breached
    BY <2>1, CreatedSound, SameFlag DEF FInv
  <2>3. \A t \in Created' : t \in Created /\ tickets'[t].breached = tickets[t].breached
    BY <2>1, <2>2 DEF Created, FInv, IInv, TypeOK
  <2>4. Told \subseteq Told'
    BY <2>1, ToldKept DEF FInv
  <2>5. Honest(Idle, Told')
    BY IdleHonest
  <2> QED BY <2>1, <2>3, <2>4, <2>5, HonestStep
<1> QED BY <1>2, <1>3, <1>4, <1>5, <1>6 DEF Finish

LEMMA WakeHonest ==
  ASSUME FInv, IInv', NEW p \in Procs, Wake(p)
  PROVE  FInv'
<1> DEFINE k == job[p]
<1>1. k \in Job /\ JobSound(k, Created) /\ Honest(k, Told) /\ Honest(Idle, Told)
  BY IdleHonest DEF FInv, IInv, JobSound
<1>2. ASSUME NEW m \in Job, Honest(m, Told), NEW step \in Steps PROVE Honest(Continue(step, m), Told)
  BY <1>1, <1>2 DEF Continue, Honest, Job
<1>3. CASE ListSnoozed(p)
  <2> DEFINE due == {t \in Created : SnoozeDue(tickets[t], now)}
             j == [Idle EXCEPT !.step = "wake", !.todo = due]
  <2>1. job' = [job EXCEPT ![p] = j] /\ k.step # "announce" /\ UNCHANGED <<tickets, announced, crashes>>
    BY <1>3 DEF ListSnoozed, Free
  <2>2. Honest(j, Told)
    BY DEF Honest, Idle, NoRows
  <2> HIDE DEF j
  <2> QED BY <2>1, <2>2, QuietHonest
<1>4. CASE WakeNext(p)
  <2> DEFINE rest(t) == [k EXCEPT !.todo = @ \ {t}]
  <2>1. PICK t \in k.todo :
          /\ job' = [job EXCEPT ![p] =
                        IF tickets[t].status = "snoozed"
                        THEN [rest(t) EXCEPT !.step = "wakeSave", !.tk = t, !.row = Awake(tickets[t])]
                        ELSE Continue("wake", rest(t))]
          /\ k.step = "wake"
          /\ UNCHANGED <<tickets, announced, crashes>>
    BY <1>4 DEF WakeNext
  <2> DEFINE m == rest(t)
  <2>2. m \in Job /\ Honest(m, Told)
    BY <1>1 DEF Job, Honest
  <2>3. t \in Created
    BY <1>1, <2>1 DEF JobSound
  <2> HIDE DEF rest, m
  <2>4. Awake(tickets[t]).breached = tickets[t].breached
    BY <2>3, CreatedSound, SameFlag DEF FInv
  <2>5. Honest([m EXCEPT !.step = "wakeSave", !.tk = t, !.row = Awake(tickets[t])], Told) /\ Honest(Continue("wake", m), Told)
    BY <1>2, <2>2, <2>3, <2>4, SaverHonest DEF Steps
  <2>6. PICK j : Honest(j, Told) /\ job' = [job EXCEPT ![p] = j]
    BY <2>1, <2>5 DEF m
  <2> QED BY <2>1, <2>6, QuietHonest
<1>5. CASE SaveAwake(p)
  <2>1. k.row # Nil /\ k.step \notin {"announce", "checkSave"} /\ Honest(Continue("wake", k), Told)
    BY <1>1, <1>2, <1>5 DEF SaveAwake, JobSound, Steps
  <2> QED BY <1>5, <2>1, WriteHonest DEF SaveAwake
<1> QED BY <1>3, <1>4, <1>5 DEF Wake

LEMMA CheckHonest ==
  ASSUME FInv, IInv', NEW p \in Procs, Check(p)
  PROVE  FInv'
<1> DEFINE k == job[p]
<1>1. k \in Job /\ JobSound(k, Created) /\ Honest(k, Told) /\ Honest(Idle, Told)
  BY IdleHonest DEF FInv, IInv, JobSound
<1>2. ASSUME NEW m \in Job, NEW W, \A t \in Tickets : m.rows[t] # Nil /\ m.rows[t].breached => t \in W
      PROVE  Honest(Checked(m), W)
  BY <1>2 DEF Checked, Honest, Job
<1>3. CASE StartCheck(p)
  <2> DEFINE j == [Idle EXCEPT !.step = "scan", !.at = now]
  <2>1. job' = [job EXCEPT ![p] = j] /\ k.step # "announce" /\ UNCHANGED <<tickets, announced, crashes>>
    BY <1>3 DEF StartCheck, Free
  <2>2. Honest(j, Told)
    BY DEF Honest, Idle, NoRows
  <2> HIDE DEF j
  <2> QED BY <2>1, <2>2, QuietHonest
<1>4. CASE ScanStatus(p)
  <2> DEFINE n == k.scanned + 1
             Read(f) == [t \in Tickets |-> IF t \in f THEN tickets[t] ELSE Nil]
             Scan(f) == [k EXCEPT !.scanned = n, !.todo = f, !.rows = Read(f),
                                  !.step = IF f = {} THEN "scan" ELSE "check"]
  <2>a. \/ job' = [job EXCEPT ![p] = Idle]
        \/ \E f \in SUBSET Created : job' = [job EXCEPT ![p] = Scan(f)]
    BY <1>4 DEF ScanStatus, Listings
  <2>b. PICK found \in SUBSET Created : \/ job' = [job EXCEPT ![p] = Idle]
                                       \/ job' = [job EXCEPT ![p] = Scan(found)]
    BY <2>a
  <2> DEFINE listed == Read(found)
             j == Scan(found)
  <2>1. /\ job' = [job EXCEPT ![p] = Idle] \/ job' = [job EXCEPT ![p] = j]
        /\ k.step = "scan" /\ UNCHANGED <<tickets, announced, crashes>>
    BY <1>4, <2>b DEF ScanStatus
  <2>2. j.rows = listed /\ j.row = k.row /\ j.tk = k.tk
    BY <1>1 DEF Job
  <2>3. \A t \in Tickets : listed[t] # Nil => t \in Created /\ listed[t] = tickets[t]
    BY DEF Created
  <2> HIDE DEF j, listed
  <2>4. Honest(j, Told)
    BY <1>1, <2>1, <2>2, <2>3 DEF Honest, FInv
  <2> QED BY <1>1, <2>1, <2>4, QuietHonest
<1>5. CASE CheckNext(p)
  <2> DEFINE rest(t) == [k EXCEPT !.todo = @ \ {t}, !.rows[t] = Nil]
  <2>1. PICK t \in k.todo :
          /\ \/ job' = [job EXCEPT ![p] = [rest(t) EXCEPT !.step = "checkSave", !.tk = t, !.row = Breached(k.rows[t])]]
             \/ job' = [job EXCEPT ![p] = Checked(rest(t))]
          /\ k.step = "check" /\ UNCHANGED <<tickets, announced, crashes>>
    BY <1>5 DEF CheckNext
  <2> DEFINE m == rest(t)
             j == [m EXCEPT !.step = "checkSave", !.tk = t, !.row = Breached(k.rows[t])]
  <2>2. m \in Job /\ \A u \in Tickets : m.rows[u] # Nil => m.rows[u] = k.rows[u]
    BY <1>1 DEF Job
  <2>3. \A u \in Tickets : m.rows[u] # Nil /\ m.rows[u].breached => u \in Told
    BY <1>1, <2>2 DEF Honest
  <2> HIDE DEF rest, m
  <2>4. j.step = "checkSave" /\ j.rows = m.rows
    BY <2>2 DEF Job
  <2> HIDE DEF j
  <2>5. Honest(j, Told) /\ Honest(Checked(m), Told)
    BY <1>2, <2>2, <2>3, <2>4 DEF Honest
  <2> QED BY <2>1, <2>5, QuietHonest DEF j, m
\* The flag is written and the announcement is under way in one step.
<1>6. CASE SaveBreach(p)
  <2>1. k.step = "checkSave" /\ k.row # Nil /\ k.tk \in Tickets /\ Write(p) /\ announced' = announced /\ crashes' = crashes
    BY <1>1, <1>6 DEF SaveBreach, JobSound
  <2>2. \A t \in Tickets : k.rows[t] # Nil /\ k.rows[t].breached => t \in Told
    BY <1>1 DEF Honest
  <2>3. CASE ~Writable(p)
    <3>1. job' = [job EXCEPT ![p] = Checked(k)] /\ tickets' = tickets
      BY <1>6, <2>3 DEF SaveBreach, Write
    <3>2. Honest(Checked(k), Told)
      BY <1>1, <1>2, <2>2
    <3> QED BY <2>1, <3>1, <3>2, QuietHonest
  <2>4. CASE Writable(p)
    <3> DEFINE j == [k EXCEPT !.step = "announce"]
    <3>1. job' = [job EXCEPT ![p] = j] /\ tickets' = [tickets EXCEPT ![k.tk] = k.row]
      BY <1>6, <2>4 DEF SaveBreach, Write
    <3>2. j.step = "announce" /\ j.tk = k.tk /\ j.row = k.row /\ j.rows = k.rows
      BY <1>1 DEF Job
    <3> HIDE DEF j
    <3>3. Told \subseteq Told'
      BY <2>1, <3>1, ToldKept DEF FInv
    <3>4. k.tk \in Told'
      <4>1. job'[p].step = "announce" /\ job'[p].tk = k.tk
        BY <3>1, <3>2 DEF FInv, IInv, TypeOK
      <4> QED BY <2>1, <4>1 DEF Told
    <3>5. Honest(j, Told')
      BY <2>2, <3>2, <3>3, <3>4 DEF Honest
    <3>6. \A t \in Created' : \/ t \in Created /\ tickets'[t].breached = tickets[t].breached
                              \/ tickets'[t].breached => t \in Told'
      BY <2>1, <3>1, <3>4 DEF Created, FInv, IInv, TypeOK
    <3> QED BY <3>1, <3>3, <3>5, <3>6, HonestStep
  <2> QED BY <2>3, <2>4
<1>7. CASE Announce(p)
  <2>1. /\ k.step = "announce" /\ k.tk \in Tickets /\ job' = [job EXCEPT ![p] = Checked(k)] /\ tickets' = tickets /\ crashes' = crashes
        /\ announced' = [announced EXCEPT ![k.tk] = IF @ < 2 THEN @ + 1 ELSE @]
    BY <1>1, <1>7 DEF Announce, JobSound
  <2>2. announced'[k.tk] > 0 /\ \A t \in Tickets : announced[t] > 0 => announced'[t] > 0
    BY <2>1 DEF FInv, IInv, TypeOK
  <2>3. \A q \in Procs : job[q].step = "announce" => job[q].tk = k.tk \/ job'[q] = job[q]
    BY <2>1 DEF FInv, IInv, TypeOK
  <2>4. Told \subseteq Told'
    BY <2>1, <2>2, <2>3 DEF Told
  <2>5. \A t \in Tickets : k.rows[t] # Nil /\ k.rows[t].breached => t \in Told'
    BY <1>1, <2>4 DEF Honest
  <2>6. Honest(Checked(k), Told')
    BY <1>1, <1>2, <2>5
  <2> QED BY <2>1, <2>4, <2>6, HonestStep DEF Created
<1> QED BY <1>3, <1>4, <1>5, <1>6, <1>7 DEF Check

LEMMA RulesHonest ==
  ASSUME FInv, IInv', NEW p \in Procs, Rules(p)
  PROVE  FInv'
<1> DEFINE k == job[p]
<1>1. k \in Job /\ JobSound(k, Created) /\ Honest(k, Told) /\ Honest(Idle, Told)
  BY IdleHonest DEF FInv, IInv, JobSound
<1>2. ASSUME NEW m \in Job, Honest(m, Told), NEW step \in Steps PROVE Honest(Continue(step, m), Told)
  BY <1>1, <1>2 DEF Continue, Honest, Job
<1>3. CASE MatchRule(p)
  <2>1. PICK v, ids : job' = [job EXCEPT ![p] = [Idle EXCEPT !.step = "act", !.value = v, !.todo = ids]]
    BY <1>3 DEF MatchRule
  <2>2. Honest([Idle EXCEPT !.step = "act", !.value = v, !.todo = ids], Told)
    BY DEF Honest, Idle, NoRows
  <2>3. k.step # "announce" /\ UNCHANGED <<tickets, announced, crashes>>
    BY <1>3 DEF MatchRule, Free
  <2> QED BY <2>1, <2>2, <2>3, QuietHonest
<1>4. CASE ActNext(p)
  <2> DEFINE rest(t) == [k EXCEPT !.todo = @ \ {t}]
  <2>1. PICK t \in k.todo :
          /\ \/ /\ tickets' = [tickets EXCEPT ![t] = DirectStatus(@, k.value)]
                /\ job' = [job EXCEPT ![p] = Continue("act", rest(t))]
             \/ /\ job' = [job EXCEPT ![p] = [rest(t) EXCEPT !.step = "actSave", !.tk = t,
                                              !.row = WithStatus(tickets[t], k.value, now)]]
                /\ UNCHANGED tickets
             \/ /\ job' = [job EXCEPT ![p] = Continue("act", rest(t))]
                /\ UNCHANGED tickets
          /\ k.step = "act" /\ announced' = announced /\ crashes' = crashes
    BY <1>4 DEF ActNext
  <2> DEFINE m == rest(t)
  <2>2. m \in Job /\ Honest(m, Told)
    BY <1>1 DEF Job, Honest
  <2>3. t \in Created
    BY <1>1, <2>1 DEF JobSound
  <2> HIDE DEF rest, m
  <2>4. /\ WithStatus(tickets[t], k.value, now).breached = tickets[t].breached
        /\ DirectStatus(tickets[t], k.value).breached = tickets[t].breached
    BY <2>3, CreatedSound, SameFlag DEF FInv
  <2>5. /\ Honest([m EXCEPT !.step = "actSave", !.tk = t, !.row = WithStatus(tickets[t], k.value, now)], Told)
        /\ Honest(Continue("act", m), Told)
    BY <1>2, <2>2, <2>3, <2>4, SaverHonest DEF Steps
  <2>6. PICK j : Honest(j, Told) /\ job' = [job EXCEPT ![p] = j]
    BY <2>1, <2>5 DEF m
  <2>7. Told \subseteq Told'
    BY <2>1, <2>6, ToldKept DEF FInv
  <2>8. Honest(j, Told')
    BY <2>6, <2>7 DEF Honest
  <2>9. \A u \in Created' : u \in Created /\ tickets'[u].breached = tickets[u].breached
    BY <2>1, <2>3, <2>4 DEF Created, FInv, IInv, TypeOK
  <2> QED BY <2>6, <2>7, <2>8, <2>9, HonestStep
<1>5. CASE SaveAct(p)
  <2>1. k.row # Nil /\ k.step \notin {"announce", "checkSave"} /\ Honest(Continue("act", k), Told)
    BY <1>1, <1>2, <1>5 DEF SaveAct, JobSound, Steps
  <2> QED BY <1>5, <2>1, WriteHonest DEF SaveAct
<1>6. CASE RunWorkflow(p)
  <2>1. PICK t \in Created, v \in RuleValues \cap (BuiltIn \cup statusRows) : tickets' = [tickets EXCEPT ![t] = DirectStatus(@, v)]
    BY <1>6 DEF RunWorkflow
  <2>2. DirectStatus(tickets[t], v).breached = tickets[t].breached
    BY CreatedSound, SameFlag DEF FInv
  <2>3. \A u \in Created' : u \in Created /\ tickets'[u].breached = tickets[u].breached
    BY <2>1, <2>2 DEF Created, FInv, IInv, TypeOK
  <2>4. job' = [job EXCEPT ![p] = k] /\ UNCHANGED <<job, announced, crashes>>
    BY <1>6 DEF RunWorkflow, FInv, IInv, TypeOK
  <2>5. Told' = Told
    BY <2>4 DEF Told
  <2> QED BY <1>1, <2>3, <2>4, <2>5, HonestStep
<1> QED BY <1>3, <1>4, <1>5, <1>6 DEF Rules

LEMMA StepHonest ==
  ASSUME FInv, IInv', [Next]_vars
  PROVE  FInv'
<1>1. CASE Tick \/ UNCHANGED vars
  BY <1>1 DEF Tick, vars, FInv, Told, Created
\* A crash may have lost any announcement.
<1>2. ASSUME NEW p \in Procs, Crash(p) PROVE FInv'
  <2>1. crashes' > 0 /\ tickets' = tickets /\ job' = [job EXCEPT ![p] = Idle]
    BY <1>2 DEF Crash, FInv, IInv, TypeOK
  <2>2. Told' = Tickets
    BY <2>1 DEF Told
  <2>3. Told \subseteq Told' /\ Honest(Idle, Told')
    BY <2>2, IdleHonest DEF Told
  <2> QED BY <2>1, <2>3, HonestStep DEF Created
<1> QED BY <1>1, <1>2, BeginHonest, FinishHonest, WakeHonest, CheckHonest, RulesHonest DEF Next

\* sla_breached silences the checker for good, and it is never set on a ticket
\* without the announcement made, under way or lost in a crash, however many
\* checkers run and whatever stale row carries the flag (SLAService.CheckBreaches).
THEOREM FlagIsAnnounced == Spec => []FlagMeansAnnounced
<1>1. Init => FInv
  <2> SUFFICES ASSUME Init PROVE FInv
    OBVIOUS
  <2>1. IInv
    BY InitInvariant
  <2>2. PICK d \in Details : tickets = [u \in Tickets |-> IF u \in Existing THEN NewTicket(d, 0) ELSE Nil]
    BY DEF Init
  <2>3. \A t \in Created : ~tickets[t].breached
    BY <2>2 DEF Created, NewTicket
  <2>4. \A p \in Procs : Honest(job[p], Told)
    BY IdleHonest DEF Init
  <2> QED BY <2>1, <2>3, <2>4 DEF FInv
<1>2. FInv /\ [Next]_vars => FInv'
  BY StepInvariant, StepHonest DEF FInv
<1>3. FInv => FlagMeansAnnounced
  BY DEF FInv, FlagMeansAnnounced, Told
<1> QED BY <1>1, <1>2, <1>3, PTL DEF Spec
-----------------------------------------------------------------------------
\* One goroutine, tables T and S at time at: what it holds in memory is still so
\* when it is written.
Fresh(j, T, S, at) ==
  /\ j.row # Nil => /\ j.tk \in Tickets /\ T[j.tk] # Nil
                    /\ j.row.merged = T[j.tk].merged
                    /\ T[j.tk].firstResponseAt \in {Nil, j.row.firstResponseAt}
                    /\ ForeignKeys => j.row.custom \in S \cup {Nil}
  /\ \A t \in Tickets : j.rows[t] # Nil => j.rows[t] = T[t]
  /\ j.step = "idle" => j = Idle
  /\ j.step \notin {"scan", "check", "checkSave", "announce"} => j.rows = NoRows
  /\ j.step = "checkSave" => j.rows[j.tk] = Nil
  /\ j.step = "reply" => j.row = T[j.tk]
  /\ j.step = "merge" => T[j.target] # Nil /\ T[j.target].merged = Nil
  /\ j.step \in {"wake", "wakeSave"} => \A t \in j.todo : T[t] # Nil /\ SnoozeDue(T[t], at)
  /\ j.step = "wakeSave" => SnoozeDue(T[j.tk], at) /\ j.tk \notin j.todo

\* An answered ticket is stamped, or will be by the row about to be saved.
Stamping(j, t) == j.step = "save" /\ j.tk = t /\ j.row.firstResponseAt # Nil
Stamped ==
  \A t \in responses : \/ tickets[t] # Nil /\ tickets[t].firstResponseAt # Nil
                       \/ crashes > 0
                       \/ \E p \in Procs : Stamping(job[p], t)

SInv ==
  /\ IInv
  /\ ForeignKeys => NoDeletedStatus
  /\ \A p \in Procs : Fresh(job[p], tickets, statusRows, now)
  /\ Stamped
  /\ NoMergeCycle

\* What a step keeps of the table: the merges, and the stamps of first responses.
LinksKept == \A t \in Created' : IF t \in Created THEN tickets'[t].merged = tickets[t].merged
                                                  ELSE tickets'[t].merged = Nil
StampsKept == \A t \in Created : /\ tickets'[t] # Nil
                                 /\ tickets[t].firstResponseAt \in {Nil, tickets'[t].firstResponseAt}

\* What is known of a step of the only goroutine: the rest is for its action to show.
Alone == Serial /\ SInv /\ IInv' /\ (ForeignKeys => NoDeletedStatus')

\* r is a row of x's ticket: what is merged and stamped stays.
SameLinks(r, x) == r.merged = x.merged /\ r.firstResponseAt = x.firstResponseAt

LEMMA LinksOfRows ==
  ASSUME NEW r \in Row
  PROVE  /\ \A a \in Agents : SameLinks(Assigned(r, a), r) /\ Assigned(r, a).custom \in {r.custom, Nil}
         /\ SameLinks(Unassigned(r), r) /\ Unassigned(r).custom = r.custom
         /\ \A d \in Details : SameLinks(Edited(r, d), r) /\ Edited(r, d).custom = r.custom
         /\ \A v, at : SameLinks(WithStatus(r, v, at), r) /\ WithStatus(r, v, at).custom = Resolve(v).custom
         /\ \A v : SameLinks(DirectStatus(r, v), r)
         /\ \A at : Responded(r, at).merged = r.merged /\ Responded(r, at).firstResponseAt = at
                    /\ Responded(r, at).custom = r.custom
         /\ \A until : SameLinks(Snoozed(r, until), r) /\ Snoozed(r, until).custom = Nil
         /\ SameLinks(Awake(r), r) /\ Awake(r).custom = Nil
         /\ SameLinks(Breached(r), r) /\ Breached(r).custom = r.custom
         /\ \A at : SameLinks(WithPolicy(r, at), r) /\ WithPolicy(r, at).custom = r.custom
         /\ \A target, at : MergedInto(r, target, at).merged = target
                            /\ MergedInto(r, target, at).firstResponseAt = r.firstResponseAt
         /\ SameLinks(ChatOver(r), r) /\ ChatOver(r).custom = r.custom
         /\ SameLinks([r EXCEPT !.custom = Nil], r)
<1>1. \A a \in Agents : SameLinks(Assigned(r, a), r) /\ Assigned(r, a).custom \in {r.custom, Nil}
  BY DEF Assigned, Row, SameLinks
<1>2. /\ SameLinks(Unassigned(r), r) /\ Unassigned(r).custom = r.custom
      /\ \A d \in Details : SameLinks(Edited(r, d), r) /\ Edited(r, d).custom = r.custom
  BY DEF Unassigned, Edited, Row, SameLinks
<1>3. \A v, at : SameLinks(WithStatus(r, v, at), r) /\ WithStatus(r, v, at).custom = Resolve(v).custom
  BY DEF WithStatus, Row, SameLinks
<1>4. \A v : SameLinks(DirectStatus(r, v), r)
  BY DEF DirectStatus, Row, SameLinks
<1>5. \A at : Responded(r, at).merged = r.merged /\ Responded(r, at).firstResponseAt = at
              /\ Responded(r, at).custom = r.custom
  BY DEF Responded, Row
<1>6. \A until : SameLinks(Snoozed(r, until), r) /\ Snoozed(r, until).custom = Nil
  BY DEF Snoozed, Row, SameLinks
<1>7. SameLinks(Awake(r), r) /\ Awake(r).custom = Nil
  BY DEF Awake, Row, SameLinks
<1>8. SameLinks(Breached(r), r) /\ Breached(r).custom = r.custom
  BY DEF Breached, Row, SameLinks
<1>9. \A at : SameLinks(WithPolicy(r, at), r) /\ WithPolicy(r, at).custom = r.custom
  BY DEF WithPolicy, Row, SameLinks
<1>10. \A target, at : MergedInto(r, target, at).merged = target
                       /\ MergedInto(r, target, at).firstResponseAt = r.firstResponseAt
  BY DEF MergedInto, Row
<1>11. /\ SameLinks(ChatOver(r), r) /\ ChatOver(r).custom = r.custom
       /\ SameLinks([r EXCEPT !.custom = Nil], r)
  BY DEF ChatOver, Row, SameLinks
<1> QED BY <1>1, <1>2, <1>3, <1>4, <1>5, <1>6, <1>7, <1>8, <1>9, <1>10, <1>11

LEMMA CustomNow ==
  ASSUME SInv, NEW t \in Created
  PROVE  /\ tickets[t] \in Row /\ tickets[t] # Nil /\ t \in Tickets
         /\ ForeignKeys => tickets[t].custom \in statusRows \cup {Nil}
BY CreatedSound, NilDistinct DEF SInv, NoDeletedStatus

LEMMA IdleFresh == ASSUME NEW T, NEW S, NEW at PROVE Fresh(Idle, T, S, at)
BY DEF Fresh, Idle, NoRows

\* A goroutine that has just read ticket t and will write r.
LEMMA SaverFresh ==
  ASSUME SInv, NEW t \in Created, NEW r, SameLinks(r, tickets[t]),
         ForeignKeys => r.custom \in statusRows \cup {Nil},
         NEW j, j.step \in {"save", "unsnooze", "actSave"}, j.tk = t, j.row = r, j.rows = NoRows
  PROVE  Fresh(j, tickets, statusRows, now)
<1>1. t \in Tickets /\ tickets[t] # Nil
  BY CustomNow
<1> QED BY <1>1 DEF Fresh, SameLinks, NoRows

-----------------------------------------------------------------------------
LEMMA CycleNeedsMerge ==
  ASSUME SInv, LinksKept
  PROVE  NoMergeCycle'
<1> SUFFICES ASSUME NEW S \in SUBSET Created', S # {}, \A t \in S : tickets'[t].merged \in S
             PROVE  FALSE
  BY DEF NoMergeCycle
<1>1. ASSUME NEW t \in S PROVE t \in Created /\ tickets[t].merged \in S
  <2>1. Nil \notin S
    BY NilDistinct DEF Created
  <2> QED BY <2>1 DEF LinksKept
<1>2. S \in SUBSET Created
  BY <1>1
<1>3. PICK t \in S : tickets[t].merged \notin S
  BY <1>2 DEF SInv, NoMergeCycle
<1> QED BY <1>1, <1>3

LEMMA AloneStep ==
  ASSUME Alone, NEW p \in Procs, NEW j, job' = [job EXCEPT ![p] = j],
         Fresh(j, tickets', statusRows', now'), Stamped', NoMergeCycle'
  PROVE  SInv'
<1>1. \A q \in Procs : job'[q] = j
  BY DEF Alone, Serial, SInv, IInv, TypeOK
<1>2. \A q \in Procs : Fresh(job'[q], tickets', statusRows', now')
  BY <1>1
<1> QED BY <1>2 DEF Alone, SInv

\* A goroutine that was not saving an answered ticket leaves the stamps.
LEMMA StampedKept ==
  ASSUME Alone, NEW p \in Procs, job[p].step # "save", StampsKept,
         responses' = responses, crashes' = crashes
  PROVE  Stamped'
<1>1. \A q \in Procs : \A t : ~Stamping(job[q], t)
  BY DEF Alone, Serial, Stamping
<1>2. \A t \in responses : \/ t \in Created /\ tickets[t].firstResponseAt # Nil
                           \/ crashes > 0
  BY <1>1 DEF Alone, SInv, Stamped, Created, IInv, TypeOK
<1> QED BY <1>2 DEF Stamped, StampsKept

\* A step that leaves the tables.
LEMMA QuietAlone ==
  ASSUME Alone, NEW p \in Procs, NEW j, job' = [job EXCEPT ![p] = j], job[p].step # "save",
         Fresh(j, tickets, statusRows, now),
         UNCHANGED <<tickets, statusRows, category, anchors, now, responses, crashes>>
  PROVE  SInv' /\ StampsKept
<1>1. StampsKept /\ LinksKept
  BY DEF StampsKept, LinksKept, Created
<1>2. Stamped' /\ NoMergeCycle'
  BY <1>1, StampedKept, CycleNeedsMerge DEF Alone
<1> QED BY <1>1, <1>2, AloneStep

\* A step that writes the row in memory: what it overwrites has not changed.
LEMMA WriteKeeps ==
  ASSUME Alone, NEW p \in Procs, Write(p), job[p].row # Nil
  PROVE  StampsKept /\ LinksKept
<1> DEFINE k == job[p]
<1>1. /\ k.tk \in Created /\ k.row # Nil
      /\ k.row.merged = tickets[k.tk].merged
      /\ tickets[k.tk].firstResponseAt \in {Nil, k.row.firstResponseAt}
  BY DEF Alone, SInv, Fresh, Created
<1>2. tickets' = [tickets EXCEPT ![k.tk] = k.row] \/ tickets' = tickets
  BY DEF Write
<1> HIDE DEF k
<1> QED BY <1>1, <1>2 DEF StampsKept, LinksKept, Created, Alone, SInv, IInv, TypeOK

LEMMA WriteAlone ==
  ASSUME Alone, NEW p \in Procs, NEW j, job' = [job EXCEPT ![p] = j], job[p].step # "save",
         Write(p), job[p].row # Nil, Fresh(j, tickets', statusRows', now'),
         responses' = responses, crashes' = crashes
  PROVE  SInv' /\ StampsKept
<1>1. StampsKept /\ LinksKept
  BY WriteKeeps
<1>2. Stamped' /\ NoMergeCycle'
  BY <1>1, StampedKept, CycleNeedsMerge DEF Alone
<1> QED BY <1>1, <1>2, AloneStep

\* An idle goroutine that changes the table at once.
LEMMA DirectAlone ==
  ASSUME Alone, NEW p \in Procs, NEW j, job' = [job EXCEPT ![p] = j], job[p].step # "save",
         Fresh(j, tickets', statusRows', now'), StampsKept, LinksKept,
         responses' = responses, crashes' = crashes
  PROVE  SInv' /\ StampsKept
<1>1. Stamped' /\ NoMergeCycle'
  BY StampedKept, CycleNeedsMerge DEF Alone
<1> QED BY <1>1, AloneStep
-----------------------------------------------------------------------------
LEMMA BeginAlone ==
  ASSUME Alone, NEW p \in Procs, Begin(p)
  PROVE  SInv' /\ StampsKept
<1>1. ASSUME NEW t \in Created, NEW r, SameLinks(r, tickets[t]),
             ForeignKeys => r.custom \in statusRows \cup {Nil}, Request(p), WillSave(p, t, r)
      PROVE  SInv' /\ StampsKept
  <2> DEFINE j == [Idle EXCEPT !.step = "save", !.tk = t, !.row = r]
  <2>1. j.step = "save" /\ j.tk = t /\ j.row = r /\ j.rows = NoRows
    BY DEF Idle
  <2>2. job' = [job EXCEPT ![p] = j] /\ job[p].step # "save"
        /\ UNCHANGED <<tickets, statusRows, category, anchors, now, responses, crashes>>
    BY <1>1 DEF WillSave, Request, Free
  <2> HIDE DEF j
  <2>3. Fresh(j, tickets, statusRows, now)
    BY <1>1, <2>1, SaverFresh DEF Alone
  <2> QED BY <2>2, <2>3, QuietAlone
\* An idle goroutine that changes the table at once, the others' rows being no matter.
<1>2. ASSUME job[p].step = "idle", UNCHANGED <<job, responses, crashes>>, StampsKept, LinksKept
      PROVE  SInv' /\ StampsKept
  <2>1. job' = [job EXCEPT ![p] = Idle]
    BY <1>2 DEF Alone, SInv, Fresh, IInv, TypeOK
  <2>2. Fresh(Idle, tickets', statusRows', now')
    BY IdleFresh
  <2> QED BY <1>2, <2>1, <2>2, DirectAlone
<1>3. ASSUME NEW t \in Tickets, Create(p, t) PROVE SInv' /\ StampsKept
  <2>1. PICK d \in Details : tickets' = [tickets EXCEPT ![t] = NewTicket(d, now)] \/ tickets' = [tickets EXCEPT ![t] = NewChat(d, now)]
    BY <1>3 DEF Create
  <2>2. NewTicket(d, now).merged = Nil /\ NewChat(d, now).merged = Nil
    BY DEF NewTicket, NewChat
  <2>3. /\ t \notin Created /\ job[p].step = "idle"
        /\ UNCHANGED <<statusRows, category, anchors, now, job, responses, crashes>>
    BY <1>3 DEF Create, Request, Free, Created
  <2>4. StampsKept /\ LinksKept
    BY <2>1, <2>2, <2>3 DEF StampsKept, LinksKept, Created, Alone, SInv, IInv, TypeOK
  <2> QED BY <1>2, <2>3, <2>4
<1>4. ASSUME NEW c \in CustomStatuses, DeleteStatus(p, c) PROVE SInv' /\ StampsKept
  <2>1. /\ job[p].step = "idle" /\ UNCHANGED <<now, job, responses, crashes>>
        /\ tickets' = [t \in Tickets |-> IF t \in Created /\ tickets[t].custom = c
                                         THEN [tickets[t] EXCEPT !.custom = Nil] ELSE tickets[t]]
    BY <1>4 DEF DeleteStatus, Request, Free
  <2>2. ASSUME NEW t \in Tickets PROVE /\ t \in Created' <=> t \in Created
                                       /\ t \in Created => SameLinks(tickets'[t], tickets[t])
    <3>1. CASE t \in Created
      <4>1. tickets[t] \in Row /\ SameLinks([tickets[t] EXCEPT !.custom = Nil], tickets[t])
        BY <3>1, CustomNow, LinksOfRows DEF Alone
      <4>2. [tickets[t] EXCEPT !.custom = Nil] \in Row
        BY <4>1 DEF Row
      <4> QED BY <2>1, <3>1, <4>1, <4>2, NilDistinct DEF Created, SameLinks
    <3>2. CASE t \notin Created
      BY <2>1, <3>2 DEF Created
    <3> QED BY <3>1, <3>2
  <2>3. StampsKept /\ LinksKept
    BY <2>2 DEF StampsKept, LinksKept, SameLinks, Created
  <2> QED BY <1>2, <2>1, <2>3
<1>5. ASSUME NEW t \in Tickets, Assign(p, t) \/ Unassign(p, t) \/ EditDetail(p, t) \/ ChangeStatus(p, t) \/ ApplyPolicy(p, t)
                                \/ EndChat(p, t) \/ Unsnooze(p, t)
      PROVE  SInv' /\ StampsKept
  <2>1. t \in Created /\ Request(p)
    BY <1>5 DEF Assign, Unassign, EditDetail, ChangeStatus, ApplyPolicy, EndChat, Unsnooze
  <2>2. tickets[t] \in Row /\ (ForeignKeys => tickets[t].custom \in statusRows \cup {Nil})
    BY <2>1, CustomNow DEF Alone
  <2>3. ASSUME NEW r, SameLinks(r, tickets[t]), WillSave(p, t, r), r.custom \in {tickets[t].custom, Nil}
        PROVE  SInv' /\ StampsKept
    <3>1. ForeignKeys => r.custom \in statusRows \cup {Nil}
      BY <2>2, <2>3
    <3> QED BY <1>1, <2>1, <2>3, <3>1
  <2>4. CASE Assign(p, t)
    BY <2>2, <2>3, <2>4, LinksOfRows DEF Assign
  <2>5. CASE Unassign(p, t)
    BY <2>2, <2>3, <2>5, LinksOfRows DEF Unassign
  <2>6. CASE EditDetail(p, t)
    BY <2>2, <2>3, <2>6, LinksOfRows DEF EditDetail
  <2>7. CASE ChangeStatus(p, t)
    <3>1. PICK v \in BuiltIn \cup statusRows : WillSave(p, t, WithStatus(tickets[t], v, now))
      BY <2>7 DEF ChangeStatus
    <3>2. Resolve(v).custom \in statusRows \cup {Nil}
      BY RowConstants DEF Resolve, Alone, SInv, IInv, TypeOK
    <3>3. SameLinks(WithStatus(tickets[t], v, now), tickets[t])
          /\ WithStatus(tickets[t], v, now).custom = Resolve(v).custom
      BY <2>2 DEF WithStatus, SameLinks, Row
    <3> QED BY <1>1, <2>1, <3>1, <3>2, <3>3
  <2>8. CASE ApplyPolicy(p, t)
    BY <2>2, <2>3, <2>8, LinksOfRows DEF ApplyPolicy
  <2>9. CASE EndChat(p, t)
    BY <2>2, <2>3, <2>9, LinksOfRows DEF EndChat
  <2>10. CASE Unsnooze(p, t)
    BY <2>2, <2>3, <2>10, LinksOfRows DEF Unsnooze
  <2> QED BY <1>5, <2>4, <2>5, <2>6, <2>7, <2>8, <2>9, <2>10
<1>6. ASSUME NEW t \in Tickets, AddReply(p, t) PROVE SInv' /\ StampsKept
  <2> DEFINE j == [Idle EXCEPT !.step = "reply", !.tk = t, !.row = tickets[t]]
  <2>1. /\ t \in Created /\ job[p].step # "save" /\ UNCHANGED <<tickets, statusRows, category, anchors, now, responses, crashes>>
        /\ job' = [job EXCEPT ![p] = j]
    BY <1>6 DEF AddReply, Request, Free
  <2>2. j.step = "reply" /\ j.tk = t /\ j.row = tickets[t] /\ j.rows = NoRows
    BY DEF Idle
  <2> HIDE DEF j
  <2>3. Fresh(j, tickets, statusRows, now)
    BY <2>1, <2>2, CustomNow DEF Alone, Fresh, NoRows
  <2> QED BY <2>1, <2>3, QuietAlone
<1>7. ASSUME NEW t \in Tickets, Snooze(p, t) PROVE SInv' /\ StampsKept
  <2>1. t \in Created /\ Request(p) /\ job[p].step # "save"
    BY <1>7 DEF Snooze, Request, Free
  <2>2. PICK d \in SnoozeFor :
           \/ WillSave(p, t, Snoozed(tickets[t], now + d))
           \/ /\ job' = [job EXCEPT ![p] = [Idle EXCEPT !.step = "unsnooze", !.tk = t, !.row = Awake(tickets[t]), !.at = now + d]]
              /\ UNCHANGED <<tickets, statusRows, category, anchors, now, responses, crashes>>
    BY <1>7 DEF Snooze
  <2>3. tickets[t] \in Row
    BY <2>1, CustomNow DEF Alone
  <2>4. CASE WillSave(p, t, Snoozed(tickets[t], now + d))
    BY <1>1, <2>1, <2>3, <2>4, LinksOfRows
  <2>5. CASE /\ job' = [job EXCEPT ![p] = [Idle EXCEPT !.step = "unsnooze", !.tk = t, !.row = Awake(tickets[t]), !.at = now + d]]
             /\ UNCHANGED <<tickets, statusRows, category, anchors, now, responses, crashes>>
    <3> DEFINE r == Awake(tickets[t])
               j == [Idle EXCEPT !.step = "unsnooze", !.tk = t, !.row = r, !.at = now + d]
    <3>1. SameLinks(r, tickets[t]) /\ r.custom = Nil
      BY <2>3, LinksOfRows
    <3> HIDE DEF r
    <3>2. j.step = "unsnooze" /\ j.tk = t /\ j.row = r /\ j.rows = NoRows
      BY DEF Idle
    <3>3. job' = [job EXCEPT ![p] = j]
      BY <2>5 DEF r
    <3> HIDE DEF j
    <3>4. Fresh(j, tickets, statusRows, now)
      BY <2>1, <3>1, <3>2, SaverFresh DEF Alone
    <3> QED BY <2>1, <2>5, <3>3, <3>4, QuietAlone
  <2> QED BY <2>2, <2>4, <2>5
<1>8. ASSUME NEW t \in Tickets, FindMerge(p, t) PROVE SInv' /\ StampsKept
  <2>1. PICK target \in Created : /\ tickets[target].merged = Nil
                                  /\ job' = [job EXCEPT ![p] = [Idle EXCEPT !.step = "merge", !.tk = t, !.target = target]]
    BY <1>8 DEF FindMerge
  <2> DEFINE j == [Idle EXCEPT !.step = "merge", !.tk = t, !.target = target]
  <2>2. j.step = "merge" /\ j.row = Nil /\ j.rows = NoRows /\ j.target = target
    BY DEF Idle
  <2>3. job[p].step # "save" /\ UNCHANGED <<tickets, statusRows, category, anchors, now, responses, crashes>>
    BY <1>8 DEF FindMerge, Request, Free
  <2>4. job' = [job EXCEPT ![p] = j]
    BY <2>1
  <2> HIDE DEF j
  <2>5. Fresh(j, tickets, statusRows, now)
    BY <2>1, <2>2 DEF Fresh, NoRows, Created
  <2> QED BY <2>3, <2>4, <2>5, QuietAlone
<1>9. ASSUME NEW c \in CustomStatuses, UpdateStatus(p, c) PROVE SInv' /\ StampsKept
  <2>1. job[p].step = "idle" /\ UNCHANGED <<tickets, job, responses, crashes>> /\ Created' = Created
    BY <1>9 DEF UpdateStatus, Request, Free, Created
  <2>2. StampsKept /\ LinksKept
    BY <2>1 DEF StampsKept, LinksKept, Created
  <2> QED BY <1>2, <2>1, <2>2
<1> QED BY <1>3, <1>4, <1>5, <1>6, <1>7, <1>8, <1>9 DEF Begin

LEMMA FinishAlone ==
  ASSUME Alone, NEW p \in Procs, Finish(p)
  PROVE  SInv' /\ StampsKept
<1> DEFINE k == job[p]
<1>1. /\ k \in Job /\ JobSound(k, Created) /\ Fresh(k, tickets, statusRows, now)
      /\ \A q \in Procs : q = p
  BY DEF Alone, SInv, IInv, JobSound, Serial
<1>2. CASE Save(p)
  <2>1. /\ k.step = "save" /\ k.row # Nil /\ Write(p) /\ job' = [job EXCEPT ![p] = Idle]
        /\ UNCHANGED <<statusRows, category, anchors, now, responses, crashes>>
    BY <1>1, <1>2 DEF Save, JobSound
  <2>2. StampsKept /\ LinksKept
    BY <2>1, WriteKeeps
  <2>3. Writable(p) /\ k.tk \in Tickets
    BY <1>1, <2>1 DEF Writable, Fresh
  <2>4. tickets'[k.tk] = k.row
    BY <2>1, <2>3 DEF Write, Alone, SInv, IInv, TypeOK
  <2>5. ASSUME NEW t \in responses
        PROVE  \/ tickets'[t] # Nil /\ tickets'[t].firstResponseAt # Nil
               \/ crashes > 0
    <3>1. CASE Stamping(k, t)
      BY <2>1, <2>4, <3>1 DEF Stamping
    <3>2. CASE ~Stamping(k, t)
      <4>1. t \in Tickets /\ \A q \in Procs : ~Stamping(job[q], t)
        BY <1>1, <3>2 DEF Alone, SInv, IInv, TypeOK
      <4>2. (t \in Created /\ tickets[t].firstResponseAt # Nil) \/ crashes > 0
        BY <4>1 DEF Alone, SInv, Stamped, Created
      <4> QED BY <2>2, <4>2 DEF StampsKept
    <3> QED BY <3>1, <3>2
  <2>6. Stamped'
    BY <2>1, <2>5 DEF Stamped
  <2>7. NoMergeCycle' /\ Fresh(Idle, tickets', statusRows', now')
    BY <2>2, CycleNeedsMerge, IdleFresh DEF Alone
  <2> QED BY <2>1, <2>2, <2>6, <2>7, AloneStep
<1>3. CASE InsertReply(p)
  <2>1. /\ k.step = "reply" /\ k.row = tickets[k.tk] /\ k.tk \in Created /\ k.row # Nil /\ k.rows = NoRows
        /\ responses' = responses \cup {k.tk} /\ UNCHANGED <<tickets, statusRows, category, anchors, now, crashes>>
        /\ job' = [job EXCEPT ![p] = IF k.row.firstResponseAt = Nil
                                     THEN [k EXCEPT !.step = "save", !.row = Responded(k.row, now)]
                                     ELSE Idle]
    BY <1>1, <1>3 DEF InsertReply, JobSound, Fresh, Created
  <2>2. StampsKept /\ LinksKept
    BY <2>1 DEF StampsKept, LinksKept, Created
  <2>3. NoMergeCycle'
    BY <2>2, CycleNeedsMerge DEF Alone
  <2>4. \A t \in responses : (t \in Created /\ tickets[t].firstResponseAt # Nil) \/ crashes > 0
    BY <1>1, <2>1 DEF Alone, SInv, Stamped, Stamping, Created, IInv, TypeOK
  <2>5. CASE k.row.firstResponseAt # Nil
    <3>1. Stamped'
      BY <2>1, <2>4, <2>5 DEF Stamped, Created
    <3>2. job' = [job EXCEPT ![p] = Idle] /\ Fresh(Idle, tickets', statusRows', now')
      BY <2>1, <2>5, IdleFresh
    <3> QED BY <2>2, <2>3, <3>1, <3>2, AloneStep
  <2>6. CASE k.row.firstResponseAt = Nil
    <3> DEFINE r == Responded(k.row, now)
               j == [k EXCEPT !.step = "save", !.row = r]
    <3>1. k.row \in Row /\ now # Nil
      BY <2>1, CustomNow, NilDistinct DEF Alone, SInv, IInv, TypeOK
    <3>2. r.merged = k.row.merged /\ r.firstResponseAt = now /\ r.custom = k.row.custom
      BY <3>1, LinksOfRows
    <3> HIDE DEF r
    <3>3. j.step = "save" /\ j.tk = k.tk /\ j.row = r /\ j.rows = NoRows
      BY <1>1, <2>1 DEF Job
    <3>4. job' = [job EXCEPT ![p] = j]
      BY <2>1, <2>6 DEF r
    <3> HIDE DEF j
    <3>5. Fresh(j, tickets, statusRows, now)
      BY <1>1, <2>1, <2>6, <3>2, <3>3 DEF Fresh, NoRows, Created
    <3>6. Stamping(j, k.tk) /\ job'[p] = j
      BY <3>1, <3>2, <3>3, <3>4 DEF Stamping, Alone, SInv, IInv, TypeOK
    <3>7. Stamped'
      BY <2>1, <2>4, <3>6 DEF Stamped, Created
    <3> QED BY <2>1, <2>2, <2>3, <3>4, <3>5, <3>7, AloneStep
  <2> QED BY <2>5, <2>6
<1>4. CASE SaveUnsnooze(p)
  <2> DEFINE j == [Idle EXCEPT !.step = "resnooze", !.tk = k.tk, !.at = k.at]
  <2>1. /\ k.step = "unsnooze" /\ k.row # Nil /\ Write(p) /\ UNCHANGED <<statusRows, category, anchors, now, responses, crashes>>
        /\ job' = [job EXCEPT ![p] = Idle] \/ job' = [job EXCEPT ![p] = j]
    BY <1>1, <1>4 DEF SaveUnsnooze, JobSound
  <2>2. j.step = "resnooze" /\ j.row = Nil /\ j.rows = NoRows
    BY DEF Idle
  <2> HIDE DEF j
  <2>3. Fresh(j, tickets', statusRows', now') /\ Fresh(Idle, tickets', statusRows', now')
    BY <2>2, IdleFresh DEF Fresh, NoRows
  <2>4. PICK m : Fresh(m, tickets', statusRows', now') /\ job' = [job EXCEPT ![p] = m]
    BY <2>1, <2>3
  <2> QED BY <2>1, <2>4, WriteAlone
<1>5. CASE Resnooze(p)
  <2> DEFINE r == Snoozed(tickets[k.tk], k.at)
             j == [Idle EXCEPT !.step = "save", !.tk = k.tk, !.row = r]
  <2>1. /\ k.step = "resnooze" /\ k.tk \in Created /\ UNCHANGED <<tickets, statusRows, category, anchors, now, responses, crashes>>
        /\ job' = [job EXCEPT ![p] = Idle] \/ job' = [job EXCEPT ![p] = j]
    BY <1>1, <1>5 DEF Resnooze, JobSound
  <2>2. SameLinks(r, tickets[k.tk]) /\ r.custom = Nil
    <3>1. tickets[k.tk] \in Row
      BY <2>1, CustomNow DEF Alone
    <3> QED BY <3>1 DEF Snoozed, SameLinks, Row
  <2> HIDE DEF r
  <2>3. j.step = "save" /\ j.tk = k.tk /\ j.row = r /\ j.rows = NoRows
    BY DEF Idle
  <2> HIDE DEF j
  <2>4. Fresh(j, tickets, statusRows, now) /\ Fresh(Idle, tickets, statusRows, now)
    BY <2>1, <2>2, <2>3, SaverFresh, IdleFresh DEF Alone
  <2>5. PICK m : Fresh(m, tickets, statusRows, now) /\ job' = [job EXCEPT ![p] = m]
    BY <2>1, <2>4
  <2> QED BY <2>1, <2>5, QuietAlone
\* The target is still unmerged at the commit, and it is not the source.
<1>6. CASE CommitMerge(p)
  <2>1. /\ tickets' = [tickets EXCEPT ![k.tk] = MergedInto(@, k.target, now)] /\ k.tk \in Created
        /\ k.step = "merge" /\ k.target \in Tickets /\ k.target # k.tk
        /\ tickets[k.target] # Nil /\ tickets[k.target].merged = Nil
        /\ job' = [job EXCEPT ![p] = Idle] /\ UNCHANGED <<statusRows, category, anchors, now, responses, crashes>>
    BY <1>1, <1>6 DEF CommitMerge, JobSound, Fresh
  <2>2. /\ MergedInto(tickets[k.tk], k.target, now).merged = k.target
        /\ MergedInto(tickets[k.tk], k.target, now).firstResponseAt = tickets[k.tk].firstResponseAt
        /\ MergedInto(tickets[k.tk], k.target, now) # Nil
    <3>1. RowSound(k.tk, MergedInto(tickets[k.tk], k.target, now))
      BY <2>1, CreatedSound, MergedIntoSound DEF Alone, SInv, IInv, TypeOK
    <3>2. tickets[k.tk] \in Row
      BY <2>1, CustomNow DEF Alone
    <3> QED BY <3>1, <3>2, NilDistinct DEF RowSound, MergedInto, Row
  <2>3. /\ \A t \in Tickets \ {k.tk} : tickets'[t] = tickets[t]
        /\ tickets'[k.tk].merged = k.target /\ tickets'[k.tk] # Nil
        /\ tickets'[k.tk].firstResponseAt = tickets[k.tk].firstResponseAt
    BY <2>1, <2>2 DEF Alone, SInv, IInv, TypeOK, Created
  <2>4. StampsKept /\ Created' = Created
    BY <2>1, <2>3 DEF StampsKept, Created
  <2>5. Stamped'
    BY <2>1, <2>4, StampedKept
  <2>6. NoMergeCycle'
    <3> SUFFICES ASSUME NEW S \in SUBSET Created, S # {}, \A t \in S : tickets'[t].merged \in S
                 PROVE  FALSE
      BY <2>4 DEF NoMergeCycle
    <3>1. k.tk \notin S
      <4> SUFFICES ASSUME k.tk \in S PROVE FALSE
        OBVIOUS
      <4>1. k.target \in S
        BY <2>3
      <4>2. tickets'[k.target].merged = Nil
        BY <2>1, <2>3
      <4> QED BY <4>1, <4>2, NilDistinct DEF Created
    <3>2. \A t \in S : tickets[t].merged \in S
      BY <2>3, <3>1 DEF Created
    <3> QED BY <3>2 DEF Alone, SInv, NoMergeCycle
  <2>7. Fresh(Idle, tickets', statusRows', now')
    BY IdleFresh
  <2> QED BY <2>1, <2>4, <2>5, <2>6, <2>7, AloneStep
<1> QED BY <1>2, <1>3, <1>4, <1>5, <1>6 DEF Finish

LEMMA ContinueFresh ==
  ASSUME NEW m \in Job, m.rows = NoRows, NEW step \in {"wake", "act"}, NEW T, NEW S, NEW at,
         step = "wake" => \A t \in m.todo : T[t] # Nil /\ SnoozeDue(T[t], at)
  PROVE  Fresh(Continue(step, m), T, S, at)
<1>1. CASE m.todo = {}
  BY <1>1, IdleFresh DEF Continue
<1>2. CASE m.todo # {}
  <2> DEFINE j == [m EXCEPT !.step = step, !.tk = Nil, !.row = Nil]
  <2>1. Continue(step, m) = j
    BY <1>2 DEF Continue
  <2>2. j.step = step /\ j.row = Nil /\ j.rows = NoRows /\ j.todo = m.todo
    BY DEF Job
  <2> HIDE DEF j
  <2> QED BY <2>1, <2>2 DEF Fresh, NoRows
<1> QED BY <1>1, <1>2

LEMMA WakeAlone ==
  ASSUME Alone, NEW p \in Procs, Wake(p)
  PROVE  SInv' /\ StampsKept
<1> DEFINE k == job[p]
<1>1. k \in Job /\ JobSound(k, Created) /\ Fresh(k, tickets, statusRows, now)
  BY DEF Alone, SInv, IInv, JobSound
<1>2. CASE ListSnoozed(p)
  <2> DEFINE due == {t \in Created : SnoozeDue(tickets[t], now)}
             j == [Idle EXCEPT !.step = "wake", !.todo = due]
  <2>1. job' = [job EXCEPT ![p] = j] /\ k.step # "save" /\ UNCHANGED <<tickets, statusRows, category, anchors, now, responses, crashes>>
    BY <1>2 DEF ListSnoozed, Free
  <2>2. j.step = "wake" /\ j.row = Nil /\ j.rows = NoRows /\ j.todo = due
    BY DEF Idle
  <2> HIDE DEF j
  <2>3. Fresh(j, tickets, statusRows, now)
    BY <2>2 DEF Fresh, NoRows, Created
  <2> QED BY <2>1, <2>3, QuietAlone
<1>3. CASE WakeNext(p)
  <2> DEFINE rest(t) == [k EXCEPT !.todo = @ \ {t}]
  <2>1. PICK t \in k.todo :
          /\ job' = [job EXCEPT ![p] =
                        IF tickets[t].status = "snoozed"
                        THEN [rest(t) EXCEPT !.step = "wakeSave", !.tk = t, !.row = Awake(tickets[t])]
                        ELSE Continue("wake", rest(t))]
          /\ k.step = "wake"
          /\ UNCHANGED <<tickets, statusRows, category, anchors, now, responses, crashes>>
    BY <1>3 DEF WakeNext
  <2> DEFINE m == rest(t)
             r == Awake(tickets[t])
             j == [m EXCEPT !.step = "wakeSave", !.tk = t, !.row = r]
  <2>2. m \in Job /\ m.rows = NoRows /\ m.todo = k.todo \ {t}
    BY <1>1, <2>1 DEF Job, Fresh
  <2>3. t \in Created /\ SnoozeDue(tickets[t], now) /\ \A u \in k.todo : tickets[u] # Nil /\ SnoozeDue(tickets[u], now)
    BY <1>1, <2>1 DEF JobSound, Fresh
  <2>4. SameLinks(r, tickets[t]) /\ r.custom = Nil
    BY <2>3, CustomNow, LinksOfRows DEF Alone
  <2> HIDE DEF rest, m, r
  <2>5. j.step = "wakeSave" /\ j.tk = t /\ j.row = r /\ j.rows = NoRows /\ j.todo = k.todo \ {t}
    BY <2>2 DEF Job
  <2>6. job' = [job EXCEPT ![p] = j]
    BY <2>1, <2>3 DEF m, r, SnoozeDue
  <2> HIDE DEF j
  <2>7. Fresh(j, tickets, statusRows, now)
    BY <2>3, <2>4, <2>5, CustomNow DEF Alone, Fresh, SameLinks, NoRows
  <2> QED BY <2>1, <2>6, <2>7, QuietAlone
<1>4. CASE SaveAwake(p)
  <2>1. /\ k.step = "wakeSave" /\ k.row # Nil /\ Write(p) /\ UNCHANGED <<statusRows, category, anchors, now, responses, crashes>>
        /\ job' = [job EXCEPT ![p] = Continue("wake", k)]
    BY <1>1, <1>4 DEF SaveAwake, JobSound
  <2>2. k.rows = NoRows /\ k.tk \notin k.todo /\ \A t \in k.todo : tickets[t] # Nil /\ SnoozeDue(tickets[t], now)
    BY <1>1, <2>1 DEF Fresh
  <2>3. \A t \in k.todo : tickets'[t] = tickets[t]
    BY <1>1, <2>1, <2>2 DEF Write, Alone, SInv, IInv, TypeOK, Job
  <2>4. Fresh(Continue("wake", k), tickets', statusRows', now')
    BY <1>1, <2>1, <2>2, <2>3, ContinueFresh
  <2> QED BY <2>1, <2>4, WriteAlone
<1> QED BY <1>2, <1>3, <1>4 DEF Wake

LEMMA CheckAlone ==
  ASSUME Alone, NEW p \in Procs, Check(p)
  PROVE  SInv' /\ StampsKept
<1> DEFINE k == job[p]
<1>1. k \in Job /\ JobSound(k, Created) /\ Fresh(k, tickets, statusRows, now)
  BY DEF Alone, SInv, IInv, JobSound
\* Between two tickets of the list, or two lists.
<1>2. ASSUME NEW m \in Job, \A t \in Tickets : m.rows[t] # Nil => m.rows[t] = tickets[t]
      PROVE  Fresh(Checked(m), tickets, statusRows, now)
  <2>1. Checked(m).step \in {"scan", "check"} /\ Checked(m).row = Nil /\ Checked(m).rows = m.rows
    BY DEF Checked, Job
  <2> QED BY <1>2, <2>1 DEF Fresh
<1>3. CASE StartCheck(p)
  <2> DEFINE j == [Idle EXCEPT !.step = "scan", !.at = now]
  <2>1. job' = [job EXCEPT ![p] = j] /\ k.step # "save" /\ UNCHANGED <<tickets, statusRows, category, anchors, now, responses, crashes>>
    BY <1>3 DEF StartCheck, Free
  <2>2. j.step = "scan" /\ j.row = Nil /\ j.rows = NoRows
    BY DEF Idle
  <2> HIDE DEF j
  <2>3. Fresh(j, tickets, statusRows, now)
    BY <2>2 DEF Fresh, NoRows
  <2> QED BY <2>1, <2>3, QuietAlone
<1>4. CASE ScanStatus(p)
  <2> DEFINE n == k.scanned + 1
             Read(f) == [t \in Tickets |-> IF t \in f THEN tickets[t] ELSE Nil]
             Scan(f) == [k EXCEPT !.scanned = n, !.todo = f, !.rows = Read(f),
                                  !.step = IF f = {} THEN "scan" ELSE "check"]
  <2>a. \/ job' = [job EXCEPT ![p] = Idle]
        \/ \E f \in SUBSET Created : job' = [job EXCEPT ![p] = Scan(f)]
    BY <1>4 DEF ScanStatus, Listings
  <2>b. PICK found \in SUBSET Created : \/ job' = [job EXCEPT ![p] = Idle]
                                       \/ job' = [job EXCEPT ![p] = Scan(found)]
    BY <2>a
  <2> DEFINE listed == Read(found)
             j == Scan(found)
  <2>1. /\ job' = [job EXCEPT ![p] = Idle] \/ job' = [job EXCEPT ![p] = j]
        /\ k.step = "scan" /\ UNCHANGED <<tickets, statusRows, category, anchors, now, responses, crashes>>
    BY <1>4, <2>b DEF ScanStatus
  <2>2. j.rows = listed /\ j.row = k.row /\ j.tk = k.tk /\ j.step \in {"scan", "check"}
    BY <1>1 DEF Job
  <2>3. \A t \in Tickets : listed[t] # Nil => listed[t] = tickets[t]
    OBVIOUS
  <2> HIDE DEF j, listed
  <2>4. Fresh(j, tickets, statusRows, now) /\ Fresh(Idle, tickets, statusRows, now)
    BY <1>1, <2>1, <2>2, <2>3, IdleFresh DEF Fresh
  <2>5. PICK i : Fresh(i, tickets, statusRows, now) /\ job' = [job EXCEPT ![p] = i]
    BY <2>1, <2>4
  <2> QED BY <2>1, <2>5, QuietAlone
<1>5. CASE CheckNext(p)
  <2> DEFINE rest(t) == [k EXCEPT !.todo = @ \ {t}, !.rows[t] = Nil]
  <2>1. PICK t \in k.todo :
          /\ \/ job' = [job EXCEPT ![p] = [rest(t) EXCEPT !.step = "checkSave", !.tk = t, !.row = Breached(k.rows[t])]]
             \/ job' = [job EXCEPT ![p] = Checked(rest(t))]
          /\ k.step = "check" /\ UNCHANGED <<tickets, statusRows, category, anchors, now, responses, crashes>>
    BY <1>5 DEF CheckNext
  <2>2. t \in Tickets /\ k.rows[t] # Nil /\ k.rows[t] = tickets[t]
    BY <1>1, <2>1 DEF JobSound, Job, Fresh
  <2>3. t \in Created
    BY <2>2 DEF Created
  <2> DEFINE m == rest(t)
             r == Breached(k.rows[t])
             j == [m EXCEPT !.step = "checkSave", !.tk = t, !.row = r]
  <2>4. /\ m \in Job /\ m.rows[t] = Nil
        /\ \A u \in Tickets : m.rows[u] # Nil => m.rows[u] = k.rows[u]
    BY <1>1, <2>2 DEF Job
  <2>5. \A u \in Tickets : m.rows[u] # Nil => m.rows[u] = tickets[u]
    BY <1>1, <2>4 DEF Fresh
  <2>6. SameLinks(r, tickets[t]) /\ r.custom = tickets[t].custom
    BY <2>2, <2>3, CustomNow, LinksOfRows DEF Alone
  <2> HIDE DEF rest, m, r
  <2>7. j.step = "checkSave" /\ j.rows = m.rows /\ j.tk = t /\ j.row = r
    BY <2>4 DEF Job
  <2> HIDE DEF j
  <2>8. Fresh(j, tickets, statusRows, now)
    BY <2>3, <2>4, <2>5, <2>6, <2>7, CustomNow DEF Alone, Fresh, SameLinks
  <2>9. Fresh(Checked(m), tickets, statusRows, now)
    BY <1>2, <2>4, <2>5
  <2>10. PICK i : Fresh(i, tickets, statusRows, now) /\ job' = [job EXCEPT ![p] = i]
    BY <2>1, <2>8, <2>9 DEF j, m, r
  <2> QED BY <2>1, <2>10, QuietAlone
<1>6. CASE SaveBreach(p)
  <2>1. /\ k.step = "checkSave" /\ k.row # Nil /\ Write(p) /\ UNCHANGED <<statusRows, category, anchors, now, responses, crashes>>
        /\ k.rows[k.tk] = Nil /\ k.tk \in Tickets
        /\ \A t \in Tickets : k.rows[t] # Nil => k.rows[t] = tickets[t]
    BY <1>1, <1>6 DEF SaveBreach, JobSound, Fresh
  <2>2. CASE ~Writable(p)
    <3>1. job' = [job EXCEPT ![p] = Checked(k)] /\ tickets' = tickets
      BY <1>6, <2>2 DEF SaveBreach, Write
    <3>2. Fresh(Checked(k), tickets, statusRows, now)
      BY <1>1, <1>2, <2>1
    <3> QED BY <2>1, <3>1, <3>2, QuietAlone
  <2>3. CASE Writable(p)
    <3> DEFINE j == [k EXCEPT !.step = "announce"]
    <3>1. job' = [job EXCEPT ![p] = j] /\ tickets' = [tickets EXCEPT ![k.tk] = k.row]
      BY <1>6, <2>3 DEF SaveBreach, Write
    <3>2. j.step = "announce" /\ j.tk = k.tk /\ j.row = k.row /\ j.rows = k.rows
      BY <1>1 DEF Job
    <3> HIDE DEF j
    <3>3. tickets'[k.tk] = k.row /\ \A t \in Tickets : k.rows[t] # Nil => k.rows[t] = tickets'[t]
      BY <2>1, <3>1 DEF Alone, SInv, IInv, TypeOK
    <3>4. Fresh(j, tickets', statusRows', now')
      BY <1>1, <2>1, <3>2, <3>3 DEF Fresh
    <3> QED BY <2>1, <3>1, <3>4, WriteAlone
  <2> QED BY <2>2, <2>3
<1>7. CASE Announce(p)
  <2>1. /\ k.step = "announce" /\ job' = [job EXCEPT ![p] = Checked(k)]
        /\ UNCHANGED <<tickets, statusRows, category, anchors, now, responses, crashes>>
    BY <1>7 DEF Announce
  <2>2. Fresh(Checked(k), tickets, statusRows, now)
    BY <1>1, <1>2 DEF Fresh
  <2> QED BY <2>1, <2>2, QuietAlone
<1> QED BY <1>3, <1>4, <1>5, <1>6, <1>7 DEF Check

LEMMA RulesAlone ==
  ASSUME Alone, NEW p \in Procs, Rules(p)
  PROVE  SInv' /\ StampsKept
<1> DEFINE k == job[p]
<1>1. k \in Job /\ JobSound(k, Created) /\ Fresh(k, tickets, statusRows, now)
  BY DEF Alone, SInv, IInv, JobSound
\* A direct UPDATE of the status columns.
<1>2. ASSUME NEW t \in Created, NEW v, tickets' = [tickets EXCEPT ![t] = DirectStatus(@, v)],
             v \in BuiltIn \cup CustomStatuses
      PROVE  StampsKept /\ LinksKept
  <2>1. tickets[t] \in Row
    BY CustomNow DEF Alone
  <2>2. SameLinks(DirectStatus(tickets[t], v), tickets[t])
    BY <2>1 DEF DirectStatus, SameLinks, Row
  <2>3. RowSound(t, DirectStatus(tickets[t], v))
    BY <1>2, CreatedSound, DirectStatusSound DEF Alone, SInv, IInv
  <2> QED BY <1>2, <2>2, <2>3, NilDistinct DEF RowSound, SameLinks, StampsKept, LinksKept, Created, Alone, SInv, IInv, TypeOK
<1>3. CASE MatchRule(p)
  <2>1. PICK v, ids : job' = [job EXCEPT ![p] = [Idle EXCEPT !.step = "act", !.value = v, !.todo = ids]]
    BY <1>3 DEF MatchRule
  <2> DEFINE j == [Idle EXCEPT !.step = "act", !.value = v, !.todo = ids]
  <2>2. j.step = "act" /\ j.row = Nil /\ j.rows = NoRows
    BY DEF Idle
  <2>3. k.step # "save" /\ UNCHANGED <<tickets, statusRows, category, anchors, now, responses, crashes>> /\ job' = [job EXCEPT ![p] = j]
    BY <1>3, <2>1 DEF MatchRule, Free
  <2> HIDE DEF j
  <2>4. Fresh(j, tickets, statusRows, now)
    BY <2>2 DEF Fresh, NoRows
  <2> QED BY <2>3, <2>4, QuietAlone
<1>4. CASE ActNext(p)
  <2> DEFINE rest(t) == [k EXCEPT !.todo = @ \ {t}]
  <2>1. PICK t \in k.todo :
          /\ \/ /\ k.value \in BuiltIn \cup statusRows
                /\ tickets' = [tickets EXCEPT ![t] = DirectStatus(@, k.value)]
                /\ job' = [job EXCEPT ![p] = Continue("act", rest(t))]
             \/ /\ k.value = "escalated"
                /\ job' = [job EXCEPT ![p] = [rest(t) EXCEPT !.step = "actSave", !.tk = t,
                                              !.row = WithStatus(tickets[t], k.value, now)]]
                /\ UNCHANGED tickets
             \/ /\ job' = [job EXCEPT ![p] = Continue("act", rest(t))]
                /\ UNCHANGED tickets
          /\ k.step = "act" /\ UNCHANGED <<statusRows, category, anchors, now, responses, crashes>>
    BY <1>4 DEF ActNext
  <2> DEFINE m == rest(t)
             r == WithStatus(tickets[t], k.value, now)
             j == [m EXCEPT !.step = "actSave", !.tk = t, !.row = r]
  <2>2. m \in Job /\ m.rows = NoRows
    BY <1>1, <2>1 DEF Job, Fresh
  <2>3. t \in Created
    BY <1>1, <2>1 DEF JobSound
  <2> HIDE DEF rest, m, r
  <2>4. Fresh(Continue("act", m), tickets', statusRows', now')
    BY <2>2, ContinueFresh
  <2>5. CASE /\ k.value = "escalated" /\ job' = [job EXCEPT ![p] = j] /\ UNCHANGED tickets
    <3>1. tickets[t] \in Row
      BY <2>3, CustomNow DEF Alone
    <3>2. SameLinks(r, tickets[t]) /\ r.custom = Resolve(k.value).custom
      BY <3>1 DEF r, WithStatus, SameLinks, Row
    <3>3. Resolve(k.value).custom = Nil
      BY <2>5, RowConstants DEF Resolve, BuiltIn
    <3>4. j.step = "actSave" /\ j.tk = t /\ j.row = r /\ j.rows = NoRows
      BY <2>2 DEF Job
    <3> HIDE DEF j
    <3>5. Fresh(j, tickets, statusRows, now)
      BY <2>3, <3>2, <3>3, <3>4, SaverFresh DEF Alone
    <3> QED BY <2>1, <2>5, <3>5, QuietAlone
  <2>6. CASE job' = [job EXCEPT ![p] = Continue("act", m)] /\ UNCHANGED tickets
    BY <2>1, <2>4, <2>6, QuietAlone
  <2>7. CASE /\ k.value \in BuiltIn \cup statusRows
             /\ tickets' = [tickets EXCEPT ![t] = DirectStatus(@, k.value)]
             /\ job' = [job EXCEPT ![p] = Continue("act", m)]
    <3>1. k.value \in BuiltIn \cup CustomStatuses
      BY <2>7 DEF Alone, SInv, IInv, TypeOK
    <3>2. StampsKept /\ LinksKept
      BY <1>2, <2>3, <2>7, <3>1
    <3> QED BY <2>1, <2>4, <2>7, <3>2, DirectAlone
  <2> QED BY <2>1, <2>5, <2>6, <2>7 DEF m, r
<1>5. CASE SaveAct(p)
  <2>1. /\ k.step = "actSave" /\ k.row # Nil /\ Write(p) /\ UNCHANGED <<statusRows, category, anchors, now, responses, crashes>>
        /\ job' = [job EXCEPT ![p] = Continue("act", k)] /\ k.rows = NoRows
    BY <1>1, <1>5 DEF SaveAct, JobSound, Fresh
  <2>2. Fresh(Continue("act", k), tickets', statusRows', now')
    BY <1>1, <2>1, ContinueFresh
  <2> QED BY <2>1, <2>2, WriteAlone
<1>6. CASE RunWorkflow(p)
  <2>1. PICK t \in Created, v \in RuleValues \cap (BuiltIn \cup statusRows) : tickets' = [tickets EXCEPT ![t] = DirectStatus(@, v)]
    BY <1>6 DEF RunWorkflow
  <2>2. v \in BuiltIn \cup CustomStatuses
    BY DEF Alone, SInv, IInv, TypeOK
  <2>3. StampsKept /\ LinksKept
    BY <1>2, <2>1, <2>2
  <2>4. k.step # "save" /\ k = Idle /\ UNCHANGED <<job, responses, crashes>>
    BY <1>1, <1>6 DEF RunWorkflow, Free, Fresh
  <2>5. job' = [job EXCEPT ![p] = Idle] /\ Fresh(Idle, tickets', statusRows', now')
    BY <2>4, IdleFresh DEF Alone, SInv, IInv, TypeOK
  <2> QED BY <2>3, <2>4, <2>5, DirectAlone
<1> QED BY <1>3, <1>4, <1>5, <1>6 DEF Rules

LEMMA StepAlone ==
  ASSUME Alone, [Next]_vars
  PROVE  SInv' /\ StampsKept
<1>1. CASE UNCHANGED vars
  BY <1>1 DEF vars, Alone, SInv, Stamped, StampsKept, NoMergeCycle, NoDeletedStatus, Created
<1>2. CASE Tick
  <2>1. now \in Nat /\ now' = now + 1 /\ UNCHANGED <<tickets, statusRows, category, anchors, job, responses, crashes>>
    BY <1>2 DEF Tick, Alone, SInv, IInv, TypeOK
  <2>2. ASSUME NEW t \in Created, SnoozeDue(tickets[t], now) PROVE SnoozeDue(tickets[t], now')
    <3>1. tickets[t].snoozedUntil \in Nat
      BY <2>2, CustomNow DEF Alone, SnoozeDue, Row, Time
    <3> QED BY <2>1, <2>2, <3>1 DEF SnoozeDue
  <2>3. ASSUME NEW p \in Procs PROVE Fresh(job[p], tickets, statusRows, now')
    <3>1. Fresh(job[p], tickets, statusRows, now) /\ JobSound(job[p], Created)
      BY DEF Alone, SInv, IInv
    <3>2. job[p].step \in {"wake", "wakeSave"} => \A t \in job[p].todo : SnoozeDue(tickets[t], now')
      BY <2>2, <3>1 DEF Fresh, JobSound
    <3>3. job[p].step = "wakeSave" => SnoozeDue(tickets[job[p].tk], now')
      BY <2>2, <3>1 DEF Fresh, JobSound, Created
    <3> QED BY <3>1, <3>2, <3>3 DEF Fresh
  <2>4. Stamped' /\ NoMergeCycle' /\ StampsKept
    BY <2>1 DEF Alone, SInv, Stamped, NoMergeCycle, StampsKept, Created
  <2> QED BY <2>1, <2>3, <2>4 DEF Alone, SInv
<1>3. ASSUME NEW p \in Procs, Crash(p) PROVE SInv' /\ StampsKept
  <2>1. crashes' > 0 /\ UNCHANGED <<tickets, statusRows, category, anchors, now>> /\ job' = [job EXCEPT ![p] = Idle]
    BY <1>3 DEF Crash, Alone, SInv, IInv, TypeOK
  <2>2. StampsKept /\ Stamped' /\ NoMergeCycle'
    BY <2>1 DEF StampsKept, Stamped, NoMergeCycle, Created, Alone, SInv
  <2>3. Fresh(Idle, tickets', statusRows', now')
    BY IdleFresh
  <2> QED BY <2>1, <2>2, <2>3, AloneStep
<1> QED BY <1>1, <1>2, <1>3, BeginAlone, FinishAlone, WakeAlone, CheckAlone, RulesAlone DEF Next

LEMMA InitAlone == Init => SInv
<1> SUFFICES ASSUME Init PROVE SInv
  OBVIOUS
<1>1. PICK d \in Details : tickets = [u \in Tickets |-> IF u \in Existing THEN NewTicket(d, 0) ELSE Nil]
  BY DEF Init
<1>2. NewTicket(d, 0).custom = Nil /\ NewTicket(d, 0).merged = Nil
  BY DEF NewTicket
<1>3. \A t \in Created : tickets[t].custom = Nil /\ tickets[t].merged = Nil
  BY <1>1, <1>2 DEF Created
<1>4. NoDeletedStatus
  BY <1>3 DEF NoDeletedStatus
<1>5. NoMergeCycle
  BY <1>3, NilDistinct DEF NoMergeCycle, Created
<1>6. \A p \in Procs : Fresh(job[p], tickets, statusRows, now)
  BY IdleFresh DEF Init
<1>7. Stamped
  BY DEF Init, Stamped
<1> QED BY <1>4, <1>5, <1>6, <1>7, InitInvariant DEF SInv

LEMMA StepSerial == ASSUME Serial PROVE SInv /\ [Next]_vars => SInv' /\ StampsKept
<1> SUFFICES ASSUME SInv, [Next]_vars PROVE SInv' /\ StampsKept
  OBVIOUS
<1>1. IInv'
  BY StepInvariant DEF SInv
<1>2. ForeignKeys => NoDeletedStatus'
  BY StepKeepsCustom DEF SInv
<1> QED BY <1>1, <1>2, StepAlone DEF Alone

\* With one goroutine, what it holds in memory is still so when it is written.
THEOREM SerialInvariant == ASSUME Serial PROVE Spec => []SInv
<1>1. SInv /\ [Next]_vars => SInv'
  BY StepSerial
<1> QED BY <1>1, InitAlone, PTL DEF Spec

\* Where nothing overlaps, first_response_at is written once: no operation of
\* TicketService, of the tickers or of the rules moves or clears it.
THEOREM FirstResponseStays == ASSUME Serial PROVE Spec => FirstResponseKept
<1>1. SInv /\ [Next]_vars
        => [\A t \in Created : tickets[t].firstResponseAt # Nil
              => tickets'[t].firstResponseAt = tickets[t].firstResponseAt]_vars
  BY StepSerial DEF StampsKept
<1> QED BY <1>1, SerialInvariant, PTL DEF Spec, FirstResponseKept

\* ... and a ticket answered carries it once AddReply is over, unless the
\* process died between the two statements.
THEOREM AnswersAreStamped == ASSUME Serial PROVE Spec => []AnsweredIsStamped
<1>1. SInv => AnsweredIsStamped
  <2> SUFFICES ASSUME SInv, crashes = 0, \A p \in Procs : job[p].step = "idle", NEW t \in responses
               PROVE  tickets[t].firstResponseAt # Nil
    BY DEF AnsweredIsStamped
  <2> QED BY DEF SInv, Stamped, Stamping
<1> QED BY <1>1, SerialInvariant, PTL

\* ... the waker writes only tickets whose snooze has run out (SnoozeService).
THEOREM WakesOnTime == ASSUME Serial PROVE Spec => WokenOnTime
<1>1. SInv => [\A p \in Procs : job[p].step = "wakeSave" /\ tickets' # tickets
                 => tickets[job[p].tk].snoozedUntil \in 0..now]_vars
  <2> SUFFICES ASSUME SInv, NEW p \in Procs, job[p].step = "wakeSave"
               PROVE  tickets[job[p].tk].snoozedUntil \in 0..now
    OBVIOUS
  <2>1. /\ SnoozeDue(tickets[job[p].tk], now) /\ job[p].tk \in Created
        /\ JobSound(job[p], Created) /\ now \in Nat
    BY DEF SInv, Fresh, IInv, TypeOK, JobSound, Created
  <2>2. tickets[job[p].tk].snoozedUntil \in Nat
    BY <2>1, CustomNow DEF SnoozeDue, Row, Time
  <2> QED BY <2>1, <2>2 DEF SnoozeDue
<1> QED BY <1>1, SerialInvariant, PTL DEF WokenOnTime

\* ... and merges never close a cycle, because the target is still unmerged when
\* the merge commits (TicketMergeService.Merge).
THEOREM MergesEnd == ASSUME Serial PROVE Spec => []NoMergeCycle
<1>1. SInv => NoMergeCycle
  BY DEF SInv
<1> QED BY <1>1, SerialInvariant, PTL
=============================================================================
