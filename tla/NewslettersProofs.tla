-------------------------- MODULE NewslettersProofs --------------------------
(***************************************************************************)
(* What the worker and the callbacks keep: rows are whole whoever writes    *)
(* them back last, and without overlap or crash a delivery is mailed once,  *)
(* a campaign is done when it is sent, and nobody who refused is planned.   *)
(***************************************************************************)
EXTENDS Newsletters, TLAPS, FiniteSetTheorems

\* A goroutine's row is whole and has its place among the rows W of the table.
JobSound(j, W) ==
  /\ j.step \in {"plan", "recipients", "insert"} => j.camp \in Campaigns
  /\ j.step \in {"track", "save"} => j.id \in W /\ j.row \in Row
  /\ j.step \in {"suppress", "listed"} => j.contact \in Contacts
  /\ j.ids \subseteq W

\* The rows are numbered from 1; those mailed were written.
Numbered ==
  /\ \E k \in 0..MaxRows : Written = 1..k
  /\ \A i \in Ids : mails[i] > 0 => i \in Written

TInv == TypeOK /\ Numbered /\ \A p \in Procs : JobSound(job[p], Written)

-----------------------------------------------------------------------------
LEMMA Waits == /\ LongestWait \in Nat /\ 0 \in 0..LongestWait
               /\ Backoff[1] \in 0..LongestWait /\ Backoff[2] \in 0..LongestWait
BY NewsletterConstants DEF LongestWait, Backoff

LEMMA SentRow ==
  ASSUME NEW r \in Row
  PROVE  Sent(r) \in Row /\ Sent(r).camp = r.camp /\ Sent(r).status = "sent"
<1> DEFINE s == Sent(r)
<1>1. /\ s.status = "sent" /\ s.claimed = Nil /\ s.wait = 0
      /\ s.camp = r.camp /\ s.contact = r.contact /\ s.attempts = r.attempts
  BY DEF Sent, Row
<1>2. s \in [camp : Campaigns, contact : Contacts, status : Open \cup Finished,
             attempts : Nat, claimed : 0..(ClaimTimeout + 1) \cup {Nil}, wait : 0..LongestWait]
  BY Waits DEF Sent, Row, Finished
<1> QED BY <1>1, <1>2 DEF Row, Open

LEMMA FailedRow ==
  ASSUME NEW r \in Row
  PROVE  Failed(r) \in Row /\ Failed(r).camp = r.camp /\ Failed(r).status # "sent"
<1> DEFINE s == Failed(r)
           Fields == [camp : Campaigns, contact : Contacts, status : Open \cup Finished,
                      attempts : Nat, claimed : 0..(ClaimTimeout + 1) \cup {Nil}, wait : 0..LongestWait]
<1>1. r.attempts \in Nat
  BY DEF Row
<1>2. CASE r.attempts + 1 >= MaxAttempts
  <2>1. s.status = "failed" /\ s.camp = r.camp
    BY <1>2 DEF Failed, Row
  <2>2. s \in Fields
    <3>1. s = [r EXCEPT !.status = "failed", !.attempts = r.attempts + 1, !.claimed = Nil, !.wait = 0]
      BY <1>2 DEF Failed
    <3>2. r \in Fields /\ r.attempts + 1 \in Nat /\ "failed" \in Finished
      BY <1>1 DEF Row, Finished
    <3> HIDE DEF s
    <3> QED BY <3>1, <3>2, Waits
  <2> QED BY <2>1, <2>2 DEF Row, Open
<1>3. CASE ~(r.attempts + 1 >= MaxAttempts)
  <2>1. r.attempts + 1 \in {1, 2}
    BY <1>1, <1>3 DEF MaxAttempts
  <2>2. Backoff[r.attempts + 1] \in 0..LongestWait
    BY <2>1, Waits
  <2>3. s.status = "pending" /\ s.camp = r.camp /\ s.attempts = r.attempts + 1 /\ s.claimed = Nil
    BY <1>3 DEF Failed, Row
  <2>4. s \in Fields
    <3> DEFINE w == Backoff[r.attempts + 1]
    <3>1. s = [r EXCEPT !.status = "pending", !.attempts = r.attempts + 1, !.claimed = Nil, !.wait = w]
      BY <1>3 DEF Failed
    <3>2. r \in Fields /\ r.attempts + 1 \in Nat /\ "pending" \in Open /\ w \in 0..LongestWait
      BY <1>1, <2>2 DEF Row, Open
    <3> HIDE DEF s, w
    <3> QED BY <3>1, <3>2
  <2> QED BY <2>1, <2>3, <2>4 DEF Row, MaxAttempts
<1> QED BY <1>2, <1>3

LEMMA AgedRow ==
  ASSUME NEW r \in Row
  PROVE  Aged(r) \in Row /\ Aged(r).camp = r.camp /\ Aged(r).status = r.status /\ Aged(r).contact = r.contact
<1>1. r.wait \in 0..LongestWait /\ LongestWait \in Nat
  BY Waits DEF Row
<1>2. r.claimed # Nil => r.claimed \in 0..(ClaimTimeout + 1)
  BY DEF Row
<1>3. (IF r.claimed = Nil \/ r.claimed > ClaimTimeout THEN r.claimed ELSE r.claimed + 1) \in 0..(ClaimTimeout + 1) \cup {Nil}
  BY <1>2, NewsletterConstants
<1>4. (IF r.wait > 0 THEN r.wait - 1 ELSE 0) \in 0..LongestWait
  BY <1>1
<1>5. (IF r.claimed = Nil \/ r.claimed > ClaimTimeout THEN r.claimed ELSE r.claimed + 1) = Nil <=> r.claimed = Nil
  BY <1>2, NewsletterConstants
<1> QED BY <1>3, <1>4, <1>5 DEF Aged, Row, Open

LEMMA IdleSound == ASSUME NEW W PROVE Idle \in Job /\ JobSound(Idle, W)
BY DEF Idle, Job, Steps, JobSound

\* A goroutine that keeps only its batch, to mail the rest of it or to finish.
WithBatch(batch) == [Idle EXCEPT !.step = IF batch = {} THEN "finalize" ELSE "mail", !.ids = batch]

LEMMA BatchSound ==
  ASSUME NEW batch \in SUBSET Ids
  PROVE  /\ WithBatch(batch) \in Job /\ WithBatch(batch).ids = batch
         /\ WithBatch(batch).step \in {"finalize", "mail"}
<1> DEFINE step == IF batch = {} THEN "finalize" ELSE "mail"
<1>1. step \in {"finalize", "mail"} /\ step \in Steps
  BY DEF Steps
<1>2. WithBatch(batch) = [Idle EXCEPT !.step = step, !.ids = batch]
  BY DEF WithBatch
<1> HIDE DEF step
<1>3. /\ [Idle EXCEPT !.step = step, !.ids = batch] \in Job
      /\ [Idle EXCEPT !.step = step, !.ids = batch].ids = batch
      /\ [Idle EXCEPT !.step = step, !.ids = batch].step = step
  BY <1>1, IdleSound DEF Idle, Job
<1> QED BY <1>1, <1>2, <1>3

\* A goroutine that goes on with a sound job leaves the others sound, since no
\* row is ever deleted.
LEMMA Moved ==
  ASSUME TInv, NEW p \in Procs, NEW j \in Job, Goes(p, j), Written \subseteq Written',
         JobSound(j, Written')
  PROVE  job' \in [Procs -> Job] /\ \A q \in Procs : JobSound(job'[q], Written')
<1>1. job \in [Procs -> Job]
  BY DEF TInv, TypeOK
<1>2. job' \in [Procs -> Job] /\ job'[p] = j /\ \A q \in Procs \ {p} : job'[q] = job[q]
  BY <1>1 DEF Goes
<1>3. ASSUME NEW q \in Procs \ {p} PROVE JobSound(job'[q], Written')
  <2>1. JobSound(job[q], Written) /\ job'[q] = job[q]
    BY <1>2 DEF TInv
  <2> QED BY <2>1 DEF JobSound
<1> QED BY <1>2, <1>3

LEMMA PlannedSound ==
  ASSUME NEW p \in Procs, NEW j \in Job, NEW W
  PROVE  Planned(p, j) \in Job /\ JobSound(Planned(p, j), W)
<1>1. CASE p \in Handlers
  BY <1>1, IdleSound DEF Planned
<1>2. CASE p \notin Handlers /\ j.camps = {}
  BY <1>2, IdleSound DEF Planned, Job, Steps, JobSound, Idle
<1>3. CASE p \notin Handlers /\ j.camps # {}
  <2> DEFINE n == CHOOSE n \in j.camps : TRUE
  <2>1. n \in j.camps /\ j.camps \subseteq Campaigns
    BY <1>3 DEF Job
  <2>2. Planned(p, j) = [Idle EXCEPT !.step = "plan", !.camp = n, !.camps = j.camps \ {n}]
    BY <1>3 DEF Planned
  <2> HIDE DEF n
  <2>3. n \in Campaigns /\ j.camps \ {n} \in SUBSET Campaigns
    BY <2>1
  <2> DEFINE s == [Idle EXCEPT !.step = "plan", !.camp = n, !.camps = j.camps \ {n}]
  <2>4. s.step = "plan" /\ s.camp = n /\ s.ids = {}
    BY DEF Idle
  <2>5. Idle \in Job /\ "plan" \in Steps
    BY IdleSound DEF Steps
  <2>6. s \in Job
    BY <2>3, <2>5 DEF Job
  <2> QED BY <2>2, <2>3, <2>4, <2>6 DEF JobSound
<1> QED BY <1>1, <1>2, <1>3

LEMMA Rows == ASSUME TInv, NEW i \in Written PROVE i \in Ids /\ rows[i] \in Row
BY DEF TInv, TypeOK, Written

LEMMA Ranked ==
  ASSUME TInv, Written # Ids
  PROVE  /\ Cardinality(Written) + 1 \in Ids \ Written
         /\ Written \cup {Cardinality(Written) + 1} = 1..(Cardinality(Written) + 1)
<1>1. PICK k \in 0..MaxRows : Written = 1..k
  BY DEF TInv, Numbered
<1>2. k \in Nat /\ MaxRows \in Nat /\ k # MaxRows
  BY <1>1, NewsletterConstants DEF Ids
<1>3. Cardinality(Written) = k
  BY <1>1, <1>2, FS_Interval
<1> QED BY <1>1, <1>2, <1>3 DEF Ids

LEMMA Firsts == ASSUME NEW S, NEW k PROVE First(S, k) \subseteq S
BY DEF First

\* Where no row comes and none is mailed the numbering is as it was.
LEMMA SameRows ==
  ASSUME TInv, Written' = Written, \A i \in Ids : mails'[i] > 0 => i \in Written
  PROVE  Numbered'
BY DEF TInv, Numbered

\* The types of all but the jobs.
DataOK ==
  /\ campaigns \in [Campaigns -> {"draft", "scheduled", "sending", "sent", "paused"}]
  /\ rows \in [Ids -> Row \cup {Nil}]
  /\ suppressed \subseteq Contacts /\ optedOut \subseteq Contacts /\ refused \subseteq Contacts
  /\ spent \in [Workers -> 0..Rate]
  /\ mails \in [Ids -> 0..2]
  /\ apart \in BOOLEAN /\ jobs \in Nat /\ crashes \in Nat

LEMMA Data == ASSUME TInv PROVE DataOK /\ job \in [Procs -> Job]
BY DEF TInv, TypeOK, DataOK

LEMMA Kept ==
  ASSUME TInv, NEW p \in Procs, NEW j \in Job, Goes(p, j), DataOK', Numbered',
         Written \subseteq Written', JobSound(j, Written')
  PROVE  TInv'
BY Moved DEF TInv, TypeOK, DataOK

\* A step that leaves the rows and the mails alone.
LEMMA Still ==
  ASSUME TInv, NEW p \in Procs, NEW j \in Job, Goes(p, j), DataOK', UNCHANGED <<rows, mails>>,
         JobSound(j, Written)
  PROVE  TInv'
<1>1. Written' = Written /\ mails' = mails
  BY DEF Written
<1>2. Numbered'
  BY <1>1, SameRows DEF TInv, Numbered
<1> QED BY <1>1, <1>2, Kept

LEMMA TInvInit == Init => TInv
<1> SUFFICES ASSUME Init PROVE TInv
  OBVIOUS
<1>1. Written = {} /\ Numbered
  <2>1. Written = {} /\ {} = 1..0 /\ 0 \in 0..MaxRows
    BY NewsletterConstants DEF Init, Written
  <2> QED BY <2>1 DEF Init, Numbered
<1>2. TypeOK
  BY IdleSound, NewsletterConstants DEF Init, TypeOK
<1> QED BY <1>1, <1>2, IdleSound DEF TInv, Init

LEMMA RequestsSound ==
  ASSUME TInv, NEW p \in Procs, (\E n \in Campaigns : SaveCampaign(p, n)) \/ Callbacks(p)
  PROVE  TInv'
<1> USE Data
<1>0. \A j : Request(p, j) => Goes(p, j) /\ apart' \in BOOLEAN /\ jobs' \in Nat
  BY DEF Request, Begin, DataOK
<1>1. ASSUME NEW n \in Campaigns, SaveCampaign(p, n) PROVE TInv'
  <2>1. PICK status \in {"draft", "scheduled", "sending"} :
          /\ campaigns' = [campaigns EXCEPT ![n] = status]
          /\ Request(p, IF status = "sending" THEN [Idle EXCEPT !.step = "plan", !.camp = n] ELSE Idle)
    BY <1>1 DEF SaveCampaign
  <2> DEFINE k == IF status = "sending" THEN [Idle EXCEPT !.step = "plan", !.camp = n] ELSE Idle
  <2>2. k \in Job /\ JobSound(k, Written)
    BY IdleSound DEF Idle, Job, Steps, JobSound
  <2>3. Goes(p, k) /\ apart' \in BOOLEAN /\ jobs' \in Nat
    BY <2>1, <1>0
  <2> HIDE DEF k
  <2>4. PICK j \in Job : j = k
    BY <2>2
  <2>5. DataOK'
    BY <1>1, <2>1, <2>3 DEF DataOK, SaveCampaign
  <2> QED BY <1>1, <2>2, <2>3, <2>4, <2>5, Still DEF SaveCampaign
<1>2. ASSUME NEW i \in Written, Unsubscribe(p, i) PROVE TInv'
  <2>1. Goes(p, Idle) /\ apart' \in BOOLEAN /\ jobs' \in Nat
    BY <1>2, <1>0 DEF Unsubscribe
  <2>2. rows[i] \in Row
    BY Rows
  <2>3. DataOK'
    BY <1>2, <2>1, <2>2 DEF DataOK, Unsubscribe, Row
  <2>4. PICK j \in Job : j = Idle
    BY IdleSound
  <2> QED BY <1>2, <2>1, <2>3, <2>4, IdleSound, Still DEF Unsubscribe
<1>3. ASSUME NEW i \in Written, RecordOpen(p, i) PROVE TInv'
  <2> DEFINE k == [Idle EXCEPT !.step = "track", !.id = i, !.row = rows[i]]
  <2>1. Goes(p, k) /\ apart' \in BOOLEAN /\ jobs' \in Nat
    BY <1>3, <1>0 DEF RecordOpen
  <2>2. k \in Job /\ JobSound(k, Written)
    BY IdleSound, Rows DEF Idle, Job, Steps, JobSound
  <2> HIDE DEF k
  <2>3. PICK j \in Job : j = k
    BY <2>2
  <2>4. DataOK'
    BY <1>3, <2>1 DEF DataOK, RecordOpen
  <2> QED BY <1>3, <2>1, <2>2, <2>3, <2>4, Still DEF RecordOpen
<1>4. ASSUME NEW i \in Written, RecordRefusal(p, i) PROVE TInv'
  <2>1. PICK how \in {"bounced", "complained"} :
          Request(p, [Idle EXCEPT !.step = "track", !.id = i, !.row = [rows[i] EXCEPT !.status = how]])
    BY <1>4 DEF RecordRefusal
  <2> DEFINE r == [rows[i] EXCEPT !.status = how]
             k == [Idle EXCEPT !.step = "track", !.id = i, !.row = r]
  <2>2. r \in Row
    BY Rows DEF Row, Open, Finished
  <2>3. Goes(p, k) /\ apart' \in BOOLEAN /\ jobs' \in Nat
    BY <2>1, <1>0
  <2> HIDE DEF r
  <2>4. k \in Job /\ JobSound(k, Written)
    BY IdleSound, <2>2, Rows DEF Idle, Job, Steps, JobSound
  <2> HIDE DEF k
  <2>5. PICK j \in Job : j = k
    BY <2>4
  <2>6. DataOK'
    BY <1>4, <2>3 DEF DataOK, RecordRefusal
  <2> QED BY <1>4, <2>3, <2>4, <2>5, <2>6, Still DEF RecordRefusal
<1> QED BY <1>1, <1>2, <1>3, <1>4 DEF Callbacks

LEMMA TickSound ==
  ASSUME TInv, NEW p \in Procs, Tick(p) PROVE TInv'
<1> USE Data
<1>1. PICK due \in SUBSET Campaigns : Begin(p, Planned(p, [Idle EXCEPT !.camps = due]))
  BY DEF Tick
<1> DEFINE d == [Idle EXCEPT !.camps = due]
           k == Planned(p, d)
<1>2. d \in Job
  BY IdleSound DEF Job
<1> HIDE DEF d
<1>3. k \in Job /\ JobSound(k, Written)
  BY <1>2, PlannedSound
<1>4. Goes(p, k) /\ apart' \in BOOLEAN
  BY <1>1 DEF Begin, DataOK, d
<1> HIDE DEF k
<1>5. PICK j \in Job : j = k
  BY <1>3
<1>6. DataOK'
  BY <1>4 DEF DataOK, Tick
<1> QED BY <1>3, <1>4, <1>5, <1>6, Still DEF Tick

LEMMA MinuteSound == ASSUME TInv, Minute PROVE TInv'
<1> USE Data
<1>1. /\ rows' = [i \in Ids |-> IF i \in Written THEN Aged(rows[i]) ELSE Nil]
      /\ spent' = [p \in Workers |-> 0]
      /\ UNCHANGED <<campaigns, suppressed, optedOut, job, mails, refused, apart, jobs, crashes>>
  BY DEF Minute
<1>2. \A i \in Written : i \in Ids /\ Aged(rows[i]) \in Row
  BY Rows, AgedRow
<1>3. Written' = Written
  BY <1>1, <1>2, NilIsNothing DEF Written
<1>4. rows' \in [Ids -> Row \cup {Nil}]
  BY <1>1, <1>2
<1>5. DataOK'
  BY <1>1, <1>4, NewsletterConstants DEF DataOK
<1>6. Numbered'
  BY <1>1, <1>3, SameRows DEF TInv, Numbered
<1> QED BY <1>1, <1>3, <1>5, <1>6 DEF TInv, TypeOK, DataOK

LEMMA CrashSound == ASSUME TInv, NEW p \in Procs, Crash(p) PROVE TInv'
<1>0. /\ apart' \in BOOLEAN /\ crashes' = crashes + 1
      /\ UNCHANGED <<campaigns, rows, suppressed, optedOut, spent, mails, refused, jobs>>
  BY DEF Crash
<1>1. DataOK'
  BY <1>0, Data DEF DataOK
<1>2. PICK j \in Job : j = Idle
  BY IdleSound
<1> QED BY <1>0, <1>1, <1>2, IdleSound, Still DEF Crash

\* One step of what a goroutine is in the middle of.
LEMMA ProceedSound == ASSUME TInv, NEW p \in Procs, Proceed(p) PROVE TInv'
<1> USE Data
<1> DEFINE j == job[p]
<1>0. /\ j \in Job /\ JobSound(j, Written)
      /\ j.camps \subseteq Campaigns /\ j.todo \subseteq Contacts /\ j.list \subseteq Contacts
      /\ j.ids \subseteq Written /\ j.ids \subseteq Ids
  BY DEF TInv, JobSound, Job
\* A step that leaves the rows alone, and a sound job.
<1>s. ASSUME NEW k, Goes(p, k), k \in Job, JobSound(k, Written), DataOK', UNCHANGED <<rows, mails>>
      PROVE  TInv'
  <2>1. PICK h \in Job : h = k
    BY <1>s
  <2> QED BY <1>s, <2>1, Still
\* A step that writes a row back.
<1>w. ASSUME NEW k, Goes(p, k), k \in Job, JobSound(k, Written), NEW i \in Written, NEW row \in Row,
             rows' = [rows EXCEPT ![i] = row], UNCHANGED <<campaigns, optedOut, spent, mails, apart, jobs, crashes>>,
             suppressed' \subseteq Contacts, refused' \subseteq Contacts
      PROVE  TInv'
  <2>1. PICK h \in Job : h = k
    BY <1>w
  <2>2. i \in Ids /\ rows' \in [Ids -> Row \cup {Nil}]
    BY <1>w, Rows DEF DataOK
  <2>3. Written' = Written
    BY <1>w, <2>2, NilIsNothing DEF Written, DataOK
  <2>4. DataOK'
    BY <1>w, <2>2 DEF DataOK
  <2>5. Numbered'
    BY <1>w, <2>3, SameRows DEF TInv, Numbered
  <2> QED BY <1>w, <2>1, <2>3, <2>4, <2>5, Kept
\* An update of several rows at once.
<1>u. ASSUME NEW k, Goes(p, k), k \in Job, JobSound(k, Written), NEW now,
             rows' = now, now \in [Ids -> Row \cup {Nil}], \A i \in Ids : now[i] = Nil <=> rows[i] = Nil,
             spent' \in [Workers -> 0..Rate],
             UNCHANGED <<campaigns, suppressed, optedOut, mails, refused, apart, jobs, crashes>>
      PROVE  TInv'
  <2>1. PICK h \in Job : h = k
    BY <1>u
  <2>2. Written' = Written
    BY <1>u DEF Written
  <2>3. DataOK'
    BY <1>u DEF DataOK
  <2>4. Numbered'
    BY <1>u, <2>2, SameRows DEF TInv, Numbered
  <2> QED BY <1>u, <2>1, <2>2, <2>3, <2>4, Kept
<1> HIDE DEF j
<1>1. CASE Track(p)
  <2>1. At(p, "track") /\ rows' = [rows EXCEPT ![j.id] = j.row]
    BY <1>1 DEF Track, j
  <2>2. j.id \in Written /\ j.row \in Row /\ j.row.contact \in Contacts
    BY <1>0, <2>1 DEF JobSound, At, Row, j
  <2> DEFINE k == [Idle EXCEPT !.step = "suppress", !.contact = j.row.contact]
  <2>3. k \in Job /\ JobSound(k, Written)
    BY <2>2, IdleSound DEF Idle, Job, Steps, JobSound
  <2> HIDE DEF k
  <2>4. (Goes(p, k) \/ Goes(p, Idle)) /\ refused' \subseteq Contacts
        /\ UNCHANGED <<campaigns, suppressed, optedOut, spent, mails, apart, jobs, crashes>>
    BY <1>1, <2>2 DEF Track, j, k, DataOK
  <2>5. suppressed' \subseteq Contacts
    BY <2>4 DEF DataOK
  <2> QED BY <2>1, <2>2, <2>3, <2>4, <2>5, <1>w, IdleSound
<1>2. CASE LoadList(p)
  <2>1. j.step = "suppress" /\ UNCHANGED <<campaigns, rows, suppressed, optedOut, spent, mails, refused, apart, jobs, crashes>>
    BY <1>2 DEF LoadList, At, j
  <2> DEFINE k == [j EXCEPT !.step = "listed", !.list = suppressed]
  <2>2. k \in Job /\ k.step = "listed" /\ k.contact = j.contact /\ k.ids = j.ids
    BY <1>0 DEF Job, Steps, DataOK
  <2> HIDE DEF k
  <2>3. JobSound(k, Written)
    BY <2>1, <2>2, <1>0 DEF JobSound
  <2>4. Goes(p, k) \/ Goes(p, Idle)
    BY <1>2 DEF LoadList, j, k
  <2>5. DataOK'
    BY <2>1 DEF DataOK
  <2> QED BY <2>1, <2>2, <2>3, <2>4, <2>5, <1>s, IdleSound
<1>3. CASE StoreList(p)
  <2>1. j.contact \in Contacts
    BY <1>0, <1>3 DEF StoreList, At, JobSound, j
  <2>2. DataOK'
    BY <1>0, <1>3, <2>1 DEF StoreList, DataOK, j
  <2> QED BY <1>3, <2>2, <1>s, IdleSound DEF StoreList
<1>4. CASE SetSending(p)
  <2>1. j.step = "plan" /\ j.camp \in Campaigns
    BY <1>0, <1>4 DEF SetSending, At, JobSound, j
  <2> DEFINE k == [j EXCEPT !.step = "recipients"]
  <2>2. k \in Job /\ k.step = "recipients" /\ k.camp = j.camp /\ k.ids = j.ids
    BY <1>0 DEF Job, Steps
  <2> HIDE DEF k
  <2>3. JobSound(k, Written)
    BY <2>1, <2>2, <1>0 DEF JobSound
  <2>4. DataOK' /\ Goes(p, k) /\ UNCHANGED <<rows, mails>>
    BY <1>4 DEF SetSending, DataOK, j, k
  <2> QED BY <2>2, <2>3, <2>4, <1>s
<1>5. CASE Recipients(p)
  <2> DEFINE k == [j EXCEPT !.step = "insert", !.todo = Contacts \ (optedOut \cup suppressed)]
  <2>1. k \in Job /\ k.step = "insert" /\ k.camp = j.camp /\ k.ids = j.ids
    BY <1>0 DEF Job, Steps
  <2>2. j.step = "recipients"
    BY <1>5 DEF Recipients, At, j
  <2> HIDE DEF k
  <2>3. JobSound(k, Written)
    BY <2>1, <2>2, <1>0 DEF JobSound
  <2>4. Goes(p, k) \/ Goes(p, Planned(p, j))
    BY <1>5 DEF Recipients, j, k
  <2>5. DataOK' /\ UNCHANGED <<rows, mails>>
    BY <1>5 DEF Recipients, DataOK
  <2>6. Planned(p, j) \in Job /\ JobSound(Planned(p, j), Written)
    <3>1. PICK h \in Job : h = j
      BY <1>0
    <3> QED BY <3>1, PlannedSound
  <2> QED BY <2>1, <2>3, <2>4, <2>5, <2>6, <1>s
<1>6. CASE InsertDelivery(p)
  <2>1. j.step = "insert" /\ j.camp \in Campaigns
    BY <1>0, <1>6 DEF InsertDelivery, At, JobSound, j
  <2>2. CASE UNCHANGED rows /\ Goes(p, Idle)
    <3>1. DataOK' /\ UNCHANGED <<rows, mails>>
      BY <1>6, <2>2 DEF InsertDelivery, DataOK
    <3> QED BY <2>2, <3>1, <1>s, IdleSound
  <2> DEFINE n == Cardinality(Written) + 1
             left(c) == [j EXCEPT !.todo = @ \ {c}]
             new(c) == [camp |-> j.camp, contact |-> c, status |-> "pending",
                        attempts |-> 0, claimed |-> Nil, wait |-> 0]
  <2>3. CASE /\ Written # Ids
             /\ \E c \in j.todo :
                 /\ rows' = [rows EXCEPT ![n] = new(c)]
                 /\ Goes(p, IF j.todo = {c} THEN Planned(p, left(c)) ELSE left(c))
    <3>1. PICK c \in j.todo :
                 /\ rows' = [rows EXCEPT ![n] = new(c)]
                 /\ Goes(p, IF j.todo = {c} THEN Planned(p, left(c)) ELSE left(c))
      BY <2>3
    <3> DEFINE k == IF j.todo = {c} THEN Planned(p, left(c)) ELSE left(c)
    <3>2. left(c) \in Job /\ left(c).step = "insert" /\ left(c).camp = j.camp /\ left(c).ids = j.ids
      BY <1>0, <2>1 DEF Job
    <3>3. new(c) \in Row
      BY <1>0, <2>1, Waits DEF Row, Open, Finished, MaxAttempts
    <3> HIDE DEF left, new, n
    <3>4. n \in Ids \ Written /\ Written \cup {n} = 1..n /\ n \in 0..MaxRows
      BY <2>3, Ranked DEF n, Ids
    <3>5. UNCHANGED <<campaigns, suppressed, optedOut, spent, mails, refused, apart, jobs, crashes>>
      BY <1>6 DEF InsertDelivery
    <3>6. Written' = Written \cup {n}
      BY <3>1, <3>3, <3>4, NilIsNothing DEF Written, DataOK
    <3>7. DataOK'
      BY <3>1, <3>3, <3>4, <3>5 DEF DataOK
    <3>8. Numbered'
      BY <3>4, <3>5, <3>6 DEF TInv, Numbered
    <3>9. k \in Job /\ JobSound(k, Written')
      <4>1. PICK h \in Job : h = left(c)
        BY <3>2
      <4>2. Planned(p, left(c)) \in Job /\ JobSound(Planned(p, left(c)), Written')
        BY <4>1, PlannedSound
      <4>3. JobSound(left(c), Written')
        BY <3>2, <3>6, <1>0, <2>1 DEF JobSound
      <4> QED BY <4>2, <4>3, <3>2
    <3>10. Goes(p, k)
      BY <3>1
    <3> HIDE DEF k
    <3>11. PICK h \in Job : h = k
      BY <3>9
    <3> QED BY <3>6, <3>7, <3>8, <3>9, <3>10, <3>11, Kept
  <2> QED BY <1>6, <2>2, <2>3 DEF InsertDelivery, j
<1>7. CASE Reclaim(p)
  <2> DEFINE k == [Idle EXCEPT !.step = "pick"]
             now == [i \in Ids |-> IF i \in Written /\ Stuck(i)
                            THEN [rows[i] EXCEPT !.status = "pending", !.claimed = Nil] ELSE rows[i]]
  <2>1. k \in Job /\ JobSound(k, Written)
    BY IdleSound DEF Idle, Job, Steps, JobSound
  <2>2. ASSUME NEW i \in Ids PROVE now[i] \in Row \cup {Nil} /\ (now[i] = Nil <=> rows[i] = Nil)
    <3>1. CASE i \in Written /\ Stuck(i)
      <4>1. rows[i] \in Row /\ rows[i].status = "queued"
        BY <3>1, Rows DEF Stuck
      <4>2. [rows[i] EXCEPT !.status = "pending", !.claimed = Nil] \in Row
        BY <4>1 DEF Row, Open, Finished
      <4>3. now[i] = [rows[i] EXCEPT !.status = "pending", !.claimed = Nil]
        BY <3>1
      <4> HIDE DEF now
      <4> QED BY <4>1, <4>2, <4>3, NilIsNothing
    <3>2. CASE ~(i \in Written /\ Stuck(i))
      <4>1. now[i] = rows[i]
        BY <3>2
      <4> HIDE DEF now
      <4> QED BY <4>1 DEF DataOK
    <3> QED BY <3>1, <3>2
  <2>3. now \in [Ids -> Row \cup {Nil}]
    <3>1. \A i \in Ids : now[i] \in Row \cup {Nil}
      BY <2>2
    <3> QED BY <3>1
  <2>4. rows' = now /\ Goes(p, k) /\ UNCHANGED <<campaigns, suppressed, optedOut, spent, mails, refused, apart, jobs, crashes>>
    BY <1>7 DEF Reclaim
  <2>5. spent' \in [Workers -> 0..Rate]
    BY <2>4 DEF DataOK
  <2> HIDE DEF k, now
  <2> QED BY <2>1, <2>2, <2>3, <2>4, <2>5, <1>u
<1>8. CASE Pick(p)
  <2> DEFINE ids == First({i \in Written : Ready(i)}, Rate - spent[p])
             k == [Idle EXCEPT !.step = "take", !.ids = ids]
             f == [Idle EXCEPT !.step = "finalize"]
  <2>1. ids \subseteq Written /\ ids \subseteq Ids
    BY Firsts DEF Written
  <2> HIDE DEF ids
  <2>2. k \in Job /\ JobSound(k, Written) /\ f \in Job /\ JobSound(f, Written)
    BY <2>1, IdleSound DEF Idle, Job, Steps, JobSound
  <2>3. (Goes(p, k) \/ Goes(p, f)) /\ UNCHANGED <<campaigns, rows, suppressed, optedOut, spent, mails, refused, apart, jobs, crashes>>
    BY <1>8 DEF Pick, ids
  <2>4. DataOK'
    BY <2>3 DEF DataOK
  <2> HIDE DEF k, f
  <2> QED BY <2>2, <2>3, <2>4, <1>s
<1>9. CASE Take(p)
  <2> DEFINE k == [j EXCEPT !.step = "mail"]
             now == [i \in Ids |-> IF i \in j.ids /\ rows[i].status = "pending"
                                THEN [rows[i] EXCEPT !.status = "queued", !.claimed = 0] ELSE rows[i]]
  <2>1. k \in Job /\ k.step = "mail" /\ k.ids = j.ids
    BY <1>0 DEF Job, Steps
  <2>2. ASSUME NEW i \in Ids PROVE now[i] \in Row \cup {Nil} /\ (now[i] = Nil <=> rows[i] = Nil)
    <3>1. CASE i \in j.ids /\ rows[i].status = "pending"
      <4>1. rows[i] \in Row
        BY <3>1, <1>0, Rows
      <4>2. 0 \in 0..(ClaimTimeout + 1) /\ 0 # Nil
        BY NewsletterConstants
      <4>3. [rows[i] EXCEPT !.status = "queued", !.claimed = 0] \in Row
        BY <4>1, <4>2, <3>1 DEF Row, Open, Finished
      <4>4. now[i] = [rows[i] EXCEPT !.status = "queued", !.claimed = 0]
        BY <3>1
      <4> HIDE DEF now
      <4> QED BY <4>1, <4>3, <4>4, NilIsNothing
    <3>2. CASE ~(i \in j.ids /\ rows[i].status = "pending")
      <4>1. now[i] = rows[i]
        BY <3>2
      <4> HIDE DEF now
      <4> QED BY <4>1 DEF DataOK
    <3> QED BY <3>1, <3>2
  <2>3. now \in [Ids -> Row \cup {Nil}]
    <3>1. \A i \in Ids : now[i] \in Row \cup {Nil}
      BY <2>2
    <3> QED BY <3>1
  <2>4. /\ rows' = now /\ Goes(p, k) /\ UNCHANGED <<campaigns, suppressed, optedOut, mails, refused, apart, jobs, crashes>>
        /\ spent' = [spent EXCEPT ![p] = IF @ + Cardinality(j.ids) > Rate THEN Rate ELSE @ + Cardinality(j.ids)]
    BY <1>9 DEF Take, j
  <2>5. spent' \in [Workers -> 0..Rate]
    <3>1. Cardinality(j.ids) \in Nat
      <4>1. IsFiniteSet(Ids)
        BY NewsletterConstants, FS_Interval DEF Ids
      <4> QED BY <4>1, <1>0, FS_Subset, FS_CardinalityType
    <3>2. ASSUME p \in Workers PROVE (IF spent[p] + Cardinality(j.ids) > Rate THEN Rate ELSE spent[p] + Cardinality(j.ids)) \in 0..Rate
      BY <3>1, <3>2, NewsletterConstants DEF DataOK
    <3> QED BY <2>4, <3>2 DEF DataOK
  <2>6. JobSound(k, Written)
    BY <2>1, <1>0 DEF JobSound
  <2> HIDE DEF k, now
  <2> QED BY <2>1, <2>2, <2>3, <2>4, <2>5, <2>6, <1>u
<1>10. CASE Mail(p)
  <2>0. PICK i \in First(j.ids, 1) : \E m \in {Sent(rows[i]), Failed(rows[i])} :
          /\ mails' = [mails EXCEPT ![i] = IF @ < MailsCounted THEN @ + 1 ELSE @] \/ mails' = mails
          /\ Goes(p, [j EXCEPT !.step = "save", !.id = i, !.row = m, !.ids = @ \ {i}])
    BY <1>10 DEF Mail, j
  <2>1. PICK m \in {Sent(rows[i]), Failed(rows[i])} :
          /\ mails' = [mails EXCEPT ![i] = IF @ < MailsCounted THEN @ + 1 ELSE @] \/ mails' = mails
          /\ Goes(p, [j EXCEPT !.step = "save", !.id = i, !.row = m, !.ids = @ \ {i}])
    BY <2>0
  <2>2. i \in j.ids /\ i \in Ids /\ i \in Written /\ rows[i] \in Row
    BY <1>0, <2>1, Firsts, Rows
  <2>3. m \in Row
    BY <2>1, <2>2, SentRow, FailedRow
  <2> DEFINE k == [j EXCEPT !.step = "save", !.id = i, !.row = m, !.ids = @ \ {i}]
  <2>4. k \in Job /\ k.step = "save" /\ k.id = i /\ k.row = m /\ k.ids = j.ids \ {i}
    BY <1>0, <2>2, <2>3 DEF Job, Steps
  <2> HIDE DEF k
  <2>5. JobSound(k, Written)
    BY <2>2, <2>3, <2>4, <1>0 DEF JobSound
  <2>6. mails' \in [Ids -> 0..2] /\ \A h \in Ids \ {i} : mails'[h] = mails[h]
    <3>1. (IF mails[i] < MailsCounted THEN mails[i] + 1 ELSE mails[i]) \in 0..2
      BY <2>2 DEF DataOK, MailsCounted
    <3> QED BY <2>1, <3>1 DEF DataOK
  <2>7. UNCHANGED <<campaigns, rows, suppressed, optedOut, spent, refused, apart, jobs, crashes>>
    BY <1>10 DEF Mail
  <2>8. Written' = Written
    BY <2>7 DEF Written
  <2>9. DataOK'
    BY <2>6, <2>7 DEF DataOK
  <2>10. Numbered'
    <3>1. \A h \in Ids : mails'[h] > 0 => h \in Written
      BY <2>2, <2>6 DEF TInv, Numbered
    <3> QED BY <3>1, <2>8, SameRows
  <2>11. PICK h \in Job : h = k
    BY <2>4
  <2> QED BY <2>1, <2>5, <2>8, <2>9, <2>10, <2>11, Kept DEF k
<1>11. CASE SaveDelivery(p)
  <2>1. j.step = "save" /\ rows' = [rows EXCEPT ![j.id] = j.row]
    BY <1>11 DEF SaveDelivery, At, j
  <2>2. j.id \in Written /\ j.row \in Row
    BY <1>0, <2>1 DEF JobSound
  <2> DEFINE k == [Idle EXCEPT !.step = IF j.ids = {} THEN "finalize" ELSE "mail", !.ids = j.ids]
  <2>3. k \in Job /\ JobSound(k, Written)
    <3>1. k \in Job /\ k.step \in {"finalize", "mail"} /\ k.ids = j.ids
      <4>1. j.ids \in SUBSET Ids
        BY <1>0 DEF Job
      <4>2. k = WithBatch(j.ids)
        BY DEF WithBatch
      <4> QED BY <4>1, <4>2, BatchSound
    <3> HIDE DEF k
    <3> QED BY <1>0, <3>1 DEF JobSound
  <2>4. Goes(p, k) /\ UNCHANGED <<campaigns, suppressed, optedOut, spent, mails, refused, apart, jobs, crashes>>
    BY <1>11 DEF SaveDelivery, j
  <2>5. suppressed' \subseteq Contacts /\ refused' \subseteq Contacts
    BY <2>4 DEF DataOK
  <2> HIDE DEF k
  <2> QED BY <2>1, <2>2, <2>3, <2>4, <2>5, <1>w
<1>12. CASE Finalize(p)
  <2>1. PICK step \in {"judge", "finish"}, done \in SUBSET Campaigns :
          Goes(p, [Idle EXCEPT !.step = step, !.camps = done])
    BY <1>12 DEF Finalize, Sending
  <2> DEFINE k == [Idle EXCEPT !.step = step, !.camps = done]
  <2>2. k \in Job /\ JobSound(k, Written)
    BY IdleSound DEF Idle, Job, Steps, JobSound
  <2>3. DataOK' /\ UNCHANGED <<rows, mails>>
    BY <1>12 DEF Finalize, DataOK
  <2> HIDE DEF k
  <2> QED BY <2>1, <2>2, <2>3, <1>s DEF k
<1>13. CASE SetSent(p)
  <2>1. PICK n \in j.camps, step \in {"judge", "finish"} :
          /\ campaigns' = [campaigns EXCEPT ![n] = "sent"]
          /\ Goes(p, [j EXCEPT !.step = step, !.camps = @ \ {n}])
    BY <1>13 DEF SetSent, j
  <2> DEFINE k == [j EXCEPT !.step = step, !.camps = @ \ {n}]
  <2>2. k \in Job /\ k.step \in {"judge", "finish"} /\ k.ids = j.ids
    BY <1>0, <2>1 DEF Job, Steps
  <2> HIDE DEF k
  <2>3. JobSound(k, Written)
    BY <2>2, <1>0 DEF JobSound
  <2>4. DataOK' /\ UNCHANGED <<rows, mails>>
    BY <1>0, <1>13, <2>1 DEF SetSent, DataOK
  <2> QED BY <2>1, <2>2, <2>3, <2>4, <1>s DEF k
<1>14. CASE Judge(p)
  <2>1. PICK bad \in SUBSET Campaigns :
          Goes(p, Idle) \/ Goes(p, [Idle EXCEPT !.step = "pause", !.camps = bad])
    BY <1>14 DEF Judge, Sending
  <2> DEFINE k == [Idle EXCEPT !.step = "pause", !.camps = bad]
  <2>2. k \in Job /\ JobSound(k, Written)
    BY IdleSound DEF Idle, Job, Steps, JobSound
  <2>3. DataOK' /\ UNCHANGED <<rows, mails>>
    BY <1>14 DEF Judge, DataOK
  <2> HIDE DEF k
  <2> QED BY <2>1, <2>2, <2>3, <1>s, IdleSound DEF k
<1>15. CASE SetPaused(p)
  <2>1. PICK n \in j.camps :
          /\ campaigns' = [campaigns EXCEPT ![n] = "paused"]
          /\ Goes(p, Idle) \/ Goes(p, [j EXCEPT !.camps = @ \ {n}])
    BY <1>15 DEF SetPaused, j
  <2> DEFINE k == [j EXCEPT !.camps = @ \ {n}]
  <2>2. k \in Job /\ k.step = "pause" /\ k.ids = j.ids
    BY <1>0, <1>15 DEF Job, SetPaused, At, j
  <2> HIDE DEF k
  <2>3. JobSound(k, Written)
    BY <2>2, <1>0 DEF JobSound
  <2>4. DataOK' /\ UNCHANGED <<rows, mails>>
    BY <1>0, <1>15, <2>1 DEF SetPaused, DataOK
  <2> QED BY <2>1, <2>2, <2>3, <2>4, <1>s, IdleSound DEF k
<1> QED BY <1>1, <1>2, <1>3, <1>4, <1>5, <1>6, <1>7, <1>8, <1>9, <1>10, <1>11, <1>12,
           <1>13, <1>14, <1>15 DEF Proceed

LEMMA TInvStep == TInv /\ [Next]_vars => TInv'
<1> SUFFICES ASSUME TInv, [Next]_vars PROVE TInv'
  OBVIOUS
<1>1. CASE UNCHANGED vars
  <2>1. UNCHANGED <<rows, mails, job>> /\ UNCHANGED <<campaigns, suppressed, optedOut, spent, refused, apart, jobs, crashes>>
    BY <1>1 DEF vars
  <2>2. Written' = Written
    BY <2>1 DEF Written
  <2> QED BY <2>1, <2>2 DEF TInv, TypeOK, Numbered
<1> QED BY <1>1, RequestsSound, TickSound, MinuteSound, CrashSound, ProceedSound DEF Next

\* Whatever stale row the worker and the callbacks write last (UpdateDelivery), a
\* row still to be mailed has an attempt left and is claimed exactly while it is
\* queued; every status, counter and list is of its type.
THEOREM TypeCorrect == Spec => []TypeOK
<1>1. Spec => []TInv
  BY TInvInit, TInvStep, PTL DEF Spec
<1>2. TInv => TypeOK
  BY DEF TInv
<1> QED BY <1>1, <1>2, PTL

-----------------------------------------------------------------------------
\* While nothing has overlapped, one goroutine j is in the middle of something or
\* none is (j is Idle).  What is mailed is settled, or j is about to settle it ...
MailedBy(j) ==
  \A i \in Written : mails[i] > 0 =>
    /\ mails[i] = 1
    /\ \/ rows[i].status \in Finished
       \/ j.step = "save" /\ j.id = i /\ j.row.status = "sent"

\* ... who refused is suppressed, or j is about to write that ...
RefusedBy(j) ==
  \A c \in refused \ suppressed : j.step \in {"suppress", "listed"} /\ j.contact = c

\* ... what is sent is done ...
SentDone ==
  \A n \in Campaigns : campaigns[n] = "sent" => \A i \in RowsOf(n) : rows[i].status \notin Open

\* ... and what j has read is still so: the rows it will mail wait unmailed, the
\* one it will save is open, the campaign it plans is sending, those it will
\* finish are done.
Current(j) ==
  /\ j.step \in {"recipients", "insert"} => campaigns[j.camp] = "sending"
  /\ j.step = "insert" => j.todo \cap refused = {}
  /\ j.step = "listed" => j.list = suppressed
  /\ \A i \in j.ids : rows[i].status \in Open /\ mails[i] = 0
  /\ j.step = "save" => rows[j.id].status \in Open /\ j.id \notin j.ids /\ j.row.camp = rows[j.id].camp
  /\ j.step = "track" => j.row.status \in Finished /\ j.row.camp = rows[j.id].camp
  /\ j.step = "finish" => \A n \in j.camps : \A i \in RowsOf(n) : rows[i].status \notin Open

OrderOf(j) == MailedBy(j) /\ RefusedBy(j) /\ SentDone /\ Current(j)

AllIdle == \A p \in Procs : At(p, "idle")

InOrder ==
  /\ \A p, q \in Procs : At(p, "idle") \/ At(q, "idle") \/ p = q
  /\ \A p \in Procs : ~At(p, "idle") => OrderOf(job[p])
  /\ AllIdle => OrderOf(Idle)

AInv == TInv /\ (apart => InOrder)

LEMMA Kinds ==
  /\ \A x \in Open : x \notin Finished
  /\ \A r \in Row : r.status \in Finished <=> r.status \notin Open
BY DEF Open, Finished, Row

\* The rows are as open, as finished and of the same campaigns as before.
LEMMA Alike ==
  ASSUME Written' = Written,
         \A i \in Written : /\ rows'[i].status \in Open <=> rows[i].status \in Open
                            /\ rows'[i].status \in Finished <=> rows[i].status \in Finished
                            /\ rows'[i].camp = rows[i].camp,
         UNCHANGED <<mails, campaigns, refused, suppressed>>,
         NEW k, JobSound(k, Written), OrderOf(k)
  PROVE  OrderOf(k)'
<1>1. \A n \in Campaigns : RowsOf(n)' = RowsOf(n) /\ RowsOf(n) \subseteq Written
  BY DEF RowsOf
<1>2. MailedBy(k)' /\ RefusedBy(k)'
  BY DEF OrderOf, MailedBy, RefusedBy
<1>3. SentDone'
  BY <1>1 DEF OrderOf, SentDone
<1>4. k.ids \subseteq Written /\ (k.step \in {"track", "save"} => k.id \in Written)
  BY DEF JobSound
<1>5. ASSUME k.step = "finish", NEW n \in k.camps, NEW i \in RowsOf(n)' PROVE rows'[i].status \notin Open
  <2>1. i \in RowsOf(n)
    BY <1>5 DEF RowsOf
  <2> QED BY <2>1, <1>5 DEF OrderOf, Current, RowsOf
<1>6. Current(k)'
  BY <1>4, <1>5 DEF OrderOf, Current
<1> QED BY <1>2, <1>3, <1>6 DEF OrderOf

LEMMA Quiet ==
  ASSUME UNCHANGED <<rows, mails, campaigns, refused, suppressed>>, NEW k, JobSound(k, Written), OrderOf(k)
  PROVE  OrderOf(k)'
<1>1. Written' = Written
  BY DEF Written
<1> QED BY <1>1, Alike

\* One goroutine goes on, the others are idle.
LEMMA Turn ==
  ASSUME TInv, NEW p \in Procs, \A q \in Procs \ {p} : At(q, "idle"), NEW k \in Job, Goes(p, k),
         OrderOf(k)', k.step = "idle" => k = Idle
  PROVE  InOrder'
<1>1. job'[p] = k /\ \A q \in Procs \ {p} : job'[q] = job[q]
  BY Data DEF Goes
<1>2. \A q \in Procs \ {p} : At(q, "idle")'
  BY <1>1 DEF At
<1>3. At(p, "idle")' <=> k.step = "idle"
  BY <1>1 DEF At
<1>4. \A q \in Procs : ~At(q, "idle")' => OrderOf(job[q])'
  BY <1>1, <1>2
<1>5. AllIdle' => OrderOf(Idle)'
  BY <1>3 DEF AllIdle
<1> QED BY <1>2, <1>4, <1>5 DEF InOrder

LEMMA Fresh ==
  ASSUME NEW step \in Steps \ {"finish", "insert", "recipients", "listed", "save", "track"},
         NEW k, k.step = step, k.ids = {}, NEW j, OrderOf(j), j.step # "save", j.step \notin {"suppress", "listed"}
  PROVE  OrderOf(k)
BY DEF OrderOf, MailedBy, RefusedBy, Current

LEMMA PlannedFields ==
  ASSUME NEW p, NEW j \in Job
  PROVE  /\ Planned(p, j).step \in {"idle", "reclaim", "plan"} /\ Planned(p, j).ids = {}
         /\ Planned(p, j).step = "idle" => Planned(p, j) = Idle
<1>1. CASE p \in Handlers
  BY <1>1 DEF Planned, Idle
<1>2. CASE p \notin Handlers /\ j.camps = {}
  <2>1. Planned(p, j) = [Idle EXCEPT !.step = "reclaim"]
    BY <1>2 DEF Planned
  <2> QED BY <2>1 DEF Idle
<1>3. CASE p \notin Handlers /\ j.camps # {}
  <2> DEFINE n == CHOOSE n \in j.camps : TRUE
  <2>1. Planned(p, j) = [Idle EXCEPT !.step = "plan", !.camp = n, !.camps = j.camps \ {n}]
    BY <1>3 DEF Planned
  <2> QED BY <2>1 DEF Idle
<1> QED BY <1>1, <1>2, <1>3

LEMMA InOrderInit == Init => InOrder
<1> SUFFICES ASSUME Init PROVE InOrder
  OBVIOUS
<1>1. AllIdle /\ Written = {}
  BY DEF Init, AllIdle, At, Idle, Written
<1>2. OrderOf(Idle)
  BY <1>1 DEF Init, OrderOf, MailedBy, RefusedBy, SentDone, Current, Idle, RowsOf
<1> QED BY <1>1, <1>2 DEF InOrder, AllIdle

\* A request finds everybody idle, or there is overlap from now on.
LEMMA RequestsInOrder ==
  ASSUME AInv, apart', NEW p \in Procs, (\E n \in Campaigns : SaveCampaign(p, n)) \/ Callbacks(p) \/ Tick(p)
  PROVE  InOrder'
<1>0. \A k : Begin(p, k) => Goes(p, k) /\ apart /\ AllIdle /\ OrderOf(Idle)
  BY DEF Begin, AInv, InOrder, AllIdle
<1>r. \A k : Request(p, k) => Goes(p, k) /\ apart /\ AllIdle /\ OrderOf(Idle)
  BY <1>0 DEF Request
<1>t. ASSUME NEW k, Goes(p, k), AllIdle, k \in Job, OrderOf(k)', k.step = "idle" => k = Idle PROVE InOrder'
  <2>1. PICK h \in Job : h = k
    BY <1>t
  <2> QED BY <1>t, <2>1, Turn DEF AInv, AllIdle
<1>i. Idle \in Job /\ Idle.step = "idle" /\ Idle.ids = {} /\ \A W : JobSound(Idle, W)
  BY IdleSound DEF Idle
<1>1. ASSUME NEW n \in Campaigns, SaveCampaign(p, n) PROVE InOrder'
  <2>1. PICK status \in {"draft", "scheduled", "sending"} :
          /\ campaigns' = [campaigns EXCEPT ![n] = status]
          /\ Request(p, IF status = "sending" THEN [Idle EXCEPT !.step = "plan", !.camp = n] ELSE Idle)
    BY <1>1 DEF SaveCampaign
  <2> DEFINE k == IF status = "sending" THEN [Idle EXCEPT !.step = "plan", !.camp = n] ELSE Idle
  <2>2. /\ k \in Job /\ k.ids = {} /\ k.step \in {"idle", "plan"} /\ (k.step = "idle" => k = Idle)
    BY IdleSound DEF Idle, Job, Steps
  <2>3. Goes(p, k) /\ AllIdle /\ OrderOf(Idle)
    BY <2>1, <1>r
  <2> HIDE DEF k
  <2>4. UNCHANGED <<rows, mails, refused, suppressed>> /\ Written' = Written
    BY <1>1 DEF SaveCampaign, Written
  <2>5. MailedBy(k)' /\ RefusedBy(k)'
    BY <2>3, <2>4, <1>i DEF OrderOf, MailedBy, RefusedBy
  <2>6. SentDone'
    <3>1. \A m \in Campaigns : campaigns'[m] = "sent" => campaigns[m] = "sent"
      BY <2>1, Data DEF AInv, DataOK
    <3> QED BY <3>1, <2>3, <2>4 DEF OrderOf, SentDone, RowsOf
  <2>7. Current(k)'
    BY <2>2 DEF Current
  <2> QED BY <2>2, <2>3, <2>5, <2>6, <2>7, <1>t DEF OrderOf
<1>2. ASSUME NEW i \in Written, Unsubscribe(p, i) PROVE InOrder'
  <2>1. Goes(p, Idle) /\ AllIdle /\ OrderOf(Idle) /\ UNCHANGED <<rows, mails, campaigns, refused, suppressed>>
    BY <1>2, <1>r DEF Unsubscribe
  <2>2. PICK h \in Job : h = Idle
    BY <1>i
  <2> QED BY <2>1, <2>2, <1>i, <1>t, Quiet
<1>3. ASSUME NEW i \in Written, NEW r, r \in Row, r.status \in Finished, r.camp = rows[i].camp,
             Request(p, [Idle EXCEPT !.step = "track", !.id = i, !.row = r]),
             UNCHANGED <<rows, mails, campaigns, refused, suppressed>>
      PROVE  InOrder'
  <2> DEFINE k == [Idle EXCEPT !.step = "track", !.id = i, !.row = r]
  <2>1. i \in Ids
    BY DEF Written
  <2>2. k \in Job /\ k.step = "track" /\ k.id = i /\ k.row = r /\ k.ids = {}
    BY <1>3, <2>1, IdleSound DEF Idle, Job, Steps
  <2>3. Goes(p, k) /\ AllIdle /\ OrderOf(Idle)
    BY <1>3, <1>r
  <2> HIDE DEF k
  <2>4. JobSound(k, Written)
    BY <1>3, <2>2 DEF JobSound
  <2>5. OrderOf(k)
    BY <1>3, <2>2, <2>3, <1>i DEF OrderOf, MailedBy, RefusedBy, Current
  <2>6. PICK h \in Job : h = k
    BY <2>2
  <2>7. OrderOf(h)'
    BY <1>3, <2>4, <2>5, <2>6, Quiet
  <2> QED BY <2>2, <2>3, <2>6, <2>7, <1>t
<1>4. ASSUME NEW i \in Written, RecordOpen(p, i) PROVE InOrder'
  <2>1. rows[i] \in Row /\ mails[i] > 0
    BY <1>4, Rows DEF AInv, RecordOpen
  <2>2. OrderOf(Idle)
    BY <1>4, <1>r DEF RecordOpen
  <2>3. rows[i].status \in Finished
    BY <2>1, <2>2, <1>i DEF OrderOf, MailedBy
  <2> QED BY <1>4, <2>1, <2>3, <1>3 DEF RecordOpen
<1>5. ASSUME NEW i \in Written, RecordRefusal(p, i) PROVE InOrder'
  <2>1. PICK how \in {"bounced", "complained"} :
          Request(p, [Idle EXCEPT !.step = "track", !.id = i, !.row = [rows[i] EXCEPT !.status = how]])
    BY <1>5 DEF RecordRefusal
  <2> DEFINE r == [rows[i] EXCEPT !.status = how]
  <2>2. r \in Row /\ r.status \in Finished /\ r.camp = rows[i].camp
    BY Rows DEF AInv, Row, Open, Finished
  <2>3. UNCHANGED <<rows, mails, campaigns, refused, suppressed>>
    BY <1>5 DEF RecordRefusal
  <2> QED BY <2>1, <2>2, <2>3, <1>3
<1>6. CASE Tick(p)
  <2>1. PICK due \in SUBSET Campaigns : Begin(p, Planned(p, [Idle EXCEPT !.camps = due]))
    BY <1>6 DEF Tick
  <2> DEFINE d == [Idle EXCEPT !.camps = due]
             k == Planned(p, d)
  <2>2. d \in Job
    BY IdleSound DEF Job
  <2> HIDE DEF d
  <2>3. k \in Job /\ JobSound(k, Written) /\ k.step \in {"idle", "reclaim", "plan"} /\ k.ids = {} /\ (k.step = "idle" => k = Idle)
    BY <2>2, PlannedSound, PlannedFields
  <2>4. Goes(p, k) /\ AllIdle /\ OrderOf(Idle)
    BY <2>1, <1>0 DEF d
  <2> HIDE DEF k
  <2>5. PICK h \in Job : h = k
    BY <2>3
  <2>6. OrderOf(h)
    BY <2>3, <2>4, <2>5, <1>i, Fresh DEF Steps
  <2>7. OrderOf(h)'
    BY <2>3, <2>5, <2>6, <1>6, Quiet DEF Tick
  <2> QED BY <2>3, <2>4, <2>5, <2>7, <1>t
<1> QED BY <1>1, <1>2, <1>4, <1>5, <1>6 DEF Callbacks

LEMMA MinuteInOrder == ASSUME AInv, apart', Minute PROVE InOrder'
<1>1. /\ rows' = [i \in Ids |-> IF i \in Written THEN Aged(rows[i]) ELSE Nil]
      /\ UNCHANGED <<campaigns, suppressed, job, mails, refused, apart>>
  BY DEF Minute
<1>2. \A i \in Written : i \in Ids /\ rows[i] \in Row
  BY Rows DEF AInv
<1>3. \A i \in Written : rows'[i] = Aged(rows[i]) /\ Aged(rows[i]) \in Row
  BY <1>1, <1>2, AgedRow
<1>4. \A i \in Written : rows'[i].status = rows[i].status /\ rows'[i].camp = rows[i].camp
  BY <1>2, <1>3, AgedRow
<1>5. Written' = Written
  BY <1>1, <1>3, NilIsNothing DEF Written
<1>6. ASSUME NEW k, JobSound(k, Written), OrderOf(k) PROVE OrderOf(k)'
  BY <1>1, <1>4, <1>5, <1>6, Alike
<1>7. InOrder
  BY <1>1 DEF AInv
<1>8. ASSUME NEW p \in Procs, ~At(p, "idle")' PROVE OrderOf(job[p])'
  <2>1. JobSound(job[p], Written) /\ OrderOf(job[p]) /\ job'[p] = job[p]
    BY <1>1, <1>7, <1>8 DEF AInv, TInv, InOrder, At
  <2>2. PICK h : h = job[p]
    OBVIOUS
  <2> QED BY <2>1, <2>2, <1>6
<1>9. AllIdle' => OrderOf(Idle)'
  BY <1>1, <1>6, <1>7, IdleSound DEF InOrder, AllIdle, At
<1> QED BY <1>1, <1>7, <1>8, <1>9 DEF InOrder, At

LEMMA ProceedInOrder == ASSUME AInv, apart', NEW p \in Procs, Proceed(p) PROVE InOrder'
<1> DEFINE j == job[p]
<1>a. apart /\ ~At(p, "idle")
  BY DEF Proceed, Track, LoadList, StoreList, SetSending, Recipients, InsertDelivery, Reclaim, Pick,
         Take, Mail, SaveDelivery, Finalize, SetSent, Judge, SetPaused, At
<1>b. /\ TInv /\ InOrder /\ OrderOf(j) /\ \A q \in Procs \ {p} : At(q, "idle")
      /\ j \in Job /\ JobSound(j, Written)
  <2>1. TInv /\ InOrder
    BY <1>a DEF AInv
  <2>2. j \in Job /\ JobSound(j, Written)
    BY <2>1, Data DEF TInv
  <2>3. OrderOf(j) /\ \A q \in Procs \ {p} : At(q, "idle")
    BY <1>a, <2>1 DEF InOrder
  <2> QED BY <2>1, <2>2, <2>3
<1>c. /\ MailedBy(j) /\ RefusedBy(j) /\ SentDone /\ Current(j)
      /\ j.ids \subseteq Written /\ j.camps \subseteq Campaigns
  BY <1>b DEF OrderOf, JobSound, Job
<1>i. Idle \in Job /\ Idle.step = "idle" /\ Idle.ids = {} /\ \A W : JobSound(Idle, W)
  BY IdleSound DEF Idle
<1> HIDE DEF j
\* The goroutine goes on with k, ...
<1>t. ASSUME NEW k, Goes(p, k), k \in Job, OrderOf(k)', k.step = "idle" => k = Idle PROVE InOrder'
  <2>1. PICK h \in Job : h = k
    BY <1>t
  <2> QED BY <1>t, <1>b, <2>1, Turn
\* ... having touched nothing that is told apart.
<1>q. ASSUME NEW k, Goes(p, k), k \in Job, OrderOf(k), JobSound(k, Written), k.step = "idle" => k = Idle,
             UNCHANGED <<rows, mails, campaigns, refused, suppressed>>
      PROVE  InOrder'
  <2>1. PICK h \in Job : h = k
    BY <1>q
  <2>2. OrderOf(h)'
    BY <1>q, <2>1, Quiet
  <2> QED BY <1>q, <2>1, <2>2, <1>t
<1>1. CASE Track(p)
  <2>1. /\ j.step = "track" /\ rows' = [rows EXCEPT ![j.id] = j.row]
        /\ UNCHANGED <<campaigns, suppressed, mails>>
    BY <1>1 DEF Track, At, j
  <2>2. j.id \in Written /\ j.row \in Row /\ j.id \in Ids /\ j.row.status \in Finished /\ j.row.camp = rows[j.id].camp
        /\ j.row.contact \in Contacts
    BY <1>b, <1>c, <2>1, Rows DEF JobSound, Current, Row
  <2>3. rows'[j.id] = j.row /\ (\A i \in Ids \ {j.id} : rows'[i] = rows[i]) /\ Written' = Written
    BY <2>1, <2>2, Data, <1>b, NilIsNothing DEF DataOK, Written
  <2>4. \A i \in Written : i \in Ids
    BY DEF Written
  <2>5. refused \subseteq suppressed
    BY <1>c, <2>1 DEF RefusedBy
  <2> DEFINE s == [Idle EXCEPT !.step = "suppress", !.contact = j.row.contact]
  <2>6. s \in Job /\ s.step = "suppress" /\ s.contact = j.row.contact /\ s.ids = {}
    BY <2>2, IdleSound DEF Idle, Job, Steps
  <2> HIDE DEF s
  <2>7. \/ Goes(p, s) /\ refused' = refused \cup {j.row.contact}
        \/ Goes(p, Idle) /\ refused' = refused
    BY <1>1 DEF Track, j, s
  <2>8. ASSUME NEW k, k \in {s, Idle} PROVE MailedBy(k)' /\ SentDone' /\ Current(k)'
    <3>1. MailedBy(k)'
      <4>1. ASSUME NEW i \in Written, mails[i] > 0 PROVE mails[i] = 1 /\ rows'[i].status \in Finished
        BY <4>1, <1>c, <2>1, <2>2, <2>3, <2>4 DEF MailedBy
      <4> QED BY <4>1, <2>1, <2>3 DEF MailedBy
    <3>2. SentDone'
      <4>1. ASSUME NEW n \in Campaigns, campaigns[n] = "sent", NEW i \in RowsOf(n)' PROVE rows'[i].status \notin Open
        <5>1. i \in Written /\ rows[i].camp = n
          BY <2>2, <2>3, <2>4 DEF RowsOf
        <5>2. i \in RowsOf(n)
          BY <5>1 DEF RowsOf
        <5> QED BY <5>1, <5>2, <4>1, <1>c, <2>2, <2>3, <2>4, Kinds DEF SentDone
      <4> QED BY <4>1, <2>1 DEF SentDone
    <3>3. Current(k)'
      BY <2>6, <1>i, <2>8 DEF Current
    <3> QED BY <3>1, <3>2, <3>3
  <2>9. CASE Goes(p, s) /\ refused' = refused \cup {j.row.contact}
    <3>1. PICK h \in Job : h = s
      BY <2>6
    <3>2. RefusedBy(h)'
      BY <3>1, <2>1, <2>5, <2>6, <2>9 DEF RefusedBy
    <3>3. OrderOf(h)'
      BY <3>1, <3>2, <2>8 DEF OrderOf
    <3> QED BY <3>1, <3>3, <2>6, <2>9, <1>t
  <2>10. CASE Goes(p, Idle) /\ refused' = refused
    <3>1. RefusedBy(Idle)'
      BY <2>1, <2>5, <2>10 DEF RefusedBy
    <3>2. OrderOf(Idle)'
      BY <3>1, <2>8 DEF OrderOf
    <3> QED BY <3>2, <2>10, <1>i, <1>t
  <2> QED BY <2>7, <2>9, <2>10
<1>2. CASE LoadList(p)
  <2>1. j.step = "suppress" /\ UNCHANGED <<rows, mails, campaigns, refused, suppressed>>
    BY <1>2 DEF LoadList, At, j
  <2> DEFINE k == [j EXCEPT !.step = "listed", !.list = suppressed]
  <2>2. k \in Job /\ k.step = "listed" /\ k.contact = j.contact /\ k.ids = j.ids /\ k.list = suppressed
    BY <1>b, Data DEF Job, Steps, DataOK
  <2> HIDE DEF k
  <2>3. CASE j.contact \in suppressed /\ Goes(p, Idle)
    <3>1. OrderOf(Idle)
      BY <1>c, <1>i, <2>1, <2>3 DEF OrderOf, MailedBy, RefusedBy, Current
    <3> QED BY <3>1, <2>1, <2>3, <1>i, <1>q
  <2>4. CASE Goes(p, k)
    <3>1. OrderOf(k) /\ JobSound(k, Written)
      BY <1>b, <1>c, <2>1, <2>2 DEF OrderOf, MailedBy, RefusedBy, Current, JobSound
    <3> QED BY <3>1, <2>1, <2>2, <2>4, <1>q
  <2> QED BY <1>2, <2>3, <2>4 DEF LoadList, j, k
<1>3. CASE StoreList(p)
  <2>1. /\ j.step = "listed" /\ suppressed' = j.list \cup {j.contact} /\ Goes(p, Idle)
        /\ UNCHANGED <<campaigns, rows, mails, refused>> /\ Written' = Written
    BY <1>3 DEF StoreList, At, j, Written
  <2>2. RefusedBy(Idle)'
    <3>1. \A c \in refused : c \in suppressed \/ c = j.contact
      BY <1>c DEF RefusedBy
    <3>2. j.list = suppressed
      BY <1>c, <2>1 DEF Current
    <3> QED BY <3>1, <3>2, <2>1 DEF RefusedBy
  <2>3. MailedBy(Idle)' /\ SentDone' /\ Current(Idle)'
    BY <1>c, <1>i, <2>1 DEF MailedBy, SentDone, Current, RowsOf
  <2> QED BY <2>1, <2>2, <2>3, <1>i, <1>t DEF OrderOf
<1>4. CASE SetSending(p)
  <2>1. /\ j.step = "plan" /\ campaigns' = [campaigns EXCEPT ![j.camp] = "sending"]
        /\ UNCHANGED <<rows, suppressed, mails, refused>> /\ Written' = Written
    BY <1>4 DEF SetSending, At, j, Written
  <2>2. j.camp \in Campaigns
    BY <1>b, <2>1 DEF JobSound
  <2> DEFINE k == [j EXCEPT !.step = "recipients"]
  <2>3. k \in Job /\ k.step = "recipients" /\ k.camp = j.camp /\ k.ids = j.ids
    BY <1>b DEF Job, Steps
  <2>4. Goes(p, k)
    BY <1>4 DEF SetSending, j
  <2> HIDE DEF k
  <2>5. PICK h \in Job : h = k
    BY <2>3
  <2>6. campaigns'[j.camp] = "sending" /\ \A n \in Campaigns : campaigns'[n] = "sent" => campaigns[n] = "sent"
    BY <2>1, <2>2, <1>b, Data DEF DataOK
  <2>7. MailedBy(h)' /\ RefusedBy(h)'
    BY <1>c, <2>1, <2>3, <2>5 DEF MailedBy, RefusedBy
  <2>8. SentDone'
    BY <1>c, <2>1, <2>6 DEF SentDone, RowsOf
  <2>9. Current(h)'
    BY <1>c, <2>1, <2>3, <2>5, <2>6 DEF Current
  <2> QED BY <2>3, <2>4, <2>5, <2>7, <2>8, <2>9, <1>t DEF OrderOf
<1>5. CASE Recipients(p)
  <2>1. j.step = "recipients" /\ UNCHANGED <<rows, mails, campaigns, refused, suppressed>>
    BY <1>5 DEF Recipients, At, j
  <2> DEFINE k == [j EXCEPT !.step = "insert", !.todo = Contacts \ (optedOut \cup suppressed)]
  <2>2. k \in Job /\ k.step = "insert" /\ k.camp = j.camp /\ k.ids = j.ids /\ k.todo = Contacts \ (optedOut \cup suppressed)
    BY <1>b DEF Job, Steps
  <2> HIDE DEF k
  <2>3. CASE Goes(p, k)
    <3>1. refused \subseteq suppressed
      BY <1>c, <2>1 DEF RefusedBy
    <3>2. Current(k)
      BY <1>c, <2>1, <2>2, <3>1 DEF Current
    <3>3. OrderOf(k) /\ JobSound(k, Written)
      BY <1>b, <1>c, <2>1, <2>2, <3>1, <3>2 DEF OrderOf, MailedBy, RefusedBy, JobSound
    <3> QED BY <3>3, <2>1, <2>2, <2>3, <1>q
  <2>4. CASE Goes(p, Planned(p, j))
    <3> DEFINE m == Planned(p, j)
    <3>1. /\ m \in Job /\ JobSound(m, Written) /\ m.step \in {"idle", "reclaim", "plan"} /\ m.ids = {}
          /\ m.step = "idle" => m = Idle
      <4>1. PICK h \in Job : h = j
        BY <1>b
      <4> QED BY <4>1, PlannedSound, PlannedFields
    <3> HIDE DEF m
    <3>2. OrderOf(m)
      BY <1>b, <2>1, <3>1, Fresh DEF Steps
    <3> QED BY <3>1, <3>2, <2>1, <2>4, <1>q DEF m
  <2> QED BY <1>5, <2>3, <2>4 DEF Recipients, j, k
<1>6. CASE InsertDelivery(p)
  <2> DEFINE left(c) == [j EXCEPT !.todo = @ \ {c}]
             new(c) == [camp |-> j.camp, contact |-> c, status |-> "pending",
                        attempts |-> 0, claimed |-> Nil, wait |-> 0]
             n == Cardinality(Written) + 1
  <2>1. j.step = "insert" /\ UNCHANGED <<campaigns, suppressed, mails, refused>>
    BY <1>6 DEF InsertDelivery, At, j
  <2>2. campaigns[j.camp] = "sending" /\ j.todo \cap refused = {} /\ j.camp \in Campaigns /\ refused \subseteq suppressed
        /\ j.todo \subseteq Contacts
    BY <1>b, <1>c, <2>1 DEF Current, JobSound, RefusedBy, Job
  <2>3. CASE UNCHANGED rows /\ Goes(p, Idle)
    <3>1. OrderOf(Idle)
      BY <1>b, <1>i, <2>1, Fresh DEF Steps
    <3> QED BY <3>1, <2>1, <2>3, <1>i, <1>q
  <2>4. ASSUME Written # Ids, NEW c \in j.todo, rows' = [rows EXCEPT ![n] = new(c)],
               Goes(p, IF j.todo = {c} THEN Planned(p, left(c)) ELSE left(c))
        PROVE  InOrder'
    <3> DEFINE k == IF j.todo = {c} THEN Planned(p, left(c)) ELSE left(c)
    <3>1. left(c) \in Job /\ left(c).step = "insert" /\ left(c).camp = j.camp /\ left(c).ids = j.ids /\ left(c).todo = j.todo \ {c}
      BY <1>b, <2>1 DEF Job
    <3>2. new(c) \in Row /\ new(c).camp = j.camp
      BY <2>2, Waits DEF Row, Open, Finished, MaxAttempts
    <3> HIDE DEF left, new, n
    <3>3. n \in Ids \ Written
      BY <2>4, <1>b, Ranked DEF n
    <3>4. Written' = Written \cup {n} /\ rows'[n] = new(c) /\ (\A i \in Written : i \in Ids /\ i # n /\ rows'[i] = rows[i])
      BY <2>4, <3>2, <3>3, <1>b, Data, NilIsNothing DEF Written, DataOK
    <3>5. mails'[n] = 0
      BY <3>3, <2>1, <1>b, Data DEF TInv, Numbered, DataOK
    <3>6. /\ k \in Job /\ (k.step = "idle" => k = Idle) /\ (k.step # "insert" => k.ids = {})
          /\ k.step \in {"insert", "idle", "reclaim", "plan"}
          /\ k.step = "insert" => k.camp = j.camp /\ k.ids = j.ids /\ k.todo = j.todo \ {c}
      <4>1. PICK h \in Job : h = left(c)
        BY <3>1
      <4>2. Planned(p, left(c)) \in Job /\ Planned(p, left(c)).step \in {"idle", "reclaim", "plan"} /\ Planned(p, left(c)).ids = {}
            /\ (Planned(p, left(c)).step = "idle" => Planned(p, left(c)) = Idle)
        BY <4>1, PlannedSound, PlannedFields
      <4>3. CASE j.todo = {c} BY <4>2, <4>3
      <4>4. CASE j.todo # {c} BY <3>1, <4>4
      <4> QED BY <4>3, <4>4
    <3>7. Goes(p, k)
      BY <2>4
    <3> HIDE DEF k
    <3>8. PICK h \in Job : h = k
      BY <3>6
    <3>9. MailedBy(h)'
      <4>1. ASSUME NEW i \in Written', mails'[i] > 0 PROVE mails'[i] = 1 /\ rows'[i].status \in Finished
        BY <4>1, <3>4, <3>5, <2>1, <1>c DEF MailedBy
      <4> QED BY <4>1 DEF MailedBy
    <3>10. RefusedBy(h)'
      BY <2>1, <2>2 DEF RefusedBy
    <3>11. SentDone'
      <4>1. ASSUME NEW m \in Campaigns, campaigns'[m] = "sent", NEW i \in RowsOf(m)' PROVE rows'[i].status \notin Open
        <5>1. i \in Written' /\ rows'[i].camp = m
          BY DEF RowsOf
        <5>2. i # n
          BY <5>1, <4>1, <3>2, <3>4, <2>1, <2>2
        <5>3. i \in RowsOf(m)
          BY <5>1, <5>2, <3>4 DEF RowsOf
        <5> QED BY <5>1, <5>2, <5>3, <4>1, <3>4, <2>1, <1>c DEF SentDone
      <4> QED BY <4>1 DEF SentDone
    <3>12. Current(h)'
      <4>1. \A i \in h.ids : rows'[i].status \in Open /\ mails'[i] = 0
        BY <3>6, <3>8, <3>4, <2>1, <1>c DEF Current
      <4> QED BY <4>1, <3>6, <3>8, <2>1, <2>2 DEF Current
    <3> QED BY <3>6, <3>7, <3>8, <3>9, <3>10, <3>11, <3>12, <1>t DEF OrderOf
  <2> QED BY <1>6, <2>3, <2>4 DEF InsertDelivery, j
<1>7. CASE Reclaim(p)
  <2> DEFINE k == [Idle EXCEPT !.step = "pick"]
  <2>1. k \in Job /\ k.step = "pick" /\ k.ids = {}
    BY IdleSound DEF Idle, Job, Steps
  <2>2. j.step = "reclaim" /\ Goes(p, k) /\ UNCHANGED <<campaigns, suppressed, mails, refused>>
    BY <1>7 DEF Reclaim, At, j
  <2> HIDE DEF k
  <2>3. rows' = [i \in Ids |-> IF i \in Written /\ Stuck(i)
                            THEN [rows[i] EXCEPT !.status = "pending", !.claimed = Nil] ELSE rows[i]]
    BY <1>7 DEF Reclaim
  <2>4. ASSUME NEW i \in Written
        PROVE  /\ rows'[i] \in Row
               /\ rows'[i].status \in Open <=> rows[i].status \in Open
               /\ rows'[i].status \in Finished <=> rows[i].status \in Finished
               /\ rows'[i].camp = rows[i].camp
    <3>1. rows[i] \in Row /\ i \in Ids
      BY <1>b, Rows
    <3>2. CASE Stuck(i)
      <4>1. rows'[i] = [rows[i] EXCEPT !.status = "pending", !.claimed = Nil] /\ rows[i].status = "queued"
        BY <3>1, <3>2, <2>3 DEF Stuck
      <4>2. rows'[i] \in Row /\ rows'[i].status = "pending" /\ rows'[i].camp = rows[i].camp
        BY <3>1, <4>1 DEF Row, Open, Finished
      <4> QED BY <4>1, <4>2 DEF Open, Finished
    <3>3. CASE ~Stuck(i)
      BY <3>1, <3>3, <2>3
    <3> QED BY <3>2, <3>3
  <2>5. Written' = Written
    BY <2>3, <2>4, NilIsNothing DEF Written
  <2>6. OrderOf(k) /\ JobSound(k, Written)
    BY <1>b, <2>1, <2>2, Fresh DEF Steps, JobSound
  <2>7. PICK h \in Job : h = k
    BY <2>1
  <2>8. OrderOf(h)'
    BY <2>2, <2>4, <2>5, <2>6, <2>7, Alike
  <2> QED BY <2>1, <2>2, <2>7, <2>8, <1>t
<1>8. CASE Pick(p)
  <2> DEFINE ids == First({i \in Written : Ready(i)}, Rate - spent[p])
             k == [Idle EXCEPT !.step = "take", !.ids = ids]
             f == [Idle EXCEPT !.step = "finalize"]
  <2>1. ids \subseteq Written /\ ids \subseteq Ids /\ \A i \in ids : Ready(i)
    BY Firsts DEF Written
  <2> HIDE DEF ids
  <2>2. /\ k \in Job /\ k.step = "take" /\ k.ids = ids
        /\ f \in Job /\ f.step = "finalize" /\ f.ids = {}
    BY <2>1, IdleSound DEF Idle, Job, Steps
  <2>3. /\ Goes(p, k) \/ Goes(p, f)
        /\ j.step = "pick" /\ UNCHANGED <<rows, mails, campaigns, refused, suppressed>>
    BY <1>8 DEF Pick, At, j, ids
  <2> HIDE DEF k, f
  <2>4. CASE Goes(p, f)
    <3>1. OrderOf(f) /\ JobSound(f, Written)
      BY <1>b, <2>2, <2>3, Fresh DEF Steps, JobSound
    <3> QED BY <3>1, <2>2, <2>3, <2>4, <1>q
  <2>5. CASE Goes(p, k)
    <3>1. ASSUME NEW i \in ids PROVE rows[i].status \in Open /\ mails[i] = 0
      <4>1. rows[i].status = "pending" /\ i \in Written /\ i \in Ids
        BY <2>1 DEF Ready
      <4>2. mails[i] \in 0..2
        BY <4>1, <1>b, Data DEF DataOK
      <4> QED BY <4>1, <4>2, <1>c, <2>3 DEF MailedBy, Open, Finished
    <3>2. OrderOf(k) /\ JobSound(k, Written)
      BY <1>b, <1>c, <2>1, <2>2, <2>3, <3>1 DEF OrderOf, MailedBy, RefusedBy, Current, JobSound
    <3> QED BY <3>2, <2>2, <2>3, <2>5, <1>q
  <2> QED BY <2>3, <2>4, <2>5
<1>9. CASE Take(p)
  <2> DEFINE k == [j EXCEPT !.step = "mail"]
  <2>1. k \in Job /\ k.step = "mail" /\ k.ids = j.ids
    BY <1>b DEF Job, Steps
  <2>2. j.step = "take" /\ Goes(p, k) /\ UNCHANGED <<campaigns, suppressed, mails, refused>>
    BY <1>9 DEF Take, At, j
  <2> HIDE DEF k
  <2>3. rows' = [i \in Ids |-> IF i \in j.ids /\ rows[i].status = "pending"
                                THEN [rows[i] EXCEPT !.status = "queued", !.claimed = 0] ELSE rows[i]]
    BY <1>9 DEF Take, j
  <2>4. ASSUME NEW i \in Written
        PROVE  /\ rows'[i] \in Row
               /\ rows'[i].status \in Open <=> rows[i].status \in Open
               /\ rows'[i].status \in Finished <=> rows[i].status \in Finished
               /\ rows'[i].camp = rows[i].camp
    <3>1. rows[i] \in Row /\ i \in Ids
      BY <1>b, Rows
    <3>2. CASE i \in j.ids /\ rows[i].status = "pending"
      <4>1. rows'[i] = [rows[i] EXCEPT !.status = "queued", !.claimed = 0]
        BY <3>1, <3>2, <2>3
      <4>2. 0 \in 0..(ClaimTimeout + 1) /\ 0 # Nil
        BY NewsletterConstants
      <4>3. rows'[i] \in Row /\ rows'[i].status = "queued" /\ rows'[i].camp = rows[i].camp
        BY <3>1, <3>2, <4>1, <4>2 DEF Row, Open, Finished
      <4> QED BY <3>2, <4>3 DEF Open, Finished
    <3>3. CASE ~(i \in j.ids /\ rows[i].status = "pending")
      BY <3>1, <3>3, <2>3
    <3> QED BY <3>2, <3>3
  <2>5. Written' = Written
    BY <2>3, <2>4, <1>c, NilIsNothing DEF Written
  <2>6. OrderOf(k) /\ JobSound(k, Written)
    BY <1>b, <1>c, <2>1, <2>2 DEF OrderOf, MailedBy, RefusedBy, Current, JobSound
  <2>7. PICK h \in Job : h = k
    BY <2>1
  <2>8. OrderOf(h)'
    BY <2>2, <2>4, <2>5, <2>6, <2>7, Alike
  <2> QED BY <2>1, <2>2, <2>7, <2>8, <1>t
<1>10. CASE Mail(p)
  <2>1. j.step = "mail" /\ UNCHANGED <<campaigns, rows, suppressed, refused>> /\ Written' = Written
    BY <1>10 DEF Mail, At, j, Written
  <2>2. ASSUME NEW i \in j.ids, NEW m, m \in Row, m.camp = rows[i].camp,
               Goes(p, [j EXCEPT !.step = "save", !.id = i, !.row = m, !.ids = @ \ {i}]),
               \/ mails' = [mails EXCEPT ![i] = IF @ < MailsCounted THEN @ + 1 ELSE @] /\ m.status = "sent"
               \/ mails' = mails
        PROVE  InOrder'
    <3> DEFINE k == [j EXCEPT !.step = "save", !.id = i, !.row = m, !.ids = @ \ {i}]
    <3>1. i \in Written /\ i \in Ids /\ rows[i].status \in Open /\ mails[i] = 0
      BY <1>b, <1>c, Rows DEF Current
    <3>2. k \in Job /\ k.step = "save" /\ k.id = i /\ k.row = m /\ k.ids = j.ids \ {i}
      BY <1>b, <2>2, <3>1 DEF Job, Steps
    <3> HIDE DEF k
    <3>3. PICK h \in Job : h = k
      BY <3>2
    <3>4. (\A g \in Ids \ {i} : mails'[g] = mails[g]) /\ (mails'[i] = 0 \/ (mails'[i] = 1 /\ m.status = "sent"))
      <4>1. MailsCounted = 2
        BY <1>a DEF MailsCounted
      <4>2. mails \in [Ids -> 0..2] /\ i \in Ids /\ mails[i] = 0
        BY <3>1, <1>b, Data DEF DataOK
      <4>3. CASE mails' = [mails EXCEPT ![i] = IF @ < MailsCounted THEN @ + 1 ELSE @] /\ m.status = "sent"
        <5>1. (IF mails[i] < MailsCounted THEN mails[i] + 1 ELSE mails[i]) = 1
          BY <4>1, <4>2
        <5>2. mails' = [mails EXCEPT ![i] = 1]
          BY <4>3, <5>1
        <5>3. mails'[i] = 1 /\ \A g \in Ids \ {i} : mails'[g] = mails[g]
          BY <5>2, <4>2
        <5> QED BY <5>3, <4>3
      <4>4. CASE mails' = mails
        <5>1. mails'[i] = 0 /\ \A g \in Ids \ {i} : mails'[g] = mails[g]
          BY <4>2, <4>4
        <5> QED BY <5>1
      <4> QED BY <2>2, <4>3, <4>4
    <3>5. MailedBy(h)'
      <4>1. ASSUME NEW g \in Written, mails'[g] > 0
            PROVE mails'[g] = 1 /\ (rows[g].status \in Finished \/ (g = i /\ m.status = "sent"))
        <5>1. g \in Ids
          BY DEF Written
        <5> QED BY <5>1, <4>1, <3>4, <2>1, <1>c DEF MailedBy
      <4> QED BY <4>1, <3>2, <3>3, <2>1 DEF MailedBy
    <3>6. RefusedBy(h)'
      BY <1>c, <2>1 DEF RefusedBy
    <3>7. SentDone'
      BY <1>c, <2>1 DEF SentDone, RowsOf
    <3>8. Current(h)'
      <4>1. \A g \in h.ids : rows'[g].status \in Open /\ mails'[g] = 0
        <5>1. \A g \in h.ids : g \in j.ids /\ g # i /\ g \in Ids
          <6>1. h.ids = j.ids \ {i} /\ j.ids \subseteq Ids
            BY <3>2, <3>3, <1>b DEF Job
          <6> QED BY <6>1
        <5> QED BY <5>1, <3>4, <2>1, <1>c DEF Current
      <4> QED BY <4>1, <3>1, <3>2, <3>3, <2>1, <2>2 DEF Current
    <3> QED BY <2>2, <3>2, <3>3, <3>5, <3>6, <3>7, <3>8, <1>t DEF OrderOf, k
  <2>3. PICK i \in First(j.ids, 1) :
           \/ /\ mails' = [mails EXCEPT ![i] = IF @ < MailsCounted THEN @ + 1 ELSE @]
              /\ Goes(p, [j EXCEPT !.step = "save", !.id = i, !.row = Sent(rows[i]), !.ids = @ \ {i}])
           \/ /\ mails' = mails
              /\ Goes(p, [j EXCEPT !.step = "save", !.id = i, !.row = Failed(rows[i]), !.ids = @ \ {i}])
    BY <1>10 DEF Mail, j
  <2>4. i \in j.ids /\ rows[i] \in Row
    BY <1>b, <1>c, Firsts, Rows
  <2>5. Sent(rows[i]) \in Row /\ Sent(rows[i]).camp = rows[i].camp /\ Sent(rows[i]).status = "sent"
    BY <2>4, SentRow
  <2>6. Failed(rows[i]) \in Row /\ Failed(rows[i]).camp = rows[i].camp
    BY <2>4, FailedRow
  <2> QED BY <2>2, <2>3, <2>4, <2>5, <2>6
<1>11. CASE SaveDelivery(p)
  <2> DEFINE k == [Idle EXCEPT !.step = IF j.ids = {} THEN "finalize" ELSE "mail", !.ids = j.ids]
  <2>1. /\ j.step = "save" /\ rows' = [rows EXCEPT ![j.id] = j.row] /\ Goes(p, k)
        /\ UNCHANGED <<campaigns, suppressed, mails, refused>>
    BY <1>11 DEF SaveDelivery, At, j
  <2>2. /\ j.id \in Written /\ j.id \in Ids /\ j.row \in Row /\ rows[j.id].status \in Open
        /\ j.id \notin j.ids /\ j.row.camp = rows[j.id].camp /\ rows[j.id] \in Row
    BY <1>b, <1>c, <2>1, Rows DEF JobSound, Current
  <2>3. rows'[j.id] = j.row /\ (\A i \in Written \ {j.id} : rows'[i] = rows[i]) /\ Written' = Written
    BY <2>1, <2>2, Data, <1>b, NilIsNothing DEF DataOK, Written
  <2>4. k \in Job /\ k.step \in {"finalize", "mail"} /\ k.ids = j.ids
    <3>1. j.ids \in SUBSET Ids
      BY <1>b DEF Job
    <3>2. k = WithBatch(j.ids)
      BY DEF WithBatch
    <3> QED BY <3>1, <3>2, BatchSound
  <2> HIDE DEF k
  <2>5. PICK h \in Job : h = k
    BY <2>4
  <2>6. MailedBy(h)'
    <3>1. ASSUME NEW i \in Written, mails[i] > 0 PROVE mails[i] = 1 /\ rows'[i].status \in Finished
      <4>1. CASE i = j.id
        BY <4>1, <3>1, <1>c, <2>2, <2>3, Kinds DEF MailedBy, Finished
      <4>2. CASE i # j.id
        BY <4>2, <3>1, <1>c, <2>3 DEF MailedBy
      <4> QED BY <4>1, <4>2
    <3> QED BY <3>1, <2>1, <2>3 DEF MailedBy
  <2>7. RefusedBy(h)'
    BY <1>c, <2>1 DEF RefusedBy
  <2>8. SentDone'
    <3>1. ASSUME NEW n \in Campaigns, campaigns[n] = "sent", NEW i \in RowsOf(n)' PROVE rows'[i].status \notin Open
      <4>1. i \in RowsOf(n)
        BY <2>2, <2>3 DEF RowsOf
      <4>2. i # j.id
        BY <4>1, <3>1, <1>c, <2>2 DEF SentDone
      <4>3. i \in Written
        BY <4>1 DEF RowsOf
      <4> QED BY <4>1, <4>2, <4>3, <3>1, <1>c, <2>3 DEF SentDone
    <3> QED BY <3>1, <2>1 DEF SentDone
  <2>9. Current(h)'
    <3>1. \A i \in h.ids : rows'[i].status \in Open /\ mails'[i] = 0
      BY <1>c, <2>1, <2>2, <2>3, <2>4, <2>5 DEF Current
    <3> QED BY <3>1, <2>4, <2>5 DEF Current
  <2> QED BY <2>1, <2>4, <2>5, <2>6, <2>7, <2>8, <2>9, <1>t DEF OrderOf
<1>12. CASE Finalize(p)
  <2> DEFINE done == {n \in Sending : \A i \in RowsOf(n) : rows[i].status \notin Open}
             step == IF done = {} THEN "judge" ELSE "finish"
             k == [Idle EXCEPT !.step = step, !.camps = done]
  <2>1. j.step = "finalize" /\ Goes(p, k) /\ UNCHANGED <<rows, mails, campaigns, refused, suppressed>>
    BY <1>12 DEF Finalize, At, j
  <2>2. done \subseteq Campaigns /\ (\A n \in done : \A i \in RowsOf(n) : rows[i].status \notin Open)
        /\ step \in {"judge", "finish"}
    BY DEF Sending
  <2> HIDE DEF done, step
  <2>3. k \in Job /\ k.step \in {"judge", "finish"} /\ k.ids = {} /\ k.camps = done
    BY <2>2, IdleSound DEF Idle, Job, Steps
  <2> HIDE DEF k
  <2>4. OrderOf(k) /\ JobSound(k, Written)
    BY <1>c, <2>1, <2>2, <2>3 DEF OrderOf, MailedBy, RefusedBy, Current, JobSound
  <2> QED BY <2>1, <2>3, <2>4, <1>q
<1>13. CASE SetSent(p)
  <2>1. PICK n \in j.camps :
          /\ campaigns' = [campaigns EXCEPT ![n] = "sent"]
          /\ Goes(p, [j EXCEPT !.step = IF j.camps = {n} THEN "judge" ELSE "finish", !.camps = @ \ {n}])
    BY <1>13 DEF SetSent, j
  <2> DEFINE step == IF j.camps = {n} THEN "judge" ELSE "finish"
             k == [j EXCEPT !.step = step, !.camps = @ \ {n}]
  <2>2. j.step = "finish" /\ UNCHANGED <<rows, suppressed, mails, refused>> /\ Written' = Written
    BY <1>13 DEF SetSent, At, j, Written
  <2>3. step \in {"judge", "finish"}
    OBVIOUS
  <2> HIDE DEF step
  <2>4. k \in Job /\ k.step \in {"judge", "finish"} /\ k.ids = j.ids /\ k.camps = j.camps \ {n}
    BY <1>b, <1>c, <2>1, <2>3 DEF Job, Steps
  <2>5. Goes(p, k)
    BY <2>1 DEF step
  <2> HIDE DEF k
  <2>6. PICK h \in Job : h = k
    BY <2>4
  <2>7. \A m \in Campaigns : RowsOf(m)' = RowsOf(m)
    BY <2>2 DEF RowsOf
  <2>8. MailedBy(h)' /\ RefusedBy(h)'
    BY <1>c, <2>2 DEF MailedBy, RefusedBy
  <2>9. SentDone'
    <3>1. \A m \in Campaigns \ {n} : campaigns'[m] = campaigns[m]
      BY <2>1, <1>b, Data DEF DataOK
    <3>2. \A i \in RowsOf(n) : rows[i].status \notin Open
      BY <1>c, <2>1, <2>2 DEF Current
    <3> QED BY <3>1, <3>2, <1>c, <2>2, <2>7 DEF SentDone
  <2>10. Current(h)'
    <3>1. \A m \in h.camps : \A i \in RowsOf(m)' : rows'[i].status \notin Open
      BY <1>c, <2>2, <2>4, <2>6, <2>7 DEF Current
    <3> QED BY <3>1, <1>c, <2>2, <2>4, <2>6 DEF Current
  <2> QED BY <2>4, <2>5, <2>6, <2>8, <2>9, <2>10, <1>t DEF OrderOf
<1>14. CASE Judge(p)
  <2> DEFINE bad == {n \in Sending : TooManyBounces(n)}
             k == [Idle EXCEPT !.step = "pause", !.camps = bad]
  <2>1. /\ j.step = "judge" /\ (Goes(p, k) \/ Goes(p, Idle))
        /\ UNCHANGED <<rows, mails, campaigns, refused, suppressed>>
    BY <1>14 DEF Judge, At, j
  <2>2. bad \subseteq Campaigns
    BY DEF Sending
  <2> HIDE DEF bad
  <2>3. k \in Job /\ k.step = "pause" /\ k.ids = {}
    BY <2>2, IdleSound DEF Idle, Job, Steps
  <2> HIDE DEF k
  <2>4. OrderOf(k) /\ JobSound(k, Written) /\ OrderOf(Idle)
    BY <1>b, <1>i, <2>1, <2>3, Fresh DEF Steps, JobSound
  <2> QED BY <2>1, <2>3, <2>4, <1>i, <1>q
<1>15. CASE SetPaused(p)
  <2>1. PICK n \in j.camps :
          /\ campaigns' = [campaigns EXCEPT ![n] = "paused"]
          /\ Goes(p, Idle) \/ Goes(p, [j EXCEPT !.camps = @ \ {n}])
    BY <1>15 DEF SetPaused, j
  <2> DEFINE k == [j EXCEPT !.camps = @ \ {n}]
  <2>2. j.step = "pause" /\ UNCHANGED <<rows, suppressed, mails, refused>> /\ Written' = Written
    BY <1>15 DEF SetPaused, At, j, Written
  <2>3. k \in Job /\ k.step = "pause" /\ k.ids = j.ids
    BY <1>b, <1>c, <2>2 DEF Job
  <2>4. Goes(p, k) \/ Goes(p, Idle)
    BY <2>1
  <2> HIDE DEF k
  <2>5. \A m \in Campaigns : campaigns'[m] = "sent" => campaigns[m] = "sent"
    BY <2>1, <1>c, <1>b, Data DEF DataOK
  <2>6. SentDone'
    BY <1>c, <2>2, <2>5 DEF SentDone, RowsOf
  <2>7. ASSUME NEW h, h.step \in {"pause", "idle"}, h.ids \subseteq j.ids PROVE OrderOf(h)'
    <3>1. MailedBy(h)' /\ RefusedBy(h)'
      BY <1>c, <2>2 DEF MailedBy, RefusedBy
    <3>2. Current(h)'
      BY <1>c, <2>2, <2>7 DEF Current
    <3> QED BY <2>6, <3>1, <3>2 DEF OrderOf
  <2>8. PICK h \in Job : h = k
    BY <2>3
  <2>9. OrderOf(h)' /\ OrderOf(Idle)'
    BY <2>3, <2>7, <2>8, <1>i
  <2> QED BY <2>3, <2>4, <2>8, <2>9, <1>i, <1>t
<1> QED BY <1>1, <1>2, <1>3, <1>4, <1>5, <1>6, <1>7, <1>8, <1>9, <1>10, <1>11, <1>12,
           <1>13, <1>14, <1>15 DEF Proceed

LEMMA AInvStep == AInv /\ [Next]_vars => AInv'
<1> SUFFICES ASSUME AInv, [Next]_vars PROVE AInv'
  OBVIOUS
<1>1. TInv'
  BY TInvStep DEF AInv
<1>2. ASSUME apart' PROVE InOrder'
  <2>1. CASE UNCHANGED vars
    <3>1. UNCHANGED <<rows, mails, campaigns, refused, suppressed, job, apart>>
      BY <2>1 DEF vars
    <3>2. TInv /\ InOrder
      BY <1>2, <3>1 DEF AInv
    <3>3. ASSUME NEW p \in Procs, ~At(p, "idle") PROVE OrderOf(job[p])'
      <4>1. OrderOf(job[p]) /\ JobSound(job[p], Written) /\ job'[p] = job[p]
        BY <3>1, <3>2, <3>3 DEF InOrder, TInv
      <4>2. PICK h : h = job[p]
        OBVIOUS
      <4>3. OrderOf(h)'
        BY <4>1, <4>2, <3>1, Quiet
      <4> QED BY <4>1, <4>2, <4>3
    <3>4. AllIdle => OrderOf(Idle)'
      BY <3>1, <3>2, IdleSound, Quiet DEF InOrder
    <3> QED BY <3>1, <3>2, <3>3, <3>4 DEF InOrder, At, AllIdle
  <2>2. ASSUME NEW p \in Procs, Crash(p) PROVE FALSE
    BY <1>2, <2>2 DEF Crash
  <2> QED BY <1>2, <2>1, <2>2, RequestsInOrder, MinuteInOrder, ProceedInOrder DEF Next
<1> QED BY <1>1, <1>2 DEF AInv

\* The claim, the retries, the time-out of a claim and the callbacks of the
\* tracker mail nothing twice by themselves; it takes an overlap or a crash.
THEOREM NoSecondMail == Spec => []MailedOnce
<1>1. Init => AInv
  BY TInvInit, InOrderInit DEF AInv
<1>2. AInv => MailedOnce
  <2> SUFFICES ASSUME AInv, apart, NEW i \in Ids PROVE mails[i] < 2
    BY DEF MailedOnce
  <2>1. mails[i] \in 0..2 /\ (mails[i] > 0 => i \in Written) /\ InOrder
    BY Data DEF AInv, TInv, Numbered, DataOK
  <2>2. OrderOf(Idle) \/ \E p \in Procs : OrderOf(job[p])
    BY <2>1 DEF InOrder, AllIdle
  <2> QED BY <2>1, <2>2 DEF OrderOf, MailedBy
<1> QED BY <1>1, <1>2, AInvStep, PTL DEF Spec

\* finalizeCompleted marks no campaign sent that has a delivery pending or
\* queued, and nothing re-opens one of a sent campaign, without an overlap.
THEOREM SentHasNothingLeft == Spec => []SentIsDone
<1>1. Init => AInv
  BY TInvInit, InOrderInit DEF AInv
<1>2. AInv => SentIsDone
  <2> SUFFICES ASSUME AInv, apart PROVE SentDone
    BY DEF SentIsDone, SentDone
  <2> QED BY DEF AInv, InOrder, AllIdle, OrderOf
<1> QED BY <1>1, <1>2, AInvStep, PTL DEF Spec

\* A row is new only when a plan inserts it.
LEMMA OnlyInserts ==
  ASSUME TInv, [Next]_vars, \A p \in Procs : ~InsertDelivery(p), NEW i \in Ids, rows[i] = Nil
  PROVE  rows'[i] = Nil
<1>0. i \notin Written
  BY DEF Written
<1>1. CASE UNCHANGED rows
  BY <1>1
<1>2. CASE Minute
  BY <1>0, <1>2 DEF Minute
<1>3. ASSUME NEW p \in Procs, Track(p) \/ SaveDelivery(p) PROVE rows'[i] = Nil
  <2>1. job[p].id \in Written /\ rows' = [rows EXCEPT ![job[p].id] = job[p].row]
    BY <1>3 DEF Track, SaveDelivery, At, TInv, JobSound
  <2> QED BY <1>0, <2>1, Data DEF DataOK
<1>4. ASSUME NEW p \in Procs, Reclaim(p) PROVE rows'[i] = Nil
  BY <1>0, <1>4 DEF Reclaim
<1>5. ASSUME NEW p \in Procs, Take(p) PROVE rows'[i] = Nil
  <2>1. i \notin job[p].ids
    BY <1>0, <1>5 DEF TInv, JobSound
  <2> QED BY <2>1, <1>5 DEF Take
<1>6. ASSUME NEW p \in Procs, Proceed(p), ~Track(p), ~SaveDelivery(p), ~Reclaim(p), ~Take(p) PROVE UNCHANGED rows
  BY <1>6 DEF Proceed, LoadList, StoreList, SetSending, Recipients, Pick, Mail, Finalize, SetSent, Judge, SetPaused
<1>7. ASSUME NEW p \in Procs, (\E n \in Campaigns : SaveCampaign(p, n)) \/ Callbacks(p) \/ Tick(p) \/ Crash(p)
      PROVE  UNCHANGED rows
  BY <1>7 DEF SaveCampaign, Callbacks, Unsubscribe, RecordOpen, RecordRefusal, Tick, Crash
<1> QED BY <1>1, <1>2, <1>3, <1>4, <1>5, <1>6, <1>7 DEF Next, vars

\* NewsletterPlanner.Plan inserts no delivery to an address that bounced or
\* complained, unless its suppression was still on its way in an overlap.
THEOREM RefusedAreNotPlanned == Spec => RefusedNotPlanned
<1>1. Init => AInv
  BY TInvInit, InOrderInit DEF AInv
<1>2. AInv /\ [Next]_vars =>
        [apart => \A i \in Ids : rows[i] = Nil /\ rows'[i] # Nil => rows'[i].contact \notin refused]_vars
  <2> SUFFICES ASSUME AInv, [Next]_vars, apart, NEW i \in Ids, rows[i] = Nil, rows'[i] # Nil
               PROVE  rows'[i].contact \notin refused
    OBVIOUS
  <2>1. TInv /\ InOrder
    BY DEF AInv
  <2>2. PICK p \in Procs : InsertDelivery(p)
    BY <2>1, OnlyInserts
  <2>3. At(p, "insert") /\ ~At(p, "idle")
    BY <2>2 DEF InsertDelivery, At
  <2>4. job[p].todo \cap refused = {}
    BY <2>1, <2>3 DEF InOrder, OrderOf, Current, At
  <2>5. rows' # rows
    OBVIOUS
  <2>6. PICK c \in job[p].todo : rows' = [rows EXCEPT ![Cardinality(Written) + 1] =
                               [camp |-> job[p].camp, contact |-> c, status |-> "pending",
                                attempts |-> 0, claimed |-> Nil, wait |-> 0]]
    BY <2>2, <2>5 DEF InsertDelivery
  <2>7. rows'[i].contact = c
    BY <2>1, <2>6, Data DEF DataOK
  <2> QED BY <2>4, <2>7
<1> QED BY <1>1, <1>2, AInvStep, PTL DEF Spec, RefusedNotPlanned
=============================================================================
