-------------------------------- MODULE ImportJobs --------------------------------
(***************************************************************************)
(* One import job (services/import.go, services/import_records.go,          *)
(* handlers/import.go): an admin starts, pauses, resumes and cancels it,     *)
(* and every start or resume is a run of its own in the background, so two  *)
(* runs of the job may overlap.  A run keeps its own copy of the row.        *)
(*                                                                         *)
(* Source[t] is the pages of the t-th entity type of the adapter.  A record *)
(* is "host" (looked up in the host's users), "named" (found by its slug or *)
(* address, otherwise created) or "new" (always created), and may hang on   *)
(* another one.  What a record carries besides is abstracted away.          *)
(***************************************************************************)
EXTENDS Naturals, Sequences, FiniteSets

CONSTANTS Source, HostUsers, Runs, Admins, MaxRuns, MaxAsks, MaxFaults, Nil

Types == DOMAIN Source
Records == UNION {UNION {{Source[t][p][k] : k \in DOMAIN Source[t][p]} : p \in DOMAIN Source[t]} : t \in Types}
Ids == {r.id : r \in Records} \ {Nil}
Names == {r.name : r \in Records}

\* Every type has a first page, if an empty one; a record that is always
\* created has a name no other has, and only such a one needs a parent.
ImportConstants ==
  /\ Source \in Seq(Seq(Seq(Records))) /\ IsFiniteSet(Ids) /\ Nil \notin [name : Names, n : Nat]
  /\ \A t \in Types : Source[t] # <<>>
  /\ \A r \in Records : r.kind \in {"host", "named", "new"} /\ (r.needs => r.kind = "new")
  /\ \A r, q \in Records : r.kind = "new" /\ r.name = q.name => r = q
  /\ MaxRuns \in Nat \ {0} /\ MaxAsks \in Nat /\ MaxFaults \in Nat

VARIABLES cookie,   \* the admin's browser holds tested credentials
          row,      \* the import_jobs row
          map,      \* import_source_maps of the job: [id -> entity or Nil]
          entities, \* what the runs created: [name, n, on]
          run,      \* each run: where it is and its copy of the row
          admin,    \* the row each admin's request has read
          queued,   \* runs asked for and not begun
          ghost,    \* records some run failed, whether a run was disturbed
          started, asks, faults
vars == <<cookie, row, map, entities, run, admin, queued, ghost, started, asks, faults>>
-----------------------------------------------------------------------------
Statuses == {"none", "mapping", "importing", "paused", "failed", "completed"}
Row == [status : Statuses, sealed : BOOLEAN, done : [Types -> Nat], cursor : [Types -> Nat]]
Copy == [status |-> "none", sealed |-> FALSE, done |-> [t \in Types |-> 0], cursor |-> [t \in Types |-> 0]]
Off == [at |-> "off", copy |-> Copy, type |-> 0, page |-> 0, pos |-> 0, done |-> 0, made |-> Nil]

TypeOK ==
  /\ cookie \in BOOLEAN /\ row \in Row
  /\ \A id \in Ids : map[id] \in {[name |-> e.name, n |-> e.n] : e \in entities} \cup HostUsers \cup {Nil}
  /\ \A r \in Runs : run[r].at \in {"off", "begin", "types", "records", "map", "check", "complete"} /\ run[r].copy \in Row
  /\ queued \in 0..MaxRuns /\ started \in 0..MaxRuns /\ asks \in 0..MaxAsks /\ faults \in 0..MaxFaults

Init ==
  /\ cookie = FALSE /\ row = Copy /\ map = [id \in Ids |-> Nil] /\ entities = {}
  /\ run = [r \in Runs |-> Off] /\ admin = [a \in Admins |-> Nil]
  /\ queued = 0 /\ started = 0 /\ asks = 0 /\ faults = 0
  /\ ghost = [failed |-> {}, disturbed |-> FALSE]
-----------------------------------------------------------------------------
(* The admin's requests.                                                    *)

\* testConnection(): credentials the source accepts, sealed into a cookie,
\* which the browser keeps for two hours.
TestConnection ==
  /\ row.status = "none" /\ ~cookie /\ cookie' = TRUE
  /\ UNCHANGED <<row, map, entities, run, admin, queued, ghost, started, asks, faults>>

Expire ==
  /\ cookie /\ cookie' = FALSE
  /\ UNCHANGED <<row, map, entities, run, admin, queued, ghost, started, asks, faults>>

\* start(): the job row, with the credentials sealed into it, then a run.
Create ==
  /\ row.status = "none" /\ cookie /\ cookie' = FALSE
  /\ row' = [row EXCEPT !.status = "mapping", !.sealed = TRUE]
  /\ queued' = 1 /\ started' = started + 1
  /\ UNCHANGED <<map, entities, run, admin, ghost, asks, faults>>

Resumable(job) == job.status \in {"paused", "failed"}

\* control() reads the job and writes the whole row back afterwards.
Ask(a) ==
  /\ admin[a] = Nil /\ asks < MaxAsks /\ row.status # "none"
  /\ admin' = [admin EXCEPT ![a] = row]
  /\ asks' = asks + 1
  /\ UNCHANGED <<cookie, row, map, entities, run, queued, ghost, started, faults>>

Pause(a) ==
  /\ admin[a] # Nil
  /\ row' = IF admin[a].status = "importing" THEN [admin[a] EXCEPT !.status = "paused"] ELSE row
  /\ admin' = [admin EXCEPT ![a] = Nil]
  /\ UNCHANGED <<cookie, map, entities, run, queued, ghost, started, asks, faults>>

Resume(a) ==
  /\ admin[a] # Nil /\ Resumable(admin[a]) /\ started < MaxRuns
  /\ row' = IF admin[a].status = "failed" THEN [admin[a] EXCEPT !.status = "mapping"] ELSE row
  /\ queued' = queued + 1 /\ started' = started + 1
  /\ admin' = [admin EXCEPT ![a] = Nil]
  /\ UNCHANGED <<cookie, map, entities, run, ghost, asks, faults>>

Cancel(a) ==
  /\ admin[a] # Nil
  /\ row' = [admin[a] EXCEPT !.status = "failed", !.sealed = FALSE]
  /\ admin' = [admin EXCEPT ![a] = Nil]
  /\ UNCHANGED <<cookie, map, entities, run, queued, ghost, started, asks, faults>>
-----------------------------------------------------------------------------
(* A run.                                                                   *)
Active == {r \in Runs : run[r].at # "off"}

\* Run(): the goroutine reads the job; a completed one is left alone.
Run(r) ==
  /\ queued > 0 /\ run[r] = Off
  /\ queued' = queued - 1
  /\ run' = IF row.status = "completed" THEN run ELSE [run EXCEPT ![r] = [Off EXCEPT !.at = "begin", !.copy = row]]
  /\ ghost' = [ghost EXCEPT !.disturbed = ghost.disturbed \/ Active # {}]
  /\ UNCHANGED <<cookie, row, map, entities, admin, started, asks, faults>>

Begin(r) ==
  /\ run[r].at = "begin"
  /\ LET copy == [run[r].copy EXCEPT !.status = "importing"] IN
       /\ row' = copy
       /\ run' = [run EXCEPT ![r] = [run[r] EXCEPT !.at = "types", !.copy = copy, !.type = 1]]
  /\ UNCHANGED <<cookie, map, entities, admin, queued, ghost, started, asks, faults>>

stopped == row.status \in {"paused", "failed"}

\* What the run hears of it: a status that cannot be read stops nothing.
Hears == {stopped} \cup {h \in {FALSE} : faults < MaxFaults}

\* Fault: a job that was stopped leaves the loop over the types, not the run.
NextTypeBreaks(r) ==
  /\ run[r].at = "types"
  /\ LET t == run[r].type IN \E stop \in Hears :
     /\ run' = [run EXCEPT ![r] =
          IF stop \/ t > Len(Source) THEN [run[r] EXCEPT !.at = "complete"]
          ELSE [run[r] EXCEPT !.at = "records", !.page = run[r].copy.cursor[t] + 1, !.pos = 1, !.done = run[r].copy.done[t]]]
     /\ faults' = IF stop = stopped THEN faults ELSE faults + 1
  /\ UNCHANGED <<cookie, row, map, entities, admin, queued, ghost, started, asks>>

\* Before each type, and before the end: the status as it is now.
NextType(r) ==
  /\ run[r].at = "types"
  /\ LET t == run[r].type IN \E stop \in Hears :
     /\ run' = [run EXCEPT ![r] =
          IF stop THEN Off
          ELSE IF t > Len(Source) THEN [run[r] EXCEPT !.at = "complete"]
          ELSE [run[r] EXCEPT !.at = "records", !.page = run[r].copy.cursor[t] + 1, !.pos = 1, !.done = run[r].copy.done[t]]]
     /\ faults' = IF stop = stopped THEN faults ELSE faults + 1
  /\ UNCHANGED <<cookie, row, map, entities, admin, queued, ghost, started, asks>>

Page(r) == Source[run[r].type][run[r].page]
Current(r) == Page(r)[run[r].pos]
Name(rec) == rec.name
resolve(id) == IF id \in Ids THEN map[id] ELSE Nil

Seen(rec) == resolve(rec.id) # Nil

\* A lookup that fails is taken for no row.  The faults there have been when a
\* record passes for one not imported yet: none where it always does.
Unseen(rec) == IF ~Seen(rec) THEN {faults} ELSE {f \in {faults + 1} : f <= MaxFaults}

Copies(rec) == {e \in entities : e.name = Name(rec)}
\* What a record may go without (a ticket its contact) is left out.
New(rec) == [name |-> Name(rec), n |-> Cardinality(Copies(rec)) + 1, on |-> IF rec.needs THEN resolve(rec.of) ELSE Nil]
Key(e) == [name |-> e.name, n |-> e.n]
Orphan(rec) == rec.needs /\ resolve(rec.of) = Nil

\* What persist() may come to after f faults: the entity the record becomes
\* (Nil: it fails) and the entities there are then.  A contact, tag, department
\* or custom field that is there already is taken as it is.
persistNamed(rec) ==
  {IF Copies(rec) # {} THEN <<Key(CHOOSE e \in Copies(rec) : TRUE), entities>>
   ELSE <<Key(New(rec)), entities \cup {New(rec)}>>}

\* A ticket is made of several statements: one that fails after the insert
\* (a tag, a field value, the timestamps) leaves the ticket and no map row.
persistNew(rec, f) ==
  {<<Key(New(rec)), entities \cup {New(rec)}>>}
  \cup IF f < MaxFaults THEN {<<Nil, entities>>, <<Nil, entities \cup {New(rec)}>>} ELSE {}

\* A reply, an attachment or a rating needs the ticket or reply it is on.
persistOn(rec, f) == IF Orphan(rec) THEN {<<Nil, entities>>} ELSE persistNew(rec, f)

persist(rec, f) ==
  CASE rec.kind = "host" -> {<<IF Name(rec) \in HostUsers THEN Name(rec) ELSE Nil, entities>>}
    [] rec.kind = "named" -> persistNamed(rec)
    [] OTHER -> persistOn(rec, f)

\* One record: without a source id it fails, in the source map it is skipped,
\* otherwise it is persisted.
Record(r) ==
  /\ run[r].at = "records" /\ run[r].pos <= Len(Page(r))
  /\ LET rec == Current(r) next == [run[r] EXCEPT !.pos = run[r].pos + 1] IN
     \/ /\ rec.id = Nil \/ Seen(rec)
        /\ run' = [run EXCEPT ![r] = next]
        /\ UNCHANGED <<entities, ghost, faults>>
     \/ /\ rec.id # Nil
        /\ \E f \in Unseen(rec) : \E out \in persist(rec, f) :
             LET fault == out[1] = Nil /\ rec.kind = "new" /\ ~Orphan(rec) IN
             /\ entities' = out[2]
             /\ run' = [run EXCEPT ![r] = IF out[1] = Nil THEN next ELSE [run[r] EXCEPT !.at = "map", !.made = out[1]]]
             /\ ghost' = [failed |-> IF out[1] = Nil THEN ghost.failed \cup {rec.id} ELSE ghost.failed,
                          disturbed |-> ghost.disturbed \/ Seen(rec) \/ fault]
             /\ faults' = IF fault THEN f + 1 ELSE f
  /\ UNCHANGED <<cookie, row, map, admin, queued, started, asks>>

\* The source map row, which the unique index refuses a second time.
Insert(r) ==
  /\ run[r].at = "map"
  /\ LET id == Current(r).id free == map[id] = Nil IN
     /\ map' = IF free THEN [map EXCEPT ![id] = run[r].made] ELSE map
     /\ ghost' = IF free THEN ghost ELSE [ghost EXCEPT !.failed = ghost.failed \cup {id}]
     /\ run' = [run EXCEPT ![r] = [run[r] EXCEPT !.at = "records", !.made = Nil, !.pos = run[r].pos + 1,
                                                 !.done = IF free THEN run[r].done + 1 ELSE run[r].done]]
  /\ UNCHANGED <<cookie, row, entities, admin, queued, started, asks, faults>>

MorePages(r) == run[r].page < Len(Source[run[r].type])
\* Where the next extract starts; the last page leaves the cursor as it was.
CursorAfter(r) == IF MorePages(r) THEN run[r].page ELSE run[r].copy.cursor[run[r].type]

\* The copy after a batch, and that of a run that fails.
Progressed(r) == LET t == run[r].type IN [run[r].copy EXCEPT !.done[t] = run[r].done, !.cursor[t] = CursorAfter(r)]
Failed(copy) == [copy EXCEPT !.status = "failed"]

\* After the batch: the counters and the cursors of the copy, nothing else.
saveProgress(r) ==
  /\ run[r].at = "records" /\ run[r].pos > Len(Page(r))
  /\ row' = [row EXCEPT !.done = Progressed(r).done, !.cursor = Progressed(r).cursor]
  /\ run' = [run EXCEPT ![r] = [run[r] EXCEPT !.at = "check", !.copy = Progressed(r)]]
  /\ UNCHANGED <<cookie, map, entities, admin, queued, ghost, started, asks, faults>>

Check(r) ==
  /\ run[r].at = "check"
  /\ \E stop \in Hears :
       /\ run' = [run EXCEPT ![r] = IF stop THEN Off
                                    ELSE IF MorePages(r) THEN [run[r] EXCEPT !.at = "records", !.page = run[r].page + 1, !.pos = 1]
                                    ELSE [run[r] EXCEPT !.at = "types", !.type = run[r].type + 1]]
       /\ faults' = IF stop = stopped THEN faults ELSE faults + 1
  /\ UNCHANGED <<cookie, row, map, entities, admin, queued, ghost, started, asks>>

Complete(r) ==
  /\ run[r].at = "complete"
  /\ row' = [run[r].copy EXCEPT !.status = "completed", !.sealed = FALSE]
  /\ run' = [run EXCEPT ![r] = Off]
  /\ UNCHANGED <<cookie, map, entities, admin, queued, ghost, started, asks, faults>>

\* The first or the last save fails, or an extract, or a saveProgress: the run
\* writes its copy as it is by then, failed.
Fail(r) ==
  /\ faults < MaxFaults
  /\ \/ /\ run[r].at = "begin" \/ (run[r].at = "records" /\ run[r].pos = 1)
        /\ row' = Failed(run[r].copy)
     \/ /\ run[r].at = "records" /\ run[r].pos > Len(Page(r))
        /\ row' = Failed(Progressed(r))
     \/ /\ run[r].at = "complete"
        /\ row' = [Failed(run[r].copy) EXCEPT !.sealed = FALSE]
  /\ run' = [run EXCEPT ![r] = Off]
  /\ faults' = faults + 1
  /\ UNCHANGED <<cookie, map, entities, admin, queued, ghost, started, asks>>

\* The process ends: its runs are gone, the row stays as it is.
Crash ==
  /\ faults < MaxFaults /\ Active # {}
  /\ run' = [r \in Runs |-> Off] /\ queued' = 0
  /\ admin' = [a \in Admins |-> Nil]
  /\ ghost' = [ghost EXCEPT !.disturbed = ghost.disturbed \/ \E r \in Runs : run[r].at = "map"]
  /\ faults' = faults + 1
  /\ UNCHANGED <<cookie, row, map, entities, started, asks>>

Next ==
  \/ TestConnection \/ Expire \/ Create \/ Crash
  \/ \E a \in Admins : Ask(a) \/ Pause(a) \/ Resume(a) \/ Cancel(a)
  \/ \E r \in Runs : \/ Run(r) \/ Begin(r) \/ NextType(r) \/ Record(r) \/ Insert(r)
                     \/ saveProgress(r) \/ Check(r) \/ Complete(r) \/ Fail(r)

Spec == Init /\ [][Next]_vars
-----------------------------------------------------------------------------
\* Whatever was paused, resumed, cancelled or overlapped, a completed import
\* has every record in its source map, or some run met it and failed it: the
\* cursors that runs and requests write over each other's never pass a page
\* nobody imported.
NothingLeftOut == row.status = "completed" => \A id \in Ids : map[id] # Nil \/ id \in ghost.failed

\* A record is created twice only where two runs overlapped, one was cut off or
\* failed between the entity and its source map row, or the source map could
\* not be read (resolve, whose error importEntityType does not look at).
CreatedOnce == ~ghost.disturbed => \A e \in entities : e.n = 1

\* A reply is on the ticket the source map has for its parent, whichever of
\* two overlapping runs created which.
OnTheMappedParent ==
  \A rec \in Records, e \in entities :
    e.name = Name(rec) /\ rec.needs => e.on # Nil /\ e.on = map[rec.of]

\* The counters that overlapping runs add to their own copies and write over
\* each other's never say more was imported than the source map has.
NeverOvercounts ==
  \A t \in Types :
    row.done[t] <= Cardinality({id \in Ids : map[id] # Nil /\ \E p \in DOMAIN Source[t] : \E k \in DOMAIN Source[t][p] : Source[t][p][k].id = id})

\* A completed job has no credentials, although pause, resume, failure and
\* completion each write back a whole row read at another time.
CompletedDropsCredentials == row.status = "completed" => ~row.sealed

ImportHolds == NothingLeftOut /\ CreatedOnce /\ OnTheMappedParent /\ NeverOvercounts /\ CompletedDropsCredentials
=============================================================================
