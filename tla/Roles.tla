---------------------------------- MODULE Roles ----------------------------------
(***************************************************************************)
(* Roles and who has them (access/store.go, handlers/roles.go).             *)
(*                                                                         *)
(* Admins serve requests concurrently: each checks what it was sent in some *)
(* reads and writes in one transaction afterwards, when the roles may have  *)
(* changed.  Foreign keys are enforced (PostgreSQL, or SQLite with          *)
(* foreign_keys on).                                                        *)
(***************************************************************************)
EXTENDS Naturals, FiniteSets

CONSTANTS Users, Ids, Slugs, System, Perms, Manage, Workers, Nil

RolesConstants ==
  /\ System \subseteq Slugs /\ Manage \in Perms /\ Nil \notin Slugs
  /\ IsFiniteSet(Ids) /\ IsFiniteSet(Slugs)

VARIABLES role,     \* escalated_roles and role_permission: [id -> row or absent]
          has,      \* role_user: pairs <<user, id>>
          job       \* what each worker has read and is about to write
vars == <<role, has, job>>
-----------------------------------------------------------------------------
None == [slug |-> Nil, system |-> FALSE, perms |-> {}]
Row == [slug : Slugs, system : BOOLEAN, perms : SUBSET Perms]
Idle == [at |-> "idle", user |-> Nil, ids |-> {}, id |-> Nil, perms |-> {}, saw |-> {}, own |-> FALSE]
Exists(id) == role[id] # None
Existing == {id \in Ids : Exists(id)}

TypeOK ==
  /\ role \in [Ids -> Row \cup {None}]
  /\ has \subseteq Users \X Ids
  /\ \A w \in Workers : job[w].at \in {"idle", "save", "destroy", "replace", "assign"}

\* After the first Seed.
Init ==
  /\ \E at \in [System -> Ids] :
       /\ \A s, t \in System : s # t => at[s] # at[t]
       /\ role = [id \in Ids |-> IF \E s \in System : at[s] = id
                                THEN [slug |-> CHOOSE s \in System : at[s] = id, system |-> TRUE, perms |-> Perms] ELSE None]
  /\ has = {}
  /\ job = [w \in Workers |-> Idle]
-----------------------------------------------------------------------------
RolesOf(user) == {id \in Ids : <<user, id>> \in has}
PermissionsOf(user) == UNION {role[id].perms : id \in RolesOf(user)}

KeepsOwn(ids, perm) == \E id \in ids : perm \in role[id].perms

WithSlug(slug) == {id \in Existing : role[id].slug = slug}

\* Seed() again, on a deploy: every system role has its permissions again.
Seed ==
  /\ role' = [id \in Ids |-> IF role[id].slug \in System THEN [role[id] EXCEPT !.system = TRUE, !.perms = Perms] ELSE role[id]]
  /\ UNCHANGED <<has, job>>

\* Update and Destroy find the role first; the permissions sent all exist.
Find(w, at, id, perms) ==
  /\ job[w].at = "idle" /\ (id # Nil => Exists(id))
  /\ job' = [job EXCEPT ![w] = [Idle EXCEPT !.at = at, !.id = id, !.perms = perms]]
  /\ UNCHANGED <<role, has>>

Store(w, perms) == Find(w, "save", Nil, perms)
Update(w, id, perms) == Find(w, "save", id, perms)
Destroy(w, id) == ~role[id].system /\ Find(w, "destroy", id, {})

\* A new role takes the first free slug made from its name; a name may be a
\* system role's.
uniqueSlug(slug) == WithSlug(slug) = {}

\* SaveRole(): the row and its permissions in one transaction, which the
\* foreign key fails when the role has gone and permissions are to be kept.
SaveRole(w) ==
  LET j == job[w] IN
  /\ j.at = "save"
  /\ job' = [job EXCEPT ![w] = Idle]
  /\ \/ j.id = Nil /\ \E id \in Ids \ Existing, slug \in Slugs :
          /\ uniqueSlug(slug)
          /\ role' = [role EXCEPT ![id] = [slug |-> slug, system |-> FALSE, perms |-> j.perms]]
     \/ j.id # Nil /\ role' = IF Exists(j.id) THEN [role EXCEPT ![j.id].perms = j.perms] ELSE role
     \/ j.id = Nil /\ Existing = Ids /\ UNCHANGED role
  /\ UNCHANGED has

\* DeleteRole(): the role, what it may and who has it, in one transaction.
DeleteRole(w) ==
  LET id == job[w].id IN
  /\ job[w].at = "destroy"
  /\ job' = [job EXCEPT ![w] = Idle]
  /\ role' = [role EXCEPT ![id] = None]
  /\ has' = {p \in has : p[2] # id}

\* UpdateUserRoles: every role sent exists; a user's own must leave them one
\* that manages roles.
UpdateUserRoles(w, admin, user, ids) ==
  /\ job[w].at = "idle"
  /\ Manage \in PermissionsOf(admin)
  /\ ids \subseteq Existing
  /\ admin = user => KeepsOwn(ids, Manage)
  /\ job' = [job EXCEPT ![w] = [Idle EXCEPT !.at = "replace", !.user = user, !.ids = ids, !.own = admin = user,
                                            !.saw = {id \in ids : Manage \in role[id].perms}]]
  /\ UNCHANGED <<role, has>>

\* A single sign-on names one role by its slug.
SyncRole(w, user, id) ==
  /\ job[w].at = "idle" /\ Exists(id)
  /\ job' = [job EXCEPT ![w] = [Idle EXCEPT !.at = "replace", !.user = user, !.ids = {id}]]
  /\ UNCHANGED <<role, has>>

\* ReplaceUserRoles(): one transaction, which fails whole when a role is gone.
ReplaceUserRoles(w) ==
  LET j == job[w]
      others(s) == {p \in s : p[1] # j.user}
      new == {<<j.user, id>> : id \in j.ids}
  IN  /\ j.at = "replace" /\ job' = [job EXCEPT ![w] = Idle]
      /\ has' = IF j.ids \subseteq Existing THEN others(has) \cup new ELSE has
      /\ UNCHANGED role

\* Assign() reads whether the user has the role and inserts; the second
\* insert of two is refused, as is that of a role that has gone.
Assign(w, user, id) ==
  /\ job[w].at = "idle" /\ Exists(id) /\ <<user, id>> \notin has
  /\ job' = [job EXCEPT ![w] = [Idle EXCEPT !.at = "assign", !.user = user, !.id = id]]
  /\ UNCHANGED <<role, has>>

Assigned(w) ==
  LET p == <<job[w].user, job[w].id>> IN
  /\ job[w].at = "assign" /\ job' = [job EXCEPT ![w] = Idle]
  /\ has' = IF Exists(p[2]) THEN has \cup {p} ELSE has
  /\ UNCHANGED role
-----------------------------------------------------------------------------
Next ==
  \/ Seed
  \/ \E w \in Workers :
       \/ SaveRole(w) \/ DeleteRole(w) \/ ReplaceUserRoles(w) \/ Assigned(w)
       \/ \E perms \in SUBSET Perms : Store(w, perms) \/ \E id \in Ids : Update(w, id, perms)
       \/ \E id \in Ids : Destroy(w, id) \/ \E u \in Users : Assign(w, u, id) \/ SyncRole(w, u, id)
       \/ \E a, u \in Users, ids \in SUBSET Ids : UpdateUserRoles(w, a, u, ids)

Spec == Init /\ [][Next]_vars
-----------------------------------------------------------------------------
\* Who has a role has one that exists, and no two roles share a slug,
\* whatever is deleted while a change is under way.
RolesHold ==
  /\ \A p \in has : Exists(p[2])
  /\ \A slug \in Slugs : Cardinality(WithSlug(slug)) <= 1

\* A user's change of their own roles leaves them one that manages roles,
\* unless those were changed or deleted while the change was under way; and no
\* system role is ever deleted.
ManagementKept ==
  /\ \A w \in Workers :
       job[w].at = "replace" /\ job[w].own /\ job'[w].at = "idle" /\ has' # has
         /\ (job[w].saw = {} \/ \E id \in job[w].saw : Manage \in role[id].perms)
       => \E id \in Ids : <<job[w].user, id>> \in has' /\ Manage \in role'[id].perms
  /\ \A id \in Ids : role[id].system => role'[id].system
=============================================================================
