------------------------------- MODULE Roles -------------------------------
(***************************************************************************)
(* packages/auth role.service.ts and the memberships of user.service.ts:   *)
(* the roles of the system and of one tenant, one person's membership of   *)
(* it, and the roles that grants.  Every statement commits by itself, and  *)
(* the tables' keys decide between calls that meet.                        *)
(***************************************************************************)
EXTENDS Naturals

CONSTANTS
  Callers,         \* calls that may be under way at once
  Keys,            \* of roles
  Shipped,         \* those of them that are the project's
  MaxRoles,        \* bound on the roles ever made
  MaxMembers,      \* and on the memberships
  NoRole, NoMember \* a row not there

VARIABLES
  role,            \* mortar_role, by id
  member,          \* the id of the membership, or NoMember
  grants,          \* mortar_membership_role: [member, role]
  roles, members,  \* ids given so far
  caller,          \* where each call is
  meant,           \* the roles the membership has been given, and not lost
  apart            \* no call ever met another, or stopped half way

roleVars == <<role, member, grants, roles, members, caller, meant, apart>>

Ids == 1..MaxRoles
Members == 1..MaxMembers
Role == [scope : {"system", "tenant"}, key : Keys]
Idle == [op |-> "idle"]

TypeOK ==
  /\ role \in [Ids -> Role \union {NoRole}]
  /\ member \in Members \union {NoMember}
  /\ grants \subseteq [member : Members, role : Ids]
  /\ roles \in 0..MaxRoles /\ members \in 0..MaxMembers
  /\ meant \subseteq Ids /\ apart \in BOOLEAN

Init ==
  /\ role = [i \in Ids |-> NoRole] /\ member = NoMember /\ grants = {}
  /\ roles = 0 /\ members = 0 /\ caller = [c \in Callers |-> Idle]
  /\ meant = {} /\ apart = TRUE

At(c, op, step) == caller[c].op = op /\ caller[c].step = step
Goes(c, to) == caller' = [caller EXCEPT ![c] = to]
Stored == {i \in Ids : role[i] # NoRole}
Held == {g.role : g \in grants}

----------------------------------------------------------------------------
(* What the tables hold *)

With(scope, key) == {i \in Stored : role[i] = [scope |-> scope, key |-> key]}

\* A role may be inserted where its key is not taken in its scope: the index
\* takes NULL for a tenant of its own, where UNIQUE(tenant_id, key) would not.
Insertable(row) == With(row.scope, row.key) = {}

\* ON DELETE RESTRICT: "deleting a role that people still hold would silently
\* strip their access".
Deletable(i) == i \notin Held

\* The references of a grant.
Grantable(m, ids) == member = m /\ ids \subseteq Stored

----------------------------------------------------------------------------
\* findByKey(): the tenant's own before the system's.
FindByKey(key) ==
  IF With("tenant", key) # {} THEN With("tenant", key) ELSE With("system", key)

\* resolveKeys(): a key that names no role is refused.
Resolvable(keys) == \A key \in keys : FindByKey(key) # {}
ResolveKeys(keys) == UNION {FindByKey(key) : key \in keys}

----------------------------------------------------------------------------
\* What the calls have meant, as long as they follow one another.
Means(ids) == meant' = IF apart' THEN ids ELSE {}

\* A call begins; one that meets another is told of.
Begins(c, call) ==
  /\ caller[c] = Idle
  /\ Goes(c, call)
  /\ apart' = (apart /\ \A d \in Callers : caller[d] = Idle)
Keeps == UNCHANGED <<role, member, grants, roles, members>> /\ Means(meant)

\* It is refused, fails, or dies with its process: with `done`, at its end.
Ends(c, done) ==
  /\ Goes(c, Idle)
  /\ apart' = (apart /\ done)

Stop(c) ==
  /\ caller[c] # Idle
  /\ Ends(c, FALSE)
  /\ Keeps

\* syncSystemRoles(), one definition of its list, and createTenantRole(), which
\* refuses a key that either scope has.
Define(c, scope, key) ==
  /\ scope = "system" => key \in Shipped
  /\ With(scope, key) = {} /\ (scope = "tenant" => With("system", key) = {})
  /\ Begins(c, [op |-> "define", step |-> "insert", row |-> [scope |-> scope, key |-> key]])
  /\ Keeps

Insert(c) ==
  /\ At(c, "define", "insert") /\ roles < MaxRoles
  /\ Insertable(caller[c].row)
  /\ role' = [role EXCEPT ![roles + 1] = caller[c].row]
  /\ roles' = roles + 1
  /\ Ends(c, TRUE)
  /\ UNCHANGED <<member, grants, members, meant>>

\* updateTenantRole() saves the row it read: one that has been deleted is
\* inserted again, as it was, where its key is still free.
Change(c, i) ==
  /\ i \in Stored /\ role[i].scope = "tenant"
  /\ Begins(c, [op |-> "change", step |-> "save", id |-> i, row |-> role[i]])
  /\ Keeps

SaveChange(c) ==
  /\ At(c, "change", "save")
  /\ caller[c].id \in Stored \/ Insertable(caller[c].row)
  /\ role' = [role EXCEPT ![caller[c].id] = caller[c].row]
  /\ Ends(c, TRUE)
  /\ UNCHANGED <<member, grants, roles, members, meant>>

\* deleteTenantRole(): counts who holds it, and deletes it.
Retire(c, i) ==
  /\ i \in Stored /\ role[i].scope = "tenant" /\ i \notin Held
  /\ Begins(c, [op |-> "retire", step |-> "delete", id |-> i])
  /\ Keeps

Delete(c) ==
  /\ At(c, "retire", "delete")
  /\ Deletable(caller[c].id)
  /\ role' = [role EXCEPT ![caller[c].id] = NoRole]
  /\ Ends(c, TRUE)
  /\ UNCHANGED <<member, grants, roles, members, meant>>

\* addMembership(): the one there is, or a new one, and then its roles.
Add(c, keys, status) ==
  /\ Begins(c, IF member = NoMember THEN [op |-> "set", step |-> "join", keys |-> keys]
               ELSE [op |-> "set", step |-> IF status THEN "save" ELSE "resolve",
                     keys |-> keys, of |-> member])
  /\ Keeps

\* One membership to a person and a tenant, by uq_membership_user_tenant.
Join(c) ==
  /\ At(c, "set", "join") /\ member = NoMember /\ members < MaxMembers
  /\ member' = members + 1 /\ members' = members + 1
  /\ Goes(c, [op |-> "set", step |-> "resolve", keys |-> caller[c].keys, of |-> members + 1])
  /\ UNCHANGED <<role, grants, roles, meant, apart>>

\* One that is there is saved with the status asked for; one that was removed
\* since is inserted again, if there is no other.
SaveMember(c) ==
  /\ At(c, "set", "save") /\ member \in {caller[c].of, NoMember}
  /\ member' = caller[c].of
  /\ Goes(c, [caller[c] EXCEPT !.step = "resolve"])
  /\ UNCHANGED <<role, grants, roles, members, meant, apart>>

\* setRoles(): "these are the roles now".  The keys are looked up ...
SetRoles(c, keys) ==
  /\ member # NoMember
  /\ Begins(c, [op |-> "set", step |-> "resolve", keys |-> keys, of |-> member])
  /\ Keeps

Resolve(c) ==
  /\ At(c, "set", "resolve")
  /\ member = caller[c].of /\ Resolvable(caller[c].keys)
  /\ Goes(c, [op |-> "set", step |-> "clear", of |-> member, ids |-> ResolveKeys(caller[c].keys)])
  /\ UNCHANGED <<role, member, grants, roles, members, meant, apart>>

\* ... what was granted is deleted ...
Clear(c) ==
  /\ At(c, "set", "clear")
  /\ grants' = {g \in grants : g.member # caller[c].of}
  /\ Goes(c, [caller[c] EXCEPT !.step = "give"])
  /\ UNCHANGED <<role, member, roles, members, meant, apart>>

\* ... and what was asked for is inserted.
Give(c) ==
  /\ At(c, "set", "give")
  /\ caller[c].ids = {} \/ Grantable(caller[c].of, caller[c].ids)
  /\ grants' = grants \union [member : {caller[c].of}, role : caller[c].ids]
  /\ Ends(c, TRUE)
  /\ Means(caller[c].ids)
  /\ UNCHANGED <<role, member, roles, members>>

\* grant(): ON CONFLICT DO NOTHING.
Grant(c, key) ==
  /\ member # NoMember /\ Resolvable({key})
  /\ Begins(c, [op |-> "grant", step |-> "insert", of |-> member, ids |-> FindByKey(key)])
  /\ Keeps

InsertGrant(c) ==
  /\ At(c, "grant", "insert") /\ Grantable(caller[c].of, caller[c].ids)
  /\ grants' = grants \union [member : {caller[c].of}, role : caller[c].ids]
  /\ Ends(c, TRUE)
  /\ Means(meant \union caller[c].ids)
  /\ UNCHANGED <<role, member, roles, members>>

\* revoke(): of the role its key names now; what is meant is every one of it.
Revoke(c, key) ==
  /\ member # NoMember
  /\ Begins(c, [op |-> "revoke", step |-> "delete", of |-> member, ids |-> FindByKey(key), key |-> key])
  /\ Keeps

DeleteGrant(c) ==
  /\ At(c, "revoke", "delete")
  /\ grants' = {g \in grants : ~(g.member = caller[c].of /\ g.role \in caller[c].ids)}
  /\ Ends(c, TRUE)
  /\ Means({i \in meant : role[i].key # caller[c].key})
  /\ UNCHANGED <<role, member, roles, members>>

\* removeMembership(): ON DELETE CASCADE.
Remove ==
  /\ member # NoMember
  /\ member' = NoMember
  /\ grants' = {g \in grants : g.member # member}
  /\ apart' = (apart /\ \A c \in Callers : caller[c] = Idle)
  /\ Means({})
  /\ UNCHANGED <<role, roles, members, caller>>

Next ==
  \/ Remove
  \/ \E c \in Callers :
       \/ Stop(c) \/ Insert(c) \/ SaveChange(c) \/ Delete(c) \/ Join(c) \/ SaveMember(c)
       \/ Resolve(c) \/ Clear(c) \/ Give(c) \/ InsertGrant(c) \/ DeleteGrant(c)
       \/ \E i \in Ids : Change(c, i) \/ Retire(c, i)
       \/ \E key \in Keys : \/ Grant(c, key) \/ Revoke(c, key)
                            \/ \E scope \in {"system", "tenant"} : Define(c, scope, key)
       \/ \E keys \in SUBSET Keys :
            SetRoles(c, keys) \/ \E status \in BOOLEAN : Add(c, keys, status)

Spec == Init /\ [][Next]_roleVars

----------------------------------------------------------------------------
\* What a member may do is what roles that are there permit: nobody holds one
\* that was deleted, or in a tenant they left, and no key names two roles of
\* one scope, however calls meet; and where they followed one another, the
\* roles held are those given, whichever roles came to share a key.
GrantsAreMeant ==
  /\ \A g \in grants : g.member = member /\ g.role \in Stored
  /\ \A i, j \in Stored : role[i] = role[j] => i = j
  /\ apart /\ (\A c \in Callers : caller[c] = Idle) => Held = meant
=============================================================================
