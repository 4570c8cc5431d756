------------------------------- MODULE Tenancy -------------------------------
(***************************************************************************)
(* Whose rows a request reads and writes, and what it leaves in the trail: *)
(* packages/tenancy (rls.ts, repository.ts, resolve.ts, nest.ts),          *)
(* packages/context (context.ts) and packages/audit (service.ts, diff.ts). *)
(*                                                                         *)
(* A flow is a request or a job, over a pool of connections; a row is its  *)
(* tenant.  The transactions are those of Transaction, without what may    *)
(* fail in them: an error is a rollback.                                   *)
(***************************************************************************)
EXTENDS Integers, Sequences, FiniteSets, SequencesExt, FiniteSetsExt, Functions, TLC

CONSTANTS
  Flows, Tenants, Connections,
  Notes,            \* the table: its rows, and whose they are at first
  MaxStatements,    \* bound on the statements of all flows
  NoTenant, NoConnection

VARIABLES
  db,               \* the role that is connected, and the table's policies
  stage, context,   \* of each flow: where it is, and its RequestContext
  held, scopes,     \* its connection, and the scopes open on it
  setting,          \* mortar.tenant_id on each connection
  notes, trail,     \* committed
  durable,          \* the changes that were committed
  owed,             \* of each flow: a change it has not recorded
  statements,
  last              \* what the last statement touched, as whom

tenancyVars == <<db, stage, context, held, scopes, setting, notes, trail, durable, owed,
                 statements, last>>

Ids == DOMAIN Notes
Whose == Tenants \union {NoTenant}
NoChange == [n |-> 0, tenant |-> NoTenant, correlation |-> NoTenant]
Nothing == [op |-> "none", as |-> NoTenant, setting |-> NoTenant, touched |-> {}]

TypeOK ==
  /\ stage \in [Flows -> {"none", "working", "refused", "hung"}]
  /\ \A f \in Flows : context[f].tenant \in Whose /\ context[f].correlation \in Flows
  /\ held \in [Flows -> Connections \union {NoConnection}]
  /\ setting \in [Connections -> Whose]
  /\ notes \in [Ids -> Whose]
  /\ \A f \in Flows : held[f] = NoConnection <=> scopes[f] = <<>>
  /\ last.touched \subseteq Tenants

----------------------------------------------------------------------------
(* Row-level security *)

EnableRls == {"enabled", "forced", "isolation"}

\* checkRlsEffective(), which assertRlsEffective() refuses to start without.
RlsEffective(role) == ~role.superuser /\ ~role.bypassRls

Bypasses(role) == role.superuser \/ role.bypassRls \/ (role.owner /\ "forced" \notin db.policy)
Applies == "enabled" \in db.policy /\ ~Bypasses(db.role)

\* USING and WITH CHECK of the policy: an unset setting is nobody's.
Passes(tenant, bound) == Applies => tenant = bound /\ bound # NoTenant

Init ==
  /\ db \in [role : [superuser : BOOLEAN, bypassRls : BOOLEAN, owner : {TRUE}], policy : {{}, EnableRls}]
  /\ RlsEffective(db.role)
  /\ stage = [f \in Flows |-> "none"]
  /\ context = [f \in Flows |-> [tenant |-> NoTenant, correlation |-> f]]
  /\ held = [f \in Flows |-> NoConnection] /\ scopes = [f \in Flows |-> <<>>]
  /\ setting = [c \in Connections |-> NoTenant]
  /\ notes = Notes /\ trail = {} /\ durable = {}
  /\ owed = [f \in Flows |-> NoChange]
  /\ statements = 0 /\ last = Nothing

----------------------------------------------------------------------------
(* A request: its context, its tenant, its route *)

\* resolveTenant(): the first resolver that answers, or throws.
ResolveTenant(answers) ==
  LET said == SelectSeq(answers, LAMBDA a : a # NoTenant)
  IN  IF said = <<>> THEN NoTenant ELSE said[1]

\* TenantGuard.
CanActivate(tenant, allowNoTenant) == allowNoTenant \/ tenant # NoTenant

\* The middleware, then the guard: what a resolver throws never comes to next().
Request(f, answers, allowNoTenant) ==
  /\ stage[f] = "none"
  /\ LET tenant == ResolveTenant(answers) IN
       IF tenant = "throws"
       THEN stage' = [stage EXCEPT ![f] = "hung"] /\ UNCHANGED context
       ELSE /\ stage' = [stage EXCEPT ![f] = IF CanActivate(tenant, allowNoTenant) THEN "working" ELSE "refused"]
            /\ context' = [context EXCEPT ![f].tenant = tenant]
  /\ UNCHANGED <<db, held, scopes, setting, notes, trail, durable, owed, statements, last>>

RequireTenantId(f) == context[f].tenant # NoTenant

\* runInChildContext(): what the parent's context says now, and the work that
\* caused it.
RunInChildContext(f, child) ==
  /\ stage[f] \in {"none", "working"} /\ f # child /\ stage[child] = "none"
  /\ stage' = [stage EXCEPT ![child] = "working"]
  /\ context' = [context EXCEPT ![child] = context[f]]
  /\ UNCHANGED <<db, held, scopes, setting, notes, trail, durable, owed, statements, last>>

----------------------------------------------------------------------------
(* Transactions *)

Scope == [writes |-> <<>>, changes |-> {}, entries |-> {}]
Free(c) == \A f \in Flows : held[f] # c

\* bindTenantToTransaction(): until the end of the transaction.
Bind(c, tenant) == setting' = [setting EXCEPT ![c] = tenant]
Unbound(c) == [setting EXCEPT ![c] = NoTenant]

\* runInTransaction(), and runInTenantTransaction() of the tenant that is named
\* or the context's: onBegin is for the outermost, and a scope inside it is a
\* savepoint of whatever is bound.
Begin(f, bound, named) ==
  LET tenant == IF named # NoTenant THEN named ELSE context[f].tenant IN
  /\ stage[f] = "working" /\ owed[f] = NoChange /\ Len(scopes[f]) < 2
  /\ bound /\ named = NoTenant => RequireTenantId(f)
  /\ \/ /\ held[f] = NoConnection
        /\ \E c \in Connections :
             /\ Free(c)
             /\ held' = [held EXCEPT ![f] = c]
             /\ IF bound THEN Bind(c, tenant) ELSE UNCHANGED setting
     \/ held[f] # NoConnection /\ UNCHANGED <<held, setting>>
  /\ scopes' = [scopes EXCEPT ![f] = Append(@, Scope)]
  /\ UNCHANGED <<db, stage, context, notes, trail, durable, owed, statements, last>>

\* The innermost scope ends: its work is its parent's, or durable, or gone.
End(f, works) ==
  LET inner == Last(scopes[f])
      outer == Front(scopes[f])
  IN  /\ scopes[f] # <<>>
      /\ owed' = [owed EXCEPT ![f] = NoChange]
      /\ IF outer = <<>>
         THEN /\ held' = [held EXCEPT ![f] = NoConnection]
              /\ setting' = Unbound(held[f])
              /\ scopes' = [scopes EXCEPT ![f] = <<>>]
              /\ notes' = IF works THEN inner.writes @@ notes ELSE notes
              /\ durable' = IF works THEN durable \union inner.changes ELSE durable
              /\ trail' = IF works THEN trail \union inner.entries ELSE trail
         ELSE /\ scopes' = [scopes EXCEPT ![f] =
                   IF ~works THEN outer
                   ELSE Append(Front(outer),
                               [writes |-> inner.writes @@ Last(outer).writes,
                                changes |-> inner.changes \union Last(outer).changes,
                                entries |-> inner.entries \union Last(outer).entries])]
              /\ UNCHANGED <<held, setting, notes, durable, trail>>
      /\ UNCHANGED <<db, stage, context, statements, last>>

----------------------------------------------------------------------------
(* Statements *)

\* resolveManager(): on the transaction's connection, or on any of the pool's.
OnConnection(f, c) == IF held[f] # NoConnection THEN c = held[f] ELSE Free(c)
View(f) == FoldLeft(LAMBDA seen, scope : scope.writes @@ seen, notes, scopes[f])
Unlocked(f, id) ==
  \A g \in Flows \ {f} : \A i \in DOMAIN scopes[g] : id \notin DOMAIN scopes[g][i].writes
Visible(f, c) == {id \in Ids : View(f)[id] # NoTenant /\ Passes(View(f)[id], setting[c])}

Stating(f, op, c, touched) ==
  /\ statements' = statements + 1
  /\ last' = [op |-> op, as |-> context[f].tenant, setting |-> setting[c], touched |-> touched]
  /\ UNCHANGED <<db, stage, context, held, setting>>

\* The scope that is open, and what becomes of it.
Open(f) == Last(scopes[f])
Reopened(f, scope) == scopes' = [scopes EXCEPT ![f] = Append(Front(scopes[f]), scope)]

\* Written in the scope that is open, or at once.
Write(f, id, tenant) ==
  LET change == [n |-> statements + 1, tenant |-> context[f].tenant, correlation |-> context[f].correlation] IN
  /\ Unlocked(f, id)
  /\ owed' = [owed EXCEPT ![f] = change]
  /\ IF scopes[f] = <<>>
     THEN notes' = [notes EXCEPT ![id] = tenant] /\ durable' = durable \union {change} /\ UNCHANGED scopes
     ELSE /\ Reopened(f, [writes |-> (id :> tenant) @@ Open(f).writes,
                          changes |-> Open(f).changes \union {change}, entries |-> Open(f).entries])
          /\ UNCHANGED <<notes, durable>>
  /\ UNCHANGED trail

\* scopedWhere(): the context's tenant, whatever is asked for.
ScopedWhere(f, asked) == context[f].tenant

Owned(f, c, asked) == {id \in Visible(f, c) : View(f)[id] = ScopedWhere(f, asked)}

\* find(), findOne(), count() and createQueryBuilder().
Find(f, c, asked) ==
  /\ RequireTenantId(f)
  /\ Stating(f, "find", c, {View(f)[id] : id \in Owned(f, c, asked)})
  /\ UNCHANGED <<scopes, notes, trail, durable, owed>>

\* unscoped(), raw SQL, another library.
Raw(f, c) ==
  /\ Stating(f, "raw", c, {View(f)[id] : id \in Visible(f, c)})
  /\ UNCHANGED <<scopes, notes, trail, durable, owed>>

\* save() of a row that names no tenant or its own: TypeORM looks for it by its
\* id, and updates what it finds or inserts.  A row it does not see is in the
\* way of the insert.
Save(f, c, id) ==
  LET own == context[f].tenant
      found == id \in Visible(f, c)
  IN  /\ RequireTenantId(f)
      /\ found \/ View(f)[id] = NoTenant
      /\ Passes(own, setting[c])
      /\ Stating(f, "save", c, IF found THEN {View(f)[id]} ELSE {})
      /\ Write(f, id, own)

\* update() and delete(): a tenantId among the changes is dropped.
Update(f, c, id, asked) ==
  /\ RequireTenantId(f) /\ id \in Owned(f, c, asked)
  /\ Stating(f, "update", c, {View(f)[id]})
  /\ Write(f, id, View(f)[id])
Delete(f, c, id, asked) ==
  /\ RequireTenantId(f) /\ id \in Owned(f, c, asked)
  /\ Stating(f, "delete", c, {View(f)[id]})
  /\ Write(f, id, NoTenant)

\* record(): through the active transaction.
Trailed(f, entry) ==
  IF scopes[f] = <<>> THEN trail' = trail \union {entry} /\ UNCHANGED scopes
  ELSE /\ Reopened(f, [writes |-> Open(f).writes, changes |-> Open(f).changes,
                       entries |-> Open(f).entries \union {entry}])
       /\ UNCHANGED trail

\* A flow records what it changed, as its context says, before it goes on.
Record(f) ==
  /\ owed[f] # NoChange
  /\ Trailed(f, [n |-> owed[f].n, tenant |-> context[f].tenant, correlation |-> context[f].correlation])
  /\ owed' = [owed EXCEPT ![f] = NoChange]
  /\ UNCHANGED <<db, stage, context, held, setting, notes, durable, statements, last>>

Next ==
  \E f \in Flows :
    \/ Record(f)
    \/ \E answers \in [1..2 -> Whose \union {"throws"}], allow \in BOOLEAN : Request(f, answers, allow)
    \/ \E child \in Flows : RunInChildContext(f, child)
    \/ \E bound \in BOOLEAN, named \in Whose : (~bound => named = NoTenant) /\ Begin(f, bound, named)
    \/ \E works \in BOOLEAN : End(f, works)
    \/ \E c \in Connections :
         /\ stage[f] = "working" /\ owed[f] = NoChange /\ OnConnection(f, c)
         /\ statements < MaxStatements
         /\ \/ Raw(f, c) \/ \E id \in Ids : Save(f, c, id)
            \/ \E asked \in Whose \ {context[f].tenant} :
                 Find(f, c, asked) \/ \E id \in Ids : Update(f, c, id, asked) \/ Delete(f, c, id, asked)

Spec == Init /\ [][Next]_tenancyVars

----------------------------------------------------------------------------
(* What an entry of the trail says *)

\* computeChanges(), of records whose values are never `undefined' but absent.
ComputeChanges(before, after, redact, ignore) ==
  LET ValueOf(r, key) == IF key \in DOMAIN r THEN {r[key]} ELSE {}
      Said(value, key) == IF key \in redact /\ value # {} THEN {"[redacted]"} ELSE value
      changed == {key \in (DOMAIN before \union DOMAIN after) \ ignore : ValueOf(before, key) # ValueOf(after, key)}
  IN  [key \in changed |-> [from |-> Said(ValueOf(before, key), key), to |-> Said(ValueOf(after, key), key)]]

\* query(): newest first, those of one moment by their insertion, a page of it.
Newer(a, b) == a.occurredAt > b.occurredAt \/ (a.occurredAt = b.occurredAt /\ a.seq > b.seq)
Query(log, filter) ==
  LET kept == {e \in log : /\ filter.tenant = NoTenant \/ e.tenant = filter.tenant
                           /\ filter.from <= e.occurredAt /\ e.occurredAt <= filter.to}
      ordered == SetToSortSeq(kept, Newer)
      limit == IF filter.limit = 0 THEN 100 ELSE Min({filter.limit, 1000})
  IN  SubSeq(ordered, filter.offset + 1, Min({filter.offset + limit, Len(ordered)}))

\* purgeOlderThan(): a batch, until one is not full.
PurgeOlderThan(log, olderThan, tenant, batchSize) ==
  LET old(rows) == {e \in rows : e.occurredAt < olderThan /\ (tenant = NoTenant \/ e.tenant = tenant)}
      batch(rows) == IF Cardinality(old(rows)) <= batchSize THEN old(rows)
                     ELSE CHOOSE b \in SUBSET old(rows) : Cardinality(b) = batchSize
      after[n \in 0..Cardinality(log)] ==
        IF n = 0 THEN [rows |-> log, goesOn |-> TRUE]
        ELSE LET before == after[n - 1]
             IN  IF ~before.goesOn THEN before
                 ELSE [rows |-> before.rows \ batch(before.rows),
                       goesOn |-> Cardinality(batch(before.rows)) = batchSize]
  IN  after[Cardinality(log)].rows

----------------------------------------------------------------------------
\* "A single missed WHERE in a multi-tenant system is a data breach": what goes
\* through a repository touches the rows of its context's tenant and no other,
\* save() included where the policies hold; there, whatever goes round the
\* repository touches what is bound to the transaction, and outside one nothing.
\* No connection comes back to the pool bound.  And what the trail says happened
\* was committed, by the tenant and the work it names.
TenantsApart ==
  /\ last.op \in {"find", "update", "delete"} => last.touched \subseteq {last.as}
  /\ Applies => last.touched \subseteq {last.setting}
  /\ db.policy # {} => last.touched = {} \/ last.setting # NoTenant
  /\ db.policy # {} /\ last.op = "save" => last.touched \subseteq {last.as}
  /\ \A c \in Connections : Free(c) => setting[c] = NoTenant
  /\ trail \subseteq durable

\* Every key whose value is another, and none that is ignored, is among the
\* changes, and no value of a key that is redacted.
SaysWhatChanged(before, after, redact, ignore) ==
  LET changes == ComputeChanges(before, after, redact, ignore)
      Has(r, key) == key \in DOMAIN r
  IN  /\ DOMAIN changes \intersect ignore = {}
      /\ \A key \in (DOMAIN before \union DOMAIN after) \ ignore :
           key \in DOMAIN changes <=> ~(Has(before, key) /\ Has(after, key) /\ before[key] = after[key])
      /\ \A key \in DOMAIN changes :
           /\ key \in redact => changes[key].from \union changes[key].to \subseteq {"[redacted]"}
           /\ changes[key].from = {} <=> ~Has(before, key)
           /\ key \notin redact => changes[key].from # changes[key].to

\* Pages one after the other are the whole trail, in its order, and a purge
\* leaves nothing older and takes nothing else.
TrailIsWhole(log, size, olderThan, tenant) ==
  LET All(limit, offset) == [tenant |-> tenant, from |-> 0, to |-> 9, limit |-> limit, offset |-> offset]
      whole == Query(log, All(0, 0))
      pages == [i \in 1..(Len(whole) \div size + 1) |-> Query(log, All(size, (i - 1) * size))]
      left == PurgeOlderThan(log, olderThan, tenant, size)
  IN  /\ FlattenSeq(pages) = whole
      /\ ToSet(whole) = {e \in log : tenant \in {NoTenant, e.tenant}}
      /\ left = {e \in log : e.occurredAt >= olderThan \/ tenant \notin {NoTenant, e.tenant}}
=============================================================================
