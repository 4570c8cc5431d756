----------------------------- MODULE AuthTokens ------------------------------
(***************************************************************************)
(* packages/auth.  session.service.ts: one session of an account.  A       *)
(* request keeps the row it validated, and may save it much later.         *)
(* token.service.ts: the tokens of one type mailed to one address.  A      *)
(* token is spent in the transaction of the work it is for.                *)
(***************************************************************************)
EXTENDS Naturals, FiniteSets

CONSTANTS
  Requests,        \* requests that may hold the session at once
  IdleTtl, Touch,  \* idleTtlMs and touchIntervalMs
  Ttl,             \* absoluteTtlMs, and the bound on time
  MaxTokens,       \* bound on the session's tokens
  NoSession,       \* before it is created, and after it is purged
  Mails,           \* calls for mailed tokens that may be under way at once
  MaxMailed        \* bound on those tokens

VARIABLES
  session,         \* the row of mortar_session
  holding,         \* what each request holds of it, and is about to write
  now, tokens,     \* time, and tokens issued
  replaced,        \* those of them that a rotation took the place of
  ended,           \* revoked or purged while no request held it
  mailed,          \* the rows of mortar_auth_token, by number
  expired,         \* those past their time
  mail,            \* where each issue() and consumeWith() is
  superseded,      \* tokens there were when a later one was asked for, and sent
  worked           \* how often the work a token is for was committed

sessionVars == <<session, holding, now, tokens, replaced, ended>>

Session == [token: 1..MaxTokens, seen: 0..Ttl, revoked: BOOLEAN]
Nothing == [step |-> "none"]

TypeOK ==
  /\ session \in Session \union {NoSession}
  /\ DOMAIN holding = Requests
  /\ \A r \in Requests : holding[r].step # "none" => holding[r].row \in Session
  /\ now \in 0..Ttl+1 /\ tokens \in 0..MaxTokens
  /\ replaced \subseteq 1..tokens /\ ended \in BOOLEAN

Init ==
  /\ session = NoSession /\ holding = [r \in Requests |-> Nothing]
  /\ now = 0 /\ tokens = 0 /\ replaced = {} /\ ended = FALSE

Holds(r, to) == holding' = [holding EXCEPT ![r] = to]
At(r, step) == holding[r].step = step
Held == \E r \in Requests : ~At(r, "none")

----------------------------------------------------------------------------
Tick ==
  /\ now <= Ttl
  /\ now' = now + 1
  /\ UNCHANGED <<session, holding, tokens, replaced, ended>>

\* create(): signing in.
Create ==
  /\ session = NoSession /\ tokens = 0 /\ now = 0
  /\ session' = [token |-> 1, seen |-> 0, revoked |-> FALSE]
  /\ tokens' = 1
  /\ UNCHANGED <<holding, now, replaced, ended>>

Live(row) == ~row.revoked /\ now < Ttl /\ now - row.seen <= IdleTtl

\* validate() finds the row by its token, and touches it at times.
Validate(r) ==
  /\ At(r, "none") /\ session # NoSession /\ Live(session)
  /\ Holds(r, IF now - session.seen > Touch
              THEN [step |-> "touching", row |-> [session EXCEPT !.seen = now]]
              ELSE [step |-> "held", row |-> session])
  /\ UNCHANGED <<session, now, tokens, replaced, ended>>

\* Mutant of Touched: the whole row saved, as it was read.
TouchedWhole(row, read) == read

\* An UPDATE of one column.
Touched(row, read) == [row EXCEPT !.seen = read.seen]

TouchSeen(r) ==
  /\ At(r, "touching")
  /\ session' = IF session = NoSession THEN NoSession ELSE Touched(session, holding[r].row)
  /\ Holds(r, [step |-> "held", row |-> holding[r].row])
  /\ UNCHANGED <<now, tokens, replaced, ended>>

\* rotate() and switchTenant(): save() reads the row again, to find out what
\* the copy changes in it, and whether it is to be inserted.
Rotate(r) ==
  /\ At(r, "held") /\ tokens < MaxTokens /\ now <= Ttl
  /\ tokens' = tokens + 1
  /\ Holds(r, [step |-> "saving", row |-> [holding[r].row EXCEPT !.token = tokens + 1, !.seen = now],
               insert |-> session = NoSession,
               revives |-> session # NoSession /\ session.revoked # holding[r].row.revoked])
  /\ UNCHANGED <<session, now, replaced, ended>>

\* What differed then is written now: to no row, if that has gone; and an
\* INSERT beside one is an error.
Save(r) ==
  /\ At(r, "saving")
  /\ LET row == holding[r].row IN
     IF (session = NoSession) # holding[r].insert
     THEN UNCHANGED <<session, replaced>>
     ELSE IF holding[r].insert
     THEN session' = row /\ UNCHANGED replaced
     ELSE /\ session' = [row EXCEPT !.revoked = IF holding[r].revives THEN @ ELSE session.revoked]
          /\ replaced' = replaced \union {session.token}
  /\ Holds(r, [step |-> "held", row |-> holding[r].row])
  /\ UNCHANGED <<now, tokens, ended>>

\* The request is answered, or dies.
Leave(r) ==
  /\ ~At(r, "none")
  /\ Holds(r, Nothing)
  /\ UNCHANGED <<session, now, tokens, replaced, ended>>

\* revoke(), revokeAllForUser() and revokeEvery().
Revoke ==
  /\ session # NoSession /\ ~session.revoked
  /\ session' = [session EXCEPT !.revoked = TRUE]
  /\ ended' = ~Held
  /\ UNCHANGED <<holding, now, tokens, replaced>>

PurgeExpired ==
  /\ session # NoSession /\ now > Ttl
  /\ session' = NoSession
  /\ ended' = (ended \/ ~Held)
  /\ UNCHANGED <<holding, now, tokens, replaced>>

Next ==
  \/ Tick \/ Create \/ Revoke \/ PurgeExpired
  \/ \E r \in Requests :
       Validate(r) \/ TouchSeen(r) \/ Rotate(r) \/ Save(r) \/ Leave(r)

Spec == Init /\ [][Next]_sessionVars

----------------------------------------------------------------------------
\* A token that a rotation took the place of opens nothing again, "keeping the
\* same token across a privilege boundary is session fixation", and a session
\* that was revoked stays so, whatever requests of earlier and later do at the
\* same time -- but for one that held its row when it was revoked.
EndedStaysEnded ==
  session # NoSession =>
    /\ session.token \notin replaced
    /\ ended => session.revoked

----------------------------------------------------------------------------
(* The tokens that are mailed *)

mailVars == <<mailed, expired, mail, superseded, worked>>

Numbers == 1..MaxMailed
Unused == [step |-> "idle"]

MailTyped ==
  /\ mailed \in [Numbers -> {"none", "live", "spent", "purged"}]
  /\ expired \subseteq Numbers /\ superseded \subseteq Numbers
  /\ DOMAIN mail = Mails
  /\ worked \in [Numbers -> Nat]

MailInit ==
  /\ mailed = [t \in Numbers |-> "none"] /\ expired = {}
  /\ mail = [m \in Mails |-> Unused]
  /\ superseded = {} /\ worked = [t \in Numbers |-> 0]

Doing(m, step) == mail[m].step = step
Goes(m, to) == mail' = [mail EXCEPT ![m] = to]
InState(state) == {t \in Numbers : mailed[t] = state}
Locked(t) == \E m \in Mails : Doing(m, "work") /\ mail[m].token = t

----------------------------------------------------------------------------
\* issue(): one UPDATE voids those outstanding ...
Issue(m) ==
  /\ Doing(m, "idle")
  /\ Goes(m, [step |-> "void", tokens |-> InState("live")])
  /\ UNCHANGED <<mailed, expired, superseded, worked>>

Void(issued) ==
  mailed' = [t \in Numbers |-> IF t \in issued /\ mailed[t] = "live" THEN "spent" ELSE mailed[t]]

\* ... waiting for the transactions that have spent one, to see how they end ...
VoidThem(m) ==
  /\ Doing(m, "void")
  /\ \A t \in mail[m].tokens : ~Locked(t)
  /\ Void(mail[m].tokens)
  /\ superseded' = superseded \union mail[m].tokens
  /\ Goes(m, [step |-> "insert"])
  /\ UNCHANGED <<expired, worked>>

\* ... and the new one is inserted.
Insert(m) ==
  /\ Doing(m, "insert")
  /\ \E t \in InState("none") :
       /\ \A u \in InState("none") : t <= u
       /\ mailed' = [mailed EXCEPT ![t] = "live"]
  /\ Goes(m, Unused)
  /\ UNCHANGED <<expired, superseded, worked>>

\* consume(): one UPDATE ... WHERE consumed_at IS NULL, which waits for another.
CanSpend(t) == mailed[t] = "live" /\ t \notin expired /\ ~Locked(t)

Consume(m, t) ==
  /\ Doing(m, "idle") /\ CanSpend(t)
  /\ Goes(m, [step |-> "work", token |-> t])
  /\ UNCHANGED <<mailed, expired, superseded, worked>>

\* consumeWith(): the token and the work commit together, or neither does.
Commit(m) ==
  /\ Doing(m, "work")
  /\ mailed' = [mailed EXCEPT ![mail[m].token] = "spent"]
  /\ worked' = [worked EXCEPT ![mail[m].token] = @ + 1]
  /\ Goes(m, Unused)
  /\ UNCHANGED <<expired, superseded>>

\* The work fails, or the process dies.
Abort(m) ==
  /\ ~Doing(m, "idle")
  /\ Goes(m, Unused)
  /\ UNCHANGED <<mailed, expired, superseded, worked>>

\* revokeAll() and revokeEvery().
RevokeAll ==
  /\ \A t \in Numbers : ~Locked(t)
  /\ Void(Numbers)
  /\ UNCHANGED <<expired, mail, superseded, worked>>

Expire(t) ==
  /\ mailed[t] \in {"live", "spent"} /\ t \notin expired
  /\ expired' = expired \union {t}
  /\ UNCHANGED <<mailed, mail, superseded, worked>>

PurgeTokens ==
  /\ \A t \in expired : ~Locked(t)
  /\ mailed' = [t \in Numbers |-> IF t \in expired THEN "purged" ELSE mailed[t]]
  /\ UNCHANGED <<expired, mail, superseded, worked>>

MailNext ==
  \/ RevokeAll \/ PurgeTokens
  \/ \E t \in Numbers : Expire(t)
  \/ \E m \in Mails : \/ Issue(m) \/ VoidThem(m) \/ Insert(m) \/ Commit(m) \/ Abort(m)
                      \/ \E t \in Numbers : Consume(m, t)

MailSpec == MailInit /\ [][MailNext]_mailVars

----------------------------------------------------------------------------
\* The work a token is for is done at most once, also for "a double-clicked
\* link", and not at all once a later token has been sent in its place, also
\* where it was being spent at that moment by work that then failed.
SpentOnce ==
  /\ \A t \in Numbers : worked[t] <= 1
  /\ \A t \in superseded : mailed[t] # "live" /\ ~Locked(t)
=============================================================================
