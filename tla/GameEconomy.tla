---- MODULE GameEconomy ----
(***************************************************************************)
(* The ledger of one holder of a game's premium currency                  *)
(* (packages/game-economy).  Callers move currency at the same time, each *)
(* in a transaction of its own: the transaction takes the balance row of  *)
(* the currency, looks for the entry its key wrote, plans the draws on    *)
(* the lots, and writes.  Until it commits nothing it wrote is seen, so   *)
(* the writes and the commit are one step, which the unique indexes and   *)
(* the CHECKs of the tables may refuse.                                   *)
(***************************************************************************)
EXTENDS Integers, FiniteSets, Functions

CONSTANTS
  Callers,     \* the processes that serve the holder's requests
  Currencies,
  Keys,        \* idempotency keys
  Offers,      \* the credits and spends asked for: [op, currency, amount]
  Rank,        \* the spend order: the place of each kind of credit in it
  MaxEntries,  \* bound on the entries ever written
  Nobody, NoRow, NoEntry

CreditKinds == {"purchase", "grant"}
GiveBacks == {"refund", "reversal"}
EntryKinds == CreditKinds \union {"spend"} \union GiveBacks

ASSUME EconomyAssumption ==
  /\ Offers \subseteq [op: CreditKinds \union {"spend"}, currency: Currencies, amount: Nat \ {0}]
  /\ Rank \in [CreditKinds -> 1..2] /\ Rank["purchase"] # Rank["grant"]
  /\ MaxEntries \in Nat
  /\ Nobody \notin Callers /\ NoRow \notin Nat /\ NoEntry \notin Nat

VARIABLES
  entries,    \* the ledger: seq -> entry
  remaining,  \* what is left of each lot: seq of the credit -> amount
  draws,      \* <<debit, lot>> -> amount drawn
  balance,    \* the cached balance of each currency, NoRow before the first
  lock,       \* the transaction holding each balance row
  seq,        \* the entries numbered so far
  recent,     \* whether the latest entry is at or after forget's cut-off
  pc, ask,    \* where a caller is, and in which request
  seen,       \* the balance it read as it took the row
  plan,       \* the draws it means to write: lot -> amount
  told        \* the answer it gets

tables == <<entries, remaining, draws, seq, recent>>
vars == <<entries, remaining, draws, balance, lock, seq, recent, pc, ask, seen, plan, told>>

Lots == DOMAIN remaining

NoAnswer == [entry |-> NoEntry, taken |-> 0, spent |-> 0, earlier |-> NoEntry]
Answer(e) == [NoAnswer EXCEPT !.entry = e]

\* What may be asked: an offer, or to give back or take back a purchase of
\* the holder's, its currency and amount read from its lot before any lock.
Asks ==
  {[op |-> o.op, currency |-> o.currency, amount |-> o.amount, key |-> k, of |-> NoEntry] :
      o \in Offers, k \in Keys}
  \union {[op |-> op, currency |-> entries[p].currency, amount |-> entries[p].amount,
           key |-> k, of |-> p] :
      op \in GiveBacks, k \in Keys, p \in {l \in Lots : entries[l].kind = "purchase"}}

Init ==
  /\ entries = <<>> /\ remaining = <<>> /\ draws = <<>>
  /\ balance = [u \in Currencies |-> NoRow]
  /\ lock = [u \in Currencies |-> Nobody]
  /\ seq = 0 /\ recent = FALSE
  /\ pc = [c \in Callers |-> "idle"]
  /\ ask = [c \in Callers |-> NoEntry]
  /\ seen = [c \in Callers |-> 0]
  /\ plan = [c \in Callers |-> <<>>]
  /\ told = [c \in Callers |-> NoAnswer]

Unlocked(c) == [u \in Currencies |-> IF lock[u] = c THEN Nobody ELSE lock[u]]
Forgetting == \E c \in Callers : pc[c] = "forgetting"

\* A transaction that ends without writing: its lock goes, its row if it
\* made one too.
Rollback(c) ==
  /\ lock' = Unlocked(c)
  /\ pc' = [pc EXCEPT ![c] = "idle"]
  /\ ask' = [ask EXCEPT ![c] = NoEntry]
  /\ seen' = [seen EXCEPT ![c] = 0]
  /\ plan' = [plan EXCEPT ![c] = <<>>]
  /\ UNCHANGED <<tables, balance, told>>

\* One that commits with the balance u, and answers.
Finish(c, u, answer) ==
  /\ balance' = [balance EXCEPT ![ask[c].currency] = u]
  /\ lock' = Unlocked(c)
  /\ pc' = [pc EXCEPT ![c] = "done"]
  /\ seen' = [seen EXCEPT ![c] = 0]
  /\ plan' = [plan EXCEPT ![c] = <<>>]
  /\ told' = [told EXCEPT ![c] = answer]
  /\ UNCHANGED ask

----------------------------------------------------------------------------
(* allocate: the kinds in order, within a kind the oldest first *)

Before(l, m) ==
  \/ Rank[entries[l].kind] < Rank[entries[m].kind]
  \/ Rank[entries[l].kind] = Rank[entries[m].kind] /\ l < m

OpenLots(u) == {l \in Lots : entries[l].currency = u /\ remaining[l] > 0}

\* Mutant of Taken: the oldest lot first, of whatever kind.
TakenByAge(l, u, amount) ==
  LET ahead == SumFunctionOnSet(remaining, {m \in OpenLots(u) : m < l})
  IN  IF ahead >= amount THEN 0
      ELSE IF remaining[l] < amount - ahead THEN remaining[l] ELSE amount - ahead

\* How far a debit of amount goes into lot l, those before it exhausted.
Taken(l, u, amount) ==
  LET ahead == SumFunctionOnSet(remaining, {m \in OpenLots(u) : Before(m, l)})
  IN  IF ahead >= amount THEN 0
      ELSE IF remaining[l] < amount - ahead THEN remaining[l] ELSE amount - ahead

Allocate(u, amount) ==
  [l \in {m \in OpenLots(u) : Taken(m, u, amount) > 0} |-> Taken(l, u, amount)]

Covers(u, amount) == SumFunctionOnSet(remaining, OpenLots(u)) >= amount

----------------------------------------------------------------------------
(* What a caller finds, and what it then plans to draw *)

\* Mutant of Same: the amount is not compared.
SameAnyAmount(e, q) == e.kind = q.op /\ e.currency = q.currency /\ e.refundOf = q.of

\* The entry the key was written for must have been written for this.
Same(e, q) ==
  /\ e.kind = q.op /\ e.currency = q.currency /\ e.refundOf = q.of
  /\ q.op = "reversal" \/ e.amount = q.amount

Written(key) == {e \in DOMAIN entries : entries[e].key = key}
GivenBack(p) == {e \in DOMAIN entries : entries[e].refundOf = p}

IsRefundable(p) == entries[p].kind = "purchase" /\ remaining[p] = entries[p].amount

\* The draws of a debit, nothing when it is refused.
SpendDraws(q) == IF Covers(q.currency, q.amount) THEN Allocate(q.currency, q.amount) ELSE <<>>
RefundDraws(q) == IF IsRefundable(q.of) THEN [l \in {q.of} |-> q.amount] ELSE <<>>
ReversalDraws(q) == IF remaining[q.of] > 0 THEN [l \in {q.of} |-> remaining[q.of]] ELSE <<>>

DrawsOf(q) ==
  CASE q.op = "spend" -> SpendDraws(q)
    [] q.op = "refund" -> RefundDraws(q)
    [] q.op = "reversal" -> ReversalDraws(q)

Start(c) ==
  /\ pc[c] = "idle"
  /\ \E q \in Asks : ask' = [ask EXCEPT ![c] = q]
  /\ pc' = [pc EXCEPT ![c] = "asking"]
  /\ UNCHANGED <<tables, balance, lock, seen, plan, told>>

\* Mutant of MakeRow: the balance is taken for read before there is one.
MakeRowUnread(c) ==
  LET u == ask[c].currency IN
  /\ pc[c] = "asking" /\ balance[u] = NoRow /\ lock[u] = Nobody
  /\ ~Forgetting
  /\ lock' = [lock EXCEPT ![u] = c]
  /\ seen' = [seen EXCEPT ![c] = balance[u]]
  /\ pc' = [pc EXCEPT ![c] = "locked"]
  /\ UNCHANGED <<tables, balance, ask, plan, told>>

\* lock(): the row is made if missing; nobody sees it before the commit, and
\* who would make it too waits.
MakeRow(c) ==
  LET u == ask[c].currency IN
  /\ pc[c] = "asking" /\ balance[u] = NoRow /\ lock[u] = Nobody
  /\ ~Forgetting
  /\ lock' = [lock EXCEPT ![u] = c]
  /\ seen' = [seen EXCEPT ![c] = 0]
  /\ pc' = [pc EXCEPT ![c] = "locked"]
  /\ UNCHANGED <<tables, balance, ask, plan, told>>

FindRow(c) ==
  /\ pc[c] = "asking" /\ balance[ask[c].currency] # NoRow
  /\ pc' = [pc EXCEPT ![c] = "waiting"]
  /\ UNCHANGED <<tables, balance, lock, ask, seen, plan, told>>

\* Mutant of TakeRow: SELECT without FOR UPDATE, the row is read and not held.
TakeRowUnheld(c) ==
  LET u == ask[c].currency IN
  /\ pc[c] = "waiting" /\ lock[u] = Nobody /\ balance[u] # NoRow
  /\ seen' = [seen EXCEPT ![c] = balance[u]]
  /\ pc' = [pc EXCEPT ![c] = "locked"]
  /\ UNCHANGED <<tables, balance, lock, ask, plan, told>>

\* SELECT ... FOR UPDATE, once whoever holds the row has ended.
TakeRow(c) ==
  LET u == ask[c].currency IN
  /\ pc[c] = "waiting" /\ lock[u] = Nobody /\ balance[u] # NoRow
  /\ lock' = [lock EXCEPT ![u] = c]
  /\ seen' = [seen EXCEPT ![c] = balance[u]]
  /\ pc' = [pc EXCEPT ![c] = "locked"]
  /\ UNCHANGED <<tables, balance, ask, plan, told>>

\* The holder was forgotten while the caller waited: no row comes back, and
\* row!.balance throws.
RowGone(c) ==
  /\ pc[c] = "waiting" /\ lock[ask[c].currency] = Nobody /\ balance[ask[c].currency] = NoRow
  /\ Rollback(c)

----------------------------------------------------------------------------
(* Under the lock *)

\* The row as a transaction that wrote no entry leaves it.
Kept(c) == IF balance[ask[c].currency] = NoRow THEN 0 ELSE balance[ask[c].currency]

\* The key has been written: answered again, or refused for anything else.
Replay(c) ==
  LET q == ask[c] IN
  /\ pc[c] = "locked"
  /\ \E e \in Written(q.key) :
       IF Same(entries[e], q)
       THEN Finish(c, Kept(c),
              IF q.op # "reversal" THEN Answer(e)
              ELSE [NoAnswer EXCEPT !.entry = e, !.taken = entries[e].amount,
                                    !.spent = q.amount - entries[e].amount])
            /\ UNCHANGED tables
       ELSE Rollback(c)

\* A reversal of a purchase given back before names that entry; one of a
\* purchase all spent takes nothing.
ReverseNothing(c) ==
  LET q == ask[c] IN
  /\ pc[c] = "locked" /\ q.op = "reversal" /\ Written(q.key) = {}
  /\ \/ \E e \in GivenBack(q.of) : Finish(c, Kept(c), [NoAnswer EXCEPT !.earlier = e])
     \/ /\ GivenBack(q.of) = {} /\ q.of \in Lots /\ remaining[q.of] = 0
        /\ Finish(c, Kept(c), [NoAnswer EXCEPT !.spent = q.amount])
  /\ UNCHANGED tables

\* insufficient_balance, not_refundable, or a lot gone with its holder.
Refuse(c) ==
  LET q == ask[c] IN
  /\ pc[c] = "locked" /\ Written(q.key) = {} /\ q.op \notin CreditKinds
  /\ \/ q.op \in GiveBacks /\ q.of \notin Lots
     \/ q.op = "spend" /\ DrawsOf(q) = <<>>
     \/ q.op = "refund" /\ q.of \in Lots /\ DrawsOf(q) = <<>>
  /\ Rollback(c)

Plan(c) ==
  LET q == ask[c] IN
  /\ pc[c] = "locked" /\ Written(q.key) = {}
  /\ IF q.op \in CreditKinds THEN plan' = plan
     ELSE /\ q.op \in GiveBacks => q.of \in Lots /\ GivenBack(q.of) = {}
          /\ DrawsOf(q) # <<>>
          /\ plan' = [plan EXCEPT ![c] = DrawsOf(q)]
  /\ pc' = [pc EXCEPT ![c] = "writing"]
  /\ UNCHANGED <<tables, balance, lock, ask, seen, told>>

AmountOf(q, p) == IF q.op \in GiveBacks THEN SumFunctionOnSet(p, DOMAIN p) ELSE q.amount
NewBalance(q, was, amount) == IF q.op \in CreditKinds THEN was + amount ELSE was - amount
Left(p) == [l \in Lots |-> IF l \in DOMAIN p THEN remaining[l] - p[l] ELSE remaining[l]]

\* insert, draw, setBalance and the commit.  The guards are the unique
\* indexes and the CHECKs; when one fails, Fail is what happens.
Write(c) ==
  LET q == ask[c]  p == plan[c]  id == seq + 1
      amount == AmountOf(q, p)
      after == NewBalance(q, seen[c], amount)
      left == Left(p)
  IN
  /\ pc[c] = "writing" /\ seq < MaxEntries
  /\ Written(q.key) = {}
  /\ q.of = NoEntry \/ GivenBack(q.of) = {}
  /\ after >= 0 /\ DOMAIN p \subseteq Lots /\ \A l \in Lots : left[l] >= 0
  /\ seq' = id
  /\ entries' = [i \in DOMAIN entries \union {id} |->
       IF i # id THEN entries[i]
       ELSE [kind |-> q.op, currency |-> q.currency, amount |-> amount,
             after |-> after, key |-> q.key, refundOf |-> q.of]]
  /\ remaining' = IF q.op \in CreditKinds
                  THEN [l \in Lots \union {id} |-> IF l = id THEN amount ELSE remaining[l]]
                  ELSE left
  /\ draws' = [d \in DOMAIN draws \union {<<id, l>> : l \in DOMAIN p} |->
                 IF d[1] = id THEN p[d[2]] ELSE draws[d]]
  /\ \E r \in {recent, TRUE} : recent' = r   \* occurredAt may be given
  /\ Finish(c, after,
       IF q.op # "reversal" THEN Answer(id)
       ELSE [NoAnswer EXCEPT !.entry = id, !.taken = amount, !.spent = q.amount - amount])

\* The caller's transaction rolls back, a constraint refuses the write, the
\* process or the connection dies: nothing of it is seen.
Fail(c) ==
  /\ pc[c] \in {"asking", "waiting", "locked", "writing", "forgetting"}
  /\ Rollback(c)

Leave(c) ==
  /\ pc[c] = "done"
  /\ pc' = [pc EXCEPT ![c] = "idle"]
  /\ ask' = [ask EXCEPT ![c] = NoEntry]
  /\ told' = [told EXCEPT ![c] = NoAnswer]
  /\ UNCHANGED <<tables, balance, lock, seen, plan>>

----------------------------------------------------------------------------
(* forget, for a holder nothing credits in a new currency meanwhile *)

Forget(c) ==
  LET rows == {u \in Currencies : balance[u] # NoRow} IN
  /\ pc[c] = "idle"
  /\ \A u \in Currencies : lock[u] = Nobody
  /\ \A u \in rows : balance[u] = 0
  /\ lock' = [u \in Currencies |-> IF u \in rows THEN c ELSE lock[u]]
  /\ pc' = [pc EXCEPT ![c] = "forgetting"]
  /\ UNCHANGED <<tables, balance, ask, seen, plan, told>>

\* The rows locked, nothing of the holder moves: the latest entry is read and
\* all is deleted as one.
Delete(c) ==
  /\ pc[c] = "forgetting" /\ ~recent
  /\ entries' = <<>> /\ remaining' = <<>> /\ draws' = <<>>
  /\ balance' = [u \in Currencies |-> NoRow]
  /\ lock' = Unlocked(c)
  /\ pc' = [pc EXCEPT ![c] = "idle"]
  /\ UNCHANGED <<seq, recent, ask, seen, plan, told>>

\* The period the product keeps its records for passes.
Age == recent /\ recent' = FALSE
       /\ UNCHANGED <<entries, remaining, draws, balance, lock, seq, pc, ask, seen, plan, told>>

Next ==
  \/ \E c \in Callers :
       \/ Start(c) \/ MakeRow(c) \/ FindRow(c) \/ TakeRow(c) \/ RowGone(c)
       \/ Replay(c) \/ ReverseNothing(c) \/ Refuse(c) \/ Plan(c) \/ Write(c)
       \/ Fail(c) \/ Leave(c) \/ Forget(c) \/ Delete(c)
  \/ Age

Spec == Init /\ [][Next]_vars

----------------------------------------------------------------------------
(* Properties *)

Entry == [kind: EntryKinds, currency: Currencies, amount: Nat \ {0}, after: Nat,
          key: Keys, refundOf: (1..MaxEntries) \union {NoEntry}]

\* Every table and every caller's state has its type; a cached balance, what
\* is left of a lot and the balance a caller read are never negative.
TypeOK ==
  /\ DOMAIN entries \subseteq 1..seq /\ \A e \in DOMAIN entries : entries[e] \in Entry
  /\ Lots = {e \in DOMAIN entries : entries[e].kind \in CreditKinds}
  /\ \A l \in Lots : remaining[l] \in 0..entries[l].amount
  /\ \A d \in DOMAIN draws : d \in (DOMAIN entries) \X Lots /\ draws[d] \in Nat \ {0}
  /\ balance \in [Currencies -> Nat \union {NoRow}]
  /\ lock \in [Currencies -> Callers \union {Nobody}]
  /\ seq \in 0..MaxEntries /\ recent \in BOOLEAN
  /\ pc \in [Callers -> {"idle", "asking", "waiting", "locked", "writing", "done", "forgetting"}]
  /\ \A c \in Callers : seen[c] \in Nat /\ \A l \in DOMAIN plan[c] : plan[c][l] \in Nat \ {0}

EntriesOf(u) == {e \in DOMAIN entries : entries[e].currency = u}
LotsOf(u) == {l \in Lots : entries[l].currency = u}
Signs == [e \in DOMAIN entries |->
            IF entries[e].kind \in CreditKinds THEN entries[e].amount ELSE -entries[e].amount]

\* reconcile: the cached balance, the sum of the entries and what is left of
\* the lots agree whatever ran at the same time, and each entry's
\* balance_after is the sum of the entries up to it.
Agrees ==
  \A u \in Currencies :
    LET ledger == SumFunctionOnSet(Signs, EntriesOf(u)) IN
    /\ ledger = SumFunctionOnSet(remaining, LotsOf(u))
    /\ ledger = IF balance[u] = NoRow THEN 0 ELSE balance[u]
    /\ \A e \in EntriesOf(u) : entries[e].after = SumFunctionOnSet(Signs, {f \in EntriesOf(u) : f <= e})

DrawnBy(e) == {d \in DOMAIN draws : d[1] = e}
DrawnOn(l) == {d \in DOMAIN draws : d[2] = l}
Drawn(D) == SumFunctionOnSet(draws, D)

\* Every debit is the sum of its draws, and every lot has lost what was
\* drawn on it: whether a purchase is whole is a fact, not an estimate.
DrawsAccount ==
  /\ \A l \in Lots : entries[l].amount = remaining[l] + Drawn(DrawnOn(l))
  /\ \A e \in DOMAIN entries \ Lots : entries[e].amount = Drawn(DrawnBy(e))

\* A spend draws on a lot only once every lot before it in the spend order,
\* credited by then, is exhausted.
SpentInOrder ==
  \A d \in DOMAIN draws : entries[d[1]].kind = "spend" =>
    \A l \in Lots :
      l < d[1] /\ entries[l].currency = entries[d[2]].currency /\ Before(l, d[2])
        => Drawn({x \in DrawnOn(l) : x[1] <= d[1]}) = entries[l].amount

\* A purchase is given back once, by a refund or a reversal, and a refund
\* takes back the whole of a purchase no spend ever drew on.
RefundedWhole ==
  \A l \in Lots :
    /\ Cardinality(GivenBack(l)) <= 1
    /\ \A e \in GivenBack(l) :
         entries[e].kind = "refund" => DrawnOn(l) = {<<e, l>>} /\ draws[<<e, l>>] = entries[l].amount

\* currency.service.ts: a balance is what its entries come to, and the draws
\* account for every lot.
LedgerAccounts == Agrees /\ DrawsAccount

\* allocate.ts and refund(): lots are drawn on in their order, and given back
\* whole or not at all.
LotsAreKept == SpentInOrder /\ RefundedWhole

\* The answer t to the request q: an entry of its key that was written for it;
\* or of a reversal what it took and what spends had drawn, all of the purchase.
AnswersTruly(q, t) ==
  /\ t.entry \in DOMAIN entries =>
       LET e == entries[t.entry] IN
       /\ e.key = q.key /\ e.kind = q.op /\ e.currency = q.currency /\ e.refundOf = q.of
       /\ e.amount = IF q.op = "reversal" THEN t.taken ELSE q.amount
  /\ q.op = "reversal" /\ t.earlier = NoEntry /\ q.of \in Lots =>
       /\ t.taken + t.spent = entries[q.of].amount
       /\ t.spent = Drawn({d \in DrawnOn(q.of) : entries[d[1]].kind = "spend"})

\* A caller is answered with an entry of its key that was written for what it
\* asked, the first time and again; a reversal says what was taken back of the
\* purchase and what spends had drawn on it, which together are all of it.
AnsweredTruly == \A c \in Callers : pc[c] = "done" => AnswersTruly(ask[c], told[c])

----------------------------------------------------------------------------
(* Why they hold: who moves a currency holds its row, so that what was read  *)
(* and planned under the lock stays true until it is written.               *)

\* A draw is a debit's, on an older lot of its currency: a spend's on any, one
\* that gives back on the purchase it names and no other.
DrawIsOf(e, l) ==
  /\ e \in DOMAIN entries \ Lots /\ l \in Lots /\ l < e
  /\ entries[e].currency = entries[l].currency
  /\ entries[e].kind = "spend" \/ entries[e].refundOf = l

Tables ==
  /\ seq \in 0..MaxEntries /\ recent \in BOOLEAN
  /\ DOMAIN entries \subseteq 1..seq /\ entries \in [DOMAIN entries -> Entry]
  /\ remaining \in [{e \in DOMAIN entries : entries[e].kind \in CreditKinds} -> Nat]
  /\ \A l \in Lots : remaining[l] <= entries[l].amount
  /\ draws \in [DOMAIN draws -> Nat \ {0}]
  /\ \A d \in DOMAIN draws : d = <<d[1], d[2]>> /\ DrawIsOf(d[1], d[2])
  /\ \A e \in DOMAIN entries :
       IF entries[e].kind \in GiveBacks
       THEN /\ entries[e].refundOf \in Lots /\ entries[e].refundOf < e
            /\ entries[entries[e].refundOf].kind = "purchase"
       ELSE entries[e].refundOf = NoEntry
  /\ balance \in [Currencies -> Nat \union {NoRow}]
  /\ \A e \in DOMAIN entries : balance[entries[e].currency] # NoRow

\* A reversal took all that spends had left of its purchase.
ReversedWhole ==
  \A e \in DOMAIN entries : entries[e].kind = "reversal" =>
    LET l == entries[e].refundOf IN
    /\ remaining[l] = 0
    /\ entries[l].amount = entries[e].amount + Drawn({d \in DrawnOn(l) : entries[d[1]].kind = "spend"})

Books == Tables /\ Agrees /\ DrawsAccount /\ SpentInOrder /\ RefundedWhole /\ ReversedWhole

\* What is asked of a purchase is what the purchase is, as long as it is there:
\* no number is given twice.
Request == [op : EntryKinds, currency : Currencies, amount : Nat \ {0}, key : Keys,
            of : Nat \union {NoEntry}]

Asked(c) ==
  LET q == ask[c] IN
  /\ q \in Request
  /\ IF q.op \in GiveBacks THEN q.of \in 1..seq ELSE q.of = NoEntry
  /\ q.of \in Lots => /\ entries[q.of].kind = "purchase" /\ entries[q.of].currency = q.currency
                      /\ entries[q.of].amount = q.amount

\* The balance a caller read under its lock is still the row's.
Reads(c) == lock[ask[c].currency] = c /\ seen[c] = Kept(c)

\* Whoever forgets a holder has every row there is.
Alone(c) ==
  /\ \A u \in Currencies : balance[u] # NoRow => lock[u] = c
  /\ \A d \in Callers : pc[d] \notin {"locked", "writing"}

\* The draws planned can be made: on lots that are there and hold as much, in
\* the order of a spend, or on the purchase that is given back.
Planned(c) ==
  LET q == ask[c]  p == plan[c] IN
  /\ DOMAIN p \subseteq LotsOf(q.currency) /\ p \in [DOMAIN p -> Nat \ {0}]
  /\ \A l \in DOMAIN p : p[l] <= remaining[l]
  /\ q.op \in CreditKinds => DOMAIN p = {}
  /\ q.op = "spend" =>
       /\ SumFunctionOnSet(p, DOMAIN p) = q.amount
       /\ \A l \in DOMAIN p, m \in LotsOf(q.currency) : Before(m, l) => Left(p)[m] = 0
  /\ q.op \in GiveBacks =>
       /\ DOMAIN p = {q.of} /\ p[q.of] = remaining[q.of] /\ GivenBack(q.of) = {}
       /\ q.op = "refund" => p[q.of] = q.amount

\* Nothing is left of a purchase whose reversal was answered.
Told(c) ==
  LET q == ask[c]  t == told[c] IN
  /\ t.entry \in 1..seq \union {NoEntry}
  /\ q.op = "reversal" /\ t.earlier = NoEntry /\ q.of \in Lots => remaining[q.of] = 0

\* Where a caller is, it has asked, read, locked and planned what it needs.
Standing(c) ==
  /\ pc[c] \notin {"idle", "forgetting"} => Asked(c)
  /\ pc[c] \in {"locked", "writing"} => Reads(c)
  /\ pc[c] = "forgetting" => Alone(c)
  /\ IF pc[c] = "writing" THEN Planned(c) ELSE plan[c] = <<>>
  /\ pc[c] = "done" => Told(c)

Said == [entry : Nat \union {NoEntry}, taken : Int, spent : Int, earlier : Nat \union {NoEntry}]

Sessions ==
  /\ lock \in [Currencies -> Callers \union {Nobody}]
  /\ pc \in [Callers -> {"idle", "asking", "waiting", "locked", "writing", "done", "forgetting"}]
  /\ ask \in [Callers -> Request \union {NoEntry}]
  /\ seen \in [Callers -> Nat]
  /\ plan = [c \in Callers |-> plan[c]]
  /\ told \in [Callers -> Said]

Callings == Sessions /\ \A c \in Callers : Standing(c)

IInv == Books /\ Callings /\ AnsweredTruly
====
