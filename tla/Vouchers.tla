---- MODULE Vouchers ----
(***************************************************************************)
(* One voucher of packages/vouchers: its row, the cached balance in it,    *)
(* and the entries that are the truth.  Tills redeem, release, adjust and  *)
(* cancel under the row's lock (SELECT ... FOR UPDATE); the sweep of what  *)
(* expired reads the row without one, and only its INSERT, through the     *)
(* foreign key, holds the row against those who would lock it.  A          *)
(* transaction's writes are seen when it commits.                          *)
(***************************************************************************)
EXTENDS Integers, Sequences, FiniteSets, Functions

CONSTANTS
  Tills, Sweeps,   \* the processes, and the sweeps that may overlap
  Subjects,        \* what a voucher is spent against
  Amounts,         \* the amounts issued, redeemed and adjusted by
  MaxEntries,      \* bound on the entries
  None

ASSUME VouchersAssumption ==
  /\ Amounts \subseteq Nat \ {0} /\ MaxEntries \in Nat \ {0}
  /\ None \notin Subjects

VARIABLES
  issued,          \* issued_amount; 0 before the sale
  entries,         \* the ledger
  balance,         \* the cache
  cancelled,
  late,            \* whether the clock has reached expires_at
  lock,            \* the tills holding the row FOR UPDATE: one at most
  till,            \* what each till is doing
  sweep            \* and each sweep

vars == <<issued, entries, balance, cancelled, late, lock, till, sweep>>

Kinds == {"issued", "redeemed", "released", "expired", "adjusted"}
Entry == [kind: Kinds, amount: Nat, subject: Subjects \union {None}]

\* A till's request, with the time it was made at; what it read of the row.
Asked == [op: {"redeem", "release", "adjust", "cancel"}, amount: Nat,
          subject: Subjects \union {None}, late: BOOLEAN]
Idle == [op |-> "none", amount |-> 0, subject |-> None, late |-> FALSE]
Unread(q) == [ask |-> q, balance |-> 0, cancelled |-> FALSE, taken |-> 0]
Resting == [step |-> "resting", amount |-> 0, count |-> 0]

Init ==
  /\ issued = 0 /\ entries = <<>> /\ balance = 0
  /\ cancelled = FALSE /\ late = FALSE
  /\ lock = {}
  /\ till = [t \in Tills |-> Unread(Idle)]
  /\ sweep = [s \in Sweeps |-> Resting]

Signed(e) == IF e.kind \in {"issued", "released", "adjusted"} THEN e.amount ELSE -e.amount
Signs(E) == [i \in DOMAIN E |-> Signed(E[i])]
BalanceOf(E) == SumFunctionOnSet(Signs(E), DOMAIN E)
NewEntry(kind, amount, subject) == [kind |-> kind, amount |-> amount, subject |-> subject]

\* What was taken for a subject and not yet given back, as a balance.
Against(E, subject) == SumFunctionOnSet(Signs(E), {i \in DOMAIN E : E[i].subject = subject})

\* Mutant of Checked: only kept below what was issued.
CheckedAbove(b) == b <= issued

\* ck_vouchers_balance
Checked(b) == b \in 0..issued

\* expires_at: the sweep and the tills compare it with a clock of their own.
Issue(amount) ==
  /\ issued = 0
  /\ issued' = amount /\ balance' = amount
  /\ entries' = <<NewEntry("issued", amount, None)>>
  /\ UNCHANGED <<cancelled, late, lock, till, sweep>>

Expires ==
  /\ ~late /\ late' = TRUE
  /\ UNCHANGED <<issued, entries, balance, cancelled, lock, till, sweep>>

----------------------------------------------------------------------------
(* The tills *)

\* The transactions that have inserted an entry hold the voucher's row FOR
\* KEY SHARE until they end.
Sharing == {s \in Sweeps : sweep[s].step \in {"inserted", "counted"}}

Requests ==
  [op: {"redeem"}, amount: Amounts, subject: Subjects, late: {late}]
  \union [op: {"release"}, amount: {0}, subject: Subjects, late: {late}]
  \union [op: {"adjust"}, amount: Amounts, subject: {None}, late: {late}]
  \union [op: {"cancel"}, amount: {0}, subject: {None}, late: {late}]

Ask(t) ==
  /\ issued > 0 /\ till[t].ask = Idle
  /\ \E q \in Requests : till' = [till EXCEPT ![t].ask = q]
  /\ UNCHANGED <<issued, entries, balance, cancelled, late, lock, sweep>>

\* locked(), and what was taken for the subject read under the lock.
Locked(t) ==
  /\ till[t].ask # Idle /\ lock = {} /\ Sharing = {}
  /\ lock' = lock \union {t}
  /\ till' = [till EXCEPT ![t] = [@ EXCEPT !.balance = balance, !.cancelled = cancelled,
                                          !.taken = -Against(entries, till[t].ask.subject)]]
  /\ UNCHANGED <<issued, entries, balance, cancelled, late, sweep>>

\* Mutant of CanRedeem: whether it was cancelled is not asked.
CanRedeemCancelled(t) == ~till[t].ask.late /\ till[t].ask.amount <= till[t].balance

CanRedeem(t) ==
  /\ ~till[t].cancelled
  /\ ~till[t].ask.late
  /\ till[t].ask.amount <= till[t].balance

\* The entry a till writes, none when it is refused.
EntryOf(t) ==
  LET q == till[t].ask IN
  CASE q.op = "redeem" ->
         IF CanRedeem(t) THEN {NewEntry("redeemed", q.amount, q.subject)} ELSE {}
    [] q.op = "release" ->
         IF till[t].taken > 0 THEN {NewEntry("released", till[t].taken, q.subject)} ELSE {}
    \* write() keeps the absolute amount and the kind adds it, whatever its sign.
    [] q.op = "adjust" -> {NewEntry("adjusted", q.amount, None)}
    [] q.op = "cancel" -> {}

End(t) ==
  /\ lock' = lock \ {t}
  /\ till' = [till EXCEPT ![t] = Unread(Idle)]

\* apply: the entry written, the balance set to the sum of the ledger.
Apply(t) ==
  /\ t \in lock /\ Len(entries) < MaxEntries
  /\ \E e \in EntryOf(t) :
       /\ Checked(BalanceOf(Append(entries, e)))
       /\ entries' = Append(entries, e)
       /\ balance' = BalanceOf(Append(entries, e))
  /\ End(t)
  /\ UNCHANGED <<issued, cancelled, late, sweep>>

Cancel(t) ==
  /\ t \in lock /\ till[t].ask.op = "cancel" /\ ~till[t].cancelled
  /\ cancelled' = TRUE
  /\ End(t)
  /\ UNCHANGED <<issued, entries, balance, late, sweep>>

\* Refused, or failed: a CHECK, the connection, the caller's transaction.
Refuse(t) ==
  /\ t \in lock
  /\ End(t)
  /\ UNCHANGED <<issued, entries, balance, cancelled, late, sweep>>

----------------------------------------------------------------------------
(* expire *)

Find(s) ==
  /\ sweep[s] = Resting
  /\ issued > 0 /\ late /\ balance > 0 /\ ~cancelled
  /\ sweep' = [sweep EXCEPT ![s] = [step |-> "found", amount |-> balance, count |-> 0]]
  /\ UNCHANGED <<issued, entries, balance, cancelled, late, lock, till>>

\* The foreign key's lock on the row waits for a till that holds it.
Insert(s) ==
  /\ sweep[s].step = "found" /\ lock = {}
  /\ Len(entries) < MaxEntries
  /\ sweep' = [sweep EXCEPT ![s].step = "inserted"]
  /\ UNCHANGED <<issued, entries, balance, cancelled, late, lock, till>>

WrittenOff(s) == NewEntry("expired", sweep[s].amount, None)

\* It counts what is committed, and its own entry.
Count(s) ==
  /\ sweep[s].step = "inserted"
  /\ sweep' = [sweep EXCEPT ![s].step = "counted",
                            ![s].count = BalanceOf(Append(entries, WrittenOff(s)))]
  /\ UNCHANGED <<issued, entries, balance, cancelled, late, lock, till>>

\* Mutant of Commit: what expired leaves nothing, whatever came in meanwhile.
CommitZero(s) ==
  /\ sweep[s].step = "counted" /\ Checked(sweep[s].count)
  /\ entries' = Append(entries, WrittenOff(s))
  /\ balance' = 0
  /\ sweep' = [sweep EXCEPT ![s] = Resting]
  /\ UNCHANGED <<issued, cancelled, late, lock, till>>

Commit(s) ==
  /\ sweep[s].step = "counted" /\ Checked(sweep[s].count)
  /\ entries' = Append(entries, WrittenOff(s))
  /\ balance' = sweep[s].count
  /\ sweep' = [sweep EXCEPT ![s] = Resting]
  /\ UNCHANGED <<issued, cancelled, late, lock, till>>

\* The balance came out below nothing, ck_vouchers_balance refused it, and
\* the sweep is rolled back.
Refused(s) ==
  /\ sweep[s].step = "counted" /\ ~Checked(sweep[s].count)
  /\ sweep' = [sweep EXCEPT ![s] = Resting]
  /\ UNCHANGED <<issued, entries, balance, cancelled, late, lock, till>>

Dies(s) ==
  /\ sweep[s] # Resting
  /\ sweep' = [sweep EXCEPT ![s] = Resting]
  /\ UNCHANGED <<issued, entries, balance, cancelled, late, lock, till>>

Next ==
  \/ \E amount \in Amounts : Issue(amount)
  \/ Expires
  \/ \E t \in Tills : Ask(t) \/ Locked(t) \/ Apply(t) \/ Cancel(t) \/ Refuse(t)
  \/ \E s \in Sweeps : Find(s) \/ Insert(s) \/ Count(s) \/ Commit(s) \/ Refused(s) \/ Dies(s)

Spec == Init /\ [][Next]_vars

----------------------------------------------------------------------------
(* Properties *)

\* Every part of the state has its type; the cached balance is between
\* nothing and what was issued.
TypeOK ==
  /\ issued \in Amounts \union {0} /\ entries \in Seq(Entry) /\ Len(entries) <= MaxEntries
  /\ balance \in 0..issued
  /\ cancelled \in BOOLEAN /\ late \in BOOLEAN
  /\ lock \subseteq Tills
  /\ \A t \in Tills : /\ till[t].ask \in Asked \union {Idle}
                      /\ till[t].balance \in 0..issued /\ till[t].cancelled \in BOOLEAN
                      /\ till[t].taken \in Int
  /\ \A s \in Sweeps : sweep[s].step \in {"resting", "found", "inserted", "counted"}

\* reconcile: the balance cached in the row is the sum of the entries,
\* whatever tills and sweeps ran at the same time.
LedgerAgrees == balance = BalanceOf(entries)

Of(E, kind, subject) ==
  SumFunctionOnSet([i \in DOMAIN E |-> E[i].amount],
    {i \in DOMAIN E : E[i].kind = kind /\ E[i].subject = subject})

\* No subject is ever given back more than was taken for it: a release
\* larger than its redemption would print money.
ReleasedWithinTaken ==
  \A u \in Subjects : Of(entries, "released", u) <= Of(entries, "redeemed", u)

\* ledger.ts: a voucher's balance is the sum of its entries, and no redemption
\* is given back twice.
BooksBalance == LedgerAgrees /\ ReleasedWithinTaken

\* Once the cancellation of a voucher has committed, nothing more is redeemed
\* of it, not even by a till that was asked before.
NothingAfterCancel ==
  [][cancelled => \A i \in DOMAIN entries' \ DOMAIN entries : entries'[i].kind # "redeemed"]_vars

----------------------------------------------------------------------------
(* Why they hold: the row's lock, and the sweep's share of it, keep what    *)
(* was read under them true until it is written.                           *)

\* What is said of a subject of a voucher was taken for it or given back.
Written == {e \in Entry : e.subject \in Subjects => e.kind \in {"redeemed", "released"}}

\* A request is of its kind, and names the subject that kind is for.
Request ==
  [op: {"redeem", "release"}, amount: Nat, subject: Subjects, late: BOOLEAN]
  \union [op: {"adjust", "cancel"}, amount: Nat, subject: {None}, late: BOOLEAN]

Rows ==
  /\ issued \in Amounts \union {0} /\ balance \in 0..issued
  /\ entries \in Seq(Written)
  /\ cancelled \in BOOLEAN /\ late \in BOOLEAN

\* Nothing is asked of a voucher that was not sold, nor swept.
Unsold ==
  issued = 0 => /\ entries = <<>> /\ balance = 0 /\ ~cancelled
                /\ \A t \in Tills : till[t].ask = Idle
                /\ \A s \in Sweeps : sweep[s] = Resting

\* A till that holds the row has read it as it is.
Holding ==
  /\ lock \subseteq Tills /\ \A t, u \in lock : t = u
  /\ till \in [Tills -> [ask : Request \union {Idle}, balance : Int, cancelled : BOOLEAN, taken : Int]]
  /\ \A t \in Tills : till[t].balance \in 0..issued
  /\ \A t \in lock : /\ till[t].ask # Idle
                     /\ till[t].balance = balance /\ till[t].cancelled = cancelled
                     /\ till[t].taken = -Against(entries, till[t].ask.subject)

\* A sweep that shares it keeps the tills out.
Sweeping ==
  /\ sweep \in [Sweeps -> [step : {"resting", "found", "inserted", "counted"}, amount : Nat, count : Int]]
  /\ lock # {} => Sharing = {}

RowHeld == Rows /\ Unsold /\ Holding /\ Sweeping

\* And where no two sweeps meet, what one counted is still what there is.
LoneSweep == \A s, o \in Sweeps : s = o
Counted ==
  /\ Len(entries) <= MaxEntries
  /\ \A s \in Sharing :
       /\ Len(entries) < MaxEntries
       /\ sweep[s].step = "counted" => sweep[s].count = BalanceOf(Append(entries, WrittenOff(s)))
====
