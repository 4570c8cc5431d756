--------------------------- MODULE VouchersProofs ---------------------------
(***************************************************************************)
(* Theorems about Vouchers, for any tills, sweeps, subjects and amounts.   *)
(***************************************************************************)
EXTENDS Vouchers, SumTheorems, SequenceTheorems, TLAPS

------------------------------------------------------------------------------
(* The ledger.                                                             *)

\* The rows of a ledger: their numbers, and an entry written after them.
LEMMA LedgerRows ==
    ASSUME NEW E \in Seq(Written), NEW e \in Written
    PROVE  /\ Len(E) \in Nat /\ DOMAIN E = 1..Len(E) /\ IsFiniteSet(DOMAIN E)
           /\ \A i \in DOMAIN E : E[i] \in Written
           /\ Append(E, e) \in Seq(Written) /\ Len(Append(E, e)) = Len(E) + 1
           /\ DOMAIN Append(E, e) = DOMAIN E \union {Len(E) + 1}
           /\ Len(E) + 1 \notin DOMAIN E
           /\ \A i \in DOMAIN E : Append(E, e)[i] = E[i]
           /\ Append(E, e)[Len(E) + 1] = e
<1>1. Len(E) \in Nat /\ DOMAIN E = 1..Len(E) /\ \A i \in DOMAIN E : E[i] \in Written
  BY LenProperties, ElementOfSeq
<1>2. IsFiniteSet(DOMAIN E)
  BY <1>1, FS_Interval
<1>3. /\ Append(E, e) \in Seq(Written) /\ Len(Append(E, e)) = Len(E) + 1
      /\ \A i \in 1..Len(E) : Append(E, e)[i] = E[i]
      /\ Append(E, e)[Len(E) + 1] = e
  BY AppendProperties
<1>4. DOMAIN Append(E, e) = 1..(Len(E) + 1)
  BY <1>3, LenProperties
<1>5. 1..(Len(E) + 1) = 1..Len(E) \union {Len(E) + 1} /\ Len(E) + 1 \notin 1..Len(E)
  BY <1>1
<1>. QED
  BY <1>1, <1>2, <1>3, <1>4, <1>5

\* What an entry adds to a balance is an integer.
LEMMA SignedIsInt ==
    ASSUME NEW e \in Written
    PROVE  /\ Signed(e) \in Int
           /\ e.kind = "released" => Signed(e) = e.amount
           /\ e.kind = "redeemed" => Signed(e) = -e.amount
BY DEF Signed, Written, Entry

\* What a ledger adds up to is an integer, whole or for one subject.
LEMMA BalanceIsInt ==
    ASSUME NEW E \in Seq(Written)
    PROVE  BalanceOf(E) \in Int /\ \A u : Against(E, u) \in Int
<1>1. IsFiniteSet(DOMAIN E) /\ \A i \in DOMAIN E : E[i] \in Written
  BY LenProperties, ElementOfSeq, FS_Interval
<1>2. \A i \in DOMAIN E : Signs(E)[i] \in Int
  BY <1>1, SignedIsInt DEF Signs
<1>3. BalanceOf(E) \in Int
  BY <1>1, <1>2, SumIsInt DEF BalanceOf
<1>4. ASSUME NEW u
      PROVE  Against(E, u) \in Int
  <2>1. PICK D : D = {i \in DOMAIN E : E[i].subject = u}
    OBVIOUS
  <2>2. IsFiniteSet(D) /\ \A i \in D : Signs(E)[i] \in Int
    BY <1>1, <1>2, <2>1, FS_Subset
  <2>. QED
    BY <2>1, <2>2, SumIsInt DEF Against
<1>. QED
  BY <1>3, <1>4

\* An entry more is worth what it says.
LEMMA BalanceWith ==
    ASSUME NEW E \in Seq(Written), NEW e \in Written
    PROVE  BalanceOf(Append(E, e)) = BalanceOf(E) + Signed(e)
<1>1. PICK F : F = Append(E, e)
  OBVIOUS
<1>2. PICK n : n = Len(E) + 1
  OBVIOUS
<1>3. /\ IsFiniteSet(DOMAIN E) /\ n \notin DOMAIN E /\ DOMAIN F = DOMAIN E \union {n}
      /\ \A i \in DOMAIN E : F[i] = E[i] /\ F[i] \in Written
      /\ F[n] = e
  BY <1>1, <1>2, LedgerRows
<1>4. \A i \in DOMAIN F : Signs(F)[i] = Signed(F[i]) /\ Signs(F)[i] \in Int
  BY <1>3, SignedIsInt DEF Signs
<1>5. SumFunctionOnSet(Signs(F), DOMAIN E \union {n}) = SumFunctionOnSet(Signs(F), DOMAIN E) + Signs(F)[n]
  BY <1>3, <1>4, SumWith
<1>6. \A i \in DOMAIN E : Signs(F)[i] = Signs(E)[i]
  BY <1>3 DEF Signs
<1>7. SumFunctionOnSet(Signs(F), DOMAIN E) = SumFunctionOnSet(Signs(E), DOMAIN E)
  BY <1>3, <1>6, SumOfEqual
<1>8. Signs(F)[n] = Signed(e)
  BY <1>3, <1>4
<1>. QED
  BY <1>1, <1>3, <1>5, <1>7, <1>8 DEF BalanceOf

\* A voucher's first entry is its balance.
LEMMA BalanceOfFirst ==
    ASSUME NEW e \in Written
    PROVE  BalanceOf(<<e>>) = Signed(e) /\ <<e>> \in Seq(Written) /\ BalanceOf(<<>>) = 0
<1>1. <<>> \in Seq(Written) /\ <<e>> \in Seq(Written) /\ Append(<<>>, e) = <<e>>
  OBVIOUS
<1>2. DOMAIN <<>> = {}
  BY <1>1, LenProperties, EmptySeq
<1>3. BalanceOf(<<>>) = 0
  BY <1>2, SumOfNone DEF BalanceOf
<1>4. BalanceOf(<<e>>) = 0 + Signed(e)
  BY <1>1, <1>3, BalanceWith
<1>5. Signed(e) \in Int
  BY SignedIsInt
<1>. QED
  BY <1>1, <1>3, <1>4, <1>5

\* An entry counts among those of its kind and its subject, and no others.
LEMMA OfWith ==
    ASSUME NEW E \in Seq(Written), NEW e \in Written, NEW kind, NEW u
    PROVE  Of(Append(E, e), kind, u)
             = Of(E, kind, u) + (IF e.kind = kind /\ e.subject = u THEN e.amount ELSE 0)
<1>1. PICK F : F = Append(E, e)
  OBVIOUS
<1>2. PICK n : n = Len(E) + 1
  OBVIOUS
<1>3. /\ IsFiniteSet(DOMAIN E) /\ n \notin DOMAIN E /\ DOMAIN F = DOMAIN E \union {n}
      /\ \A i \in DOMAIN E : F[i] = E[i] /\ F[i] \in Written
      /\ F[n] = e
  BY <1>1, <1>2, LedgerRows
<1>4. PICK f : f = [i \in DOMAIN F |-> F[i].amount]
  OBVIOUS
<1>5. PICK g : g = [i \in DOMAIN E |-> E[i].amount]
  OBVIOUS
<1>6. \A i \in DOMAIN F : f[i] = F[i].amount /\ f[i] \in Int
  BY <1>3, <1>4 DEF Written, Entry
<1>7. PICK D : D = {i \in DOMAIN E : E[i].kind = kind /\ E[i].subject = u}
  OBVIOUS
<1>8. D \subseteq DOMAIN E /\ IsFiniteSet(D) /\ n \notin D /\ \A i \in D : f[i] = g[i]
  BY <1>3, <1>4, <1>5, <1>7, FS_Subset
<1>9. SumFunctionOnSet(f, D) = SumFunctionOnSet(g, D) /\ SumFunctionOnSet(f, D) \in Int
  BY <1>3, <1>6, <1>8, SumOfEqual, SumIsInt
<1>10. Of(E, kind, u) = SumFunctionOnSet(g, D)
  BY <1>5, <1>7 DEF Of
<1>11. CASE e.kind = kind /\ e.subject = u
  <2>1. {i \in DOMAIN F : F[i].kind = kind /\ F[i].subject = u} = D \union {n}
    BY <1>3, <1>7, <1>11
  <2>2. Of(F, kind, u) = SumFunctionOnSet(f, D \union {n})
    BY <1>4, <2>1 DEF Of
  <2>3. SumFunctionOnSet(f, D \union {n}) = SumFunctionOnSet(f, D) + f[n]
    BY <1>3, <1>6, <1>8, SumWith
  <2>. QED
    BY <1>1, <1>3, <1>6, <1>9, <1>10, <1>11, <2>2, <2>3
<1>12. CASE ~(e.kind = kind /\ e.subject = u)
  <2>1. {i \in DOMAIN F : F[i].kind = kind /\ F[i].subject = u} = D
    BY <1>3, <1>7, <1>12
  <2>2. Of(F, kind, u) = SumFunctionOnSet(f, D)
    BY <1>4, <2>1 DEF Of
  <2>. QED
    BY <1>1, <1>9, <1>10, <1>12, <2>2
<1>. QED
  BY <1>11, <1>12

\* What is owed for a subject is what was given back less what was taken.
LEMMA AgainstIs ==
    ASSUME NEW E \in Seq(Written), NEW u \in Subjects
    PROVE  /\ Of(E, "released", u) \in Int /\ Of(E, "redeemed", u) \in Int
           /\ Against(E, u) = Of(E, "released", u) - Of(E, "redeemed", u)
<1>1. IsFiniteSet(DOMAIN E) /\ \A i \in DOMAIN E : E[i] \in Written
  BY LenProperties, ElementOfSeq, FS_Interval
<1>2. PICK g : g = [i \in DOMAIN E |-> E[i].amount]
  OBVIOUS
<1>3. \A i \in DOMAIN E : g[i] = E[i].amount /\ g[i] \in Int
                          /\ Signs(E)[i] = Signed(E[i]) /\ Signs(E)[i] \in Int
  BY <1>1, <1>2, SignedIsInt DEF Signs, Written, Entry
<1>4. PICK A : A = {i \in DOMAIN E : E[i].kind = "released" /\ E[i].subject = u}
  OBVIOUS
<1>5. PICK B : B = {i \in DOMAIN E : E[i].kind = "redeemed" /\ E[i].subject = u}
  OBVIOUS
<1>6. A \subseteq DOMAIN E /\ B \subseteq DOMAIN E /\ A \intersect B = {}
  BY <1>4, <1>5
<1>7. IsFiniteSet(A) /\ IsFiniteSet(B)
  BY <1>1, <1>6, FS_Subset
<1>8. {i \in DOMAIN E : E[i].subject = u} = A \union B
  BY <1>1, <1>4, <1>5 DEF Written
<1>9. Against(E, u) = SumFunctionOnSet(Signs(E), A) + SumFunctionOnSet(Signs(E), B)
  BY <1>3, <1>6, <1>7, <1>8, SumOfBoth DEF Against
<1>10. SumFunctionOnSet(Signs(E), A) = SumFunctionOnSet(g, A)
  <2>1. \A i \in A : Signs(E)[i] = g[i]
    BY <1>1, <1>3, <1>4, SignedIsInt
  <2>. QED
    BY <1>7, <2>1, SumOfEqual
<1>11. SumFunctionOnSet(Signs(E), B) = -SumFunctionOnSet(g, B)
  <2>1. \A i \in B : Signs(E)[i] = -g[i] /\ g[i] \in Int
    BY <1>1, <1>3, <1>5, SignedIsInt
  <2>. QED
    BY <1>7, <2>1, SumOfNegated
<1>12. SumFunctionOnSet(g, A) \in Int /\ SumFunctionOnSet(g, B) \in Int
  BY <1>3, <1>6, <1>7, SumIsInt
<1>13. Of(E, "released", u) = SumFunctionOnSet(g, A) /\ Of(E, "redeemed", u) = SumFunctionOnSet(g, B)
  BY <1>2, <1>4, <1>5 DEF Of
<1>. QED
  BY <1>9, <1>10, <1>11, <1>12, <1>13

------------------------------------------------------------------------------
(* What the row's lock keeps.                                              *)

Till == [ask : Request \union {Idle}, balance : Int, cancelled : BOOLEAN, taken : Int]
Sweep == [step : {"resting", "found", "inserted", "counted"}, amount : Nat, count : Int]

\* What the package writes is an entry of the ledger.
LEMMA NewEntries ==
    ASSUME NEW amount \in Nat
    PROVE  /\ \A kind \in Kinds : NewEntry(kind, amount, None) \in Written
           /\ \A kind \in {"redeemed", "released"}, u \in Subjects :
                NewEntry(kind, amount, u) \in Written
BY VouchersAssumption DEF NewEntry, Written, Entry, Kinds

\* A till that does nothing.
LEMMA IdleTill == Unread(Idle) \in Till /\ Unread(Idle).balance = 0 /\ Unread(Idle).ask = Idle
<1>1. PICK q : q = Idle
  OBVIOUS
<1>2. PICK k : k = [ask |-> q, balance |-> 0, cancelled |-> FALSE, taken |-> 0]
  OBVIOUS
<1>3. k \in Till /\ k.balance = 0 /\ k.ask = q
  BY <1>1, <1>2 DEF Till
<1>. QED
  BY <1>1, <1>2, <1>3 DEF Unread

\* A sweep that does nothing.
LEMMA RestingSweep == Resting \in Sweep /\ Resting.step = "resting"
BY DEF Resting, Sweep

\* What a till is about to write: an entry of the ledger, none of it redeemed
\* from a cancelled voucher, and as much released as is owed.
LEMMA EntryOfTill ==
    ASSUME RowHeld, NEW t \in lock, NEW e \in EntryOf(t)
    PROVE  /\ e \in Written
           /\ e.kind \in {"redeemed", "released", "adjusted"}
           /\ e.kind = "redeemed" => ~cancelled
           /\ e.kind = "released" => /\ e.subject \in Subjects
                                     /\ e.amount = -Against(entries, e.subject)
<1>1. PICK q : q = till[t].ask
  OBVIOUS
<1>2. q \in Request /\ till[t] \in Till /\ till[t].cancelled = cancelled
      /\ till[t].taken = -Against(entries, q.subject) /\ till[t].taken \in Int
  BY <1>1 DEF RowHeld, Holding, Till
<1>3. q.op \in {"redeem", "release", "adjust", "cancel"} /\ q.amount \in Nat
      /\ (q.op \in {"redeem", "release"} => q.subject \in Subjects)
  BY <1>2 DEF Request
<1>4. CASE q.op = "redeem"
  <2>1. e = NewEntry("redeemed", q.amount, q.subject) /\ ~till[t].cancelled
    BY <1>1, <1>4 DEF EntryOf, CanRedeem
  <2>. QED
    BY <1>2, <1>3, <1>4, <2>1, NewEntries DEF NewEntry
<1>5. CASE q.op = "release"
  <2>1. e = NewEntry("released", till[t].taken, q.subject) /\ till[t].taken > 0
    BY <1>1, <1>5 DEF EntryOf
  <2>2. till[t].taken \in Nat
    BY <1>2, <2>1
  <2>. QED
    BY <1>2, <1>3, <1>5, <2>1, <2>2, NewEntries DEF NewEntry
<1>6. CASE q.op = "adjust"
  <2>1. e = NewEntry("adjusted", q.amount, None)
    BY <1>1, <1>6 DEF EntryOf
  <2>. QED
    BY <1>3, <2>1, NewEntries DEF NewEntry, Kinds
<1>7. CASE q.op = "cancel"
  BY <1>1, <1>7 DEF EntryOf
<1>. QED
  BY <1>3, <1>4, <1>5, <1>6, <1>7

\* A till that ends leaves the row to nobody.
LEMMA EndFrees ==
    ASSUME Holding, NEW t \in lock, End(t), UNCHANGED issued, issued \in Nat
    PROVE  Holding' /\ lock' = {}
<1>1. lock' = {}
  BY DEF Holding, End
<1>2. till \in [Tills -> Till] /\ t \in Tills /\ till' = [till EXCEPT ![t] = Unread(Idle)]
  BY DEF Holding, End, Till
<1>3. till' \in [Tills -> Till]
  BY <1>2, IdleTill
<1>4. \A u \in Tills : till'[u].balance \in 0..issued
  <2>1. \A u \in Tills : till[u].balance \in 0..issued
    BY DEF Holding
  <2>2. 0 \in 0..issued
    OBVIOUS
  <2>. QED
    BY <1>2, <2>1, <2>2, IdleTill
<1>. QED
  BY <1>1, <1>3, <1>4 DEF Holding, Till

\* Nobody holds a row that is not there yet.
LEMMA RowHeldInit == Init => RowHeld
<1> SUFFICES ASSUME Init PROVE RowHeld
  OBVIOUS
<1>1. Rows
  <2>1. entries \in Seq(Written)
    BY DEF Init
  <2>2. issued \in Amounts \union {0}
    BY DEF Init
  <2>3. balance \in 0..issued
    BY DEF Init
  <2>4. cancelled \in BOOLEAN /\ late \in BOOLEAN
    BY Zenon DEF Init
  <2>. QED
    BY <2>1, <2>2, <2>3, <2>4 DEF Rows
<1>2. till = [t \in Tills |-> Unread(Idle)] /\ sweep = [s \in Sweeps |-> Resting]
      /\ lock = {} /\ issued = 0
  BY DEF Init
<1>3. till \in [Tills -> Till] /\ \A t \in Tills : till[t].balance \in 0..issued /\ till[t].ask = Idle
  BY <1>2, IdleTill
<1>4. Holding
  BY <1>2, <1>3 DEF Holding, Till
<1>5. sweep \in [Sweeps -> Sweep]
  BY <1>2, RestingSweep
<1>6. Sweeping
  BY <1>2, <1>5 DEF Sweeping, Sweep
<1>7. Unsold
  BY <1>2, <1>3 DEF Unsold, Init
<1>. QED
  BY <1>1, <1>4, <1>6, <1>7 DEF RowHeld

\* The numbers every step below needs.
LEMMA IssuedIsNat == ASSUME Rows PROVE issued \in Nat /\ balance \in Nat
BY VouchersAssumption DEF Rows

\* A voucher is sold while nobody is at it.
LEMMA IssueKeeps == ASSUME RowHeld, NEW amount \in Amounts, Issue(amount) PROVE RowHeld'
<1>1. Rows /\ Unsold /\ Holding /\ Sweeping
  BY DEF RowHeld
<1>2. amount \in Nat \ {0} /\ issued = 0 /\ issued' = amount
  BY VouchersAssumption DEF Issue
<1>3. Rows'
  <2>1. NewEntry("issued", amount, None) \in Written
    BY <1>2, NewEntries DEF Kinds
  <2>2. entries' \in Seq(Written)
    BY <2>1 DEF Issue
  <2>3. balance' \in 0..issued'
    BY <1>2 DEF Issue
  <2>. QED
    BY <1>1, <1>2, <2>2, <2>3 DEF Rows, Issue
<1>4. lock = {}
  BY <1>1, <1>2 DEF Unsold, Holding
<1>5. Holding'
  <2>1. \A t \in Tills : till'[t].balance \in 0..issued'
    <3>1. \A t \in Tills : till[t].balance \in 0..0
      BY <1>1, <1>2 DEF Holding
    <3>. QED
      BY <1>2, <3>1 DEF Issue
  <2>. QED
    BY <1>1, <1>4, <2>1 DEF Holding, Issue
<1>6. Sweeping'
  BY <1>1, <1>4 DEF Sweeping, Sharing, Issue
<1>7. Unsold'
  BY <1>2 DEF Unsold
<1>. QED
  BY <1>3, <1>5, <1>6, <1>7 DEF RowHeld

\* A till that asks has not read the row yet.
LEMMA AskKeeps == ASSUME RowHeld, NEW t \in Tills, Ask(t) PROVE RowHeld'
<1>1. Rows /\ Unsold /\ Holding /\ Sweeping
  BY DEF RowHeld
<1>2. PICK q \in Requests : till' = [till EXCEPT ![t].ask = q]
  BY DEF Ask
<1>3. q \in Request
  <2>1. PICK l : l = late
    OBVIOUS
  <2>2. l \in BOOLEAN
    BY <1>1, <2>1, Zenon DEF Rows
  <2>3. \/ q \in [op : {"redeem"}, amount : Amounts, subject : Subjects, late : {l}]
        \/ q \in [op : {"release"}, amount : {0}, subject : Subjects, late : {l}]
        \/ q \in [op : {"adjust"}, amount : Amounts, subject : {None}, late : {l}]
        \/ q \in [op : {"cancel"}, amount : {0}, subject : {None}, late : {l}]
    BY <1>2, <2>1, Zenon DEF Requests
  <2>4. Amounts \subseteq Nat
    BY VouchersAssumption
  <2>5. {l} \subseteq BOOLEAN /\ {0} \subseteq Nat
    <3>1. {l} \subseteq BOOLEAN
      BY <2>2
    <3>. QED
      BY <3>1
  <2>6. \A Op, A, S, L, A1, L1 : A \subseteq A1 /\ L \subseteq L1
           => [op : Op, amount : A, subject : S, late : L] \subseteq [op : Op, amount : A1, subject : S, late : L1]
    OBVIOUS
  <2>7. \/ q \in [op : {"redeem"}, amount : Nat, subject : Subjects, late : BOOLEAN]
        \/ q \in [op : {"release"}, amount : Nat, subject : Subjects, late : BOOLEAN]
        \/ q \in [op : {"adjust"}, amount : Nat, subject : {None}, late : BOOLEAN]
        \/ q \in [op : {"cancel"}, amount : Nat, subject : {None}, late : BOOLEAN]
    BY <2>3, <2>4, <2>5, <2>6, Zenon
  <2>. QED
    BY <2>7 DEF Request
<1>4. t \notin lock /\ till \in [Tills -> Till]
  BY <1>1 DEF Ask, Holding, Till
<1>5. PICK k : k = [till[t] EXCEPT !.ask = q]
  OBVIOUS
<1>6. k \in Till /\ k.balance = till[t].balance
  BY <1>3, <1>4, <1>5 DEF Till
<1>7. till' = [till EXCEPT ![t] = k]
  BY <1>2, <1>5
<1>8. till' \in [Tills -> Till] /\ till'[t] = k /\ \A u \in Tills \ {t} : till'[u] = till[u]
  BY <1>4, <1>6, <1>7
<1>9. lock' = lock /\ entries' = entries /\ balance' = balance /\ cancelled' = cancelled
      /\ issued' = issued /\ late' = late /\ sweep' = sweep /\ issued > 0
  BY DEF Ask
<1>10. Holding'
  <2>1. \A u \in Tills : till'[u].balance \in 0..issued'
    BY <1>1, <1>6, <1>8, <1>9 DEF Holding
  <2>2. \A u \in lock : till'[u] = till[u]
    BY <1>1, <1>4, <1>8 DEF Holding
  <2>. QED
    BY <1>1, <1>8, <1>9, <2>1, <2>2 DEF Holding, Till
<1>11. Rows' /\ Sweeping' /\ Unsold'
  BY <1>1, <1>9 DEF Rows, Sweeping, Sharing, Unsold
<1>. QED
  BY <1>10, <1>11 DEF RowHeld

\* A till that locks the row reads it as it is, and no sweep shares it.
LEMMA LockedKeeps == ASSUME RowHeld, NEW t \in Tills, Locked(t) PROVE RowHeld'
<1>1. Rows /\ Unsold /\ Holding /\ Sweeping
  BY DEF RowHeld
<1>2. PICK v : v = -Against(entries, till[t].ask.subject)
  OBVIOUS
<1>3. v \in Int
  BY <1>1, <1>2, BalanceIsInt DEF Rows
<1>4. till \in [Tills -> Till] /\ till[t].ask # Idle
  BY <1>1 DEF Locked, Holding, Till
<1>5. PICK k : k = [till[t] EXCEPT !.balance = balance, !.cancelled = cancelled, !.taken = v]
  OBVIOUS
<1>6. k \in Till /\ k.balance = balance /\ k.cancelled = cancelled /\ k.taken = v
      /\ k.ask = till[t].ask
  <2>1. balance \in Int /\ cancelled \in BOOLEAN
    BY <1>1, IssuedIsNat DEF Rows
  <2>2. till[t] \in Till
    BY <1>4
  <2>. QED
    BY <1>3, <1>5, <2>1, <2>2 DEF Till
<1>7. till' = [till EXCEPT ![t] = k]
  BY <1>2, <1>5 DEF Locked
<1>8. till' \in [Tills -> Till] /\ till'[t] = k /\ \A u \in Tills \ {t} : till'[u] = till[u]
  BY <1>4, <1>6, <1>7
<1>9. lock' = {t} /\ Sharing = {} /\ entries' = entries /\ balance' = balance
      /\ cancelled' = cancelled /\ issued' = issued /\ late' = late /\ sweep' = sweep
  BY DEF Locked
<1>10. Holding'
  <2>1. \A u \in Tills : till'[u].balance \in 0..issued'
    BY <1>1, <1>6, <1>8, <1>9 DEF Holding, Rows
  <2>. QED
    BY <1>2, <1>4, <1>6, <1>8, <1>9, <2>1 DEF Holding, Till
<1>11. Sharing' = {}
  BY <1>9 DEF Sharing
<1>12. Rows' /\ Sweeping'
  BY <1>1, <1>9, <1>11 DEF Rows, Sweeping
<1>13. Unsold'
  BY <1>1, <1>4, <1>9 DEF Unsold
<1>. QED
  BY <1>10, <1>12, <1>13 DEF RowHeld

\* A till that writes leaves the row as checked, and lets it go.
LEMMA ApplyKeeps == ASSUME RowHeld, NEW t \in Tills, Apply(t) PROVE RowHeld'
<1>1. Rows /\ Unsold /\ Holding /\ Sweeping
  BY DEF RowHeld
<1>2. PICK e \in EntryOf(t) : /\ Checked(BalanceOf(Append(entries, e)))
                              /\ entries' = Append(entries, e)
                              /\ balance' = BalanceOf(Append(entries, e))
  BY DEF Apply
<1>3. t \in lock /\ End(t) /\ UNCHANGED <<issued, cancelled, late, sweep>>
  BY DEF Apply
<1>4. e \in Written
  BY <1>2, <1>3, EntryOfTill
<1>5. Rows'
  BY <1>1, <1>2, <1>3, <1>4, LedgerRows DEF Rows, Checked
<1>6. Holding' /\ lock' = {}
  BY <1>1, <1>3, IssuedIsNat, EndFrees
<1>7. Sweeping'
  BY <1>1, <1>3, <1>6 DEF Sweeping
<1>8. issued # 0
  BY <1>1, <1>3 DEF Unsold, Holding
<1>9. Unsold'
  BY <1>3, <1>8 DEF Unsold
<1>. QED
  BY <1>5, <1>6, <1>7, <1>9 DEF RowHeld

\* A till that writes no entry, whether or not it cancels.
LEMMA EndKeeps ==
    ASSUME RowHeld, NEW t \in lock, End(t), UNCHANGED <<issued, entries, balance, late, sweep>>,
           cancelled' \in BOOLEAN
    PROVE  RowHeld'
<1>1. Rows /\ Unsold /\ Holding /\ Sweeping
  BY DEF RowHeld
<1>2. Rows'
  BY <1>1 DEF Rows
<1>3. Holding' /\ lock' = {}
  BY <1>1, IssuedIsNat, EndFrees
<1>4. Sweeping'
  BY <1>1, <1>3 DEF Sweeping
<1>5. issued # 0
  BY <1>1 DEF Unsold, Holding
<1>6. Unsold'
  BY <1>5 DEF Unsold
<1>. QED
  BY <1>2, <1>3, <1>4, <1>6 DEF RowHeld

\* A sweep that moves, and writes nothing.
LEMMA SweepKeeps ==
    ASSUME RowHeld, NEW s \in Sweeps, NEW to \in Sweep,
           sweep' = [sweep EXCEPT ![s] = to],
           to.step \in {"inserted", "counted"} => lock = {},
           issued # 0,
           UNCHANGED <<issued, entries, balance, cancelled, late, lock, till>>
    PROVE  RowHeld'
<1>1. Rows /\ Unsold /\ Holding /\ Sweeping
  BY DEF RowHeld
<1>2. Rows' /\ Holding'
  BY <1>1 DEF Rows, Holding
<1>3. sweep \in [Sweeps -> Sweep]
  BY <1>1 DEF Sweeping, Sweep
<1>4. sweep' \in [Sweeps -> Sweep] /\ sweep'[s] = to /\ \A o \in Sweeps \ {s} : sweep'[o] = sweep[o]
  BY <1>3
<1>5. lock' # {} => Sharing' = {}
  <2> SUFFICES ASSUME lock' # {} PROVE Sharing' = {}
    OBVIOUS
  <2>1. Sharing = {} /\ to.step \notin {"inserted", "counted"}
    BY <1>1 DEF Sweeping
  <2>2. \A o \in Sweeps : sweep'[o].step \notin {"inserted", "counted"}
    BY <1>4, <2>1 DEF Sharing
  <2>. QED
    BY <2>2 DEF Sharing
<1>6. Sweeping'
  BY <1>4, <1>5 DEF Sweeping, Sweep
<1>7. Unsold'
  BY DEF Unsold
<1>. QED
  BY <1>2, <1>6, <1>7 DEF RowHeld

\* A sweep finds a voucher by its row, and holds nothing of it.
LEMMA FindKeeps == ASSUME RowHeld, NEW s \in Sweeps, Find(s) PROVE RowHeld'
<1>1. PICK to : to = [step |-> "found", amount |-> balance, count |-> 0]
  OBVIOUS
<1>2. to \in Sweep /\ to.step = "found"
  BY <1>1, IssuedIsNat DEF RowHeld, Sweep
<1>3. issued # 0 /\ sweep' = [sweep EXCEPT ![s] = to]
  BY <1>1, IssuedIsNat DEF Find, RowHeld
<1>4. UNCHANGED <<issued, entries, balance, cancelled, late, lock, till>>
  BY DEF Find
<1>. QED
  BY <1>2, <1>3, <1>4, SweepKeeps

\* A sweep under way is of a voucher that was sold.
LEMMA SweptIsSold ==
    ASSUME RowHeld, NEW s \in Sweeps, sweep[s].step # "resting"
    PROVE  /\ issued # 0 /\ sweep[s] \in Sweep
           /\ sweep[s].step \in {"inserted", "counted"} => lock = {}
           /\ WrittenOff(s) \in Written
<1>1. Rows /\ Unsold /\ Holding /\ Sweeping
  BY DEF RowHeld
<1>2. sweep[s] \in Sweep
  BY <1>1 DEF Sweeping, Sweep
<1>3. issued # 0
  BY <1>1, RestingSweep DEF Unsold
<1>4. sweep[s].amount \in Nat
  BY <1>2 DEF Sweep
<1>5. WrittenOff(s) \in Written
  BY <1>4, NewEntries DEF WrittenOff, Kinds
<1>6. sweep[s].step \in {"inserted", "counted"} => lock = {}
  BY <1>1 DEF Sweeping, Sharing
<1>. QED
  BY <1>2, <1>3, <1>5, <1>6

\* A sweep that inserts its entry waits for the till that holds the row.
LEMMA InsertKeeps == ASSUME RowHeld, NEW s \in Sweeps, Insert(s) PROVE RowHeld'
<1>1. issued # 0 /\ sweep[s] \in Sweep
  BY SweptIsSold DEF Insert
<1>2. PICK to : to = [sweep[s] EXCEPT !.step = "inserted"]
  OBVIOUS
<1>3. to \in Sweep
  BY <1>1, <1>2 DEF Sweep
<1>. QED
  BY <1>1, <1>2, <1>3, SweepKeeps DEF Insert

\* A sweep that counts changes only what it is going to write.
LEMMA CountKeeps == ASSUME RowHeld, NEW s \in Sweeps, Count(s) PROVE RowHeld'
<1>1. issued # 0 /\ sweep[s] \in Sweep /\ lock = {} /\ WrittenOff(s) \in Written
  BY SweptIsSold DEF Count
<1>2. PICK n : n = BalanceOf(Append(entries, WrittenOff(s)))
  OBVIOUS
<1>3. n \in Int
  BY <1>1, <1>2, LedgerRows, BalanceIsInt DEF RowHeld, Rows
<1>4. PICK to : to = [sweep[s] EXCEPT !.step = "counted", !.count = n]
  OBVIOUS
<1>5. to \in Sweep
  BY <1>1, <1>3, <1>4 DEF Sweep
<1>6. sweep' = [sweep EXCEPT ![s] = to]
  BY <1>2, <1>4 DEF Count
<1>7. UNCHANGED <<issued, entries, balance, cancelled, late, lock, till>>
  BY DEF Count
<1>. QED
  BY <1>1, <1>5, <1>6, <1>7, SweepKeeps

\* A sweep that commits leaves the row as checked, and shares it no more.
LEMMA CommitKeeps == ASSUME RowHeld, NEW s \in Sweeps, Commit(s) PROVE RowHeld'
<1>1. Rows /\ Unsold /\ Holding /\ Sweeping
  BY DEF RowHeld
<1>2. issued # 0 /\ lock = {} /\ WrittenOff(s) \in Written
  BY SweptIsSold DEF Commit
<1>3. Rows'
  BY <1>1, <1>2, LedgerRows DEF Rows, Commit, Checked
<1>4. Holding'
  BY <1>1, <1>2 DEF Holding, Commit
<1>5. sweep' \in [Sweeps -> Sweep]
  BY <1>1, RestingSweep DEF Sweeping, Commit, Sweep
<1>6. Sweeping'
  BY <1>2, <1>5 DEF Sweeping, Commit, Sweep
<1>7. Unsold'
  BY <1>2 DEF Unsold, Commit
<1>. QED
  BY <1>3, <1>4, <1>6, <1>7 DEF RowHeld

\* A sweep that ends and writes nothing: refused, or dead.
LEMMA SweepEnds ==
    ASSUME RowHeld, NEW s \in Sweeps, Refused(s) \/ Dies(s)
    PROVE  RowHeld'
<1>1. issued # 0
  BY RestingSweep DEF RowHeld, Unsold, Refused, Dies
<1>. QED
  BY <1>1, RestingSweep, SweepKeeps DEF Refused, Dies

\* No step leaves the invariant.
LEMMA RowHeldStep == RowHeld /\ [Next]_vars => RowHeld'
<1> SUFFICES ASSUME RowHeld, [Next]_vars PROVE RowHeld'
  OBVIOUS
<1>1. ASSUME NEW amount \in Amounts, Issue(amount) PROVE RowHeld'
  BY <1>1, IssueKeeps
<1>2. CASE Expires
  BY <1>2 DEF Expires, RowHeld, Rows, Unsold, Holding, Sweeping, Sharing
<1>3. ASSUME NEW t \in Tills, Ask(t) PROVE RowHeld'
  BY <1>3, AskKeeps
<1>4. ASSUME NEW t \in Tills, Locked(t) PROVE RowHeld'
  BY <1>4, LockedKeeps
<1>5. ASSUME NEW t \in Tills, Apply(t) PROVE RowHeld'
  BY <1>5, ApplyKeeps
<1>6. ASSUME NEW t \in Tills, Cancel(t) PROVE RowHeld'
  BY <1>6, EndKeeps DEF Cancel
<1>7. ASSUME NEW t \in Tills, Refuse(t) PROVE RowHeld'
  <2>1. cancelled' \in BOOLEAN
    BY <1>7 DEF Refuse, RowHeld, Rows
  <2>. QED
    BY <1>7, <2>1, EndKeeps DEF Refuse
<1>8. ASSUME NEW s \in Sweeps, Find(s) \/ Insert(s) \/ Count(s) \/ Commit(s) \/ Refused(s) \/ Dies(s)
      PROVE  RowHeld'
  BY <1>8, FindKeeps, InsertKeeps, CountKeeps, CommitKeeps, SweepEnds
<1>9. CASE UNCHANGED vars
  BY <1>9 DEF vars, RowHeld, Rows, Unsold, Holding, Sweeping, Sharing
<1>. QED
  BY <1>1, <1>2, <1>3, <1>4, <1>5, <1>6, <1>7, <1>8, <1>9 DEF Next

\* The invariant holds for ever.
LEMMA RowHeldAlways == Spec => []RowHeld
<1>. QED
  BY RowHeldInit, RowHeldStep, PTL DEF Spec

------------------------------------------------------------------------------
(* What the books keep.                                                    *)

\* A row that is not sold yet has no entries, and one that is sold gets one at
\* a time, at the end.
LEMMA EntriesGrow ==
    ASSUME RowHeld, [Next]_vars
    PROVE  \/ entries' = entries
           \/ \E amount \in Amounts : /\ issued = 0 /\ Issue(amount)
                                      /\ NewEntry("issued", amount, None) \in Written
                                      /\ entries' = Append(entries, NewEntry("issued", amount, None))
           \/ \E t \in lock : /\ Apply(t) /\ UNCHANGED <<cancelled, sweep>>
                              /\ \E e \in EntryOf(t) : /\ e \in Written
                                                       /\ entries' = Append(entries, e)
           \/ \E s \in Sweeps : /\ Commit(s) /\ WrittenOff(s) \in Written
                                /\ entries' = Append(entries, WrittenOff(s))
<1>1. ASSUME NEW amount \in Amounts, Issue(amount)
      PROVE  /\ issued = 0 /\ NewEntry("issued", amount, None) \in Written
             /\ entries' = Append(entries, NewEntry("issued", amount, None))
  <2>1. issued = 0 /\ amount \in Nat
    BY <1>1, VouchersAssumption DEF Issue
  <2>2. entries = <<>>
    BY <2>1 DEF RowHeld, Unsold
  <2>3. entries' = Append(entries, NewEntry("issued", amount, None))
    BY <1>1, <2>2 DEF Issue
  <2>. QED
    BY <2>1, <2>3, NewEntries DEF Kinds
<1>2. ASSUME NEW t \in Tills, Apply(t)
      PROVE  /\ t \in lock /\ UNCHANGED <<cancelled, sweep>>
             /\ \E e \in EntryOf(t) : e \in Written /\ entries' = Append(entries, e)
  BY <1>2, EntryOfTill DEF Apply
<1>3. ASSUME NEW s \in Sweeps, Commit(s)
      PROVE  WrittenOff(s) \in Written /\ entries' = Append(entries, WrittenOff(s))
  BY <1>3, SweptIsSold DEF Commit
<1>4. ASSUME NEW t \in Tills, Ask(t) \/ Locked(t) \/ Cancel(t) \/ Refuse(t) PROVE entries' = entries
  BY <1>4 DEF Ask, Locked, Cancel, Refuse
<1>5. ASSUME NEW s \in Sweeps, Find(s) \/ Insert(s) \/ Count(s) \/ Refused(s) \/ Dies(s)
      PROVE  entries' = entries
  BY <1>5 DEF Find, Insert, Count, Refused, Dies
<1>6. Expires \/ UNCHANGED vars => entries' = entries
  BY DEF Expires, vars
<1>. QED
  BY <1>1, <1>2, <1>3, <1>4, <1>5, <1>6 DEF Next

\* Once a cancellation has committed, no till and no sweep writes a
\* redemption: what a till read of it under the lock is what there is.
THEOREM NothingAfterCancelAlways == Spec => NothingAfterCancel
<1>1. ASSUME RowHeld, [Next]_vars, cancelled,
             NEW i \in DOMAIN entries' \ DOMAIN entries
      PROVE  entries'[i].kind # "redeemed"
  <2>1. entries \in Seq(Written)
    BY <1>1 DEF RowHeld, Rows
  <2>2. ASSUME NEW e \in Written, entries' = Append(entries, e)
        PROVE  entries'[i] = e
    BY <1>1, <2>1, <2>2, LedgerRows
  <2>3. entries' # entries
    BY <1>1
  <2>4. ASSUME NEW amount \in Amounts, NewEntry("issued", amount, None) \in Written,
               entries' = Append(entries, NewEntry("issued", amount, None))
        PROVE  entries'[i].kind # "redeemed"
    BY <2>2, <2>4 DEF NewEntry
  <2>5. ASSUME NEW t \in lock, NEW e \in EntryOf(t), e \in Written, entries' = Append(entries, e)
        PROVE  entries'[i].kind # "redeemed"
    <3>1. e.kind = "redeemed" => ~cancelled
      BY <1>1, <2>5, EntryOfTill
    <3>. QED
      BY <1>1, <2>2, <2>5, <3>1
  <2>6. ASSUME NEW s \in Sweeps, WrittenOff(s) \in Written, entries' = Append(entries, WrittenOff(s))
        PROVE  entries'[i].kind # "redeemed"
    BY <2>2, <2>6 DEF WrittenOff, NewEntry
  <2>. QED
    BY <1>1, <2>3, <2>4, <2>5, <2>6, EntriesGrow
<1>2. RowHeld /\ [Next]_vars
        => [cancelled => \A i \in DOMAIN entries' \ DOMAIN entries : entries'[i].kind # "redeemed"]_vars
  BY <1>1
<1>. QED
  BY <1>2, RowHeldAlways, PTL DEF Spec, NothingAfterCancel

\* An entry that gives back no more than is owed.
LEMMA ReleasedWithinTakenGrows ==
    ASSUME ReleasedWithinTaken, entries \in Seq(Written), NEW e \in Written,
           entries' = Append(entries, e),
           e.kind = "released" => e.subject \in Subjects /\ e.amount = -Against(entries, e.subject)
    PROVE  ReleasedWithinTaken'
<1> SUFFICES ASSUME NEW u \in Subjects
             PROVE  Of(entries, "released", u)' <= Of(entries, "redeemed", u)'
  BY DEF ReleasedWithinTaken
<1>1. PICK r : r = Of(entries, "released", u)
  OBVIOUS
<1>2. PICK k : k = Of(entries, "redeemed", u)
  OBVIOUS
<1>3. r \in Int /\ k \in Int /\ Against(entries, u) = r - k /\ r <= k
  BY <1>1, <1>2, AgainstIs DEF ReleasedWithinTaken
<1>4. Of(entries, "released", u)' = Of(Append(entries, e), "released", u)
      /\ Of(entries, "redeemed", u)' = Of(Append(entries, e), "redeemed", u)
  BY DEF Of
<1>5. e.amount \in Nat
  BY DEF Written, Entry
<1>6. /\ Of(Append(entries, e), "released", u)
           = r + (IF e.kind = "released" /\ e.subject = u THEN e.amount ELSE 0)
      /\ Of(Append(entries, e), "redeemed", u)
           = k + (IF e.kind = "redeemed" /\ e.subject = u THEN e.amount ELSE 0)
  BY <1>1, <1>2, OfWith
<1>7. CASE e.kind = "released" /\ e.subject = u
  BY <1>3, <1>4, <1>5, <1>6, <1>7
<1>8. CASE ~(e.kind = "released" /\ e.subject = u)
  BY <1>3, <1>4, <1>5, <1>6, <1>8
<1>. QED
  BY <1>7, <1>8

\* No step gives back what was not taken.
LEMMA ReleasedWithinTakenStep ==
    RowHeld /\ ReleasedWithinTaken /\ [Next]_vars => ReleasedWithinTaken'
<1> SUFFICES ASSUME RowHeld, ReleasedWithinTaken, [Next]_vars PROVE ReleasedWithinTaken'
  OBVIOUS
<1>1. entries \in Seq(Written)
  BY DEF RowHeld, Rows
<1>2. CASE entries' = entries
  BY <1>2 DEF ReleasedWithinTaken, Of
<1>3. ASSUME NEW amount \in Amounts, NewEntry("issued", amount, None) \in Written,
             entries' = Append(entries, NewEntry("issued", amount, None))
      PROVE  ReleasedWithinTaken'
  <2>1. NewEntry("issued", amount, None).kind # "released"
    BY DEF NewEntry
  <2>. QED
    BY <1>1, <1>3, <2>1, ReleasedWithinTakenGrows
<1>4. ASSUME NEW t \in lock, NEW e \in EntryOf(t), e \in Written, entries' = Append(entries, e)
      PROVE  ReleasedWithinTaken'
  BY <1>1, <1>4, EntryOfTill, ReleasedWithinTakenGrows
<1>5. ASSUME NEW s \in Sweeps, WrittenOff(s) \in Written, entries' = Append(entries, WrittenOff(s))
      PROVE  ReleasedWithinTaken'
  <2>1. WrittenOff(s).kind # "released"
    BY DEF WrittenOff, NewEntry
  <2>. QED
    BY <1>1, <1>5, <2>1, ReleasedWithinTakenGrows
<1>. QED
  BY <1>2, <1>3, <1>4, <1>5, EntriesGrow

\* However many tills and sweeps there are, no subject is given back more
\* than was taken for it.
THEOREM ReleasedWithinTakenAlways == Spec => []ReleasedWithinTaken
<1>1. Init => ReleasedWithinTaken
  <2> SUFFICES ASSUME Init, NEW u \in Subjects
               PROVE  Of(entries, "released", u) <= Of(entries, "redeemed", u)
    BY DEF ReleasedWithinTaken
  <2>1. \A kind : {i \in DOMAIN entries : entries[i].kind = kind /\ entries[i].subject = u} = {}
    BY DEF Init
  <2>2. \A kind : Of(entries, kind, u) = 0
    BY <2>1, SumOfNone DEF Of
  <2>. QED
    BY <2>2
<1>. QED
  BY <1>1, RowHeldAlways, ReleasedWithinTakenStep, PTL DEF Spec

\* What a sweep that shares the row has counted is what it will leave, as
\* long as no other sweep commits in between.
LEMMA CountedStep ==
    LoneSweep /\ RowHeld /\ Counted /\ LedgerAgrees /\ [Next]_vars => Counted' /\ LedgerAgrees'
<1> SUFFICES ASSUME LoneSweep, RowHeld, Counted, LedgerAgrees, [Next]_vars
             PROVE  Counted' /\ LedgerAgrees'
  OBVIOUS
<1>1. Rows /\ Unsold /\ Holding /\ Sweeping /\ entries \in Seq(Written) /\ Len(entries) \in Nat
  BY LenProperties DEF RowHeld, Rows
<1>2. sweep \in [Sweeps -> Sweep]
  BY <1>1 DEF Sweeping, Sweep
<1>3. ASSUME UNCHANGED <<entries, balance, sweep>>
      PROVE  Counted' /\ LedgerAgrees'
  BY <1>3 DEF Counted, LedgerAgrees, Sharing, WrittenOff, BalanceOf, Signs
\* The only sweep there is rests or has found something.
<1>4. ASSUME NEW s \in Sweeps, NEW to \in Sweep, sweep' = [sweep EXCEPT ![s] = to],
             to.step \notin {"inserted", "counted"}
      PROVE  Sharing' = {}
  <2>1. \A o \in Sweeps : sweep'[o] = to
    BY <1>2, <1>4 DEF LoneSweep
  <2>. QED
    BY <1>4, <2>1 DEF Sharing
<1>5. ASSUME NEW amount \in Amounts, Issue(amount) PROVE Counted' /\ LedgerAgrees'
  <2>1. amount \in Nat /\ issued = 0 /\ entries' = <<NewEntry("issued", amount, None)>>
        /\ balance' = amount /\ sweep' = sweep
    BY <1>5, VouchersAssumption DEF Issue
  <2>2. \A s \in Sweeps : sweep'[s] = Resting
    BY <1>1, <2>1 DEF Unsold
  <2>3. Sharing' = {}
    BY <2>2, RestingSweep DEF Sharing
  <2>4. Len(entries') = 1 /\ 1 <= MaxEntries
    BY <2>1, VouchersAssumption
  <2>5. NewEntry("issued", amount, None) \in Written
    BY <2>1, NewEntries DEF Kinds
  <2>6. BalanceOf(entries') = Signed(NewEntry("issued", amount, None))
    BY <2>1, <2>5, BalanceOfFirst
  <2>7. Signed(NewEntry("issued", amount, None)) = amount
    BY DEF Signed, NewEntry
  <2>. QED
    BY <2>1, <2>3, <2>4, <2>6, <2>7 DEF Counted, LedgerAgrees, BalanceOf, Signs
<1>6. ASSUME NEW t \in Tills, Apply(t) PROVE Counted' /\ LedgerAgrees'
  <2>1. PICK e \in EntryOf(t) : /\ entries' = Append(entries, e)
                                /\ balance' = BalanceOf(Append(entries, e))
    BY <1>6 DEF Apply
  <2>2. t \in lock /\ Len(entries) < MaxEntries /\ sweep' = sweep
    BY <1>6 DEF Apply
  <2>3. Sharing' = {}
    BY <1>1, <2>2 DEF Sweeping, Sharing
  <2>4. e \in Written
    BY <2>1, <2>2, EntryOfTill
  <2>5. Len(entries') <= MaxEntries
    BY <1>1, <2>1, <2>2, <2>4, LedgerRows, VouchersAssumption
  <2>6. balance' = BalanceOf(entries')
    BY <2>1
  <2>. QED
    BY <2>3, <2>5, <2>6 DEF Counted, LedgerAgrees, BalanceOf, Signs
<1>7. ASSUME NEW s \in Sweeps, Find(s) PROVE Counted' /\ LedgerAgrees'
  <2>1. PICK to : to = [step |-> "found", amount |-> balance, count |-> 0]
    OBVIOUS
  <2>2. to \in Sweep /\ to.step = "found"
    BY <1>1, <2>1, IssuedIsNat DEF Sweep
  <2>3. sweep' = [sweep EXCEPT ![s] = to] /\ entries' = entries /\ balance' = balance
    BY <1>7, <2>1 DEF Find
  <2>4. Sharing' = {}
    BY <1>4, <2>2, <2>3
  <2>. QED
    BY <2>3, <2>4 DEF Counted, LedgerAgrees, BalanceOf, Signs
<1>8. ASSUME NEW s \in Sweeps, Insert(s) PROVE Counted' /\ LedgerAgrees'
  <2>1. /\ sweep' = [sweep EXCEPT ![s].step = "inserted"]
        /\ entries' = entries /\ balance' = balance /\ Len(entries) < MaxEntries
    BY <1>8 DEF Insert
  <2>2. \A o \in Sweeps : sweep'[o].step = "inserted"
    BY <1>2, <2>1 DEF LoneSweep, Sweep
  <2>. QED
    BY <2>1, <2>2 DEF Counted, LedgerAgrees, Sharing, BalanceOf, Signs
<1>9. ASSUME NEW s \in Sweeps, Count(s) PROVE Counted' /\ LedgerAgrees'
  <2>1. PICK n : n = BalanceOf(Append(entries, WrittenOff(s)))
    OBVIOUS
  <2>2. /\ sweep' = [sweep EXCEPT ![s].step = "counted", ![s].count = n]
        /\ entries' = entries /\ balance' = balance /\ s \in Sharing
    BY <1>9, <2>1 DEF Count, Sharing
  <2>3. sweep'[s].count = n /\ sweep'[s].amount = sweep[s].amount
    BY <1>2, <2>2 DEF Sweep
  <2>4. \A o \in Sweeps : o = s
    BY DEF LoneSweep
  <2>5. WrittenOff(s)' = WrittenOff(s)
    BY <2>3 DEF WrittenOff
  <2>6. BalanceOf(Append(entries, WrittenOff(s)))' = n
    BY <2>1, <2>2, <2>5 DEF BalanceOf, Signs
  <2>7. Len(entries) < MaxEntries
    BY <2>2 DEF Counted
  <2>8. Counted'
    <3>1. \A o \in Sweeps : sweep'[o].count = BalanceOf(Append(entries, WrittenOff(o)))'
      <4>1. sweep'[s].count = BalanceOf(Append(entries', NewEntry("expired", sweep'[s].amount, None)))
        BY <2>3, <2>6 DEF WrittenOff, BalanceOf, Signs
      <4>2. \A o \in Sweeps : sweep'[o].count
              = BalanceOf(Append(entries', NewEntry("expired", sweep'[o].amount, None)))
        BY <2>4, <4>1
      <4>. QED
        BY <4>2 DEF WrittenOff, BalanceOf, Signs
    <3>2. \A o \in Sharing' : o \in Sweeps
      BY DEF Sharing
    <3>. QED
      BY <2>2, <2>7, <3>1, <3>2, LenProperties, <1>1, VouchersAssumption DEF Counted
  <2>. QED
    BY <2>2, <2>8 DEF LedgerAgrees, BalanceOf, Signs
<1>10. ASSUME NEW s \in Sweeps, Commit(s) PROVE Counted' /\ LedgerAgrees'
  <2>1. sweep' = [sweep EXCEPT ![s] = Resting] /\ s \in Sharing
        /\ entries' = Append(entries, WrittenOff(s)) /\ balance' = sweep[s].count
    BY <1>10 DEF Commit, Sharing
  <2>2. sweep[s].count = BalanceOf(entries') /\ Len(entries) < MaxEntries
    BY <1>10, <2>1 DEF Counted, Commit
  <2>3. Sharing' = {}
    BY <1>4, <2>1, RestingSweep
  <2>4. WrittenOff(s) \in Written
    BY <1>10, SweptIsSold DEF Commit
  <2>5. Len(entries') <= MaxEntries
    BY <1>1, <2>1, <2>2, <2>4, LedgerRows, VouchersAssumption
  <2>. QED
    BY <2>1, <2>2, <2>3, <2>5 DEF Counted, LedgerAgrees, BalanceOf, Signs
<1>11. ASSUME NEW s \in Sweeps, Refused(s) \/ Dies(s) PROVE Counted' /\ LedgerAgrees'
  <2>1. sweep' = [sweep EXCEPT ![s] = Resting] /\ entries' = entries /\ balance' = balance
    BY <1>11 DEF Refused, Dies
  <2>2. Sharing' = {}
    BY <1>4, <2>1, RestingSweep
  <2>. QED
    BY <2>1, <2>2 DEF Counted, LedgerAgrees, BalanceOf, Signs
<1>12. ASSUME NEW t \in Tills, Ask(t) \/ Locked(t) \/ Cancel(t) \/ Refuse(t)
       PROVE  UNCHANGED <<entries, balance, sweep>>
  BY <1>12 DEF Ask, Locked, Cancel, Refuse
<1>13. Expires \/ UNCHANGED vars => UNCHANGED <<entries, balance, sweep>>
  BY DEF Expires, vars
<1>. QED
  BY <1>3, <1>5, <1>6, <1>7, <1>8, <1>9, <1>10, <1>11, <1>12, <1>13 DEF Next

\* A ledger without entries is worth nothing.
LEMMA CountedInit == Init => Counted /\ LedgerAgrees
<1> SUFFICES ASSUME Init PROVE Counted /\ LedgerAgrees
  OBVIOUS
<1>1. entries = <<>> /\ balance = 0 /\ \A s \in Sweeps : sweep[s] = Resting
  BY DEF Init
<1>2. Sharing = {}
  BY <1>1, RestingSweep DEF Sharing
<1>3. DOMAIN entries = {}
  BY <1>1, EmptySeq, LenProperties
<1>4. BalanceOf(entries) = 0
  BY <1>3, SumOfNone DEF BalanceOf
<1>5. Len(entries) = 0 /\ 0 <= MaxEntries
  BY <1>1, VouchersAssumption
<1>. QED
  BY <1>1, <1>2, <1>4, <1>5 DEF Counted, LedgerAgrees

\* With sweeps that do not overlap, a count is true until it is committed.
LEMMA CountedAlways == LoneSweep => (Spec => [](Counted /\ LedgerAgrees))
<1> SUFFICES ASSUME LoneSweep PROVE Spec => [](Counted /\ LedgerAgrees)
  OBVIOUS
<1>1. RowHeld /\ (Counted /\ LedgerAgrees) /\ [Next]_vars => (Counted /\ LedgerAgrees)'
  BY CountedStep
<1>. QED
  BY <1>1, CountedInit, RowHeldAlways, PTL DEF Spec

\* Where sweeps do not overlap, the balance in the row is the sum of its
\* entries whatever the tills do, and nothing is given back twice.
THEOREM BooksBalanceAlways == LoneSweep => (Spec => []BooksBalance)
<1> SUFFICES ASSUME LoneSweep PROVE Spec => []BooksBalance
  OBVIOUS
<1>1. (Counted /\ LedgerAgrees) /\ ReleasedWithinTaken => BooksBalance
  BY DEF BooksBalance
<1>. QED
  BY <1>1, CountedAlways, ReleasedWithinTakenAlways, PTL

\* The type of every part of the row, its tills and its sweeps; the balance
\* between nothing and what was issued, the ledger within its bound.
THEOREM TypeCorrect == LoneSweep => (Spec => []TypeOK)
<1> SUFFICES ASSUME LoneSweep PROVE Spec => []TypeOK
  OBVIOUS
<1>1. RowHeld /\ (Counted /\ LedgerAgrees) => TypeOK
  <2> SUFFICES ASSUME RowHeld, Counted PROVE TypeOK
    OBVIOUS
  <2>1. Rows /\ Holding /\ Sweeping
    BY DEF RowHeld
  <2>2. entries \in Seq(Entry)
    <3>1. Written \subseteq Entry
      BY DEF Written
    <3>. QED
      BY <2>1, <3>1 DEF Rows
  <2>3. Request \subseteq Asked
    BY DEF Request, Asked
  <2>4. \A t \in Tills : /\ till[t].ask \in Asked \union {Idle}
                         /\ till[t].balance \in 0..issued /\ till[t].cancelled \in BOOLEAN
                         /\ till[t].taken \in Int
    BY <2>1, <2>3 DEF Holding
  <2>5. \A s \in Sweeps : sweep[s].step \in {"resting", "found", "inserted", "counted"}
    BY <2>1 DEF Sweeping
  <2>. QED
    BY <2>1, <2>2, <2>4, <2>5 DEF TypeOK, Rows, Holding, Counted
<1>. QED
  BY <1>1, CountedAlways, RowHeldAlways, PTL
=============================================================================
