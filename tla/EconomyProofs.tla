---------------------------- MODULE EconomyProofs ----------------------------
(***************************************************************************)
(* Theorems about GameEconomy, for any callers, currencies, keys, offers   *)
(* and order of the lots, and any bound on the entries.                    *)
(***************************************************************************)
EXTENDS GameEconomy, SumTheorems

\* The tables are finite, whatever of them is asked for.
LEMMA TablesAreFinite ==
    ASSUME Tables
    PROVE  /\ IsFiniteSet(DOMAIN entries) /\ IsFiniteSet(Lots) /\ IsFiniteSet(DOMAIN draws)
           /\ Lots \subseteq DOMAIN entries /\ DOMAIN entries \subseteq Nat
           /\ \A d \in DOMAIN draws : draws[d] \in Nat \ {0}
           /\ \A l \in Lots : remaining[l] \in Nat /\ entries[l].kind \in CreditKinds
<1>1. IsFiniteSet(1..seq) /\ DOMAIN entries \subseteq 1..seq /\ Lots \subseteq DOMAIN entries
  BY FS_Interval, EconomyAssumption DEF Tables, Lots
<1>2. IsFiniteSet(DOMAIN entries)
  BY <1>1, FS_Subset
<1>3. IsFiniteSet(Lots)
  BY <1>1, <1>2, FS_Subset
<1>4. IsFiniteSet((DOMAIN entries) \X Lots)
  BY <1>2, <1>3, FS_Product
<1>5. DOMAIN draws \subseteq (DOMAIN entries) \X Lots
  <2> SUFFICES ASSUME NEW d \in DOMAIN draws PROVE d \in (DOMAIN entries) \X Lots
    OBVIOUS
  <2>1. d = <<d[1], d[2]>> /\ d[1] \in DOMAIN entries /\ d[2] \in Lots
    BY DEF Tables, DrawIsOf
  <2>. QED
    BY <2>1
<1>6. IsFiniteSet(DOMAIN draws)
  BY <1>4, <1>5, FS_Subset
<1>7. \A l \in Lots : remaining[l] \in Nat /\ entries[l].kind \in CreditKinds
  BY DEF Tables, Lots
<1>8. \A d \in DOMAIN draws : draws[d] \in Nat \ {0}
  BY DEF Tables
<1>9. 1..seq \subseteq Nat
  BY EconomyAssumption DEF Tables
<1>. QED
  BY <1>1, <1>2, <1>3, <1>6, <1>7, <1>8, <1>9

-----------------------------------------------------------------------------
(* allocate: what a spend draws is what it asked for, the lots in order       *)

\* Of two lots one comes before the other.
LEMMA BeforeIsAnOrder ==
    ASSUME Tables, NEW l \in Lots, NEW m \in Lots, NEW n \in Lots
    PROVE  /\ ~Before(l, l)
           /\ Before(l, m) /\ Before(m, n) => Before(l, n)
           /\ l = m \/ Before(l, m) \/ Before(m, l)
<1>1. \A x \in Lots : x \in Nat /\ Rank[entries[x].kind] \in Nat
  BY TablesAreFinite, EconomyAssumption
<1>. QED
  BY <1>1 DEF Before

\* Of some lots one comes last.
LEMMA LastLot ==
    ASSUME Tables, NEW D, D \subseteq Lots, D # {}
    PROVE  \E g \in D : \A m \in D : m = g \/ Before(m, g)
<1> DEFINE Last(E) == \E g \in E : \A m \in E : m = g \/ Before(m, g)
           X == {E \in SUBSET D : E # {} /\ ~Last(E)}
<1>1. IsFiniteSet(D)
  BY TablesAreFinite, FS_Subset
<1>2. SUFFICES ASSUME X # {} PROVE FALSE
  <2>1. D \notin X
    BY <1>2
  <2>. QED
    BY <2>1
<1>3. PICK E \in X : \A U \in X : U \subseteq E => U = E
  <2>1. X \subseteq SUBSET D
    OBVIOUS
  <2> HIDE DEF X
  <2>. QED
    BY <1>1, <1>2, <2>1, SmallestPart
<1>4. PICK x \in E : TRUE
  BY <1>3
<1>5. E \ {x} # {} /\ Last(E \ {x})
  <2>1. CASE E \ {x} = {}
    <3>1. Last(E)
      BY <1>4, <2>1
    <3>. QED
      BY <1>3, <3>1
  <2>2. CASE ~Last(E \ {x}) /\ E \ {x} # {}
    <3>1. E \ {x} \in X
      <4>1. E \ {x} \in SUBSET D
        BY <1>3
      <4> HIDE DEF Last
      <4>. QED
        BY <2>2, <4>1
    <3>2. E \ {x} = E
      BY <1>3, <3>1
    <3>. QED
      BY <1>4, <3>2
  <2>. QED
    BY <2>1, <2>2
<1>6. PICK g \in E \ {x} : \A m \in E \ {x} : m = g \/ Before(m, g)
  BY <1>5
<1>7. E \subseteq Lots
  BY <1>3
<1>8. Last(E)
  <2>1. CASE Before(x, g)
    BY <1>4, <1>6, <2>1
  <2>2. CASE Before(g, x)
    <3>1. \A m \in E : m = x \/ Before(m, x)
      BY <1>6, <1>7, <1>4, <2>2, BeforeIsAnOrder
    <3>. QED
      BY <1>4, <3>1
  <2>. QED
    BY <1>4, <1>6, <1>7, <2>1, <2>2, BeforeIsAnOrder
<1>. QED
  BY <1>3, <1>8

\* Lots that leave out none that comes before one of them.
Foremost(D, u) == D \subseteq OpenLots(u) /\ \A l \in D, m \in OpenLots(u) : Before(m, l) => m \in D
Ahead(l, u) == {m \in OpenLots(u) : Before(m, l)}

\* What is ahead of a lot, and what is taken of it.
LEMMA TakenIs ==
    ASSUME Tables, NEW u \in Currencies, NEW amount \in Nat, NEW l \in OpenLots(u)
    PROVE  LET ahead == SumFunctionOnSet(remaining, Ahead(l, u)) IN
           /\ ahead \in Nat
           /\ IsFiniteSet(Ahead(l, u)) /\ IsFiniteSet(OpenLots(u)) /\ OpenLots(u) \subseteq Lots
           /\ remaining[l] \in Nat \ {0}
           /\ Taken(l, u, amount) =
                IF ahead >= amount THEN 0
                ELSE IF remaining[l] < amount - ahead THEN remaining[l] ELSE amount - ahead
           /\ Taken(l, u, amount) \in 0..remaining[l]
<1> DEFINE ahead == SumFunctionOnSet(remaining, Ahead(l, u))
<1>1. OpenLots(u) \subseteq Lots /\ Ahead(l, u) \subseteq OpenLots(u)
      /\ \A m \in OpenLots(u) : remaining[m] \in Nat \ {0}
  BY TablesAreFinite DEF OpenLots, Ahead
<1>2. IsFiniteSet(Ahead(l, u)) /\ IsFiniteSet(OpenLots(u))
  BY <1>1, TablesAreFinite, FS_Subset
<1>3. ahead \in Nat
  BY <1>1, <1>2, SumIsNat
<1>4. Taken(l, u, amount) =
                IF ahead >= amount THEN 0
                ELSE IF remaining[l] < amount - ahead THEN remaining[l] ELSE amount - ahead
  BY DEF Taken, Ahead
<1> HIDE DEF ahead
<1>5. Taken(l, u, amount) \in 0..remaining[l]
  BY <1>1, <1>3, <1>4
<1>. QED
  BY <1>1, <1>2, <1>3, <1>4, <1>5 DEF ahead

\* What is taken of the foremost lots is the amount, or all there is in them.
LEMMA TakenInAll ==
    ASSUME Tables, NEW u \in Currencies, NEW amount \in Nat, NEW t,
           t = [l \in OpenLots(u) |-> Taken(l, u, amount)],
           NEW D, Foremost(D, u)
    PROVE  SumFunctionOnSet(t, D) =
             IF SumFunctionOnSet(remaining, D) >= amount THEN amount
             ELSE SumFunctionOnSet(remaining, D)
<1> DEFINE Right(E) == SumFunctionOnSet(t, E) = IF SumFunctionOnSet(remaining, E) >= amount THEN amount
                                               ELSE SumFunctionOnSet(remaining, E)
           X == {E \in SUBSET D : Foremost(E, u) /\ ~Right(E)}
<1>1. D \subseteq OpenLots(u) /\ OpenLots(u) \subseteq Lots /\ IsFiniteSet(OpenLots(u))
  <2>1. OpenLots(u) \subseteq Lots
    BY DEF OpenLots
  <2>. QED
    BY <2>1, TablesAreFinite, FS_Subset DEF Foremost
<1>2. IsFiniteSet(D)
  BY <1>1, FS_Subset
<1>3. SUFFICES ASSUME X # {} PROVE FALSE
  <2>1. D \notin X
    BY <1>3
  <2>. QED
    BY <2>1
<1>4. PICK E \in X : \A U \in X : U \subseteq E => U = E
  <2>1. X \subseteq SUBSET D
    OBVIOUS
  <2> HIDE DEF X
  <2>. QED
    BY <1>2, <1>3, <2>1, SmallestPart
<1>5. E \subseteq OpenLots(u) /\ IsFiniteSet(E) /\ Foremost(E, u) /\ E \subseteq D
  BY <1>1, <1>2, <1>4, FS_Subset
<1>6. \A l \in OpenLots(u) : /\ remaining[l] \in Nat \ {0} /\ t[l] \in 0..remaining[l]
                             /\ t[l] \in Int /\ remaining[l] \in Int
  BY TakenIs
<1>7. E # {}
  <2>1. CASE E = {}
    <3>1. SumFunctionOnSet(t, {}) = 0 /\ SumFunctionOnSet(remaining, {}) = 0
      BY SumOfNone
    <3>2. Right(E)
      BY <2>1, <3>1
    <3>. QED
      BY <1>4, <3>2
  <2>. QED
    BY <2>1
<1>8. PICK g \in E : \A m \in E : m = g \/ Before(m, g)
  BY <1>1, <1>5, <1>7, LastLot
<1>9. E \ {g} = Ahead(g, u)
  <2>1. \A m \in E : m \in Lots
    BY <1>1, <1>5
  <2>2. \A m \in E \ {g} : m \in Ahead(g, u)
    BY <1>5, <1>8 DEF Ahead
  <2>3. \A m \in Ahead(g, u) : m \in E /\ m # g
    BY <1>5, <2>1, BeforeIsAnOrder DEF Ahead, Foremost
  <2>. QED
    BY <2>2, <2>3
<1>10. Foremost(E \ {g}, u)
  <2> SUFFICES ASSUME NEW l \in E \ {g}, NEW m \in OpenLots(u), Before(m, l)
               PROVE  m \in E \ {g}
    BY <1>5 DEF Foremost
  <2>1. m \in E
    BY <1>5 DEF Foremost
  <2>2. l \in Lots /\ g \in Lots /\ m \in Lots /\ Before(l, g)
    BY <1>1, <1>5, <1>8
  <2>3. m # g
    BY <2>2, BeforeIsAnOrder
  <2>. QED
    BY <2>1, <2>3
<1>11. Right(E \ {g})
  BY <1>4, <1>5, <1>8, <1>10
<1> DEFINE ahead == SumFunctionOnSet(remaining, E \ {g})
           took == SumFunctionOnSet(t, E \ {g})
<1>12. SumFunctionOnSet(remaining, E) = remaining[g] + ahead /\ SumFunctionOnSet(t, E) = t[g] + took
  BY <1>5, <1>6, SumWithout
<1>13. ahead \in Nat
       /\ t[g] = IF ahead >= amount THEN 0
                 ELSE IF remaining[g] < amount - ahead THEN remaining[g] ELSE amount - ahead
  BY <1>5, <1>9, TakenIs
<1>14. took = IF ahead >= amount THEN amount ELSE ahead
  BY <1>11
<1>15. remaining[g] \in Nat
  BY <1>5, <1>6
<1> HIDE DEF ahead, took
<1>16. t[g] + took = IF remaining[g] + ahead >= amount THEN amount ELSE remaining[g] + ahead
  BY <1>13, <1>14, <1>15
<1>17. Right(E)
  BY <1>12, <1>16
<1>. QED
  BY <1>4, <1>17

\* What allocate() plans is on open lots, comes to the amount, and goes into no
\* lot before it has emptied those ahead of it.
LEMMA Allocated ==
    ASSUME Tables, NEW u \in Currencies, NEW amount \in Nat \ {0}, Covers(u, amount), NEW p,
           p = Allocate(u, amount)
    PROVE  /\ DOMAIN p \subseteq OpenLots(u) /\ p \in [DOMAIN p -> Nat \ {0}]
           /\ \A l \in DOMAIN p : p[l] <= remaining[l]
           /\ SumFunctionOnSet(p, DOMAIN p) = amount
           /\ \A l \in DOMAIN p, m \in OpenLots(u) :
                Before(m, l) => m \in DOMAIN p /\ p[m] = remaining[m]
<1> DEFINE O == OpenLots(u)
           t == [l \in O |-> Taken(l, u, amount)]
           P == {m \in O : Taken(m, u, amount) > 0}
<1>1. p = [l \in P |-> Taken(l, u, amount)]
  BY DEF Allocate
<1>2. DOMAIN p = P /\ P \subseteq O /\ \A l \in P : p[l] = t[l]
  BY <1>1
<1>3. O \subseteq Lots /\ IsFiniteSet(O)
  <2>1. O \subseteq Lots
    BY DEF OpenLots
  <2>. QED
    BY <2>1, TablesAreFinite, FS_Subset
<1>4. \A l \in O : remaining[l] \in Nat \ {0} /\ Taken(l, u, amount) \in 0..remaining[l]
  BY TakenIs
<1>5. IsFiniteSet(P) /\ IsFiniteSet(O \ P)
  BY <1>2, <1>3, FS_Subset
<1>6. SumFunctionOnSet(t, O) = amount
  <2>1. Foremost(O, u)
    BY DEF Foremost
  <2>2. SumFunctionOnSet(remaining, O) >= amount
    BY DEF Covers
  <2>. QED
    BY <2>1, <2>2, TakenInAll
<1>7. SumFunctionOnSet(t, O \ P) = 0
  <2>1. \A l \in O \ P : t[l] = 0
    BY <1>4
  <2>. QED
    BY <2>1, <1>5, SumOfZeros
<1>8. SumFunctionOnSet(t, O) = SumFunctionOnSet(t, P) + SumFunctionOnSet(t, O \ P)
  <2>1. P \union (O \ P) = O /\ P \intersect (O \ P) = {}
    BY <1>2
  <2>2. \A l \in O : t[l] \in Int
    BY <1>4
  <2> HIDE DEF t, P, O
  <2>. QED
    BY <2>1, <2>2, <1>5, SumOfBoth
<1>9. SumFunctionOnSet(p, P) = SumFunctionOnSet(t, P) /\ SumFunctionOnSet(t, P) \in Int
  <2>1. \A l \in P : t[l] \in Int
    BY <1>2, <1>4
  <2> HIDE DEF t, P, O
  <2>. QED
    BY <1>2, <1>5, <2>1, SumOfEqual, SumIsInt
<1>10. ASSUME NEW l \in P, NEW m \in O, Before(m, l)
       PROVE  m \in P /\ p[m] = remaining[m]
  <2> DEFINE al == SumFunctionOnSet(remaining, Ahead(l, u))
             am == SumFunctionOnSet(remaining, Ahead(m, u))
  <2>1. al \in Nat /\ am \in Nat /\ IsFiniteSet(Ahead(l, u)) /\ IsFiniteSet(Ahead(m, u))
    BY <1>2, TakenIs
  <2>2. al < amount
    <3>1. Taken(l, u, amount) > 0
      OBVIOUS
    <3>2. al >= amount => Taken(l, u, amount) = 0
      BY <1>2, TakenIs
    <3> HIDE DEF al
    <3>. QED
      BY <2>1, <3>1, <3>2
  <2>3. m \in Lots /\ l \in Lots
    BY <1>2, <1>3
  <2>4. Ahead(m, u) \union {m} \subseteq Ahead(l, u) /\ m \notin Ahead(m, u)
    <3>1. \A n \in Ahead(m, u) : n \in Lots /\ n \in O /\ Before(n, l)
      BY <1>3, <1>10, <2>3, BeforeIsAnOrder DEF Ahead
    <3>2. m \notin Ahead(m, u)
      BY <2>3, BeforeIsAnOrder DEF Ahead
    <3>. QED
      BY <3>1, <3>2, <1>10 DEF Ahead
  <2>5. am + remaining[m] <= al
    <3> DEFINE A == Ahead(m, u)  B == Ahead(l, u)
    <3>1. \A n \in B : remaining[n] \in Nat /\ remaining[n] \in Int
      BY <1>4 DEF Ahead
    <3>2. IsFiniteSet(B \ (A \union {m})) /\ IsFiniteSet(A \union {m})
      BY <2>1, <2>4, FS_Subset
    <3>3. SumFunctionOnSet(remaining, A \union {m}) = am + remaining[m]
      BY <2>1, <2>4, <3>1, SumWith
    <3>4. B = (A \union {m}) \union (B \ (A \union {m})) /\ (A \union {m}) \intersect (B \ (A \union {m})) = {}
      BY <2>4
    <3>5. al = SumFunctionOnSet(remaining, A \union {m}) + SumFunctionOnSet(remaining, B \ (A \union {m}))
      <4> DEFINE C == A \union {m}  R == B \ C
      <4>1. B = C \union R /\ C \intersect R = {} /\ IsFiniteSet(C) /\ IsFiniteSet(R)
        BY <3>4, <3>2
      <4>2. al = SumFunctionOnSet(remaining, B)
        OBVIOUS
      <4> HIDE DEF A, B, C, R, al
      <4>3. \A n \in C \union R : remaining[n] \in Int
        BY <4>1, <3>1
      <4>4. SumFunctionOnSet(remaining, C \union R) = SumFunctionOnSet(remaining, C) + SumFunctionOnSet(remaining, R)
        BY <4>1, <4>3, SumOfBoth
      <4>. QED
        BY <4>1, <4>2, <4>4 DEF C, R
    <3>6. SumFunctionOnSet(remaining, B \ (A \union {m})) \in Nat
      BY <3>1, <3>2, SumIsNat
    <3>7. remaining[m] \in Nat
      BY <1>4
    <3> HIDE DEF A, B, al, am
    <3>. QED
      BY <2>1, <3>3, <3>5, <3>6, <3>7
  <2>6. Taken(m, u, amount) = IF am >= amount THEN 0
             ELSE IF remaining[m] < amount - am THEN remaining[m] ELSE amount - am
    BY TakenIs
  <2>7. remaining[m] \in Nat \ {0}
    BY <1>4
  <2> HIDE DEF al, am
  <2>8. Taken(m, u, amount) = remaining[m]
    BY <2>1, <2>2, <2>5, <2>6, <2>7
  <2>9. m \in P
    BY <2>7, <2>8
  <2>. QED
    BY <1>1, <2>8, <2>9
<1>11. p \in [DOMAIN p -> Nat \ {0}] /\ \A l \in DOMAIN p : p[l] <= remaining[l]
  <2>1. \A l \in P : p[l] = Taken(l, u, amount) /\ Taken(l, u, amount) > 0 /\ l \in O
    BY <1>1
  <2>2. \A l \in P : p[l] \in Nat \ {0} /\ p[l] <= remaining[l]
    BY <2>1, <1>4
  <2>. QED
    BY <1>1, <1>2, <2>2
<1>12. SumFunctionOnSet(p, DOMAIN p) = amount
  BY <1>2, <1>6, <1>7, <1>8, <1>9
<1>. QED
  BY <1>2, <1>10, <1>11, <1>12

-----------------------------------------------------------------------------
(* The books: what a step does to them that writes no entry                   *)

\* Sums that say the same of the tables as they were.
LEMMA SumsStand ==
    ASSUME entries' = entries, remaining' = remaining, draws' = draws
    PROVE  /\ Lots' = Lots /\ Signs' = Signs
           /\ \A u : EntriesOf(u)' = EntriesOf(u) /\ LotsOf(u)' = LotsOf(u)
           /\ \A l : DrawnOn(l)' = DrawnOn(l) /\ DrawnBy(l)' = DrawnBy(l) /\ GivenBack(l)' = GivenBack(l)
           /\ \A D : Drawn(D)' = SumFunctionOnSet(draws, D)
           /\ \A l, m : Before(l, m)' <=> Before(l, m)
BY DEF Lots, Signs, EntriesOf, LotsOf, DrawnOn, DrawnBy, GivenBack, Drawn, Before

\* The books stand where no entry is written: a balance row may be made, of 0.
LEMMA BooksStand ==
    ASSUME Books, entries' = entries, remaining' = remaining, draws' = draws, seq' = seq,
           recent' \in BOOLEAN, balance' \in [Currencies -> Nat \union {NoRow}],
           \A u \in Currencies : balance'[u] = balance[u] \/ (balance[u] = NoRow /\ balance'[u] = 0)
    PROVE  Books'
<1>1. NoRow # 0
  BY EconomyAssumption
<1>2. Tables'
  <2>1. \A e \in DOMAIN entries : entries[e].currency \in Currencies
    BY DEF Books, Tables, Entry
  <2>2. \A e \in DOMAIN entries : balance'[entries[e].currency] # NoRow
    BY <1>1, <2>1 DEF Books, Tables
  <2>. QED
    BY <2>2 DEF Books, Tables, Lots, DrawIsOf
<1>3. Agrees'
  <2> SUFFICES ASSUME NEW u \in Currencies
               PROVE  LET ledger == SumFunctionOnSet(Signs', EntriesOf(u)') IN
                      /\ ledger = SumFunctionOnSet(remaining', LotsOf(u)')
                      /\ ledger = IF balance'[u] = NoRow THEN 0 ELSE balance'[u]
                      /\ \A e \in EntriesOf(u)' :
                           entries'[e].after = SumFunctionOnSet(Signs', {f \in EntriesOf(u)' : f <= e})
    BY DEF Agrees
  <2>1. Signs' = Signs /\ EntriesOf(u)' = EntriesOf(u) /\ LotsOf(u)' = LotsOf(u)
    BY SumsStand
  <2>2. (IF balance'[u] = NoRow THEN 0 ELSE balance'[u]) = (IF balance[u] = NoRow THEN 0 ELSE balance[u])
    BY <1>1
  <2>. QED
    BY <2>1, <2>2 DEF Books, Agrees
<1>4. DrawsAccount'
  BY SumsStand DEF Books, DrawsAccount, Drawn
<1>5. SpentInOrder'
  BY SumsStand DEF Books, SpentInOrder, Drawn
<1>6. RefundedWhole'
  BY SumsStand DEF Books, RefundedWhole
<1>7. ReversedWhole'
  BY SumsStand DEF Books, ReversedWhole, Drawn
<1>. QED
  BY <1>2, <1>3, <1>4, <1>5, <1>6, <1>7 DEF Books

\* Tables with nothing in them.
LEMMA EmptyBooks ==
    ASSUME entries = <<>>, remaining = <<>>, draws = <<>>, seq \in 0..MaxEntries,
           recent \in BOOLEAN, balance = [u \in Currencies |-> NoRow]
    PROVE  Books
<1>1. DOMAIN entries = {} /\ DOMAIN draws = {} /\ Lots = {}
  BY DEF Lots
<1>2. Tables
  <2>1. {e \in DOMAIN entries : entries[e].kind \in CreditKinds} = {}
    BY <1>1
  <2>2. entries \in [DOMAIN entries -> Entry] /\ remaining \in [{} -> Nat]
        /\ draws \in [DOMAIN draws -> Nat \ {0}]
    BY <1>1 DEF Lots
  <2>3. balance \in [Currencies -> Nat \union {NoRow}]
    OBVIOUS
  <2>. QED
    BY <1>1, <2>1, <2>2, <2>3 DEF Tables
<1>3. Agrees
  <2>1. \A u : EntriesOf(u) = {} /\ LotsOf(u) = {}
    BY <1>1 DEF EntriesOf, LotsOf
  <2>2. \A f : SumFunctionOnSet(f, {}) = 0
    BY SumOfNone
  <2>. QED
    BY <2>1, <2>2 DEF Agrees
<1>. QED
  BY <1>1, <1>2, <1>3 DEF Books, DrawsAccount, SpentInOrder, RefundedWhole, ReversedWhole

-----------------------------------------------------------------------------
(* The books: an entry written, with its draws                                *)

IsCredit(q) == q.op \in CreditKinds

\* What is known of a plan that is about to be written.
Fitting(q, p) ==
    /\ q \in Request
    /\ DOMAIN p \subseteq LotsOf(q.currency) /\ p \in [DOMAIN p -> Nat \ {0}]
    /\ \A l \in DOMAIN p : p[l] <= remaining[l]
    /\ IsCredit(q) => DOMAIN p = {}
    /\ q.op = "spend" =>
         /\ SumFunctionOnSet(p, DOMAIN p) = q.amount
         /\ \A l \in DOMAIN p, m \in LotsOf(q.currency) : Before(m, l) => Left(p)[m] = 0
    /\ IF q.op \in GiveBacks
       THEN /\ DOMAIN p = {q.of} /\ p[q.of] = remaining[q.of] /\ GivenBack(q.of) = {}
            /\ q.op = "refund" => p[q.of] = q.amount
            /\ entries[q.of].kind = "purchase" /\ entries[q.of].amount = q.amount
       ELSE q.of = NoEntry

\* What Write does to the tables.
Entered(q, p, id, amount, was) ==
    /\ id = seq + 1 /\ id \in 1..MaxEntries /\ seq' = id /\ recent' \in BOOLEAN
    /\ amount \in Nat \ {0}
    /\ IsCredit(q) => amount = q.amount
    /\ ~IsCredit(q) => amount = SumFunctionOnSet(p, DOMAIN p)
    /\ was = IF balance[q.currency] = NoRow THEN 0 ELSE balance[q.currency]
    /\ NewBalance(q, was, amount) \in Nat
    /\ balance' = [balance EXCEPT ![q.currency] = NewBalance(q, was, amount)]
    /\ entries' = [i \in DOMAIN entries \union {id} |->
         IF i # id THEN entries[i]
         ELSE [kind |-> q.op, currency |-> q.currency, amount |-> amount,
               after |-> NewBalance(q, was, amount), key |-> q.key, refundOf |-> q.of]]
    /\ remaining' = IF IsCredit(q)
                    THEN [l \in Lots \union {id} |-> IF l = id THEN amount ELSE remaining[l]]
                    ELSE Left(p)
    /\ draws' = [d \in DOMAIN draws \union {<<id, l>> : l \in DOMAIN p} |->
                   IF d[1] = id THEN p[d[2]] ELSE draws[d]]

\* The plan was made for the lots as they are, and makes the entry's amount.
LEMMA WriteIsFitting ==
    ASSUME Books, Callings, NEW c \in Callers, Write(c)
    PROVE  /\ Fitting(ask[c], plan[c])
           /\ Entered(ask[c], plan[c], seq + 1, AmountOf(ask[c], plan[c]), seen[c])
<1> DEFINE q == ask[c]  p == plan[c]
<1>1. pc[c] = "writing" /\ Asked(c) /\ Reads(c) /\ Planned(c)
  BY DEF Write, Callings, Standing
<1>2. Fitting(q, p)
  <2>1. q.op \in GiveBacks => q.of \in Lots
    BY <1>1 DEF Planned, LotsOf
  <2>2. q.op \notin GiveBacks => q.of = NoEntry
    BY <1>1 DEF Asked
  <2>. QED
    BY <1>1, <2>1, <2>2 DEF Fitting, Planned, Asked, IsCredit
<1>3. seen[c] = IF balance[q.currency] = NoRow THEN 0 ELSE balance[q.currency]
  BY <1>1 DEF Reads, Kept
<1>4. IF IsCredit(q) \/ q.op = "spend" THEN AmountOf(q, p) = q.amount
      ELSE AmountOf(q, p) = SumFunctionOnSet(p, DOMAIN p)
  BY <1>1 DEF Asked, Request, AmountOf, IsCredit, EntryKinds, CreditKinds, GiveBacks
<1>5. ~IsCredit(q) => AmountOf(q, p) = SumFunctionOnSet(p, DOMAIN p)
  BY <1>2, <1>4 DEF Fitting
<1>6. AmountOf(q, p) \in Nat \ {0}
  <2>1. CASE IsCredit(q) \/ q.op = "spend"
    BY <2>1, <1>2, <1>4 DEF Fitting, Request
  <2>2. CASE ~(IsCredit(q) \/ q.op = "spend")
    <3>1. q.op \in GiveBacks
      BY <2>2, <1>2 DEF Fitting, Request, EntryKinds, IsCredit
    <3>2. DOMAIN p = {q.of} /\ p[q.of] \in Nat \ {0}
      BY <1>2, <3>1 DEF Fitting
    <3>3. SumFunctionOnSet(p, {q.of}) = p[q.of]
      BY <3>2, SumOfOne
    <3>. QED
      BY <2>2, <1>4, <3>2, <3>3
  <2>. QED
    BY <2>1, <2>2
<1>7. seq \in Nat /\ MaxEntries \in Nat /\ seq < MaxEntries
  BY EconomyAssumption DEF Books, Tables, Write
<1>8. IsCredit(q) => AmountOf(q, p) = q.amount
  BY <1>4
<1>9. balance \in [Currencies -> Nat \union {NoRow}] /\ q.currency \in Currencies
  BY <1>2 DEF Books, Tables, Fitting, Request
<1>10. NewBalance(q, seen[c], AmountOf(q, p)) \in Nat
  <2>1. seen[c] \in Nat
    BY DEF Callings, Sessions
  <2>2. NewBalance(q, seen[c], AmountOf(q, p)) >= 0
    BY DEF Write
  <2>. QED
    BY <1>6, <2>1, <2>2 DEF NewBalance
<1>11. recent \in BOOLEAN
  BY DEF Books, Tables
<1>12. recent' \in BOOLEAN
  BY <1>11 DEF Write
<1>. QED
  BY <1>2, <1>3, <1>5, <1>6, <1>7, <1>8, <1>10, <1>12 DEF Entered, Write, Finish, IsCredit

\* The tables one by one, after the entry.
Effect(q, p, id, amount, was) ==
    /\ id \in Nat /\ id \notin DOMAIN entries
    /\ \A e \in DOMAIN entries : e \in Nat /\ e < id /\ e # id /\ entries'[e] = entries[e]
    /\ DOMAIN entries' = DOMAIN entries \union {id}
    /\ entries'[id] = [kind |-> q.op, currency |-> q.currency, amount |-> amount,
                       after |-> NewBalance(q, was, amount), key |-> q.key, refundOf |-> q.of]
    /\ Lots \subseteq DOMAIN entries
    /\ Lots' = IF IsCredit(q) THEN Lots \union {id} ELSE Lots
    /\ \A l \in Lots : /\ remaining'[l] = IF l \in DOMAIN p THEN remaining[l] - p[l] ELSE remaining[l]
                       /\ remaining[l] \in Nat /\ remaining'[l] \in Nat /\ remaining'[l] <= remaining[l]
    /\ IsCredit(q) => remaining'[id] = amount
    /\ DOMAIN draws' = DOMAIN draws \union {<<id, l>> : l \in DOMAIN p}
    /\ \A d \in DOMAIN draws : /\ d[1] \in DOMAIN entries /\ d[2] \in Lots /\ d[1] # id /\ d[1] < id
                               /\ draws'[d] = draws[d] /\ draws[d] \in Nat \ {0}
    /\ \A l \in DOMAIN p : /\ <<id, l>> \notin DOMAIN draws /\ draws'[<<id, l>>] = p[l]
                           /\ p[l] \in Nat \ {0} /\ l \in Lots

\* What Write does, table by table.
LEMMA EnteredSays ==
    ASSUME Tables, NEW q, NEW p, NEW id, NEW amount, NEW was,
           Fitting(q, p), Entered(q, p, id, amount, was)
    PROVE  Effect(q, p, id, amount, was)
<1>1. seq \in Nat /\ id = seq + 1
  BY EconomyAssumption DEF Tables, Entered
<1>2. Lots \subseteq DOMAIN entries /\ \A l \in Lots : remaining[l] \in Nat
  BY DEF Tables, Lots
<1>3. \A e \in DOMAIN entries : e \in Nat /\ e < id /\ e # id
  BY <1>1 DEF Tables
<1>4. DOMAIN p \subseteq Lots /\ \A l \in DOMAIN p : p[l] \in Nat \ {0} /\ p[l] <= remaining[l]
  BY DEF Fitting, LotsOf
<1>5. /\ DOMAIN entries' = DOMAIN entries \union {id}
      /\ \A e \in DOMAIN entries : entries'[e] = entries[e]
      /\ entries'[id] = [kind |-> q.op, currency |-> q.currency, amount |-> amount,
                         after |-> NewBalance(q, was, amount), key |-> q.key, refundOf |-> q.of]
  BY <1>3 DEF Entered
<1>6. ASSUME IsCredit(q)
      PROVE  /\ Lots' = IF IsCredit(q) THEN Lots \union {id} ELSE Lots
             /\ IsCredit(q) => remaining'[id] = amount
             /\ \A l \in Lots : /\ remaining'[l] = IF l \in DOMAIN p THEN remaining[l] - p[l] ELSE remaining[l]
                                /\ remaining'[l] \in Nat /\ remaining'[l] <= remaining[l]
  <2>1. remaining' = [l \in Lots \union {id} |-> IF l = id THEN amount ELSE remaining[l]]
    BY <1>6 DEF Entered
  <2>2. DOMAIN p = {}
    BY <1>6 DEF Fitting
  <2>3. Lots' = Lots \union {id}
    BY <2>1 DEF Lots
  <2>4. \A l \in Lots : l # id
    BY <1>2, <1>3
  <2>5. \A l \in Lots : remaining'[l] = remaining[l]
    BY <2>1, <2>4
  <2>6. remaining'[id] = amount
    BY <2>1
  <2>. QED
    BY <1>2, <2>2, <2>3, <2>5, <2>6, <1>6
<1>7. ASSUME ~IsCredit(q)
      PROVE  /\ Lots' = IF IsCredit(q) THEN Lots \union {id} ELSE Lots
             /\ IsCredit(q) => remaining'[id] = amount
             /\ \A l \in Lots : /\ remaining'[l] = IF l \in DOMAIN p THEN remaining[l] - p[l] ELSE remaining[l]
                                /\ remaining'[l] \in Nat /\ remaining'[l] <= remaining[l]
  <2>1. remaining' = [l \in Lots |-> IF l \in DOMAIN p THEN remaining[l] - p[l] ELSE remaining[l]]
    BY <1>7 DEF Entered, Left
  <2>2. Lots' = Lots
    BY <2>1 DEF Lots
  <2>3. \A l \in Lots : remaining'[l] = IF l \in DOMAIN p THEN remaining[l] - p[l] ELSE remaining[l]
    BY <2>1
  <2>4. \A l \in Lots : remaining'[l] \in Nat /\ remaining'[l] <= remaining[l]
    BY <1>2, <1>4, <2>3
  <2>. QED
    BY <1>2, <2>2, <2>3, <2>4, <1>7
<1>8. \A d \in DOMAIN draws : /\ d[1] \in DOMAIN entries /\ d[2] \in Lots
                              /\ draws[d] \in Nat \ {0}
  BY DEF Tables, DrawIsOf
<1>9. \A d \in DOMAIN draws : d[1] # id /\ d[1] < id
  BY <1>3, <1>8
<1>10. DOMAIN draws' = DOMAIN draws \union {<<id, l>> : l \in DOMAIN p}
  BY DEF Entered
<1>11. \A d \in DOMAIN draws : draws'[d] = draws[d]
  BY <1>9 DEF Entered
<1>12. ASSUME NEW l \in DOMAIN p
       PROVE  <<id, l>> \notin DOMAIN draws /\ draws'[<<id, l>>] = p[l]
  <2>1. <<id, l>>[1] = id /\ <<id, l>>[2] = l
    OBVIOUS
  <2>2. <<id, l>> \in {<<id, m>> : m \in DOMAIN p}
    OBVIOUS
  <2>. QED
    BY <1>9, <2>1, <2>2 DEF Entered
<1>13. \A l \in Lots : /\ remaining'[l] = IF l \in DOMAIN p THEN remaining[l] - p[l] ELSE remaining[l]
                       /\ remaining[l] \in Nat /\ remaining'[l] \in Nat /\ remaining'[l] <= remaining[l]
  BY <1>2, <1>6, <1>7
<1>14. Lots' = (IF IsCredit(q) THEN Lots \union {id} ELSE Lots) /\ (IsCredit(q) => remaining'[id] = amount)
  BY <1>6, <1>7
<1>. QED
  BY <1>1, <1>2, <1>3, <1>4, <1>5, <1>8, <1>9, <1>10, <1>11, <1>12, <1>13, <1>14 DEF Effect

\* The tables keep their types and their links with the entry in them.
LEMMA EnteredTables ==
    ASSUME Tables, NEW q, NEW p, NEW id, NEW amount, NEW was,
           Fitting(q, p), Entered(q, p, id, amount, was)
    PROVE  Tables'
<1> DEFINE new == [kind |-> q.op, currency |-> q.currency, amount |-> amount,
                   after |-> NewBalance(q, was, amount), key |-> q.key, refundOf |-> q.of]
<1>0. Effect(q, p, id, amount, was)
  BY EnteredSays
<1>1. /\ id \in Nat /\ id \notin DOMAIN entries
      /\ \A e \in DOMAIN entries : e \in Nat /\ e < id /\ e # id /\ entries'[e] = entries[e]
      /\ DOMAIN entries' = DOMAIN entries \union {id}
      /\ entries'[id] = new
      /\ Lots \subseteq DOMAIN entries
      /\ Lots' = IF IsCredit(q) THEN Lots \union {id} ELSE Lots
  BY <1>0 DEF Effect
<1>2. /\ \A l \in Lots : remaining[l] \in Nat /\ remaining'[l] \in Nat /\ remaining'[l] <= remaining[l]
      /\ IsCredit(q) => remaining'[id] = amount
      /\ DOMAIN draws' = DOMAIN draws \union {<<id, l>> : l \in DOMAIN p}
      /\ \A d \in DOMAIN draws : draws'[d] = draws[d] /\ draws[d] \in Nat \ {0}
      /\ \A l \in DOMAIN p : draws'[<<id, l>>] = p[l] /\ p[l] \in Nat \ {0} /\ l \in Lots
  BY <1>0 DEF Effect
<1>3. /\ q \in Request /\ q.currency \in Currencies /\ q.op \in EntryKinds /\ q.key \in Keys
      /\ amount \in Nat \ {0} /\ id = seq + 1 /\ seq' = id /\ seq \in Nat /\ id \in 1..MaxEntries
      /\ NewBalance(q, was, amount) \in Nat
      /\ balance' = [balance EXCEPT ![q.currency] = NewBalance(q, was, amount)]
  BY EconomyAssumption DEF Tables, Fitting, Entered, Request
<1>4. seq' \in 0..MaxEntries /\ recent' \in BOOLEAN
  BY <1>3, EconomyAssumption DEF Entered
<1>5. DOMAIN entries' \subseteq 1..(seq')
  BY <1>1, <1>3, EconomyAssumption DEF Tables
<1>6. q.op \in GiveBacks => /\ q.of \in Lots /\ q.of \in 1..MaxEntries /\ q.of < id
                            /\ entries[q.of].kind = "purchase"
  <2>1. q.op \in GiveBacks => q.of \in Lots /\ entries[q.of].kind = "purchase"
    BY DEF Fitting, LotsOf
  <2>2. \A l \in Lots : l \in 1..MaxEntries /\ l < id
    BY <1>1, <1>3, EconomyAssumption DEF Tables
  <2>. QED
    BY <2>1, <2>2
<1>7. new \in Entry
  <2>1. q.of \in (1..MaxEntries) \union {NoEntry}
    BY <1>6 DEF Fitting
  <2>. QED
    BY <1>3, <2>1 DEF Entry
<1>8. entries' \in [DOMAIN entries' -> Entry]
  <2>1. \A e \in DOMAIN entries' : entries'[e] \in Entry
    BY <1>1, <1>7 DEF Tables
  <2>2. entries' = [e \in DOMAIN entries' |-> entries'[e]]
    BY DEF Entered
  <2>. QED
    BY <2>1, <2>2
<1>9. Lots' = {e \in DOMAIN entries' : entries'[e].kind \in CreditKinds}
  <2>1. Lots = {e \in DOMAIN entries : entries[e].kind \in CreditKinds}
    BY DEF Tables, Lots
  <2>2. new.kind = q.op
    OBVIOUS
  <2> HIDE DEF new
  <2>3. \A e \in DOMAIN entries : entries'[e].kind = entries[e].kind
    BY <1>1
  <2>4. entries'[id].kind \in CreditKinds <=> IsCredit(q)
    BY <1>1, <2>2 DEF IsCredit
  <2>5. {e \in DOMAIN entries' : entries'[e].kind \in CreditKinds}
          = Lots \union {e \in {id} : entries'[e].kind \in CreditKinds}
    BY <1>1, <2>1, <2>3
  <2>. QED
    BY <1>1, <2>4, <2>5
<1>10. \A l \in Lots' : remaining'[l] \in Nat /\ remaining'[l] <= entries'[l].amount
  <2>1. \A l \in Lots : remaining'[l] \in Nat /\ remaining'[l] <= entries'[l].amount
    <3>1. \A l \in Lots : remaining[l] <= entries[l].amount /\ entries[l].amount \in Nat
      BY <1>1 DEF Tables, Entry
    <3>. QED
      BY <1>1, <1>2, <3>1
  <2>2. IsCredit(q) => remaining'[id] \in Nat /\ remaining'[id] <= entries'[id].amount
    <3>1. new.amount = amount
      OBVIOUS
    <3>. QED
      BY <1>1, <1>2, <1>3, <3>1
  <2>. QED
    BY <1>1, <2>1, <2>2
<1>11. remaining' \in [{e \in DOMAIN entries' : entries'[e].kind \in CreditKinds} -> Nat]
  <2>1. remaining' = [l \in Lots' |-> remaining'[l]]
    <3>1. CASE IsCredit(q)
      BY <1>1, <3>1 DEF Entered
    <3>2. CASE ~IsCredit(q)
      <4>1. remaining' = Left(p)
        BY <3>2 DEF Entered
      <4>. QED
        BY <1>1, <3>2, <4>1 DEF Left
    <3>. QED
      BY <3>1, <3>2
  <2>. QED
    BY <1>9, <1>10, <2>1
<1>12. draws' \in [DOMAIN draws' -> Nat \ {0}]
  <2>1. \A d \in DOMAIN draws' : draws'[d] \in Nat \ {0}
    BY <1>2
  <2>2. draws' = [d \in DOMAIN draws' |-> draws'[d]]
    BY DEF Entered
  <2>. QED
    BY <2>1, <2>2
<1>13. ASSUME NEW d \in DOMAIN draws'
       PROVE  d = <<d[1], d[2]>> /\ DrawIsOf(d[1], d[2])'
  <2>1. CASE d \in DOMAIN draws
    <3>1. d = <<d[1], d[2]>> /\ DrawIsOf(d[1], d[2])
      BY <2>1 DEF Tables
    <3>2. d[1] \in DOMAIN entries \ Lots /\ d[2] \in Lots /\ d[2] \in DOMAIN entries
      BY <1>1, <3>1 DEF DrawIsOf
    <3>3. d[1] \in DOMAIN entries' \ Lots' /\ d[2] \in Lots'
      BY <1>1, <3>2
    <3>4. entries'[d[1]] = entries[d[1]] /\ entries'[d[2]] = entries[d[2]]
      BY <1>1, <3>2
    <3>. QED
      BY <3>1, <3>3, <3>4 DEF DrawIsOf
  <2>2. CASE d \notin DOMAIN draws
    <3>1. PICK l \in DOMAIN p : d = <<id, l>>
      BY <1>2, <2>2
    <3>2. l \in Lots /\ entries[l].currency = q.currency /\ l \in DOMAIN entries
      BY <1>1 DEF Fitting, LotsOf
    <3>3. ~IsCredit(q)
      BY DEF Fitting
    <3>4. q.op = "spend" \/ q.of = l
      BY <1>3, <3>3 DEF Fitting, IsCredit, EntryKinds
    <3>5. id \in DOMAIN entries' \ Lots' /\ l \in Lots' /\ l < id /\ entries'[l] = entries[l]
      BY <1>1, <3>2, <3>3
    <3>6. DrawIsOf(id, l)'
      BY <1>1, <3>2, <3>4, <3>5 DEF DrawIsOf
    <3>. QED
      BY <3>1, <3>6
  <2>. QED
    BY <2>1, <2>2
<1>14. ASSUME NEW e \in DOMAIN entries'
       PROVE  IF entries'[e].kind \in GiveBacks
              THEN /\ entries'[e].refundOf \in Lots' /\ entries'[e].refundOf < e
                   /\ entries'[entries'[e].refundOf].kind = "purchase"
              ELSE entries'[e].refundOf = NoEntry
  <2>1. CASE e \in DOMAIN entries
    BY <1>1, <2>1 DEF Tables
  <2>2. CASE e = id
    <3>1. entries'[e].kind = q.op /\ entries'[e].refundOf = q.of
      BY <1>1, <2>2
    <3>2. q.op \notin GiveBacks => q.of = NoEntry
      BY DEF Fitting
    <3>. QED
      BY <1>1, <1>6, <2>2, <3>1, <3>2
  <2>. QED
    BY <1>1, <2>1, <2>2
<1>15. balance' \in [Currencies -> Nat \union {NoRow}]
  BY <1>3 DEF Tables
<1>16. \A e \in DOMAIN entries' : balance'[entries'[e].currency] # NoRow
  <2>1. NoRow \notin Nat
    BY EconomyAssumption
  <2>2. \A e \in DOMAIN entries : entries[e].currency \in Currencies /\ balance[entries[e].currency] # NoRow
    BY DEF Tables, Entry
  <2>3. \A e \in DOMAIN entries : balance'[entries'[e].currency] # NoRow
    BY <1>1, <1>3, <2>1, <2>2 DEF Tables
  <2>4. entries'[id].currency = q.currency
    BY <1>1
  <2>5. balance'[q.currency] = NewBalance(q, was, amount)
    BY <1>3 DEF Tables
  <2>. QED
    BY <1>1, <1>3, <2>1, <2>3, <2>4, <2>5
<1>. QED
  BY <1>4, <1>5, <1>8, <1>10, <1>11, <1>12, <1>13, <1>14, <1>15, <1>16 DEF Tables

\* By how much a currency moves.
Moved(q, amount, v) ==
    IF v # q.currency THEN 0 ELSE IF IsCredit(q) THEN amount ELSE -amount

\* What adds up of a currency's entries is finite, and of integers.
LEMMA LedgersAdd ==
    ASSUME Tables
    PROVE  /\ \A e \in DOMAIN entries : Signs[e] \in Int
           /\ \A v : /\ IsFiniteSet(EntriesOf(v)) /\ EntriesOf(v) \subseteq DOMAIN entries
                     /\ IsFiniteSet(LotsOf(v)) /\ LotsOf(v) \subseteq Lots
<1>1. \A e \in DOMAIN entries : entries[e].amount \in Int
  BY DEF Tables, Entry
<1>2. \A e \in DOMAIN entries : Signs[e] \in Int
  BY <1>1 DEF Signs
<1>3. \A v : EntriesOf(v) \subseteq DOMAIN entries /\ LotsOf(v) \subseteq Lots
  BY DEF EntriesOf, LotsOf
<1>4. IsFiniteSet(DOMAIN entries) /\ IsFiniteSet(Lots)
  BY TablesAreFinite
<1>5. \A v : IsFiniteSet(EntriesOf(v)) /\ IsFiniteSet(LotsOf(v))
  BY <1>3, <1>4, FS_Subset
<1>. QED
  BY <1>2, <1>3, <1>5

\* The sum of the entries moves by what was written, and up to an older entry not
\* at all.
LEMMA LedgerMoves ==
    ASSUME Tables, NEW q, NEW p, NEW id, NEW amount, NEW was,
           Fitting(q, p), Entered(q, p, id, amount, was), NEW v \in Currencies
    PROVE  /\ EntriesOf(v)' = IF v = q.currency THEN EntriesOf(v) \union {id} ELSE EntriesOf(v)
           /\ SumFunctionOnSet(Signs', EntriesOf(v)')
                = SumFunctionOnSet(Signs, EntriesOf(v)) + Moved(q, amount, v)
           /\ \A F : F \subseteq EntriesOf(v) =>
                SumFunctionOnSet(Signs', F) = SumFunctionOnSet(Signs, F)
<1>0. Effect(q, p, id, amount, was)
  BY EnteredSays
<1>1. /\ id \notin DOMAIN entries /\ DOMAIN entries' = DOMAIN entries \union {id}
      /\ \A e \in DOMAIN entries : entries'[e] = entries[e]
      /\ entries'[id].kind = q.op /\ entries'[id].currency = q.currency /\ entries'[id].amount = amount
  BY <1>0 DEF Effect
<1>2. /\ \A e \in DOMAIN entries : Signs[e] \in Int
      /\ IsFiniteSet(EntriesOf(v)) /\ EntriesOf(v) \subseteq DOMAIN entries
  BY LedgersAdd
<1>3. EntriesOf(v)' = IF v = q.currency THEN EntriesOf(v) \union {id} ELSE EntriesOf(v)
  BY <1>1 DEF EntriesOf
<1>4. \A e \in DOMAIN entries : Signs'[e] = Signs[e]
  BY <1>1 DEF Signs
<1>5. amount \in Nat
  BY DEF Entered
<1>6. Signs'[id] = IF IsCredit(q) THEN amount ELSE -amount
  BY <1>1 DEF Signs, IsCredit
<1>7. Signs'[id] \in Int
  BY <1>5, <1>6
<1>8. ASSUME NEW F, F \subseteq EntriesOf(v)
      PROVE  SumFunctionOnSet(Signs', F) = SumFunctionOnSet(Signs, F)
  <2>1. IsFiniteSet(F) /\ \A e \in F : Signs'[e] = Signs[e]
    BY <1>2, <1>4, <1>8, FS_Subset
  <2>. QED
    BY <2>1, SumOfEqual
<1>9. SumFunctionOnSet(Signs', EntriesOf(v)') = SumFunctionOnSet(Signs, EntriesOf(v)) + Moved(q, amount, v)
  <2> DEFINE E == EntriesOf(v)
  <2>1. SumFunctionOnSet(Signs, E) \in Int /\ SumFunctionOnSet(Signs', E) = SumFunctionOnSet(Signs, E)
    <3>1. SumFunctionOnSet(Signs, E) \in Int
      BY <1>2, SumIsInt
    <3>2. SumFunctionOnSet(Signs', E) = SumFunctionOnSet(Signs, E)
      BY <1>8
    <3>. QED
      BY <3>1, <3>2
  <2>2. CASE v = q.currency
    <3>1. \A e \in E \union {id} : Signs'[e] \in Int
      BY <1>2, <1>4, <1>7
    <3>2. id \notin E /\ IsFiniteSet(E)
      BY <1>1, <1>2
    <3>3. SumFunctionOnSet(Signs', E \union {id}) = SumFunctionOnSet(Signs', E) + Signs'[id]
      <4> HIDE DEF E
      <4>1. PICK s : s = Signs'
        OBVIOUS
      <4>2. SumFunctionOnSet(s, E \union {id}) = SumFunctionOnSet(s, E) + s[id]
        BY <3>1, <3>2, <4>1, SumWith
      <4>. QED
        BY <4>1, <4>2
    <3>4. Moved(q, amount, v) = Signs'[id]
      BY <1>6, <2>2 DEF Moved
    <3>. QED
      BY <1>3, <2>1, <2>2, <3>3, <3>4
  <2>3. CASE v # q.currency
    <3>1. Moved(q, amount, v) = 0
      BY <2>3 DEF Moved
    <3>. QED
      BY <1>3, <2>1, <2>3, <3>1
  <2>. QED
    BY <2>2, <2>3
<1>. QED
  BY <1>3, <1>8, <1>9

\* What is left of the lots moves by as much.
LEMMA LotsMove ==
    ASSUME Tables, NEW q, NEW p, NEW id, NEW amount, NEW was,
           Fitting(q, p), Entered(q, p, id, amount, was), NEW v \in Currencies
    PROVE  SumFunctionOnSet(remaining', LotsOf(v)')
             = SumFunctionOnSet(remaining, LotsOf(v)) + Moved(q, amount, v)
<1>0. Effect(q, p, id, amount, was)
  BY EnteredSays
<1>1. /\ id \notin DOMAIN entries /\ Lots \subseteq DOMAIN entries
      /\ \A e \in DOMAIN entries : entries'[e] = entries[e]
      /\ entries'[id].currency = q.currency
      /\ Lots' = IF IsCredit(q) THEN Lots \union {id} ELSE Lots
  BY <1>0 DEF Effect
<1>2. /\ \A l \in Lots : /\ remaining'[l] = IF l \in DOMAIN p THEN remaining[l] - p[l] ELSE remaining[l]
                         /\ remaining[l] \in Nat /\ remaining'[l] \in Nat
      /\ IsCredit(q) => remaining'[id] = amount
  BY <1>0 DEF Effect
<1>3. IsFiniteSet(LotsOf(v)) /\ LotsOf(v) \subseteq Lots
  BY LedgersAdd
<1>4. amount \in Nat /\ (IsCredit(q) => DOMAIN p = {})
      /\ (~IsCredit(q) => amount = SumFunctionOnSet(p, DOMAIN p))
      /\ DOMAIN p \subseteq LotsOf(q.currency) /\ \A l \in DOMAIN p : p[l] \in Nat
  BY DEF Entered, Fitting
<1>5. LotsOf(v)' = IF v = q.currency /\ IsCredit(q) THEN LotsOf(v) \union {id} ELSE LotsOf(v)
  BY <1>1 DEF LotsOf
<1> DEFINE L == LotsOf(v)
<1>6. SumFunctionOnSet(remaining, L) \in Int
  BY <1>2, <1>3, SumIsInt
<1>7. CASE v # q.currency
  <2>1. \A l \in L : l \notin DOMAIN p
    BY <1>4, <1>7 DEF LotsOf
  <2>2. \A l \in L : remaining'[l] = remaining[l]
    BY <1>2, <1>3, <2>1
  <2>3. SumFunctionOnSet(remaining', L) = SumFunctionOnSet(remaining, L)
    BY <1>3, <2>2, SumOfEqual
  <2>4. Moved(q, amount, v) = 0
    BY <1>7 DEF Moved
  <2>. QED
    BY <1>5, <1>6, <1>7, <2>3, <2>4
<1>8. CASE v = q.currency /\ IsCredit(q)
  <2>1. \A l \in L : remaining'[l] = remaining[l]
    BY <1>2, <1>3, <1>4, <1>8
  <2>2. SumFunctionOnSet(remaining', L) = SumFunctionOnSet(remaining, L)
    BY <1>3, <2>1, SumOfEqual
  <2>3. id \notin L /\ \A l \in L \union {id} : remaining'[l] \in Int
    BY <1>1, <1>2, <1>3, <1>4, <1>8
  <2>4. SumFunctionOnSet(remaining', L \union {id}) = SumFunctionOnSet(remaining', L) + remaining'[id]
    <3> HIDE DEF L
    <3>1. PICK s : s = remaining'
      OBVIOUS
    <3>2. IsFiniteSet(L)
      BY <1>3 DEF L
    <3>3. SumFunctionOnSet(s, L \union {id}) = SumFunctionOnSet(s, L) + s[id]
      BY <2>3, <3>1, <3>2, SumWith
    <3>. QED
      BY <3>1, <3>3
  <2>5. Moved(q, amount, v) = amount
    BY <1>8 DEF Moved
  <2>. QED
    BY <1>2, <1>5, <1>8, <2>2, <2>4, <2>5
<1>9. CASE v = q.currency /\ ~IsCredit(q)
  <2> DEFINE P == DOMAIN p  R == L \ P
  <2>1. P \subseteq L /\ IsFiniteSet(P) /\ IsFiniteSet(R) /\ L = P \union R /\ P \intersect R = {}
    BY <1>3, <1>4, <1>9, FS_Subset
  <2>2. SumFunctionOnSet(remaining, L) = SumFunctionOnSet(remaining, P) + SumFunctionOnSet(remaining, R)
    <3>1. \A l \in P \union R : remaining[l] \in Int
      BY <1>2, <1>3, <2>1
    <3> HIDE DEF L, P, R
    <3>. QED
      BY <2>1, <3>1, SumOfBoth
  <2>3. SumFunctionOnSet(remaining', L) = SumFunctionOnSet(remaining', P) + SumFunctionOnSet(remaining', R)
    <3>1. \A l \in P \union R : remaining'[l] \in Int
      BY <1>2, <1>3, <2>1
    <3> HIDE DEF L, P, R
    <3>2. PICK s : s = remaining'
      OBVIOUS
    <3>3. SumFunctionOnSet(s, P \union R) = SumFunctionOnSet(s, P) + SumFunctionOnSet(s, R)
      BY <2>1, <3>1, <3>2, SumOfBoth
    <3>. QED
      BY <2>1, <3>2, <3>3
  <2>4. SumFunctionOnSet(remaining', R) = SumFunctionOnSet(remaining, R)
    <3>1. \A l \in R : remaining'[l] = remaining[l]
      BY <1>2, <1>3
    <3> HIDE DEF R
    <3>. QED
      BY <2>1, <3>1, SumOfEqual
  <2>5. SumFunctionOnSet(remaining, P) = SumFunctionOnSet(remaining', P) + SumFunctionOnSet(p, P)
    <3>1. \A l \in P : remaining'[l] \in Int /\ p[l] \in Int /\ remaining[l] = remaining'[l] + p[l]
      BY <1>2, <1>3, <1>4, <2>1
    <3> HIDE DEF P
    <3>2. PICK s : s = remaining'
      OBVIOUS
    <3>3. SumFunctionOnSet(remaining, P) = SumFunctionOnSet(s, P) + SumFunctionOnSet(p, P)
      BY <2>1, <3>1, <3>2, SumAdds
    <3>. QED
      BY <3>2, <3>3
  <2>6. /\ SumFunctionOnSet(remaining, P) \in Int /\ SumFunctionOnSet(remaining, R) \in Int
        /\ SumFunctionOnSet(remaining', P) \in Int
    <3>1. \A l \in P \union R : remaining'[l] \in Int /\ remaining[l] \in Int
      BY <1>2, <1>3, <2>1
    <3> HIDE DEF P, R
    <3>2. PICK s : s = remaining'
      OBVIOUS
    <3>3. SumFunctionOnSet(s, P) \in Int
      BY <2>1, <3>1, <3>2, SumIsInt
    <3>. QED
      BY <2>1, <3>1, <3>2, <3>3, SumIsInt
  <2>7. Moved(q, amount, v) = -amount /\ amount = SumFunctionOnSet(p, P)
    BY <1>4, <1>9 DEF Moved
  <2>8. SumFunctionOnSet(remaining', L) = SumFunctionOnSet(remaining, L) - amount
    <3> HIDE DEF L, P, R
    <3>. QED
      BY <1>4, <2>2, <2>3, <2>4, <2>5, <2>6, <2>7
  <2>. QED
    BY <1>4, <1>5, <1>6, <1>9, <2>7, <2>8
<1>. QED
  BY <1>7, <1>8, <1>9

\* The cached balance, the entries and the lots still come to the same.
LEMMA EnteredAgrees ==
    ASSUME Tables, Agrees, NEW q, NEW p, NEW id, NEW amount, NEW was,
           Fitting(q, p), Entered(q, p, id, amount, was)
    PROVE  Agrees'
<1>0. Effect(q, p, id, amount, was)
  BY EnteredSays
<1>1. /\ id \in Nat /\ \A e \in DOMAIN entries : e \in Nat /\ e < id /\ entries'[e] = entries[e]
      /\ entries'[id].after = NewBalance(q, was, amount)
  BY <1>0 DEF Effect
<1>2. /\ balance' = [balance EXCEPT ![q.currency] = NewBalance(q, was, amount)]
      /\ NewBalance(q, was, amount) \in Nat /\ q.currency \in Currencies /\ amount \in Nat
      /\ was = IF balance[q.currency] = NoRow THEN 0 ELSE balance[q.currency]
      /\ balance \in [Currencies -> Nat \union {NoRow}] /\ NoRow \notin Nat
  BY EconomyAssumption DEF Entered, Fitting, Request, Tables
<1> SUFFICES ASSUME NEW v \in Currencies
             PROVE  LET ledger == SumFunctionOnSet(Signs', EntriesOf(v)') IN
                    /\ ledger = SumFunctionOnSet(remaining', LotsOf(v)')
                    /\ ledger = IF balance'[v] = NoRow THEN 0 ELSE balance'[v]
                    /\ \A e \in EntriesOf(v)' :
                         entries'[e].after = SumFunctionOnSet(Signs', {f \in EntriesOf(v)' : f <= e})
  BY DEF Agrees
<1> DEFINE ledger == SumFunctionOnSet(Signs, EntriesOf(v))
           after == SumFunctionOnSet(Signs', EntriesOf(v)')
<1>3. /\ ledger = SumFunctionOnSet(remaining, LotsOf(v))
      /\ ledger = IF balance[v] = NoRow THEN 0 ELSE balance[v]
      /\ \A e \in EntriesOf(v) : entries[e].after = SumFunctionOnSet(Signs, {f \in EntriesOf(v) : f <= e})
  BY DEF Agrees
<1>4. /\ EntriesOf(v)' = IF v = q.currency THEN EntriesOf(v) \union {id} ELSE EntriesOf(v)
      /\ after = ledger + Moved(q, amount, v)
      /\ \A F : F \subseteq EntriesOf(v) =>
           SumFunctionOnSet(Signs', F) = SumFunctionOnSet(Signs, F)
  BY LedgerMoves
<1>5. after = SumFunctionOnSet(remaining', LotsOf(v)')
  BY <1>3, <1>4, LotsMove
<1>6. ledger \in Int
  BY LedgersAdd, SumIsInt
<1>7. v = q.currency => after = NewBalance(q, was, amount)
  <2>1. v = q.currency => Moved(q, amount, v) = IF IsCredit(q) THEN amount ELSE -amount
    BY DEF Moved
  <2>2. v = q.currency => ledger = was
    BY <1>2, <1>3
  <2> HIDE DEF ledger, after
  <2>. QED
    BY <1>2, <1>4, <1>6, <2>1, <2>2 DEF NewBalance, IsCredit
<1>8. after = IF balance'[v] = NoRow THEN 0 ELSE balance'[v]
  <2>1. CASE v = q.currency
    BY <1>2, <1>7, <2>1
  <2>2. CASE v # q.currency
    <3>1. Moved(q, amount, v) = 0 /\ balance'[v] = balance[v]
      BY <1>2, <2>2 DEF Moved
    <3> HIDE DEF ledger, after
    <3>. QED
      BY <1>3, <1>4, <1>6, <3>1
  <2>. QED
    BY <2>1, <2>2
<1>9. ASSUME NEW e \in EntriesOf(v)'
      PROVE  entries'[e].after = SumFunctionOnSet(Signs', {f \in EntriesOf(v)' : f <= e})
  <2>1. CASE e \in EntriesOf(v)
    <3>1. e \in DOMAIN entries
      BY <2>1 DEF EntriesOf
    <3>2. {f \in EntriesOf(v)' : f <= e} = {f \in EntriesOf(v) : f <= e}
      BY <1>1, <1>4, <3>1
    <3>. QED
      BY <1>1, <1>3, <1>4, <2>1, <3>1, <3>2
  <2>2. CASE e \notin EntriesOf(v)
    <3>1. e = id /\ v = q.currency /\ EntriesOf(v)' = EntriesOf(v) \union {id}
      BY <1>4, <2>2
    <3>2. \A f \in EntriesOf(v) : f \in Nat /\ f < id
      BY <1>1 DEF EntriesOf
    <3>3. {f \in EntriesOf(v)' : f <= e} = EntriesOf(v)'
      BY <1>1, <3>1, <3>2
    <3>. QED
      BY <1>1, <1>7, <3>1, <3>3
  <2>. QED
    BY <2>1, <2>2
<1>. QED
  BY <1>5, <1>8, <1>9

\* What is drawn on a lot, and by a debit, is finite and of naturals.
LEMMA DrawsAdd ==
    ASSUME Tables, NEW D, D \subseteq DOMAIN draws
    PROVE  IsFiniteSet(D) /\ Drawn(D) \in Nat /\ \A d \in D : draws[d] \in Nat \ {0} /\ draws[d] \in Int
<1>1. IsFiniteSet(D) /\ \A d \in D : draws[d] \in Nat \ {0}
  BY TablesAreFinite, FS_Subset
<1>2. \A d \in D : draws[d] \in Nat
  BY <1>1
<1>. QED
  BY <1>1, <1>2, SumIsNat DEF Drawn

\* The older draws count as they did; and a lot has the new one if it was planned.
LEMMA DrawsMove ==
    ASSUME Tables, NEW q, NEW p, NEW id, NEW amount, NEW was,
           Fitting(q, p), Entered(q, p, id, amount, was), NEW l
    PROVE  /\ DrawnOn(l)' = IF l \in DOMAIN p THEN DrawnOn(l) \union {<<id, l>>} ELSE DrawnOn(l)
           /\ SumFunctionOnSet(draws', DrawnOn(l)') = Drawn(DrawnOn(l)) + IF l \in DOMAIN p THEN p[l] ELSE 0
           /\ \A D : D \subseteq DOMAIN draws => SumFunctionOnSet(draws', D) = Drawn(D)
<1>0. Effect(q, p, id, amount, was)
  BY EnteredSays
<1>1. /\ DOMAIN draws' = DOMAIN draws \union {<<id, m>> : m \in DOMAIN p}
      /\ \A d \in DOMAIN draws : draws'[d] = draws[d]
      /\ \A m \in DOMAIN p : /\ <<id, m>> \notin DOMAIN draws /\ draws'[<<id, m>>] = p[m]
                             /\ p[m] \in Nat \ {0}
  BY <1>0 DEF Effect
<1>2. DrawnOn(l)' = IF l \in DOMAIN p THEN DrawnOn(l) \union {<<id, l>>} ELSE DrawnOn(l)
  <2>1. \A m : <<id, m>>[2] = m
    OBVIOUS
  <2>2. {d \in {<<id, m>> : m \in DOMAIN p} : d[2] = l} = IF l \in DOMAIN p THEN {<<id, l>>} ELSE {}
    BY <2>1
  <2>3. DrawnOn(l)' = DrawnOn(l) \union {d \in {<<id, m>> : m \in DOMAIN p} : d[2] = l}
    BY <1>1 DEF DrawnOn
  <2>. QED
    BY <2>2, <2>3
<1>3. ASSUME NEW D, D \subseteq DOMAIN draws
      PROVE  SumFunctionOnSet(draws', D) = Drawn(D)
  <2>1. IsFiniteSet(D) /\ \A d \in D : draws'[d] = draws[d]
    BY <1>1, <1>3, DrawsAdd
  <2>. QED
    BY <2>1, SumOfEqual DEF Drawn
<1>4. DrawnOn(l) \subseteq DOMAIN draws
  BY DEF DrawnOn
<1> DEFINE D == DrawnOn(l)
<1>5. IsFiniteSet(D) /\ Drawn(D) \in Nat /\ (\A d \in D : draws'[d] \in Int)
      /\ SumFunctionOnSet(draws', D) = Drawn(D)
  <2>1. IsFiniteSet(D) /\ Drawn(D) \in Nat /\ \A d \in D : draws[d] \in Int
    BY <1>4, DrawsAdd
  <2>. QED
    BY <1>1, <1>3, <1>4, <2>1
<1>6. SumFunctionOnSet(draws', DrawnOn(l)') = Drawn(D) + IF l \in DOMAIN p THEN p[l] ELSE 0
  <2>1. CASE l \in DOMAIN p
    <3>1. <<id, l>> \notin D /\ draws'[<<id, l>>] = p[l] /\ p[l] \in Int
      BY <1>1, <1>4, <2>1
    <3>2. PICK s, x : s = draws' /\ x = <<id, l>>
      OBVIOUS
    <3>3. x \notin D /\ s[x] = p[l] /\ (\A d \in D \union {x} : s[d] \in Int) /\ IsFiniteSet(D)
      BY <1>5, <3>1, <3>2
    <3> HIDE DEF D
    <3>4. SumFunctionOnSet(s, D \union {x}) = SumFunctionOnSet(s, D) + s[x]
      BY <3>3, SumWith
    <3>5. DrawnOn(l)' = D \union {x}
      BY <1>2, <2>1, <3>2 DEF D
    <3>. QED
      BY <1>5, <2>1, <3>2, <3>3, <3>4, <3>5
  <2>2. CASE l \notin DOMAIN p
    BY <1>2, <1>5, <2>2
  <2>. QED
    BY <2>1, <2>2
<1>. QED
  BY <1>2, <1>3, <1>6

\* The new debit is the sum of its draws, and the lots have lost what they lost.
LEMMA EnteredDraws ==
    ASSUME Tables, DrawsAccount, NEW q, NEW p, NEW id, NEW amount, NEW was,
           Fitting(q, p), Entered(q, p, id, amount, was)
    PROVE  DrawsAccount'
<1>0. Effect(q, p, id, amount, was)
  BY EnteredSays
<1>1. /\ id \notin DOMAIN entries /\ DOMAIN entries' = DOMAIN entries \union {id}
      /\ \A e \in DOMAIN entries : entries'[e] = entries[e]
      /\ entries'[id].amount = amount
      /\ Lots \subseteq DOMAIN entries
      /\ Lots' = IF IsCredit(q) THEN Lots \union {id} ELSE Lots
      /\ \A l \in Lots : /\ remaining'[l] = IF l \in DOMAIN p THEN remaining[l] - p[l] ELSE remaining[l]
                         /\ remaining[l] \in Nat
      /\ IsCredit(q) => remaining'[id] = amount
  BY <1>0 DEF Effect
<1>2. /\ DOMAIN draws' = DOMAIN draws \union {<<id, l>> : l \in DOMAIN p}
      /\ \A d \in DOMAIN draws : d[1] \in DOMAIN entries /\ d[2] \in Lots /\ d[1] # id
      /\ \A l \in DOMAIN p : draws'[<<id, l>>] = p[l] /\ p[l] \in Nat \ {0} /\ l \in Lots
  BY <1>0 DEF Effect
<1>3. amount \in Nat /\ (IsCredit(q) => DOMAIN p = {})
      /\ (~IsCredit(q) => amount = SumFunctionOnSet(p, DOMAIN p))
  BY DEF Entered, Fitting
<1>4. ASSUME NEW l \in Lots'
      PROVE  entries'[l].amount = remaining'[l] + SumFunctionOnSet(draws', DrawnOn(l)')
  <2>1. SumFunctionOnSet(draws', DrawnOn(l)') = Drawn(DrawnOn(l)) + IF l \in DOMAIN p THEN p[l] ELSE 0
    BY DrawsMove
  <2>2. Drawn(DrawnOn(l)) \in Nat
    BY DrawsAdd DEF DrawnOn
  <2>3. CASE l \in Lots
    <3>1. entries[l].amount = remaining[l] + Drawn(DrawnOn(l))
      BY <2>3 DEF DrawsAccount
    <3>2. entries'[l] = entries[l] /\ remaining[l] \in Nat
      BY <1>1, <2>3
    <3>3. CASE l \in DOMAIN p
      <4>1. p[l] \in Nat /\ remaining'[l] = remaining[l] - p[l]
        BY <1>1, <1>2, <2>3, <3>3
      <4>2. SumFunctionOnSet(draws', DrawnOn(l)') = Drawn(DrawnOn(l)) + p[l]
        BY <2>1, <3>3
      <4>. QED
        BY <2>2, <3>1, <3>2, <4>1, <4>2
    <3>4. CASE l \notin DOMAIN p
      BY <1>1, <2>1, <2>2, <2>3, <3>1, <3>2, <3>4
    <3>. QED
      BY <3>3, <3>4
  <2>4. CASE l \notin Lots
    <3>1. l = id /\ IsCredit(q) /\ l \notin DOMAIN p
      BY <1>1, <1>3, <2>4
    <3>2. DrawnOn(l) = {}
      BY <1>2, <2>4 DEF DrawnOn
    <3>3. Drawn(DrawnOn(l)) = 0
      BY <3>2, SumOfNone DEF Drawn
    <3>. QED
      BY <1>1, <1>3, <2>1, <3>1, <3>3
  <2>. QED
    BY <2>3, <2>4
<1>5. ASSUME NEW e \in DOMAIN entries' \ Lots'
      PROVE  entries'[e].amount = SumFunctionOnSet(draws', DrawnBy(e)')
  <2>1. DrawnBy(e)' = DrawnBy(e) \union {d \in {<<id, m>> : m \in DOMAIN p} : d[1] = e}
    BY <1>2 DEF DrawnBy
  <2>2. \A m : <<id, m>>[1] = id
    OBVIOUS
  <2>3. CASE e \in DOMAIN entries
    <3>1. e # id /\ e \notin Lots /\ entries'[e] = entries[e]
      BY <1>1, <2>3
    <3>2. DrawnBy(e)' = DrawnBy(e)
      BY <2>1, <2>2, <3>1
    <3>3. SumFunctionOnSet(draws', DrawnBy(e)') = Drawn(DrawnBy(e))
      <4>1. DrawnBy(e) \subseteq DOMAIN draws
        BY DEF DrawnBy
      <4>. QED
        BY <3>2, <4>1, DrawsMove
    <3>. QED
      BY <2>3, <3>1, <3>3 DEF DrawsAccount
  <2>4. CASE e = id
    <3>1. ~IsCredit(q)
      BY <1>1, <2>4
    <3>2. DrawnBy(e) = {}
      BY <1>2, <2>4 DEF DrawnBy
    <3>3. DrawnBy(e)' = {<<id, m>> : m \in DOMAIN p}
      BY <2>1, <2>2, <2>4, <3>2
    <3>4. SumFunctionOnSet(draws', {<<id, m>> : m \in DOMAIN p}) = SumFunctionOnSet(p, DOMAIN p)
      <4> DEFINE h == [m \in DOMAIN p |-> <<id, m>>]
      <4>1. {<<id, m>> : m \in DOMAIN p} = {h[m] : m \in DOMAIN p}
        OBVIOUS
      <4>2. IsFiniteSet(DOMAIN p)
        <5>1. DOMAIN p \subseteq Lots
          BY <1>2
        <5>. QED
          BY <5>1, TablesAreFinite, FS_Subset
      <4>3. \A m \in DOMAIN p : p[m] \in Int /\ draws'[h[m]] = p[m]
        BY <1>2
      <4>4. \A m, n \in DOMAIN p : h[m] = h[n] => m = n
        OBVIOUS
      <4>5. PICK s, k : s = draws' /\ k = h
        OBVIOUS
      <4> HIDE DEF h
      <4>6. SumFunctionOnSet(s, {k[m] : m \in DOMAIN p}) = SumFunctionOnSet(p, DOMAIN p)
        BY <4>2, <4>3, <4>4, <4>5, SumRenamed
      <4>. QED
        BY <4>1, <4>5, <4>6
    <3>. QED
      BY <1>1, <1>3, <2>4, <3>1, <3>3, <3>4
  <2>. QED
    BY <1>1, <2>3, <2>4
<1>. QED
  BY <1>4, <1>5 DEF DrawsAccount, Drawn

\* A spend written drew on no lot before those ahead of it were empty.
LEMMA EnteredInOrder ==
    ASSUME Tables, DrawsAccount, SpentInOrder, NEW q, NEW p, NEW id, NEW amount, NEW was,
           Fitting(q, p), Entered(q, p, id, amount, was)
    PROVE  SpentInOrder'
<1>0. Effect(q, p, id, amount, was)
  BY EnteredSays
<1>1. /\ id \notin DOMAIN entries /\ id \in Nat
      /\ \A e \in DOMAIN entries : e \in Nat /\ e < id /\ entries'[e] = entries[e]
      /\ entries'[id].kind = q.op /\ entries'[id].currency = q.currency
      /\ Lots \subseteq DOMAIN entries
      /\ Lots' = IF IsCredit(q) THEN Lots \union {id} ELSE Lots
      /\ \A l \in Lots : remaining'[l] = IF l \in DOMAIN p THEN remaining[l] - p[l] ELSE remaining[l]
  BY <1>0 DEF Effect
<1>2. /\ DOMAIN draws' = DOMAIN draws \union {<<id, l>> : l \in DOMAIN p}
      /\ \A d \in DOMAIN draws : d[1] \in DOMAIN entries /\ d[2] \in Lots /\ d[1] < id
      /\ \A l \in DOMAIN p : l \in Lots
  BY <1>0 DEF Effect
<1>3. DrawsAccount'
  BY EnteredDraws
<1> SUFFICES ASSUME NEW d \in DOMAIN draws', entries'[d[1]].kind = "spend",
                    NEW l \in Lots', l < d[1], entries'[l].currency = entries'[d[2]].currency,
                    Before(l, d[2])'
             PROVE  SumFunctionOnSet(draws', {x \in DrawnOn(l)' : x[1] <= d[1]}) = entries'[l].amount
  BY DEF SpentInOrder, Drawn
<1>4. \A m \in Lots, n \in Lots : Before(m, n)' <=> Before(m, n)
  BY <1>1 DEF Before
<1>5. CASE d \in DOMAIN draws
  <2>1. d[1] \in DOMAIN entries /\ d[2] \in Lots /\ d[1] < id /\ d[1] \in Nat
    BY <1>1, <1>2, <1>5
  <2>2. l \in Lots
    <3>1. l # id
      BY <1>1, <2>1
    <3>. QED
      BY <1>1, <3>1
  <2>3. /\ entries'[d[1]] = entries[d[1]] /\ entries'[d[2]] = entries[d[2]]
        /\ entries'[l] = entries[l] /\ Before(l, d[2])
    BY <1>1, <1>4, <2>1, <2>2
  <2>4. Drawn({x \in DrawnOn(l) : x[1] <= d[1]}) = entries[l].amount
    BY <1>5, <2>2, <2>3 DEF SpentInOrder
  <2>5. {x \in DrawnOn(l)' : x[1] <= d[1]} = {x \in DrawnOn(l) : x[1] <= d[1]}
    <3>1. DrawnOn(l)' = IF l \in DOMAIN p THEN DrawnOn(l) \union {<<id, l>>} ELSE DrawnOn(l)
      BY DrawsMove
    <3>2. <<id, l>>[1] = id /\ ~(id <= d[1])
      BY <1>1, <2>1
    <3>. QED
      BY <3>1, <3>2
  <2>6. {x \in DrawnOn(l) : x[1] <= d[1]} \subseteq DOMAIN draws
    BY DEF DrawnOn
  <2>. QED
    BY <2>3, <2>4, <2>5, <2>6, DrawsMove
<1>6. CASE d \notin DOMAIN draws
  <2>1. PICK k \in DOMAIN p : d = <<id, k>>
    BY <1>2, <1>6
  <2>2. d[1] = id /\ d[2] = k /\ k \in Lots /\ q.op = "spend"
    BY <1>1, <1>2, <2>1
  <2>3. l \in Lots
    BY <1>1, <2>2
  <2>4. entries'[l] = entries[l] /\ entries'[k] = entries[k] /\ Before(l, k)
    BY <1>1, <1>4, <2>2, <2>3
  <2>5. entries[k].currency = q.currency
    BY DEF Fitting, LotsOf
  <2>6. l \in LotsOf(q.currency)
    BY <2>2, <2>3, <2>4, <2>5 DEF LotsOf
  <2>7. Left(p)[l] = 0
    BY <2>2, <2>4, <2>6 DEF Fitting
  <2>8. remaining'[l] = 0
    BY <1>1, <2>3, <2>7 DEF Left
  <2>9. entries'[l].amount = remaining'[l] + SumFunctionOnSet(draws', DrawnOn(l)')
    BY <1>3 DEF DrawsAccount, Drawn
  <2>10. {x \in DrawnOn(l)' : x[1] <= d[1]} = DrawnOn(l)'
    <3>1. \A x \in DOMAIN draws' : x[1] <= id
      <4>1. \A x \in DOMAIN draws : x[1] <= id
        BY <1>1, <1>2
      <4>2. \A m : <<id, m>>[1] <= id
        BY <1>1
      <4>. QED
        BY <1>2, <4>1, <4>2
    <3>2. DrawnOn(l)' \subseteq DOMAIN draws'
      BY DEF DrawnOn
    <3>. QED
      BY <2>2, <3>1, <3>2
  <2>11. SumFunctionOnSet(draws', DrawnOn(l)') \in Int
    <3>1. SumFunctionOnSet(draws', DrawnOn(l)') = Drawn(DrawnOn(l)) + IF l \in DOMAIN p THEN p[l] ELSE 0
      BY DrawsMove
    <3>2. Drawn(DrawnOn(l)) \in Nat
      BY DrawsAdd DEF DrawnOn
    <3>3. l \in DOMAIN p => p[l] \in Nat
      BY DEF Fitting
    <3>. QED
      BY <3>1, <3>2, <3>3
  <2>12. entries'[l].amount = SumFunctionOnSet(draws', DrawnOn(l)')
    BY <2>8, <2>9, <2>11
  <2>. QED
    BY <2>10, <2>12
<1>. QED
  BY <1>5, <1>6

\* A purchase that was given back has nothing left to draw on.
LEMMA NothingLeft ==
    ASSUME Tables, DrawsAccount, RefundedWhole, ReversedWhole, NEW l \in Lots, GivenBack(l) # {}
    PROVE  remaining[l] = 0
<1>1. PICK e \in DOMAIN entries : entries[e].refundOf = l
  BY DEF GivenBack
<1>2. l # NoEntry /\ l \in Nat
  BY TablesAreFinite, EconomyAssumption
<1>3. entries[e].kind \in GiveBacks
  BY <1>1, <1>2 DEF Tables
<1>4. CASE entries[e].kind = "reversal"
  BY <1>1, <1>4 DEF ReversedWhole
<1>5. CASE entries[e].kind = "refund"
  <2>1. DrawnOn(l) = {<<e, l>>} /\ draws[<<e, l>>] = entries[l].amount
    BY <1>1, <1>5 DEF RefundedWhole, GivenBack
  <2>2. <<e, l>> \in DOMAIN draws
    BY <2>1 DEF DrawnOn
  <2>3. draws[<<e, l>>] \in Int
    BY <2>2, TablesAreFinite
  <2>4. Drawn(DrawnOn(l)) = draws[<<e, l>>]
    BY <2>1, <2>3, SumOfOne DEF Drawn
  <2>5. entries[l].amount = remaining[l] + Drawn(DrawnOn(l)) /\ remaining[l] \in Nat
    BY TablesAreFinite DEF DrawsAccount
  <2>. QED
    BY <2>1, <2>3, <2>4, <2>5
<1>. QED
  BY <1>3, <1>4, <1>5 DEF GiveBacks

\* Before it is given back, a purchase was drawn on by spends only.
LEMMA DrawnBySpends ==
    ASSUME Tables, NEW l \in Lots, GivenBack(l) = {}
    PROVE  DrawnOn(l) = {d \in DrawnOn(l) : entries[d[1]].kind = "spend"}
<1> SUFFICES ASSUME NEW d \in DrawnOn(l) PROVE entries[d[1]].kind = "spend"
  OBVIOUS
<1>1. d \in DOMAIN draws /\ d[2] = l
  BY DEF DrawnOn
<1>2. DrawIsOf(d[1], l)
  BY <1>1 DEF Tables
<1>3. d[1] \in DOMAIN entries /\ (entries[d[1]].kind = "spend" \/ entries[d[1]].refundOf = l)
  BY <1>2 DEF DrawIsOf
<1>. QED
  BY <1>3 DEF GivenBack

\* The entry that gives a purchase back is the one written for it.
LEMMA GivenBackMoves ==
    ASSUME Tables, NEW q, NEW p, NEW id, NEW amount, NEW was,
           Fitting(q, p), Entered(q, p, id, amount, was), NEW l
    PROVE  GivenBack(l)' = IF q.of = l THEN GivenBack(l) \union {id} ELSE GivenBack(l)
<1>0. Effect(q, p, id, amount, was)
  BY EnteredSays
<1>1. /\ id \notin DOMAIN entries /\ DOMAIN entries' = DOMAIN entries \union {id}
      /\ \A e \in DOMAIN entries : entries'[e] = entries[e]
      /\ entries'[id].refundOf = q.of
  BY <1>0 DEF Effect
<1>. QED
  BY <1>1 DEF GivenBack

\* A purchase is given back once, and a refund takes a whole one.
LEMMA EnteredRefunds ==
    ASSUME Tables, DrawsAccount, RefundedWhole, ReversedWhole,
           NEW q, NEW p, NEW id, NEW amount, NEW was,
           Fitting(q, p), Entered(q, p, id, amount, was)
    PROVE  RefundedWhole'
<1>0. Effect(q, p, id, amount, was)
  BY EnteredSays
<1>1. /\ id \notin DOMAIN entries /\ id \in Nat
      /\ \A e \in DOMAIN entries : entries'[e] = entries[e]
      /\ entries'[id].kind = q.op
      /\ Lots \subseteq DOMAIN entries
      /\ Lots' = IF IsCredit(q) THEN Lots \union {id} ELSE Lots
      /\ \A l \in Lots : l \in Nat
  BY <1>0, TablesAreFinite DEF Effect
<1>2. /\ \A d \in DOMAIN draws : draws'[d] = draws[d]
      /\ \A l \in DOMAIN p : draws'[<<id, l>>] = p[l] /\ p[l] \in Nat \ {0} /\ p[l] <= remaining[l]
  BY <1>0 DEF Effect, Fitting
<1> SUFFICES ASSUME NEW l \in Lots'
             PROVE  /\ Cardinality(GivenBack(l)') <= 1
                    /\ \A e \in GivenBack(l)' : entries'[e].kind = "refund" =>
                         DrawnOn(l)' = {<<e, l>>} /\ draws'[<<e, l>>] = entries'[l].amount
  BY DEF RefundedWhole
<1>3. GivenBack(l)' = IF q.of = l THEN GivenBack(l) \union {id} ELSE GivenBack(l)
  BY GivenBackMoves
<1>4. DrawnOn(l)' = IF l \in DOMAIN p THEN DrawnOn(l) \union {<<id, l>>} ELSE DrawnOn(l)
  BY DrawsMove
<1>5. l \in Nat /\ l # NoEntry
  BY <1>1, EconomyAssumption
<1>6. CASE l \notin Lots
  <2>1. l = id /\ IsCredit(q)
    BY <1>1, <1>6
  <2>2. q.of # l
    BY <1>5, <2>1 DEF Fitting, IsCredit, CreditKinds, GiveBacks
  <2>3. GivenBack(l) = {}
    <3>1. \A e \in DOMAIN entries : entries[e].refundOf \in Lots \union {NoEntry}
      BY DEF Tables
    <3>. QED
      BY <1>5, <1>6, <3>1 DEF GivenBack
  <2>. QED
    BY <1>3, <2>2, <2>3, FS_EmptySet
<1>7. CASE l \in Lots /\ q.of # l
  <2>1. GivenBack(l)' = GivenBack(l)
    BY <1>3, <1>7
  <2>2. Cardinality(GivenBack(l)) <= 1
    BY <1>7 DEF RefundedWhole
  <2>3. ASSUME NEW e \in GivenBack(l), entries'[e].kind = "refund"
        PROVE  DrawnOn(l)' = {<<e, l>>} /\ draws'[<<e, l>>] = entries'[l].amount
    <3>1. e \in DOMAIN entries /\ entries'[e] = entries[e] /\ entries'[l] = entries[l]
      BY <1>1, <1>7 DEF GivenBack
    <3>2. DrawnOn(l) = {<<e, l>>} /\ draws[<<e, l>>] = entries[l].amount
      BY <1>7, <2>3, <3>1 DEF RefundedWhole
    <3>3. remaining[l] = 0
      BY <1>7, <2>3, NothingLeft
    <3>4. l \notin DOMAIN p
      <4> SUFFICES ASSUME l \in DOMAIN p PROVE FALSE
        OBVIOUS
      <4>1. p[l] \in Nat \ {0} /\ p[l] <= remaining[l]
        BY <1>2
      <4>. QED
        BY <4>1, <3>3
    <3>5. <<e, l>> \in DOMAIN draws
      BY <3>2 DEF DrawnOn
    <3>. QED
      BY <1>2, <1>4, <3>1, <3>2, <3>4, <3>5
  <2>. QED
    BY <2>1, <2>2, <2>3
<1>8. CASE l \in Lots /\ q.of = l
  <2>1. q.op \in GiveBacks
    BY <1>5, <1>8 DEF Fitting
  <2>2. /\ GivenBack(l) = {} /\ DOMAIN p = {l} /\ p[l] = remaining[l]
        /\ entries[l].amount = q.amount
        /\ q.op = "refund" => p[l] = q.amount
    BY <1>8, <2>1 DEF Fitting
  <2>3. GivenBack(l)' = {id}
    BY <1>3, <1>8, <2>2
  <2>4. Cardinality({id}) = 1
    BY FS_Singleton
  <2>5. ASSUME q.op = "refund"
        PROVE  DrawnOn(l)' = {<<id, l>>} /\ draws'[<<id, l>>] = entries'[l].amount
    <3>1. entries[l].amount = remaining[l] + Drawn(DrawnOn(l)) /\ remaining[l] \in Nat
      BY <1>8, TablesAreFinite DEF DrawsAccount
    <3>2. DrawnOn(l) \subseteq DOMAIN draws
      BY DEF DrawnOn
    <3>3. Drawn(DrawnOn(l)) = 0
      BY <2>2, <2>5, <3>1, <3>2, DrawsAdd
    <3>4. DrawnOn(l) = {}
      BY <3>2, <3>3, DrawsAdd, SumOfPositives DEF Drawn
    <3>5. entries'[l] = entries[l]
      BY <1>1, <1>8
    <3>. QED
      BY <1>2, <1>4, <2>2, <2>5, <3>4, <3>5
  <2>. QED
    BY <1>1, <2>3, <2>4, <2>5
<1>. QED
  BY <1>6, <1>7, <1>8

\* A reversal took all that spends had left of its purchase.
LEMMA EnteredReversals ==
    ASSUME Tables, DrawsAccount, RefundedWhole, ReversedWhole,
           NEW q, NEW p, NEW id, NEW amount, NEW was,
           Fitting(q, p), Entered(q, p, id, amount, was)
    PROVE  ReversedWhole'
<1>0. Effect(q, p, id, amount, was)
  BY EnteredSays
<1>1. /\ id \notin DOMAIN entries /\ id \in Nat
      /\ DOMAIN entries' = DOMAIN entries \union {id}
      /\ \A e \in DOMAIN entries : entries'[e] = entries[e]
      /\ entries'[id].kind = q.op /\ entries'[id].refundOf = q.of /\ entries'[id].amount = amount
      /\ Lots \subseteq DOMAIN entries
      /\ \A l \in Lots : /\ remaining'[l] = IF l \in DOMAIN p THEN remaining[l] - p[l] ELSE remaining[l]
                         /\ remaining[l] \in Nat
  BY <1>0 DEF Effect
<1>2. /\ \A d \in DOMAIN draws : d[1] \in DOMAIN entries /\ draws'[d] = draws[d]
      /\ \A l \in DOMAIN p : p[l] \in Nat \ {0} /\ p[l] <= remaining[l] /\ l \in Lots
  BY <1>0 DEF Effect, Fitting
<1> DEFINE Spent(l) == {d \in DrawnOn(l) : entries[d[1]].kind = "spend"}
<1> SUFFICES ASSUME NEW e \in DOMAIN entries', entries'[e].kind = "reversal", NEW l, l = entries'[e].refundOf
             PROVE  /\ remaining'[l] = 0
                    /\ entries'[l].amount = entries'[e].amount
                         + SumFunctionOnSet(draws', {d \in DrawnOn(l)' : entries'[d[1]].kind = "spend"})
  BY DEF ReversedWhole, Drawn
<1>3. DrawnOn(l)' = IF l \in DOMAIN p THEN DrawnOn(l) \union {<<id, l>>} ELSE DrawnOn(l)
  BY DrawsMove
<1>4. Spent(l) \subseteq DOMAIN draws
  BY DEF DrawnOn
<1>5. SumFunctionOnSet(draws', Spent(l)) = Drawn(Spent(l))
  <2> HIDE DEF Spent
  <2>. QED
    BY <1>4, DrawsMove
<1>6. \A d \in DrawnOn(l) : entries'[d[1]] = entries[d[1]]
  BY <1>1, <1>2 DEF DrawnOn
<1>7. CASE e \in DOMAIN entries
  <2>1. entries'[e] = entries[e] /\ entries[e].kind = "reversal" /\ l = entries[e].refundOf
    BY <1>1, <1>7
  <2>2. l \in Lots
    BY <1>7, <2>1 DEF Tables, GiveBacks
  <2>3. remaining[l] = 0 /\ entries[l].amount = entries[e].amount + Drawn(Spent(l))
    BY <1>7, <2>1 DEF ReversedWhole
  <2>4. l \notin DOMAIN p
    BY <1>2, <2>3
  <2>5. {d \in DrawnOn(l)' : entries'[d[1]].kind = "spend"} = Spent(l)
    BY <1>3, <1>6, <2>4
  <2>6. entries'[l] = entries[l] /\ remaining'[l] = 0
    BY <1>1, <2>2, <2>3, <2>4
  <2>. QED
    BY <1>5, <2>1, <2>3, <2>5, <2>6
<1>8. CASE e = id
  <2>1. q.op = "reversal" /\ l = q.of
    BY <1>1, <1>8
  <2>2. DOMAIN p = {l} /\ p[l] = remaining[l] /\ GivenBack(l) = {}
    BY <2>1 DEF Fitting, GiveBacks
  <2>3. l \in Lots /\ p[l] \in Int
    BY <1>2, <2>2
  <2>4. amount = p[l]
    <3>1. amount = SumFunctionOnSet(p, {l})
      BY <2>1, <2>2 DEF Entered, IsCredit, CreditKinds
    <3>. QED
      BY <2>3, <3>1, SumOfOne
  <2>5. DrawnOn(l) = Spent(l)
    BY <2>2, <2>3, DrawnBySpends
  <2>6. {d \in DrawnOn(l)' : entries'[d[1]].kind = "spend"} = Spent(l)
    <3>1. <<id, l>>[1] = id /\ entries'[id].kind # "spend"
      BY <1>1, <2>1
    <3>. QED
      BY <1>3, <1>6, <2>2, <3>1
  <2>7. entries[l].amount = remaining[l] + Drawn(Spent(l))
    BY <2>3, <2>5 DEF DrawsAccount
  <2>8. entries'[l] = entries[l] /\ remaining'[l] = 0
    BY <1>1, <2>2, <2>3
  <2>. QED
    BY <1>1, <1>5, <1>8, <2>2, <2>4, <2>6, <2>7, <2>8
<1>. QED
  BY <1>1, <1>7, <1>8

\* An entry and its draws keep the books.
LEMMA EnteredBooks ==
    ASSUME Books, NEW q, NEW p, NEW id, NEW amount, NEW was,
           Fitting(q, p), Entered(q, p, id, amount, was)
    PROVE  Books'
BY EnteredTables, EnteredAgrees, EnteredDraws, EnteredInOrder, EnteredRefunds, EnteredReversals DEF Books

-----------------------------------------------------------------------------
(* The callers: who does not step stands where it stood                       *)

\* Nothing is written to the tables.
Still == entries' = entries /\ remaining' = remaining /\ draws' = draws /\ seq' = seq

\* What is d's own is as it was.
Aside(d) ==
    /\ pc'[d] = pc[d] /\ ask'[d] = ask[d] /\ seen'[d] = seen[d]
    /\ plan'[d] = plan[d] /\ told'[d] = told[d]

\* Nobody else takes or moves a row that d holds; and none enters while d forgets.
Undisturbed(d) ==
    /\ \A u \in Currencies : lock[u] = d => lock'[u] = d /\ balance'[u] = balance[u]
    /\ pc[d] = "forgetting" =>
         /\ balance' = balance
         /\ \A e \in Callers : pc[e] \notin {"locked", "writing"} => pc'[e] \notin {"locked", "writing"}

\* A caller that is left alone by a step that writes nothing stands as it did.
LEMMA OtherStands ==
    ASSUME Callings, NEW d \in Callers, Still, Aside(d), Undisturbed(d)
    PROVE  Standing(d)'
<1>1. Standing(d)
  BY DEF Callings
<1>2. entries' = entries /\ remaining' = remaining /\ draws' = draws /\ seq' = seq
  BY DEF Still
<1>3. /\ Lots' = Lots /\ \A u : LotsOf(u)' = LotsOf(u)
      /\ \A l : GivenBack(l)' = GivenBack(l)
      /\ \A l, m : Before(l, m)' <=> Before(l, m)
  BY <1>2, SumsStand
<1>4. /\ pc'[d] = pc[d] /\ ask'[d] = ask[d] /\ seen'[d] = seen[d]
      /\ plan'[d] = plan[d] /\ told'[d] = told[d]
  BY DEF Aside
<1>5. pc[d] \notin {"idle", "forgetting"} => Asked(d)'
  BY <1>1, <1>2, <1>3, <1>4 DEF Standing, Asked
<1>6. pc[d] \in {"locked", "writing"} => Reads(d)'
  <2> SUFFICES ASSUME pc[d] \in {"locked", "writing"} PROVE Reads(d)'
    OBVIOUS
  <2>1. Reads(d) /\ ask[d].currency \in Currencies
    BY <1>1 DEF Standing, Asked, Request
  <2>2. lock'[ask[d].currency] = d /\ balance'[ask[d].currency] = balance[ask[d].currency]
    BY <2>1 DEF Reads, Undisturbed
  <2>. QED
    BY <1>4, <2>1, <2>2 DEF Reads, Kept
<1>7. pc[d] = "forgetting" => Alone(d)'
  <2> SUFFICES ASSUME pc[d] = "forgetting" PROVE Alone(d)'
    OBVIOUS
  <2>1. Alone(d)
    BY <1>1 DEF Standing
  <2>. QED
    BY <2>1 DEF Alone, Undisturbed
<1>8. IF pc[d] = "writing" THEN Planned(d)' ELSE plan[d] = <<>>
  <2>1. \A m : Left(plan[d])'[m] = Left(plan[d])[m]
    BY <1>2, <1>3, <1>4 DEF Left
  <2>2. Planned(d) => Planned(d)'
    BY <1>2, <1>3, <1>4, <2>1 DEF Planned
  <2>. QED
    BY <1>1, <2>2 DEF Standing
<1>9. pc[d] = "done" => Told(d)'
  BY <1>1, <1>2, <1>3, <1>4 DEF Standing, Told
<1>. QED
  BY <1>4, <1>5, <1>6, <1>7, <1>8, <1>9 DEF Standing

\* Nor does its answer lose its truth.
LEMMA OtherToldTruly ==
    ASSUME AnsweredTruly, NEW d \in Callers, Still, Aside(d)
    PROVE  pc'[d] = "done" => AnswersTruly(ask[d], told[d])'
<1>1. /\ Lots' = Lots /\ \A l : DrawnOn(l)' = DrawnOn(l)
      /\ \A D : Drawn(D)' = Drawn(D)
  BY SumsStand DEF Still, Drawn
<1>2. pc[d] = "done" => AnswersTruly(ask[d], told[d])
  BY DEF AnsweredTruly
<1>. QED
  BY <1>1, <1>2 DEF AnswersTruly, Still, Aside

\* A step of c that writes nothing keeps the invariant, if it leaves c standing
\* and the others alone.
LEMMA StillKeeps ==
    ASSUME IInv, NEW c \in Callers, Still, Sessions', recent' \in BOOLEAN,
           balance' \in [Currencies -> Nat \union {NoRow}],
           \A u \in Currencies : balance'[u] = balance[u] \/ (balance[u] = NoRow /\ balance'[u] = 0),
           \A d \in Callers \ {c} : Aside(d) /\ Undisturbed(d),
           Standing(c)', pc'[c] = "done" => AnswersTruly(ask[c], told[c])'
    PROVE  IInv'
<1>1. Books'
  BY BooksStand DEF IInv, Still
<1>2. \A d \in Callers : Standing(d)'
  BY OtherStands DEF IInv
<1>3. AnsweredTruly'
  BY OtherToldTruly DEF IInv, AnsweredTruly
<1>. QED
  BY <1>1, <1>2, <1>3 DEF IInv, Callings

\* Where the callers are, by type.
LEMMA SessionsAre ==
    ASSUME IInv, NEW c \in Callers
    PROVE  /\ Tables /\ Agrees /\ DrawsAccount /\ SpentInOrder /\ RefundedWhole /\ ReversedWhole
           /\ Sessions /\ Standing(c) /\ recent \in BOOLEAN
           /\ balance \in [Currencies -> Nat \union {NoRow}]
           /\ Nobody \notin Callers /\ NoRow \notin Nat /\ NoEntry \notin Nat
           /\ lock \in [Currencies -> Callers \union {Nobody}]
BY EconomyAssumption DEF IInv, Books, Callings, Sessions, Tables

\* Nothing is given up but what c holds.
LEMMA OnlyItsOwn ==
    ASSUME NEW c \in Callers, lock \in [Currencies -> Callers \union {Nobody}]
    PROVE  /\ Unlocked(c) \in [Currencies -> Callers \union {Nobody}]
           /\ \A u \in Currencies, d \in Callers \ {c} : lock[u] = d => Unlocked(c)[u] = d
BY DEF Unlocked

\* A transaction that rolls back.
LEMMA RollbackKeeps ==
    ASSUME IInv, NEW c \in Callers, Rollback(c)
    PROVE  IInv'
<1>0. Sessions /\ Standing(c) /\ recent \in BOOLEAN /\ balance \in [Currencies -> Nat \union {NoRow}]
  BY SessionsAre
<1>1. /\ Still /\ lock' = Unlocked(c) /\ pc' = [pc EXCEPT ![c] = "idle"]
      /\ ask' = [ask EXCEPT ![c] = NoEntry] /\ seen' = [seen EXCEPT ![c] = 0]
      /\ plan' = [plan EXCEPT ![c] = <<>>] /\ recent' = recent /\ balance' = balance /\ told' = told
  BY DEF Rollback, tables, Still
<1>2. /\ lock' \in [Currencies -> Callers \union {Nobody}]
      /\ \A u \in Currencies, d \in Callers \ {c} : lock[u] = d => lock'[u] = d
  BY <1>0, <1>1, OnlyItsOwn DEF Sessions
<1>3. Sessions'
  BY <1>0, <1>1, <1>2 DEF Sessions
<1>4. pc'[c] = "idle" /\ plan'[c] = <<>>
  BY <1>0, <1>1 DEF Sessions
<1>5. \A d \in Callers \ {c} : Aside(d)
  BY <1>0, <1>1 DEF Sessions, Aside
<1>6. \A e \in Callers : pc[e] \notin {"locked", "writing"} => pc'[e] \notin {"locked", "writing"}
  BY <1>0, <1>1 DEF Sessions
<1>7. \A d \in Callers \ {c} : Undisturbed(d)
  BY <1>1, <1>2, <1>6 DEF Undisturbed
<1>8. Standing(c)'
  BY <1>4 DEF Standing
<1>9. /\ recent' \in BOOLEAN /\ balance' \in [Currencies -> Nat \union {NoRow}]
      /\ \A u \in Currencies : balance'[u] = balance[u] \/ (balance[u] = NoRow /\ balance'[u] = 0)
  BY <1>0, <1>1
<1>10. Still
  BY <1>1
<1>11. pc'[c] = "done" => AnswersTruly(ask[c], told[c])'
  BY <1>4
<1>. QED
  BY <1>3, <1>5, <1>7, <1>8, <1>9, <1>10, <1>11, StillKeeps

\* One that commits without an entry, its answer true.
LEMMA FinishKeeps ==
    ASSUME IInv, NEW c \in Callers, pc[c] = "locked", Still, recent' = recent,
           NEW answer \in Said, Finish(c, Kept(c), answer),
           Told(c)', AnswersTruly(ask[c], answer)
    PROVE  IInv'
<1>0. Sessions /\ Standing(c) /\ recent \in BOOLEAN /\ balance \in [Currencies -> Nat \union {NoRow}]
  BY SessionsAre
<1> DEFINE v == ask[c].currency
<1>1. /\ lock' = Unlocked(c) /\ pc' = [pc EXCEPT ![c] = "done"] /\ ask' = ask
      /\ seen' = [seen EXCEPT ![c] = 0] /\ plan' = [plan EXCEPT ![c] = <<>>]
      /\ told' = [told EXCEPT ![c] = answer] /\ balance' = [balance EXCEPT ![v] = Kept(c)]
  BY DEF Finish
<1>2. /\ lock' \in [Currencies -> Callers \union {Nobody}]
      /\ \A u \in Currencies, d \in Callers \ {c} : lock[u] = d => lock'[u] = d
  BY <1>0, <1>1, OnlyItsOwn DEF Sessions
<1>3. Sessions'
  BY <1>0, <1>1, <1>2 DEF Sessions
<1>4. Asked(c) /\ Reads(c) /\ v \in Currencies
  BY <1>0 DEF Standing, Asked, Request
<1>5. /\ \A u \in Currencies \ {v} : balance'[u] = balance[u]
      /\ balance'[v] = balance[v] \/ (balance[v] = NoRow /\ balance'[v] = 0)
      /\ balance' \in [Currencies -> Nat \union {NoRow}]
  <2>1. Kept(c) = IF balance[v] = NoRow THEN 0 ELSE balance[v]
    BY DEF Kept
  <2>2. Kept(c) \in Nat
    BY <1>0, <1>4, <2>1
  <2> HIDE DEF v
  <2>3. /\ \A u \in Currencies \ {v} : balance'[u] = balance[u]
        /\ balance'[v] = Kept(c)
        /\ balance' \in [Currencies -> Nat \union {NoRow}]
    BY <1>0, <1>1, <1>4, <2>2
  <2>. QED
    BY <2>1, <2>3
<1>6. \A d \in Callers \ {c} : Aside(d)
  BY <1>0, <1>1 DEF Sessions, Aside
<1>7. ASSUME NEW d \in Callers \ {c} PROVE Undisturbed(d)
  <2>1. pc[d] # "forgetting"
    <3>1. pc[d] = "forgetting" => Alone(d)
      BY SessionsAre DEF Standing
    <3>. QED
      BY <3>1 DEF Alone
  <2>2. lock[v] # d
    BY <1>4, <1>7 DEF Reads
  <2>. QED
    BY <1>2, <1>5, <2>1, <2>2 DEF Undisturbed
<1>8. Asked(c)'
  <2>1. Lots' = Lots
    BY SumsStand DEF Still
  <2>. QED
    BY <1>1, <1>4, <2>1 DEF Asked, Still
<1>9. pc'[c] = "done" /\ plan'[c] = <<>> /\ told'[c] = answer
  BY <1>0, <1>1 DEF Sessions
<1>10. Standing(c)'
  BY <1>8, <1>9 DEF Standing
<1>11. AnswersTruly(ask[c], told[c])'
  <2>1. /\ Lots' = Lots /\ \A l : DrawnOn(l)' = DrawnOn(l)
        /\ \A D : Drawn(D)' = Drawn(D)
    BY SumsStand DEF Still, Drawn
  <2>. QED
    BY <1>1, <1>9, <2>1 DEF AnswersTruly, Still
<1>12. \A u \in Currencies : balance'[u] = balance[u] \/ (balance[u] = NoRow /\ balance'[u] = 0)
  <2> HIDE DEF v
  <2>. QED
    BY <1>5
<1>. QED
  BY <1>0, <1>3, <1>5, <1>6, <1>7, <1>10, <1>11, <1>12, StillKeeps

\* What is asked is of a purchase as it is in the tables.
LEMMA AsksAre ==
    ASSUME Tables, NEW q \in Asks
    PROVE  /\ q \in Request
           /\ IF q.op \in GiveBacks THEN q.of \in 1..seq ELSE q.of = NoEntry
           /\ q.of \in Lots => /\ entries[q.of].kind = "purchase" /\ entries[q.of].currency = q.currency
                               /\ entries[q.of].amount = q.amount
<1>1. NoEntry \notin Nat /\ Lots \subseteq Nat /\ Lots \subseteq DOMAIN entries /\ Lots \subseteq 1..seq
  BY EconomyAssumption, TablesAreFinite DEF Tables
<1>2. ASSUME NEW o \in Offers, NEW k \in Keys,
             q = [op |-> o.op, currency |-> o.currency, amount |-> o.amount, key |-> k, of |-> NoEntry]
      PROVE  /\ q \in Request /\ q.op \notin GiveBacks /\ q.of = NoEntry
  <2>1. o.op \in CreditKinds \union {"spend"} /\ o.currency \in Currencies /\ o.amount \in Nat \ {0}
    BY EconomyAssumption
  <2>. QED
    BY <1>2, <2>1 DEF Request, EntryKinds, CreditKinds, GiveBacks
<1>3. ASSUME NEW op \in GiveBacks, NEW k \in Keys, NEW l \in Lots, entries[l].kind = "purchase",
             q = [op |-> op, currency |-> entries[l].currency, amount |-> entries[l].amount,
                  key |-> k, of |-> l]
      PROVE  /\ q \in Request /\ q.op \in GiveBacks /\ q.of = l
             /\ entries[l].currency = q.currency /\ entries[l].amount = q.amount
  <2>1. entries[l].currency \in Currencies /\ entries[l].amount \in Nat \ {0} /\ l \in Nat
    BY <1>1 DEF Tables, Entry
  <2>. QED
    BY <1>3, <2>1 DEF Request, EntryKinds
<1>4. \/ \E o \in Offers, k \in Keys :
           q = [op |-> o.op, currency |-> o.currency, amount |-> o.amount, key |-> k, of |-> NoEntry]
      \/ \E op \in GiveBacks, k \in Keys, l \in Lots :
           /\ entries[l].kind = "purchase"
           /\ q = [op |-> op, currency |-> entries[l].currency, amount |-> entries[l].amount,
                   key |-> k, of |-> l]
  BY DEF Asks
<1>5. CASE \E o \in Offers, k \in Keys :
           q = [op |-> o.op, currency |-> o.currency, amount |-> o.amount, key |-> k, of |-> NoEntry]
  <2>1. q \in Request /\ q.op \notin GiveBacks /\ q.of = NoEntry
    BY <1>2, <1>5
  <2>. QED
    BY <1>1, <2>1
<1>6. CASE \E op \in GiveBacks, k \in Keys, l \in Lots :
           /\ entries[l].kind = "purchase"
           /\ q = [op |-> op, currency |-> entries[l].currency, amount |-> entries[l].amount,
                   key |-> k, of |-> l]
  <2>1. PICK op \in GiveBacks, k \in Keys, l \in Lots :
           /\ entries[l].kind = "purchase"
           /\ q = [op |-> op, currency |-> entries[l].currency, amount |-> entries[l].amount,
                   key |-> k, of |-> l]
    BY <1>6
  <2>2. /\ q \in Request /\ q.op \in GiveBacks /\ q.of = l
        /\ entries[l].currency = q.currency /\ entries[l].amount = q.amount
    BY <1>3, <2>1
  <2>. QED
    BY <1>1, <2>1, <2>2
<1>. QED
  BY <1>4, <1>5, <1>6

\* A request made.
LEMMA StartKeeps ==
    ASSUME IInv, NEW c \in Callers, Start(c)
    PROVE  IInv'
<1>0. Sessions /\ Standing(c) /\ recent \in BOOLEAN /\ balance \in [Currencies -> Nat \union {NoRow}]
      /\ Tables
  BY SessionsAre
<1>1. PICK q \in Asks : ask' = [ask EXCEPT ![c] = q]
  BY DEF Start
<1>2. /\ Still /\ pc[c] = "idle" /\ pc' = [pc EXCEPT ![c] = "asking"]
      /\ lock' = lock /\ seen' = seen /\ plan' = plan /\ told' = told /\ recent' = recent
      /\ balance' = balance
  BY DEF Start, tables, Still
<1>3. /\ q \in Request
      /\ IF q.op \in GiveBacks THEN q.of \in 1..seq ELSE q.of = NoEntry
      /\ q.of \in Lots => /\ entries[q.of].kind = "purchase" /\ entries[q.of].currency = q.currency
                          /\ entries[q.of].amount = q.amount
  BY <1>0, AsksAre
<1>4. Sessions'
  BY <1>0, <1>1, <1>2, <1>3 DEF Sessions
<1>5. \A d \in Callers \ {c} : Aside(d) /\ Undisturbed(d)
  BY <1>0, <1>1, <1>2 DEF Sessions, Aside, Undisturbed
<1>6. pc'[c] = "asking" /\ ask'[c] = q /\ plan'[c] = <<>>
  BY <1>0, <1>1, <1>2 DEF Sessions, Standing
<1>7. Asked(c)'
  BY <1>2, <1>3, <1>6, SumsStand DEF Asked, Still
<1>8. Standing(c)' /\ (pc'[c] = "done" => AnswersTruly(ask[c], told[c])')
  BY <1>6, <1>7 DEF Standing
<1>9. /\ recent' \in BOOLEAN /\ balance' \in [Currencies -> Nat \union {NoRow}]
      /\ \A u \in Currencies : balance'[u] = balance[u] \/ (balance[u] = NoRow /\ balance'[u] = 0)
  BY <1>0, <1>2
<1>10. Still
  BY <1>2
<1>. QED
  BY <1>4, <1>5, <1>8, <1>9, <1>10, StillKeeps

\* A caller that takes a row nobody holds, made by it or there.
LEMMA RowTaken ==
    ASSUME IInv, NEW c \in Callers, pc[c] \in {"asking", "waiting"}, Still, recent' = recent,
           balance' = balance, ask' = ask, plan' = plan, told' = told,
           lock[ask[c].currency] = Nobody, lock' = [lock EXCEPT ![ask[c].currency] = c],
           seen' = [seen EXCEPT ![c] = Kept(c)], pc' = [pc EXCEPT ![c] = "locked"],
           \A d \in Callers : pc[d] # "forgetting"
    PROVE  IInv'
<1>0. Sessions /\ Standing(c) /\ recent \in BOOLEAN /\ balance \in [Currencies -> Nat \union {NoRow}]
      /\ Nobody \notin Callers /\ lock \in [Currencies -> Callers \union {Nobody}]
  BY SessionsAre
<1>1. Asked(c) /\ ask[c].currency \in Currencies /\ plan[c] = <<>>
  BY <1>0 DEF Standing, Asked, Request
<1>2. Kept(c) \in Nat
  BY <1>0, <1>1 DEF Kept
<1>3. Sessions'
  BY <1>0, <1>1, <1>2 DEF Sessions
<1>4. \A d \in Callers \ {c} : Aside(d) /\ Undisturbed(d)
  BY <1>0, <1>1 DEF Sessions, Aside, Undisturbed
<1>5. pc'[c] = "locked" /\ seen'[c] = Kept(c) /\ lock'[ask[c].currency] = c
  BY <1>0, <1>1 DEF Sessions
<1>6. Reads(c)' /\ Asked(c)'
  <2>1. Kept(c)' = Kept(c)
    BY DEF Kept
  <2>. QED
    BY <1>1, <1>5, <2>1, SumsStand DEF Reads, Asked, Still
<1>7. Standing(c)' /\ (pc'[c] = "done" => AnswersTruly(ask[c], told[c])')
  BY <1>1, <1>5, <1>6 DEF Standing
<1>8. /\ recent' \in BOOLEAN /\ balance' \in [Currencies -> Nat \union {NoRow}]
      /\ \A u \in Currencies : balance'[u] = balance[u] \/ (balance[u] = NoRow /\ balance'[u] = 0)
  BY <1>0
<1>. QED
  BY <1>3, <1>4, <1>7, <1>8, StillKeeps

\* lock() makes the row that was missing.
LEMMA MakeRowKeeps ==
    ASSUME IInv, NEW c \in Callers, MakeRow(c)
    PROVE  IInv'
<1>1. /\ pc[c] = "asking" /\ balance[ask[c].currency] = NoRow /\ lock[ask[c].currency] = Nobody
      /\ \A d \in Callers : pc[d] # "forgetting"
      /\ lock' = [lock EXCEPT ![ask[c].currency] = c] /\ seen' = [seen EXCEPT ![c] = 0]
      /\ pc' = [pc EXCEPT ![c] = "locked"]
      /\ Still /\ recent' = recent /\ balance' = balance /\ ask' = ask /\ plan' = plan /\ told' = told
  BY DEF MakeRow, Forgetting, tables, Still
<1>2. Kept(c) = 0
  BY <1>1 DEF Kept
<1>. QED
  BY <1>1, <1>2, RowTaken

\* lock() takes the row that is there: nobody forgets who has it.
LEMMA TakeRowKeeps ==
    ASSUME IInv, NEW c \in Callers, TakeRow(c)
    PROVE  IInv'
<1>1. /\ pc[c] = "waiting" /\ balance[ask[c].currency] # NoRow /\ lock[ask[c].currency] = Nobody
      /\ lock' = [lock EXCEPT ![ask[c].currency] = c]
      /\ seen' = [seen EXCEPT ![c] = balance[ask[c].currency]]
      /\ pc' = [pc EXCEPT ![c] = "locked"]
      /\ Still /\ recent' = recent /\ balance' = balance /\ ask' = ask /\ plan' = plan /\ told' = told
  BY DEF TakeRow, tables, Still
<1>2. Kept(c) = balance[ask[c].currency]
  BY <1>1 DEF Kept
<1>3. ask[c].currency \in Currencies
  BY <1>1, SessionsAre DEF Standing, Asked, Request
<1>4. ASSUME NEW d \in Callers, pc[d] = "forgetting" PROVE FALSE
  <2>1. Alone(d) /\ Nobody \notin Callers
    BY <1>4, SessionsAre DEF Standing
  <2>2. lock[ask[c].currency] = d
    BY <1>1, <1>3, <2>1 DEF Alone
  <2>. QED
    BY <1>1, <2>1, <2>2
<1>. QED
  BY <1>1, <1>2, <1>4, RowTaken

\* The row is there, and to be waited for.
LEMMA FindRowKeeps ==
    ASSUME IInv, NEW c \in Callers, FindRow(c)
    PROVE  IInv'
<1>0. Sessions /\ Standing(c) /\ recent \in BOOLEAN /\ balance \in [Currencies -> Nat \union {NoRow}]
  BY SessionsAre
<1>1. /\ Still /\ pc[c] = "asking" /\ pc' = [pc EXCEPT ![c] = "waiting"]
      /\ lock' = lock /\ seen' = seen /\ plan' = plan /\ told' = told /\ recent' = recent
      /\ balance' = balance /\ ask' = ask
  BY DEF FindRow, tables, Still
<1>2. Sessions'
  BY <1>0, <1>1 DEF Sessions
<1>3. \A d \in Callers \ {c} : Aside(d) /\ Undisturbed(d)
  BY <1>0, <1>1 DEF Sessions, Aside, Undisturbed
<1>4. Asked(c) /\ plan[c] = <<>> /\ pc'[c] = "waiting"
  BY <1>0, <1>1 DEF Standing, Sessions
<1>5. Asked(c)'
  BY <1>1, <1>4, SumsStand DEF Asked, Still
<1>6. Standing(c)' /\ (pc'[c] = "done" => AnswersTruly(ask[c], told[c])')
  BY <1>1, <1>4, <1>5 DEF Standing
<1>7. /\ recent' \in BOOLEAN /\ balance' \in [Currencies -> Nat \union {NoRow}]
      /\ \A u \in Currencies : balance'[u] = balance[u] \/ (balance[u] = NoRow /\ balance'[u] = 0)
  BY <1>0, <1>1
<1>. QED
  BY <1>1, <1>2, <1>3, <1>6, <1>7, StillKeeps

\* The answer given.
LEMMA LeaveKeeps ==
    ASSUME IInv, NEW c \in Callers, Leave(c)
    PROVE  IInv'
<1>0. Sessions /\ Standing(c) /\ recent \in BOOLEAN /\ balance \in [Currencies -> Nat \union {NoRow}]
  BY SessionsAre
<1>1. /\ Still /\ pc[c] = "done" /\ pc' = [pc EXCEPT ![c] = "idle"]
      /\ lock' = lock /\ seen' = seen /\ plan' = plan /\ told' = [told EXCEPT ![c] = NoAnswer]
      /\ recent' = recent /\ balance' = balance /\ ask' = [ask EXCEPT ![c] = NoEntry]
  BY DEF Leave, tables, Still
<1>2. NoAnswer \in Said
  BY DEF NoAnswer, Said
<1>3. Sessions'
  BY <1>0, <1>1, <1>2 DEF Sessions
<1>4. \A d \in Callers \ {c} : Aside(d) /\ Undisturbed(d)
  BY <1>0, <1>1 DEF Sessions, Aside, Undisturbed
<1>5. plan'[c] = <<>> /\ pc'[c] = "idle"
  BY <1>0, <1>1 DEF Standing, Sessions
<1>6. Standing(c)' /\ (pc'[c] = "done" => AnswersTruly(ask[c], told[c])')
  BY <1>5 DEF Standing
<1>7. /\ recent' \in BOOLEAN /\ balance' \in [Currencies -> Nat \union {NoRow}]
      /\ \A u \in Currencies : balance'[u] = balance[u] \/ (balance[u] = NoRow /\ balance'[u] = 0)
  BY <1>0, <1>1
<1>. QED
  BY <1>1, <1>3, <1>4, <1>6, <1>7, StillKeeps

\* All the rows of a holder locked: no transaction holds one.
LEMMA ForgetKeeps ==
    ASSUME IInv, NEW c \in Callers, Forget(c)
    PROVE  IInv'
<1>0. Sessions /\ Standing(c) /\ recent \in BOOLEAN /\ balance \in [Currencies -> Nat \union {NoRow}]
      /\ Nobody \notin Callers
  BY SessionsAre
<1>1. /\ Still /\ pc[c] = "idle" /\ pc' = [pc EXCEPT ![c] = "forgetting"]
      /\ seen' = seen /\ plan' = plan /\ told' = told /\ recent' = recent
      /\ balance' = balance /\ ask' = ask
      /\ \A u \in Currencies : lock[u] = Nobody
      /\ lock' = [u \in Currencies |-> IF u \in {v \in Currencies : balance[v] # NoRow} THEN c ELSE lock[u]]
  BY DEF Forget, tables, Still
<1>2. Sessions'
  BY <1>0, <1>1 DEF Sessions
<1>3. ASSUME NEW d \in Callers PROVE pc[d] \notin {"locked", "writing"}
  <2>1. pc[d] \in {"locked", "writing"} => Reads(d) /\ ask[d].currency \in Currencies
    BY SessionsAre DEF Standing, Asked, Request
  <2>. QED
    BY <1>0, <1>1, <2>1 DEF Reads
<1>4. \A d \in Callers : pc'[d] \notin {"locked", "writing"}
  BY <1>0, <1>1, <1>3 DEF Sessions
<1>5. \A d \in Callers \ {c} : Aside(d) /\ Undisturbed(d)
  BY <1>0, <1>1, <1>4 DEF Sessions, Aside, Undisturbed
<1>6. Alone(c)'
  BY <1>1, <1>4 DEF Alone
<1>7. plan'[c] = <<>> /\ pc'[c] = "forgetting"
  BY <1>0, <1>1 DEF Standing, Sessions
<1>8. Standing(c)' /\ (pc'[c] = "done" => AnswersTruly(ask[c], told[c])')
  BY <1>6, <1>7 DEF Standing
<1>9. /\ recent' \in BOOLEAN /\ balance' \in [Currencies -> Nat \union {NoRow}]
      /\ \A u \in Currencies : balance'[u] = balance[u] \/ (balance[u] = NoRow /\ balance'[u] = 0)
  BY <1>0, <1>1
<1>. QED
  BY <1>1, <1>2, <1>5, <1>8, <1>9, StillKeeps

\* Time passes over the ledger.
LEMMA AgeKeeps ==
    ASSUME IInv, Age
    PROVE  IInv'
<1>1. Still /\ recent' = FALSE /\ balance' = balance /\ lock' = lock /\ pc' = pc /\ ask' = ask
      /\ seen' = seen /\ plan' = plan /\ told' = told
  BY DEF Age, Still
<1>2. balance \in [Currencies -> Nat \union {NoRow}]
  BY DEF IInv, Books, Tables
<1>3. Books'
  BY <1>1, <1>2, BooksStand DEF IInv, Still
<1>4. \A d \in Callers : Aside(d) /\ Undisturbed(d)
  BY <1>1 DEF Aside, Undisturbed
<1>5. \A d \in Callers : Standing(d)'
  BY <1>1, <1>4, OtherStands DEF IInv
<1>6. Sessions'
  BY <1>1 DEF IInv, Callings, Sessions
<1>7. AnsweredTruly'
  BY <1>1, <1>4, OtherToldTruly DEF IInv, AnsweredTruly
<1>. QED
  BY <1>3, <1>5, <1>6, <1>7 DEF IInv, Callings

\* An entry that was written for what is asked answers it, and a reversal left
\* nothing of its purchase.
LEMMA ReplayKeeps ==
    ASSUME IInv, NEW c \in Callers, Replay(c)
    PROVE  IInv'
<1> DEFINE q == ask[c]
<1>1. PICK e \in Written(q.key) :
        IF Same(entries[e], q)
        THEN Finish(c, Kept(c),
               IF q.op # "reversal" THEN Answer(e)
               ELSE [NoAnswer EXCEPT !.entry = e, !.taken = entries[e].amount,
                                     !.spent = q.amount - entries[e].amount])
             /\ UNCHANGED tables
        ELSE Rollback(c)
  BY DEF Replay
<1>2. CASE ~Same(entries[e], q)
  BY <1>1, <1>2, RollbackKeeps
<1>3. CASE Same(entries[e], q)
  <2> DEFINE t == IF q.op # "reversal" THEN Answer(e)
                  ELSE [NoAnswer EXCEPT !.entry = e, !.taken = entries[e].amount,
                                        !.spent = q.amount - entries[e].amount]
  <2>1. Finish(c, Kept(c), t) /\ Still /\ recent' = recent /\ pc[c] = "locked"
    BY <1>1, <1>3 DEF tables, Still, Replay
  <2>2. Sessions /\ Tables /\ ReversedWhole /\ Asked(c) /\ NoEntry \notin Nat
    BY <2>1, SessionsAre DEF Standing
  <2>3. /\ e \in DOMAIN entries /\ e \in 1..seq /\ e \in Nat /\ entries[e].amount \in Nat
        /\ entries[e].key = q.key
    BY <2>2, TablesAreFinite DEF Written, Tables, Entry
  <2>4. q.amount \in Nat
    BY <2>2 DEF Asked, Request
  <2>5. t.entry = e /\ t.earlier = NoEntry
        /\ (q.op = "reversal" => t.taken = entries[e].amount /\ t.spent = q.amount - entries[e].amount)
    BY DEF Answer, NoAnswer
  <2>6. t \in Said
    <3>1. CASE q.op # "reversal"
      <4>1. t = [entry |-> e, taken |-> 0, spent |-> 0, earlier |-> NoEntry]
        BY <3>1 DEF Answer, NoAnswer
      <4> HIDE DEF t, q
      <4>2. e \in Nat /\ 0 \in Int
        BY <2>3
      <4>. QED
        BY <4>1, <4>2 DEF Said
    <3>2. CASE q.op = "reversal"
      <4>1. t = [entry |-> e, taken |-> entries[e].amount, spent |-> q.amount - entries[e].amount,
                 earlier |-> NoEntry]
        BY <3>2 DEF NoAnswer
      <4> HIDE DEF t
      <4>2. e \in Nat /\ entries[e].amount \in Int /\ q.amount - entries[e].amount \in Int
        BY <2>3, <2>4
      <4>. QED
        BY <4>1, <4>2 DEF Said
    <3>. QED
      BY <3>1, <3>2
  <2>7. /\ entries[e].kind = q.op /\ entries[e].currency = q.currency /\ entries[e].refundOf = q.of
        /\ q.op = "reversal" \/ entries[e].amount = q.amount
    BY <1>3 DEF Same
  <2>8. ASSUME q.op = "reversal", q.of \in Lots
        PROVE  /\ remaining[q.of] = 0
               /\ entries[q.of].amount = entries[e].amount
                    + Drawn({d \in DrawnOn(q.of) : entries[d[1]].kind = "spend"})
    BY <2>2, <2>3, <2>7, <2>8 DEF ReversedWhole
  <2>9. q.of \in Lots => entries[q.of].amount = q.amount
    BY <2>2 DEF Asked
  <2>10. Drawn({d \in DrawnOn(q.of) : entries[d[1]].kind = "spend"}) \in Nat
    <3>1. {d \in DrawnOn(q.of) : entries[d[1]].kind = "spend"} \subseteq DOMAIN draws
      BY DEF DrawnOn
    <3>. QED
      BY <2>2, <3>1, DrawsAdd
  <2>11. ask' = ask /\ told'[c] = t
    BY <2>1, <2>2 DEF Finish, Sessions
  <2> HIDE DEF t
  <2>12. AnswersTruly(q, t)
    <3>1. t.entry \in DOMAIN entries =>
            LET f == entries[t.entry] IN
            /\ f.key = q.key /\ f.kind = q.op /\ f.currency = q.currency /\ f.refundOf = q.of
            /\ f.amount = IF q.op = "reversal" THEN t.taken ELSE q.amount
      BY <2>3, <2>5, <2>7
    <3>2. ASSUME q.op = "reversal", q.of \in Lots
          PROVE  /\ t.taken + t.spent = entries[q.of].amount
                 /\ t.spent = Drawn({d \in DrawnOn(q.of) : entries[d[1]].kind = "spend"})
      BY <2>3, <2>4, <2>5, <2>8, <2>9, <2>10, <3>2
    <3>. QED
      BY <3>1, <3>2 DEF AnswersTruly
  <2>13. Told(c)'
    <3>1. Lots' = Lots
      BY <2>1, SumsStand DEF Still
    <3>. QED
      BY <2>1, <2>3, <2>5, <2>8, <2>11, <3>1 DEF Told, Still
  <2>. QED
    BY <2>1, <2>6, <2>12, <2>13, FinishKeeps
<1>. QED
  BY <1>2, <1>3

\* A reversal that takes nothing: of a purchase given back, or all spent.
LEMMA ReverseNothingKeeps ==
    ASSUME IInv, NEW c \in Callers, ReverseNothing(c)
    PROVE  IInv'
<1> DEFINE q == ask[c]
<1>1. Still /\ recent' = recent /\ pc[c] = "locked" /\ q.op = "reversal"
  BY DEF ReverseNothing, tables, Still
<1>2. Sessions /\ Tables /\ DrawsAccount /\ Asked(c) /\ NoEntry \notin Nat
  BY <1>1, SessionsAre DEF Standing
<1>3. q.amount \in Nat /\ (q.of \in Lots => entries[q.of].amount = q.amount)
  BY <1>2 DEF Asked, Request
<1>4. Lots' = Lots
  BY <1>1, SumsStand DEF Still
<1>5. NoEntry \notin DOMAIN entries
  BY <1>2, TablesAreFinite
<1>6. ASSUME NEW e \in GivenBack(q.of), Finish(c, Kept(c), [NoAnswer EXCEPT !.earlier = e])
      PROVE  IInv'
  <2> DEFINE t == [NoAnswer EXCEPT !.earlier = e]
  <2>1. e \in Nat
    BY <1>2, TablesAreFinite DEF GivenBack
  <2>2. t \in Said /\ t.entry = NoEntry /\ t.earlier = e
    BY <2>1 DEF Said, NoAnswer
  <2>3. ask' = ask /\ told'[c] = t
    BY <1>2, <1>6 DEF Finish, Sessions
  <2>4. Finish(c, Kept(c), t)
    BY <1>6
  <2> HIDE DEF t
  <2>5. AnswersTruly(q, t)
    BY <1>2, <1>5, <2>1, <2>2 DEF AnswersTruly
  <2>6. Told(c)'
    BY <1>1, <1>2, <1>4, <2>1, <2>2, <2>3 DEF Told
  <2>. QED
    BY <1>1, <2>2, <2>4, <2>5, <2>6, FinishKeeps
<1>7. ASSUME GivenBack(q.of) = {}, q.of \in Lots, remaining[q.of] = 0,
             Finish(c, Kept(c), [NoAnswer EXCEPT !.spent = q.amount])
      PROVE  IInv'
  <2> DEFINE t == [NoAnswer EXCEPT !.spent = q.amount]
  <2>2. t \in Said /\ t.entry = NoEntry /\ t.spent = q.amount /\ t.taken = 0
    BY <1>3 DEF Said, NoAnswer
  <2>3. ask' = ask /\ told'[c] = t
    BY <1>2, <1>7 DEF Finish, Sessions
  <2>4. Finish(c, Kept(c), t)
    BY <1>7
  <2> HIDE DEF t
  <2>5. entries[q.of].amount = Drawn({d \in DrawnOn(q.of) : entries[d[1]].kind = "spend"})
    <3>1. DrawnOn(q.of) = {d \in DrawnOn(q.of) : entries[d[1]].kind = "spend"}
      BY <1>2, <1>7, DrawnBySpends
    <3>2. entries[q.of].amount = remaining[q.of] + Drawn(DrawnOn(q.of))
      BY <1>2, <1>7 DEF DrawsAccount
    <3>3. Drawn(DrawnOn(q.of)) \in Nat
      BY <1>2, DrawsAdd DEF DrawnOn
    <3>4. entries[q.of].amount = Drawn(DrawnOn(q.of))
      BY <1>7, <3>2, <3>3
    <3>. QED
      BY <3>1, <3>4
  <2>6. AnswersTruly(q, t)
    BY <1>3, <1>5, <1>7, <2>2, <2>5 DEF AnswersTruly
  <2>7. Told(c)'
    BY <1>1, <1>2, <1>4, <1>7, <2>2, <2>3 DEF Told, Still
  <2>. QED
    BY <1>1, <2>2, <2>4, <2>6, <2>7, FinishKeeps
<1>. QED
  BY <1>6, <1>7 DEF ReverseNothing

\* The draws of a debit, planned under the lock.
LEMMA DebitsArePlanned ==
    ASSUME Tables, NEW q \in Request, NEW p, p = DrawsOf(q), DOMAIN p # {}, q.op \notin CreditKinds,
           q.op \in GiveBacks => /\ q.of \in Lots /\ GivenBack(q.of) = {}
                                 /\ entries[q.of].currency = q.currency /\ entries[q.of].amount = q.amount
    PROVE  /\ DOMAIN p \subseteq LotsOf(q.currency) /\ p \in [DOMAIN p -> Nat \ {0}]
           /\ \A l \in DOMAIN p : p[l] <= remaining[l]
           /\ q.op = "spend" =>
                /\ SumFunctionOnSet(p, DOMAIN p) = q.amount
                /\ \A l \in DOMAIN p, m \in LotsOf(q.currency) : Before(m, l) => Left(p)[m] = 0
           /\ q.op \in GiveBacks =>
                /\ DOMAIN p = {q.of} /\ p[q.of] = remaining[q.of]
                /\ q.op = "refund" => p[q.of] = q.amount
<1>1. DOMAIN <<>> = {}
  OBVIOUS
<1>2. q.op \in {"spend", "refund", "reversal"} /\ q.currency \in Currencies /\ q.amount \in Nat \ {0}
  BY DEF Request, EntryKinds, GiveBacks
<1>3. \A l \in Lots : remaining[l] \in Nat
  BY TablesAreFinite
<1>4. CASE q.op = "spend"
  <2>1. p = SpendDraws(q)
    BY <1>4 DEF DrawsOf
  <2>2. Covers(q.currency, q.amount) /\ p = Allocate(q.currency, q.amount)
    BY <1>1, <2>1 DEF SpendDraws
  <2>3. /\ DOMAIN p \subseteq OpenLots(q.currency) /\ p \in [DOMAIN p -> Nat \ {0}]
        /\ \A l \in DOMAIN p : p[l] <= remaining[l]
        /\ SumFunctionOnSet(p, DOMAIN p) = q.amount
        /\ \A l \in DOMAIN p, m \in OpenLots(q.currency) :
             Before(m, l) => m \in DOMAIN p /\ p[m] = remaining[m]
    BY <1>2, <2>2, Allocated
  <2>4. OpenLots(q.currency) \subseteq LotsOf(q.currency)
    BY DEF OpenLots, LotsOf
  <2>5. ASSUME NEW l \in DOMAIN p, NEW m \in LotsOf(q.currency), Before(m, l)
        PROVE  Left(p)[m] = 0
    <3>1. m \in Lots /\ Left(p)[m] = IF m \in DOMAIN p THEN remaining[m] - p[m] ELSE remaining[m]
      BY DEF LotsOf, Left
    <3>2. CASE m \in OpenLots(q.currency)
      <4>1. m \in DOMAIN p /\ p[m] = remaining[m]
        BY <2>3, <2>5, <3>2
      <4>. QED
        BY <1>3, <3>1, <4>1
    <3>3. CASE m \notin OpenLots(q.currency)
      <4>1. remaining[m] = 0
        BY <1>3, <3>1, <3>3 DEF OpenLots, LotsOf
      <4>. QED
        BY <2>3, <3>1, <3>3, <4>1
    <3>. QED
      BY <3>2, <3>3
  <2>. QED
    BY <1>4, <2>3, <2>4, <2>5 DEF GiveBacks
<1>5. CASE q.op = "refund"
  <2>1. p = RefundDraws(q)
    BY <1>5 DEF DrawsOf
  <2>2. IsRefundable(q.of) /\ p = [l \in {q.of} |-> q.amount]
    BY <1>1, <2>1 DEF RefundDraws
  <2>3. q.of \in Lots /\ entries[q.of].currency = q.currency /\ remaining[q.of] = q.amount
    BY <1>5, <2>2 DEF IsRefundable, GiveBacks
  <2>4. DOMAIN p = {q.of} /\ p[q.of] = q.amount
    BY <2>2
  <2>. QED
    BY <1>2, <1>5, <2>2, <2>3, <2>4 DEF LotsOf
<1>6. CASE q.op = "reversal"
  <2>1. p = ReversalDraws(q)
    BY <1>6 DEF DrawsOf
  <2>2. remaining[q.of] > 0 /\ p = [l \in {q.of} |-> remaining[q.of]]
    BY <1>1, <2>1 DEF ReversalDraws
  <2>3. q.of \in Lots /\ entries[q.of].currency = q.currency
    BY <1>6 DEF GiveBacks
  <2>4. DOMAIN p = {q.of} /\ p[q.of] = remaining[q.of] /\ p[q.of] \in Nat \ {0}
    BY <1>3, <2>2, <2>3
  <2>. QED
    BY <1>2, <1>6, <2>2, <2>3, <2>4 DEF LotsOf
<1>. QED
  BY <1>2, <1>4, <1>5, <1>6

\* What was planned is true of the lots it was planned on.
LEMMA PlanKeeps ==
    ASSUME IInv, NEW c \in Callers, Plan(c)
    PROVE  IInv'
<1> DEFINE q == ask[c]
<1>0. Sessions /\ Standing(c) /\ recent \in BOOLEAN /\ balance \in [Currencies -> Nat \union {NoRow}]
      /\ Tables
  BY SessionsAre
<1>1. /\ Still /\ pc[c] = "locked" /\ pc' = [pc EXCEPT ![c] = "writing"]
      /\ lock' = lock /\ seen' = seen /\ told' = told /\ recent' = recent
      /\ balance' = balance /\ ask' = ask
  BY DEF Plan, tables, Still
<1>2. Asked(c) /\ Reads(c) /\ plan[c] = <<>> /\ q \in Request
  BY <1>0, <1>1 DEF Standing, Asked
<1>3. IF q.op \in CreditKinds THEN plan' = plan
      ELSE /\ q.op \in GiveBacks => q.of \in Lots /\ GivenBack(q.of) = {}
           /\ DrawsOf(q) # <<>> /\ plan' = [plan EXCEPT ![c] = DrawsOf(q)]
  BY DEF Plan
<1>4. Sessions'
  BY <1>0, <1>1, <1>3 DEF Sessions
<1>5. \A d \in Callers \ {c} : Aside(d)
  BY <1>0, <1>1, <1>3 DEF Sessions, Aside
<1>6. \A d \in Callers : pc[d] # "forgetting"
  <2>1. \A d \in Callers : pc[d] = "forgetting" => Alone(d)
    BY SessionsAre DEF Standing
  <2>. QED
    BY <1>1, <2>1 DEF Alone
<1>7. \A d \in Callers \ {c} : Undisturbed(d)
  BY <1>1, <1>6 DEF Undisturbed
<1>8. pc'[c] = "writing" /\ (plan'[c] = IF q.op \in CreditKinds THEN <<>> ELSE DrawsOf(q))
  BY <1>0, <1>1, <1>2, <1>3 DEF Sessions
<1>9. /\ Lots' = Lots /\ (\A u : LotsOf(u)' = LotsOf(u)) /\ (\A l : GivenBack(l)' = GivenBack(l))
      /\ \A l, m : Before(l, m)' <=> Before(l, m)
  BY <1>1, SumsStand DEF Still
<1>10. Planned(c)'
  <2>1. PICK p : p = plan'[c]
    OBVIOUS
  <2>2. \A m : Left(plan[c])'[m] = Left(p)[m]
    BY <1>1, <1>9, <2>1 DEF Left, Still
  <2>3. CASE q.op \in CreditKinds
    <3>1. p = <<>> /\ q.op # "spend" /\ q.op \notin GiveBacks
      BY <1>8, <2>1, <2>3 DEF CreditKinds, GiveBacks
    <3>. QED
      BY <1>1, <2>1, <2>3, <3>1 DEF Planned
  <2>4. CASE q.op \notin CreditKinds
    <3>1. p = DrawsOf(q) /\ DrawsOf(q) # <<>>
      BY <1>3, <1>8, <2>1, <2>4
    <3>2. DOMAIN p # {}
      <4>1. p = [l \in DOMAIN p |-> p[l]]
        <5>1. q.op \in {"spend", "refund", "reversal"}
          BY <1>2, <2>4 DEF Request, EntryKinds, GiveBacks
        <5>. QED
          BY <3>1, <5>1 DEF DrawsOf, SpendDraws, RefundDraws, ReversalDraws, Allocate
      <4>. QED
        BY <3>1, <4>1
    <3>3. q.op \in GiveBacks => /\ q.of \in Lots /\ GivenBack(q.of) = {}
                                /\ entries[q.of].currency = q.currency /\ entries[q.of].amount = q.amount
      BY <1>2, <1>3, <2>4 DEF Asked
    <3>4. /\ DOMAIN p \subseteq LotsOf(q.currency) /\ p \in [DOMAIN p -> Nat \ {0}]
          /\ \A l \in DOMAIN p : p[l] <= remaining[l]
          /\ q.op = "spend" =>
               /\ SumFunctionOnSet(p, DOMAIN p) = q.amount
               /\ \A l \in DOMAIN p, m \in LotsOf(q.currency) : Before(m, l) => Left(p)[m] = 0
          /\ q.op \in GiveBacks =>
               /\ DOMAIN p = {q.of} /\ p[q.of] = remaining[q.of]
               /\ q.op = "refund" => p[q.of] = q.amount
      <4>1. Tables /\ q \in Request /\ p = DrawsOf(q)
        BY <1>0, <1>2, <3>1
      <4> HIDE DEF q
      <4>. QED
        BY <2>4, <3>2, <3>3, <4>1, DebitsArePlanned
    <3>5. ask'[c] = q /\ remaining' = remaining
      BY <1>1 DEF Still
    <3>. QED
      BY <1>9, <2>1, <2>2, <2>4, <3>3, <3>4, <3>5 DEF Planned
  <2>. QED
    BY <2>3, <2>4
<1>11. Asked(c)' /\ Reads(c)'
  BY <1>1, <1>2, <1>9 DEF Asked, Reads, Kept, Still
<1>12. Standing(c)' /\ (pc'[c] = "done" => AnswersTruly(ask[c], told[c])')
  BY <1>8, <1>10, <1>11 DEF Standing
<1>13. /\ recent' \in BOOLEAN /\ balance' \in [Currencies -> Nat \union {NoRow}]
       /\ \A u \in Currencies : balance'[u] = balance[u] \/ (balance[u] = NoRow /\ balance'[u] = 0)
  BY <1>0, <1>1
<1>. QED
  BY <1>1, <1>4, <1>5, <1>7, <1>12, <1>13, StillKeeps

\* Another caller stands where it did when c writes: its currency is not c's, or
\* it holds no row.
LEMMA OtherStandsByWrite ==
    ASSUME IInv, NEW c \in Callers, Write(c), NEW d \in Callers \ {c}
    PROVE  Standing(d)' /\ (pc'[d] = "done" => AnswersTruly(ask[d], told[d])')
<1>a. PICK q, p, r : q = ask[c] /\ p = plan[c] /\ r = ask[d]
  OBVIOUS
<1> DEFINE id == seq + 1  amount == AmountOf(q, p)  was == seen[c]
<1>0. Sessions /\ Tables /\ Standing(d) /\ Standing(c) /\ pc[c] = "writing" /\ NoEntry \notin Nat
      /\ lock \in [Currencies -> Callers \union {Nobody}]
  BY SessionsAre DEF Write
<1>1. Fitting(q, p) /\ Entered(q, p, id, amount, was)
  BY <1>a, WriteIsFitting DEF IInv
<1>2. /\ \A l : DrawnOn(l)' = IF l \in DOMAIN p THEN DrawnOn(l) \union {<<id, l>>} ELSE DrawnOn(l)
      /\ \A l : GivenBack(l)' = IF q.of = l THEN GivenBack(l) \union {id} ELSE GivenBack(l)
      /\ \A D : D \subseteq DOMAIN draws => SumFunctionOnSet(draws', D) = Drawn(D)
  <2> HIDE DEF id, amount, was
  <2>. QED
    BY <1>0, <1>1, DrawsMove, GivenBackMoves
<1>3. Effect(q, p, id, amount, was)
  <2> HIDE DEF id, amount, was
  <2>. QED
    BY <1>0, <1>1, EnteredSays
<1> HIDE DEF amount, was
<1>4. /\ id \notin DOMAIN entries /\ seq \in Nat /\ seq' = id
      /\ \A e \in DOMAIN entries : entries'[e] = entries[e]
      /\ DOMAIN entries' = DOMAIN entries \union {id} /\ entries'[id].currency = q.currency
      /\ Lots \subseteq DOMAIN entries /\ Lots \subseteq Lots' /\ Lots' \subseteq Lots \union {id}
      /\ \A l \in Lots : /\ remaining'[l] = IF l \in DOMAIN p THEN remaining[l] - p[l] ELSE remaining[l]
                         /\ remaining[l] \in Nat /\ remaining'[l] \in Nat /\ remaining'[l] <= remaining[l]
  <2>1. seq \in Nat /\ seq' = id
    BY <1>0, <1>1, EconomyAssumption DEF Entered, Tables
  <2>2. entries'[id].currency = q.currency
    BY <1>3 DEF Effect
  <2> HIDE DEF id
  <2>. QED
    BY <1>3, <2>1, <2>2 DEF Effect
<1>5. \A m \in DOMAIN p : m \in LotsOf(q.currency) /\ p[m] \in Nat \ {0} /\ p[m] <= remaining[m]
  BY <1>1 DEF Fitting
<1>6. /\ pc'[d] = pc[d] /\ ask'[d] = r /\ seen'[d] = seen[d] /\ plan'[d] = plan[d] /\ told'[d] = told[d]
      /\ lock' = Unlocked(c)
  BY <1>0, <1>a DEF Write, Finish, Sessions
<1>7. pc[d] # "forgetting"
  BY <1>0 DEF Standing, Alone
<1>8. ASSUME Asked(d)
      PROVE  Asked(d)' /\ (r.of \in Lots' <=> r.of \in Lots) /\ r.of # id
  <2>1. r.of # id
    BY <1>0, <1>4, <1>8, <1>a DEF Asked
  <2>2. r.of \in Lots' <=> r.of \in Lots
    BY <1>4, <2>1
  <2>3. r.of \in 1..seq => r.of \in 1..(seq')
    BY <1>4
  <2>4. r.of \in Lots => entries'[r.of] = entries[r.of]
    BY <1>4
  <2>. QED
    BY <1>6, <1>8, <1>a, <2>1, <2>2, <2>3, <2>4 DEF Asked
<1>9. ASSUME pc[d] \in {"locked", "writing"}
      PROVE  Reads(d)' /\ r.currency # q.currency
  <2>1. Reads(c) /\ Reads(d) /\ Asked(d) /\ Asked(c)
    BY <1>0, <1>9 DEF Standing
  <2>2. r.currency \in Currencies /\ q.currency \in Currencies /\ r.currency # q.currency
    BY <1>a, <2>1 DEF Reads, Asked, Request
  <2>3. lock'[r.currency] = d
    BY <1>6, <1>a, <2>1, <2>2 DEF Unlocked, Reads
  <2>4. balance'[r.currency] = balance[r.currency]
    BY <1>0, <1>1, <2>2 DEF Entered, Tables
  <2>. QED
    BY <1>6, <1>a, <2>1, <2>2, <2>3, <2>4 DEF Reads, Kept
<1>10. ASSUME pc[d] = "writing" PROVE Planned(d)'
  <2>1. Planned(d) /\ Asked(d) /\ r.currency # q.currency
    BY <1>0, <1>9, <1>10 DEF Standing
  <2>2. LotsOf(r.currency)' = LotsOf(r.currency)
    BY <1>4, <1>6, <2>1 DEF LotsOf
  <2>3. \A m \in LotsOf(r.currency) : m \in Lots /\ m \notin DOMAIN p /\ remaining'[m] = remaining[m]
    BY <1>4, <1>5, <2>1 DEF LotsOf
  <2>4. \A l, m \in Lots : Before(m, l)' <=> Before(m, l)
    BY <1>4 DEF Before
  <2>5. \A m \in LotsOf(r.currency) : Left(plan[d])'[m] = Left(plan[d])[m]
    BY <1>4, <1>6, <2>3 DEF Left
  <2>6. r.op \in GiveBacks => GivenBack(r.of)' = GivenBack(r.of)
    <3>1. r.op \in GiveBacks => r.of \in LotsOf(r.currency)
      BY <1>a, <2>1 DEF Planned
    <3>2. q.of = NoEntry \/ q.of \in LotsOf(q.currency)
      BY <1>1 DEF Fitting
    <3>3. r.op \in GiveBacks => q.of # r.of
      BY <1>0, <2>1, <3>1, <3>2, TablesAreFinite DEF LotsOf
    <3>. QED
      BY <1>2, <3>3
  <2>7. /\ DOMAIN plan[d] \subseteq LotsOf(r.currency) /\ plan[d] \in [DOMAIN plan[d] -> Nat \ {0}]
        /\ \A l \in DOMAIN plan[d] : plan[d][l] <= remaining'[l]
        /\ r.op \in CreditKinds => DOMAIN plan[d] = {}
    BY <1>a, <2>1, <2>3 DEF Planned
  <2>8. r.op = "spend" =>
          /\ SumFunctionOnSet(plan[d], DOMAIN plan[d]) = r.amount
          /\ \A l \in DOMAIN plan[d], m \in LotsOf(r.currency) : Before(m, l)' => Left(plan[d])'[m] = 0
    BY <1>a, <2>1, <2>3, <2>4, <2>5, <2>7 DEF Planned
  <2>9. r.op \in GiveBacks =>
          /\ DOMAIN plan[d] = {r.of} /\ plan[d][r.of] = remaining'[r.of] /\ GivenBack(r.of)' = {}
          /\ r.op = "refund" => plan[d][r.of] = r.amount
    BY <1>a, <2>1, <2>3, <2>6, <2>7 DEF Planned
  <2>. QED
    BY <1>6, <2>2, <2>7, <2>8, <2>9 DEF Planned
<1>11. ASSUME pc[d] = "done" PROVE Told(d)' /\ AnswersTruly(ask[d], told[d])'
  <2> DEFINE t == told[d]
  <2>1. Told(d) /\ Asked(d) /\ AnswersTruly(r, t)
    BY <1>0, <1>11, <1>a DEF Standing, IInv, AnsweredTruly
  <2>2. (r.of \in Lots' <=> r.of \in Lots) /\ r.of # id
    BY <1>8, <2>1, <1>a
  <2>3. t.entry \in 1..seq \union {NoEntry}
    BY <2>1 DEF Told
  <2>4. t.entry \in DOMAIN entries' <=> t.entry \in DOMAIN entries
    BY <1>0, <1>4, <2>3
  <2>5. Told(d)'
    <3>1. t.entry \in 1..(seq') \union {NoEntry}
      BY <1>4, <2>3
    <3>2. r.op = "reversal" /\ t.earlier = NoEntry /\ r.of \in Lots => remaining'[r.of] = 0
      BY <1>4, <2>1, <1>a DEF Told
    <3>. QED
      BY <1>6, <2>2, <3>1, <3>2 DEF Told
  <2>6. ASSUME r.op = "reversal", t.earlier = NoEntry, r.of \in Lots'
        PROVE  /\ t.taken + t.spent = entries'[r.of].amount
               /\ t.spent = SumFunctionOnSet(draws', {x \in DrawnOn(r.of)' : entries'[x[1]].kind = "spend"})
    <3> DEFINE S == {x \in DrawnOn(r.of) : entries[x[1]].kind = "spend"}
    <3>1. r.of \in Lots /\ remaining[r.of] = 0
      BY <2>1, <2>2, <2>6, <1>a DEF Told
    <3>2. r.of \notin DOMAIN p
      <4>1. r.of \in DOMAIN p => p[r.of] \in Nat \ {0} /\ p[r.of] <= remaining[r.of]
        BY <1>5
      <4>. QED
        BY <3>1, <4>1
    <3>3. \A x \in DrawnOn(r.of) : entries'[x[1]] = entries[x[1]]
      BY <1>0, <1>4 DEF DrawnOn, Tables, DrawIsOf
    <3>4. {x \in DrawnOn(r.of)' : entries'[x[1]].kind = "spend"} = S
      BY <1>2, <3>2, <3>3
    <3>5. S \subseteq DOMAIN draws
      BY DEF DrawnOn
    <3>6. SumFunctionOnSet(draws', S) = Drawn(S)
      <4> HIDE DEF S
      <4>. QED
        BY <1>2, <3>5
    <3>7. t.taken + t.spent = entries[r.of].amount /\ t.spent = Drawn(S)
      BY <2>1, <2>6, <3>1 DEF AnswersTruly
    <3>. QED
      BY <1>4, <3>1, <3>4, <3>6, <3>7
  <2>7. t.entry \in DOMAIN entries =>
          LET e == entries'[t.entry] IN
          /\ e.key = r.key /\ e.kind = r.op /\ e.currency = r.currency /\ e.refundOf = r.of
          /\ e.amount = IF r.op = "reversal" THEN t.taken ELSE r.amount
    BY <1>4, <2>1 DEF AnswersTruly
  <2>. QED
    BY <1>6, <2>4, <2>5, <2>6, <2>7 DEF AnswersTruly, Drawn
<1>12. Standing(d)'
  BY <1>0, <1>6, <1>7, <1>8, <1>9, <1>10, <1>11 DEF Standing
<1>. QED
  BY <1>6, <1>11, <1>12

\* Who wrote is answered with its entry, and a reversal with what it took of a
\* purchase that spends alone had drawn on.
LEMMA WriterStands ==
    ASSUME IInv, NEW c \in Callers, Write(c)
    PROVE  Standing(c)' /\ AnswersTruly(ask[c], told[c])'
<1>a. PICK q, p : q = ask[c] /\ p = plan[c]
  OBVIOUS
<1> DEFINE id == seq + 1  amount == AmountOf(q, p)  was == seen[c]
<1>0. Sessions /\ Tables /\ DrawsAccount /\ Standing(c) /\ pc[c] = "writing" /\ NoEntry \notin Nat
  BY SessionsAre DEF Write
<1>1. Fitting(q, p) /\ Entered(q, p, id, amount, was)
  BY <1>a, WriteIsFitting DEF IInv
<1>2. Books' /\ Effect(q, p, id, amount, was)
  <2> HIDE DEF id, amount, was
  <2>. QED
    BY <1>0, <1>1, EnteredBooks, EnteredSays DEF IInv
<1>3. told' = [told EXCEPT ![c] =
        IF q.op # "reversal" THEN Answer(id)
        ELSE [NoAnswer EXCEPT !.entry = id, !.taken = amount, !.spent = q.amount - amount]]
      /\ pc' = [pc EXCEPT ![c] = "done"] /\ plan' = [plan EXCEPT ![c] = <<>>] /\ ask' = ask
  BY <1>a DEF Write, Finish
<1>4. pc'[c] = "done" /\ plan'[c] = <<>> /\ ask'[c] = q
  BY <1>0, <1>3, <1>a DEF Sessions
<1>5. /\ told'[c].entry = id /\ told'[c].earlier = NoEntry
      /\ q.op = "reversal" => told'[c].taken = amount /\ told'[c].spent = q.amount - amount
  BY <1>0, <1>3 DEF Sessions, Answer, NoAnswer
<1> HIDE DEF amount, was
<1>6. /\ id \notin DOMAIN entries /\ seq \in Nat /\ seq' = id /\ id \in Nat
      /\ \A e \in DOMAIN entries : entries'[e] = entries[e]
      /\ DOMAIN entries' = DOMAIN entries \union {id}
      /\ entries'[id].kind = q.op /\ entries'[id].currency = q.currency /\ entries'[id].amount = amount
      /\ entries'[id].key = q.key /\ entries'[id].refundOf = q.of
      /\ Lots \subseteq DOMAIN entries /\ Lots \subseteq Lots' /\ Lots' \subseteq Lots \union {id}
      /\ amount \in Nat
  <2>1. seq \in Nat /\ seq' = id /\ id \in Nat /\ amount \in Nat
    BY <1>0, <1>1, EconomyAssumption DEF Entered, Tables
  <2>2. entries'[id].kind = q.op /\ entries'[id].currency = q.currency /\ entries'[id].amount = amount
        /\ entries'[id].key = q.key /\ entries'[id].refundOf = q.of
    BY <1>2 DEF Effect
  <2> HIDE DEF id
  <2>. QED
    BY <1>2, <2>1, <2>2 DEF Effect
<1>7. Asked(c) /\ q \in Request /\ q.amount \in Nat
  BY <1>0, <1>a DEF Standing, Asked, Request
<1>8. Asked(c)'
  <2>1. q.of # id
    BY <1>0, <1>6, <1>7, <1>a DEF Asked
  <2>2. q.of \in 1..seq => q.of \in 1..(seq')
    BY <1>6
  <2>. QED
    BY <1>4, <1>6, <1>7, <1>a, <2>1, <2>2 DEF Asked
<1>9. ASSUME q.op = "reversal"
      PROVE  /\ remaining'[q.of] = 0 /\ q.of \in Lots /\ entries'[q.of].amount = q.amount
             /\ entries'[q.of].amount
                  = amount + SumFunctionOnSet(draws', {d \in DrawnOn(q.of)' : entries'[d[1]].kind = "spend"})
  <2>1. ReversedWhole'
    BY <1>2 DEF Books
  <2>2. q.of \in Lots /\ entries[q.of].amount = q.amount
    BY <1>1, <1>9 DEF Fitting, GiveBacks, LotsOf
  <2>3. id \in DOMAIN entries' /\ entries'[id].kind = "reversal" /\ entries'[id].refundOf = q.of
        /\ entries'[id].amount = amount /\ entries'[q.of] = entries[q.of]
    BY <1>6, <1>9, <2>2
  <2> HIDE DEF id
  <2>. QED
    BY <2>1, <2>2, <2>3 DEF ReversedWhole, Drawn
<1>10. Told(c)'
  BY <1>4, <1>5, <1>6, <1>9 DEF Told
<1>11. AnswersTruly(ask[c], told[c])'
  <2>1. amount = IF q.op = "reversal" THEN told'[c].taken ELSE q.amount
    <3>1. ASSUME q.op # "reversal" PROVE amount = q.amount
      <4>1. q.op \in CreditKinds \/ q.op = "spend" \/ q.op = "refund"
        BY <1>7, <3>1 DEF Request, EntryKinds, GiveBacks
      <4>2. CASE q.op = "refund"
        <5>1. DOMAIN p = {q.of} /\ p[q.of] = q.amount
          BY <1>1, <4>2 DEF Fitting, GiveBacks
        <5>2. amount = SumFunctionOnSet(p, {q.of})
          BY <1>1, <4>2, <5>1 DEF Entered, IsCredit, CreditKinds
        <5>. QED
          BY <1>7, <5>1, <5>2, SumOfOne
      <4>3. CASE q.op \in CreditKinds \/ q.op = "spend"
        BY <1>1, <4>3 DEF Entered, Fitting, IsCredit, CreditKinds
      <4>. QED
        BY <4>1, <4>2, <4>3
    <3>. QED
      BY <1>5, <3>1
  <2>2. ASSUME q.op = "reversal"
        PROVE  /\ told'[c].taken + told'[c].spent = entries'[q.of].amount
               /\ told'[c].spent = SumFunctionOnSet(draws', {d \in DrawnOn(q.of)' : entries'[d[1]].kind = "spend"})
    <3> DEFINE S == SumFunctionOnSet(draws', {d \in DrawnOn(q.of)' : entries'[d[1]].kind = "spend"})
    <3>1. entries'[q.of].amount = q.amount /\ entries'[q.of].amount = amount + S
      BY <1>9, <2>2
    <3>2. S \in Nat
      <4> DEFINE D == {d \in DrawnOn(q.of)' : entries'[d[1]].kind = "spend"}
      <4>1. D \subseteq DOMAIN draws
        <5>1. DOMAIN draws' = DOMAIN draws \union {<<id, l>> : l \in DOMAIN p}
          BY <1>2 DEF Effect
        <5>2. \A l : <<id, l>>[1] = id /\ entries'[id].kind # "spend"
          BY <1>6, <2>2
        <5>. QED
          BY <5>1, <5>2 DEF DrawnOn
      <4>2. SumFunctionOnSet(draws', D) = Drawn(D) /\ Drawn(D) \in Nat
        <5> HIDE DEF D, id
        <5>. QED
          BY <1>0, <1>1, <4>1, DrawsMove, DrawsAdd
      <4>. QED
        BY <4>2
    <3>. QED
      BY <1>5, <1>6, <1>7, <2>2, <3>1, <3>2
  <2>. QED
    BY <1>4, <1>5, <1>6, <2>1, <2>2 DEF AnswersTruly, Drawn
<1>. QED
  BY <1>4, <1>8, <1>10, <1>11 DEF Standing

\* An entry written keeps the books, and every caller where it stood.
LEMMA WriteKeeps ==
    ASSUME IInv, NEW c \in Callers, Write(c)
    PROVE  IInv'
<1>a. PICK q, p : q = ask[c] /\ p = plan[c]
  OBVIOUS
<1> DEFINE amount == AmountOf(q, p)
<1>0. Sessions /\ Standing(c) /\ Nobody \notin Callers /\ pc[c] = "writing"
      /\ lock \in [Currencies -> Callers \union {Nobody}] /\ Tables
  BY SessionsAre DEF Write
<1>1. Fitting(q, p) /\ Entered(q, p, seq + 1, amount, seen[c])
  BY <1>a, WriteIsFitting DEF IInv
<1>2. Books'
  BY <1>1, EnteredBooks DEF IInv
<1>3. amount \in Nat /\ q.amount \in Nat /\ seq + 1 \in Nat
  BY <1>0, <1>1, EconomyAssumption DEF Entered, Fitting, Request, Tables
<1>4. /\ told' = [told EXCEPT ![c] =
           IF q.op # "reversal" THEN Answer(seq + 1)
           ELSE [NoAnswer EXCEPT !.entry = seq + 1, !.taken = amount, !.spent = q.amount - amount]]
      /\ lock' = Unlocked(c) /\ pc' = [pc EXCEPT ![c] = "done"] /\ seen' = [seen EXCEPT ![c] = 0]
      /\ plan' = [plan EXCEPT ![c] = <<>>] /\ ask' = ask
  BY <1>a DEF Write, Finish
<1>5. Sessions'
  <2> DEFINE t == IF q.op # "reversal" THEN Answer(seq + 1)
                  ELSE [NoAnswer EXCEPT !.entry = seq + 1, !.taken = amount, !.spent = q.amount - amount]
  <2>1. t \in Said
    <3>1. CASE q.op # "reversal"
      <4>1. t = [entry |-> seq + 1, taken |-> 0, spent |-> 0, earlier |-> NoEntry]
        BY <3>1 DEF Answer, NoAnswer
      <4> HIDE DEF t
      <4>. QED
        BY <1>3, <4>1 DEF Said
    <3>2. CASE q.op = "reversal"
      <4>1. t = [entry |-> seq + 1, taken |-> amount, spent |-> q.amount - amount, earlier |-> NoEntry]
        BY <3>2 DEF NoAnswer
      <4> HIDE DEF t, amount
      <4>. QED
        BY <1>3, <4>1 DEF Said
    <3>. QED
      BY <3>1, <3>2
  <2>2. lock' \in [Currencies -> Callers \union {Nobody}]
    BY <1>0, <1>4, OnlyItsOwn
  <2> HIDE DEF t
  <2>3. told' \in [Callers -> Said]
    BY <1>0, <1>4, <2>1 DEF Sessions, t
  <2>. QED
    BY <1>0, <1>4, <2>2, <2>3 DEF Sessions
<1>6. \A d \in Callers : Standing(d)' /\ (pc'[d] = "done" => AnswersTruly(ask[d], told[d])')
  BY OtherStandsByWrite, WriterStands
<1>. QED
  BY <1>2, <1>5, <1>6 DEF IInv, Callings, AnsweredTruly

\* A holder forgotten: nothing is left of it, and no transaction was about to
\* write to it.
LEMMA DeleteKeeps ==
    ASSUME IInv, NEW c \in Callers, Delete(c)
    PROVE  IInv'
<1>0. Sessions /\ Standing(c) /\ Tables /\ recent \in BOOLEAN /\ NoRow \notin Nat
      /\ lock \in [Currencies -> Callers \union {Nobody}]
  BY SessionsAre
<1>1. /\ pc[c] = "forgetting" /\ entries' = <<>> /\ remaining' = <<>> /\ draws' = <<>>
      /\ balance' = [u \in Currencies |-> NoRow] /\ lock' = Unlocked(c)
      /\ pc' = [pc EXCEPT ![c] = "idle"] /\ seq' = seq /\ recent' = recent /\ ask' = ask
      /\ seen' = seen /\ plan' = plan /\ told' = told
  BY DEF Delete
<1>2. Books'
  <2>1. (/\ entries = <<>> /\ remaining = <<>> /\ draws = <<>> /\ seq \in 0..MaxEntries
         /\ recent \in BOOLEAN /\ balance = [u \in Currencies |-> NoRow])'
    BY <1>0, <1>1 DEF Tables
  <2>. QED
    BY <2>1, EmptyBooks, PTL
<1>3. DOMAIN entries' = {} /\ Lots' = {}
  BY <1>1 DEF Lots
<1>4. Sessions'
  BY <1>0, <1>1, OnlyItsOwn DEF Sessions
<1>5. Alone(c)
  BY <1>0, <1>1 DEF Standing
<1>6. ASSUME NEW d \in Callers PROVE Standing(d)'
  <2>1. Standing(d) /\ pc[d] \notin {"locked", "writing"}
    BY <1>5, SessionsAre DEF Alone
  <2>2. plan[d] = <<>>
    BY <2>1 DEF Standing
  <2>3. CASE d = c
    BY <1>0, <1>1, <2>2, <2>3 DEF Standing, Sessions
  <2>4. CASE d # c
    <3>1. pc'[d] = pc[d] /\ pc'[d] \notin {"locked", "writing"}
      BY <1>0, <1>1, <2>1, <2>4 DEF Sessions
    <3>2. Asked(d) => Asked(d)'
      BY <1>1, <1>3 DEF Asked
    <3>3. Alone(d) => Alone(d)'
      BY <1>0, <1>1 DEF Alone, Sessions
    <3>4. Told(d) => Told(d)'
      BY <1>1, <1>3 DEF Told
    <3>. QED
      BY <1>1, <2>1, <2>2, <3>1, <3>2, <3>3, <3>4 DEF Standing
  <2>. QED
    BY <2>3, <2>4
<1>7. AnsweredTruly'
  BY <1>3 DEF AnsweredTruly, AnswersTruly
<1>. QED
  BY <1>2, <1>4, <1>6, <1>7 DEF IInv, Callings

\* Nothing is written, and nobody asks.
LEMMA IInvInit ==
    ASSUME Init
    PROVE  IInv
<1>1. Books
  <2>1. seq \in 0..MaxEntries
    BY EconomyAssumption DEF Init
  <2>. QED
    BY <2>1, EmptyBooks DEF Init
<1>2. Sessions
  BY DEF Init, Sessions, NoAnswer, Said
<1>3. \A c \in Callers : pc[c] = "idle" /\ plan[c] = <<>>
  BY DEF Init
<1>4. (\A c \in Callers : Standing(c)) /\ AnsweredTruly
  BY <1>3 DEF Standing, AnsweredTruly
<1>. QED
  BY <1>1, <1>2, <1>4 DEF IInv, Callings

\* Every step of every caller keeps the invariant.
LEMMA IInvNext ==
    ASSUME IInv, [Next]_vars
    PROVE  IInv'
<1>1. ASSUME NEW c \in Callers, Start(c) PROVE IInv'
  BY <1>1, StartKeeps
<1>2. ASSUME NEW c \in Callers, MakeRow(c) PROVE IInv'
  BY <1>2, MakeRowKeeps
<1>3. ASSUME NEW c \in Callers, FindRow(c) PROVE IInv'
  BY <1>3, FindRowKeeps
<1>4. ASSUME NEW c \in Callers, TakeRow(c) PROVE IInv'
  BY <1>4, TakeRowKeeps
<1>5. ASSUME NEW c \in Callers, RowGone(c) \/ Refuse(c) \/ Fail(c) PROVE IInv'
  BY <1>5, RollbackKeeps DEF RowGone, Refuse, Fail
<1>6. ASSUME NEW c \in Callers, Replay(c) PROVE IInv'
  BY <1>6, ReplayKeeps
<1>7. ASSUME NEW c \in Callers, ReverseNothing(c) PROVE IInv'
  BY <1>7, ReverseNothingKeeps
<1>8. ASSUME NEW c \in Callers, Plan(c) PROVE IInv'
  BY <1>8, PlanKeeps
<1>9. ASSUME NEW c \in Callers, Write(c) PROVE IInv'
  BY <1>9, WriteKeeps
<1>10. ASSUME NEW c \in Callers, Leave(c) PROVE IInv'
  BY <1>10, LeaveKeeps
<1>11. ASSUME NEW c \in Callers, Forget(c) PROVE IInv'
  BY <1>11, ForgetKeeps
<1>12. ASSUME NEW c \in Callers, Delete(c) PROVE IInv'
  BY <1>12, DeleteKeeps
<1>13. CASE Age
  BY <1>13, AgeKeeps
<1>14. CASE UNCHANGED vars
  <2>1. Still /\ recent' = recent /\ balance' = balance /\ lock' = lock /\ pc' = pc /\ ask' = ask
        /\ seen' = seen /\ plan' = plan /\ told' = told
    BY <1>14 DEF vars, Still
  <2>2. balance \in [Currencies -> Nat \union {NoRow}] /\ recent \in BOOLEAN
    BY DEF IInv, Books, Tables
  <2>3. Books'
    BY <2>1, <2>2, BooksStand DEF IInv, Still
  <2>4. \A d \in Callers : Aside(d) /\ Undisturbed(d)
    BY <2>1 DEF Aside, Undisturbed
  <2>5. \A d \in Callers : Standing(d)'
    BY <2>1, <2>4, OtherStands DEF IInv
  <2>6. Sessions' /\ AnsweredTruly'
    BY <2>1, <2>4, OtherToldTruly DEF IInv, Callings, Sessions, AnsweredTruly
  <2>. QED
    BY <2>3, <2>5, <2>6 DEF IInv, Callings
<1>. QED
  BY <1>1, <1>2, <1>3, <1>4, <1>5, <1>6, <1>7, <1>8, <1>9, <1>10, <1>11, <1>12, <1>13, <1>14 DEF Next

\* The invariant is of every state.
THEOREM Inductive == Spec => []IInv
<1>1. Init => IInv
  BY IInvInit
<1>2. IInv /\ [Next]_vars => IInv'
  BY IInvNext
<1>. QED
  BY <1>1, <1>2, PTL DEF Spec

\* reconcile finds no difference, whatever the currencies and the requests and
\* however many run at once.
THEOREM LedgerAccountsAlways == Spec => []LedgerAccounts
<1>1. IInv => LedgerAccounts
  BY DEF IInv, Books, LedgerAccounts
<1>. QED
  BY <1>1, Inductive, PTL

\* Lots are spent in their order, and a purchase is given back once and whole.
THEOREM LotsAreKeptAlways == Spec => []LotsAreKept
<1>1. IInv => LotsAreKept
  BY DEF IInv, Books, LotsAreKept
<1>. QED
  BY <1>1, Inductive, PTL

\* Every answer is of an entry written for what was asked.
THEOREM AnsweredTrulyAlways == Spec => []AnsweredTruly
<1>1. IInv => AnsweredTruly
  BY DEF IInv
<1>. QED
  BY <1>1, Inductive, PTL

\* Nothing that is kept is negative, and every table has its type.
THEOREM TypeCorrect == Spec => []TypeOK
<1>1. ASSUME IInv PROVE TypeOK
  <2>1. Tables /\ Callings
    BY <1>1 DEF IInv, Books
  <2>2. Lots = {e \in DOMAIN entries : entries[e].kind \in CreditKinds}
    BY <2>1 DEF Tables, Lots
  <2>3. \A l \in Lots : remaining[l] \in 0..entries[l].amount
    <3>1. \A l \in Lots : remaining[l] \in Nat /\ entries[l].amount \in Nat /\ remaining[l] <= entries[l].amount
      BY <2>1, <2>2 DEF Tables, Entry
    <3>. QED
      BY <3>1
  <2>4. ASSUME NEW d \in DOMAIN draws PROVE d \in (DOMAIN entries) \X Lots /\ draws[d] \in Nat \ {0}
    <3>1. d = <<d[1], d[2]>> /\ d[1] \in DOMAIN entries /\ d[2] \in Lots /\ draws[d] \in Nat \ {0}
      BY <2>1 DEF Tables, DrawIsOf
    <3>. QED
      BY <3>1
  <2>5. /\ DOMAIN entries \subseteq 1..seq /\ \A e \in DOMAIN entries : entries[e] \in Entry
        /\ balance \in [Currencies -> Nat \union {NoRow}] /\ seq \in 0..MaxEntries /\ recent \in BOOLEAN
    BY <2>1 DEF Tables
  <2>6. ASSUME NEW c \in Callers PROVE seen[c] \in Nat /\ \A l \in DOMAIN plan[c] : plan[c][l] \in Nat \ {0}
    <3>1. Standing(c) /\ seen[c] \in Nat
      BY <2>1 DEF Callings, Sessions
    <3>2. pc[c] = "writing" => Planned(c)
      BY <3>1 DEF Standing
    <3>3. pc[c] # "writing" => DOMAIN plan[c] = {}
      BY <3>1 DEF Standing
    <3>. QED
      BY <3>1, <3>2, <3>3 DEF Planned
  <2>7. /\ lock \in [Currencies -> Callers \union {Nobody}]
        /\ pc \in [Callers -> {"idle", "asking", "waiting", "locked", "writing", "done", "forgetting"}]
    BY <2>1 DEF Callings, Sessions
  <2>. QED
    BY <2>2, <2>3, <2>4, <2>5, <2>6, <2>7 DEF TypeOK
<1>. QED
  BY <1>1, Inductive, PTL
===============================================================================
