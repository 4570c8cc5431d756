--------------------------- MODULE MeteringProofs ---------------------------
(***************************************************************************)
(* Theorems about Metering, for any number of overlapping sweeps, days,    *)
(* counts and failures.                                                    *)
(***************************************************************************)
EXTENDS Metering, TLAPS

\* A sweep that goes on has rows to go on with.
LEMMA Going ==
    ASSUME TypeOK, NEW s \in Sweeps, NEW step \in {"telling", "marking"},
           NEW owed \in SUBSET Owed, \A o \in owed : o.day <= today /\ usage[o.day] # NoRow,
           Goes(s, step, owed)
    PROVE  /\ sweep' \in [Sweeps -> [step: {"resting", "telling", "marking"}, owed: SUBSET Owed]]
           /\ \A r \in Sweeps :
                 /\ sweep'[r].step = "resting" <=> sweep'[r].owed = {}
                 /\ \A o \in sweep'[r].owed : o.day <= today /\ usage[o.day] # NoRow
           /\ sweep'[s].owed = owed
           /\ owed # {} => sweep'[s].step = step
           /\ \A r \in Sweeps \ {s} : sweep'[r] = sweep[r]
<1>1. (IF owed = {} THEN Resting ELSE [step |-> step, owed |-> owed])
        \in [step: {"resting", "telling", "marking"}, owed: SUBSET Owed]
  BY DEF Resting
<1>2. /\ sweep'[s] = IF owed = {} THEN Resting ELSE [step |-> step, owed |-> owed]
      /\ \A r \in Sweeps \ {s} : sweep'[r] = sweep[r]
  BY DEF TypeOK, Goes
<1>3. sweep'[s].owed = owed /\ (owed # {} => sweep'[s].step = step)
      /\ (owed = {} => sweep'[s].step = "resting")
  BY <1>2 DEF Resting
<1>. QED
  BY <1>1, <1>2, <1>3 DEF TypeOK, Goes

\* A sweep that is done with a row goes on with the others.
LEMMA Passing ==
    ASSUME TypeOK, NEW s \in Sweeps, NEW o \in sweep[s].owed, Goes(s, "telling", sweep[s].owed \ {o})
    PROVE  /\ sweep'[s].owed = sweep[s].owed \ {o}
           /\ sweep'[s].owed # {} => sweep'[s].step = "telling"
           /\ \A r \in Sweeps \ {s} : sweep'[r] = sweep[r]
<1> DEFINE rest == sweep[s].owed \ {o}
<1>1. rest \in SUBSET Owed /\ \A p \in rest : p.day <= today /\ usage[p.day] # NoRow
  BY DEF TypeOK
<1>2. Goes(s, "telling", rest)
  OBVIOUS
<1>. HIDE DEF rest
<1>3. /\ sweep'[s].owed = rest /\ (rest # {} => sweep'[s].step = "telling")
      /\ \A r \in Sweeps \ {s} : sweep'[r] = sweep[r]
  BY <1>1, <1>2, Going
<1>. QED
  BY <1>3 DEF rest

\* The rows of a sweep are counted days.
LEMMA Rows ==
    ASSUME TypeOK, NEW s \in Sweeps, NEW o \in sweep[s].owed
    PROVE  /\ o \in Owed /\ o.day \in Days /\ o.quantity \in Nat
           /\ usage[o.day] \in Row /\ usage[o.day].quantity \in Nat
           /\ sweep[s].owed \subseteq Owed
BY DEF TypeOK, Owed, Row

\* Rows, sweeps and the provider's books keep their types.
LEMMA TypeStep == MeteringAssumption /\ TypeOK /\ [Next]_vars => TypeOK'
<1> SUFFICES ASSUME MeteringAssumption, TypeOK, [Next]_vars PROVE TypeOK'
  OBVIOUS
<1> USE DEF MeteringAssumption
<1>1. ASSUME NEW d \in Days, NEW row \in Row, usage' = [usage EXCEPT ![d] = row],
             NEW quantity, Watch(d, quantity),
             UNCHANGED <<today, customer, sweep, known, billed, forgotten>>
      PROVE  TypeOK'
  <2>1. usage' \in [Days -> Row \union {NoRow}] /\ \A e \in Days : usage[e] # NoRow => usage'[e] # NoRow
    BY <1>1 DEF TypeOK, Row
  <2>2. late' \subseteq Days
    BY <1>1 DEF Watch, TypeOK
  <2>. QED
    BY <1>1, <2>1, <2>2, Rows DEF TypeOK
<1>2. ASSUME NEW d \in Days, Record(d) \/ \E quantity \in 0..MaxQuantity : Recount(d, quantity)
      PROVE  TypeOK'
  <2>1. CASE Record(d)
    <3> DEFINE q == IF Counted(d) THEN usage[d].quantity + 1 ELSE 1
    <3>1. q \in Nat
      BY DEF TypeOK, Counted, Row
    <3>2. usage' = [usage EXCEPT ![d] = [quantity |-> q, reported |-> FALSE]] /\ Watch(d, q)
      BY <2>1 DEF Record
    <3>3. [quantity |-> q, reported |-> FALSE] \in Row
      BY <3>1 DEF Row
    <3>. QED
      BY <1>1, <2>1, <3>2, <3>3 DEF Record
  <2>2. ASSUME NEW quantity \in 0..MaxQuantity, Recount(d, quantity) PROVE TypeOK'
    <3>1. [quantity |-> quantity, reported |-> Reported(d) /\ usage[d].quantity = quantity] \in Row
      BY DEF TypeOK, Reported, Row
    <3>. QED
      BY <1>1, <2>2, <3>1 DEF Recount
  <2>. QED
    BY <1>2, <2>1, <2>2
<1>3. CASE SignUp
  BY <1>3 DEF SignUp, TypeOK
<1>4. CASE NextDay
  <2>1. today' = today + 1 /\ UNCHANGED <<customer, usage, sweep, known, billed, late, forgotten>>
    BY <1>4 DEF NextDay
  <2>. QED
    BY <2>1 DEF TypeOK, Owed, Days
<1>5. ASSUME NEW s \in Sweeps, Read(s) PROVE TypeOK'
  <2> DEFINE owed == {[day |-> d, quantity |-> usage[d].quantity] :
                        d \in {e \in Days : Counted(e) /\ ~Reported(e) /\ e <= today}}
  <2>1. owed \in SUBSET Owed /\ \A o \in owed : o.day <= today /\ usage[o.day] # NoRow
    BY DEF TypeOK, Counted, Owed, Row
  <2>2. Goes(s, "telling", owed) /\ UNCHANGED <<today, customer, usage, known, billed, late, forgotten>>
    BY <1>5 DEF Read
  <2>. HIDE DEF owed
  <2>. QED
    BY <2>1, <2>2, Going DEF TypeOK
<1>6. ASSUME NEW s \in Sweeps, NEW o \in sweep[s].owed, Skip(s, o) PROVE TypeOK'
  BY <1>6, Rows, Going DEF Skip, TypeOK
<1>7. ASSUME NEW s \in Sweeps, NEW o \in sweep[s].owed,
             Bill(s, o) \/ UNCHANGED <<known, billed>>,
             UNCHANGED <<today, customer, usage, late, forgotten>>,
             Goes(s, "marking", sweep[s].owed) \/ sweep' = [sweep EXCEPT ![s] = Resting]
      PROVE  TypeOK'
  <2>1. /\ \A k \in known' : k.day \in Days /\ k.on \in 0..today
        /\ billed' \in [Days -> Nat]
    BY <1>7, Rows DEF Bill, TypeOK
  <2>2. CASE Goes(s, "marking", sweep[s].owed)
    BY <1>7, <2>1, <2>2, Rows, Going DEF TypeOK
  <2>3. CASE sweep' = [sweep EXCEPT ![s] = Resting]
    BY <1>7, <2>1, <2>3 DEF TypeOK, Resting
  <2>. QED
    BY <1>7, <2>2, <2>3
<1>8. ASSUME NEW s \in Sweeps, NEW o \in sweep[s].owed, Mark(s, o) PROVE TypeOK'
  <2>1. usage' \in [Days -> Row \union {NoRow}] /\ \A d \in Days : usage[d] # NoRow => usage'[d] # NoRow
    <3>1. [usage[o.day] EXCEPT !.reported = TRUE] \in Row
      BY Rows DEF Row
    <3>. QED
      BY <1>8, <3>1, Rows DEF Mark, TypeOK, Row
  <2>. QED
    BY <1>8, <2>1, Rows, Going DEF Mark, TypeOK, Owed
<1>9. ASSUME NEW s \in Sweeps, Fail(s) PROVE TypeOK'
  BY <1>9 DEF Fail, Goes, TypeOK, Resting
<1>10. ASSUME NEW k \in known, Forget(k) PROVE TypeOK'
  BY <1>10 DEF Forget, TypeOK
<1>11. CASE UNCHANGED vars
  BY <1>11 DEF vars, TypeOK
<1>. QED
  BY <1>1, <1>2, <1>3, <1>4, <1>5, <1>6, <1>7, <1>8, <1>9, <1>10, <1>11
  DEF Next, Handled, Tell, TellLost, Goes

\* Nothing is counted at first, and no sweep is under way.
LEMMA InitType == Init => TypeOK
<1> SUFFICES ASSUME Init PROVE TypeOK
  OBVIOUS
<1>1. sweep \in [Sweeps -> [step: {"resting", "telling", "marking"}, owed: SUBSET Owed]]
  BY DEF Init, Resting
<1>2. \A s \in Sweeps : sweep[s].step = "resting" /\ sweep[s].owed = {}
  BY DEF Init, Resting
<1>. QED
  BY <1>1, <1>2 DEF Init, TypeOK

\* Every row, sweep and reference keeps its type, and a sweep only ever holds
\* rows that are there, of days that have begun.
THEOREM TypeCorrect == ASSUME MeteringAssumption PROVE Spec => []TypeOK
BY InitType, TypeStep, PTL DEF Spec

\* A day whose figure a sweep or the provider has is watched.
LEMMA Counting ==
    ASSUME MeteringAssumption, IInv, NEW d \in Days, NEW row \in Row, usage' = [usage EXCEPT ![d] = row],
           Watch(d, row.quantity), row.reported => Reported(d),
           UNCHANGED <<today, customer, sweep, known, billed, forgotten>>
    PROVE  OwedUntilTold' /\ Markings' /\ Readings' /\ Bills'
<1> USE DEF MeteringAssumption
<1>1. /\ usage'[d] = row /\ row # NoRow
      /\ \A e \in Days \ {d} : usage'[e] = usage[e]
      /\ \A e \in Days : Counted(e) => Counted(e)'
  BY DEF IInv, TypeOK, Counted, Row
<1>2. \A e \in Days : Told(e)' <=> Told(e)
  BY DEF Told
<1>3. late \subseteq late'
  BY DEF Watch
<1>4. OwedUntilTold'
  BY <1>1, <1>2 DEF IInv, OwedUntilTold, Reported, Counted
<1>5. Markings'
  BY <1>2, Rows DEF IInv, Markings, At, AtRow, Owed
<1>6. ASSUME Told(d) \/ \E s \in Sweeps : \E o \in sweep[s].owed : o.day = d, d \notin late'
      PROVE  Counted(d) /\ usage[d].quantity = row.quantity
  <2>1. Counted(d) => usage[d].quantity = row.quantity
    BY <1>6 DEF Watch
  <2>2. Counted(d)
    BY <1>3, <1>6 DEF IInv, TypeOK, Counted, Bills, Watch
  <2>. QED
    BY <2>1, <2>2
<1>7. Readings'
  BY <1>1, <1>3, <1>6, Rows DEF IInv, Readings
<1>8. Bills'
  BY <1>1, <1>2, <1>3, <1>6 DEF IInv, Bills
<1>. QED
  BY <1>4, <1>5, <1>7, <1>8

\* A call, its answer lost or not, bills a day that was not billed.
LEMMA Billing ==
    ASSUME IInv, NEW s \in Sweeps, NEW o \in sweep[s].owed, Bill(s, o),
           UNCHANGED <<today, customer, usage, late, forgotten>>
    PROVE  /\ Told(o.day)' /\ \A d \in Days : Told(d) => Told(d)'
           /\ OwedUntilTold' /\ Bills'
<1>1. o.day \in Days /\ o.quantity \in Nat /\ Counted(o.day)
  BY Rows DEF IInv, TypeOK, Counted
<1>2. CASE \E k \in known : k.reference = o.day
  <2>1. UNCHANGED <<known, billed>> /\ Told(o.day)
    BY <1>2 DEF Bill, Reference, Told, IInv, Bills
  <2>. QED
    BY <2>1 DEF IInv, OwedUntilTold, Bills, Told, Counted, Reported
<1>3. CASE ~\E k \in known : k.reference = o.day
  <2>1. /\ known' = known \union {[reference |-> o.day, day |-> o.day, on |-> today]}
        /\ billed' = [billed EXCEPT ![o.day] = @ + o.quantity]
    BY <1>3 DEF Bill, Reference
  <2>2. /\ Told(o.day)' /\ \A d \in Days : Told(d) => Told(d)'
        /\ \A d \in Days \ {o.day} : Told(d)' => Told(d)
    <3> DEFINE new == [reference |-> o.day, day |-> o.day, on |-> today]
    <3>1. known' = known \union {new} /\ new.day = o.day
      BY <2>1
    <3>. HIDE DEF new
    <3>. QED
      BY <3>1 DEF Told
  <2>3. OwedUntilTold'
    BY <2>2 DEF IInv, OwedUntilTold, Counted, Reported
  <2>4. o.day \notin late \union forgotten =>
          billed'[o.day] = usage[o.day].quantity
    <3>1. ~(\E k \in known : k.day = o.day)
      BY <1>3 DEF IInv, Bills
    <3>2. o.day \notin late \union forgotten => billed[o.day] = 0
      BY <1>1, <3>1 DEF IInv, Bills, Told
    <3>3. o.day \notin late => o.quantity = usage[o.day].quantity
      BY DEF IInv, Readings
    <3>. QED
      BY <1>1, <2>1, <3>2, <3>3 DEF IInv, TypeOK
  <2>5. \A d \in Days \ {o.day} : billed'[d] = billed[d]
    BY <2>1 DEF IInv, TypeOK
  <2>6. \A k \in known' : k.reference = k.day
    BY <2>1 DEF IInv, Bills
  <2>7. Bills'
    BY <1>1, <2>2, <2>4, <2>5, <2>6 DEF IInv, Bills, Counted
  <2>. QED
    BY <2>2, <2>3, <2>7
<1>. QED
  BY <1>2, <1>3

\* Each part of IInv holds for ever: a sweep marks only what it has told, and
\* what the provider has billed is the figure of every day that stood still.
THEOREM Inductive == ASSUME MeteringAssumption PROVE Spec => []IInv
<1> USE DEF MeteringAssumption
<1>1. Init => IInv
  <2> SUFFICES ASSUME Init PROVE IInv
    OBVIOUS
  <2>1. TypeOK
    BY InitType
  <2>2. \A s \in Sweeps : sweep[s].step = "resting" /\ sweep[s].owed = {}
    BY DEF Init, Resting
  <2>3. \A d \in Days : usage[d] = NoRow /\ billed[d] = 0 /\ ~Told(d)
    BY DEF Init, Told
  <2>. QED
    BY <2>1, <2>2, <2>3 DEF Init, IInv, OwedUntilTold, Counted, Reported, Markings, At, Readings, Bills
<1>2. IInv /\ [Next]_vars => IInv'
  <2> SUFFICES ASSUME IInv, TypeOK', [Next]_vars
               PROVE  OwedUntilTold' /\ Markings' /\ Readings' /\ Bills'
    BY TypeStep DEF IInv
  <2>1. ASSUME NEW d \in Days, Record(d) PROVE OwedUntilTold' /\ Markings' /\ Readings' /\ Bills'
    <3> DEFINE q == IF Counted(d) THEN usage[d].quantity + 1 ELSE 1
               row == [quantity |-> q, reported |-> FALSE]
    <3>1. q \in Nat
      BY DEF IInv, TypeOK, Counted, Row
    <3>2. row \in Row /\ row.quantity = q /\ ~row.reported
      BY <3>1 DEF Row
    <3>3. usage' = [usage EXCEPT ![d] = row] /\ Watch(d, q)
          /\ UNCHANGED <<today, customer, sweep, known, billed, forgotten>>
      BY <2>1 DEF Record
    <3>. HIDE DEF q, row
    <3>. QED
      BY <3>2, <3>3, Counting
  <2>2. ASSUME NEW d \in Days, NEW quantity \in 0..MaxQuantity, Recount(d, quantity)
        PROVE  OwedUntilTold' /\ Markings' /\ Readings' /\ Bills'
    <3> DEFINE row == [quantity |-> quantity,
                       reported |-> Reported(d) /\ usage[d].quantity = quantity]
    <3>1. row \in Row /\ row.quantity = quantity
      BY DEF IInv, TypeOK, Reported, Row
    <3>3. row.reported => Reported(d)
      BY Zenon
    <3>2. usage' = [usage EXCEPT ![d] = row] /\ Watch(d, quantity)
          /\ UNCHANGED <<today, customer, sweep, known, billed, forgotten>>
      BY <2>2 DEF Recount
    <3>. HIDE DEF row
    <3>. QED
      BY <3>1, <3>2, <3>3, Counting
  <2>3. CASE UNCHANGED <<usage, sweep, known, billed, late, forgotten>>
    BY <2>3 DEF IInv, OwedUntilTold, Markings, Readings, Bills, Counted, Reported, Told, At, AtRow
  <2>4. ASSUME NEW s \in Sweeps, Read(s) PROVE OwedUntilTold' /\ Markings' /\ Readings' /\ Bills'
    <3> DEFINE owed == {[day |-> d, quantity |-> usage[d].quantity] :
                          d \in {e \in Days : Counted(e) /\ ~Reported(e) /\ e <= today}}
    <3>1. owed \in SUBSET Owed /\ \A o \in owed : o.day <= today /\ usage[o.day] # NoRow
      BY DEF IInv, TypeOK, Counted, Owed, Row
    <3>2. \A o \in owed : o.quantity = usage[o.day].quantity
      OBVIOUS
    <3>3. Goes(s, "telling", owed) /\ UNCHANGED <<today, customer, usage, known, billed, late, forgotten>>
      BY <2>4 DEF Read
    <3>. HIDE DEF owed
    <3>4. /\ sweep'[s].owed = owed /\ (owed # {} => sweep'[s].step = "telling")
          /\ \A r \in Sweeps \ {s} : sweep'[r] = sweep[r]
      BY <3>1, <3>3, Going DEF IInv
    <3>. QED
      BY <3>2, <3>3, <3>4
      DEF IInv, OwedUntilTold, Markings, Readings, Bills, Counted, Reported, Told, At, AtRow
  <2>5. ASSUME NEW s \in Sweeps, NEW o \in sweep[s].owed, Skip(s, o)
        PROVE  OwedUntilTold' /\ Markings' /\ Readings' /\ Bills'
    <3>1. /\ sweep'[s].owed = sweep[s].owed \ {o}
          /\ sweep'[s].owed # {} => sweep'[s].step = "telling"
          /\ \A r \in Sweeps \ {s} : sweep'[r] = sweep[r]
      BY <2>5, Passing DEF Skip, IInv
    <3>2. UNCHANGED <<today, customer, usage, known, billed, late, forgotten>>
      BY <2>5 DEF Skip
    <3>. QED
      BY <3>1, <3>2
      DEF IInv, OwedUntilTold, Markings, Readings, Bills, Counted, Reported, Told, At, AtRow
  <2>6. ASSUME NEW s \in Sweeps, NEW o \in sweep[s].owed, Tell(s, o)
        PROVE  OwedUntilTold' /\ Markings' /\ Readings' /\ Bills'
    <3>1. Bill(s, o) /\ AtRow(s, o) /\ UNCHANGED <<today, customer, usage, late, forgotten>>
      BY <2>6 DEF Tell
    <3>2. /\ sweep'[s].owed = sweep[s].owed /\ sweep'[s].step = "marking"
          /\ \A r \in Sweeps \ {s} : sweep'[r] = sweep[r]
      <4> DEFINE owed == sweep[s].owed
      <4>1. /\ owed \in SUBSET Owed /\ o \in owed
            /\ \A p \in owed : p.day <= today /\ usage[p.day] # NoRow
        BY DEF IInv, TypeOK
      <4>2. Goes(s, "marking", owed)
        BY <2>6 DEF Tell
      <4>3. owed # {}
        BY <4>1
      <4>. HIDE DEF owed
      <4>4. /\ sweep'[s].owed = owed /\ sweep'[s].step = "marking"
            /\ \A r \in Sweeps \ {s} : sweep'[r] = sweep[r]
        BY <4>1, <4>2, <4>3, Going DEF IInv
      <4>. QED
        BY <4>4 DEF owed
    <3>3. /\ Told(o.day)' /\ \A d \in Days : Told(d) => Told(d)'
          /\ OwedUntilTold' /\ Bills'
      BY <3>1, Billing
    <3>4. \A p \in sweep[s].owed : AtRow(s, p) => p.day = o.day
      <4>1. \A p \in sweep[s].owed : p.day \in Nat
        BY Rows DEF IInv, Days
      <4>. QED
        BY <3>1, <4>1 DEF AtRow
    <3>5. \A r \in Sweeps : \A p : AtRow(r, p)' <=> AtRow(r, p)
      BY <3>2 DEF AtRow
    <3>6. Markings'
      <4>1. \A r \in Sweeps : \A p \in sweep[r].owed : p.day \in Days
        BY Rows DEF IInv
      <4>. QED
        BY <3>2, <3>3, <3>4, <3>5, <4>1 DEF IInv, Markings, At
    <3>7. Readings'
      BY <3>1, <3>2 DEF IInv, Readings
    <3>. QED
      BY <3>3, <3>6, <3>7
  <2>7. ASSUME NEW s \in Sweeps, NEW o \in sweep[s].owed, TellLost(s, o)
        PROVE  OwedUntilTold' /\ Markings' /\ Readings' /\ Bills'
    <3>1. UNCHANGED <<today, customer, usage, late, forgotten>>
      BY <2>7 DEF TellLost
    <3>2. sweep' = [sweep EXCEPT ![s] = Resting]
      BY <2>7 DEF TellLost, Goes
    <3>3. (\A d \in Days : Told(d) => Told(d)') /\ OwedUntilTold' /\ Bills'
      <4>1. CASE Bill(s, o)
        BY <3>1, <4>1, Billing
      <4>2. CASE UNCHANGED <<known, billed>>
        BY <3>1, <4>2 DEF IInv, OwedUntilTold, Bills, Counted, Reported, Told
      <4>. QED
        BY <2>7, <4>1, <4>2 DEF TellLost
    <3>4. sweep'[s].owed = {} /\ sweep'[s].step = "resting" /\ \A r \in Sweeps \ {s} : sweep'[r] = sweep[r]
      BY <3>2 DEF Resting, IInv, TypeOK
    <3>5. Markings'
      <4>1. \A r \in Sweeps : \A p \in sweep[r].owed : p.day \in Days
        BY Rows DEF IInv
      <4>. QED
        BY <3>3, <3>4, <4>1 DEF IInv, Markings, At, AtRow
    <3>6. Readings'
      BY <3>1, <3>4 DEF IInv, Readings
    <3>. QED
      BY <3>3, <3>5, <3>6
  <2>8. ASSUME NEW s \in Sweeps, NEW o \in sweep[s].owed, Mark(s, o)
        PROVE  OwedUntilTold' /\ Markings' /\ Readings' /\ Bills'
    <3>1. Told(o.day) /\ o.day \in Days /\ Counted(o.day) /\ usage[o.day] \in Row
      <4>1. o.day \in Days /\ usage[o.day] \in Row
        BY Rows DEF IInv
      <4>2. Counted(o.day)
        BY DEF IInv, TypeOK, Counted
      <4>3. Told(o.day)
        BY <2>8 DEF Mark, IInv, Markings
      <4>. QED
        BY <4>1, <4>2, <4>3
    <3>2. /\ usage' = [usage EXCEPT ![o.day] = [@ EXCEPT !.reported = TRUE]]
          /\ UNCHANGED <<today, customer, known, billed, late, forgotten>>
      BY <2>8 DEF Mark
    <3>3. /\ sweep'[s].owed = sweep[s].owed \ {o}
          /\ sweep'[s].owed # {} => sweep'[s].step = "telling"
          /\ \A r \in Sweeps \ {s} : sweep'[r] = sweep[r]
      BY <2>8, Passing DEF Mark, IInv
    <3>4. [usage[o.day] EXCEPT !.reported = TRUE] \in Row
          /\ [usage[o.day] EXCEPT !.reported = TRUE].quantity = usage[o.day].quantity
      BY <3>1 DEF Row
    <3>5. /\ \A d \in Days : Counted(d)' <=> Counted(d)
          /\ \A d \in Days : Counted(d) => usage'[d].quantity = usage[d].quantity
          /\ \A d \in Days \ {o.day} : usage'[d] = usage[d]
      <4> DEFINE row == [usage[o.day] EXCEPT !.reported = TRUE]
      <4>1. row \in Row /\ row.quantity = usage[o.day].quantity
        BY <3>4
      <4>2. usage' = [usage EXCEPT ![o.day] = row]
        BY <3>2
      <4>. HIDE DEF row
      <4>3. /\ usage'[o.day] = row
            /\ \A d \in Days \ {o.day} : usage'[d] = usage[d]
        BY <4>2, <3>1 DEF IInv, TypeOK
      <4>4. row # NoRow
        BY <4>1 DEF Row
      <4>. QED
        BY <3>1, <4>1, <4>3, <4>4 DEF Counted
    <3>6. \A d \in Days : Told(d)' <=> Told(d)
      BY <3>2 DEF Told
    <3>7. OwedUntilTold'
      BY <3>1, <3>5, <3>6 DEF IInv, OwedUntilTold, Reported, Counted
    <3>8. Bills'
      BY <3>2, <3>5, <3>6 DEF IInv, Bills
    <3>9. Readings'
      <4>1. \A r \in Sweeps : \A p \in sweep'[r].owed : p \in sweep[r].owed
        BY <3>3
      <4>2. \A r \in Sweeps : \A p \in sweep[r].owed : p.day \in Days /\ Counted(p.day)
        BY Rows DEF IInv, TypeOK, Counted
      <4>. QED
        BY <3>2, <3>5, <4>1, <4>2 DEF IInv, Readings
    <3>10. Markings'
      <4>1. \A r \in Sweeps : \A p \in sweep[r].owed : p.day \in Days
        BY Rows DEF IInv
      <4>. QED
        BY <3>3, <3>6, <4>1 DEF IInv, Markings, At, AtRow
    <3>. QED
      BY <3>7, <3>8, <3>9, <3>10
  <2>9. ASSUME NEW s \in Sweeps, Fail(s) PROVE OwedUntilTold' /\ Markings' /\ Readings' /\ Bills'
    <3>1. sweep'[s].owed = {} /\ sweep'[s].step = "resting" /\ \A r \in Sweeps \ {s} : sweep'[r] = sweep[r]
      BY <2>9 DEF Fail, Goes, Resting, IInv, TypeOK
    <3>2. UNCHANGED <<today, customer, usage, known, billed, late, forgotten>>
      BY <2>9 DEF Fail
    <3>. QED
      BY <3>1, <3>2
      DEF IInv, OwedUntilTold, Markings, Readings, Bills, Counted, Reported, Told, At, AtRow
  <2>10. ASSUME NEW k \in known, Forget(k) PROVE OwedUntilTold' /\ Markings' /\ Readings' /\ Bills'
    <3>1. /\ known' = known \ {k} /\ forgotten' = forgotten \union {k.day}
          /\ UNCHANGED <<today, customer, usage, sweep, billed, late>>
      BY <2>10 DEF Forget
    <3>2. \A d \in Days : Told(d)' <=> Told(d)
      BY <3>1 DEF Told
    <3>3. OwedUntilTold' /\ Bills'
      BY <3>1, <3>2 DEF IInv, OwedUntilTold, Bills, Counted, Reported
    <3>4. Markings' /\ Readings'
      <4>1. \A r \in Sweeps : \A p \in sweep[r].owed : p.day \in Days
        BY Rows DEF IInv
      <4>. QED
        BY <3>1, <3>2, <4>1 DEF IInv, Markings, Readings, At, AtRow
    <3>. QED
      BY <3>3, <3>4
  <2>. QED
    BY <2>1, <2>2, <2>3, <2>4, <2>5, <2>6, <2>7, <2>8, <2>9, <2>10
    DEF Next, Handled, SignUp, NextDay, vars
<1>3. QED
  BY <1>1, <1>2, PTL DEF Spec

\* A day is no longer owed only if the provider was told of it, whatever fails,
\* crashes or overlaps.
THEOREM OwedUntilToldAlways == ASSUME MeteringAssumption PROVE Spec => []OwedUntilTold
<1>1. IInv => OwedUntilTold
  BY DEF IInv
<1>2. QED
  BY <1>1, Inductive, PTL

\* Overlapping, repeated and failed sweeps bill a day that stood still for what
\* was counted, and once.
THEOREM SettledIsBilledAlways == ASSUME MeteringAssumption PROVE Spec => []SettledIsBilled
<1>1. IInv => SettledIsBilled
  BY DEF IInv, OwedUntilTold, Bills, SettledIsBilled, Counted, Reported, Told
<1>2. QED
  BY <1>1, Inductive, PTL
=============================================================================
