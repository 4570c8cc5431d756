------------------------------ MODULE Metering ------------------------------
(***************************************************************************)
(* The metered usage of one tenant in packages/billing, one row for each   *)
(* day of one meter.  The product adds to a day or counts it afresh at any *)
(* time; sweeps, which may overlap, read what is owed in a transaction,    *)
(* then tell the provider of one day after the other and mark each in a    *)
(* transaction of its own.  A sweep may end anywhere: a call that fails    *)
(* throws out of it, and its process may die.                              *)
(***************************************************************************)
EXTENDS Naturals, FiniteSets

CONSTANTS
  Sweeps,          \* the runs of reportUsage() that may overlap
  MaxDay,          \* bound on the days that are counted
  MaxQuantity,     \* bound on what is counted in a day
  LastDay,         \* bound on the clock, in days
  DatesAreText,    \* external: whether pg answers a DATE as it is written
  NoRow

\* The module that runs these sweeps assumes it, and so does every theorem.
MeteringAssumption ==
  /\ {MaxDay, MaxQuantity, LastDay} \subseteq Nat
  /\ NoRow \notin [quantity: Nat, reported: BOOLEAN]

VARIABLES
  today,
  customer,        \* whether the tenant's subscription has a customerRef
  usage,           \* mortar_usage_records
  sweep,           \* where each sweep is, and the rows it has yet to report
  known,           \* the references the provider would recognise
  billed,          \* what it has been told to bill for each day
  late,            \* days counted again after a sweep read them
  forgotten        \* days of which the provider no longer knows a reference

vars == <<today, customer, usage, sweep, known, billed, late, forgotten>>

Days == 1..MaxDay
Row == [quantity: Nat, reported: BOOLEAN]
Owed == [day: Days, quantity: Nat]
Resting == [step |-> "resting", owed |-> {}]

TypeOK ==
  /\ today \in Nat
  /\ customer \in BOOLEAN
  /\ usage \in [Days -> Row \union {NoRow}]
  /\ sweep \in [Sweeps -> [step: {"resting", "telling", "marking"}, owed: SUBSET Owed]]
  /\ \A s \in Sweeps :
        /\ sweep[s].step = "resting" <=> sweep[s].owed = {}
        /\ \A o \in sweep[s].owed : o.day <= today /\ usage[o.day] # NoRow
  /\ \A k \in known : k.day \in Days /\ k.on \in 0..today
  /\ billed \in [Days -> Nat]
  /\ late \subseteq Days /\ forgotten \subseteq Days

Init ==
  /\ today = 1
  /\ customer = FALSE
  /\ usage = [d \in Days |-> NoRow]
  /\ sweep = [s \in Sweeps |-> Resting]
  /\ known = {}
  /\ billed = [d \in Days |-> 0]
  /\ late = {} /\ forgotten = {}

Counted(d) == usage[d] # NoRow
Reported(d) == Counted(d) /\ usage[d].reported
Told(d) == d \in forgotten \/ \E k \in known : k.day = d

----------------------------------------------------------------------------
(* The product *)

\* A day that changes after a sweep has read it.
Watch(d, quantity) ==
  late' = IF /\ \/ Told(d)
                \/ \E s \in Sweeps : \E o \in sweep[s].owed : o.day = d
             /\ Counted(d) => usage[d].quantity # quantity
          THEN late \union {d} ELSE late

\* record(): one more of what is metered, in one upsert.
Record(d) ==
  /\ d <= today
  /\ LET quantity == IF Counted(d) THEN usage[d].quantity + 1 ELSE 1
     IN  /\ quantity <= MaxQuantity
         /\ usage' = [usage EXCEPT ![d] = [quantity |-> quantity, reported |-> FALSE]]
         /\ Watch(d, quantity)
  /\ UNCHANGED <<today, customer, sweep, known, billed, forgotten>>

\* recount(): the day's figure, read out of the product's own rows; owed again
\* only if it moved.
Recount(d, quantity) ==
  /\ d <= today
  /\ usage' = [usage EXCEPT ![d] =
        [quantity |-> quantity,
         reported |-> Reported(d) /\ usage[d].quantity = quantity]]
  /\ Watch(d, quantity)
  /\ UNCHANGED <<today, customer, sweep, known, billed, forgotten>>

\* startCheckout() remembers the customer; nothing clears it.
SignUp ==
  /\ ~customer
  /\ customer' = TRUE
  /\ UNCHANGED <<today, usage, sweep, known, billed, late, forgotten>>

NextDay ==
  /\ today < LastDay
  /\ today' = today + 1
  /\ UNCHANGED <<customer, usage, sweep, known, billed, late, forgotten>>

----------------------------------------------------------------------------
(* A sweep *)

At(s, step) == sweep[s].step = step

\* A sweep with nothing left has returned.
Goes(s, step, owed) ==
  sweep' = [sweep EXCEPT ![s] = IF owed = {} THEN Resting ELSE [step |-> step, owed |-> owed]]

\* The row a sweep is at: they are in order of their days.
AtRow(s, o) == o \in sweep[s].owed /\ \A p \in sweep[s].owed : o.day <= p.day

\* SELECT ... WHERE reported_at IS NULL AND day <= before, which is today
\* unless the caller says otherwise.
Read(s) ==
  /\ At(s, "resting")
  /\ Goes(s, "telling",
          {[day |-> d, quantity |-> usage[d].quantity] :
              d \in {e \in Days : Counted(e) /\ ~Reported(e) /\ e <= today}})
  /\ UNCHANGED <<today, customer, usage, known, billed, late, forgotten>>

\* Mutant of Skip: a row nobody can be billed for is marked done.
SkipMarking(s, o) ==
  /\ At(s, "telling") /\ AtRow(s, o) /\ ~customer
  /\ usage' = [usage EXCEPT ![o.day].reported = TRUE]
  /\ Goes(s, "telling", sweep[s].owed \ {o})
  /\ UNCHANGED <<today, customer, known, billed, late, forgotten>>

\* No subscription, or one without a customer: the row stays owed.
Skip(s, o) ==
  /\ At(s, "telling") /\ AtRow(s, o) /\ ~customer
  /\ Goes(s, "telling", sweep[s].owed \ {o})
  /\ UNCHANGED <<today, customer, usage, known, billed, late, forgotten>>

\* Mutant of Reference: each sweep refers to a day by a name of its own.
ReferenceOfSweep(s, d) == <<s, d>>

\* `${tenant}-${meter}-${day}`
Reference(s, d) == d

\* new Date(`${day}T12:00:00Z`): noon of a day as it is written. Of a DATE that
\* was parsed to a JS Date it is an Invalid Date, and no moment.
Moment(d) == IF DatesAreText THEN {d} ELSE {}

\* External: the provider takes no event of the timestamp NaN.
Dated(o) == Moment(o.day) # {}

\* What the provider does with a call (external): it adds to the bill what
\* comes under a reference it does not know.
Bill(s, o) ==
  IF \E k \in known : k.reference = Reference(s, o.day)
  THEN UNCHANGED <<known, billed>>
  ELSE /\ known' = known \union {[reference |-> Reference(s, o.day), day |-> o.day, on |-> today]}
       /\ billed' = [billed EXCEPT ![o.day] = @ + o.quantity]

\* The provider is called. A customer, once read, is still the customer then.
Tell(s, o) ==
  /\ At(s, "telling") /\ AtRow(s, o) /\ customer /\ Dated(o)
  /\ Bill(s, o)
  /\ Goes(s, "marking", sweep[s].owed)
  /\ UNCHANGED <<today, customer, usage, late, forgotten>>

\* The call throws: the provider bills the day and its answer is lost, or there
\* is no moment to bill it at.
TellLost(s, o) ==
  /\ At(s, "telling") /\ AtRow(s, o) /\ customer
  /\ IF Dated(o) THEN Bill(s, o) ELSE UNCHANGED <<known, billed>>
  /\ Goes(s, "resting", {})
  /\ UNCHANGED <<today, customer, usage, late, forgotten>>

\* UPDATE ... SET reported_at = now() WHERE id: whatever the row says by now.
Mark(s, o) ==
  /\ At(s, "marking") /\ AtRow(s, o)
  /\ usage' = [usage EXCEPT ![o.day].reported = TRUE]
  /\ Goes(s, "telling", sweep[s].owed \ {o})
  /\ UNCHANGED <<today, customer, known, billed, late, forgotten>>

\* The provider refuses or a statement fails, and the error leaves the whole
\* sweep; or its process dies.
Fail(s) ==
  /\ ~At(s, "resting")
  /\ Goes(s, "resting", {})
  /\ UNCHANGED <<today, customer, usage, known, billed, late, forgotten>>

\* The provider recognises a reference "over a rolling day" (external).
Forget(k) ==
  /\ k.on < today
  /\ known' = known \ {k}
  /\ forgotten' = forgotten \union {k.day}
  /\ UNCHANGED <<today, customer, usage, sweep, billed, late>>

Handled(s) ==
  \/ Read(s)
  \/ \E o \in sweep[s].owed : Skip(s, o) \/ Tell(s, o) \/ Mark(s, o)

Next ==
  \/ \E d \in Days : Record(d) \/ \E quantity \in 0..MaxQuantity : Recount(d, quantity)
  \/ SignUp \/ NextDay
  \/ \E s \in Sweeps : Handled(s) \/ Fail(s) \/ \E o \in sweep[s].owed : TellLost(s, o)
  \/ \E k \in known : Forget(k)

Reached(d, Act(_, _)) == \E s \in Sweeps : \E o \in sweep[s].owed : o.day = d /\ Act(s, o)

\* The job runs every night, and does not fail at the same step of the same day
\* for ever.
Fairness ==
  /\ \A s \in Sweeps : WF_vars(Read(s))
  /\ \A d \in Days :
        /\ SF_vars(Reached(d, Tell))
        /\ SF_vars(Reached(d, Mark))

Spec == Init /\ [][Next]_vars /\ Fairness

----------------------------------------------------------------------------
(* What is expected of it *)

\* A row is marked only once the provider has been told of its day, through
\* failures, crashes, overlapping sweeps and tenants nobody can bill yet:
\* "a column that says which rows are still owed".
OwedUntilTold ==
  \A d \in Days : Reported(d) => Told(d)

\* "A nightly aggregation that runs twice must not bill a venue for its tickets
\* twice": a day that no longer changed once a sweep had read it is billed for
\* all that was counted and once, however often it was told, while the provider
\* knows its reference.
SettledIsBilled ==
  \A d \in Days \ (late \union forgotten) :
      /\ billed[d] > 0 => Counted(d) /\ billed[d] = usage[d].quantity
      /\ Reported(d) => billed[d] = usage[d].quantity

\* "Only a day whose figure actually moved is owed again", and then "the charge
\* would be right": a day that is no longer owed is billed for what was counted.
MarkedIsBilled ==
  \A d \in Days : Reported(d) => billed[d] = usage[d].quantity

\* "Tells the provider about everything counted and not yet reported": a day of
\* a tenant who can be billed does not stay owed. It does, where a DATE is no
\* text: billing.service.ts:508 makes no moment of it, and every call throws.
EverythingIsReported ==
  \A d \in Days : [](Counted(d) /\ customer => <>Reported(d))

----------------------------------------------------------------------------
(* Why the first two hold: the parts of the inductive invariant. *)

\* A sweep marks the row it has just told the provider of.
Markings ==
  \A s \in Sweeps :
      At(s, "marking") => \A o \in sweep[s].owed : AtRow(s, o) => Told(o.day)

\* A sweep has read a day once, and what it read is the day's figure still.
Readings ==
  \A s \in Sweeps : \A o \in sweep[s].owed :
      o.day \notin late => o.quantity = usage[o.day].quantity

\* What the provider knows it has billed: of a day it has not forgotten, once.
Bills ==
  /\ \A k \in known : k.reference = k.day
  /\ \A d \in Days \ (late \union forgotten) :
        /\ Told(d) => Counted(d) /\ billed[d] = usage[d].quantity
        /\ ~Told(d) => billed[d] = 0

IInv == TypeOK /\ OwedUntilTold /\ Markings /\ Readings /\ Bills
=============================================================================
