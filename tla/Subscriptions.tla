--------------------------- MODULE Subscriptions ---------------------------
(***************************************************************************)
(* What one business pays: billing.service.ts writes one row per tenant,   *)
(* from the way to the payment page, from operators and from the webhooks  *)
(* of the provider's subscriptions, which come late, again, in any order.  *)
(***************************************************************************)
EXTENDS Naturals, Sequences

CONSTANTS
  Desks,           \* calls that may be under way at once
  Plans,           \* plans with a price at the provider
  TrialPlans,      \* those of them with trial days
  MaxQuantity,     \* bound on what a plan counts
  MaxRequests,     \* bound on the calls ever begun
  NoPlan           \* of no row

VARIABLES
  row,             \* the tenant's row of mortar_subscriptions
  customers,       \* how many customers the provider made for it
  sessions,        \* the provider's checkout sessions
  subs,            \* and its subscriptions
  news,            \* the webhooks so far: any of them may come at any time
  desk,            \* where each call is
  requests,        \* how many were begun
  given            \* whether an operator ever assigned a plan

subVars == <<row, customers, sessions, subs, news, desk, requests, given>>

Statuses == {"trialing", "active", "past_due", "paused", "cancelled", "none"}
Row == [plan: Plans \union {NoPlan}, status: Statuses, quantity: 0..MaxQuantity,
        customer: Nat, external: 0..Len(subs), pastDue: BOOLEAN, ending: BOOLEAN]
NoRow == [plan |-> NoPlan, status |-> "none", quantity |-> 0, customer |-> 0,
          external |-> 0, pastDue |-> FALSE, ending |-> FALSE]
Exists == row.plan # NoPlan

TypeOK ==
  /\ row \in Row
  /\ row.customer <= customers
  /\ ~Exists => row = NoRow
  /\ \A i \in DOMAIN subs :
        subs[i] \in [plan: Plans, status: Statuses \ {"none"}, quantity: 1..MaxQuantity, ending: BOOLEAN]
  /\ \A s \in sessions : s.request.customer \in 1..customers
  /\ \A e \in news : e.of \in DOMAIN subs
  /\ requests \in 0..MaxRequests
  /\ given \in BOOLEAN

Idle == [step |-> "idle"]

Init ==
  /\ row = NoRow /\ customers = 0 /\ sessions = {} /\ subs = <<>> /\ news = {}
  /\ desk = [d \in Desks |-> Idle] /\ requests = 0 /\ given = FALSE

At(d, step) == desk[d].step = step
Goes(d, to) == desk' = [desk EXCEPT ![d] = to] /\ UNCHANGED requests
Begins(d, to) ==
  /\ At(d, "idle") /\ requests < MaxRequests
  /\ requests' = requests + 1
  /\ desk' = [desk EXCEPT ![d] = to]

\* remember(): the one row updated, or made. Without a plan it cannot be:
\* plan_code is NOT NULL, and the caller hears an error.
Remember(patched) == row' = IF patched.plan = NoPlan THEN row ELSE patched

----------------------------------------------------------------------------
(* Calls *)

\* startCheckout() reads what there is.
Checkout(d, plan, quantity) ==
  /\ Begins(d, [step |-> "customer", plan |-> plan, quantity |-> quantity,
                trial |-> plan \in TrialPlans /\ ~Exists, known |-> row.customer])
  /\ UNCHANGED <<row, customers, sessions, subs, news, given>>

\* The provider's customer: the one known, or a new one.
CustomerFor(known) == IF known = 0 THEN customers + 1 ELSE known

\* The row has the plan before anything is paid.
Customer(d) ==
  /\ At(d, "customer")
  /\ LET customer == CustomerFor(desk[d].known)
     IN  /\ customers' = IF desk[d].known = 0 THEN customer ELSE customers
         /\ Remember([row EXCEPT !.plan = desk[d].plan, !.customer = customer,
                                 !.quantity = desk[d].quantity])
         /\ Goes(d, [desk[d] EXCEPT !.step = "session", !.known = customer])
  /\ UNCHANGED <<sessions, subs, news, given>>

\* Mutant of Reference: another quantity is another purchase.
ReferenceOfRequest(plan, quantity) == [plan |-> plan, quantity |-> quantity]

\* `checkout-tenant-plan`
Reference(plan, quantity) == [plan |-> plan, quantity |-> 0]

\* The provider makes one session for a reference, answers the same request
\* with it again and refuses another.
WithSession(reference, request) ==
  IF \E s \in sessions : s.reference = reference THEN sessions
  ELSE sessions \union {[reference |-> reference, request |-> request, paid |-> FALSE]}

Session(d) ==
  /\ At(d, "session")
  /\ sessions' = WithSession(Reference(desk[d].plan, desk[d].quantity),
                             [plan |-> desk[d].plan, customer |-> desk[d].known,
                              quantity |-> desk[d].quantity, trial |-> desk[d].trial])
  /\ Goes(d, Idle)
  /\ UNCHANGED <<row, customers, subs, news, given>>

\* assign() refuses a subscription the provider owns, and writes.
Assign(d, plan, status) ==
  /\ row.external = 0
  /\ Begins(d, [step |-> "assign", plan |-> plan, status |-> status, quantity |-> row.quantity])
  /\ UNCHANGED <<row, customers, sessions, subs, news, given>>

WriteAssign(d) ==
  /\ At(d, "assign")
  /\ Remember([row EXCEPT !.plan = desk[d].plan, !.status = desk[d].status,
                          !.quantity = desk[d].quantity, !.pastDue = FALSE, !.ending = FALSE])
  /\ given' = TRUE
  /\ Goes(d, Idle)
  /\ UNCHANGED <<customers, sessions, subs, news>>

Told(i) == news' = news \union
  {[kind |-> "subscription", of |-> i, status |-> subs'[i].status,
    quantity |-> subs'[i].quantity, ending |-> subs'[i].ending]}

\* setQuantity() and cancel() find the row, ask the provider where it owns it,
\* and write what it answered.
Change(d, step, quantity) ==
  /\ Exists
  /\ IF step = "quantity" THEN row.quantity # quantity ELSE row.external # 0
  /\ Begins(d, [step |-> IF row.external = 0 THEN "write" ELSE step, of |-> row.external,
                answer |-> [kind |-> "quantity", quantity |-> quantity]])
  /\ UNCHANGED <<row, customers, sessions, subs, news, given>>

WithQuantity(sub, quantity) == [sub EXCEPT !.quantity = quantity]
Cancelled(sub, now) == IF now THEN [sub EXCEPT !.status = "cancelled"] ELSE [sub EXCEPT !.ending = TRUE]

AskProvider(d) ==
  /\ At(d, "quantity") \/ At(d, "cancel") \/ At(d, "cancel_now")
  /\ LET i == desk[d].of
     IN  /\ subs[i].status # "cancelled"
         /\ subs' = [subs EXCEPT ![i] = IF At(d, "quantity") THEN WithQuantity(@, desk[d].answer.quantity)
                                         ELSE Cancelled(@, At(d, "cancel_now"))]
         /\ Told(i)
         /\ Goes(d, [step |-> "write", of |-> i, answer |->
              IF At(d, "quantity") THEN [kind |-> "quantity", quantity |-> subs'[i].quantity]
              ELSE [kind |-> "cancel", status |-> subs'[i].status, ending |-> subs'[i].ending]])
  /\ UNCHANGED <<row, customers, sessions, given>>

WriteChange(d) ==
  /\ At(d, "write")
  /\ LET answer == desk[d].answer
     IN  Remember(IF answer.kind = "quantity" THEN [row EXCEPT !.quantity = answer.quantity]
                  ELSE [row EXCEPT !.status = answer.status, !.ending = answer.ending])
  /\ Goes(d, Idle)
  /\ UNCHANGED <<customers, sessions, subs, news, given>>

\* A call fails or its process dies.
Stop(d) ==
  /\ ~At(d, "idle")
  /\ Goes(d, Idle)
  /\ UNCHANGED <<row, customers, sessions, subs, news, given>>

----------------------------------------------------------------------------
(* The provider *)

\* The customer pays, once, on the page of a session (external).
Pay(session) ==
  /\ ~session.paid
  /\ sessions' = (sessions \ {session}) \union {[session EXCEPT !.paid = TRUE]}
  /\ LET request == session.request IN
     subs' = Append(subs, [plan |-> request.plan, quantity |-> request.quantity, ending |-> FALSE,
                           status |-> IF request.trial THEN "trialing" ELSE "active"])
  /\ Told(Len(subs) + 1)
  /\ UNCHANGED <<row, customers, desk, requests, given>>

OfInvoice(i, paid) == [kind |-> "invoice", of |-> i, paid |-> paid]

\* An invoice is paid or not, and the subscription says so in its own event;
\* one that stays unpaid, or was to end, is cancelled (external).
Invoice(i, paid) ==
  /\ subs[i].status # "cancelled"
  /\ subs' = [subs EXCEPT ![i].status = IF paid THEN "active" ELSE "past_due"]
  /\ news' = news \union
       {OfInvoice(i, paid),
        [kind |-> "subscription", of |-> i, status |-> subs'[i].status,
         quantity |-> subs[i].quantity, ending |-> subs[i].ending]}
  /\ UNCHANGED <<row, customers, sessions, desk, requests, given>>

End(i) ==
  /\ subs[i].ending \/ subs[i].status = "past_due"
  /\ subs' = [subs EXCEPT ![i].status = "cancelled"]
  /\ Told(i)
  /\ UNCHANGED <<row, customers, sessions, desk, requests, given>>

\* settle(): the row becomes what the event says.
Settle(e) ==
  /\ Remember(IF e.kind = "subscription"
              THEN [row EXCEPT !.status = e.status, !.quantity = e.quantity, !.external = e.of,
                               !.ending = e.ending, !.pastDue = @ /\ e.status = "past_due"]
              ELSE IF e.paid THEN [row EXCEPT !.pastDue = FALSE]
              ELSE [row EXCEPT !.status = "past_due", !.pastDue = TRUE])
  /\ UNCHANGED <<customers, sessions, subs, news, desk, requests, given>>

Call(d) ==
  \/ \E plan \in Plans, quantity \in 1..MaxQuantity : Checkout(d, plan, quantity)
  \/ \E plan \in Plans, status \in {"active", "cancelled"} : Assign(d, plan, status)
  \/ \E quantity \in 1..MaxQuantity : Change(d, "quantity", quantity)
  \/ Change(d, "cancel", 0) \/ Change(d, "cancel_now", 0)
  \/ Customer(d) \/ Session(d) \/ WriteAssign(d) \/ AskProvider(d) \/ WriteChange(d)
  \/ Stop(d)

Next ==
  \/ \E d \in Desks : Call(d)
  \/ \E session \in sessions : Pay(session)
  \/ \E i \in DOMAIN subs : End(i) \/ \E paid \in BOOLEAN : Invoice(i, paid)
  \/ \E e \in news : Settle(e)

Spec == Init /\ [][Next]_subVars

----------------------------------------------------------------------------
(* What is expected of it *)

\* isEntitled(): one whose last invoice failed is still let in.
IsEntitled(status) == status \in {"trialing", "active", "past_due"}

\* A business is let in because it bought something or an operator let it in,
\* never for having been to the payment page; and however often it goes there
\* it buys a plan once.
EntitledBySale ==
  /\ IsEntitled(row.status) => given \/ subs # <<>>
  /\ \A i, j \in DOMAIN subs : subs[i].plan = subs[j].plan => i = j

=============================================================================
