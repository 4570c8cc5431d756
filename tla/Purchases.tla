------------------------------ MODULE Purchases ------------------------------
(***************************************************************************)
(* packages/billing, a single payment (providers/stripe.ts): pay() asks    *)
(* the buyer's token, then the tax, then the payment, each under a key the *)
(* provider holds to one request, and may stop or lose an answer at each;  *)
(* what became of it is heard in events.                                   *)
(*                                                                         *)
(* A request is what pay() is asked, under a reference.  What keys the     *)
(* provider has seen, and what it made under them, stay with it.           *)
(***************************************************************************)
EXTENDS Integers, Sequences, FiniteSets, TLC

CONSTANTS
  Callers,          \* calls of pay() that may be under way at once
  References, Tokens, Prices,
  NoCountry,        \* tokens whose buyer gave no country
  Unplaceable,      \* and those whose address the tax cannot be worked out for
  TaxOf,            \* the tax of each of the others, inside the price or on top
  MaxCalls          \* bound on the calls begun

VARIABLES
  call,             \* of each caller
  calls,            \* begun
  calculations,     \* by key, what was asked under it
  intents,          \* the payments at the provider, in the order made
  answers,          \* what pay() answered
  refusals,         \* requests refused for where the buyer is, ...
  conflicts,        \* ... and for a key that was another request's
  told              \* events as verify() read them

purchaseVars == <<call, calls, calculations, intents, answers, refusals, conflicts, told>>

Idle == [step |-> "idle"]
Requests == [reference : References, token : Tokens, price : Prices]
Statuses == {"succeeded", "processing", "requires_action", "requires_payment_method", "canceled"}

TypeOK ==
  /\ \A c \in Callers : call[c] = Idle \/ call[c].request \in Requests
  /\ DOMAIN calculations \subseteq References \X Tokens
  /\ \A i \in DOMAIN intents : intents[i].request \in Requests /\ intents[i].status \in Statuses
  /\ refusals \subseteq Requests /\ conflicts \subseteq Requests

Init ==
  /\ call = [c \in Callers |-> Idle] /\ calls = 0
  /\ calculations = [k \in {} |-> 0] /\ intents = <<>> /\ answers = {}
  /\ refusals = {} /\ conflicts = {} /\ told = {}

At(c, step) == call[c].step = step
Goes(c, to) == call' = [call EXCEPT ![c] = to]

Total(price, tax) == IF price.behavior = "inclusive" THEN price.amount ELSE price.amount + tax

----------------------------------------------------------------------------
(* pay() *)

\* The token, as the page's form left it: without a country nothing is asked.
Pay(c, q) ==
  /\ call[c] = Idle /\ calls < MaxCalls
  /\ calls' = calls + 1
  /\ IF q.token \in NoCountry THEN refusals' = refusals \union {q} /\ UNCHANGED call
     ELSE Goes(c, [step |-> "tax", request |-> q]) /\ UNCHANGED refusals
  /\ UNCHANGED <<calculations, intents, answers, conflicts, told>>

CalculationKey(q) == <<q.reference, q.token>>

Asked(q) == calculations @@ (CalculationKey(q) :> q)

\* The tax, under a key of the reference and the token: of what was asked first.
Calculate(c) ==
  /\ At(c, "tax")
  /\ LET q == call[c].request
         same == CalculationKey(q) \notin DOMAIN calculations \/ calculations[CalculationKey(q)] = q
         placed == q.token \notin Unplaceable
     IN  /\ calculations' = Asked(q)
         /\ conflicts' = IF same THEN conflicts ELSE conflicts \union {q}
         /\ refusals' = IF same /\ ~placed THEN refusals \union {q} ELSE refusals
         /\ Goes(c, IF same /\ placed THEN [step |-> "intent", request |-> q] ELSE Idle)
  /\ UNCHANGED <<calls, intents, answers, told>>

\* paymentOf(): the provider's word for where a payment stands, in ours.
StatusOf(status) ==
  CASE status = "requires_payment_method" -> "failed"
    [] status = "canceled" -> "canceled"
    [] OTHER -> status

Made(reference) == {i \in DOMAIN intents : intents[i].request.reference = reference}
TheOne(reference) == CHOOSE i \in Made(reference) : TRUE

Answer(q, i, status) ==
  [request |-> q, payment |-> i, status |-> StatusOf(status), amount |-> intents'[i].amount,
   tax |-> intents'[i].tax]

Intent(q, status) ==
  [request |-> q, amount |-> Total(q.price, TaxOf[q.token]), tax |-> TaxOf[q.token],
   first |-> status, status |-> status]

\* The payment, under the reference: confirmed as it is made, its tax carried
\* on it.  A card refused is an answer; the same request again is answered as
\* it was the first time, and another under its reference is refused.
CreateIntent(c, status) ==
  /\ At(c, "intent")
  /\ LET q == call[c].request
         made == Made(q.reference)
         same == made = {} \/ intents[TheOne(q.reference)].request = q
         at == IF made = {} THEN Len(intents) + 1 ELSE TheOne(q.reference)
     IN  /\ intents' = IF made = {} THEN Append(intents, Intent(q, status)) ELSE intents
         /\ answers' = IF same THEN answers \union {Answer(q, at, intents'[at].first)} ELSE answers
         /\ conflicts' = IF same THEN conflicts ELSE conflicts \union {q}
  /\ Goes(c, Idle)
  /\ UNCHANGED <<calls, calculations, refusals, told>>

\* The process dies, or the answer of a call that was made is lost.
Lose(c) ==
  /\ call[c] # Idle
  /\ Goes(c, Idle)
  /\ LET q == call[c].request IN
     \/ UNCHANGED <<calculations, intents>>
     \/ At(c, "tax") /\ calculations' = Asked(q) /\ UNCHANGED intents
     \/ /\ At(c, "intent") /\ Made(q.reference) = {} /\ UNCHANGED calculations
        /\ \E status \in Statuses \ {"canceled"} : intents' = Append(intents, Intent(q, status))
  /\ UNCHANGED <<calls, answers, refusals, conflicts, told>>

----------------------------------------------------------------------------
(* What becomes of it *)

\* The buyer finishes in the page, the bank clears or refuses, or gives it up.
Proceed(i, to) ==
  /\ i \in DOMAIN intents
  /\ \/ intents[i].status = "requires_action" /\ to \in Statuses \ {"requires_action"}
     \/ /\ intents[i].status = "requires_payment_method" /\ intents[i].first = "requires_action"
        /\ to \in {"requires_action", "succeeded"}
     \/ intents[i].status = "processing" /\ to \in {"succeeded", "requires_payment_method"}
  /\ intents' = [intents EXCEPT ![i].status = to]
  /\ UNCHANGED <<call, calls, calculations, answers, refusals, conflicts, told>>

EventType(status) ==
  CASE status = "succeeded" -> "payment_intent.succeeded"
    [] status = "processing" -> "payment_intent.processing"
    [] status = "requires_payment_method" -> "payment_intent.payment_failed"
    [] status = "canceled" -> "payment_intent.canceled"

\* interpretEvent(), of those a single payment has.
InterpretEvent(type, i) ==
  [kind |-> "payment", payment |-> i, paid |-> type = "payment_intent.succeeded",
   failed |-> type \in {"payment_intent.payment_failed", "payment_intent.canceled"},
   amount |-> intents[i].amount, tax |-> intents[i].tax]

\* verify(): what was signed by the provider is read, what was not is nothing.
Verify(event, signed) == IF signed THEN {event} ELSE {}

Hear(i, signed) ==
  /\ i \in DOMAIN intents /\ intents[i].status # "requires_action"
  /\ told' = told \union Verify(InterpretEvent(EventType(intents[i].status), i), signed)
  /\ UNCHANGED <<call, calls, calculations, intents, answers, refusals, conflicts>>

Next ==
  \/ \E c \in Callers :
       \/ \E q \in Requests : Pay(c, q)
       \/ Calculate(c) \/ Lose(c)
       \/ \E status \in Statuses \ {"canceled"} : CreateIntent(c, status)
  \/ \E i \in DOMAIN intents :
       \/ \E to \in Statuses : Proceed(i, to)
       \/ \E signed \in BOOLEAN : Hear(i, signed)

Spec == Init /\ [][Next]_purchaseVars

----------------------------------------------------------------------------
\* "One reference is one payment", whatever is retried, at once or after an
\* answer was lost: what is answered or told under it is the payment made, at
\* the total and with the tax of the one who was charged.  Nothing is charged of
\* a buyer who could not be placed; "an address corrected keeps it": a request is
\* refused for another's key only where another was charged under the reference,
\* or the same token was given with another price.  And what says that money was
\* taken is right for good, however late it is heard.
ChargedOnce ==
  /\ \A r \in References : Cardinality(Made(r)) <= 1
  /\ \A a \in answers :
       /\ intents[a.payment].request = a.request
       /\ a.tax = TaxOf[a.request.token] /\ a.amount = Total(a.request.price, a.tax)
       /\ a.status = "succeeded" => intents[a.payment].status = "succeeded"
  /\ \A q \in refusals : \A i \in DOMAIN intents : intents[i].request # q
  /\ \A q \in conflicts :
       \/ Made(q.reference) # {} /\ intents[TheOne(q.reference)].request # q
       \/ \E k \in DOMAIN calculations : k = <<q.reference, q.token>> /\ calculations[k].price # q.price
  /\ \A e \in told :
       /\ e.paid => intents[e.payment].status = "succeeded" /\ ~e.failed
       /\ e.amount = Total(intents[e.payment].request.price, e.tax)
       /\ e.tax = TaxOf[intents[e.payment].request.token]
=============================================================================
