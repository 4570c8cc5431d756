------------------------------ MODULE Payments ------------------------------
(***************************************************************************)
(* Card payments of packages/commerce: what its table says of charges,     *)
(* holds and refunds, and what the provider did.  A call reads its row,    *)
(* asks the provider, and writes in a transaction of its own; webhooks     *)
(* come late, again and in any order; a process may die between the steps. *)
(* CardsSpec is the cards kept for one customer, beside them.              *)
(***************************************************************************)
EXTENDS Naturals, Sequences, FiniteSets, FiniteSetsExt

CONSTANTS
  Clerks,          \* calls that may be under way at once
  References,      \* TakePayment.reference, one for each act of charging
  Price,           \* what a charge is for
  MaxCalls,        \* bound on the calls ever begun
  MaxCardCalls,    \* and on those about cards
  NoReference      \* of a payment no provider took

VARIABLES
  payout,          \* the status of the business's payout account, as recorded
  intents,         \* the provider's payment intents, by reference
  payments,        \* mortar_payments, with the sum of the refund rows of each
  clerk,           \* where each call is
  calls,           \* how many were begun
  news,            \* the webhooks so far: any of them may come at any time
  methods,         \* the provider's setup intents, each with the card it keeps
  cards,           \* mortar_saved_cards, in the order they were written
  shelf            \* where each call about a card is

payVars == <<payout, intents, payments, clerk, calls, news>>
cardVars == <<methods, cards, shelf>>

Payouts == {"none", "pending", "restricted", "ready"}
States == {"pending", "authorized", "captured", "failed",
           "refunded", "partially_refunded", "cancelled"}
Payment == [reference: References \union {NoReference}, state: States, amount: 0..Price,
            refunded: 0..Price, returned: Nat, taken: BOOLEAN]
Key == [row: 1..MaxCalls, total: 1..2*Price]
Intent == [state: {"none", "declined", "pending", "authorized", "captured", "cancelled"},
           hold: BOOLEAN, answer: States, taken: 0..Price, back: 0..Price,
           keys: SUBSET [key: Key, amount: 1..Price]]
Rows == DOMAIN payments
Idle == [step |-> "idle"]

TypeOK ==
  /\ payout \in Payouts
  /\ intents \in [References -> Intent]
  /\ Rows = 1..Len(payments) /\ \A r \in Rows : payments[r] \in Payment
  /\ calls \in 0..MaxCalls
  /\ DOMAIN clerk = Clerks
  /\ \A c \in Clerks : clerk[c].step \notin {"idle", "booking"} => clerk[c].row \in Rows
  /\ \A r \in References : \A k \in intents[r].keys : k.key.row \in Rows
  /\ news \subseteq [reference: References, state: {"authorized", "captured", "failed", "refunded"}]

Init ==
  /\ payout = "none"
  /\ intents = [r \in References |->
        [state |-> "none", hold |-> FALSE, answer |-> "pending", taken |-> 0, back |-> 0, keys |-> {}]]
  /\ payments = <<>>
  /\ clerk = [c \in Clerks |-> Idle]
  /\ calls = 0
  /\ news = {}

----------------------------------------------------------------------------
(* The business and the provider *)

\* What startOnboarding(), refreshPayoutAccount() and account webhooks are told
\* at some time: "pending" stops charges as "restricted" does.
Reported == {"restricted", "ready"}

SaveAccount(status) ==
  /\ payout' = status
  /\ UNCHANGED <<intents, payments, clerk, calls, news>>

Tells(ref, state) == news' = news \union {[reference |-> ref, state |-> state]}

\* The customer's bank accepts a charge that waited for a card, or one made
\* with a stored card (external).
Accept(ref) ==
  /\ intents[ref].state = "pending"
  /\ IF intents[ref].hold
     THEN /\ intents' = [intents EXCEPT ![ref].state = "authorized"]
          /\ Tells(ref, "authorized")
     ELSE /\ intents' = [intents EXCEPT ![ref].state = "captured", ![ref].taken = Price]
          /\ Tells(ref, "captured")
  /\ UNCHANGED <<payout, payments, clerk, calls>>

\* The bank refuses, and the customer may try again (external).
Refuse(ref) ==
  /\ intents[ref].state = "pending"
  /\ Tells(ref, "failed")
  /\ UNCHANGED <<payout, intents, payments, clerk, calls>>

\* The provider lets a hold go after some days, or the business gives money
\* back on the provider's own screen (external).
Lapse(ref) ==
  /\ intents[ref].state = "authorized"
  /\ intents' = [intents EXCEPT ![ref].state = "cancelled"]
  /\ UNCHANGED <<payout, payments, clerk, calls, news>>

GiveBackThere(ref, amount) ==
  /\ intents[ref].back + amount <= intents[ref].taken
  /\ intents' = [intents EXCEPT ![ref].back = @ + amount]
  /\ Tells(ref, "refunded")
  /\ UNCHANGED <<payout, payments, clerk, calls>>

----------------------------------------------------------------------------
(* Calls *)

At(c, step) == clerk[c].step = step
Goes(c, to) == clerk' = [clerk EXCEPT ![c] = to] /\ UNCHANGED calls

Begun == calls < MaxCalls /\ calls' = calls + 1
Begins(c, to) == At(c, "idle") /\ Begun /\ clerk' = [clerk EXCEPT ![c] = to]

\* The intent the provider makes of a charge.
Charged(intent, hold, state, answer) ==
  [intent EXCEPT !.state = state, !.hold = hold, !.answer = answer,
                 !.taken = IF state = "captured" THEN Price ELSE 0]

\* take(): charge() has the reference for its idempotency key, and what was
\* answered the first time is answered again. A stored card is charged there
\* and then.
Charge(c, ref, hold, stored) ==
  /\ payout = "ready"
  /\ \/ /\ intents[ref].state = "none"
        /\ \E state \in IF stored THEN {"declined", IF hold THEN "authorized" ELSE "captured"}
                        ELSE {"pending"} :
              LET answer == IF state = "declined" THEN "failed" ELSE state
              IN  /\ intents' = [intents EXCEPT ![ref] = Charged(@, hold, state, answer)]
                  /\ Begins(c, [step |-> "booking", reference |-> ref, answer |-> answer])
     \/ /\ intents[ref].state # "none" /\ hold = intents[ref].hold
        /\ Begins(c, [step |-> "booking", reference |-> ref, answer |-> intents[ref].answer])
        /\ UNCHANGED intents
  /\ UNCHANGED <<payout, payments, news>>

NewPayment(ref, state) ==
  [reference |-> ref, state |-> state, amount |-> Price, refunded |-> 0, returned |-> 0,
   taken |-> state = "captured"]

\* take() writes its row. One the provider refused has no external id.
Book(c) ==
  /\ At(c, "booking")
  /\ LET answer == clerk[c].answer IN
     payments' = Append(payments,
       NewPayment(IF answer = "failed" THEN NoReference ELSE clerk[c].reference, answer))
  /\ Goes(c, Idle)
  /\ UNCHANGED <<payout, intents, news>>

\* record(): cash, a terminal, a transfer.
Record ==
  /\ Begun
  /\ payments' = Append(payments, NewPayment(NoReference, "captured"))
  /\ UNCHANGED <<payout, intents, clerk, news>>

Held(row) == payments[row].state = "authorized" /\ payments[row].reference # NoReference

\* capture() and release() find the payment held.
FindHeld(c, row, step, amount) ==
  /\ Held(row)
  /\ Begins(c, [step |-> step, row |-> row, amount |-> amount])
  /\ UNCHANGED <<payout, intents, payments, news>>

\* The provider takes what it holds; any other capture is a failure, answered
\* as a result and not thrown.
Capture(c) ==
  /\ At(c, "capturing")
  /\ LET ref == payments[clerk[c].row].reference IN
     IF intents[ref].state = "authorized"
     THEN /\ intents' = [intents EXCEPT ![ref].state = "captured", ![ref].taken = clerk[c].amount]
          /\ Tells(ref, "captured")
          /\ Goes(c, [clerk[c] EXCEPT !.step = "captured"])
     ELSE Goes(c, [clerk[c] EXCEPT !.step = "not_captured"]) /\ UNCHANGED <<intents, news>>
  /\ UNCHANGED <<payout, payments>>

\* ck_payments_refunded.
Allowed(patched) == patched.refunded <= patched.amount

\* An UPDATE that is refused leaves the row, and throws.
Update(row, patched) ==
  payments' = IF Allowed(patched)
              THEN [payments EXCEPT ![row] = patched] ELSE payments

WriteCapture(c) ==
  /\ \E result \in {"captured", "not_captured"} :
        /\ At(c, result)
        /\ LET row == clerk[c].row IN
           Update(row, [payments[row] EXCEPT !.state = IF result = "captured" THEN "captured" ELSE "failed",
                                             !.taken = result = "captured",
                                             !.amount = clerk[c].amount])
  /\ Goes(c, Idle)
  /\ UNCHANGED <<payout, intents, news>>

\* The provider cancels what it holds, and throws if it does not.
Release(c) ==
  /\ At(c, "releasing")
  /\ LET ref == payments[clerk[c].row].reference IN
     IF intents[ref].state = "authorized"
     THEN /\ intents' = [intents EXCEPT ![ref].state = "cancelled"]
          /\ Goes(c, [clerk[c] EXCEPT !.step = "released"])
     ELSE Goes(c, Idle) /\ UNCHANGED intents
  /\ UNCHANGED <<payout, payments, news>>

WriteRelease(c) ==
  /\ At(c, "released")
  /\ payments' = [payments EXCEPT ![clerk[c].row].state = "cancelled"]
  /\ Goes(c, Idle)
  /\ UNCHANGED <<payout, intents, news>>

IsRefundable(state) == state \in {"captured", "partially_refunded"}

\* refund() reads what is left.
FindRefundable(c, row, amount) ==
  /\ IsRefundable(payments[row].state)
  /\ amount + payments[row].refunded <= payments[row].amount
  /\ Begins(c, [step |-> "refunding", row |-> row, amount |-> amount,
                already |-> payments[row].refunded, of |-> payments[row].amount])
  /\ UNCHANGED <<payout, intents, payments, news>>

\* Mutant of RefundKey: the payment alone.
RefundKeyOfPayment(row, total) == [row |-> row, total |-> 1]

\* `paymentId-total`
RefundKey(row, total) == [row |-> row, total |-> total]

\* The provider gives back what it took, once for a key; another amount under
\* the same key is an error. Cash has no provider to ask.
Refund(c) ==
  /\ At(c, "refunding")
  /\ LET row == clerk[c].row
         ref == payments[row].reference
         key == RefundKey(row, clerk[c].already + clerk[c].amount)
         asked == [key |-> key, amount |-> clerk[c].amount]
         done == [clerk[c] EXCEPT !.step = "refunded"]
     IN  IF ref = NoReference
         THEN Goes(c, done) /\ UNCHANGED <<intents, news>>
         ELSE \/ asked \in intents[ref].keys /\ Goes(c, done) /\ UNCHANGED <<intents, news>>
              \/ /\ \A k \in intents[ref].keys : k.key # key
                 /\ intents[ref].back + clerk[c].amount <= intents[ref].taken
                 /\ intents' = [intents EXCEPT ![ref].back = @ + clerk[c].amount,
                                               ![ref].keys = @ \union {asked}]
                 /\ Tells(ref, "refunded")
                 /\ Goes(c, done)
  /\ UNCHANGED <<payout, payments>>

\* The refund's row and the payment's running total, in one transaction.
WriteRefund(c) ==
  /\ At(c, "refunded")
  /\ LET row == clerk[c].row
         total == clerk[c].already + clerk[c].amount
     IN  Update(row, [payments[row] EXCEPT
            !.returned = @ + clerk[c].amount, !.refunded = total,
            !.state = IF total >= clerk[c].of THEN "refunded" ELSE "partially_refunded"])
  /\ Goes(c, Idle)
  /\ UNCHANGED <<payout, intents, news>>

\* settle(): the state of some row of that charge becomes what the event says.
Settle(e, row) ==
  /\ payments[row].reference = e.reference
  /\ payments' = [payments EXCEPT ![row].state = e.state,
                                  ![row].taken = @ \/ e.state = "captured"]
  /\ UNCHANGED <<payout, intents, clerk, calls, news>>

\* A call fails or its process dies, its answer lost.
Stop(c) ==
  /\ ~At(c, "idle")
  /\ Goes(c, Idle)
  /\ UNCHANGED <<payout, intents, payments, news>>

Call(c) ==
  \/ \E ref \in References, hold, stored \in BOOLEAN : Charge(c, ref, hold, stored)
  \/ Book(c)
  \/ \E row \in Rows, amount \in 1..Price :
        FindHeld(c, row, "capturing", amount) \/ FindRefundable(c, row, amount)
  \/ \E row \in Rows : FindHeld(c, row, "releasing", 0)
  \/ Capture(c) \/ WriteCapture(c) \/ Release(c) \/ WriteRelease(c)
  \/ Refund(c) \/ WriteRefund(c) \/ Stop(c)

Next ==
  \/ \E status \in Reported : SaveAccount(status)
  \/ \E ref \in References : \/ Accept(ref) \/ Refuse(ref) \/ Lapse(ref)
                             \/ \E amount \in 1..Price : GiveBackThere(ref, amount)
  \/ Record
  \/ \E c \in Clerks : Call(c)
  \/ \E e \in news, row \in Rows : Settle(e, row)

Spec == Init /\ [][Next]_payVars

----------------------------------------------------------------------------
(* Cards kept.  A page stands between the two calls that keep one; the        *)
(* database has one row for a card of a tenant.                               *)

CardsTyped ==
  /\ \A m \in DOMAIN methods : methods[m] \in [state: {"open", "kept", "gone"}, customer: 1..Len(methods), written: BOOLEAN]
  /\ \A i \in DOMAIN cards : cards[i] \in [id: 1..MaxCardCalls, method: DOMAIN methods, customer: 1..Len(methods)]
  /\ DOMAIN shelf = Clerks

CardsInit == methods = <<>> /\ cards = <<>> /\ shelf = [c \in Clerks |-> Idle]

Stands(c, step) == shelf[c].step = step
Moves(c, to) == shelf' = [shelf EXCEPT ![c] = to]
Calls(c, to) ==
  Stands(c, "idle") /\ calls < MaxCardCalls /\ calls' = calls + 1 /\ Moves(c, to)

\* saveCard() joins the customer of the newest card, or makes one of its own.
SaveCard(c) ==
  /\ Calls(c, [step |-> "setting", customer |-> IF cards = <<>> THEN 0 ELSE cards[Len(cards)].customer])
  /\ UNCHANGED <<methods, cards>>

SetUp(c) ==
  /\ Stands(c, "setting")
  /\ LET customer == IF shelf[c].customer = 0 THEN Len(methods) + 1 ELSE shelf[c].customer
     IN  methods' = Append(methods, [state |-> "open", customer |-> customer, written |-> FALSE])
  /\ Moves(c, Idle)
  /\ UNCHANGED <<cards, calls>>

\* The customer types the card into the provider's form (external).
Stores(m) ==
  /\ methods[m].state = "open"
  /\ methods' = [methods EXCEPT ![m].state = "kept"]
  /\ UNCHANGED <<cards, shelf, calls>>

\* storedCard() answers with a card that was since let go, too.
StoredCard(m) == methods[m].state # "open"

ConfirmCard(c, m) ==
  /\ StoredCard(m)
  /\ Calls(c, [step |-> "looking", method |-> m, customer |-> methods[m].customer, id |-> calls + 1])
  /\ UNCHANGED <<methods, cards>>

RowsOf(m) == {i \in DOMAIN cards : cards[i].method = m}

FindCard(c) ==
  /\ Stands(c, "looking")
  /\ Moves(c, IF RowsOf(shelf[c].method) # {} THEN Idle ELSE [shelf[c] EXCEPT !.step = "writing"])
  /\ UNCHANGED <<methods, cards, calls>>

\* uq_saved_cards_method throws on the second of two that found none.
WriteCard(c) ==
  /\ Stands(c, "writing")
  /\ LET m == shelf[c].method
     IN  IF RowsOf(m) # {} THEN UNCHANGED <<cards, methods>>
         ELSE /\ cards' = Append(cards, [id |-> shelf[c].id, method |-> m, customer |-> shelf[c].customer])
              /\ methods' = [methods EXCEPT ![m].written = TRUE]
  /\ Moves(c, Idle)
  /\ UNCHANGED calls

ForgetCard(c, i) ==
  /\ Calls(c, [step |-> "detaching", card |-> cards[i]])
  /\ UNCHANGED <<methods, cards>>

\* The provider throws on a card it has let go already.
Detach(c) ==
  /\ Stands(c, "detaching")
  /\ LET m == shelf[c].card.method IN
     IF methods[m].state = "kept"
     THEN methods' = [methods EXCEPT ![m].state = "gone"] /\ Moves(c, [shelf[c] EXCEPT !.step = "deleting"])
     ELSE UNCHANGED methods /\ Moves(c, Idle)
  /\ UNCHANGED <<cards, calls>>

DeleteCard(c) ==
  /\ Stands(c, "deleting")
  /\ cards' = SelectSeq(cards, LAMBDA card : card.id # shelf[c].card.id)
  /\ Moves(c, Idle)
  /\ UNCHANGED <<methods, calls>>

\* The process dies, or the provider does not answer.
Abandon(c) == ~Stands(c, "idle") /\ Moves(c, Idle) /\ UNCHANGED <<methods, cards, calls>>

CardsNext ==
  \/ \E m \in DOMAIN methods : Stores(m)
  \/ \E c \in Clerks :
       \/ SaveCard(c) \/ SetUp(c) \/ FindCard(c) \/ WriteCard(c) \/ Detach(c) \/ DeleteCard(c) \/ Abandon(c)
       \/ \E m \in DOMAIN methods : ConfirmCard(c, m)
       \/ \E i \in DOMAIN cards : ForgetCard(c, i)

CardsSpec == CardsInit /\ calls = 0 /\ [][CardsNext]_<<cardVars, calls>>

----------------------------------------------------------------------------
(* What is expected of it *)

Under(ref) == {row \in Rows : payments[row].reference = ref}

\* A row says that money came or went back only where it did, whatever was
\* retried, lost or told late: "A row saying money was returned when it was not
\* is worse than no row".
BooksAreReal ==
  /\ \A row \in Rows : payments[row].refunded <= payments[row].returned
  /\ \A ref \in References :
        /\ MapThenSumSet(LAMBDA row : payments[row].refunded, Under(ref)) <= intents[ref].back
        /\ \A row \in Under(ref) :
              payments[row].taken \/ IsRefundable(payments[row].state) => intents[ref].taken > 0

\* "A row deleted while the provider still holds the card is a card nobody can
\* see and anybody with the reference can charge": one that was written down
\* and is still held has its one row, of the customer the provider keeps it for.
CardsAreSeen ==
  /\ \A m \in DOMAIN methods :
       /\ methods[m].written /\ methods[m].state = "kept" => RowsOf(m) # {}
       /\ Cardinality(RowsOf(m)) <= 1
  /\ \A i \in DOMAIN cards :
       LET m == cards[i].method IN methods[m].state # "open" /\ methods[m].customer = cards[i].customer
=============================================================================
