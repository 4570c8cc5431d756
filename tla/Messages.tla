------------------------------ MODULE Messages ------------------------------
(***************************************************************************)
(* packages/messaging: whose words a message says and what is put in them  *)
(* (templates.service.ts, template.ts), the alphabet it is sent in         *)
(* (gsm.ts), what it costs of a tenant's credit (credits.service.ts), and  *)
(* whom no message is sent to (pumping.ts).                                *)
(*                                                                         *)
(* One tenant, one event and one channel: the language asked for and the   *)
(* one fallen back to are its keys.  Statements run READ COMMITTED, and a  *)
(* caller may give a transaction of its own.  Asking whether a message can *)
(* be afforded before it is debited is what the package offers its         *)
(* products: they are external.                                            *)
(***************************************************************************)
EXTENDS Integers, Sequences, FiniteSets, SequencesExt, FiniteSetsExt

CONSTANTS Callers,       \* calls of the services that meet
          Locale,        \* the language asked for
          Fallback,      \* and the product's own, the same one or another
          Supplied,      \* the ones of these that the product has words in
          MaxEdits, MaxEntries   \* bounds: the tenant's edits; the ledger's entries

VARIABLES
  own,      \* the tenant's versions: of a language, whether it is enabled
  reads,    \* resolve() of every caller
  edits,    \* how many edits there were
  ledger,   \* the entries of the tenant's credit that are committed
  spends,   \* what every caller is at with a message to pay for
  bought, paid,   \* segments: credited and corrected; of messages that went
  trusted   \* every debit followed a yes that nothing came after

templateVars == <<own, reads, edits>>
creditVars == <<ledger, spends, bought, paid, trusted>>
messageVars == <<own, reads, edits, ledger, spends, bought, paid, trusted>>

Sum == INSTANCE Sums

Quiet == [step |-> "idle"]
Idle == [step |-> "idle"]
Nobody == [custom |-> FALSE, locale |-> "none", enabled |-> FALSE]

TypeOK ==
  /\ DOMAIN own \subseteq {Locale, Fallback} /\ \A l \in DOMAIN own : own[l] \in BOOLEAN
  /\ DOMAIN reads = Callers /\ DOMAIN spends = Callers
  /\ edits \in 0..MaxEdits /\ Len(ledger) <= MaxEntries
  /\ bought \in Int /\ paid \in Nat /\ trusted \in BOOLEAN

Init ==
  /\ own = [l \in {} |-> TRUE] /\ edits = 0
  /\ reads = [c \in Callers |-> Quiet]
  /\ ledger = <<>> /\ bought = 0 /\ paid = 0 /\ trusted = TRUE
  /\ spends = [c \in Callers |-> Idle]

----------------------------------------------------------------------------
(* Words *)

\* save(): the row is there or it is made, and is what was saved.
Save(l, enabled) ==
  /\ edits < MaxEdits
  /\ own' = [k \in DOMAIN own \union {l} |-> IF k = l THEN enabled ELSE own[k]]
  /\ edits' = edits + 1
  /\ UNCHANGED <<reads, creditVars>>

\* reset(): the row goes. A call under way no longer has it from end to end.
Reset(l) ==
  /\ edits < MaxEdits
  /\ own' = [k \in DOMAIN own \ {l} |-> own[k]]
  /\ edits' = edits + 1
  /\ reads' = [c \in Callers |-> IF reads[c].step = "second"
                                 THEN [reads[c] EXCEPT !.lasting = @ \ {l}] ELSE reads[c]]
  /\ UNCHANGED creditVars

\* view(): the row as it is.
View(l) == [custom |-> TRUE, locale |-> l, enabled |-> own[l]]

\* The product's words, in the language asked for or in its own; or none.
Default ==
  IF Locale \in Supplied THEN [custom |-> FALSE, locale |-> Locale, enabled |-> TRUE]
  ELSE IF Fallback \in Supplied THEN [custom |-> FALSE, locale |-> Fallback, enabled |-> TRUE] ELSE Nobody

Answers(c, answer, lasting) ==
  reads' = [reads EXCEPT ![c] = [step |-> "answered", answer |-> answer, lasting |-> lasting]]

\* resolve(): the first row it reads, and another statement for the second.
ResolveOwn(c) ==
  /\ reads[c].step = "idle"
  /\ IF Locale \in DOMAIN own THEN Answers(c, View(Locale), DOMAIN own)
     ELSE IF Fallback = Locale THEN Answers(c, Default, DOMAIN own)
     ELSE reads' = [reads EXCEPT ![c] = [step |-> "second", lasting |-> DOMAIN own]]
  /\ UNCHANGED <<own, edits, creditVars>>

ResolveFallback(c) ==
  /\ reads[c].step = "second"
  /\ Answers(c, IF Fallback \in DOMAIN own THEN View(Fallback) ELSE Default, reads[c].lasting)
  /\ UNCHANGED <<own, edits, creditVars>>

\* render(): of a template turned off, or of none, nothing is sent.
Renders(answer) == answer.locale # "none" /\ answer.enabled

\* What was asked for is sent, or not, and that was that.
Rendered(c) ==
  /\ reads[c].step = "answered"
  /\ reads' = [reads EXCEPT ![c] = Quiet]
  /\ UNCHANGED <<own, edits, creditVars>>

TemplatesNext ==
  \/ \E l \in {Locale, Fallback} : Reset(l) \/ \E enabled \in BOOLEAN : Save(l, enabled)
  \/ \E c \in Callers : ResolveOwn(c) \/ ResolveFallback(c) \/ Rendered(c)

----------------------------------------------------------------------------
(* Credit *)

SumOf(entries) == FoldLeft(LAMBDA a, b : a + b, 0, entries)

\* sum() in a transaction: what is committed, and its own.
Balance(c) == SumOf(ledger) + SumOf(IF spends[c].step = "written" THEN <<spends[c].entry>> ELSE <<>>)

\* What comes after a yes makes it old news, unless it adds to the balance.
AgedBy(segments, but) ==
  [c \in Callers |-> IF c # but /\ spends[c].step \in {"may", "written"} /\ segments < 0
                     THEN [spends[c] EXCEPT !.old = TRUE] ELSE spends[c]]

\* add(): bought, given back, or corrected by hand, either way.
Add(segments) ==
  /\ Len(ledger) < MaxEntries
  /\ ledger' = Append(ledger, segments)
  /\ bought' = bought + segments
  /\ spends' = AgedBy(segments, "nobody")
  /\ trusted' = (trusted /\ bought' >= paid)
  /\ UNCHANGED <<paid, templateVars>>

\* canAfford(): in a transaction of its own.
CanAfford(c, segments) ==
  /\ spends[c].step = "idle"
  /\ spends' = [spends EXCEPT ![c] =
       IF SumOf(ledger) >= segments THEN [step |-> "may", segments |-> segments, old |-> FALSE] ELSE Idle]
  /\ UNCHANGED <<ledger, bought, paid, trusted, templateVars>>

\* write() of debit(): "negative here rather than trusting the caller's sign".
Entry(segments) == -Sum!Size(segments)

\* debit(): of a message that may be sent, or that was sent unasked; the caller
\* passes either sign.
Debit(c, segments) ==
  /\ spends[c].step = "may" => Sum!Size(segments) = spends[c].segments
  /\ spends[c].step \in {"idle", "may"}
  /\ spends' = [spends EXCEPT ![c] =
       [step |-> "written", entry |-> Entry(segments), size |-> Sum!Size(segments),
        old |-> IF spends[c].step = "may" THEN spends[c].old ELSE TRUE]]
  /\ UNCHANGED <<ledger, bought, paid, trusted, templateVars>>

\* "Commits or rolls back with whatever it is paying for".
Commit(c) ==
  /\ spends[c].step = "written" /\ Len(ledger) < MaxEntries
  /\ ledger' = Append(ledger, spends[c].entry)
  /\ paid' = paid + spends[c].size
  /\ trusted' = (trusted /\ ~spends[c].old)
  /\ spends' = [AgedBy(-1, c) EXCEPT ![c] = Idle]
  /\ UNCHANGED <<bought, templateVars>>

RollBack(c) ==
  /\ spends[c].step = "written"
  /\ spends' = [spends EXCEPT ![c] = Idle]
  /\ UNCHANGED <<ledger, bought, paid, trusted, templateVars>>

CreditsNext ==
  \/ \E segments \in {-1, 2} : Add(segments)
  \/ \E c \in Callers :
       \/ \E segments \in 1..2 : CanAfford(c, segments)
       \/ \E segments \in {-2, -1, 1, 2} : Debit(c, segments)
       \/ Commit(c) \/ RollBack(c)

Next == TemplatesNext \/ CreditsNext

Spec == Init /\ [][Next]_messageVars

----------------------------------------------------------------------------
(* What is put in: a template is its pieces, each a piece of text or the   *)
(* name of a placeholder                                                   *)

\* A value nobody supplied, or that is empty.
Hole(variables, name) == name \notin DOMAIN variables \/ variables[name] = <<>>

\* placeholdersIn() and unknownPlaceholders().
PlaceholdersIn(template) == {template[i].name : i \in {i \in DOMAIN template : template[i].kind = "placeholder"}}
UnknownPlaceholders(template, offered) == PlaceholdersIn(template) \ offered

Filled(piece, variables) ==
  IF piece.kind # "placeholder" THEN <<piece>>
  ELSE IF Hole(variables, piece.name) THEN <<>> ELSE variables[piece.name]

\* renderTemplate(): every placeholder once, and what is put in is not read again.
RenderTemplate(template, variables) ==
  [text |-> FlattenSeq([i \in DOMAIN template |-> Filled(template[i], variables)]),
   missing |-> {name \in PlaceholdersIn(template) : Hole(variables, name)}]

----------------------------------------------------------------------------
(* The alphabet: a text is how many it has of each kind of character: in    *)
(* the alphabet, in its extension, with a mark, a ligature, an ellipsis,    *)
(* and of another script                                                    *)

CountOf(text) ==
  Sum!CountSegments(text.plain, text.extended, text.marked + text.ligature + text.ellipsis + text.foreign)

\* transliterateToGsm(): a mark is dropped, a ligature is two letters and an
\* ellipsis three; what has no equivalent stays, and is named.
TransliterateToGsm(text) ==
  [text EXCEPT !.plain = @ + text.marked + 2 * text.ligature + 3 * text.ellipsis,
               !.marked = 0, !.ligature = 0, !.ellipsis = 0]

----------------------------------------------------------------------------
(* Whom: a telephone number is whether it has its plus, and its digits *)

\* countryCodeOf(): the codes of one digit, those of two, and the rest as three.
CountryCodeOf(phone) ==
  LET two == [first \in {2, 3, 4, 5, 6, 8, 9} |->
               CASE first = 2 -> {0, 7} [] first = 3 -> (0..4) \union {6, 9}
                 [] first = 4 -> {0, 1} \union (3..9) [] first = 5 -> 1..8 [] first = 6 -> 0..6
                 [] first = 8 -> {1, 2, 4, 6} [] first = 9 -> (0..5) \union {8}]
      digits == phone.digits
  IN  IF ~phone.plus THEN <<>>
      ELSE IF digits[1] \in {1, 7} THEN SubSeq(digits, 1, 1)
      ELSE IF digits[1] \in DOMAIN two /\ digits[2] \in two[digits[1]] THEN SubSeq(digits, 1, 2)
      ELSE SubSeq(digits, 1, 3)

\* NEVER_A_CLIENT: satellites and premium ranges.
NeverAClient == {<<8, 7, n>> : n \in 0..9} \union {<<8, 8, n>> : n \in 1..3}

\* assessSmsRisk(): whether it is sent at all.
AssessSmsRisk(phone, segments, sent, countries, hourlyCap, countryCap) ==
  /\ phone.plus /\ Len(phone.digits) >= 7
  /\ SubSeq(phone.digits, 1, 3) \notin NeverAClient
  /\ sent + segments <= hourlyCap
  /\ CountryCodeOf(phone) \in countries \/ Cardinality(countries) < countryCap

\* What a tenant sends in an hour, one message after the other.
Hour(messages, hourlyCap, countryCap) ==
  LET One(so, message) ==
        IF AssessSmsRisk(message.phone, message.segments, so.sent, so.countries, hourlyCap, countryCap)
        THEN [sent |-> so.sent + message.segments, phones |-> so.phones \union {message.phone},
              countries |-> so.countries \union {CountryCodeOf(message.phone)}]
        ELSE so
  IN  FoldLeft(One, [sent |-> 0, phones |-> {}, countries |-> {}], messages)

----------------------------------------------------------------------------
\* "The tenant's version in this language, then in the fallback language, then
\* the product's default": a call answers with words the tenant had from its
\* first statement to its last, in that order, and with the product's only where
\* it had none so long; and what it turned off is turned off for good reason.
WordsAreTheirs ==
  \A c \in Callers : reads[c].step = "answered" =>
    LET answer == reads[c].answer
        lasting == reads[c].lasting
    IN  /\ Locale \in lasting => answer.custom /\ answer.locale = Locale
        /\ lasting # {} => answer.custom
        /\ ~Renders(answer) => answer.custom \/ Supplied = {}
        /\ ~answer.custom /\ Supplied # {} =>
             answer.locale = IF Locale \in Supplied THEN Locale ELSE Fallback

\* The balance is what was credited less what the messages that went were worth,
\* whatever rolled back and whichever sign was passed; and it is below nothing
\* only where a debit was not asked for first, or its yes was given before
\* somebody else's debit, or it was written off by hand.
CreditIsCounted ==
  /\ SumOf(ledger) = bought - paid
  /\ SumOf(ledger) < 0 => ~trusted

\* A placeholder that is known and supplied is filled, what is put in is sent
\* word for word, even where it looks like a placeholder, and an editor who is
\* told of none unknown has a message with a hole only where the caller left one.
FilledOnce(template, variables, offered) ==
  LET rendered == RenderTemplate(template, variables)
      Literal == {i \in DOMAIN template : template[i].kind # "placeholder"}
      worth == [i \in DOMAIN template |->
                  IF i \in Literal THEN 1
                  ELSE IF Hole(variables, template[i].name) THEN 0 ELSE Len(variables[template[i].name])]
  IN  /\ Len(rendered.text) = SumOf(worth)
      /\ \A i \in DOMAIN rendered.text : rendered.text[i].kind = "placeholder" =>
           \E name \in DOMAIN variables : rendered.text[i] \in ToSet(variables[name])
      /\ UnknownPlaceholders(template, offered) = {} =>
           rendered.missing \subseteq {name \in offered : Hole(variables, name)}

\* What is offered instead is in the alphabet unless it names what is not, is
\* offered once, and costs no more than it did, but where a character grew.
OfferedIsCheaper(text) ==
  LET offered == TransliterateToGsm(text) IN
  /\ TransliterateToGsm(offered) = offered
  /\ text.foreign = 0 => CountOf(offered).segments = Sum!CountSegments(offered.plain, offered.extended, 0).segments
  /\ text.ligature + text.ellipsis = 0 => CountOf(offered).segments <= CountOf(text).segments

\* "Three limits that a real firm never approaches and an attacker cannot
\* avoid": however many messages are asked for, and in whatever order, the
\* segments and the countries are within them; a country has one code.
PumpingIsBounded(messages, hourlyCap, countryCap) ==
  LET hour == Hour(messages, hourlyCap, countryCap) IN
  /\ hour.sent <= hourlyCap
  /\ Cardinality(hour.countries) <= countryCap
  /\ \A phone \in hour.phones : phone.plus /\ SubSeq(phone.digits, 1, 3) \notin NeverAClient
  /\ \A i, j \in DOMAIN messages :
       IsPrefix(CountryCodeOf(messages[i].phone), CountryCodeOf(messages[j].phone))
         => CountryCodeOf(messages[i].phone) = CountryCodeOf(messages[j].phone)
            \/ ~messages[i].phone.plus
=============================================================================
