------------------------------ MODULE MCSales ------------------------------
(***************************************************************************)
(* What is sold and what is owed for it, side by side as in MCServices:    *)
(* one voucher, the payments and kept cards of one tenant, its             *)
(* subscription, what it buys in a page and what it used, the words and    *)
(* credits of its messages; and what is reckoned of it, one `question` of  *)
(* the arithmetic, the calendar, a table or a text to a behaviour, which   *)
(* says all it has to in its first state.                                  *)
(***************************************************************************)
EXTENDS Vouchers, FiniteSetsExt, TLC

CONSTANTS NoReference, NoPlan, NoUsage

VARIABLES
  part,
  call, buys, calculations, bought, answers, refusals, conflicts, told,
  payout, intents, payments, clerk, calls, payNews, methods, cards, shelf,
  row, customers, sessions, subs, news, desk, requests, given,
  own, reads, edits, credits, spends, credited, paid, trusted,
  suppressed, rows, log, taken, received, attached, commsClerk, commsCalls, asked,
  today, customer, usage, meterSweep, known, billed, recounted, forgotten,
  question

payVars == <<payout, intents, payments, clerk, calls, payNews, methods, cards, shelf>>
buyVars == <<call, buys, calculations, bought, answers, refusals, conflicts, told>>
subVars == <<row, customers, sessions, subs, news, desk, requests, given>>
wordVars == <<own, reads, edits, credits, spends, credited, paid, trusted>>
commsVars == <<suppressed, rows, log, taken, received, attached, commsClerk, commsCalls, asked>>
meterVars == <<today, customer, usage, meterSweep, known, billed, recounted, forgotten>>
partsVars == <<part, vars, payVars, subVars, buyVars, wordVars, commsVars, meterVars, question>>

\* The tills are whoever calls, of every part; they and what they pay for are
\* in no order.
Symmetry == Permutations(Tills) \union Permutations(Subjects)

Pay == INSTANCE Payments WITH
  Clerks <- Tills, References <- {"r1"}, Price <- 2, MaxCalls <- 4, MaxCardCalls <- 6, news <- payNews

Sub == INSTANCE Subscriptions WITH
  Desks <- Tills, Plans <- {"basic", "pro"}, TrialPlans <- {"pro"},
  MaxQuantity <- 2, MaxRequests <- 2

\* Buyers who are placed, in two ways, who are not, and who gave no country.
Taxes == [t \in {"home", "abroad"} |-> IF t = "home" THEN 1 ELSE 2]
Buy == INSTANCE Purchases WITH
  Callers <- Tills, References <- {"r1"}, Tokens <- {"home", "abroad", "none", "lost"},
  Prices <- [amount : {10}, behavior : {"inclusive", "exclusive"}], NoCountry <- {"none"},
  Unplaceable <- {"lost"}, TaxOf <- Taxes, MaxCalls <- 3, calls <- buys, intents <- bought

\* Words in the language asked for, and in the product's own.
Msg == INSTANCE Messages WITH
  Callers <- Tills, Locale <- "hu", Fallback <- "ro", Supplied <- {"hu", "ro"},
  MaxEdits <- 5, MaxEntries <- 5, ledger <- credits, bought <- credited

Com == INSTANCE Comms WITH
  Clerks <- Tills, Channels <- {"whatsapp", "sms"},
  Fallbacks <- [ch \in {"whatsapp"} |-> "sms"], Inbound <- {1}, Refusals <- 2, MaxCalls <- 3,
  NoId <- 0, clerk <- commsClerk, calls <- commsCalls

\* Two sweeps over two days, counted, recounted and told.
Meter == INSTANCE Metering WITH
  Sweeps <- Tills, MaxDay <- 2, MaxQuantity <- 1, LastDay <- 2, DatesAreText <- TRUE,
  NoRow <- NoUsage, sweep <- meterSweep, late <- recounted

ASSUME UsageAssumption == Meter!MeteringAssumption

Sum == INSTANCE Sums
Time == INSTANCE Clock
She == INSTANCE Sheets

\* Bands that end, that do not, with a dearer one between, and none; factors
\* of units that are positive or not, of one another, of nothing, or unknown.
Tier(upTo, price) == [upTo |-> upTo, price |-> price]
TierLists == { <<>>, <<Tier(3, 5), Tier(6, 3)>>, <<Tier(4, 3), Tier(0, 1)>>, <<Tier(0, 3)>>,
               <<Tier(2, 1), Tier(4, 5), Tier(5, 2)>> }
Ratios == {r \in UNION {[1..k -> 0..3] : k \in 1..4} : Sum!Total(r) > 0}
Units == [n : {-1, 1, 2}, of : {"", "itself", Sum!Base, "u1", "u2", "elsewhere"}]

SumQuestions ==
  [kind : {"round"}, n : -25..25, d : 1..8]
  \union [kind : {"tax"}, n : -40..40, rate : {0, 5, 9, 19, 50, 100, 150}]
  \union [kind : {"split"}, n : -12..12, ratios : Ratios]
  \union [kind : {"price"}, tiers : TierLists, included : 0..2, quantity : 0..8]
  \union [kind : {"prorate"}, n : -2..9, used : -1..8, days : 0..7]
  \union [kind : {"deposit"}, n : -1..12, policy : {"none", "full", "fixed", "percentage"},
          value : {-3, 0, 1, 5, 33, 50, 100, 150}]
  \union [kind : {"usage"}, included : 0..4, price : 0..3, used : 0..6]
  \union [kind : {"rateOn"}, days : UNION {[1..k -> 1..4] : k \in 0..4}, on : 1..4]
  \union [kind : {"segments"},
          plain : {0, 1, 66, 67, 68, 69, 70, 71, 133, 134, 135, 151, 152, 153, 154, 158, 159, 160, 161, 305, 306, 307},
          extended : {0, 1, 2, 40, 80, 81}, other : {0, 1, 2, 66, 67}]
  \union [kind : {"units"}, specs : [{"u1", "u2"} -> Units]]

\* Texts of up to three digits and four decimals, shifted by up to three places;
\* documents of up to two days, a quote of which is odd in every way at once or
\* one at a time; and mornings of two banks after what was held before.
Fractions == {<<>>} \union UNION {[1..k -> {0, 5, 9}] : k \in 1..4}
Texts == {t \in [whole : {<<>>, <<0>>, <<4>>, <<1, 2>>, <<0, 7>>, <<5, 0, 0>>}, dot : BOOLEAN, fraction : Fractions] :
            (t.dot \/ t.fraction = <<>>) /\ t.whole \o t.fraction # <<>>}
Figures == {Sum!TextOf(<<4>>, <<9, 7>>), Sum!TextOf(<<1>>, <<2, 6, 0, 0>>), Sum!TextOf(<<0>>, <<>>)}
Quotes == [of : {"EUR", "USD", "AUD", ""}, given : BOOLEAN, text : Figures, point : {".", ",", "both"}, per : {-1, 0, 1, 2}]
Sound == [of |-> "USD", given |-> TRUE, text |-> Sum!TextOf(<<3>>, <<5>>), point |-> ".", per |-> 0]
OnDay(day, quotes) == [asOf |-> day, quotes |-> quotes]
Documents == [origin : {"RON", ""},
              days : {<<>>} \union {<<OnDay(day, <<q>>)>> : day \in 0..1, q \in Quotes}
                     \union {<<OnDay(2, <<Sound>>), OnDay(1, <<q, Sound>>)>> : q \in Quotes}]
Says(bank, days) == [ok |-> TRUE, rates |-> [i \in DOMAIN days |-> [bank |-> bank, asOf |-> days[i][1], rate |-> days[i][2]]]]
Mornings == {<<f, g>> : f \in {[ok |-> FALSE]} \union {Says("BNR", days) : days \in UNION {[1..k -> (1..3) \X {1, 2}] : k \in 0..2}},
                        g \in {[ok |-> FALSE], Says("MNB", <<<<2, 1>>, <<3, 2>>>>)}}
Held == UNION {[{"BNR", "MNB"} \X days -> {1, 2}] : days \in {{}, {1}, {2}}}
Moneys == UNION {[1..k -> [ok : {TRUE}, amount : {-9, -5, 0, 5, 9}, currency : {"EUR", "RON"}]] : k \in 1..3}

RateQuestions ==
  [kind : {"decimal"}, text : Texts, places : 0..3]
  \union [kind : {"convert"}, n : -30..30, rate : {1, 7, 33, 50, 99, 100, 101, 250, 497}, base : {1, 10, 100},
          quote : {1, 10, 100}]
  \union [kind : {"sum"}, moneys : Moneys]
  \union [kind : {"quantity"}, specs : [{"u1", "u2"} -> [n : 1..3, of : {"itself", "u1", "u2"}]],
          from : {Sum!Base, "u1", "u2", "none"}, to : {Sum!Base, "u1", "u2", "none"}, by : {"u1", "u2"}]
  \union [kind : {"feed"}, bank : {"BNR", "MNB", "ECB"}, document : Documents]
  \union [kind : {"mornings"}, held : Held, feeds : Mornings, on : 1..3]

\* Numbers under every pair of conventions, each read under a few others; dates
\* of every order; columns named alike and not, with rows short and blank.
Conventions == [decimal : {".", ","}, thousands : {".", ",", " ", "'", ""}]
Numbers == [negative : BOOLEAN, int : {<<"0">>, <<"1", "2">>, <<"1", "2", "5">>, <<"1", "0", "0", "2">>,
                                       <<"1", "2", "5", "0", "0", "0", "5">>},
            frac : {<<>>, <<"5">>, <<"0", "5">>, <<"5", "0", "0">>}]
Others == {[decimal |-> ".", thousands |-> ","], [decimal |-> ",", thousands |-> "."],
           [decimal |-> ",", thousands |-> " "], [decimal |-> ".", thousands |-> ""]}
Dates == [numbers : {<<a, b, c>> : a \in {1, 2, 12, 13, 29, 31, 2023, 2024}, b \in {1, 2, 4, 12, 13, 29, 30, 31},
                       c \in {1, 12, 28, 29, 31, 2023, 2024}},
          widths : {<<4, 2, 2>>, <<4, 1, 1>>, <<2, 2, 4>>, <<1, 2, 4>>, <<1, 1, 4>>, <<4, 2, 1>>},
          between : {"-", "", "/", "."}]
Wide(date) == \A i \in 1..3 : /\ date.numbers[i] > 999 <=> date.widths[i] = 4
                              /\ date.numbers[i] > 9 => date.widths[i] > 1
Column(name, written) == [name |-> name, written |-> written]
Columns == {Column("a", "A "), Column("a", "a"), Column("b", "b")}
NonEmpty(S, n) == UNION {[1..k -> S] : k \in 1..n}
Mappings == UNION {[fields -> {Column("a", "a"), Column("b", "B"), Column("c", "c")}] :
                     fields \in SUBSET {"p", "q"}}

SheetQuestions ==
  [kind : {"number"}, number : Numbers, conventions : Conventions, other : Others,
   how : {"before", "behind", "round"}]
  \union [kind : {"date"}, text : {date \in Dates : Wide(date)}]
  \union [kind : {"rows"},
          fields : {{[field |-> "p", required |-> r], [field |-> "q", required |-> s]} : r, s \in BOOLEAN},
          mapping : Mappings, header : NonEmpty(Columns, 2),
          lines : {<<>>} \union NonEmpty({<<"x", "y">>, <<"", "">>, <<"x">>, <<"", "z">>, <<>>}, 2)]
  \union [kind : {"cell"}, cell : [type : {"string", "number", "boolean"}, value : {"0042", "42"}]
                                 \union [type : {"null", "undefined"}, value : {"none"}]]

\* Templates of up to four pieces, and values that look like placeholders; texts
\* about the length of one message and of two; hours of three messages to
\* countries of one, two and three digits and to ranges that are no country.
Named(n) == [kind |-> "placeholder", name |-> n]
Plain(n) == [kind |-> "text", name |-> n]
Values == UNION {[names -> {<<>>, <<Plain("v")>>, <<Plain("v"), Named("name")>>}] :
                   names \in SUBSET {"name", "when"}}
Phone(plus, code, more) == [plus |-> plus, digits |-> code \o [i \in 1..more |-> 5]]
Phones == {Phone(TRUE, code, 5) : code \in {<<1, 2, 3>>, <<4, 0, 7>>, <<4, 2, 0>>, <<8, 7, 0>>, <<8, 8, 0>>,
                                          <<3, 5, 1>>, <<3, 9, 3>>}}
          \union {Phone(TRUE, <<4, 0, 7>>, 3), Phone(FALSE, <<4, 0, 7>>, 5)}

WordQuestions ==
  [kind : {"render"}, template : {<<>>} \union NonEmpty({Named("name"), Named("when"), Named("who"), Plain("t")}, 4),
   variables : Values, offered : {{"name", "when"}, {"name"}}]
  \union [kind : {"alphabet"},
          text : [plain : {0, 1, 60, 66, 67, 68, 69, 70, 134, 152, 153, 160}, extended : {0, 1, 33, 34, 67, 76, 77, 80},
                  marked : {0, 1, 33, 66, 67, 70}, ligature : 0..1, ellipsis : 0..1, foreign : 0..1]]
  \union [kind : {"pump"}, messages : NonEmpty([phone : Phones, segments : {1, 2}], 3), hourlyCap : {2, 3},
          countryCap : 1..2]

\* Zones from twelve hours behind to eleven ahead, whose clocks move by one or
\* two; months of two to four days; weeks of three.
Spans == UNION {[1..k -> [start : 0..3, end : 1..4]] : k \in 0..2}
Zones == {z \in [before : -12..11, after : -12..11] :
            z.before # z.after /\ z.before - z.after \in -2..2}

ClockQuestions ==
  [kind : {"zone"}, zone : Zones, wall : -30..30, prefer : {"earliest", "latest"}]
  \union [kind : {"spans"}, a : Spans, b : Spans]
  \union [kind : {"months"}, month : 0..3, day : 1..4, n : -3..5]
  \union [kind : {"work"}, week : [1..3 -> BOOLEAN], holidays : SUBSET (2..4), day : 1..4, count : -3..3]
  \union [kind : {"quiet"}, from : 0..23, to : 0..23, hour : 0..24]

\* Addresses of two boxes; mails of parts within parts, also where one boundary
\* begins with another, and deeper than is read; bytes escaped and broken; what
\* providers answer and sign; what they answer us; fingerprints under a new key.
Box == [secret : {"k", "l"}, prefix : {<<"a">>, <<"A">>}, domain : {<<"a">>, <<"1">>}]
PartHead(type, boundary, named, isFile) ==
  [kind |-> "head", type |-> type, boundary |-> boundary, named |-> named, attached |-> isFile]
Said(n) == [kind |-> "words", says |-> n]
Leaf(named, isFile, body) == [head |-> PartHead("text", <<>>, named, isFile), body |-> body, kids |-> <<>>]
Holds(boundary, kids) == [head |-> PartHead("multipart", boundary, FALSE, FALSE), body |-> <<>>, kids |-> kids]
Leafs == {Leaf(FALSE, FALSE, <<Said(1), [kind |-> "blank"], Said(2)>>), Leaf(FALSE, TRUE, <<Said(3)>>),
          Leaf(TRUE, FALSE, <<[kind |-> "blank"], Said(4)>>)}
SomeOf(S, n) == UNION {[1..k -> S] : k \in 1..n}
Inner(boundary) == {Holds(boundary, kids) : kids \in SomeOf(Leafs, 2)}
Chain(n) == FoldSet(LAMBDA i, tree : Holds(<<3, i>>, <<Leaf(TRUE, FALSE, <<Said(i)>>), tree>>),
                    Leaf(FALSE, FALSE, <<Said(0)>>), 1..n)
Mails == Leafs \union {Chain(n) : n \in 19..22}
         \union {Holds(<<1>>, kids) : kids \in SomeOf(Leafs \union Inner(<<1, 1>>) \union Inner(<<2>>), 2)}
         \union {Holds(<<1, 1>>, kids) : kids \in SomeOf(Leafs \union Inner(<<1>>), 2)}
         \union {Holds(<<1>>, <<Holds(<<2>>, kids), leaf>>) : kids \in [1..2 -> Leafs \union Inner(<<2, 2>>)],
                   leaf \in Leafs}
Receipts == [token : {"t", "u"}, url : {1, 2},
             params : [sid : {0, 7}, status : {"queued", "sent", "delivered", "undelivered", "failed"}]]
CommsQuestions ==
  [kind : {"address"}, box : Box, other : Box, subject : SomeOf({"A", "a", "1", "."}, 2), shout : BOOLEAN,
   strangers : {<<>>, <<<<"1">>>>}]
  \union [kind : {"mail"}, tree : Mails]
  \union UNION {[kind : {"quoted"}, bytes : [1..n -> {61, 65, 10, 232}], escaped : SUBSET (1..n),
                 broken : SUBSET (1..n)] : n \in 0..3}
  \union [kind : {"port"},
          message : [channel : {"email", "whatsapp", "sms"}, attached : {0, 2}, limit : {1}, template : BOOLEAN,
                     link : {"none", "https", "http loopback", "http"}],
          answers : [email : [kind : {"taken"}, rejected : BOOLEAN] \union [kind : {"silent"}, rejected : {FALSE}],
                     whatsapp : [kind : {"taken"}, code : {0}] \union
                                [kind : {"refused"}, code : {63024, 63016, 21408}],
                     sms : [kind : {"taken", "refused"}, segments : {0, 2}]]]
  \union [kind : {"push"}, subscriptions : SUBSET {"e", "f"}, endpoint : {"e"}, status : {201, 404, 410, 500}]
  \union [kind : {"receipt"}, by : Receipts, signed : Receipts]
  \union [kind : {"stop"}, body : SomeOf({"stop", "mesaje", "by", " ", "."}, 4)]
  \union [kind : {"rekey"}, suppressed : SUBSET {"a", "b", "x"},
          pairs : {{[from |-> f, to |-> t[f]] : f \in D} : D \in SUBSET {"a", "b", "c"},
                     t \in [{"a", "b", "c"} -> {"x", "y"}]}]

PartsInit ==
  /\ part \in {"voucher", "payment", "subscription", "purchase", "cards", "templates", "credits",
              "usage", "sums", "sheets", "words", "clock", "comms", "mails"}
  /\ Init /\ Pay!Init /\ Pay!CardsInit /\ Sub!Init /\ Buy!Init /\ Msg!Init /\ Com!Init /\ Meter!Init
  /\ CASE part = "sums" -> question \in SumQuestions \union RateQuestions
       [] part = "sheets" -> question \in SheetQuestions
       [] part = "words" -> question \in WordQuestions
       [] part = "clock" -> question \in ClockQuestions
       [] part = "mails" -> question \in CommsQuestions
       [] OTHER -> question = [kind |-> "none"]

VoucherNext == part = "voucher" /\ Next /\ UNCHANGED <<part, payVars, subVars, buyVars, wordVars, commsVars, meterVars, question>>
PaymentNext ==
  /\ \/ part = "payment" /\ Pay!Next /\ UNCHANGED <<methods, cards, shelf>>
     \/ part = "cards" /\ Pay!CardsNext /\ UNCHANGED <<payout, intents, payments, clerk, payNews>>
  /\ UNCHANGED <<part, vars, subVars, buyVars, wordVars, commsVars, meterVars, question>>
SubscriptionNext == part = "subscription" /\ Sub!Next /\ UNCHANGED <<part, vars, payVars, buyVars, wordVars, commsVars, meterVars, question>>
PurchaseNext == part = "purchase" /\ Buy!Next /\ UNCHANGED <<part, vars, payVars, subVars, wordVars, commsVars, meterVars, question>>

MessageNext ==
  /\ \/ part = "templates" /\ Msg!TemplatesNext
     \/ part = "credits" /\ Msg!CreditsNext
  /\ UNCHANGED <<part, vars, payVars, subVars, buyVars, commsVars, meterVars, question>>

CommsNext == part = "comms" /\ Com!Next /\ UNCHANGED <<part, vars, payVars, subVars, buyVars, wordVars, meterVars, question>>

MeterNext == part = "usage" /\ Meter!Next /\ UNCHANGED <<part, vars, payVars, subVars, buyVars, wordVars, commsVars, question>>

PartsNext ==
  VoucherNext \/ PaymentNext \/ SubscriptionNext \/ PurchaseNext \/ MessageNext \/ CommsNext \/ MeterNext

PartsSpec == PartsInit /\ [][PartsNext]_partsVars

----------------------------------------------------------------------------
\* Every row and every call of the part under way has its type.
Typed ==
  CASE part = "voucher" -> TypeOK
    [] part = "payment" -> Pay!TypeOK
    [] part = "cards" -> Pay!CardsTyped
    [] part = "subscription" -> Sub!TypeOK
    [] part = "purchase" -> Buy!TypeOK
    [] part \in {"templates", "credits"} -> Msg!TypeOK
    [] part = "comms" -> Com!TypeOK
    [] part = "usage" -> Meter!TypeOK
    [] OTHER -> TRUE

\* commerce.service.ts: the books say what the provider did (Payments);
\* stripe.ts: what pay() answers is the one payment of its reference (Purchases);
\* credits.service.ts and templates.service.ts: what messages cost is counted,
\* and they say what the tenant would (Messages).
BooksAreReal ==
  /\ part = "credits" => Msg!CreditIsCounted
  /\ part = "templates" => Msg!WordsAreTheirs
  /\ part = "payment" => Pay!BooksAreReal
  /\ part = "cards" => Pay!CardsAreSeen
  /\ part = "purchase" => Buy!ChargedOnce

\* comms.service.ts: nobody who refused is written to, and a message received
\* is taken in once; address.ts, mime.ts, outbound/, receipts/ and suppression.ts:
\* mail finds its subject and is read whole, what is said to be sent was taken,
\* and "stop" is heard (Comms).
StopIsHonoured ==
  /\ part = "comms" => Com!StopIsHonoured
  /\ question.kind = "address" =>
       Com!AddressIsItsSubjects(question.box, question.other, question.subject, question.shout, question.strangers)
  /\ question.kind = "mail" => Com!MailIsKept(question.tree)
  /\ question.kind = "quoted" => Com!BytesAreTheSame(question.bytes, question.escaped, question.broken)
  /\ question.kind = "port" => Com!SentIsTaken(question.message, question.answers)
  /\ question.kind = "push" => Com!GoneIsForgotten(question.subscriptions, question.endpoint, question.status)
  /\ question.kind = "receipt" =>
       Com!ReceiptIsTheirs(question.by.token, question.by.url, question.by.params, question.signed)
  /\ question.kind = "stop" => Com!StopIsHeard(question.body)
  /\ question.kind = "rekey" => Com!RekeyKeepsTheNo(question.suppressed, question.pairs)

\* billing.service.ts: whoever is entitled bought it or was given it, and pays
\* for it once (Subscriptions).
EntitledBySale == part = "subscription" => Sub!EntitledBySale

\* billing.service.ts: a day of usage is marked only once the provider was told
\* of it, "a column that says which rows are still owed" (Metering).
OwedUntilTold == part = "usage" => Meter!OwedUntilTold

\* billing.service.ts: a day that stood still is billed for what was counted,
\* and once, however often it was told (Metering).
SettledIsBilled == part = "usage" => Meter!SettledIsBilled

\* rounding.ts, allocate.ts, tax.ts, rates.ts, plans.ts, subscriptions.ts,
\* usage.ts, deposits.ts, segments.ts and table.ts: no unit of money is lost or
\* invented, whatever the sign, the tie or the order (Sums); and mapping.ts and
\* xlsx.ts: a sheet's numbers, dates and rows are read as they were meant, or
\* not at all (Sheets); template.ts, gsm.ts and pumping.ts: a message says what
\* was put in it, is offered for less, and is not sent on anybody's account but
\* the tenant's (Messages).
SumsAgree ==
  /\ part = "sums" =>
    CASE question.kind = "round" -> Sum!RoundsAsNamed(question.n, question.d)
      [] question.kind = "tax" -> Sum!TaxReturns(question.n, question.rate)
      [] question.kind = "split" -> Sum!SharesWhole(question.n, question.ratios)
      [] question.kind = "price" ->
           Sum!BandsAreGraduated([tiers |-> question.tiers, included |-> question.included, base |-> 7],
                                 question.quantity)
      [] question.kind = "prorate" -> Sum!ProratesWithin(question.n, question.used, question.days)
      [] question.kind = "deposit" -> Sum!DepositWithin(question.n, question.policy, question.value)
      [] question.kind = "usage" -> Sum!FreeUntilCharged(question.included, question.price, question.used)
      [] question.kind = "rateOn" -> Sum!RateIsOfTheDay(question.days, question.on)
      [] question.kind = "segments" -> Sum!RemainingFits(question.plain, question.extended, question.other)
      [] question.kind = "units" -> Sum!FactorsAreAbsolute(question.specs)
      [] question.kind = "decimal" -> Sum!RateIsKept(question.text, question.places, 3, 99999)
      [] question.kind = "convert" -> Sum!ConvertsOnce(question.n, question.rate, question.base, question.quote, 2)
      [] question.kind = "sum" -> Sum!SumIsOfOneCurrency(question.moneys, 10)
      [] question.kind = "quantity" ->
           Sum!ConvertsAsTheTable(question.specs, question.from, question.to, question.by)
      [] question.kind = "feed" ->
           Sum!FeedIsRead(question.bank, question.document, {"EUR", "USD", "RON", "HUF"}, 3, 99999)
      [] question.kind = "mornings" -> Sum!PublishedStays(question.held, question.feeds, "BNR", question.on)
  /\ part = "sheets" =>
    CASE question.kind = "number" ->
           She!DecimalIsRead(question.number, question.conventions, question.other, question.how)
      [] question.kind = "date" -> She!DayIsRead(question.text)
      [] question.kind = "rows" ->
           She!RowsAreLocated(question.fields, question.mapping, question.header, question.lines)
      [] question.kind = "cell" -> She!CellSurvives(question.cell)
  /\ part = "words" =>
    CASE question.kind = "render" -> Msg!FilledOnce(question.template, question.variables, question.offered)
      [] question.kind = "alphabet" -> Msg!OfferedIsCheaper(question.text)
      [] question.kind = "pump" ->
           Msg!PumpingIsBounded(question.messages, question.hourlyCap, question.countryCap)

\* interval.ts, zone.ts, working-days.ts and quiet.ts: spans are the sets of
\* moments they cover, a wall clock is found or known to be in a gap, and what
\* is promised in working days, or outside quiet hours, is kept (Clock).
TimeAgrees ==
  part = "clock" =>
    CASE question.kind = "zone" -> Time!WallClockIsFound(question.zone, question.wall, question.prefer)
      [] question.kind = "spans" -> Time!SpansAreSets(question.a, question.b)
      [] question.kind = "months" -> Time!MonthsAreKept(<<4, 2, 4, 3>>, question.month, question.day, question.n)
      [] question.kind = "work" ->
           Time!PromisesAreWorkingDays([week |-> question.week, holidays |-> question.holidays],
                                       question.day, question.count, 15)
      [] question.kind = "quiet" -> Time!QuietIsKept([from |-> question.from, to |-> question.to], question.hour)
=============================================================================
