-------------------------------- MODULE Sums --------------------------------
(***************************************************************************)
(* The arithmetic that prices, taxes, splits and converts: packages/money  *)
(* rounding.ts, allocate.ts, tax.ts, money.ts and rates.ts, packages/rates,*)
(* packages/billing plans.ts, subscriptions.ts and usage.ts, packages/     *)
(* commerce deposits.ts, packages/quantity table.ts and convert.ts.  A     *)
(* number that is not whole is a fraction, its numerator and denominator   *)
(* given side by side: what floating point loses is not modelled.          *)
(***************************************************************************)
EXTENDS Integers, Sequences, FiniteSets, FiniteSetsExt, SequencesExt

Modes == {"HalfUp", "HalfDown", "HalfEven", "Up", "Down", "Ceiling", "Floor"}
HighOf(a, b) == IF a >= b THEN a ELSE b
LowOf(a, b) == IF a <= b THEN a ELSE b
Size(n) == HighOf(n, -n)
Total(s) == FoldLeft(LAMBDA a, b : a + b, 0, s)

----------------------------------------------------------------------------
\* Mutant of RoundToInteger: ties go up, whatever the sign.
RoundToIntegerUp(n, d, mode) ==
  IF mode = "HalfUp" THEN (2 * n + d) \div (2 * d)
  ELSE (2 * n + d - 1) \div (2 * d)

\* roundToInteger(n / d): from the floor and what is left above it.
RoundToInteger(n, d, mode) ==
  LET floor == n \div d
      rest == 2 * (n - floor * d)    \* twice, so that a half is `d`
      above == CASE mode = "Ceiling" -> TRUE
                 [] mode = "Floor" -> FALSE
                 [] mode = "Up" -> n > 0
                 [] mode = "Down" -> n < 0
                 [] mode = "HalfUp" -> IF rest = d THEN n > 0 ELSE rest > d
                 [] mode = "HalfDown" -> IF rest = d THEN n < 0 ELSE rest > d
                 [] mode = "HalfEven" -> IF rest = d THEN floor % 2 # 0 ELSE rest > d
  IN  IF rest = 0 THEN floor ELSE IF above THEN floor + 1 ELSE floor

\* rates.ts divideRounded(): the same on magnitudes, the sign put back after.
RoundMagnitude(quotient, twice, d, negative, mode) ==
  LET away == CASE mode = "Up" -> TRUE
                [] mode = "Down" -> FALSE
                [] mode = "Ceiling" -> ~negative
                [] mode = "Floor" -> negative
                [] mode = "HalfUp" -> twice >= d
                [] mode = "HalfDown" -> twice > d
                [] mode = "HalfEven" -> twice > d \/ (twice = d /\ quotient % 2 # 0)
  IN  IF away THEN quotient + 1 ELSE quotient

DivideRounded(n, d, mode) ==
  LET size == Size(n)
      rest == size % d
      rounded == IF rest = 0 THEN size \div d
                 ELSE RoundMagnitude(size \div d, 2 * rest, d, n < 0, mode)
  IN  IF n < 0 THEN -rounded ELSE rounded

\* Whichever of the two rounds, it is to a neighbour, to the nearest in the
\* modes that say so, and the way the mode says; and they agree.
RoundsAsNamed(n, d) ==
  \A mode \in Modes :
    LET r == RoundToInteger(n, d, mode)
        miss == Size(n - r * d)
        tie == 2 * (Size(n) % d) = d
    IN  /\ r = DivideRounded(n, d, mode)
        /\ miss < d
        /\ mode \in {"HalfUp", "HalfDown", "HalfEven"} => 2 * miss <= d
        /\ tie /\ mode = "HalfUp" => Size(r * d) > Size(n)
        /\ tie /\ mode = "HalfDown" => Size(r * d) < Size(n)
        /\ tie /\ mode = "HalfEven" => r % 2 = 0
        /\ mode = "Up" => Size(r * d) >= Size(n)
        /\ mode = "Down" => Size(r * d) <= Size(n)
        /\ mode = "Ceiling" => r * d >= n
        /\ mode = "Floor" => r * d <= n

----------------------------------------------------------------------------
\* allocate(): whole parts, and the units left over to the largest fractions,
\* ties by position.
Allocate(amount, ratios) ==
  LET total == Total(ratios)
      size == Size(amount)
      places == DOMAIN ratios
      whole == [i \in places |-> (size * ratios[i]) \div total]
      part == [i \in places |-> (size * ratios[i]) % total]
      left == size - Total(whole)
      before(j, i) == part[j] > part[i] \/ (part[j] = part[i] /\ j < i)
      place == [i \in places |-> Cardinality({j \in places : before(j, i)})]
      \* `left` units, one at a time, round and round in that order
      more(i) == (left + Len(ratios) - 1 - place[i]) \div Len(ratios)
  IN  [i \in places |-> (IF amount < 0 THEN -1 ELSE 1) * (whole[i] + more(i))]

\* "Without losing or inventing a single minor unit": the shares add up, each
\* is within a unit of exact, a larger weight never gets less, equal weights
\* favour the earlier, and no weight gets nothing.
SharesWhole(amount, ratios) ==
  LET shares == Allocate(amount, ratios) IN
  /\ Total(shares) = amount
  /\ \A i \in DOMAIN ratios :
       /\ Size(shares[i] * Total(ratios) - amount * ratios[i]) < Total(ratios)
       /\ ratios[i] = 0 => shares[i] = 0
       /\ \A j \in DOMAIN ratios :
            ratios[i] > ratios[j] \/ (ratios[i] = ratios[j] /\ i < j)
              => Size(shares[i]) >= Size(shares[j])

----------------------------------------------------------------------------
FromNet(net, rate) ==
  LET tax == RoundToInteger(net * rate, 100, "HalfUp")
  IN  [net |-> net, tax |-> tax, gross |-> net + tax]

FromGross(gross, rate) ==
  LET net == RoundToInteger(gross * 100, 100 + rate, "HalfUp")
  IN  [net |-> net, tax |-> gross - net, gross |-> gross]

\* "net + tax always equals the gross exactly": and the net comes back out of
\* the gross that was made of it.
TaxReturns(amount, rate) ==
  /\ FromGross(FromNet(amount, rate).gross, rate) = FromNet(amount, rate)
  /\ LET taxed == FromGross(amount, rate) IN
     /\ taxed.net + taxed.tax = amount
     /\ Size(taxed.tax) <= Size(amount)

----------------------------------------------------------------------------
\* plans.ts: a band up to `upTo`, 0 for no end, at `price` halves a unit.
RoundHalf(n) == (n + 1) \div 2

\* priceFor(): through the bands, and what is left at the last one's price.
PriceFor(plan, quantity) ==
  LET tiers == plan.tiers
      start == [left |-> HighOf(0, quantity - plan.included), total |-> plan.base, floor |-> plan.included]
      step(so, tier) ==
        IF so.left <= 0 THEN so
        ELSE LET inBand == IF tier.upTo = 0 THEN so.left
                           ELSE LowOf(so.left, HighOf(0, tier.upTo - so.floor))
             IN  [left |-> so.left - inBand, total |-> so.total + RoundHalf(inBand * tier.price),
                  floor |-> IF tier.upTo = 0 THEN so.floor ELSE tier.upTo]
      done == FoldLeft(step, start, tiers)
  IN  IF tiers = <<>> THEN plan.base
      ELSE done.total + RoundHalf(done.left * tiers[Len(tiers)].price)

\* "Graduated rather than volume": each unit costs what its own band says, and
\* those past the last band what the last one does. The bands begin above what
\* is included: one that ends below it is not skipped as it should be.
BandsAreGraduated(plan, quantity) ==
  LET tiers == plan.tiers
      units == (plan.included + 1)..quantity
      ends(k) == tiers[k].upTo
      bandOf(u) == LET holds == {k \in DOMAIN tiers : ends(k) = 0 \/ u <= ends(k)}
                   IN  IF holds = {} THEN Len(tiers) + 1 ELSE Min(holds)
      price(k) == tiers[LowOf(k, Len(tiers))].price
      charge(k) == RoundHalf(price(k) * Cardinality({u \in units : bandOf(u) = k}))
  IN  tiers # <<>> /\ (\A k \in DOMAIN tiers : ends(k) = 0 \/ ends(k) > plan.included)
        => PriceFor(plan, quantity) = plan.base + Total([k \in 1..(Len(tiers) + 1) |-> charge(k)])

\* subscriptions.ts: proratedFor().
ProratedFor(amount, used, days) ==
  IF days <= 0 THEN 0
  ELSE HighOf(0, (amount * LowOf(HighOf(used, 0), days)) \div days)

\* A period's parts never come to more than the period, whichever way it is cut.
ProratesWithin(amount, used, days) ==
  LET first == ProratedFor(amount, used, days)
      second == ProratedFor(amount, days - used, days)
  IN  /\ first >= 0 /\ first <= HighOf(0, amount)
      /\ used \in 0..days => first + second <= HighOf(0, amount)

\* usage.ts: usageCost() at `price` halves a unit, and mayUse().
UsageCost(included, price, used) == RoundHalf(HighOf(0, used - included) * price)
MayUse(included, used, behaviour, balance) == used < included \/ behaviour = "charge" \/ balance > 0

\* What may be used without being charged for costs nothing, until credit is
\* what allows it.
FreeUntilCharged(included, price, used) ==
  MayUse(included, used, "block", 0) => UsageCost(included, price, used + 1) = 0

\* deposits.ts: depositFor() in whole percent, and balanceAfter().
ClampTo(value, high) == LowOf(HighOf(0, value), high)

DepositFor(total, kind, value) ==
  IF total <= 0 THEN 0
  ELSE CASE kind = "none" -> 0
         [] kind = "full" -> total
         [] kind = "fixed" -> ClampTo(value, total)
         [] kind = "percentage" -> ClampTo((2 * total * ClampTo(value, 100) + 100) \div 200, total)

BalanceAfter(total, paid) == HighOf(0, total - paid)

\* "Never past the total", and what is left is the rest of it.
DepositWithin(total, kind, value) ==
  LET deposit == DepositFor(total, kind, value) IN
  /\ deposit \in 0..HighOf(0, total)
  /\ total > 0 => deposit + BalanceAfter(total, deposit) = total
  /\ total > 0 /\ kind = "percentage" /\ value >= 100 => deposit = total

\* money/rates.ts rateOn(): `rates` are the days of one pair, as they come.
RateOn(days, on) ==
  FoldLeft(LAMBDA best, day : IF day > on \/ (best # 0 /\ day <= best) THEN best ELSE day, 0, days)

\* "The latest published on or before it", whatever order they come in.
RateIsOfTheDay(days, on) ==
  LET held == {days[i] : i \in {i \in DOMAIN days : days[i] <= on}}
  IN  RateOn(days, on) = IF held = {} THEN 0 ELSE Max(held)

\* segments.ts countSegments(): of plain characters, those that cost two, and
\* those that force the expensive encoding.
CountSegments(plain, extended, other) ==
  LET gsm == other = 0
      single == IF gsm THEN 160 ELSE 70
      part == IF gsm THEN 153 ELSE 67
      length == IF gsm THEN plain + 2 * extended ELSE plain + extended + other
      segments == IF length <= single THEN 1 ELSE (length + part - 1) \div part
  IN  IF plain + extended + other = 0 THEN [segments |-> 0, remaining |-> single]
      ELSE [segments |-> segments,
            remaining |-> (IF segments = 1 THEN single ELSE segments * part) - length]

\* "How many more characters fit before another segment is charged": so many,
\* and not one more; and no character makes a message cheaper.
RemainingFits(plain, extended, other) ==
  LET now == CountSegments(plain, extended, other)
      with(k) == CountSegments(plain + k, extended, other)
  IN  /\ now.remaining >= 0
      /\ plain + extended + other > 0 =>
           with(now.remaining).segments = now.segments /\ with(now.remaining + 1).segments = now.segments + 1
      /\ CountSegments(plain, extended + 1, other).segments >= now.segments
      /\ CountSegments(plain, extended, other + 1).segments >= now.segments

----------------------------------------------------------------------------
\* table.ts: a unit is worth `n` base units, or `n` of another; "" is neither.
\* resolve() walks the chain once, and refuses what comes round again.
Base == "base"

Factor(specs, code) ==
  LET walk[seen \in SUBSET DOMAIN specs, at \in DOMAIN specs \union {Base, "elsewhere"}] ==
        CASE at = Base -> [ok |-> TRUE, worth |-> 1]
          [] at \in seen -> [ok |-> FALSE, why |-> "cycle"]
          [] at \notin DOMAIN specs -> [ok |-> FALSE, why |-> "unknown-parent"]
          [] specs[at].of = "" -> [ok |-> FALSE, why |-> "not-positive"]
          [] OTHER ->
               LET inner == IF specs[at].of = "itself" THEN [ok |-> TRUE, worth |-> 1]
                            ELSE walk[seen \union {at}, specs[at].of]
               IN  IF ~inner.ok THEN inner
                   ELSE IF specs[at].n * inner.worth <= 0 THEN [ok |-> FALSE, why |-> "not-positive"]
                   ELSE [ok |-> TRUE, worth |-> specs[at].n * inner.worth]
  IN  walk[{}, code]

UnitTable(specs) == IF \A u \in DOMAIN specs : Factor(specs, u).ok
                    THEN [u \in DOMAIN specs \union {Base} |-> Factor(specs, u).worth]
                    ELSE [u \in {} |-> 0]

\* A table that is built says of each unit what it says of the one it is made
\* of, that many times over, and nothing in it is worth nothing; one is built
\* when its units can be put in an order that each is made of earlier ones, and
\* refused when they cannot, in whatever order they are given.
FactorsAreAbsolute(specs) ==
  LET table == UnitTable(specs) IN
  /\ \A u \in DOMAIN table : table[u] > 0
  /\ DOMAIN table # {} => \A u \in DOMAIN specs :
       table[u] = specs[u].n * (IF specs[u].of = "itself" THEN 1 ELSE table[specs[u].of])
  /\ DOMAIN table # {} <=>
       \E rank \in [DOMAIN specs -> 1..Cardinality(DOMAIN specs)] :
         \A u \in DOMAIN specs :
           /\ specs[u].n > 0 /\ specs[u].of # ""
           /\ \/ specs[u].of \in {"itself", Base}
              \/ specs[u].of \in DOMAIN specs /\ rank[specs[u].of] < rank[u]

----------------------------------------------------------------------------
\* quantity/convert.ts: `n` for every `d` of `unit`; a refusal names a unit.
Known(unit, table) == unit \in DOMAIN table

ToBase(q, table) ==
  IF Known(q.unit, table) THEN [ok |-> TRUE, n |-> q.n * table[q.unit], d |-> q.d, unit |-> Base]
  ELSE [ok |-> FALSE, unit |-> q.unit]

FromBase(q, unit, table) ==
  IF q.unit # Base THEN [ok |-> FALSE, unit |-> q.unit]
  ELSE IF Known(unit, table) THEN [ok |-> TRUE, n |-> q.n, d |-> q.d * table[unit], unit |-> unit]
  ELSE [ok |-> FALSE, unit |-> unit]

ConvertUnit(q, unit, table) ==
  IF q.unit = unit THEN [ok |-> TRUE, n |-> q.n, d |-> q.d, unit |-> unit]
  ELSE IF Known(q.unit, table) /\ Known(unit, table)
  THEN [ok |-> TRUE, n |-> q.n * table[q.unit], d |-> q.d * table[unit], unit |-> unit]
  ELSE [ok |-> FALSE, unit |-> IF Known(q.unit, table) THEN unit ELSE q.unit]

SameAmount(p, q) == p.ok /\ q.ok /\ p.n * q.d = q.n * p.d

\* "One multiplication and one division, never a chain": what that gives is what
\* the way through the base gives, and through any other unit; and it is refused
\* for the unit that is not in the table, and for no other.
ConvertsAsTheTable(specs, from, to, by) ==
  LET table == UnitTable(specs)
      q == [n |-> 7, d |-> 1, unit |-> from]
      direct == ConvertUnit(q, to, table)
      base == ToBase(q, table)
      first == ConvertUnit(q, by, table)
  IN  /\ direct.ok <=> from = to \/ {from, to} \subseteq DOMAIN table
      /\ ~direct.ok => direct.unit \in {from, to} \ DOMAIN table
      /\ FromBase(q, to, table).ok => from = Base
      /\ {from, to} \subseteq DOMAIN table => SameAmount(direct, FromBase(base, to, table))
      /\ {from, to, by} \subseteq DOMAIN table => SameAmount(direct, ConvertUnit(first, to, table))

----------------------------------------------------------------------------
\* money.ts: an amount past `safe` either way is refused, and so are two
\* currencies; sum() adds from the first to the last.
Add(a, b, safe) ==
  IF a.ok /\ b.ok /\ a.currency = b.currency /\ Size(a.amount + b.amount) <= safe
  THEN [ok |-> TRUE, amount |-> a.amount + b.amount, currency |-> a.currency]
  ELSE [ok |-> FALSE]

SumOf(moneys, safe) == FoldLeft(LAMBDA a, b : Add(a, b, safe), Head(moneys), Tail(moneys))

\* compare() throws on two currencies, and so does what is made of it.
Least(moneys) ==
  FoldLeft(LAMBDA a, b : IF ~a.ok \/ a.currency # b.currency THEN [ok |-> FALSE]
                         ELSE IF b.amount < a.amount THEN b ELSE a,
           Head(moneys), Tail(moneys))

\* A sum that is given is all of them, in the one currency they all have, and
\* one is refused for a mixture or for a sum too large on the way, not otherwise.
SumIsOfOneCurrency(moneys, safe) ==
  LET sum == SumOf(moneys, safe)
      amounts == [i \in DOMAIN moneys |-> moneys[i].amount]
      alike == \A i \in DOMAIN moneys : moneys[i].currency = moneys[1].currency
  IN  /\ sum.ok <=> alike /\ \A i \in DOMAIN moneys : Size(Total(SubSeq(amounts, 1, i))) <= safe
      /\ sum.ok => sum.amount = Total(amounts) /\ sum.currency = moneys[1].currency
      /\ Least(moneys).ok <=> alike
      /\ alike => Least(moneys).amount = Min({amounts[i] : i \in DOMAIN amounts})

----------------------------------------------------------------------------
(* Rates: whole numbers of 10^-scale, none of them zero or past `safe`, and   *)
(* decimal texts: the digits before the point and those after it.            *)

Zeros(n) == [i \in 1..n |-> 0]
ValueOf(digits) == FoldLeft(LAMBDA n, digit : 10 * n + digit, 0, digits)
DigitsOf(n) ==
  LET width == Min({k \in 1..9 : n < 10^k})
  IN  [i \in 1..width |-> (n \div 10^(width - i)) % 10]
WithoutTrailing(digits) == SubSeq(digits, 1, Max({0} \union {i \in DOMAIN digits : digits[i] # 0}))
WithoutLeading(digits) ==
  SubSeq(digits, Min({Len(digits)} \union {i \in DOMAIN digits : digits[i] # 0}), Len(digits))
TextOf(whole, fraction) == [whole |-> whole, dot |-> fraction # <<>>, fraction |-> fraction]

\* decimal.ts: the point `places` to the left, and the zeros either side left
\* out; of nothing but a point, nothing.
ShiftDecimal(text, places) ==
  LET digits == text.whole \o text.fraction
      point == Len(text.whole) - places
      padded == IF point <= 0 THEN Zeros(1 - point) \o digits ELSE digits
      at == IF point <= 0 THEN 1 ELSE LowOf(point, Len(digits))
  IN  TextOf(WithoutLeading(SubSeq(padded, 1, at)), WithoutTrailing(SubSeq(padded, at + 1, Len(padded))))

\* parseScaled(): 0 for what is refused.
ParseScaled(text, scale, safe) ==
  LET exact == ValueOf(text.whole \o text.fraction \o Zeros(scale - Len(text.fraction))) IN
  IF text.whole = <<>> \/ (text.dot /\ text.fraction = <<>>) \/ Len(text.fraction) > scale \/ exact > safe
  THEN 0 ELSE exact

RateToString(rate, scale) ==
  LET fraction == DigitsOf(rate % 10^scale)
  IN  TextOf(DigitsOf(rate \div 10^scale), WithoutTrailing(Zeros(scale - Len(fraction)) \o fraction))

\* What the column makes of it, and published-rate's trimTrailingZeros().
Column(text, scale) == TextOf(text.whole, text.fraction \o Zeros(scale - Len(text.fraction)))
TrimTrailingZeros(text) == IF text.dot THEN TextOf(text.whole, WithoutTrailing(text.fraction)) ELSE text

\* A number shifted and parsed is that number, to the last digit, or it is
\* refused; and a rate that is written down and kept comes back as it was.
RateIsKept(text, places, scale, safe) ==
  LET rate == ParseScaled(ShiftDecimal(text, places), scale, safe)
      digits == WithoutTrailing(text.fraction)
      exact == ValueOf(text.whole \o digits)    \* in 10^-(places + Len(digits))
      more == places + Len(digits) - scale
  IN  /\ rate # 0 => IF more >= 0 THEN rate * 10^more = exact ELSE rate = exact * 10^(-more)
      /\ rate = 0 <=> \/ exact = 0
                      \/ more > 0 /\ exact % 10^more # 0
                      \/ exact * 10^HighOf(0, -more) > safe * 10^HighOf(0, more)
      /\ rate # 0 => LET written == RateToString(rate, scale) IN
           /\ ParseScaled(written, scale, safe) = rate
           /\ ParseScaled(TrimTrailingZeros(Column(written, scale)), scale, safe) = rate

\* convert(), conversionFactor() and invert(): `base` and `quote` are the minor
\* units of one major of each.
ConversionFactor(rate, base, quote, scale) == [numerator |-> rate * quote, denominator |-> 10^scale * base]
Convert(amount, rate, base, quote, scale, mode) ==
  DivideRounded(amount * rate * quote, 10^scale * base, mode)
Invert(rate, scale) == DivideRounded(10^scale * 10^scale, rate, "HalfUp")

\* "Through major units, not minor ones", and rounded once: what comes out is
\* worth what went in, to half a minor unit, whatever the minor units of either;
\* it says of a debt what it says of a credit; and it is the exact factor's,
\* rounded. A rate turned round is the nearest to it.
ConvertsOnce(amount, rate, base, quote, scale) ==
  LET out == Convert(amount, rate, base, quote, scale, "HalfUp")
      factor == ConversionFactor(rate, base, quote, scale)
      worth == 10^scale * base * out     \* in 1 / (10^scale * base * quote) majors
  IN  /\ 2 * Size(worth - amount * rate * quote) <= 10^scale * base
      /\ Convert(-amount, rate, base, quote, scale, "HalfUp") = -out
      /\ out = RoundToInteger(amount * factor.numerator, factor.denominator, "HalfUp")
      /\ 2 * Size(Invert(rate, scale) * rate - 10^(2 * scale)) <= rate

----------------------------------------------------------------------------
(* Feeds: a document is the days it has, each with what was quoted on it.     *)
(* A quote is of some currency, or of none, at a decimal text, or at none,    *)
(* for 10^per units, or for what is not a number of units.                    *)

Flat(ss) == FoldLeft(LAMBDA a, b : a \o b, <<>>, ss)

\* Each bank's own direction.
Pair(bank, document, quote) ==
  CASE bank = "BNR" -> <<quote.of, document.origin>>
    [] bank = "MNB" -> <<quote.of, "HUF">>
    [] bank = "ECB" -> <<"EUR", quote.of>>

\* rate(): of registered currencies only. The comma is the MNB's, and only the
\* ECB quotes for one unit, whatever it says.
RateOf(bank, document, quote, currencies, scale, safe) ==
  LET text == IF bank = "ECB" THEN quote.text ELSE ShiftDecimal(quote.text, quote.per)
      legible == quote.point = "." \/ (bank = "MNB" /\ quote.point = ",")
      units == bank = "ECB" \/ quote.per >= 0
      pair == Pair(bank, document, quote)
  IN  IF legible /\ units /\ {pair[1], pair[2]} \subseteq currencies
      THEN ParseScaled(text, scale, safe) ELSE 0

\* parse(): a document that is odd anywhere is refused whole, and a quote
\* without a value is passed over.
ParseFeed(bank, document, currencies, scale, safe) ==
  LET quoted(day) == SelectSeq(day.quotes, LAMBDA quote : quote.given)
      read(day) == [i \in DOMAIN quoted(day) |->
                      [bank |-> bank, pair |-> Pair(bank, document, quoted(day)[i]), asOf |-> day.asOf,
                       rate |-> RateOf(bank, document, quoted(day)[i], currencies, scale, safe)]]
      rates == Flat([d \in DOMAIN document.days |-> read(document.days[d])])
  IN  IF \/ document.days = <<>> \/ (bank = "BNR" /\ document.origin = "")
         \/ \E i \in DOMAIN rates : rates[i].rate = 0
         \/ \E d \in DOMAIN document.days : document.days[d].asOf = 0
      THEN [ok |-> FALSE] ELSE [ok |-> TRUE, rates |-> rates]

\* What is read is every value quoted, on its day, in its bank's direction, for
\* one unit; and one quote that cannot be read refuses the whole of the feed.
FeedIsRead(bank, document, currencies, scale, safe) ==
  LET feed == ParseFeed(bank, document, currencies, scale, safe)
      quotes == UNION {{<<d, i>> : i \in DOMAIN document.days[d].quotes} : d \in DOMAIN document.days}
      quote(at) == document.days[at[1]].quotes[at[2]]
      given == {at \in quotes : quote(at).given}
      per(at) == IF bank = "ECB" THEN 0 ELSE quote(at).per
      says(rate, at) ==
        /\ rate.asOf = document.days[at[1]].asOf
        /\ {rate.pair[1], rate.pair[2]} = {quote(at).of, CASE bank = "BNR" -> document.origin
                                                           [] bank = "MNB" -> "HUF" [] bank = "ECB" -> "EUR"}
        /\ quote(at).of = rate.pair[IF bank = "ECB" THEN 2 ELSE 1]
        /\ rate.rate * 10^(per(at) + Len(quote(at).text.fraction))
             = ValueOf(quote(at).text.whole \o quote(at).text.fraction) * 10^scale
  IN  feed.ok => /\ Len(feed.rates) = Cardinality(given)
                 /\ \A at \in given : quote(at).point \in (IF bank = "MNB" THEN {".", ","} ELSE {"."})
                 /\ \A at \in given : \E i \in DOMAIN feed.rates : says(feed.rates[i], at)
                 /\ \A i \in DOMAIN feed.rates : \E at \in given : says(feed.rates[i], at)

\* rates.service.ts record(): ON CONFLICT DO NOTHING, on the bank, the pair and
\* the day. One pair is enough here.
KeyOf(rate) == <<rate.bank, rate.asOf>>

Record(rows, rates) == FoldLeft(LAMBDA held, rate : held @@ (KeyOf(rate) :> rate.rate), rows, rates)

\* rates.fetcher.ts: a bank that is late, refuses, or sends what cannot be read
\* is a result with an error, and the others are asked after it.
FetchOne(rows, feed) == IF feed.ok THEN Record(rows, feed.rates) ELSE rows
FetchAll(rows, feeds) == FoldLeft(FetchOne, rows, feeds)

\* since(), newest first, and newestDay().
Since(rows, bank, from) ==
  Reverse(SelectSeq([day \in 1..9 |-> day], LAMBDA day : <<bank, day>> \in DOMAIN rows /\ day >= from))
NewestDay(rows, bank) == Max({0} \union {key[2] : key \in {k \in DOMAIN rows : k[1] = bank}})

\* "A published rate for a past day does not change": whatever the banks say
\* later, and whichever of them does not answer, what was held is held, a day
\* answers with what was first published for it or for the last day before it
\* that was, and one bank's silence costs no other a rate.
PublishedStays(rows, feeds, bank, on) ==
  LET held == FetchAll(rows, feeds)
      days(in) == {day \in 1..on : <<bank, day>> \in DOMAIN in}
      answered == {feeds[i] : i \in {i \in DOMAIN feeds : feeds[i].ok}}
  IN  /\ \A key \in DOMAIN rows : held[key] = rows[key]
      /\ DOMAIN held = DOMAIN rows \union UNION {{KeyOf(feed.rates[i]) : i \in DOMAIN feed.rates} : feed \in answered}
      /\ \A key \in DOMAIN held \ DOMAIN rows :
           \E feed \in answered : \E i \in DOMAIN feed.rates :
             /\ KeyOf(feed.rates[i]) = key /\ feed.rates[i].rate = held[key]
             /\ \A j \in 1..(i - 1) : KeyOf(feed.rates[j]) # key
      /\ RateOn(Since(held, bank, 1), on) = Max({0} \union days(held))
      /\ NewestDay(held, bank) >= NewestDay(rows, bank)
      /\ RateOn(Since(held, bank, 1), on) # RateOn(Since(rows, bank, 1), on)
           => \E day \in days(held) \ days(rows) : day > Max({0} \union days(rows))
=============================================================================
