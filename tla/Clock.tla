------------------------------- MODULE Clock -------------------------------
(***************************************************************************)
(* Time as the products reckon it: packages/clock interval.ts and zone.ts, *)
(* packages/workflow working-days.ts, packages/messaging quiet.ts.  An     *)
(* hour is the unit of zones and quiet hours, a day that of calendars; the *)
(* zone database is one zone whose clocks change once, at instant 0.       *)
(***************************************************************************)
EXTENDS Integers, Sequences, FiniteSets, FiniteSetsExt, SequencesExt

HighOf(a, b) == IF a >= b THEN a ELSE b
LowOf(a, b) == IF a <= b THEN a ELSE b

----------------------------------------------------------------------------
\* interval.ts: spans are half-open, [start, end).
Span(start, end) == [start |-> start, end |-> end]
IsEmpty(span) == span.end <= span.start
Within(span) == span.start..(span.end - 1)
Covered(spans) == UNION {Within(spans[i]) : i \in DOMAIN spans}

\* Mutant of Joins: touching spans are kept apart.
JoinsOverlapping(last, span) == span.start < last.end

Joins(last, span) == span.start <= last.end

Normalise(spans) ==
  LET sorted == SortSeq(SelectSeq(spans, LAMBDA span : ~IsEmpty(span)), LAMBDA a, b : a.start < b.start)
      add(merged, span) ==
        IF merged # <<>> /\ Joins(Last(merged), span)
        THEN [merged EXCEPT ![Len(merged)].end = HighOf(@, span.end)]
        ELSE Append(merged, span)
  IN  FoldLeft(add, <<>>, sorted)

\* intersectAll(): whichever of the two ends first is left behind.
IntersectAll(a, b) ==
  LET left == Normalise(a)
      right == Normalise(b)
      shared(i, j) == Span(HighOf(left[i].start, right[j].start), LowOf(left[i].end, right[j].end))
      from[i \in 1..(Len(left) + 1), j \in 1..(Len(right) + 1)] ==
        IF i > Len(left) \/ j > Len(right) THEN <<>>
        ELSE (IF IsEmpty(shared(i, j)) THEN <<>> ELSE <<shared(i, j)>>)
             \o (IF left[i].end < right[j].end THEN from[i + 1, j] ELSE from[i, j + 1])
  IN  from[1, 1]

\* subtract(): a cursor through each span, past what is taken.
SubtractAll(spans, remove) ==
  LET busy == Normalise(remove)
      step(so, taken) ==
        IF so.done \/ taken.end <= so.cursor THEN so
        ELSE IF taken.start >= so.end THEN [so EXCEPT !.done = TRUE]
        ELSE [so EXCEPT !.out = IF taken.start > so.cursor
                                THEN Append(@, Span(so.cursor, taken.start)) ELSE @,
                        !.cursor = HighOf(@, taken.end), !.done = taken.end >= so.end]
      rest(span) ==
        LET so == FoldLeft(step, [out |-> <<>>, cursor |-> span.start, end |-> span.end, done |-> FALSE], busy)
        IN  so.out \o (IF so.cursor < span.end THEN <<Span(so.cursor, span.end)>> ELSE <<>>)
  IN  FlattenSeq([i \in DOMAIN Normalise(spans) |-> rest(Normalise(spans)[i])])

\* Nothing empty, in order, and nothing that touches what comes next.
InShape(spans) ==
  /\ \A i \in DOMAIN spans : ~IsEmpty(spans[i])
  /\ \A i \in 1..(Len(spans) - 1) : spans[i].end < spans[i + 1].start

\* The three say of each moment what sets of moments say, whatever overlaps,
\* touches, repeats or is empty, and give it as few spans as do.
SpansAreSets(a, b) ==
  /\ InShape(Normalise(a)) /\ Covered(Normalise(a)) = Covered(a)
  /\ InShape(IntersectAll(a, b)) /\ Covered(IntersectAll(a, b)) = Covered(a) \intersect Covered(b)
  /\ InShape(SubtractAll(a, b)) /\ Covered(SubtractAll(a, b)) = Covered(a) \ Covered(b)

----------------------------------------------------------------------------
\* zone.ts, in hours: what the clocks show before instant 0 and from it on.
OffsetAt(zone, instant) == IF instant < 0 THEN zone.before ELSE zone.after

ToInstant(zone, wall, prefer) ==
  LET offsets == {OffsetAt(zone, probe) : probe \in {wall - 12, wall, wall + 12}}
      candidates == {wall - offset : offset \in offsets}
      valid == {c \in candidates : c + OffsetAt(zone, c) = wall}
  IN  IF valid = {} THEN [instant |-> Max(candidates), resolution |-> "gap"]
      ELSE [instant |-> IF prefer = "earliest" THEN Min(valid) ELSE Max(valid),
            resolution |-> IF Cardinality(valid) = 1 THEN "exact" ELSE "ambiguous"]

\* A wall clock that happens once is that moment, one that happens twice the
\* first or the second, and one that does not is moved by what was skipped.
WallClockIsFound(zone, wall, prefer) ==
  LET answer == ToInstant(zone, wall, prefer)
      happens == {t \in (wall - 20)..(wall + 20) : t + OffsetAt(zone, t) = wall}
  IN  /\ answer.resolution = CASE Cardinality(happens) = 0 -> "gap"
                               [] Cardinality(happens) = 1 -> "exact"
                               [] OTHER -> "ambiguous"
      /\ answer.instant = IF happens = {} THEN wall - zone.before
                          ELSE IF prefer = "earliest" THEN Min(happens) ELSE Max(happens)

----------------------------------------------------------------------------
DaysInMonth(months, month) == months[(month % Len(months)) + 1]

\* addMonths() and nextPeriodEnd(): the day is clamped to the month's last.
AddMonths(lengths, month, day, n) ==
  [month |-> month + n, day |-> LowOf(day, DaysInMonth(lengths, month + n))]

\* A day is of its month, and moves to no other: a charge a month, and none
\* twice in one.
MonthsAreKept(lengths, month, day, n) ==
  LET to == AddMonths(lengths, month, day, n)
      next == AddMonths(lengths, month, day, n + 1)
  IN  /\ to.month = month + n /\ to.day \in 1..DaysInMonth(lengths, to.month)
      /\ to.day < day => to.day = DaysInMonth(lengths, to.month)
      /\ next.month = to.month + 1

----------------------------------------------------------------------------
\* working-days.ts: `week` is which days of it are worked, day 0 its first.
IsWorkingDay(calendar, day) ==
  calendar.week[(day % Len(calendar.week)) + 1] /\ day \notin calendar.holidays

\* addWorkingDays(): day by day, the first after `day` on; `limit` steps at
\* most, and a calendar with no working days is refused.
AddWorkingDays(calendar, day, count, limit) ==
  LET step == IF count > 0 THEN 1 ELSE -1
      walk[steps \in 0..limit] ==
        IF steps = 0 THEN [at |-> day, left |-> IF count < 0 THEN -count ELSE count]
        ELSE LET so == walk[steps - 1] IN
             IF so.left = 0 THEN so
             ELSE [at |-> so.at + step,
                   left |-> so.left - (IF IsWorkingDay(calendar, so.at + step) THEN 1 ELSE 0)]
  IN  [found |-> walk[limit].left = 0, at |-> walk[limit].at]

\* workingDaysBetween(): the later day counts, and the earlier does not.
WorkingDaysBetween(calendar, from, to) ==
  LET days(a, b) == Cardinality({d \in (a + 1)..b : IsWorkingDay(calendar, d)})
  IN  IF from <= to THEN days(from, to) ELSE -days(to, from)

\* What is promised in so many working days is due on one, that many later or
\* earlier by the other count; and only a calendar with none is refused.
PromisesAreWorkingDays(calendar, day, count, limit) ==
  LET answer == AddWorkingDays(calendar, day, count, limit)
      due == answer.at
  IN
  /\ ~answer.found <=> count # 0 /\ \A i \in DOMAIN calendar.week : ~calendar.week[i]
  /\ answer.found =>
       /\ count = 0 => due = day
       /\ count # 0 => IsWorkingDay(calendar, due)
       /\ count > 0 => WorkingDaysBetween(calendar, day, due) = count
       /\ count < 0 => Cardinality({d \in due..(day - 1) : IsWorkingDay(calendar, d)}) = -count

----------------------------------------------------------------------------
\* quiet.ts: hours of a day, from one to another, past midnight as a rule.
IsQuiet(quiet, hour) ==
  LET h == hour % 24
  IN  IF quiet.from < quiet.to THEN h >= quiet.from /\ h < quiet.to
      ELSE h >= quiet.from \/ h < quiet.to

\* nextAllowed(): hour by hour, for two days; a window that is quiet around the
\* clock is sent in all the same.
NextAllowed(quiet, hour) ==
  LET loud == {h \in hour..(hour + 48) : ~IsQuiet(quiet, h)}
  IN  IF loud = {} THEN hour ELSE Min(loud)

\* Nobody is written to in the quiet hours, and nobody waits past the end of
\* them: the hours on either side of midnight are one window.
QuietIsKept(quiet, hour) ==
  LET next == NextAllowed(quiet, hour) IN
  /\ IsQuiet(quiet, hour) /\ quiet.from # quiet.to => next % 24 = quiet.to /\ next - hour <= 24
  /\ ~IsQuiet(quiet, hour) => next = hour
  /\ quiet.from = quiet.to => next = hour
=============================================================================
