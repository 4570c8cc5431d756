------------------------------- MODULE Sheets -------------------------------
(***************************************************************************)
(* packages/csv: the columns of somebody else's file read through a        *)
(* mapping (mapping.ts), its rows as the reader hands them over (index.ts),*)
(* and the cells of a workbook, written and read (xlsx.ts).                *)
(*                                                                         *)
(* A cell is the sequence of its characters where they are read one by     *)
(* one; a column's name, and what is in a cell that is only handed on, is  *)
(* a value.                                                                *)
(***************************************************************************)
EXTENDS Integers, Sequences, FiniteSets, SequencesExt, FiniteSetsExt, Functions

Digits == {"0", "1", "2", "5"}    \* of the ten, those the questions use
Without(text, c) == SelectSeq(text, LAMBDA one : one # c)
Unreadable == <<"undefined">>

----------------------------------------------------------------------------
(* Numbers *)

IsDigits(text) == text # <<>> /\ ToSet(text) \subseteq Digits

\* /^\d+(\.\d+)?$/
IsUnsigned(text) ==
  \/ IsDigits(text)
  \/ \E i \in 2..(Len(text) - 1) :
       text[i] = "." /\ IsDigits(SubSeq(text, 1, i - 1)) /\ IsDigits(SubSeq(text, i + 1, Len(text)))

\* A value in parentheses, and then one with its minus behind it.
Unparenthesised(text) ==
  IF Len(text) >= 2 /\ text[1] = "(" /\ Last(text) = ")"
  THEN <<"-">> \o SubSeq(text, 2, Len(text) - 1) ELSE text
MinusFirst(text) ==
  IF text # <<>> /\ Last(text) = "-" /\ IsUnsigned(Front(text)) THEN <<"-">> \o Front(text) ELSE text

\* The separator of thousands goes first, and only then is the other a point.
Cleaned(text, conventions) ==
  LET grouped == Without(Without(text, " "), conventions.thousands)
  IN  [i \in DOMAIN grouped |-> IF grouped[i] = conventions.decimal THEN "." ELSE grouped[i]]

ToDecimalString(text, conventions) ==
  LET cleaned == MinusFirst(Unparenthesised(Cleaned(text, conventions)))
      size == IF cleaned # <<>> /\ cleaned[1] = "-" THEN Tail(cleaned) ELSE cleaned
  IN  IF IsUnsigned(size) THEN cleaned ELSE Unreadable

\* integer() of a row.
ToInteger(text, conventions) ==
  LET decimal == ToDecimalString(text, conventions)
  IN  IF "." \in ToSet(decimal) THEN Unreadable ELSE decimal

----------------------------------------------------------------------------
(* Dates: three numbers, how many characters each has, and what is between *)

Formats == {"iso", "DD.MM.YYYY", "DD/MM/YYYY", "MM/DD/YYYY", "YYYYMMDD"}
SeparatorOf(format) ==
  CASE format = "iso" -> "-" [] format = "YYYYMMDD" -> "" [] format = "DD.MM.YYYY" -> "."
    [] OTHER -> "/"
YearFirst(format) == format \in {"iso", "YYYYMMDD"}

Leap(y) == (y % 4 = 0 /\ y % 100 # 0) \/ y % 400 = 0
DaysIn(y, m) == CASE m = 2 -> IF Leap(y) THEN 29 ELSE 28 [] m \in {4, 6, 9, 11} -> 30 [] OTHER -> 31
IsDay(date) == date.m \in 1..12 /\ date.d \in 1..DaysIn(date.y, date.m)

\* The parts of a date in a format, in their order.
Order(format) ==
  CASE YearFirst(format) -> <<"y", "m", "d">> [] format = "MM/DD/YYYY" -> <<"m", "d", "y">>
    [] OTHER -> <<"d", "m", "y">>

\* How long each may be written, and whether the text is of that shape.
Widths(format, part) ==
  CASE part = "y" -> {4} [] format = "YYYYMMDD" -> {2} [] OTHER -> {1, 2}
Matches(text, format) ==
  /\ text.between = SeparatorOf(format)
  /\ \A i \in 1..3 : text.widths[i] \in Widths(format, Order(format)[i])

\* toIsoDate(): no day that the calendar has not.
ToIsoDate(text, format) ==
  LET part(name) == text.numbers[CHOOSE i \in 1..3 : Order(format)[i] = name]
      date == [y |-> part("y"), m |-> part("m"), d |-> part("d")]
  IN  IF Matches(text, format) /\ IsDay(date) THEN {date} ELSE {}

----------------------------------------------------------------------------
(* Columns and rows *)

\* normalise(): a name is its letters, and how they are written.
Normalise(column) == column.name
NoColumn == 0

\* Why a mapping cannot be used: a field that needs a column and has none, or
\* one whose column the file has not.
CheckMapping(fields, mapping, header) ==
  LET columns == {Normalise(header[i]) : i \in DOMAIN header} IN
  {spec.field : spec \in {one \in fields :
     IF one.field \in DOMAIN mapping THEN Normalise(mapping[one.field]) \notin columns ELSE one.required}}

\* locate(): of two columns with one name, the last.
Locate(mapping, header, field) ==
  LET at == {i \in DOMAIN header : field \in DOMAIN mapping /\ Normalise(header[i]) = Normalise(mapping[field])}
  IN  IF at = {} THEN NoColumn ELSE Max(at)

IsBlank(row) == \A i \in DOMAIN row : row[i] = ""

\* makeRow(): the cell of a field; one past the end of the row is empty.
Text(row, mapping, header, field) ==
  LET at == Locate(mapping, header, field)
  IN  IF at = NoColumn \/ at > Len(row.raw) THEN "" ELSE row.raw[at]
Required(row, mapping, header, fields) ==
  {spec.field : spec \in {one \in fields : one.required /\ Text(row, mapping, header, one.field) = ""}}

\* readRows(): those that are not blank, each with its line.
ReadRows(rows, headerLine) ==
  LET numbered == [i \in DOMAIN rows |-> [raw |-> rows[i], line |-> headerLine + i]]
  IN  SelectSeq(numbered, LAMBDA one : ~IsBlank(one.raw))

\* parseCsv(): blank lines are dropped.
ParseCsv(lines) == SelectSeq(lines, LAMBDA line : ~IsBlank(line))

----------------------------------------------------------------------------
(* Workbooks *)

\* toXlsx(): the type travels with the cell, and nothing is an empty one.
ToXlsx(cell) ==
  IF cell.type \in {"null", "undefined"} THEN [type |-> "empty", value |-> ""] ELSE cell

\* asText(): a date is the day it is in UTC, whatever the hour.
AsText(cell) ==
  CASE cell.type = "empty" -> ""
    [] cell.type = "date" -> cell.value.day
    [] OTHER -> cell.value

\* toCsv(): what a cell is in a file of text.
ToCsv(cell) == IF cell.type \in {"null", "undefined"} THEN "" ELSE cell.value

----------------------------------------------------------------------------
\* How a file under some conventions writes a number: in groups of three.
Grouped(digits, c) ==
  FlattenSeq([i \in DOMAIN digits |->
    IF i > 1 /\ (Len(digits) - i) % 3 = 2 /\ c # "" THEN <<c, digits[i]>> ELSE <<digits[i]>>])
Written(number, conventions, how) ==
  LET size == Grouped(number.int, conventions.thousands)
              \o (IF number.frac = <<>> THEN <<>> ELSE <<conventions.decimal>> \o number.frac)
  IN  CASE ~number.negative -> size
        [] how = "before" -> <<"-">> \o size
        [] how = "behind" -> size \o <<"-">>
        [] how = "round" -> <<"(">> \o size \o <<")">>
Canonical(number) ==
  (IF number.negative THEN <<"-">> ELSE <<>>) \o number.int
  \o (IF number.frac = <<>> THEN <<>> ELSE <<".">> \o number.frac)

\* "1.234,56 and 1,234.56 are the same number under two conventions": what a
\* file writes under its own, two that differ, is what is read, however it
\* writes a minus; it is a whole number if and only if it has no fraction; and
\* under the other convention it is that number, or not one, or one that lost
\* its point or found one in its thousands, never other digits.
DecimalIsRead(number, conventions, other, how) ==
  LET text == Written(number, conventions, how)
      misread == ToDecimalString(text, other)
      Bare(s) == Without(Without(s, "."), "-")
  IN  conventions.decimal # conventions.thousands =>
        /\ ToDecimalString(text, conventions) = Canonical(number)
        /\ ToInteger(text, conventions) = (IF number.frac = <<>> THEN Canonical(number) ELSE Unreadable)
        /\ misread # Unreadable =>
             /\ Bare(misread) = number.int \o number.frac
             /\ (misread[1] = "-") = number.negative

\* A day is read in its format as that day, one the calendar has not is read in
\* none, and of two formats that both read a text only those of days and months
\* in turn read it as two days.
DayIsRead(text) ==
  \A f, g \in Formats :
    LET a == ToIsoDate(text, f)
        b == ToIsoDate(text, g)
    IN  /\ \A date \in a : IsDay(date)
        /\ a # {} /\ b # {} /\ a # b => {f, g} = {"DD/MM/YYYY", "MM/DD/YYYY"}
        /\ a = {} /\ Matches(text, f) => ~\E date \in [y : {2023, 2024}, m : 1..12, d : 1..31] :
              /\ IsDay(date)
              /\ \A i \in 1..3 : text.numbers[i] = date[Order(f)[i]]

\* A mapping that is not refused finds every field it needs, in a row of the
\* line it was on, blank rows and short ones included; and a file that came
\* through parseCsv() is numbered short by the blank lines before the row.
RowsAreLocated(fields, mapping, header, lines) ==
  LET read == ReadRows(lines, 1)
      parsed == ReadRows(ParseCsv(lines), 1)
      BlankBefore(line) == Cardinality({j \in 1..(line - 2) : IsBlank(lines[j])})
  IN  CheckMapping(fields, mapping, header) = {} =>
        /\ \A spec \in fields : spec.required => Locate(mapping, header, spec.field) # NoColumn
        /\ \A i \in DOMAIN read :
             /\ read[i].raw = lines[read[i].line - 1]
             /\ \A spec \in fields :
                  LET text == Text(read[i], mapping, header, spec.field) IN
                  /\ text # "" => \E at \in DOMAIN header :
                       at <= Len(read[i].raw) /\ read[i].raw[at] = text
                       /\ Normalise(header[at]) = Normalise(mapping[spec.field])
                  /\ spec.field \in Required(read[i], mapping, header, fields) <=> spec.required /\ text = ""
        /\ Len(parsed) = Len(read)
        /\ \A i \in DOMAIN read :
             parsed[i].raw = read[i].raw /\ parsed[i].line = read[i].line - BlankBefore(read[i].line)

\* What goes into a workbook comes out as the text it would be in a file.
CellSurvives(cell) == AsText(ToXlsx(cell)) = ToCsv(cell)
=============================================================================
