----------------------------- MODULE PrintQueue -----------------------------
(***************************************************************************)
(* packages/printing queue.ts: the jobs of one queue and the loop that     *)
(* drains it, in one process that lives on; and escpos.ts: the ticket a    *)
(* job is, as the bytes a printer is sent.  A character is a member of a   *)
(* small set, and a command of the printer is one byte with a name.        *)
(***************************************************************************)
EXTENDS Integers, Sequences, FiniteSets, FiniteSetsExt, SequencesExt

CONSTANTS
  Jobs,            \* numbered as they are enqueued
  Attempts,
  Unknown          \* the jobs for a printer that is not configured

VARIABLES
  waiting,         \* the jobs queued
  loops,           \* the drain loops under way: [job, step, attempt], in the order begun
  running,         \* what keeps it to one
  enqueued,        \* jobs enqueued so far
  sends,           \* jobs that reached the printer, in order
  told,            \* what each job's onDone was told: "none" if nothing
  escalated,       \* jobs whose failure onFailure was told of
  broken           \* onFailure threw, and nothing was enqueued since

queueVars == <<waiting, loops, running, enqueued, sends, told, escalated, broken>>

Numbers == 1..Jobs

TypeOK ==
  /\ waiting \in Seq(Numbers) /\ sends \in Seq(Numbers)
  /\ \A l \in DOMAIN loops : loops[l].job \in Numbers /\ loops[l].attempt \in 1..Attempts
  /\ running \in BOOLEAN /\ enqueued \in 0..Jobs /\ broken \in BOOLEAN
  /\ told \in [Numbers -> {"none", "printed", "failed"}]
  /\ escalated \subseteq Numbers

Init ==
  /\ waiting = <<>> /\ loops = <<>> /\ running = FALSE /\ enqueued = 0
  /\ sends = <<>> /\ told = [j \in Numbers |-> "none"] /\ escalated = {} /\ broken = FALSE

\* print() begins: with no transport it fails at once.
Printing(job) == [job |-> job, attempt |-> 1, step |-> IF job \in Unknown THEN "escalate" ELSE "send"]
Goes(l, to) == loops' = [loops EXCEPT ![l] = to]
Drop(l) == [i \in 1..Len(loops) - 1 |-> IF i < l THEN loops[i] ELSE loops[i + 1]]

\* Mutant of MayDrain: as if `running` were not looked at.
MayDrainAlways == TRUE

MayDrain == ~running

\* enqueue(): the job waits, and drain() takes it at once where none is running.
Enqueue ==
  /\ enqueued < Jobs
  /\ enqueued' = enqueued + 1
  /\ broken' = FALSE
  /\ IF MayDrain
     THEN LET queue == Append(waiting, enqueued') IN
          /\ waiting' = Tail(queue)
          /\ loops' = Append(loops, Printing(Head(queue)))
          /\ running' = TRUE
     ELSE waiting' = Append(waiting, enqueued') /\ UNCHANGED <<loops, running>>
  /\ UNCHANGED <<sends, told, escalated>>

\* The printer takes it, or an error says it did not, which may be wrong; then
\* it is tried again after a while.
Send(l) ==
  /\ loops[l].step = "send"
  /\ \/ /\ sends' = Append(sends, loops[l].job)
        /\ Goes(l, [loops[l] EXCEPT !.step = "printed"])
     \/ /\ Goes(l, IF loops[l].attempt < Attempts
                   THEN [loops[l] EXCEPT !.step = "sleep"] ELSE [loops[l] EXCEPT !.step = "escalate"])
        /\ sends' \in {sends, Append(sends, loops[l].job)}
  /\ UNCHANGED <<waiting, running, enqueued, told, escalated, broken>>

Wake(l) ==
  /\ loops[l].step = "sleep"
  /\ Goes(l, [loops[l] EXCEPT !.step = "send", !.attempt = @ + 1])
  /\ UNCHANGED <<waiting, running, enqueued, sends, told, escalated, broken>>

\* "Somebody is told": onFailure returns, or throws out of the loop, whose
\* `finally` lets the next enqueue begin another.
Escalate(l) ==
  /\ loops[l].step = "escalate"
  /\ escalated' = escalated \union {loops[l].job}
  /\ \/ Goes(l, [loops[l] EXCEPT !.step = "failed"]) /\ UNCHANGED <<running, broken>>
     \/ loops' = Drop(l) /\ running' = FALSE /\ broken' = TRUE
  /\ UNCHANGED <<waiting, enqueued, sends, told>>

\* onDone, "one job's callback is not another's", and the next job if there is one.
Done(l) ==
  /\ loops[l].step \in {"printed", "failed"}
  /\ told' = [told EXCEPT ![loops[l].job] = loops[l].step]
  /\ IF waiting = <<>>
     THEN loops' = Drop(l) /\ running' = FALSE /\ UNCHANGED waiting
     ELSE Goes(l, Printing(Head(waiting))) /\ waiting' = Tail(waiting) /\ UNCHANGED running
  /\ UNCHANGED <<enqueued, sends, escalated, broken>>

Next == Enqueue \/ \E l \in DOMAIN loops : Send(l) \/ Wake(l) \/ Escalate(l) \/ Done(l)

Spec == Init /\ [][Next]_queueVars

----------------------------------------------------------------------------
(* Tickets: a sequence of calls on one, each of them with its text. *)

\* encode(): ASCII and the table's accents stand for themselves.
InTable == {" ", "a", "b", "-", "accent"}
Encode(text) == [i \in DOMAIN text |-> IF text[i] \in InTable THEN text[i] ELSE "?"]

Split(text, at) ==
  FoldLeft(LAMBDA parts, char : IF char = at THEN Append(parts, <<>>)
                                ELSE [parts EXCEPT ![Len(parts)] = Append(@, char)],
           << <<>> >>, text)
IndentOf(paragraph) ==
  SubSeq(paragraph, 1, Min({i \in DOMAIN paragraph : paragraph[i] # " "} \union {Len(paragraph) + 1}) - 1)

\* One word more: on the line, or on the next, and broken where it is longer.
AddWord(so, word, indent, room) ==
  LET joined == IF so.current = <<>> THEN word ELSE so.current \o <<" ">> \o word
      fits == so.current = <<>> \/ Len(joined) <= room
      current == IF fits THEN joined ELSE word
      breaks == IF Len(current) > room THEN (Len(current) - 1) \div room ELSE 0
  IN  [lines |-> (IF fits THEN so.lines ELSE Append(so.lines, indent \o so.current))
                 \o [k \in 1..breaks |-> indent \o SubSeq(current, (k - 1) * room + 1, k * room)],
       current |-> SubSeq(current, breaks * room + 1, Len(current))]

\* An indent as wide as the paper is left out.
Filled(text, indent, room) ==
  LET done == FoldLeft(LAMBDA so, word : AddWord(so, word, indent, room),
                       [lines |-> <<>>, current |-> <<>>], Split(text, " "))
  IN  Append(done.lines, indent \o done.current)
WrapParagraph(paragraph, width) ==
  LET found == IndentOf(paragraph)
      text == SubSeq(paragraph, Len(found) + 1, Len(paragraph))
  IN  IF Len(found) < width THEN Filled(text, found, width - Len(found))
      ELSE IF text = <<>> THEN <<>> ELSE Filled(text, <<>>, width)

Flat(ss) == FoldLeft(LAMBDA a, b : a \o b, <<>>, ss)

Wrap(text, width) ==
  IF text = <<>> THEN <<>>
  ELSE LET paragraphs == Split(text, "\n")
       IN  Flat([i \in DOMAIN paragraphs |-> WrapParagraph(paragraphs[i], width)])

Feeds(lines) == Flat([i \in DOMAIN lines |-> Encode(lines[i]) \o <<"LF">>])

\* columns(): the label gives way to the value, until that is as wide as the paper.
Columns(left, right, width) ==
  LET room == Max({1, width - Len(right) - 1})
      label == IF Len(left) > room THEN SubSeq(left, 1, room - 1) \o <<"ellipsis">> ELSE left
      gap == width - Len(label) - Len(right)
  IN  [ok |-> gap >= 0, line |-> label \o [i \in 1..gap |-> " "] \o right]

LineOf(text, width) == IF text = <<>> THEN <<"LF">> ELSE Feeds(Wrap(text, width))

\* What a call adds: every style is set and cleared around its own text.
Part(call, width) ==
  CASE call.does = "line" -> LineOf(call.text, width)
    [] call.does = "heading" -> <<"big">> \o Feeds(Wrap(call.text, width \div 2)) \o <<"small">>
    [] call.does = "bold" -> <<"bold">> \o Feeds(Wrap(call.text, width)) \o <<"light">>
    [] call.does = "centred" -> <<"centre">> \o Feeds(Wrap(call.text, width)) \o <<"left">>
    [] call.does = "columns" -> LineOf(Columns(call.text, call.value, width).line, width)
    [] call.does = "rule" -> LineOf([i \in 1..width |-> "-"], width)
    [] call.does = "cut" -> <<"feed", "cut">>

Render(calls, width) == <<"initialise", "page">> \o Flat([i \in DOMAIN calls |-> Part(calls[i], width)])

\* The printer: it holds whatever it was last told (external).
Plain == [styles |-> {}, line |-> <<>>, printed |-> <<>>, beneath |-> 0]

Obeys(printer, byte) ==
  CASE byte = "initialise" -> [printer EXCEPT !.styles = {}, !.line = <<>>]
    [] byte \in {"big", "bold", "centre"} -> [printer EXCEPT !.styles = @ \union {byte}]
    [] byte = "small" -> [printer EXCEPT !.styles = @ \ {"big"}]
    [] byte = "light" -> [printer EXCEPT !.styles = @ \ {"bold"}]
    [] byte = "left" -> [printer EXCEPT !.styles = @ \ {"centre"}]
    [] byte = "LF" -> [printer EXCEPT !.printed = Append(@, [text |-> printer.line, styles |-> printer.styles]),
                                      !.line = <<>>, !.beneath = @ + 1]
    [] byte = "feed" -> [printer EXCEPT !.beneath = 0]
    [] byte \in {"page", "cut"} -> printer
    [] OTHER -> [printer EXCEPT !.line = Append(@, byte)]

Prints(printer, bytes) == FoldLeft(Obeys, printer, bytes)
Dark(text) == SelectSeq(text, LAMBDA char : char \notin {" ", "\n"})

----------------------------------------------------------------------------
\* Jobs reach the printer one at a time and in the order enqueued, if some of
\* them twice; each callback hears of its own job; somebody is told of whatever
\* neither printed nor is to be; and no job waits with nobody to print it, but
\* where telling that somebody threw: then the jobs behind it wait for the next.
OneTicketAtATime ==
  /\ Len(loops) <= 1
  /\ \A i, j \in DOMAIN sends : i < j => sends[i] <= sends[j]
  /\ \A j \in Numbers :
       /\ told[j] = "printed" => \E i \in DOMAIN sends : sends[i] = j
       /\ told[j] = "failed" => j \in escalated
       /\ j \notin escalated => \/ told[j] = "printed" \/ enqueued < j
                                \/ \E i \in DOMAIN waiting : waiting[i] = j
                                \/ \E l \in DOMAIN loops : loops[l].job = j
  /\ waiting # <<>> => loops # <<>> \/ broken

\* Of one call, its text and the lines it became.
LinesAreWhole(text, lines, room) ==
  /\ \A i \in DOMAIN lines : Len(lines[i].text) <= room /\ Cardinality(lines[i].styles) <= 1
  /\ Dark(Flat([i \in DOMAIN lines |-> lines[i].text])) = Encode(Dark(text))
  /\ Dark(text) = text /\ text # <<>> => Len(lines) = (Len(text) + room - 1) \div room
  /\ Len(Split(text, "\n")) = 1 =>
       /\ Len(IndentOf(text)) \in 1..(room - 1) =>
            \A i \in DOMAIN lines : IsPrefix(IndentOf(text), lines[i].text)
       /\ room >= Len(text) /\ Dark(text) # <<>> =>
            Len(lines) = 1 /\ lines[1].text = Encode(text)

\* "A printer holds whatever it was last told until something changes it": a
\* ticket prints as it was written whatever the last one left behind, and the
\* line after it is plain; no line is wider than the paper, or half of it where
\* letters are double; nothing that can be seen is lost, and the order is kept;
\* and the lines of one paragraph are under each other.
TicketIsWhole(call, width, before) ==
  \E bytes \in {Render(<<call, [does |-> "line", text |-> <<"b">>]>>, width)} :
  \E printed \in {Prints([Plain EXCEPT !.styles = before, !.line = <<"a">>], bytes).printed} :
     /\ printed = Prints(Plain, bytes).printed
     /\ Last(printed) = [text |-> <<"b">>, styles |-> {}]
     /\ LinesAreWhole(call.text, SubSeq(printed, 1, Len(printed) - 1),
                      IF call.does = "heading" THEN width \div 2 ELSE width)

\* A label and a value are on one line of the paper's width, the value whole and
\* at its end and the label as far as there is room for it, not touching while
\* there is; only a value as wide as the paper is refused.
ValueIsRead(label, value, width) ==
  \E columns \in {Columns(label, value, width)} :
     /\ columns.ok <=> Len(value) + (IF label = <<>> THEN 0 ELSE 1) <= width
     /\ columns.ok /\ Dark(label \o value) # <<>> =>
          /\ Wrap(columns.line, width) = <<columns.line>> /\ Len(columns.line) = width
          /\ IsSuffix(value, columns.line)
          /\ Len(label) + Len(value) < width => IsPrefix(label, columns.line)
          /\ Len(value) + 1 < width => columns.line[width - Len(value)] = " "
=============================================================================
