------------------------------- MODULE Archive -------------------------------
(***************************************************************************)
(* packages/files, what is kept and handed on: the key an object is stored *)
(* under (storage/keys.ts), its lifecycle in the bucket (s3.storage.ts),   *)
(* the seal on its bytes (crypto/envelope.ts), the ZIP it leaves in and is *)
(* read back from (zip.ts), and the cards with a code on them that leave   *)
(* on paper (print/cards.ts and qr.ts).                                    *)
(*                                                                         *)
(* Bytes are counted where a format says where things are, and stand for   *)
(* themselves elsewhere: deflating, checksums and AES-GCM are external.    *)
(***************************************************************************)
EXTENDS Integers, Sequences, FiniteSets, SequencesExt, FiniteSetsExt

Refused == [refused |-> TRUE]
Answer(value) == [refused |-> FALSE, value |-> value]

----------------------------------------------------------------------------
(* Keys: a path is the sequence of its segments *)

\* SEGMENT: an id, and never a path.
IsSegment(segment) == segment \notin {"", ".", "..", "a b"}

ObjectKey(parts) ==
  IF /\ IsSegment(parts.tenantId) /\ IsSegment(parts.fileId)
     /\ Len(parts.scope) \in 1..3 /\ \A i \in DOMAIN parts.scope : IsSegment(parts.scope[i])
  THEN Answer([path |-> <<"tenants", parts.tenantId>> \o parts.scope \o <<parts.fileId>>,
               extension |-> parts.extension])
  ELSE Refused

TenantOf(key) == IF Len(key.path) > 2 /\ key.path[1] = "tenants" THEN key.path[2] ELSE ""
AssertTenantOwns(tenantId, key) == TenantOf(key) = tenantId

\* applyLifecycle(): the rules are replaced, all of them, and none is a removal.
ApplyLifecycle(bucket, rules) == rules
DescribeLifecycle(bucket) == {[rule EXCEPT !.prefix = IF @ = "none" THEN "" ELSE @] : rule \in bucket}

----------------------------------------------------------------------------
(* Seals *)

\* encrypt(): no aad and an empty one are the same. wrap() is a seal with none,
\* and opens to a key or to nothing.
Encrypt(dataKey, text, aad) == [key |-> dataKey, aad |-> aad, text |-> text, whole |-> TRUE]
Decrypt(dataKey, payload, aad) ==
  IF payload.whole /\ payload.key = dataKey /\ payload.aad = aad THEN Answer(payload.text) ELSE Refused
Wrap(master, dataKey) == Encrypt(master, dataKey, "")
Unwrap(master, wrapped, keys) ==
  IF wrapped.text \in keys THEN Decrypt(master, wrapped, "") ELSE Refused
OpenDataKey(master, envelope, keys) == Unwrap(master, envelope.wrappedKey, keys)

----------------------------------------------------------------------------
(* ZIP *)

LocalHeader == 30
CentralHeader == 46

\* normalisePath(): nothing that leaves the directory it is extracted into.
NormalisePath(path) == SelectSeq(path, LAMBDA segment : segment \notin {"", ".", ".."})

\* What deflate makes of it (external): shorter where it repeats itself.
Deflated(content) == IF Len(content) > 2 /\ Cardinality(ToSet(content)) = 1 THEN 2 ELSE Len(content) + 1

\* dosTimestamp(): seven bits of years from 1980, and those before are its first day.
DosYear(year) == IF year < 1980 THEN 0 ELSE year - 1980

Method(content, options) == IF ~options.store /\ Deflated(content) < Len(content) THEN 8 ELSE 0
BodySize(content, method) == IF method = 8 THEN Deflated(content) ELSE Len(content)

\* What is written of one entry: its local header, its bytes and its line of the
\* directory, with where the header is.
Written(entry, options, offset) ==
  LET name == NormalisePath(entry.path)
      method == Method(entry.content, options)
      size == BodySize(entry.content, method)
  IN  [local |-> [at |-> offset, nameLength |-> Len(name)],
       body |-> [at |-> offset + LocalHeader + Len(name), size |-> size, method |-> method, content |-> entry.content],
       line |-> [name |-> name, method |-> method, crc |-> entry.content, compressedSize |-> size,
                 size |-> Len(entry.content), flags |-> 0, offset |-> offset, year |-> DosYear(entry.year)],
       end |-> offset + LocalHeader + Len(name) + size]

\* createZip(): one file to a path, and no further than an offset can say.
CreateZip(entries, options, ceiling) ==
  LET Add(done, entry) ==
        LET one == Written(entry, options, done.offset) IN
        [locals |-> done.locals \union {one.local}, bodies |-> done.bodies \union {one.body},
         lines |-> Append(done.lines, one.line), offset |-> one.end,
         refused |-> \/ done.refused \/ one.end > ceiling \/ one.line.name = <<>> \/ one.line.year > 127
                     \/ \E i \in DOMAIN done.lines : done.lines[i].name = one.line.name]
      all == FoldLeft(Add, [locals |-> {}, bodies |-> {}, lines |-> <<>>, offset |-> 0, refused |-> FALSE], entries)
  IN  IF all.refused \/ entries = <<>> THEN Refused
      ELSE Answer([locals |-> all.locals, bodies |-> all.bodies, lines |-> all.lines,
                   end |-> [count |-> Len(entries), disks |-> 0]])

\* The bytes from one place to another, as far as they are those of an entry.
Stored(archive, at, size) == {body \in archive.bodies : body.at = at /\ body.size = size}

\* What the bytes are under a method: inflating what was not deflated fails, and
\* what was is not its content as it stands.
Inflates(body, method) == body.method = method

Sound(line, content) == Len(content) = line.size /\ content = line.crc

\* readZip(): anything it does not understand is refused rather than skipped.
ReadLine(archive, line) ==
  LET locals == {one \in archive.locals : one.at = line.offset}
      bodies == UNION {Stored(archive, one.at + LocalHeader + one.nameLength, line.compressedSize) : one \in locals}
      sound == {body \in bodies : Inflates(body, line.method) /\ Sound(line, body.content)}
  IN  IF line.flags # 0 \/ sound = {} THEN Refused
      ELSE Answer((CHOOSE body \in sound : TRUE).content)
ReadZip(archive) ==
  LET read == [i \in 1..archive.end.count |->
                 IF i > Len(archive.lines) THEN Refused ELSE ReadLine(archive, archive.lines[i])]
      names == {archive.lines[i].name : i \in 1..Min({archive.end.count, Len(archive.lines)})}
  IN  IF \/ archive.end.disks # 0
         \/ \E i \in DOMAIN read : read[i].refused
         \/ Cardinality(names) # archive.end.count
      THEN Refused
      ELSE Answer([name \in names |->
             read[CHOOSE i \in DOMAIN read : archive.lines[i].name = name].value])

----------------------------------------------------------------------------
(* Cards, in tenths of a point from the left and the foot of a sheet.  A text *)
(* is its width in tenths of its size, 0 where there is none; a picture is    *)
(* its width and its height, 0 where there is none.                           *)

A4 == [x |-> 0, y |-> 0, width |-> 5952, height |-> 8418, least |-> FALSE]
Lesser(a, b) == IF a <= b THEN a ELSE b
Greater(a, b) == IF a >= b THEN a ELSE b

\* fit(): never under four points.
Fit(em, width, ceiling) ==
  LET measured == (ceiling * em) \div 10
  IN  IF measured <= width THEN ceiling ELSE Greater(40, (ceiling * width) \div measured)

TextBox(em, size, gap) == [width |-> (size * em) \div 10, height |-> size, gap |-> gap, least |-> size = 40, says |-> em]
PictureBox(width, height, gap) == [width |-> width, height |-> height, gap |-> gap, least |-> FALSE, says |-> 0]
Padding(panel) == (8 * Lesser(panel.width, panel.height)) \div 100
Inner(panel) == panel.width - 2 * Padding(panel)
If(there, box) == IF there = 0 THEN <<>> ELSE <<box>>

\* What claims its space from the top, and what claims it from the bottom: the
\* detail lines as a whole are kept further from what is above them.
Logo(card, inner, padding, tall) ==
  LET broad == (card.logo[1] * tall) \div Greater(1, card.logo[2])
  IN  IF broad > inner THEN PictureBox(inner, (tall * inner) \div broad, padding \div 2)
      ELSE PictureBox(broad, tall, padding \div 2)
Plan(card, padding, band) ==
  PictureBox((band * card.plan[1]) \div Greater(1, card.plan[2]), band, padding \div 2)
Above(card, height, inner, padding) ==
  If(card.logo[1], Logo(card, inner, padding, Lesser((9 * height) \div 100, card.logo[2])))
    \o If(card.heading,
          TextBox(card.heading, Fit(card.heading, inner, (18 * height) \div 100), (6 * padding) \div 10))
    \o If(card.plan[1],
          Plan(card, padding, Lesser((16 * height) \div 100, (inner * card.plan[2]) \div Greater(1, card.plan[1]))))

Beneath(card, height, inner, padding) ==
  LET text(em, ceiling, gap) == TextBox(em, Fit(em, inner, (ceiling * height) \div 1000), gap)
      lines == Reverse(card.lines)
      after(i) == IF i < Len(lines) THEN padding \div 4 ELSE (6 * padding) \div 10
  IN  If(card.footnote, text(card.footnote, 45, (6 * padding) \div 10))
        \o [i \in DOMAIN lines |-> text(lines[i], 50, after(i))]
        \o If(card.caption, text(card.caption, 70, (8 * padding) \div 10))

Claimed(boxes) == FoldLeft(LAMBDA sum, box : sum + box.height + box.gap, 0, boxes)

\* The code has the largest square in what is left, and where nothing is left
\* there is no code.
Stacked(panel, inner, ceiling, floor, above, beneath) ==
  LET left == Greater(0, ceiling - Claimed(above) - floor - Claimed(beneath))
      side == Lesser(inner, left)
      at(box, y) == [x |-> panel.x + (panel.width - box.width) \div 2, y |-> y,
                     width |-> box.width, height |-> box.height, least |-> box.least, says |-> box.says]
      hung(i) == at(above[i], ceiling - Claimed(SubSeq(above, 1, i - 1)) - above[i].height)
      stood(i) == at(beneath[i], floor + Claimed(SubSeq(beneath, 1, i - 1)))
  IN  [boxes |-> [i \in DOMAIN above |-> hung(i)] \o [i \in DOMAIN beneath |-> stood(i)],
       code |-> If(side, at(PictureBox(side, side, 0), floor + Claimed(beneath) + (left - side) \div 2))]

DrawCard(card, panel) ==
  LET padding == Padding(panel)
      inner == Inner(panel)
  IN  Stacked(panel, inner, panel.y + panel.height - padding, panel.y + padding,
              Above(card, panel.height, inner, padding), Beneath(card, panel.height, inner, padding))

\* Half a turn about the middle of a panel.
Turned(panel, box) ==
  [box EXCEPT !.x = 2 * panel.x + panel.width - box.x - box.width,
              !.y = 2 * panel.y + panel.height - box.y - box.height]
TurnedAll(panel, boxes) == [i \in DOMAIN boxes |-> Turned(panel, boxes[i])]

\* The same card on both halves, the upper one the other way up.
Over(panel, drawn) == [boxes |-> TurnedAll(panel, drawn.boxes), code |-> TurnedAll(panel, drawn.code)]
DrawTent(card) ==
  LET lower == [A4 EXCEPT !.height = @ \div 2]
      upper == [lower EXCEPT !.y = A4.height \div 2]
  IN  <<[card |-> card, panel |-> lower, drawn |-> DrawCard(card, lower)],
        [card |-> card, panel |-> upper, drawn |-> Over(upper, DrawCard(card, upper))]>>

DrawCut(cards, rows) ==
  LET height == A4.height \div rows
      panel(i) == [A4 EXCEPT !.y = A4.height - height * i, !.height = height]
  IN  [i \in DOMAIN cards |-> [card |-> cards[i], panel |-> panel(i), drawn |-> DrawCard(cards[i], panel(i))]]

Chunk(items, size) ==
  [g \in 1..((Len(items) + size - 1) \div size) |->
     SubSeq(items, (g - 1) * size + 1, Lesser(g * size, Len(items)))]

\* printableCards(): one sheet after another.
PrintableCards(cards, format) ==
  LET rows == IF format = "a5" THEN 2 ELSE 1
      groups == Chunk(cards, rows)
  IN  IF cards = <<>> THEN Refused
      ELSE Answer([g \in DOMAIN groups |->
                     IF format = "tent" THEN DrawTent(groups[g][1]) ELSE DrawCut(groups[g], rows)])

\* qrRuns(): along a row, and one past its end.
RowRuns(dark, size, y) ==
  LET step(so, x) ==
        IF <<x, y>> \in dark THEN [so EXCEPT !.start = IF @ = -1 THEN x ELSE @]
        ELSE IF so.start = -1 THEN so
        ELSE [start |-> -1, runs |-> Append(so.runs, [x |-> so.start, y |-> y, length |-> x - so.start])]
  IN  FoldLeft(step, [start |-> -1, runs |-> <<>>], [x \in 1..(size + 1) |-> x - 1]).runs
QrRuns(dark, size) == FlattenSeq([y \in 1..size |-> RowRuns(dark, size, y - 1)])

\* drawQr(): in modules from the foot and the left of the square, margin and all.
Quiet == 4
DrawQr(dark, size) ==
  LET runs == QrRuns(dark, size)
  IN  [i \in DOMAIN runs |-> [x |-> Quiet + runs[i].x, y |-> Quiet + size - runs[i].y - 1, length |-> runs[i].length]]

----------------------------------------------------------------------------
\* One tenant's key is nobody else's, no two files share one, and a rule said of
\* a bucket is the rule it then tells.
KeysAreApart(one, other, rules) ==
  LET a == ObjectKey(one)
      b == ObjectKey(other)
  IN  /\ ~a.refused => \A tenant \in {one.tenantId, other.tenantId} :
             AssertTenantOwns(tenant, a.value) <=> tenant = one.tenantId
      /\ ~a.refused /\ ~b.refused => (a.value = b.value <=> one = other)
      /\ \A rule \in rules : \E told \in DescribeLifecycle(ApplyLifecycle({}, rules)) :
            told.days = rule.days /\ (rule.prefix # "none" => told.prefix = rule.prefix)

\* What was sealed is opened with its own key and for its own object, and with
\* no other; and where the wrapped key is gone, by nobody.
SealIsItsOwn(sealed, opened, keys, masters) ==
  LET payload == Encrypt(sealed.key, "text", sealed.aad)
      envelope == [wrappedKey |-> Wrap(sealed.master, sealed.key), keyId |-> sealed.master]
      reached == {key \in keys : OpenDataKey(opened.master, envelope, keys) = Answer(key)}
  IN  /\ (\E key \in reached : Decrypt(key, payload, opened.aad) = Answer("text"))
           <=> opened.master = sealed.master /\ opened.aad = sealed.aad
      /\ \A key \in keys \ {sealed.key} : Decrypt(key, payload, sealed.aad).refused
      /\ \A master \in masters : Decrypt(master, payload, sealed.aad).refused
      /\ Unwrap(sealed.master, payload, keys).refused
      /\ Decrypt(sealed.key, [payload EXCEPT !.whole = FALSE], sealed.aad).refused

EndOf(archive) == Max({body.at + body.size : body \in archive.bodies})

Line(archive, field, value) == [archive EXCEPT !.lines[1][field] = value]
Changed(archive, change) ==
  CASE change.what \in {"crc", "compressedSize", "size", "flags", "offset", "method"} ->
         Line(archive, change.what, change.to)
    [] change.what = "body" -> [archive EXCEPT !.bodies =
         {IF body.at = LocalHeader + Len(archive.lines[1].name)
          THEN [body EXCEPT !.content = change.to] ELSE body : body \in @}]
    [] change.what = "local" -> [archive EXCEPT !.locals = {one \in @ : one.at # change.to}]
    [] OTHER -> [archive EXCEPT !.end[change.what] = change.to]

IsWhole(archive, entries, names, read) ==
  /\ ~read.refused /\ DOMAIN read.value = names
  /\ \A i \in DOMAIN entries : read.value[NormalisePath(entries[i].path)] = entries[i].content
  /\ \A name \in names : \A i \in DOMAIN name : name[i] \notin {"", ".", ".."}
  /\ \A body \in archive.bodies : body.size <= Len(body.content)
SaysNoOther(read, reread, change) ==
  ~reread.refused =>
    /\ \A name \in DOMAIN reread.value : reread.value[name] = read.value[name]
    /\ DOMAIN reread.value # DOMAIN read.value => change.what = "count"

\* Every archive written is read back, each file under the path it was safe to
\* extract to, none lost, none twice, and never longer than its bytes; and one
\* that was changed in one place since is refused, or says the same, or is short
\* of its last lines by a count that says so: the count is believed.
ZipIsReadBack(entries, options, ceiling, change) ==
  \E written \in {CreateZip(entries, options, ceiling)}, unbounded \in {CreateZip(entries, options, 1000)},
     names \in {{NormalisePath(entries[i].path) : i \in DOMAIN entries}} :
     /\ written.refused <=> \/ entries = <<>> \/ <<>> \in names \/ Cardinality(names) # Len(entries)
                            \/ \E i \in DOMAIN entries : entries[i].year > 2107
                            \/ ~unbounded.refused /\ EndOf(unbounded.value) > ceiling
     /\ ~written.refused =>
          \E read \in {ReadZip(written.value)} :
             /\ IsWhole(written.value, entries, names, read)
             /\ SaysNoOther(read, ReadZip(Changed(written.value, change)), change)

Within(box, panel) ==
  /\ box.y >= panel.y /\ box.y + box.height <= panel.y + panel.height
  /\ box.least \/ (box.x >= panel.x /\ box.x + box.width <= panel.x + panel.width)
Apart(a, b) ==
  \/ a.x + a.width <= b.x \/ b.x + b.width <= a.x \/ a.y + a.height <= b.y \/ b.y + b.height <= a.y

FromTheTop(boxes) == SortSeq(boxes, LAMBDA a, b : a.y > b.y)
Said(texts) == SelectSeq([i \in DOMAIN texts |-> texts[i].says], LAMBDA em : em # 0)
Told(card) == SelectSeq(<<card.heading, card.caption>> \o card.lines \o <<card.footnote>>, LAMBDA em : em # 0)

\* A face: a code is clear of every word and picture, and they of each other and
\* of the edge.
Clear(all, panel) ==
  /\ \A b \in DOMAIN all : Within(all[b], panel)
  /\ \A a, b \in DOMAIN all : a # b => Apart(all[a], all[b])

SheetIsWhole(sheet) ==
  /\ \A i, j \in DOMAIN sheet :
       /\ Within(sheet[i].panel, A4)
       /\ i # j => Apart(sheet[i].panel, sheet[j].panel)
  /\ \A i \in DOMAIN sheet :
       sheet[i].drawn.code # <<>> => Clear(sheet[i].drawn.boxes \o sheet[i].drawn.code, sheet[i].panel)
TentIsFolded(sheet) == Len(sheet) = 2 /\ sheet[2].drawn = Over(A4, sheet[1].drawn)

\* Every card is on paper once, in order, on its own part of a sheet, and is
\* read from its heading down to its footnote; where a code is drawn it is clear of
\* every word and picture, and they of each other and of the edge, but for a
\* word already at its least; and what is folded reads the same from either side.
CardsArePrinted(cards, format) ==
  \E printed \in {PrintableCards(cards, format)} :
     /\ printed.refused <=> cards = <<>>
     /\ ~printed.refused =>
          \E sheets \in {printed.value} :
          \E faces \in {FlattenSeq([g \in DOMAIN sheets |-> IF format = "tent" THEN <<sheets[g][1]>> ELSE sheets[g]])} :
             /\ [i \in DOMAIN faces |-> faces[i].card] = cards
             /\ \A i \in DOMAIN faces : Said(FromTheTop(faces[i].drawn.boxes)) = Told(cards[i])
             /\ Len(sheets) = IF format = "a5" THEN (Len(cards) + 1) \div 2 ELSE Len(cards)
             /\ \A g \in DOMAIN sheets : SheetIsWhole(sheets[g]) /\ (format = "tent" => TentIsFolded(sheets[g]))

\* What is drawn of a code is its dark modules, each once and in as few pieces
\* as there are, the first row uppermost, and nothing in the margin.
CodeIsDrawn(dark, size) ==
  LET runs == DrawQr(dark, size)
      covers(i) == (runs[i].x..(runs[i].x + runs[i].length - 1)) \X {runs[i].y}
  IN  /\ UNION {covers(i) : i \in DOMAIN runs} = {<<Quiet + d[1], Quiet + size - 1 - d[2]>> : d \in dark}
      /\ \A i, j \in DOMAIN runs : i # j =>
           covers(i) \intersect {<<m[1] + k, m[2]>> : m \in covers(j), k \in {-1, 0, 1}} = {}
      /\ \A i \in DOMAIN runs : covers(i) \subseteq (Quiet..(Quiet + size - 1)) \X (Quiet..(Quiet + size - 1))
=============================================================================
