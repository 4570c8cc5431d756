------------------------------- MODULE Comms -------------------------------
(***************************************************************************)
(* comms.service.ts for one address of one business: the suppressions that *)
(* say it is not to be written to, the messages sent to it through ports   *)
(* that may divert to another channel, what the provider says of them      *)
(* later, the mail received from it, and its erasure from the log.  Then    *)
(* what has no state: the addresses mail comes to (address.ts), what is     *)
(* read of it (mime.ts), what a port answers (outbound/), what the provider *)
(* signs (receipts/), and the words that ask to be left alone.              *)
(***************************************************************************)
EXTENDS Integers, Sequences, FiniteSets, SequencesExt, TLC

CONSTANTS
  Clerks,          \* calls that may be under way at once
  Channels,
  Fallbacks,       \* the channel a port may divert to, by channel
  Inbound,         \* provider ids of mail received
  Refusals,        \* REFUSALS_BEFORE_SUPPRESSING
  MaxCalls,        \* bound on the calls ever begun
  NoId             \* of a message no provider took

VARIABLES
  suppressed,      \* the row of mortar_suppressions of each channel
  rows,            \* how many such rows were made: each has an id of its own
  log,             \* mortar_message_log, the messages sent
  taken,           \* ids of the messages the provider took
  received,        \* and its rows of the mail received
  attached,        \* how often each was handed on as new since its row last went
  clerk,           \* where each call is
  calls,           \* how many were begun
  asked            \* channels on which they asked us to stop, undisturbed

commsVars == <<suppressed, rows, log, taken, received, attached, clerk, calls, asked>>

NoRow == [id |-> 0, reason |-> "none", failures |-> 0, expires |-> "past"]
Suppression == [id: Nat, reason: {"none", "refused", "unsubscribed"},
                failures: Nat, expires: {"past", "held", "never"}]
LogRow == [id: 1..MaxCalls, message: 1..MaxCalls \union {NoId}, channel: Channels,
           state: {"accepted", "delivered", "bounced", "failed", "discarded"},
           address: BOOLEAN, detail: BOOLEAN]
Idle == [step |-> "idle"]

TypeOK ==
  /\ suppressed \in [Channels -> Suppression]
  /\ \A ch \in Channels : suppressed[ch].id <= rows
  /\ log \subseteq LogRow
  /\ {row.message : row \in log} \subseteq taken \union {NoId}
  /\ received \subseteq [id: 1..MaxCalls, message: Inbound]
  /\ attached \in [Inbound -> 0..MaxCalls]
  /\ DOMAIN clerk = Clerks /\ calls \in 0..MaxCalls
  /\ asked \subseteq Channels

Init ==
  /\ suppressed = [ch \in Channels |-> NoRow] /\ rows = 0
  /\ log = {} /\ taken = {}
  /\ received = {} /\ attached = [m \in Inbound |-> 0]
  /\ clerk = [c \in Clerks |-> Idle] /\ calls = 0
  /\ asked = {}

At(c, step) == clerk[c].step = step
Goes(c, to) == clerk' = [clerk EXCEPT ![c] = to] /\ UNCHANGED calls
Begins(c, to) ==
  /\ At(c, "idle") /\ calls < MaxCalls
  /\ calls' = calls + 1
  /\ clerk' = [clerk EXCEPT ![c] = to @@ [id |-> calls + 1]]

----------------------------------------------------------------------------
(* Sending *)

\* suppressionFor(): an expired refusal is not one.
Stops(ch) == suppressed[ch].id # 0 /\ suppressed[ch].expires # "past"

Diverts(ch) == IF ch \in DOMAIN Fallbacks THEN {Fallbacks[ch]} ELSE {}

\* Mutant of Asks: the channel asked for alone.
AsksOne(ch) == {ch}

\* The channels a send asks after: the one asked for, and the port's other.
Asks(ch) == {ch} \union Diverts(ch)

\* send() looks them up one after the other.
Send(c, ch) ==
  /\ Begins(c, [step |-> "checking", channel |-> ch, left |-> Asks(ch), asked |-> asked])
  /\ UNCHANGED <<suppressed, rows, log, taken, received, attached, asked>>

Logged(c, ch, message, state) ==
  log' = log \union {[id |-> clerk[c].id, message |-> message, channel |-> ch, state |-> state,
                      address |-> TRUE, detail |-> state \in {"failed", "discarded"}]}

Check(c, ch) ==
  /\ At(c, "checking") /\ ch \in clerk[c].left
  /\ ch = clerk[c].channel \/ clerk[c].channel \notin clerk[c].left
  /\ IF Stops(ch)
     THEN Logged(c, clerk[c].channel, NoId, "discarded") /\ Goes(c, Idle)
     ELSE /\ Goes(c, [clerk[c] EXCEPT !.left = @ \ {ch},
                                      !.step = IF clerk[c].left = {ch} THEN "sending" ELSE "checking"])
          /\ UNCHANGED log
  /\ UNCHANGED <<suppressed, rows, taken, received, attached, asked>>

\* The port carries it on either channel.
Carry(c, ch) ==
  /\ At(c, "sending") /\ ch \in {clerk[c].channel} \union Diverts(clerk[c].channel)
  /\ taken' = taken \union {clerk[c].id}
  /\ Goes(c, [clerk[c] EXCEPT !.step = "logging", !.channel = ch])
  /\ UNCHANGED <<suppressed, rows, log, received, attached, asked>>

\* The row is written after the provider has answered.
LogAccepted(c) ==
  /\ At(c, "logging")
  /\ Logged(c, clerk[c].channel, clerk[c].id, "accepted")
  /\ Goes(c, Idle)
  /\ UNCHANGED <<suppressed, rows, taken, received, attached, asked>>

\* The port refuses: a failed row, which may repeat the address in its detail.
\* A provider that answers too late may have taken the message.
LogFailed(c) ==
  /\ At(c, "sending")
  /\ taken' \in {taken, taken \union {clerk[c].id}}
  /\ Logged(c, clerk[c].channel, NoId, "failed")
  /\ Goes(c, Idle)
  /\ UNCHANGED <<suppressed, rows, received, attached, asked>>

\* settle(): a receipt for a message with no row, or not yet, is ignored.
Settle(row, state) ==
  /\ row.message # NoId
  /\ log' = (log \ {row}) \union {[row EXCEPT !.state = state, !.detail = state # "delivered"]}
  /\ UNCHANGED <<suppressed, rows, taken, received, attached, clerk, calls, asked>>

\* forget(): the rows stay and say no more to whom.
Forget ==
  /\ log' = {IF row.address THEN [row EXCEPT !.address = FALSE, !.detail = FALSE] ELSE row : row \in log}
  /\ UNCHANGED <<suppressed, rows, taken, received, attached, clerk, calls, asked>>

Old(row, age) == row.id <= age
Attachments(kept) == [m \in Inbound |-> IF m \in {row.message : row \in kept} THEN attached[m] ELSE 0]

\* purge(): the oldest go, "whoever they belong to" and of either direction.
Purge(age) ==
  /\ log' = {row \in log : ~Old(row, age)}
  /\ received' = {row \in received : ~Old(row, age)}
  /\ attached' = Attachments(received')
  /\ UNCHANGED <<suppressed, rows, taken, clerk, calls, asked>>

----------------------------------------------------------------------------
(* Receiving *)

\* receive() looks for the id, and inserts under a unique index: the second of
\* two that found nothing hears an error.
Seen(message) == \E row \in received : row.message = message

Receive(c, message) ==
  /\ Begins(c, [step |-> IF Seen(message) THEN "duplicate" ELSE "receiving", message |-> message])
  /\ UNCHANGED <<suppressed, rows, log, taken, received, attached, asked>>

Insert(c) ==
  /\ At(c, "receiving") /\ ~Seen(clerk[c].message)
  /\ received' = received \union {[id |-> clerk[c].id, message |-> clerk[c].message]}
  /\ attached' = [attached EXCEPT ![clerk[c].message] = @ + 1]
  /\ Goes(c, Idle)
  /\ UNCHANGED <<suppressed, rows, log, taken, asked>>

----------------------------------------------------------------------------
(* Addresses that have said no *)

\* recordRefusal() and unsubscribe() read the row.
Look(c, step, ch) ==
  /\ Begins(c, [step |-> step, channel |-> ch, found |-> suppressed[ch]])
  /\ UNCHANGED <<suppressed, rows, log, taken, received, attached, asked>>

\* An insert meets the unique index; an update finds its row or nothing, which
\* is an error.
Insertable(c) == clerk[c].found.id = 0 /\ suppressed[clerk[c].channel].id = 0
Updatable(c) == clerk[c].found.id # 0 /\ suppressed[clerk[c].channel].id = clerk[c].found.id

MakeRow(c, row) ==
  /\ suppressed' = [suppressed EXCEPT ![clerk[c].channel] = row]
  /\ rows' = rows + 1

WriteRefusal(c) ==
  /\ At(c, "refusing")
  /\ \/ Insertable(c) /\ MakeRow(c, [id |-> rows + 1, reason |-> "refused", failures |-> 1, expires |-> "past"])
     \/ /\ Updatable(c) /\ clerk[c].found.reason = "refused"
        /\ LET failures == clerk[c].found.failures + 1 IN
           suppressed' = [suppressed EXCEPT ![clerk[c].channel] =
             [@ EXCEPT !.failures = failures, !.expires = IF failures >= Refusals THEN "held" ELSE "past"]]
        /\ UNCHANGED rows
  /\ Goes(c, Idle)
  /\ UNCHANGED <<log, taken, received, attached, asked>>

\* A refusal that has read the row before they ask writes over the answer.
Disturbed(ch) ==
  \E c \in Clerks : At(c, "refusing") /\ clerk[c].channel = ch /\ clerk[c].found.reason = "refused"

WriteUnsubscribe(c) ==
  /\ At(c, "unsubscribing")
  /\ \/ Insertable(c) /\ MakeRow(c, [id |-> rows + 1, reason |-> "unsubscribed", failures |-> 0, expires |-> "never"])
     \/ /\ Updatable(c)
        /\ suppressed' = [suppressed EXCEPT ![clerk[c].channel] =
             [@ EXCEPT !.reason = "unsubscribed", !.expires = "never"]]
        /\ UNCHANGED rows
  /\ asked' = IF Disturbed(clerk[c].channel) THEN asked ELSE asked \union {clerk[c].channel}
  /\ Goes(c, Idle)
  /\ UNCHANGED <<log, taken, received, attached>>

AllowAgain(ch) ==
  /\ suppressed' = [suppressed EXCEPT ![ch] = NoRow]
  /\ asked' = asked \ {ch}
  /\ clerk' = [c \in Clerks |-> IF At(c, "checking") \/ At(c, "sending")
                               THEN [clerk[c] EXCEPT !.asked = @ \ {ch}] ELSE clerk[c]]
  /\ UNCHANGED <<rows, log, taken, received, attached, calls>>

\* A hold of ninety days ends.
Lapse(ch) ==
  /\ suppressed[ch].expires = "held"
  /\ suppressed' = [suppressed EXCEPT ![ch].expires = "past"]
  /\ UNCHANGED <<rows, log, taken, received, attached, clerk, calls, asked>>

\* A call ends with nothing more to write, fails, or dies with its process.
Stop(c) ==
  /\ ~At(c, "idle")
  /\ Goes(c, Idle)
  /\ UNCHANGED <<suppressed, rows, log, taken, received, attached, asked>>

Call(c) ==
  \/ \E ch \in Channels : \/ Send(c, ch) \/ Check(c, ch) \/ Carry(c, ch)
                          \/ Look(c, "refusing", ch) \/ Look(c, "unsubscribing", ch)
  \/ LogAccepted(c) \/ LogFailed(c) \/ WriteRefusal(c) \/ WriteUnsubscribe(c)
  \/ \E message \in Inbound : Receive(c, message)
  \/ Insert(c) \/ Stop(c)

Next ==
  \/ \E c \in Clerks : Call(c)
  \/ \E row \in log, state \in {"delivered", "bounced"} : Settle(row, state)
  \/ Forget
  \/ \E age \in 1..MaxCalls : Purge(age)
  \/ \E ch \in Channels : AllowAgain(ch) \/ Lapse(ch)

Spec == Init /\ [][Next]_commsVars

----------------------------------------------------------------------------
(* Addresses mail comes to: texts are sequences of characters, and a tag is *)
(* what only its secret can make of the rest                                *)

Lower(text) ==
  LET low == [A |-> "a", B |-> "b"] IN
  [i \in DOMAIN text |-> IF text[i] \in DOMAIN low THEN low[text[i]] ELSE text[i]]

\* "[^a-z0-9-]" goes; nothing left is refused.
Normalise(subject) == SelectSeq(Lower(subject), LAMBDA ch : ch \in {"a", "b", "1", "-"})

Tag(box, subject) == [secret |-> box.secret, prefix |-> box.prefix, domain |-> box.domain, subject |-> subject]

Mint(box, subject) ==
  [prefix |-> box.prefix, subject |-> Normalise(subject), tag |-> Tag(box, Normalise(subject)),
   domain |-> box.domain]

\* extractAddress(): in angle brackets or bare, and lower case. A tag is hex:
\* it has no case to lose.
Extract(mailbox) ==
  [mailbox EXCEPT !.prefix = Lower(@), !.subject = Lower(@), !.domain = Lower(@)]

Parse(box, mailbox) ==
  LET cleaned == Extract(mailbox) IN
  IF /\ cleaned.domain = box.domain /\ cleaned.prefix = box.prefix
     /\ cleaned.subject # <<>> /\ cleaned.tag = Tag(box, cleaned.subject)
  THEN {cleaned.subject} ELSE {}

\* find(): "the first address that verifies is the one the message is about".
Find(box, recipients) ==
  LET good == {i \in DOMAIN recipients : Parse(box, recipients[i]) # {}} IN
  UNION {Parse(box, recipients[i]) : i \in {i \in good : \A j \in good : i <= j}}

----------------------------------------------------------------------------
(* What is read of a mail: it is its lines.  A head is all a part says of   *)
(* itself, a blank line ends it, and a boundary is a sequence of characters *)

\* splitMultipart(): a marker is any line that begins with the boundary, and the
\* rest of such a line is the first of what follows it. What is between "--b"
\* and the next of them is a part, up to "--b--".
Where(text, Test(_)) == SelectSeq([i \in DOMAIN text |-> i], Test)
Markers(body, boundary) ==
  Where(body, LAMBDA i : body[i].kind \in {"open", "close"} /\ IsPrefix(boundary, body[i].of))
Closes(body, boundary, i) == body[i].kind = "close" /\ body[i].of = boundary

SplitMultipart(body, boundary) ==
  LET at == Markers(body, boundary)
      ends == {n \in DOMAIN at : Closes(body, boundary, at[n])}
      last == IF ends = {} THEN Len(at) ELSE (CHOOSE n \in ends : \A m \in ends : n <= m) - 1
      Until(n) == IF n = Len(at) THEN Len(body) ELSE at[n + 1] - 1
  IN  [n \in 1..last |-> SubSeq(body, at[n] + 1, Until(n))]

\* splitPart() and parseHeaders(): what comes before the first blank line, of
\* which a line that is no header is passed over.
Unsaid == [kind |-> "head", type |-> "text", boundary |-> <<>>, named |-> FALSE, attached |-> FALSE]
SplitPart(lines) ==
  LET blanks == {i \in DOMAIN lines : lines[i].kind = "blank"}
      end == IF blanks = {} THEN Len(lines) + 1 ELSE CHOOSE i \in blanks : \A j \in blanks : i <= j
      heads == SelectSeq(SubSeq(lines, 1, end - 1), LAMBDA line : line.kind = "head")
  IN  [head |-> IF heads = <<>> THEN Unsaid ELSE Last(heads), body |-> SubSeq(lines, end + 1, Len(lines))]

Words(body) == SelectSeq(body, LAMBDA line : line.kind = "words")

\* collect(): a file is what says it is attached or has a name; all else is text.
RECURSIVE Collect(_, _)
Collect(part, depth) ==
  IF depth > 20 THEN <<>>
  ELSE IF part.head.type # "multipart"
  THEN <<[file |-> part.head.attached \/ part.head.named, body |-> part.body]>>
  ELSE IF part.head.boundary = <<>> THEN <<>>
  ELSE LET parts == SplitMultipart(part.body, part.head.boundary) IN
       FlattenSeq([n \in DOMAIN parts |-> Collect(SplitPart(parts[n]), depth + 1)])

ParseMime(lines) ==
  LET found == Collect(SplitPart(lines), 0) IN
  [files |-> SelectSeq(found, LAMBDA one : one.file),
   texts |-> FlattenSeq([n \in DOMAIN found |-> IF found[n].file THEN <<>> ELSE Words(found[n].body)])]

\* A mail client writes a tree of parts: `kids` of a part that holds others.
Marker(kind, of) == <<[kind |-> kind, of |-> of]>>
RECURSIVE Written(_)
Written(tree) ==
  <<tree.head, [kind |-> "blank"]>> \o
  (IF tree.head.type # "multipart" THEN tree.body
   ELSE FlattenSeq([n \in DOMAIN tree.kids |-> Marker("open", tree.head.boundary) \o Written(tree.kids[n])])
        \o Marker("close", tree.head.boundary))

\* decodeQuotedPrintable(): "a soft line break encodes nothing at all", "=" and
\* two hexadecimal digits are a byte, and anything else is itself.
HexOf(ch) == IF ch \in 48..57 THEN ch - 48 ELSE IF ch \in 65..70 THEN ch - 55 ELSE 16
Unbroken(text) ==
  LET soft == {i \in 1..(Len(text) - 1) : text[i] = 61 /\ text[i + 1] = 10}
      gone == soft \union {i + 1 : i \in soft}
      left == Where(text, LAMBDA i : i \notin gone)
  IN  [n \in DOMAIN left |-> text[left[n]]]
DecodeQuotedPrintable(input) ==
  LET text == Unbroken(input)
      Escape(i) == text[i] = 61 /\ i + 2 <= Len(text) /\ HexOf(text[i + 1]) < 16 /\ HexOf(text[i + 2]) < 16
      from[i \in 1..(Len(text) + 1)] ==
        IF i > Len(text) THEN <<>>
        ELSE IF Escape(i) THEN <<16 * HexOf(text[i + 1]) + HexOf(text[i + 2])>> \o from[i + 3]
        ELSE <<text[i]>> \o from[i + 1]
  IN  from[1]

----------------------------------------------------------------------------
(* What a port answers *)

NoCode == 0
Refused(code) == [sent |-> FALSE, code |-> code]
SentBy(channel, segments) == [sent |-> TRUE, channel |-> channel, segments |-> segments]

\* The link a message may be stopped by: HTTPS, or a machine's own.
Secure(link) == link \in {"none", "https", "http loopback"}

\* Both ports for email: what cannot be sent is refused before anyone is asked.
Sendable(message) ==
  message.channel = "email" /\ message.attached <= message.limit /\ Secure(message.link)

\* SmtpMessagePort: "a server can accept the conversation and reject the recipient".
SendSmtp(message, answer) ==
  IF Sendable(message) /\ answer.kind = "taken" /\ ~answer.rejected THEN SentBy("email", 0) ELSE Refused(NoCode)

\* ResendMessagePort: an answer without an id is a refusal, and so is none in time.
SendResend(message, answer) ==
  IF Sendable(message) /\ answer.kind = "taken" THEN SentBy("email", 0) ELSE Refused(NoCode)

\* TwilioMessagePort: the segments charged, and one where it does not say.
SendSms(message, answer) ==
  IF message.channel # "sms" THEN Refused(NoCode)
  ELSE IF answer.kind # "taken" THEN Refused(NoCode)
  ELSE SentBy("sms", IF answer.segments > 0 THEN answer.segments ELSE 1)

\* WhatsAppMessagePort: words, or a template approved before.
SendWhatsApp(message, answer) ==
  IF message.channel # "whatsapp" THEN Refused(NoCode)
  ELSE IF answer.kind = "taken" THEN SentBy("whatsapp", 1) ELSE Refused(answer.code)

\* "This channel will never work for this person".
WorthFallingBack(code) == code \in {63024, 63016}

\* FallbackMessagePort: the same words on the other channel, without the template.
SendEither(message, answers) ==
  LET preferred == SendWhatsApp(message, answers.whatsapp) IN
  IF preferred.sent \/ ~WorthFallingBack(preferred.code) THEN preferred
  ELSE SendSms([message EXCEPT !.channel = "sms", !.template = FALSE], answers.sms)

\* WebPushMessagePort: an endpoint without keys and one the service says is gone
\* are one answer; the second takes the row with it.
SendPush(subscriptions, endpoint, status) ==
  IF endpoint \notin subscriptions THEN [said |-> "gone", subscriptions |-> subscriptions]
  ELSE IF status \in {404, 410} THEN [said |-> "gone", subscriptions |-> subscriptions \ {endpoint}]
  ELSE [said |-> IF status = 201 THEN "sent" ELSE "failed", subscriptions |-> subscriptions]

----------------------------------------------------------------------------
(* What the provider says later, and what they answer *)

\* TwilioReceipts: every parameter and the address called are under the signature.
Sign(token, url, params) == [token |-> token, url |-> url, params |-> params]
Interpret(params) ==
  LET states == [delivered |-> "delivered", undelivered |-> "bounced", failed |-> "failed"] IN
  IF params.sid = NoId \/ params.status \notin DOMAIN states THEN {}
  ELSE {[message |-> params.sid, state |-> states[params.status]]}
VerifyReceipt(token, url, params, signature) ==
  IF signature # {Sign(token, url, params)} THEN {} ELSE Interpret(params)

\* isStopRequest(): the whole message, its case, its blanks and the marks at its
\* end aside; a body is words, blanks and marks.
Trimmed(body) ==
  LET said == {i \in DOMAIN body : body[i] # " "} IN
  IF said = {} THEN <<>>
  ELSE SubSeq(body, CHOOSE i \in said : \A j \in said : i <= j, CHOOSE i \in said : \A j \in said : i >= j)
Unmarked(body) ==
  LET said == {i \in DOMAIN body : body[i] # "."} IN
  SubSeq(body, 1, IF said = {} THEN 0 ELSE CHOOSE i \in said : \A j \in said : i >= j)
StopWords == {<<"stop">>, <<"stop", " ", "mesaje">>}
Spaced(body) ==
  LET kept == Where(body, LAMBDA i : body[i] # " " \/ i = 1 \/ body[i - 1] # " ") IN
  [n \in DOMAIN kept |-> body[kept[n]]]
IsStopRequest(body) == Spaced(Unmarked(Trimmed(body))) \in StopWords

\* rekey(): every row of a fingerprint in a pair moves once, in one statement, and
\* two of one business's may not meet.
Rekey(kept, pairs) ==
  LET Moved(address) ==
        IF \E p \in pairs : p.from = address THEN (CHOOSE p \in pairs : p.from = address).to ELSE address
  IN  IF \E a, b \in kept : a # b /\ Moved(a) = Moved(b) THEN kept ELSE {Moved(a) : a \in kept}

----------------------------------------------------------------------------
(* What is expected of it *)

\* A redelivered message is attached once for as long as the log keeps the row of
\* it, also when two deliveries meet (retention takes the row, and what is
\* delivered again after that is new once more); and
\* nothing is handed to a port that could carry it on a channel they had asked
\* us to stop on before the send began: "we cannot promise which channel will
\* carry it, so we must honour the answer on both", whatever refusals, erasures
\* and retentions came between.  Only a refusal being recorded at the moment
\* they asked takes the answer back.
StopIsHonoured ==
  /\ \A c \in Clerks : At(c, "sending") =>
       clerk[c].asked \intersect ({clerk[c].channel} \union Diverts(clerk[c].channel)) = {}
  /\ \A message \in Inbound : attached[message] <= 1

\* "The address minted and the address received agree", however it is cased in
\* transit and whoever else is written to; and an address of another secret,
\* domain or prefix is nobody's. (A prefix with a capital in it verifies none.)
AddressIsItsSubjects(box, other, subject, shout, strangers) ==
  LET minted == Mint(box, subject)
      Loud(text) == [i \in DOMAIN text |-> IF text[i] = "a" THEN "A" ELSE text[i]]
      arrived == IF shout THEN [minted EXCEPT !.prefix = Loud(@), !.subject = Loud(@), !.domain = Loud(@)]
                 ELSE minted
      copied == [i \in DOMAIN strangers |-> [arrived EXCEPT !.tag = Tag(other, strangers[i])]]
  IN  Normalise(subject) # <<>> =>
        /\ Lower(box.prefix) = box.prefix =>
             /\ Parse(box, arrived) = {Normalise(subject)}
             /\ other # box => Find(box, copied \o <<arrived>> \o copied) = {Normalise(subject)}
        /\ other # box => Parse(other, arrived) = {}

\* "Everything is kept": every file of a mail is found, with its bytes, and so are
\* its words, each once and in order, down to twenty parts deep, also where one
\* boundary begins with another of the part around it.
RECURSIVE Leaves(_, _)
Leaves(tree, depth) ==
  IF depth > 20 THEN <<>> ELSE IF tree.head.type # "multipart" THEN <<tree>>
  ELSE FlattenSeq([n \in DOMAIN tree.kids |-> Leaves(tree.kids[n], depth + 1)])
MailIsKept(tree) ==
  LET read == ParseMime(Written(tree))
      leaves == Leaves(tree, 0)
      IsFile(leaf) == leaf.head.attached \/ leaf.head.named
      files == SelectSeq(leaves, IsFile)
      texts == SelectSeq(leaves, LAMBDA leaf : ~IsFile(leaf))
  IN  /\ [n \in DOMAIN read.files |-> read.files[n].body] = [n \in DOMAIN files |-> files[n].body]
      /\ read.texts = FlattenSeq([n \in DOMAIN texts |-> Words(texts[n].body)])

\* A file that came as quoted-printable has the bytes it was sent with, wherever
\* its lines were broken and whatever was escaped that need not be.
BytesAreTheSame(bytes, escaped, broken) ==
  LET Hex(n) == IF n < 10 THEN 48 + n ELSE 55 + n
      Encoded(i) ==
        (IF i \in escaped \/ bytes[i] \in {61, 10}
         THEN <<61, Hex(bytes[i] \div 16), Hex(bytes[i] % 16)>> ELSE <<bytes[i]>>)
        \o (IF i \in broken THEN <<61, 10>> ELSE <<>>)
  IN  DecodeQuotedPrintable(FlattenSeq([i \in DOMAIN bytes |-> Encoded(i)])) = bytes

\* "A port that swallowed the reason": what a port says was sent, the provider
\* took for that address on that channel; a message goes to the other channel only
\* when the first can never reach them and never as well as on it; and what is
\* charged for is at least one.
SentIsTaken(message, answers) ==
  LET smtp == SendSmtp(message, answers.email)
      resend == SendResend(message, answers.email)
      either == SendEither(message, answers)
  IN  /\ smtp.sent \/ resend.sent => answers.email.kind = "taken" /\ message.attached <= message.limit
                                     /\ message.link # "http"
      /\ smtp.sent => ~answers.email.rejected
      /\ either.sent => either.segments >= 1 /\ either.channel \in DOMAIN answers
                        /\ answers[either.channel].kind = "taken"
      /\ either.sent /\ either.channel = "sms" =>
           answers.whatsapp.kind = "refused" /\ answers.whatsapp.code \in {63024, 63016}
      /\ message.channel = "whatsapp" /\ answers.whatsapp.kind = "taken" =>
           either.sent /\ either.channel = "whatsapp"

\* An endpoint that is gone is not tried again, and one that is not gone stays.
GoneIsForgotten(subscriptions, endpoint, status) ==
  LET one == SendPush(subscriptions, endpoint, status)
      again == SendPush(one.subscriptions, endpoint, 201)
  IN  /\ one.said = "gone" <=> again.said = "gone"
      /\ subscriptions \ one.subscriptions \subseteq {endpoint}

\* A receipt is believed only as the provider signed it, for the address it was
\* sent to; the statuses on the way to delivery write nothing.
ReceiptIsTheirs(token, url, params, signed) ==
  LET heard == VerifyReceipt(token, url, params, {signed}) IN
  /\ heard # {} => signed.token = token /\ signed.url = url /\ signed.params = params
  /\ VerifyReceipt(token, url, params, {}) = {}
  /\ params.status \in {"queued", "sent"} => heard = {}
  /\ signed = Sign(token, url, params) /\ params.sid # NoId /\ params.status = "undelivered" =>
       heard = {[message |-> params.sid, state |-> "bounced"]}

\* "Missing a STOP is a regulatory problem", and so is hearing one in a sentence:
\* a body is heard as the words left of it, its blanks and its last marks aside,
\* unless a blank comes before the mark, which hides them.
StopIsHeard(body) ==
  LET words == SelectSeq(body, LAMBDA one : one \notin {" ", "."})
      plain == Spaced(Unmarked(Trimmed(body)))
  IN  /\ IsStopRequest(body) => words \in {<<"stop">>, <<"stop", "mesaje">>}
      /\ words = <<"stop">> /\ "." \notin ToSet(SubSeq(plain, 1, Len(plain))) /\ Last(plain) # " " =>
           IsStopRequest(body)

\* Who had said no under the old key has said no under the new one, each once.
RekeyKeepsTheNo(kept, pairs) ==
  LET after == Rekey(kept, pairs) IN
  /\ Cardinality(after) = Cardinality(kept)
  /\ after # kept => \A p \in pairs : p.from \in kept => p.to \in after
  /\ \A a \in kept : (\A p \in pairs : p.from # a) => a \in after
=============================================================================
