---------------------------- MODULE GoogleWallet ----------------------------
(***************************************************************************)
(* packages/wallet, Google's half: what a class and an object say of a     *)
(* pass (google/payload.ts), the link that saves one (google/save-link.ts  *)
(* and jwt.ts), and the writes of one object (google/api.ts), "a PUT that  *)
(* falls back to a POST", under an access token that is kept for a while.  *)
(* What is optional is a set of at most one element.                       *)
(***************************************************************************)
EXTENDS Integers, Sequences, FiniteSets, SequencesExt, TLC

CONSTANTS
  Writers,         \* upsertObject() calls that may be under way at once
  Lifetime,        \* TOKEN_LIFETIME_MS
  Hour,            \* for which Google issues a token
  MaxWrites,       \* bound on the writes begun
  MaxClock,        \* bound on time
  NoToken, NoObject

VARIABLES
  clock,
  token,           \* the field of that name: when it was issued and asked for
  writer,          \* where each call is; its payload is its number
  object,          \* what Google holds under the identifier
  writes,          \* calls begun
  answered,        \* the payloads answered ok
  lost,            \* those of calls whose answer never came, or still may
  met              \* two calls were under way at once

googleVars == <<clock, token, writer, object, writes, answered, lost, met>>

Idle == [step |-> "idle"]
Token == [issued : 0..MaxClock, obtainedAt : 0..MaxClock]

TypeOK ==
  /\ clock \in 0..MaxClock /\ token \in Token \union {NoToken}
  /\ \A w \in Writers : writer[w] = Idle \/ writer[w].payload \in 1..MaxWrites
  /\ object \in 1..MaxWrites \union {NoObject}
  /\ answered \union lost \subseteq 1..MaxWrites /\ met \in BOOLEAN

Init ==
  /\ clock = 0 /\ token = NoToken /\ writer = [w \in Writers |-> Idle]
  /\ object = NoObject /\ writes = 0 /\ answered = {} /\ lost = {} /\ met = FALSE

At(w, step) == writer[w].step = step
Goes(w, to) == writer' = [writer EXCEPT ![w] = to]
Step(w, step) == Goes(w, [writer[w] EXCEPT !.step = step])

----------------------------------------------------------------------------
Tick ==
  /\ clock < MaxClock
  /\ clock' = clock + 1
  /\ UNCHANGED <<token, writer, object, writes, answered, lost, met>>

\* accessToken(): the one kept, while it is fresh ...
Fresh == token # NoToken /\ clock - token.obtainedAt < Lifetime

Upsert(w) ==
  /\ writer[w] = Idle /\ writes < MaxWrites
  /\ writes' = writes + 1 /\ lost' = lost \union {writes + 1}
  /\ met' = (met \/ \E v \in Writers : writer[v] # Idle)
  /\ Goes(w, IF Fresh THEN [step |-> "put", payload |-> writes + 1, at |-> clock, issued |-> token.issued]
             ELSE [step |-> "exchange", payload |-> writes + 1, at |-> clock])
  /\ UNCHANGED <<clock, token, object, answered>>

\* ... or another: Google issues it ...
Issue(w) ==
  /\ At(w, "exchange")
  /\ Goes(w, [step |-> "issued", payload |-> writer[w].payload, at |-> writer[w].at, issued |-> clock])
  /\ UNCHANGED <<clock, token, object, writes, answered, lost, met>>

\* ... and it is kept as obtained when it was asked for, which was before.
Keep(w) ==
  /\ At(w, "issued")
  /\ token' = [issued |-> writer[w].issued, obtainedAt |-> writer[w].at]
  /\ Step(w, "put")
  /\ UNCHANGED <<clock, object, writes, answered, lost, met>>

\* Google answers; `ok` is what the caller hears of its payload.
Answer(w, ok) ==
  /\ Goes(w, Idle)
  /\ answered' = IF ok THEN answered \union {writer[w].payload} ELSE answered
  /\ lost' = lost \ {writer[w].payload}

\* The update, where it is there; "anything but `it is not there' is a refusal".
Put(w) ==
  /\ At(w, "put")
  /\ IF object = NoObject THEN Step(w, "post") /\ UNCHANGED <<object, answered, lost>>
     ELSE Answer(w, TRUE) /\ object' = writer[w].payload
  /\ UNCHANGED <<clock, token, writes, met>>

\* The insert: one that another call made meanwhile is a conflict.
Post(w) ==
  /\ At(w, "post")
  /\ object' = IF object = NoObject THEN writer[w].payload ELSE object
  /\ Answer(w, object = NoObject)
  /\ UNCHANGED <<clock, token, writes, met>>

\* Google refuses, cannot be reached, or answers nothing after it has written.
Fail(w) ==
  /\ writer[w] # Idle
  /\ Goes(w, Idle)
  /\ \/ object' = object
     \/ At(w, "put") /\ object # NoObject /\ object' = writer[w].payload
     \/ At(w, "post") /\ object = NoObject /\ object' = writer[w].payload
  /\ UNCHANGED <<clock, token, writes, answered, lost, met>>

Next ==
  \/ Tick
  \/ \E w \in Writers : Upsert(w) \/ Issue(w) \/ Keep(w) \/ Put(w) \/ Post(w) \/ Fail(w)

Spec == Init /\ [][Next]_googleVars

\* A write that is sent within the ten minutes between the two times, of when it
\* asked for a token, is sent under one that Google still accepts, however long
\* exchanges take and whichever of them is kept; what was answered is held until
\* another write is, and what is held is of a write that was answered, or may
\* have been; and only calls that met are refused for one another.
WritesAreHeld ==
  /\ \A w \in Writers : (At(w, "put") \/ At(w, "post")) /\ clock - writer[w].at <= Hour - Lifetime
                           => clock - writer[w].issued < Hour
  /\ answered # {} => object # NoObject
  /\ object # NoObject => object \in answered \union lost
  /\ ~met /\ lost = {} /\ answered # {} => object = writes
  /\ ~met => ~\E w \in Writers : At(w, "post") /\ object # NoObject

----------------------------------------------------------------------------
(* What a class and an object say *)

Located(locations) == [i \in DOMAIN locations |-> [lat |-> locations[i].lat, long |-> locations[i].long]]

\* textModule(): a value is of a kind, and a text; a number is written out, and
\* a field without a value is left out.
TextModules(fields) ==
  LET said == SelectSeq(fields, LAMBDA f : f.value[1] # "none")
  IN  [i \in DOMAIN said |-> [id |-> said[i].key, header |-> said[i].label, body |-> said[i].value[2]]]

\* stateOf(): against the moment it is given.
StateOf(c, now) ==
  IF c.voided THEN "INACTIVE"
  ELSE IF \E end \in c.expirationDate : end <= now THEN "EXPIRED" ELSE "ACTIVE"

\* What the programme says, or the performance, "written once".
Class(c, kind, suffix, holders) ==
  [id |-> suffix, kind |-> kind, background |-> c.background,
   multipleDevicesAndHoldersAllowedStatus |-> holders,
   locations |-> Located(c.locations), textModulesData |-> TextModules(c.back)]

BuildLoyaltyClass(c, suffix) == Class(c, "loyalty", suffix, "MULTIPLE_HOLDERS")
BuildEventTicketClass(c, suffix) == Class(c, "ticket", suffix, "ONE_USER_ALL_DEVICES")

\* One person's card, or ticket.  points() keeps a whole number a number.
Points(fields) == IF fields = <<>> THEN {} ELSE {[label |-> fields[1].label, balance |-> fields[1].value]}

BuildEventTicketObject(c, suffix, class, now) ==
  [id |-> suffix, classId |-> class, state |-> StateOf(c, now), name |-> c.holder.name,
   barcode |-> c.barcode, locations |-> Located(c.locations), validTimeInterval |-> c.expirationDate]

BuildLoyaltyObject(c, suffix, class, now) ==
  BuildEventTicketObject(c, suffix, class, now)
    @@ [accountId |-> c.holder.account, loyaltyPoints |-> Points(c.primary),
        secondaryLoyaltyPoints |-> Points(c.secondary)]

\* What of a pass each of them shows.
OfProgramme(c) == <<c.background, Located(c.locations), TextModules(c.back)>>
OfHolder(c, kind) ==
  [locations |-> Located(c.locations), name |-> c.holder.name, barcode |-> c.barcode,
   end |-> c.expirationDate, voided |-> c.voided,
   more |-> IF kind = "loyalty" THEN <<c.holder.account, Points(c.primary), Points(c.secondary)>> ELSE <<>>]

\* "A field put on the wrong one either cannot vary per holder or has to be
\* written two thousand times": two passes of a programme that differ in what
\* is their holder's have one class, and differ in their objects.
EachOnItsOwn(c, d, kind, now) ==
  LET classOf(x) == IF kind = "loyalty" THEN BuildLoyaltyClass(x, "k") ELSE BuildEventTicketClass(x, "k")
      objectOf(x) == IF kind = "loyalty" THEN BuildLoyaltyObject(x, "o", "k", now)
                     ELSE BuildEventTicketObject(x, "o", "k", now)
  IN  /\ classOf(c) = classOf(d) <=> OfProgramme(c) = OfProgramme(d)
      /\ objectOf(c) = objectOf(d) <=> OfHolder(c, kind) = OfHolder(d, kind)
      /\ objectOf(c).state = "ACTIVE" <=> ~c.voided /\ \A end \in c.expirationDate : now < end

\* withOffset(): the wall clock in a zone, in half hours, with its offset; in
\* some runtimes midnight is the hour 24.
WithOffset(at, zone, late) ==
  LET wall == at + zone
      hour == (wall % 48) \div 2
      read == IF late /\ hour = 0 THEN 24 ELSE hour
  IN  [day |-> wall \div 48, hour |-> IF read = 24 THEN 0 ELSE read, half |-> wall % 2, offset |-> zone]

\* "Both name the same moment", and the hour is one of a day.
NamesTheMoment(at, zone, late) ==
  LET shown == WithOffset(at, zone, late) IN
  /\ 48 * shown.day + 2 * shown.hour + shown.half - shown.offset = at
  /\ shown.hour \in 0..23

----------------------------------------------------------------------------
(* The link that saves one *)

KeyTypeOf(algorithm) == IF algorithm = "RS256" THEN "rsa" ELSE "ec"

\* signJwt(): a key of the other kind is refused.
SignJwt(claims, key, algorithm) ==
  IF key.type # KeyTypeOf(algorithm) THEN {}
  ELSE {[alg |-> algorithm, claims |-> claims,
         signature |-> [over |-> <<algorithm, claims>>, key |-> key, form |-> key.type]]}

\* Node checks by the kind of the key it is given: an RSA key checks an RSA
\* signature under either name, a curve's one only in the form it was asked for.
NodeVerifies(signature, over, key, algorithm) ==
  /\ signature.over = over /\ signature.key = key
  /\ key.type = "ec" => algorithm = "ES256"

\* verifyJwt(): and then "a token claiming another algorithm is not one we made".
VerifyJwt(made, key, algorithm) ==
  /\ NodeVerifies(made.signature, <<made.alg, made.claims>>, key, algorithm)
  /\ made.alg = algorithm

\* buildSaveToken(): exactly one pass, and the origins it may be opened from.
BuildSaveToken(input, key) ==
  IF input.origins = {} \/ (input.loyaltyObject = {}) = (input.eventTicketObject = {}) THEN {}
  ELSE SignJwt([origins |-> input.origins,
                loyaltyObjects |-> input.loyaltyObject, loyaltyClasses |-> input.loyaltyClass,
                eventTicketObjects |-> input.eventTicketObject, eventTicketClasses |-> input.eventTicketClass],
               key, "RS256")

\* A link that is made carries one pass, of its kind, and what was signed can
\* be read with its key and its algorithm, and with no others, and as it was.
LinkCarriesOne(input, key, other, algorithm, changed) ==
  \A made \in BuildSaveToken(input, key) :
    LET read == IF changed THEN [made EXCEPT !.claims.origins = {}] ELSE made IN
    /\ Cardinality(made.claims.loyaltyObjects \union made.claims.eventTicketObjects) = 1
    /\ VerifyJwt(read, other, algorithm) <=> ~changed /\ other = key /\ algorithm = "RS256"
=============================================================================
