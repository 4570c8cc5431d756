----------------------------- MODULE MCHoldings -----------------------------
(***************************************************************************)
(* What customers hold, side by side as in MCServices: the balances of one *)
(* holder, the passes in a phone and at Google, and the sockets of the     *)
(* pages open in a browser.  Two callers and two currencies; a purchase    *)
(* larger than a grant, spends that fit one lot, or need two.  What a pass *)
(* is made of is asked, one `question` a behaviour.                        *)
(***************************************************************************)
EXTENDS GameEconomy, TLC

CONSTANTS NoCall, NoToken, NoObject

VARIABLES
  part,
  moment, sequence, changed, updatedAt, rows, token, holds, copy, modified, tag, toFetch, asked,
  call, push, pushes,
  clock, access, writer, object, writes, answered, lost, met,
  byKey, connections, accepted, owner, server, client, code, cut, alive, beats,
  socket, closed, poller, timers, state, rushed, troubles,
  question

googleVars == <<clock, access, writer, object, writes, answered, lost, met>>
walletVars == <<moment, sequence, changed, updatedAt, rows, token, holds, copy, modified,
                tag, toFetch, asked, call, push, pushes>>
pageVars == <<byKey, connections, accepted, owner, server, client, code, cut, alive, beats,
              socket, closed, poller, timers, state, rushed, troubles>>
partsVars == <<part, vars, walletVars, googleVars, pageVars, question>>

MCRank == [purchase |-> 2, grant |-> 1]
MCOffers == {[op |-> "purchase", currency |-> "gold", amount |-> 2],
             [op |-> "grant", currency |-> "gold", amount |-> 1],
             [op |-> "spend", currency |-> "gold", amount |-> 2],
             [op |-> "spend", currency |-> "gold", amount |-> 1],
             [op |-> "grant", currency |-> "gems", amount |-> 1]}
Symmetry == Permutations(Callers) \union Permutations(Keys)

\* One pass that changes across seconds, and two within one.
One == INSTANCE AppleWallet WITH
  Devices <- {"d1"}, Serials <- {"s1"}, Tokens <- {1, 2}, Second <- 2, MaxMoment <- 3,
  MaxChanges <- 3, MaxPushes <- 2
Two == INSTANCE AppleWallet WITH
  Devices <- {"d1"}, Serials <- {"s1", "s2"}, Tokens <- {1}, Second <- 2, MaxMoment <- 0,
  MaxChanges <- 2, MaxPushes <- 1

Google == INSTANCE GoogleWallet WITH
  Writers <- Callers, Lifetime <- 2, Hour <- 3, MaxWrites <- 3, MaxClock <- 4, token <- access
Page == INSTANCE Gateway WITH
  Pages <- {"p1", "p2"}, Polls <- {"p1"}, Cap <- 1, MaxSockets <- 3, MaxTroubles <- 1, NoSocket <- 0

\* AppleWallet: groups at their limits and past them, keys missing, repeated and not
\* told of; colours, barcodes and images that are right, or each way wrong.
Fields(g, n, twist) == [i \in 1..n |->
  [key |-> CASE twist = "again" -> i
             [] twist = "keyless" /\ i = 2 -> 0
             [] OTHER -> i + [header |-> 8, primary |-> 16, secondary |-> 24, auxiliary |-> 32, back |-> 40][g],
   change |-> IF twist = "mute" /\ i = 1 THEN "mute" ELSE "told",
   value |-> IF twist = "valueless" /\ i = n THEN "none" ELSE "said"]]
GroupsOf(len, twist) == [g \in One!Groups |-> Fields(g, len[g], twist)]
Lengths == [header : {0, 1, 4}, primary : 0..3, secondary : {0, 5}, auxiliary : {1}, back : {0, 5}]

Drawing(name, k) == [png |-> TRUE, w |-> k * One!AssetSizes[name][1], h |-> k * One!AssetSizes[name][2]]
Sketched(names, densities) == [n \in names |-> [k \in densities |-> Drawing(n, k)]]
Images ==
  {Sketched(names, densities) : names \in {{}, {"icon"}, {"strip"}, {"icon", "strip"}, {"icon", "logo", "strip"}},
                             densities \in {{1}, {1, 2}, {1, 2, 3}}}
  \union {[Sketched({"icon", "strip"}, {1, 2}) EXCEPT !["icon"][k] = image] :
            k \in {1, 2},
            image \in {[png |-> FALSE, w |-> 0, h |-> 0], Drawing("strip", 1),
                       [png |-> TRUE, w |-> 58, h |-> 59], [png |-> TRUE, w |-> 0, h |-> 29]}}

Of(s, bl, co, gr, ba, lo, we, sh, as) ==
  [style : s, blank : bl, colours : co, groups : gr, barcode : ba, locations : lo, web : we,
   shareable : sh, assets : as, locales : {{"ro"}}]
Hue(label) == [c \in {"background", "foreground", "label"} |-> IF c = "label" THEN label ELSE 24]
Plain == {[c \in {"background", "foreground"} |-> 24]}
OneEach == {[g \in One!Groups |-> Fields(g, 1, "none")]}
Barcodes == [format : {"qr"}, message : {"", "plain", "wide"}, encoding : {{}, {""}, {"utf-8"}, {"latin1"}}]
Known == {{[format |-> "qr", message |-> "plain", encoding |-> {}]}}
Webs == {{}} \union {{[https |-> s, token |-> n]} : s \in BOOLEAN, n \in {0, 15, 16}}
Place(lat, long) == [lat |-> lat, long |-> long]
Maps == {<<>>, <<Place(46, 23)>>, <<Place(91, 0)>>, <<Place(0, -181)>>,
         [i \in 1..10 |-> Place(0, 0)], [i \in 1..11 |-> Place(0, 0)]}
Full == {Sketched({"icon", "strip"}, {1, 2})}

Contents ==
  Of(One!Styles, {{}}, Plain, {GroupsOf(l, t) : l \in Lengths, t \in {"none", "again", "keyless", "mute", "valueless"}},
     Known, {<<>>}, {{}}, {{}}, Full)
  \union Of({"storeCard"}, SUBSET One!Required, {Hue(n) : n \in {-1, 0, 255, 256, 1000}}, OneEach,
            {{}} \union {{b} : b \in Barcodes}, {<<>>}, {{}}, {{}}, Full)
  \union Of(One!Styles, {{}}, Plain, OneEach, Known, {<<>>}, {{}}, {{}}, Images)
  \union Of({"generic"}, {{}}, Plain, OneEach, Known, Maps, Webs, {{}, {TRUE}, {FALSE}}, Full)
Samples == Of({"storeCard"}, {{}}, Plain, OneEach, Known, {<<>>}, Webs, {{}}, Full)

\* Certificates for passes and not, of a team and of none, issued by the root
\* or below it; keys that are the certificate's, of a kind that can sign.
Own == [certificate |-> [passType |-> TRUE, names |-> "pass", unit |-> "team", key |-> 1, issuer |-> "root"],
        key |-> 1, keyType |-> "rsa", intermediates |-> {}]
Materials ==
  [certificate : [passType : BOOLEAN, names : {"pass"}, unit : {"", "team"}, key : {1}, issuer : {"root", "wwdr"}],
   key : {1, 2}, keyType : One!Signing \union {"secp256k1", "ed25519"},
   intermediates : {{}, {[name |-> "wwdr", issuer |-> "root"]}}]
Names == {One!PassFile, One!ManifestFile, One!SignatureFile, <<"icon", ".png">>, <<"icon", "@2x.png">>,
          <<"strip", ".png">>, <<"ro", ".lproj">>, <<"en", ".lproj">>, <<"logo", ".png">>} \union One!Inherited
Alterations == [op : {"drop", "put", "relist"}, file : Names] \union [op : {"copy"}, file : Names, from : Names]

PassQuestions ==
  [kind : {"pass"}, content : Contents, material : {Own}, roots : {{}, {"root"}}]
  \union [kind : {"pass"}, content : Samples, material : Materials, roots : {{}, {"root"}, {"other"}}]
  \union [kind : {"altered"}, content : Samples, alteration : Alterations]

\* Google's: passes of one programme that differ in one thing or another, zones
\* of half hours, and links of one object, of the other, of both and of none.
Line(value) == <<[key |-> "a", label |-> "l", value |-> value]>>
Lines == {<<>>} \union {Line(v) : v \in {<<"text", "7">>, <<"int", "7">>, <<"text", "8">>, <<"none", "">>}}
Spot(lat, text) == <<[lat |-> lat, long |-> 2, text |-> text]>>
Blank == [background |-> 1, locations |-> <<>>, back |-> <<>>, primary |-> <<>>, secondary |-> <<>>,
          barcode |-> {}, expirationDate |-> {}, voided |-> FALSE, holder |-> [name |-> {}, account |-> {}]]
Cards ==
  {[Blank EXCEPT !.background = n, !.back = b] : n \in {1, 2}, b \in Lines}
  \union {[Blank EXCEPT !.primary = b, !.secondary = a] : a \in Lines, b \in Lines}
  \union {[Blank EXCEPT !.locations = l, !.voided = v, !.expirationDate = e] :
            l \in {<<>>, Spot(1, "here"), Spot(1, "there"), Spot(2, "here")}, v \in BOOLEAN,
            e \in {{}, {1}, {2}, {3}}}
  \union {[Blank EXCEPT !.holder = h, !.barcode = b] : h \in [name : {{}, {"n"}}, account : {{}, {"a"}}],
            b \in {{}, {[type |-> "QR_CODE", value |-> "m", alternateText |-> {}]}}}
SigningKeys == [type : {"rsa", "ec"}, n : {1, 2}]

GoogleQuestions ==
  [kind : {"card"}, c : Cards, d : Cards, of : {"loyalty", "ticket"}]
  \union [kind : {"offset"}, at : -60..60, zone : -24..28, late : BOOLEAN]
  \union [kind : {"link"},
          input : [origins : {{}, {"site"}}, loyaltyObject : {{}, {"o"}}, loyaltyClass : {{}, {"k"}},
                   eventTicketObject : {{}, {"t"}}, eventTicketClass : {{}, {"k"}}],
          key : SigningKeys, other : SigningKeys, algorithm : {"RS256", "ES256"}, changed : BOOLEAN]

PartsInit ==
  /\ part \in {"balances", "pass", "passes", "google", "contents", "cards", "pages"}
  /\ Init /\ Google!Init /\ Page!Init
  /\ IF part = "passes" THEN Two!Init ELSE One!Init
  /\ CASE part = "contents" -> question \in PassQuestions
       [] part = "cards" -> question \in GoogleQuestions
       [] OTHER -> question = [kind |-> "none"]

BalancesNext == part = "balances" /\ Next /\ UNCHANGED <<part, walletVars, googleVars, pageVars, question>>
PassNext ==
  /\ \/ part = "pass" /\ One!Next
     \/ part = "passes" /\ Two!Next
  /\ UNCHANGED <<part, vars, googleVars, pageVars, question>>
GoogleNext == part = "google" /\ Google!Next /\ UNCHANGED <<part, vars, walletVars, pageVars, question>>
PageNext == part = "pages" /\ Page!Next /\ UNCHANGED <<part, vars, walletVars, googleVars, question>>

PartsNext == BalancesNext \/ PassNext \/ GoogleNext \/ PageNext

PartsSpec == PartsInit /\ [][PartsNext]_partsVars

----------------------------------------------------------------------------
\* Every row and every call of the part under way has its type.
Typed ==
  CASE part = "balances" -> TypeOK
    [] part = "pass" -> One!TypeOK
    [] part = "passes" -> Two!TypeOK
    [] part = "google" -> Google!TypeOK
    [] part = "pages" -> Page!TypeOK
    [] OTHER -> TRUE

\* What is in a phone is what was written.  webservice.ts and
\* registrations.service.ts: a device's copies come current (AppleWallet);
\* validate.ts, build.ts, sign.ts and verify.ts: what is built is what a device
\* takes, and what was altered since is not (AppleWallet); payload.ts, api.ts and
\* save-link.ts: a class and an object say what is theirs, and Google holds
\* what it answered for (GoogleWallet).  And socket/index.ts and client.ts: an
\* account's connections are counted as they are, and a page without one polls
\* (Gateway).
DevicesAreServed ==
  CASE part = "pass" -> One!CopiesComeCurrent
    [] part = "passes" -> Two!CopiesComeCurrent
    [] part = "google" -> Google!WritesAreHeld
    [] part = "pages" -> Page!GatewayHolds
    [] question.kind = "pass" -> One!BuiltPassesVerify(question.content, question.material, question.roots)
    [] question.kind = "altered" -> One!AlteredIsCaught(question.content, Own, question.alteration)
    [] question.kind = "card" -> Google!EachOnItsOwn(question.c, question.d, question.of, 2)
    [] question.kind = "offset" -> Google!NamesTheMoment(question.at, question.zone, question.late)
    [] question.kind = "link" ->
         Google!LinkCarriesOne(question.input, question.key, question.other, question.algorithm, question.changed)
    [] OTHER -> TRUE
=============================================================================
