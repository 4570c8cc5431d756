----------------------------- MODULE AppleWallet ----------------------------
(***************************************************************************)
(* packages/wallet apple/webservice.ts and nestjs/registrations.service.ts:*)
(* the conversation by which a device that holds passes keeps its copies   *)
(* current. A device makes one call at a time; pushes run beside it, and   *)
(* the product changes its passes.                                         *)
(***************************************************************************)
EXTENDS Integers, Sequences, FiniteSets, TLC

CONSTANTS
  Devices, Serials, Tokens, \* Tokens are numbered: a device reissued a token has the next
  Second,           \* moments in a second, which is what an HTTP date tells apart
  MaxMoment, MaxChanges, MaxPushes,
  NoCall

VARIABLES
  moment,
  sequence, changed, updatedAt,  \* external: the product's passes
  rows,             \* mortar_wallet_registration: [token, since], since is history
  token, holds,     \* external: a device's APNs token, the passes in its wallet
  copy, modified,   \* what it holds of each, and the date it was given with it
  tag, toFetch, asked, \* the tag it keeps, what it was told to fetch, when it last asked
  call,             \* the call it is at
  push, pushes      \* the push that is running, and how many have been

walletVars == <<moment, sequence, changed, updatedAt, rows, token, holds, copy, modified,
                tag, toFetch, asked, call, push, pushes>>
passVars == <<sequence, changed, updatedAt>>
deviceVars == <<token, holds, copy, modified, tag, toFetch, asked, call>>

Changes == 0..MaxChanges
Seconds == 0..(MaxMoment \div Second)
NoPush == [step |-> "none"]

TypeOK ==
  /\ moment \in 0..MaxMoment /\ sequence \in Changes /\ pushes \in 0..MaxPushes
  /\ changed \in [Serials -> Changes] /\ updatedAt \in [Serials -> 0..MaxMoment]
  /\ DOMAIN rows \subseteq Devices \X Serials
  /\ \A k \in DOMAIN rows : rows[k].token \in Tokens /\ rows[k].since \in Changes
  /\ token \in [Devices -> Tokens] /\ holds \in [Devices -> SUBSET Serials]
  /\ copy \in [Devices \X Serials -> Changes] /\ modified \in [Devices \X Serials -> Seconds]
  /\ tag \in [Devices -> Changes] /\ asked \in [Devices -> Changes]
  /\ toFetch \in [Devices -> SUBSET Serials] /\ DOMAIN call = Devices

Init ==
  /\ moment = 0 /\ sequence = 0
  /\ changed = [s \in Serials |-> 0] /\ updatedAt = [s \in Serials |-> 0]
  /\ rows = [k \in {} |-> 0]
  /\ token = [d \in Devices |-> 1] /\ holds = [d \in Devices |-> {}]
  /\ copy = [k \in Devices \X Serials |-> 0] /\ modified = [k \in Devices \X Serials |-> 0]
  /\ tag = [d \in Devices |-> 0] /\ toFetch = [d \in Devices |-> {}]
  /\ asked = [d \in Devices |-> 0] /\ call = [d \in Devices |-> NoCall]
  /\ push = NoPush /\ pushes = 0

Idle(d) == call[d] = NoCall
Calls(d, c) == call' = [call EXCEPT ![d] = c]
At(d, op) == call[d] # NoCall /\ call[d].op = op
SecondOf(m) == m \div Second
Without(keys) == [k \in DOMAIN rows \ keys |-> rows[k]]
Has(k) == k \in DOMAIN rows

Pass ==
  /\ moment < MaxMoment /\ moment' = moment + 1
  /\ UNCHANGED <<passVars, rows, deviceVars, push, pushes>>

\* External: "a monotonic sequence assigned per update".
Change(s) ==
  /\ sequence < MaxChanges
  /\ sequence' = sequence + 1
  /\ changed' = [changed EXCEPT ![s] = sequence'] /\ updatedAt' = [updatedAt EXCEPT ![s] = moment]
  /\ UNCHANGED <<moment, rows, deviceVars, push, pushes>>

----------------------------------------------------------------------------
\* External: a pass is put in the wallet, as it is now.
Install(d, s) ==
  /\ Idle(d) /\ s \notin holds[d]
  /\ holds' = [holds EXCEPT ![d] = @ \union {s}]
  /\ copy' = [copy EXCEPT ![d, s] = changed[s]]
  /\ modified' = [modified EXCEPT ![d, s] = SecondOf(updatedAt[s])]
  /\ UNCHANGED <<moment, passVars, rows, token, tag, toFetch, asked, call, push, pushes>>

\* External: the operating system reissues the token.
Reissue(d) ==
  /\ Idle(d) /\ token[d] + 1 \in Tokens
  /\ token' = [token EXCEPT ![d] = @ + 1]
  /\ UNCHANGED <<moment, passVars, rows, holds, copy, modified, tag, toFetch, asked, call, push, pushes>>

\* registerDevice(): add() looks for the row ...
Register(d, s) ==
  /\ Idle(d) /\ s \in holds[d]
  /\ Has(<<d, s>>) => rows[<<d, s>>].token # token[d]
  /\ Calls(d, [op |-> "add", serial |-> s])
  /\ UNCHANGED <<moment, passVars, rows, token, holds, copy, modified, tag, toFetch, asked, push, pushes>>

\* ... and writes it, or the new token of the one it found; save() inserts one
\* that a push has removed meanwhile.
Add(d) ==
  /\ At(d, "add")
  /\ LET k == <<d, call[d].serial>> IN
     rows' = [i \in DOMAIN rows \union {k} |->
                IF i # k THEN rows[i]
                ELSE [token |-> token[d], since |-> IF Has(k) THEN rows[k].since ELSE sequence]]
  /\ Calls(d, NoCall)
  /\ UNCHANGED <<moment, passVars, token, holds, copy, modified, tag, toFetch, asked, push, pushes>>

\* unregisterDevice(): the pass leaves the wallet; the call may never arrive.
Unregister(d, s) ==
  /\ Idle(d) /\ s \in holds[d]
  /\ holds' = [holds EXCEPT ![d] = @ \ {s}]
  /\ toFetch' = [toFetch EXCEPT ![d] = @ \ {s}]
  /\ copy' = [copy EXCEPT ![d, s] = 0] /\ modified' = [modified EXCEPT ![d, s] = 0]
  /\ rows' \in {rows, Without({<<d, s>>})}
  /\ UNCHANGED <<moment, passVars, token, tag, asked, call, push, pushes>>

----------------------------------------------------------------------------
SerialsFor(d) == {s \in Serials : Has(<<d, s>>)}

\* passesUpdatedSince(): 404 with nothing registered, otherwise the product is
\* asked about the serials that were.
Ask(d) ==
  /\ Idle(d) /\ SerialsFor(d) # {}
  /\ Calls(d, [op |-> "ask", serials |-> SerialsFor(d)])
  /\ UNCHANGED <<moment, passVars, rows, token, holds, copy, modified, tag, toFetch, asked, push, pushes>>

UpdatedSince(serials, since) == {s \in serials : changed[s] > since}

\* 204 and the tag stays, or 200 with the highest of what changed.
Answer(d) ==
  /\ At(d, "ask")
  /\ LET updated == UpdatedSince(call[d].serials, tag[d]) IN
     /\ toFetch' = [toFetch EXCEPT ![d] = @ \union (updated \intersect holds[d])]
     /\ tag' = [tag EXCEPT ![d] =
                  IF updated = {} THEN @
                  ELSE CHOOSE n \in {changed[s] : s \in updated} : \A s \in updated : changed[s] <= n]
  /\ asked' = [asked EXCEPT ![d] = sequence]
  /\ Calls(d, NoCall)
  /\ UNCHANGED <<moment, passVars, rows, token, holds, copy, modified, push, pushes>>

\* Mutant of NotModified: 304 for a pass as old as the date.
NotModifiedSince(updated, since) == SecondOf(updated) <= since

\* "304 is returned only when the pass is strictly older".
NotModified(updated, since) == SecondOf(updated) < since

\* fetchPass(): find() reads the pass, and what is sent is built after.
Fetch(d, s) ==
  /\ Idle(d) /\ s \in toFetch[d]
  /\ Calls(d, [op |-> "fetch", serial |-> s, updated |-> updatedAt[s]])
  /\ UNCHANGED <<moment, passVars, rows, token, holds, copy, modified, tag, toFetch, asked, push, pushes>>

Fetched(d) ==
  /\ At(d, "fetch")
  /\ LET s == call[d].serial IN
     /\ IF NotModified(call[d].updated, modified[d, s])
        THEN UNCHANGED <<copy, modified>>
        ELSE /\ copy' = [copy EXCEPT ![d, s] = changed[s]]
             /\ modified' = [modified EXCEPT ![d, s] = SecondOf(call[d].updated)]
     /\ toFetch' = [toFetch EXCEPT ![d] = @ \ {s}]
  /\ Calls(d, NoCall)
  /\ UNCHANGED <<moment, passVars, rows, token, holds, tag, asked, push, pushes>>

----------------------------------------------------------------------------
\* push(): one target per device, with the token of the last row that was read
\* for it, and every pass it covers; the rows of each pass are one query.
Targets(passes) ==
  [d \in {d \in Devices : \E s \in passes : Has(<<d, s>>)} |->
     {s \in passes : Has(<<d, s>>)}]

Push(passes) ==
  /\ push = NoPush /\ pushes < MaxPushes /\ DOMAIN Targets(passes) # {}
  /\ pushes' = pushes + 1
  /\ \E to \in [DOMAIN Targets(passes) -> Tokens] :
       /\ \A d \in DOMAIN to : \E s \in Targets(passes)[d] : to[d] = rows[<<d, s>>].token
       /\ push' = [step |-> "send", covered |-> Targets(passes), to |-> to, gone |-> {}]
  /\ UNCHANGED <<moment, passVars, rows, deviceVars>>

\* APNs answers 410 for a token that is no longer the device's, or whose passes
\* are gone from it; otherwise it delivers, or the transport fails.
Send ==
  /\ push.step = "send"
  /\ push' = [push EXCEPT !.step = "record",
                !.gone = {<<d, s>> \in Devices \X Serials :
                            /\ d \in DOMAIN push.to /\ s \in push.covered[d]
                            /\ push.to[d] # token[d] \/ holds[d] = {}}]
  /\ UNCHANGED <<moment, passVars, rows, deviceVars, pushes>>

\* "410 Unregistered removes the registration": one after the other.
Remove ==
  /\ push.step = "record"
  /\ IF push.gone = {}
     THEN push' = NoPush /\ UNCHANGED rows
     ELSE \E k \in push.gone : rows' = Without({k}) /\ push' = [push EXCEPT !.gone = @ \ {k}]
  /\ UNCHANGED <<moment, passVars, deviceVars, pushes>>

Next ==
  \/ Pass
  \/ \E s \in Serials : Change(s)
  \/ \E d \in Devices : Reissue(d) \/ Add(d) \/ Ask(d) \/ Answer(d) \/ Fetched(d)
  \/ \E d \in Devices, s \in Serials : Install(d, s) \/ Register(d, s) \/ Unregister(d, s) \/ Fetch(d, s)
  \/ \E passes \in SUBSET Serials : Push(passes)
  \/ Send
  \/ Remove

Spec == Init /\ [][Next]_walletVars

----------------------------------------------------------------------------
\* A pass that changed after the device registered it is current on the device
\* once it has asked since and fetched what it was told to, whatever else it
\* asked, registered or fetched before, however often a pass changed within a
\* second, and whatever pushes removed.
CopiesComeCurrent ==
  \A d \in Devices, s \in Serials :
    /\ Has(<<d, s>>) /\ s \in holds[d] /\ s \notin toFetch[d]
    /\ rows[<<d, s>>].since < changed[s] /\ changed[s] <= asked[d]
    /\ ~(At(d, "fetch") /\ call[d].serial = s)
    => copy[d, s] = changed[s]

----------------------------------------------------------------------------
(***************************************************************************)
(* packages/wallet, Apple's half: a pass is validated, rendered, hashed,   *)
(* signed and zipped (apple/build.ts), and the archive is opened again and *)
(* held against the rules by a second implementation of them               *)
(* (apple/verify.ts), "a checker that inspects the builder's own           *)
(* intermediate state agrees with the builder by construction".            *)
(*                                                                         *)
(* What is optional is a set of at most one element.  One number stands    *)
(* for the three channels of a colour, and a digest for what was digested. *)
(***************************************************************************)

Styles == {"storeCard", "eventTicket", "coupon", "generic", "boardingPass"}
Groups == {"header", "primary", "secondary", "auxiliary", "back"}
Required == {"serialNumber", "organizationName", "description"}
Identity == {"passTypeIdentifier", "teamIdentifier"}
Densities == {2, 3}

\* FIELD_LIMITS: the back "scrolls and has no limit".
FieldLimit(style, group) ==
  CASE group = "header" -> 3
    [] group = "primary" -> IF style = "boardingPass" THEN 2 ELSE 1
    [] group \in {"secondary", "auxiliary"} -> 4

StyleAssets(style) == IF style \in {"storeCard", "coupon"} THEN {"strip"} ELSE {}

AssetSizes == ("icon" :> <<29, 29>>) @@ ("logo" :> <<160, 50>>) @@ ("strip" :> <<375, 123>>)
              @@ ("background" :> <<180, 220>>) @@ ("thumbnail" :> <<90, 90>>) @@ ("footer" :> <<286, 15>>)
MaxLocations == 10
MinAuthenticationToken == 16

\* RULES: what a pass may be refused for.
Rules == {"formatVersion", "requiredKeys", "singleStyle", "colourSyntax", "fieldKeysUnique",
          "changeMessagePlaceholder", "fieldCounts", "barcodeFormat", "barcodeEncodable",
          "locationCount", "locationRange", "webServiceHttps", "authenticationTokenLength",
          "iconRequired", "styleAssets", "densityMultiples", "pngOnly", "manifestCoversArchive",
          "signatureVerifies"}
Flag(rule, broken) == IF broken THEN {rule} ELSE {}
AbsOf(n) == IF n < 0 THEN -n ELSE n

----------------------------------------------------------------------------
\* readPngSize(): a dimension of zero is no PNG.
IsPng(image) == image.png /\ image.w > 0 /\ image.h > 0
Exceeds(image, name) == image.w > AssetSizes[name][1] \/ image.h > AssetSizes[name][2]
Scaled(image, base, k) == image.w = base.w * k /\ image.h = base.h * k

IsLatin1(encoding) == encoding \in {"iso-8859-1", "latin1", "windows-1252"}
Unencodable(message, encoding) == IsLatin1(encoding) /\ message = "wide"

\* The keys of a pass' fields, with where they are; 0 is no key.
Places(groups) == {p \in (DOMAIN groups) \X (1..8) : p[2] <= Len(groups[p[1]])}
FieldAt(groups, p) == groups[p[1]][p[2]]
KeysBroken(groups) ==
  \E p \in Places(groups) :
    \/ FieldAt(groups, p).key = 0
    \/ \E q \in Places(groups) \ {p} : FieldAt(groups, p).key = FieldAt(groups, q).key
Mute(groups) == \E p \in Places(groups) : FieldAt(groups, p).change = "mute"
\* A number that is none: JSON.stringify() writes null of NaN and of Infinity.
Valueless(groups) == \E p \in Places(groups) : FieldAt(groups, p).value = "none"

ValidateFields(c) ==
  Flag("fieldCounts", \E g \in Groups \ {"back"} : Len(c.groups[g]) > FieldLimit(c.style, g))
  \union Flag("fieldKeysUnique", KeysBroken(c.groups))
  \union Flag("changeMessagePlaceholder", Mute(c.groups))

\* A density is looked at when its base is a PNG.
ValidateAssets(c) ==
  LET sets == DOMAIN c.assets
      based == {n \in sets : IsPng(c.assets[n][1])}
      dense == {p \in based \X Densities : p[2] \in DOMAIN c.assets[p[1]]}
      at(p) == c.assets[p[1]][p[2]]
  IN  Flag("iconRequired", "icon" \notin sets)
      \union Flag("styleAssets", ~(StyleAssets(c.style) \subseteq sets)
                                 \/ \E n \in based : Exceeds(c.assets[n][1], n))
      \union Flag("pngOnly", based # sets \/ \E p \in dense : ~IsPng(at(p)))
      \union Flag("densityMultiples",
                  \E p \in dense : IsPng(at(p)) /\ ~Scaled(at(p), c.assets[p[1]][1], p[2]))

\* validateContent(): the rules broken by what it is to say; the value of a
\* field is not looked at.
EncodingOf(barcode) == IF barcode.encoding = {} THEN "iso-8859-1" ELSE CHOOSE e \in barcode.encoding : TRUE

ValidateContent(c) ==
  Flag("requiredKeys", c.blank # {})
  \union Flag("colourSyntax", \E n \in DOMAIN c.colours : c.colours[n] \notin 0..255)
  \union ValidateFields(c)
  \union Flag("barcodeFormat", \E b \in c.barcode : b.message = "")
  \union Flag("barcodeEncodable", \E b \in c.barcode : Unencodable(b.message, EncodingOf(b)))
  \union Flag("locationCount", Len(c.locations) > MaxLocations)
  \union Flag("locationRange", \E i \in DOMAIN c.locations :
                 AbsOf(c.locations[i].lat) > 90 \/ AbsOf(c.locations[i].long) > 180)
  \union Flag("webServiceHttps", \E w \in c.web : ~w.https)
  \union Flag("authenticationTokenLength", \E w \in c.web : w.token < MinAuthenticationToken)
  \union ValidateAssets(c)

----------------------------------------------------------------------------
\* buildPassJson(): the keys a pass has, each left out where there is nothing
\* to say; `blank` are those that are there and say nothing.
BuildPassJson(c, identity) ==
  LET filled == {g \in Groups : c.groups[g] # <<>>}
      barcodes == {[format |-> b.format, message |-> b.message, messageEncoding |-> EncodingOf(b)]
                     : b \in c.barcode}
  IN  [formatVersion |-> 1,
       blank |-> c.blank \union {k \in Identity : identity[k] = ""},
       styles |-> <<c.style>>,
       colours |-> c.colours,
       groups |-> [g \in filled |-> c.groups[g]],
       singular |-> FALSE,
       barcodes |-> barcodes,
       locations |-> c.locations,
       sharingProhibited |-> IF c.shareable = {} THEN c.style \in {"storeCard", "coupon"}
                             ELSE FALSE \in c.shareable,
       webServiceURL |-> {w.https : w \in c.web},
       authenticationToken |-> {w.token : w \in c.web}]

\* validatePassJson(): the same rules of the file, where a colour is any three
\* numbers of up to three digits.
ValidateJsonFields(pass) ==
  LET style == pass.styles[1] IN
  Flag("fieldCounts", \E g \in DOMAIN pass.groups \ {"back"} :
                        Len(pass.groups[g]) > FieldLimit(style, g))
  \union Flag("fieldKeysUnique", KeysBroken(pass.groups))
  \union Flag("requiredKeys", Valueless(pass.groups))
  \union Flag("changeMessagePlaceholder", Mute(pass.groups))

ValidatePassJson(pass) ==
  LET service == pass.webServiceURL # {} \/ pass.authenticationToken # {} IN
  Flag("formatVersion", pass.formatVersion # 1)
  \union Flag("requiredKeys", pass.blank # {})
  \union Flag("singleStyle", Len(pass.styles) # 1)
  \union Flag("colourSyntax", \E n \in DOMAIN pass.colours : pass.colours[n] \notin 0..999)
  \union (IF pass.styles = <<>> THEN {} ELSE ValidateJsonFields(pass))
  \union Flag("barcodeFormat", pass.singular \/ \E b \in pass.barcodes :
                 b.message = "" \/ b.messageEncoding = "")
  \union Flag("barcodeEncodable", \E b \in pass.barcodes : Unencodable(b.message, b.messageEncoding))
  \union Flag("locationCount", Len(pass.locations) > MaxLocations)
  \union Flag("locationRange", \E i \in DOMAIN pass.locations :
                 AbsOf(pass.locations[i].lat) > 90 \/ AbsOf(pass.locations[i].long) > 180)
  \union Flag("webServiceHttps", service /\ TRUE \notin pass.webServiceURL)
  \union Flag("authenticationTokenLength",
              service /\ ~\E n \in pass.authenticationToken : n >= MinAuthenticationToken)

----------------------------------------------------------------------------
\* The archive: from names, a stem and what follows it, to contents.
PassFile == <<"pass", ".json">>
ManifestFile == <<"manifest", ".json">>
SignatureFile == <<"signature", "">>
Unhashed == {ManifestFile, SignatureFile}
Png(k) == CASE k = 1 -> ".png" [] k = 2 -> "@2x.png" [] k = 3 -> "@3x.png"

\* assetFiles() and the texts of each locale.
AssetFiles(assets) ==
  LET names == {p \in (DOMAIN assets) \X {1, 2, 3} : p[2] \in DOMAIN assets[p[1]]}
  IN  [f \in {<<p[1], Png(p[2])>> : p \in names} |->
         LET p == CHOOSE p \in names : f = <<p[1], Png(p[2])>> IN assets[p[1]][p[2]]]

StringFiles(locales) == [f \in {<<l, ".lproj">> : l \in locales} |-> [strings |-> f]]

BuildManifest(files) == [hashes |-> files]

\* readSigningCertificate(): of the right kind, whatever it names.
IdentityOf(certificate) == [passTypeIdentifier |-> certificate.names, teamIdentifier |-> certificate.unit]

\* importForSigning(): the hash goes with the curve of the key, and WebCrypto
\* imports no other curve.
Signing == {"rsa", "P-256", "P-384", "P-521"}
HashFor(keyType) == CASE keyType = "P-384" -> "SHA-384" [] keyType = "P-521" -> "SHA-512" [] OTHER -> "SHA-256"

\* signDetached(): whether the key is the certificate's is not asked. The
\* manifest is digested by SHA-256 whatever hash the signature then names.
SignDetached(manifest, material) ==
  [digest |-> [of |-> manifest, by |-> "SHA-256"], hash |-> HashFor(material.keyType),
   key |-> material.key, certificate |-> material.certificate, chain |-> material.intermediates]

\* buildPkPass(): validate, render, hash, sign, and only then zip.
BuildPkPass(c, material, ignoreProblems) ==
  LET problems == ValidateContent(c)
      files == (PassFile :> [pass |-> BuildPassJson(c, IdentityOf(material.certificate))])
               @@ AssetFiles(c.assets) @@ StringFiles(c.locales)
      manifest == BuildManifest(files)
  IN  IF \/ ~material.certificate.passType
         \/ problems # {} /\ ~ignoreProblems
         \/ material.keyType \notin Signing
      THEN [ok |-> FALSE]
      ELSE [ok |-> TRUE,
            files |-> files @@ (ManifestFile :> manifest)
                            @@ (SignatureFile :> SignDetached(manifest, material))]

----------------------------------------------------------------------------
\* pkijs, external: a certificate leads to a root by itself, or by what came
\* with it, and the content is digested by the hash the signature names.
Chains(certificate, chain, roots) ==
  certificate.issuer \in roots \/ \E one \in chain : one.name = certificate.issuer /\ one.issuer \in roots

VerifyDetached(signature, manifest, roots) ==
  /\ "digest" \in DOMAIN signature
  /\ signature.digest = [of |-> manifest, by |-> signature.hash]
  /\ signature.key = signature.certificate.key
  /\ roots # {} => Chains(signature.certificate, signature.chain, roots)

\* verifyArchivedImages(): what is named a PNG, and the densities by the name.
IsImageName(f) == f[2] \in {Png(1), Png(2), Png(3)}
ImageIn(file) == "png" \in DOMAIN file /\ IsPng(file)

VerifyArchivedImages(files) ==
  LET named == {f \in DOMAIN files : IsImageName(f)}
      sized == {f \in named : ImageIn(files[f])}
      off(f, k) == f[2] = Png(k) /\ (<<f[1], Png(1)>> \notin sized
                                     \/ ~Scaled(files[f], files[<<f[1], Png(1)>>], k))
  IN  Flag("pngOnly", sized # named)
      \union Flag("styleAssets", \E f \in sized : f[2] = Png(1) /\ f[1] \in DOMAIN AssetSizes
                                                  /\ Exceeds(files[f], f[1]))
      \union Flag("densityMultiples", \E f \in sized : \E k \in Densities : off(f, k))

\* `name in manifest` is true of what every object inherits.
Inherited == {<<n, "">> : n \in {"toString", "constructor"}}

\* The manifest "checked in both directions", hash by hash.
VerifyManifest(files) ==
  LET hashes == files[ManifestFile].hashes IN
  Flag("manifestCoversArchive",
       \/ \E f \in DOMAIN hashes : f \notin DOMAIN files \/ files[f] # hashes[f]
       \/ \E f \in DOMAIN files \ Unhashed : f \notin DOMAIN hashes \union Inherited)

\* verifyPkPass(): the rules the finished archive breaks.
VerifyPkPass(files, roots) ==
  LET has(f) == f \in DOMAIN files
      reads(f, kind) == has(f) /\ kind \in DOMAIN files[f]
  IN  Flag("manifestCoversArchive", ~(has(PassFile) /\ has(ManifestFile) /\ has(SignatureFile)))
      \union Flag("iconRequired", ~has(<<"icon", Png(1)>>))
      \union Flag("manifestCoversArchive", has(ManifestFile) /\ ~reads(ManifestFile, "hashes"))
      \union (IF reads(ManifestFile, "hashes") THEN VerifyManifest(files) ELSE {})
      \union Flag("signatureVerifies",
                  IF has(SignatureFile) /\ has(ManifestFile)
                  THEN ~VerifyDetached(files[SignatureFile], files[ManifestFile], roots)
                  ELSE ~has(SignatureFile))
      \union Flag("requiredKeys", has(PassFile) /\ ~reads(PassFile, "pass"))
      \union (IF reads(PassFile, "pass") THEN ValidatePassJson(files[PassFile].pass) ELSE {})
      \union VerifyArchivedImages(files)

----------------------------------------------------------------------------
\* The material belongs together: its key is the certificate's and is signed
\* with by the hash of the digest, the certificate says who it is, and nothing
\* between it and the roots was left out.
Whole(material, roots) ==
  /\ material.key = material.certificate.key /\ HashFor(material.keyType) = "SHA-256"
  /\ IdentityOf(material.certificate).passTypeIdentifier # ""
  /\ IdentityOf(material.certificate).teamIdentifier # ""
  /\ roots # {} => Chains(material.certificate, material.intermediates, roots)

\* Two implementations of the rules agree: a pass the builder makes is one the
\* checker finds nothing wrong with, just when the material belongs together,
\* its barcode does not name the empty encoding and its fields have a value,
\* which one of them lets pass; and of a pass that was built against the rules
\* the checker finds every one broken, but for colours of 256 and above, and the
\* image of a style, which can no longer be told from the file.
BuiltPassesVerify(c, material, roots) ==
  LET built == BuildPkPass(c, material, FALSE)
      forced == BuildPkPass(c, material, TRUE)
      unseen == Valueless(c.groups) \/ \E b \in c.barcode : "" \in b.encoding
      untold == (IF \A n \in DOMAIN c.colours : c.colours[n] \in 0..999 THEN {"colourSyntax"} ELSE {})
                \union (IF \A n \in DOMAIN c.assets : ~Exceeds(c.assets[n][1], n) THEN {"styleAssets"} ELSE {})
  IN  /\ built.ok => (VerifyPkPass(built.files, roots) = {} <=> Whole(material, roots) /\ ~unseen)
      /\ forced.ok => VerifyPkPass(forced.files, roots) \subseteq Rules
      /\ forced.ok => ValidateContent(c) \ untold \subseteq VerifyPkPass(forced.files, roots)

\* "A file present and unhashed fails on the device": no file of a pass can be
\* dropped, added, exchanged or changed without the checker saying so, but that
\* it overlooks one added by a name that every object inherits.
Altered(files, a) ==
  CASE a.op = "drop" -> [f \in DOMAIN files \ {a.file} |-> files[f]]
    [] a.op = "put" -> (a.file :> [strings |-> <<"other", "">>]) @@ files
    [] a.op = "copy" -> IF a.from \in DOMAIN files THEN (a.file :> files[a.from]) @@ files ELSE files
    [] a.op = "relist" -> [files EXCEPT ![ManifestFile] = BuildManifest(
                             [f \in DOMAIN files \ (Unhashed \union {a.file}) |-> files[f]])]

AlteredIsCaught(c, material, a) ==
  LET built == BuildPkPass(c, material, FALSE)
      altered == Altered(built.files, a)
      seen == [f \in DOMAIN altered \ Inherited |-> altered[f]]
  IN  built.ok => (VerifyPkPass(altered, {}) = {} <=> seen = built.files)
=============================================================================
