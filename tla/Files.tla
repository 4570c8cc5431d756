------------------------------- MODULE Files -------------------------------
(***************************************************************************)
(* files.service.ts for one file: the row, the object in the bucket, the   *)
(* browser that uploads it, the confirmations that read, scan and seal it, *)
(* and the erasures and sweeps that take it away.  The row and the bucket  *)
(* have no transaction in common, and a process may die between any steps. *)
(***************************************************************************)
EXTENDS Naturals

CONSTANTS
  Confirmers,      \* confirmUpload() calls that may be under way at once
  Keepers,         \* erasures and sweeps that may be under way at once
  Contents,        \* what may be uploaded: see Detected, Clean and Large
  NoFile,          \* before the row, and after it is swept away
  NoObject         \* in the bucket

VARIABLES
  file,            \* the row of the file
  object,          \* the bytes in the bucket
  product,         \* what the product asks: types it accepts, and sealing
  url,             \* the signed URL the browser uploads to still works
  confirmer,       \* where each confirmation is
  keeper,          \* where each erasure or sweep is
  taken,           \* a confirmation has read the bytes it is to scan
  late,            \* bytes were put after one had
  alone,           \* no two confirmations ever overlapped
  kept             \* no erasure or sweep ever began to take the file away

fileVars == <<file, object, product, url, confirmer, keeper, taken, late, alone, kept>>

States == {"pending", "scanning", "ready", "infected", "rejected"}
File == [state: States, encrypted: BOOLEAN, deleted: BOOLEAN]
Object == [content: Contents, seals: Nat]
Idle == [step |-> "idle"]

TypeOK ==
  /\ file \in File \union {NoFile}
  /\ object # NoObject => object.content \in Contents /\ object.seals \in Nat
  /\ product \in [accepts: BOOLEAN, seals: BOOLEAN]
  /\ DOMAIN confirmer = Confirmers /\ DOMAIN keeper = Keepers
  /\ late => taken
  /\ file = NoFile => ~taken \/ ~kept

Init ==
  /\ file = NoFile /\ object = NoObject /\ url = FALSE
  /\ product \in [accepts: BOOLEAN, seals: BOOLEAN]
  /\ confirmer = [c \in Confirmers |-> Idle]
  /\ keeper = [k \in Keepers |-> Idle]
  /\ taken = FALSE /\ late = FALSE /\ alone = TRUE /\ kept = TRUE

\* An UPDATE of a row that is gone changes nothing.
Write(row) == file' = IF file = NoFile THEN NoFile ELSE row

----------------------------------------------------------------------------
(* The upload *)

\* beginUpload() writes the row before there are bytes, and signs a URL they are
\* put to; store() has a row and a put of its own, as if the URL were used once.
Record ==
  /\ file = NoFile /\ kept
  /\ file' = [state |-> "pending", encrypted |-> FALSE, deleted |-> FALSE]
  /\ url' = TRUE
  /\ UNCHANGED <<object, product, confirmer, keeper, taken, late, alone, kept>>

\* The bytes come, and may come again for as long as the URL works: whatever
\* was confirmed, refused, erased or swept since it was signed.
Put(content) ==
  /\ url
  /\ object' = [content |-> content, seals |-> 0]
  /\ late' = taken
  /\ UNCHANGED <<file, product, url, confirmer, keeper, taken, alone, kept>>

\* The signature runs out: expiresInSeconds, or the storage's five minutes.
Expire ==
  /\ url
  /\ url' = FALSE
  /\ UNCHANGED <<file, object, product, confirmer, keeper, taken, late, alone, kept>>

----------------------------------------------------------------------------
(* confirmUpload() *)

At(c, step) == confirmer[c].step = step
Goes(c, to) == confirmer' = [confirmer EXCEPT ![c] = to]

\* Mutant of Confirmable: one left scanning may be taken up again.
ConfirmableAgain(row) == row.state \in {"pending", "scanning"}

\* A retried confirmation must not scan and seal what is finished.
Confirmable(row) == row.state = "pending"

Confirm(c) ==
  /\ At(c, "idle") /\ file # NoFile /\ Confirmable(file)
  /\ alone' = (alone /\ \A d \in Confirmers : At(d, "idle"))
  /\ Goes(c, [step |-> "head"])
  /\ UNCHANGED <<file, object, product, url, keeper, taken, late, kept>>

\* What arrived: nothing, which is an error; nothing in it; too much; or bytes
\* to look at.
Head(c) ==
  /\ At(c, "head")
  /\ IF object = NoObject THEN Goes(c, Idle) /\ UNCHANGED file
     ELSE IF object.content = "empty"
     THEN Goes(c, Idle) /\ Write([file EXCEPT !.state = "rejected"])
     ELSE IF object.content = "large"
     THEN Goes(c, [step |-> "delete", verdict |-> "rejected"]) /\ UNCHANGED file
     ELSE Goes(c, [step |-> "get"]) /\ Write([file EXCEPT !.state = "scanning"])
  /\ UNCHANGED <<object, product, url, keeper, taken, late, alone, kept>>

\* Sealed bytes are of no type detectType() knows.
Detected(bytes) == bytes.content # "odd" /\ bytes.seals = 0

Get(c) ==
  /\ At(c, "get")
  /\ taken' = (taken \/ object # NoObject)
  /\ Goes(c, IF object = NoObject THEN Idle
             ELSE IF product.accepts /\ ~Detected(object)
             THEN [step |-> "delete", verdict |-> "rejected"]
             ELSE [step |-> "scan", bytes |-> object])
  /\ UNCHANGED <<file, object, product, url, keeper, late, alone, kept>>

\* The scanner knows what it is looking for where it is not sealed.
Clean(bytes) == bytes.content # "infected" \/ bytes.seals > 0

Scan(c) ==
  /\ At(c, "scan")
  /\ Goes(c, IF ~Clean(confirmer[c].bytes) THEN [step |-> "delete", verdict |-> "infected"]
             ELSE [step |-> IF product.seals THEN "seal" ELSE "ready", bytes |-> confirmer[c].bytes])
  /\ UNCHANGED <<file, object, product, url, keeper, taken, late, alone, kept>>

\* The bytes go, then the row says why.
Delete(c) ==
  /\ At(c, "delete")
  /\ object' = NoObject
  /\ Goes(c, [step |-> "refuse", verdict |-> confirmer[c].verdict])
  /\ UNCHANGED <<file, product, url, keeper, taken, late, alone, kept>>

Refuse(c) ==
  /\ At(c, "refuse")
  /\ Write([file EXCEPT !.state = confirmer[c].verdict])
  /\ Goes(c, Idle)
  /\ UNCHANGED <<object, product, url, keeper, taken, late, alone, kept>>

Seal(c) ==
  /\ At(c, "seal")
  /\ object' = [content |-> confirmer[c].bytes.content, seals |-> confirmer[c].bytes.seals + 1]
  /\ Goes(c, [step |-> "ready", bytes |-> confirmer[c].bytes])
  /\ UNCHANGED <<file, product, url, keeper, taken, late, alone, kept>>

Ready(c) ==
  /\ At(c, "ready")
  /\ Write([file EXCEPT !.state = "ready", !.encrypted = product.seals])
  /\ Goes(c, Idle)
  /\ UNCHANGED <<object, product, url, keeper, taken, late, alone, kept>>

\* A call to the storage, the scanner or the database fails, or the process dies.
Stop(c) ==
  /\ ~At(c, "idle")
  /\ Goes(c, Idle)
  /\ UNCHANGED <<file, object, product, url, keeper, taken, late, alone, kept>>

----------------------------------------------------------------------------
(* erase(), sweepExpired() and sweepAbandoned() *)

Due(kind) ==
  /\ file # NoFile
  /\ IF kind = "abandon" THEN file.state = "pending" ELSE ~file.deleted

Find(k, kind) ==
  /\ keeper[k] = Idle /\ Due(kind)
  /\ keeper' = [keeper EXCEPT ![k] = [step |-> "take", kind |-> kind]]
  /\ kept' = FALSE
  /\ UNCHANGED <<file, object, product, url, confirmer, taken, late, alone>>

Take(k) ==
  /\ keeper[k].step = "take"
  /\ object' = NoObject
  /\ keeper' = [keeper EXCEPT ![k].step = "mark"]
  /\ UNCHANGED <<file, product, url, confirmer, taken, late, alone, kept>>

\* The row stays and says when, or goes with an upload nobody finished.
Mark(k) ==
  /\ keeper[k].step = "mark"
  /\ IF keeper[k].kind = "abandon" THEN file' = NoFile
     ELSE Write([file EXCEPT !.deleted = TRUE])
  /\ keeper' = [keeper EXCEPT ![k] = Idle]
  /\ UNCHANGED <<object, product, url, confirmer, taken, late, alone, kept>>

Give(k) ==
  /\ keeper[k] # Idle
  /\ keeper' = [keeper EXCEPT ![k] = Idle]
  /\ UNCHANGED <<file, object, product, url, confirmer, taken, late, alone, kept>>

Next ==
  \/ Record \/ Expire
  \/ \E content \in Contents : Put(content)
  \/ \E c \in Confirmers : \/ Confirm(c) \/ Head(c) \/ Get(c) \/ Scan(c) \/ Delete(c)
                           \/ Refuse(c) \/ Seal(c) \/ Ready(c) \/ Stop(c)
  \/ \E k \in Keepers : \/ \E kind \in {"erase", "abandon"} : Find(k, kind)
                        \/ Take(k) \/ Mark(k) \/ Give(k)

Spec == Init /\ [][Next]_fileVars

----------------------------------------------------------------------------
(* What is expected of it *)

\* read() answers: the row is ready, and what it says was sealed opens.
Readable ==
  /\ file # NoFile /\ file.state = "ready" /\ object # NoObject
  /\ file.encrypted => object.seals > 0

\* Nothing a scanner would have refused can be read, however confirmations,
\* erasures, sweeps, crashes and further uploads meet: of a sealed file never,
\* and of one that is not while the bytes there are those a confirmation found.
\* Where confirmations did not overlap, nobody took the file away and no upload
\* came after the scan, a file that is ready is there, and read() undoes exactly
\* the sealing it has.
ReadyIsScannedAndWhole ==
  /\ Readable /\ (file.encrypted \/ ~late) => object.content # "infected"
  /\ file # NoFile /\ file.state = "ready" /\ alone /\ kept /\ ~late =>
       /\ object # NoObject
       /\ object.seals = IF file.encrypted THEN 1 ELSE 0

=============================================================================
