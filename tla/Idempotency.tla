----------------------------- MODULE Idempotency -----------------------------
(***************************************************************************)
(* packages/idempotency: a claim on a key (service.ts), carried through    *)
(* the transactions of the handler it was claimed for (claim-in-flight.ts, *)
(* joinCommits in packages/database) by the interceptor.                   *)
(*                                                                         *)
(* One row per key stands for the (tenant, scope, key) of its unique index.*)
(* A request begins once, so the row it inserts is identified by it; a     *)
(* client's retry is another request with the same key.                    *)
(***************************************************************************)
EXTENDS Naturals, FiniteSets

CONSTANTS
    Requests,       \* the HTTP requests that carry a key
    Keys,           \* the (tenant, scope, key) triples
    Prints,         \* the fingerprints of request payloads
    KeyOf,          \* the key each request carries
    PrintOf,        \* the fingerprint of each request's payload
    LockTimeout,    \* lockTimeoutMs
    Ttl,            \* ttlMs
    MaxTime,        \* bound on the clock
    MaxTx,          \* per request, a bound on the transactions it commits
    HandlersInTime, \* whether every request ends within LockTimeout
    NoRow,          \* no row holds the key
    Nobody          \* nobody holds the row's lock

Statuses == {"in_progress", "completed"}

\* IdempotencyRecord, less the three columns Keys stands for; `body` says
\* whether the response, or only its status, is there to replay.
Row == [id : Requests, print : Prints, status : Statuses,
        body : {"null", "response"}, claimedAt : Nat, expiresAt : Nat]

ASSUME KeysAssumption ==
    /\ KeyOf \in [Requests -> Keys]
    /\ PrintOf \in [Requests -> Prints]
    /\ NoRow \notin Row
    /\ Nobody \notin Requests

ASSUME TimesAssumption ==
    /\ LockTimeout \in Nat
    /\ Ttl \in Nat
    /\ LockTimeout < Ttl
    /\ MaxTime \in Nat
    /\ MaxTx \in [Requests -> Nat]
    /\ HandlersInTime \in BOOLEAN

VARIABLES
    row,        \* the idempotency table: per key, its committed row
    lock,       \* per key, the request whose open transaction locks the row
    pc,         \* where each request is
    stamp,      \* the `now` each request read as it began
    tx,         \* the transaction its handler has open
    settled,    \* ClaimInFlight.settled
    done,       \* ClaimInFlight.done
    work,       \* transactions with writes each handler has committed
    answer,     \* the request whose stored answer each replay repeats
    now         \* the clock

vars == <<row, lock, pc, stamp, tx, settled, done, work, answer, now>>

Live == {"selecting", "inserting", "handling", "storing", "releasing"}
Over == {"answered", "replayed", "refused", "failed", "dead"}

Places == {"idle"} \union Live \union Over

\* The states of the handler's own transaction: none, open and so far only
\* read, written to, and ready to commit after the claim has joined it.
TxStates == {"none", "open", "wrote", "joined", "marked", "missed"}

TypeOK ==
    /\ row \in [Keys -> Row \union {NoRow}]
    /\ lock \in [Keys -> Requests \union {Nobody}]
    /\ pc \in [Requests -> Places]
    /\ stamp \in [Requests -> Nat]
    /\ tx \in [Requests -> TxStates]
    /\ settled \in [Requests -> BOOLEAN]
    /\ done \in [Requests -> BOOLEAN]
    /\ work \in [Requests -> Nat]
    /\ answer \in [Requests -> Requests \union {Nobody}]
    /\ now \in Nat

Init ==
    /\ row = [k \in Keys |-> NoRow]
    /\ lock = [k \in Keys |-> Nobody]
    /\ pc = [r \in Requests |-> "idle"]
    /\ stamp = [r \in Requests |-> 0]
    /\ tx = [r \in Requests |-> "none"]
    /\ settled = [r \in Requests |-> FALSE]
    /\ done = [r \in Requests |-> FALSE]
    /\ work = [r \in Requests |-> 0]
    /\ answer = [r \in Requests |-> Nobody]
    /\ now = 0

------------------------------------------------------------------------------
(* The claim: IdempotencyService.begin, a transaction of its own.          *)

Held(k) == row[k] # NoRow
Owns(r) == Held(KeyOf[r]) /\ row[KeyOf[r]].id = r

\* Mutants of Decision: the age of a claim looked at before its status, and
\* the payloads never compared.
DecisionByAge(e, print, at) ==
    CASE e.expiresAt <= at \/ at > e.claimedAt + LockTimeout -> "takeover"
      [] OTHER -> IF e.print # print THEN "mismatch"
                  ELSE IF e.status = "completed" THEN "replay" ELSE "conflict"

DecisionAnyPayload(e, print, at) ==
    IF e.expiresAt <= at THEN "takeover"
    ELSE IF e.status = "completed" THEN "replay"
    ELSE IF at > e.claimedAt + LockTimeout THEN "takeover" ELSE "conflict"

\* evaluate(), in its order: an expired row is taken over whatever it holds,
\* then the payload is compared, and only then the status and its age.
Decision(e, print, at) ==
    CASE e.expiresAt <= at -> "takeover"
      [] e.expiresAt > at /\ e.print # print -> "mismatch"
      [] e.expiresAt > at /\ e.print = print /\ e.status = "completed" -> "replay"
      [] e.expiresAt > at /\ e.print = print /\ e.status = "in_progress" ->
            IF at > e.claimedAt + LockTimeout THEN "takeover" ELSE "conflict"

\* Mutant of NewRow: the key stored in the fingerprint's column.
NewRowSwapped(r) ==
    [id |-> r, print |-> KeyOf[r], status |-> "in_progress", body |-> "null",
     claimedAt |-> stamp[r], expiresAt |-> stamp[r] + Ttl]

NewRow(r) ==
    [id |-> r, print |-> PrintOf[r], status |-> "in_progress", body |-> "null",
     claimedAt |-> stamp[r], expiresAt |-> stamp[r] + Ttl]

\* begin() reads the clock before it reads, or waits for, the row.
Arrive(r) ==
    /\ pc[r] = "idle"
    /\ pc' = [pc EXCEPT ![r] = "selecting"]
    /\ stamp' = [stamp EXCEPT ![r] = now]
    /\ UNCHANGED <<row, lock, tx, settled, done, work, answer, now>>

\* SELECT ... FOR UPDATE finds no row: nothing is locked.
SelectNone(r) ==
    /\ pc[r] = "selecting"
    /\ ~Held(KeyOf[r])
    /\ pc' = [pc EXCEPT ![r] = "inserting"]
    /\ UNCHANGED <<row, lock, stamp, tx, settled, done, work, answer, now>>

\* It finds one, once no other transaction holds it: the decision either ends
\* the request, or keeps the row locked for the takeover.
SelectHeld(r) ==
    LET k == KeyOf[r]
        d == Decision(row[k], PrintOf[r], stamp[r])
    IN  /\ pc[r] = "selecting"
        /\ Held(k)
        /\ lock[k] = Nobody
        /\ \/ /\ d \in {"mismatch", "conflict"}
              /\ pc' = [pc EXCEPT ![r] = "refused"]
              /\ UNCHANGED <<lock, answer>>
           \/ /\ d = "replay"
              /\ pc' = [pc EXCEPT ![r] = "replayed"]
              /\ answer' = [answer EXCEPT ![r] = row[k].id]
              /\ UNCHANGED lock
           \/ /\ d = "takeover"
              /\ pc' = [pc EXCEPT ![r] = "inserting"]
              /\ lock' = [lock EXCEPT ![k] = r]
              /\ UNCHANGED answer
        /\ UNCHANGED <<row, stamp, tx, settled, done, work, now>>

\* The locked row, if any, is removed, the claim inserted and all committed.
Claim(r) ==
    LET k == KeyOf[r]
    IN  /\ pc[r] = "inserting"
        /\ lock[k] = r \/ ~Held(k)
        /\ row' = [row EXCEPT ![k] = NewRow(r)]
        /\ lock' = [lock EXCEPT ![k] = Nobody]
        /\ pc' = [pc EXCEPT ![r] = "handling"]
        /\ UNCHANGED <<stamp, tx, settled, done, work, answer, now>>

\* Another request inserted the key first: the unique index refuses this one,
\* after waiting for whoever holds that row.
Duplicate(r) ==
    LET k == KeyOf[r]
    IN  /\ pc[r] = "inserting"
        /\ Held(k)
        /\ lock[k] = Nobody
        /\ pc' = [pc EXCEPT ![r] = "refused"]
        /\ UNCHANGED <<row, lock, stamp, tx, settled, done, work, answer, now>>

------------------------------------------------------------------------------
(* The handler, and the claim that joins each transaction it commits.      *)

Open(r) ==
    /\ pc[r] = "handling"
    /\ tx[r] = "none"
    /\ work[r] < MaxTx[r]
    /\ tx' = [tx EXCEPT ![r] = "open"]
    /\ UNCHANGED <<row, lock, pc, stamp, settled, done, work, answer, now>>

Write(r) ==
    /\ tx[r] = "open"
    /\ tx' = [tx EXCEPT ![r] = "wrote"]
    /\ UNCHANGED <<row, lock, pc, stamp, settled, done, work, answer, now>>

\* participant(): the last statement before the commit.  It leaves alone a
\* transaction that wrote nothing, and one committed after the key was done.
Join(r) ==
    /\ tx[r] \in {"open", "wrote"}
    /\ tx[r] = "open" \/ settled[r] \/ done[r]
    /\ tx' = [tx EXCEPT ![r] = IF tx[r] = "open" THEN "none" ELSE "joined"]
    /\ UNCHANGED <<row, lock, pc, stamp, settled, done, work, answer, now>>

\* Mutant of MarkDone: the claim never joins, and complete() alone is to
\* finish the key, in a transaction after the work's.
MarkDoneLater(r) ==
    /\ tx[r] = "wrote"
    /\ ~settled[r] /\ ~done[r]
    /\ tx' = [tx EXCEPT ![r] = "missed"]
    /\ UNCHANGED <<row, lock, pc, stamp, settled, done, work, answer, now>>

\* markDone(): UPDATE ... WHERE id = the claim's AND status = 'in_progress'
\* locks the row it finds; finding none is not an error.
MarkDone(r) ==
    LET k == KeyOf[r]
        found == Owns(r) /\ row[k].status = "in_progress"
    IN  /\ tx[r] = "wrote"
        /\ ~settled[r] /\ ~done[r]
        /\ found => lock[k] = Nobody
        /\ tx' = [tx EXCEPT ![r] = IF found THEN "marked" ELSE "missed"]
        /\ lock' = IF found THEN [lock EXCEPT ![k] = r] ELSE lock
        /\ UNCHANGED <<row, pc, stamp, settled, done, work, answer, now>>

\* The commit: the work, and with it the row markDone() updated; then the
\* participant's own callback, whether or not it had found the row.
Commit(r) ==
    LET k == KeyOf[r]
    IN  /\ tx[r] \in {"joined", "marked", "missed"}
        /\ work' = [work EXCEPT ![r] = @ + 1]
        /\ done' = IF tx[r] = "joined" THEN done ELSE [done EXCEPT ![r] = TRUE]
        /\ tx' = [tx EXCEPT ![r] = "none"]
        /\ IF tx[r] = "marked"
           THEN /\ row' = [row EXCEPT ![k] = [@ EXCEPT !.status = "completed"]]
                /\ lock' = [lock EXCEPT ![k] = Nobody]
           ELSE UNCHANGED <<row, lock>>
        /\ UNCHANGED <<pc, stamp, settled, answer, now>>

\* Mutant of Unlocked: the connection goes back to the pool with its
\* transaction still open.
StillLocked(r) == lock

Unlocked(r) == [k \in Keys |-> IF lock[k] = r THEN Nobody ELSE lock[k]]

\* The work, the participant or the commit throws: all of it is rolled back,
\* and the handler goes on, by catching the error or by failing with it.
Rollback(r) ==
    /\ tx[r] # "none"
    /\ tx' = [tx EXCEPT ![r] = "none"]
    /\ lock' = Unlocked(r)
    /\ UNCHANGED <<row, pc, stamp, settled, done, work, answer, now>>

------------------------------------------------------------------------------
(* The end of the handler: ClaimInFlight.succeeded and .failed.            *)

Return(r) ==
    /\ pc[r] = "handling"
    /\ tx[r] = "none"
    /\ pc' = [pc EXCEPT ![r] = "storing"]
    /\ settled' = [settled EXCEPT ![r] = TRUE]
    /\ UNCHANGED <<row, lock, stamp, tx, done, work, answer, now>>

\* complete(): UPDATE ... WHERE id = the claim's, a statement of its own.
Store(r) ==
    LET k == KeyOf[r]
    IN  /\ pc[r] = "storing"
        /\ Owns(r) => lock[k] = Nobody
        /\ row' = IF Owns(r)
                  THEN [row EXCEPT ![k] = [@ EXCEPT !.status = "completed",
                                                    !.body = "response"]]
                  ELSE row
        /\ pc' = [pc EXCEPT ![r] = "answered"]
        /\ UNCHANGED <<lock, stamp, tx, settled, done, work, answer, now>>

\* The response cannot be stored: swallowed once the key stands for the work.
StoreFails(r) ==
    /\ pc[r] = "storing"
    /\ pc' = [pc EXCEPT ![r] = IF done[r] THEN "answered" ELSE "failed"]
    /\ UNCHANGED <<row, lock, stamp, tx, settled, done, work, answer, now>>

Throw(r) ==
    /\ pc[r] = "handling"
    /\ tx[r] = "none"
    /\ settled' = [settled EXCEPT ![r] = TRUE]
    /\ pc' = [pc EXCEPT ![r] = IF done[r] THEN "failed" ELSE "releasing"]
    /\ UNCHANGED <<row, lock, stamp, tx, done, work, answer, now>>

\* release(): DELETE ... WHERE id = the claim's AND status = 'in_progress'.
Release(r) ==
    LET k == KeyOf[r]
        found == Owns(r) /\ row[k].status = "in_progress"
    IN  /\ pc[r] = "releasing"
        /\ found => lock[k] = Nobody
        /\ row' = IF found THEN [row EXCEPT ![k] = NoRow] ELSE row
        /\ pc' = [pc EXCEPT ![r] = "failed"]
        /\ UNCHANGED <<lock, stamp, tx, settled, done, work, answer, now>>

\* A release that fails is swallowed: the claim waits for the lock timeout.
ReleaseFails(r) ==
    /\ pc[r] = "releasing"
    /\ pc' = [pc EXCEPT ![r] = "failed"]
    /\ UNCHANGED <<row, lock, stamp, tx, settled, done, work, answer, now>>

\* The process dies: its open transaction is rolled back, its claim stays.
Crash(r) ==
    /\ pc[r] \in Live
    /\ pc' = [pc EXCEPT ![r] = "dead"]
    /\ tx' = [tx EXCEPT ![r] = "none"]
    /\ lock' = Unlocked(r)
    /\ UNCHANGED <<row, stamp, settled, done, work, answer, now>>

------------------------------------------------------------------------------
(* purgeExpired(), run on a schedule, and the clock.                       *)

Expired(k) == Held(k) /\ row[k].expiresAt < now

Purge ==
    /\ \E k \in Keys : Expired(k)
    /\ \A k \in Keys : Expired(k) => lock[k] = Nobody
    /\ row' = [k \in Keys |-> IF Expired(k) THEN NoRow ELSE row[k]]
    /\ UNCHANGED <<lock, pc, stamp, tx, settled, done, work, answer, now>>

InTime(r) == pc[r] \in {"selecting", "inserting", "handling"}
                => now < stamp[r] + LockTimeout

Tick ==
    /\ now < MaxTime
    /\ HandlersInTime => \A r \in Requests : InTime(r)
    /\ now' = now + 1
    /\ UNCHANGED <<row, lock, pc, stamp, tx, settled, done, work, answer>>

Progress(r) ==
    \/ SelectNone(r) \/ SelectHeld(r) \/ Claim(r) \/ Duplicate(r)
    \/ Write(r) \/ Join(r) \/ MarkDone(r) \/ Commit(r)
    \/ Store(r) \/ StoreFails(r) \/ Release(r) \/ ReleaseFails(r)

Handler(r) == Open(r) \/ Rollback(r) \/ Return(r) \/ Throw(r)

Next ==
    \/ \E r \in Requests :
          Arrive(r) \/ Progress(r) \/ Handler(r) \/ Crash(r)
    \/ Purge
    \/ Tick

Spec == Init /\ [][Next]_vars

\* Node runs every ready continuation and Postgres answers every statement; a
\* handler, however many transactions it opens, ends.  Nobody has to crash.
Fairness ==
    \A r \in Requests : WF_vars(Progress(r)) /\ SF_vars(Return(r) \/ Throw(r))

FairSpec == Spec /\ Fairness

------------------------------------------------------------------------------
(* What the package is for.                                                *)

Unexpired(r) == now < stamp[r] + Ttl

\* While a key is kept, it stands for the work done under it: from the first
\* transaction its handler commits, through a failed handler, a crash, a
\* takeover or a purge, the row is that request's and says completed, so every
\* repeat is answered and none is let through to do the work again.
KeySpent ==
    \A r \in Requests :
        work[r] > 0 /\ Unexpired(r)
            => Owns(r) /\ row[KeyOf[r]].status = "completed"

\* A replay repeats a request with the same key and payload, and one that did
\* its work or was answered: never a claim that was released or abandoned.
ReplayIsEarned ==
    \A r \in Requests :
        answer[r] # Nobody =>
            LET s == answer[r]
            IN  /\ KeyOf[s] = KeyOf[r]
                /\ PrintOf[s] = PrintOf[r]
                /\ work[s] > 0 \/ pc[s] = "answered"

\* "The key and that work commit together or not at all" (claim-in-flight.ts,
\* lines 11-13): the first transaction a handler commits its work in leaves
\* its key completed.
KeyAndWorkTogether ==
    [][\A r \in Requests :
          work[r] = 0 /\ work'[r] > 0
            => /\ row'[KeyOf[r]] # NoRow
               /\ row'[KeyOf[r]].id = r
               /\ row'[KeyOf[r]].status = "completed"]_vars

\* Nobody waits for ever: begins queue behind row locks, commits behind begins,
\* and still every request that arrives is answered, refused or has failed.
EveryRequestEnds ==
    \A r \in Requests : (pc[r] = "selecting") ~> (pc[r] \in Over)

SpentBy(k) ==
    IF Held(k) /\ work[row[k].id] > 0 /\ row[k].status = "completed"
    THEN row[k].id ELSE Nobody

Once == INSTANCE OncePerKey WITH
    spent  <- [k \in Keys |-> SpentBy(k)],
    until  <- [k \in Keys |-> IF SpentBy(k) = Nobody THEN 0 ELSE row[k].expiresAt],
    worked <- {r \in Requests : work[r] > 0},
    clock  <- now

\* Under one key at most one request does work while the key is kept: the
\* claims, locks, takeovers and releases implement OncePerKey.
WorkOncePerKey == Once!Spec

------------------------------------------------------------------------------
(* Why TypeOK and ReplayIsEarned hold, and KeySpent when every request     *)
(* ends in time: the parts of the inductive invariants.                    *)

\* Only a handler has a transaction open, and one that has marked its key
\* holds the row it will complete.
MarkedRows ==
    \A r \in Requests :
        /\ tx[r] # "none" => pc[r] = "handling"
        /\ tx[r] = "marked" => Held(KeyOf[r]) /\ lock[KeyOf[r]] = r

\* A row says completed only for a request that did its work or stored its
\* response; a transaction that marked its row still owns it.
Earned ==
    /\ \A k \in Keys :
          Held(k) => /\ KeyOf[row[k].id] = k
                     /\ row[k].print = PrintOf[row[k].id]
                     /\ row[k].status = "completed"
                           => work[row[k].id] > 0 \/ pc[row[k].id] = "answered"
    /\ \A r \in Requests : tx[r] = "marked" => Owns(r)

Times ==
    \A r \in Requests :
        /\ stamp[r] <= now
        /\ pc[r] \in {"selecting", "inserting", "handling"}
              => now <= stamp[r] + LockTimeout

Rows ==
    \A k \in Keys :
        Held(k) => /\ KeyOf[row[k].id] = k
                   /\ row[k].print = PrintOf[row[k].id]
                   /\ row[k].claimedAt = stamp[row[k].id]
                   /\ row[k].expiresAt = stamp[row[k].id] + Ttl
                   /\ pc[row[k].id] \notin {"idle", "selecting", "inserting"}

Handlings ==
    \A r \in Requests :
        pc[r] = "handling" =>
            /\ Owns(r)
            /\ ~done[r] => row[KeyOf[r]].status = "in_progress"

Transactions ==
    \A r \in Requests :
        /\ tx[r] # "missed"
        /\ tx[r] = "joined" => done[r]
        /\ tx[r] = "marked" => ~done[r]

\* A row a begin holds locked is one it may take over.
Locks ==
    \A k \in Keys :
        lock[k] # Nobody =>
            /\ KeyOf[lock[k]] = k
            /\ Held(k)
            /\ \/ tx[lock[k]] = "marked"
               \/ /\ pc[lock[k]] = "inserting"
                  /\ \/ row[k].expiresAt <= now
                     \/ /\ row[k].status = "in_progress"
                        /\ row[k].claimedAt + LockTimeout < now

Flags ==
    \A r \in Requests :
        /\ done[r] <=> work[r] > 0
        /\ pc[r] \in {"idle", "selecting", "inserting"} => ~done[r]
        /\ pc[r] \in {"idle", "selecting", "inserting", "handling"} => ~settled[r]

\* A row never stands in progress for a request that has done its work.
Completed ==
    \A r \in Requests :
        Owns(r) /\ work[r] > 0 => row[KeyOf[r]].status = "completed"

IInv ==
    /\ TypeOK
    /\ MarkedRows
    /\ Times
    /\ Rows
    /\ Handlings
    /\ Transactions
    /\ Locks
    /\ Flags
    /\ Completed
    /\ KeySpent
==============================================================================
