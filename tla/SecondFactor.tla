--------------------------- MODULE SecondFactor ---------------------------
(***************************************************************************)
(* packages/auth second-factor.service.ts for one account: enrolment, the  *)
(* check of app and recovery codes under the lock of the account's row,    *)
(* and the count of wrong ones.                                            *)
(***************************************************************************)
EXTENDS Naturals

CONSTANTS
  Requests,        \* requests that may hold the row at once, or try to
  Window,          \* time steps either side of now that a code may be for
  MaxFailures,     \* wrong codes before the lock
  LockSteps,       \* how long the lock lasts
  MaxClock,        \* bound on time, in steps of thirty seconds
  MaxSecrets,      \* bound on the enrolments begun
  NoFactor         \* of an account with none

VARIABLES
  factor,          \* the account's row
  holder,          \* the requests that hold its lock
  request,         \* where each request is
  clock, secrets,  \* time, and the secrets and sets of recovery codes made
  used,            \* codes accepted so far
  twice,           \* one of them was accepted again
  wrong            \* wrong codes since the last right one, lock or removal

factorVars == <<factor, holder, request, clock, secrets, used, twice, wrong>>

Code == [kind: {"totp"}, secret: 1..MaxSecrets, step: 0..MaxClock+Window]
          \union [kind: {"recovery"}, set: 1..MaxSecrets]
Wrong == [kind |-> "wrong"]

\* Steps are kept one up: `last` is 0 where none was used.
Factor == [secret: 1..MaxSecrets, confirmed: BOOLEAN, last: 0..MaxClock+Window+1,
           recovery: SUBSET (1..MaxSecrets), failures: 0..MaxFailures-1,
           locked: 0..MaxClock+LockSteps]
Idle == [op |-> "none"]

TypeOK ==
  /\ factor \in Factor \union {NoFactor}
  /\ holder = {r \in Requests : request[r] # Idle}
  /\ clock \in 0..MaxClock /\ secrets \in 0..MaxSecrets
  /\ used \subseteq Code /\ twice \in BOOLEAN /\ wrong \in Nat
  /\ factor # NoFactor /\ factor.recovery # {} => factor.confirmed

Init ==
  /\ factor = NoFactor /\ holder = {}
  /\ request = [r \in Requests |-> Idle]
  /\ clock = 0 /\ secrets = 0
  /\ used = {} /\ twice = FALSE /\ wrong = 0

\* SELECT ... FOR UPDATE, and what an UPDATE or a DELETE waits for.
CanLock == holder = {}

----------------------------------------------------------------------------
Tick ==
  /\ clock < MaxClock
  /\ clock' = clock + 1
  /\ UNCHANGED <<factor, holder, request, secrets, used, twice, wrong>>

\* begin(): the row made if there is none, held, and given a new secret; one
\* that is confirmed is refused, and nothing changes.
Enrol ==
  /\ CanLock /\ secrets < MaxSecrets
  /\ IF factor = NoFactor
     THEN factor' = [secret |-> secrets + 1, confirmed |-> FALSE, last |-> 0,
                     recovery |-> {}, failures |-> 0, locked |-> 0]
     ELSE ~factor.confirmed /\ factor' = [factor EXCEPT !.secret = secrets + 1]
  /\ secrets' = secrets + 1
  /\ UNCHANGED <<holder, request, clock, used, twice, wrong>>

\* checked(): the row is read under its lock, by a request that came at some
\* time before; it goes no further where there is none, where it is locked out,
\* or where it is confirmed and the request confirms, or the other way about.
Lock(r, op, code, now) ==
  /\ request[r] = Idle /\ factor # NoFactor /\ CanLock
  /\ factor.locked <= now
  /\ factor.confirmed = (op # "confirm")
  /\ holder' = holder \union {r}
  /\ request' = [request EXCEPT ![r] = [op |-> op, code |-> code, now |-> now, row |-> factor]]
  /\ UNCHANGED <<factor, clock, secrets, used, twice, wrong>>

\* stepOf(): a code of the app's for a time near now, and later than the last.
Fresh(row, code, now) ==
  /\ code.kind = "totp" /\ code.secret = row.secret
  /\ code.step <= now + Window /\ now <= code.step + Window
  /\ code.step + 1 > row.last

Recovers(row, op, code) ==
  op = "verify" /\ code.kind = "recovery" /\ code.set \in row.recovery

Right(r) ==
  LET asks == request[r] IN
  Fresh(asks.row, asks.code, asks.now) \/ Recovers(asks.row, asks.op, asks.code)

\* An UPDATE by userId, then the COMMIT that lets the row go.
Write(r, row) ==
  /\ factor' = IF factor = NoFactor THEN NoFactor ELSE row
  /\ holder' = holder \ {r}
  /\ request' = [request EXCEPT ![r] = Idle]

\* A right code is written as used and clears the count; confirm() and
\* renewRecoveryCodes() make recovery codes.
Accept(r) ==
  /\ request[r] # Idle /\ Right(r)
  /\ LET asks == request[r]
         cleared == [factor EXCEPT !.failures = 0, !.locked = 0]
     IN  /\ twice' = (twice \/ asks.code \in used)
         /\ used' = used \union {asks.code}
         /\ IF asks.op = "verify"
            THEN /\ Write(r, IF asks.code.kind = "recovery"
                             THEN [cleared EXCEPT !.recovery = asks.row.recovery \ {asks.code.set}]
                             ELSE [cleared EXCEPT !.last = asks.code.step + 1])
                 /\ UNCHANGED secrets
            ELSE /\ secrets < MaxSecrets /\ secrets' = secrets + 1
                 /\ Write(r, [cleared EXCEPT !.last = asks.code.step + 1, !.confirmed = TRUE,
                                             !.recovery = {secrets + 1}])
  /\ wrong' = 0
  /\ UNCHANGED clock

\* A wrong one is counted, and the last of a run locks; the count commits
\* before the error is thrown.
Refuse(r) ==
  /\ request[r] # Idle /\ ~Right(r)
  /\ LET failures == request[r].row.failures + 1 IN
     IF failures >= MaxFailures
     THEN /\ Write(r, [factor EXCEPT !.failures = 0, !.locked = request[r].now + LockSteps])
          /\ wrong' = 0
     ELSE /\ Write(r, [factor EXCEPT !.failures = failures, !.locked = 0])
          /\ wrong' = wrong + 1
  /\ UNCHANGED <<clock, secrets, used, twice>>

Remove ==
  /\ factor # NoFactor /\ CanLock
  /\ factor' = NoFactor
  /\ wrong' = 0
  /\ UNCHANGED <<holder, request, clock, secrets, used, twice>>

\* A request dies before it commits.
Stop(r) ==
  /\ request[r] # Idle
  /\ Write(r, factor)
  /\ UNCHANGED <<clock, secrets, used, twice, wrong>>

Checks == {"confirm", "verify", "renew"}
Typed == {Wrong} \union {code \in Code :
            IF code.kind = "totp" THEN code.secret <= secrets ELSE code.set <= secrets}

Next ==
  \/ Tick \/ Enrol \/ Remove
  \/ \E r \in Requests :
       \/ Accept(r) \/ Refuse(r) \/ Stop(r)
       \/ \E op \in Checks, code \in Typed, now \in 0..clock : Lock(r, op, code, now)

Spec == Init /\ [][Next]_factorVars

----------------------------------------------------------------------------
\* A code proves the phone once: whoever saw it typed, or asks at the same
\* moment, is refused; and the wrong codes that many requests try at once are
\* all counted, so that no run of them is longer than the lock allows.
CodesOnceAndCounted == ~twice /\ wrong < MaxFailures
=============================================================================
