------------------------------ MODULE Accounts ------------------------------
(***************************************************************************)
(* packages/auth user.service.ts: the password and the status of one       *)
(* account.  A login reads the row, hashes for a tenth of a second or two, *)
(* and saves what it made of the row it had read.                          *)
(***************************************************************************)
EXTENDS Naturals

CONSTANTS
  Logins,          \* verifyPassword() calls that may be under way at once
  MaxPasswords,    \* bound on the passwords set
  MaxFailures,     \* maxFailedAttempts
  LockFor,         \* lockDurationMs
  MaxClock,        \* bound on time
  NoAccount        \* before it is created

VARIABLES
  account,         \* the row of mortar_user
  login,           \* where each login is, and its copy of the row
  clock,
  meant,           \* the password and the status last set
  wrong,           \* wrong passwords since a right one, a lock or a new one
  crossed,         \* a password or a status was set under a login that had read the row
  met              \* a login was saved under another that had read the row

accountVars == <<account, login, clock, meant, wrong, crossed, met>>

Passwords == 1..MaxPasswords
Guess == 0
Statuses == {"active", "suspended"}
Account == [password : Passwords, weak : BOOLEAN, failures : 0..MaxFailures,
            locked : 0..MaxClock + LockFor, status : Statuses]
Idle == [step |-> "idle"]

TypeOK ==
  /\ account \in Account \union {NoAccount}
  /\ \A l \in Logins : login[l] = Idle \/ login[l].row \in Account
  /\ clock \in 0..MaxClock /\ wrong \in Nat /\ {crossed, met} \subseteq BOOLEAN

Init ==
  /\ account = NoAccount /\ login = [l \in Logins |-> Idle]
  /\ clock = 0 /\ wrong = 0 /\ crossed = FALSE /\ met = FALSE
  /\ meant = [password |-> 1, status |-> "active"]

At(l, step) == login[l].step = step
Goes(l, to) == login' = [login EXCEPT ![l] = to]

Reading(but) == \E l \in Logins \ but : ~At(l, "idle")

----------------------------------------------------------------------------
Tick ==
  /\ clock < MaxClock
  /\ clock' = clock + 1
  /\ UNCHANGED <<account, login, meant, wrong, crossed, met>>

\* create(): one row to an address, by uq_user_email.  Hashes of earlier
\* releases are weaker than those made now.
Create ==
  /\ account = NoAccount
  /\ \E weak \in BOOLEAN :
       account' = [password |-> 1, weak |-> weak, failures |-> 0, locked |-> 0, status |-> "active"]
  /\ UNCHANGED <<login, clock, meant, wrong, crossed, met>>

\* verifyPassword(): a locked account is refused before anything is hashed.
Begin(l, given) ==
  /\ At(l, "idle") /\ account # NoAccount
  /\ account.locked <= clock
  /\ Goes(l, [step |-> "hashing", given |-> given, row |-> account])
  /\ UNCHANGED <<account, clock, meant, wrong, crossed, met>>

\* recordFailure(): the last of a run locks.
Failed(row) ==
  IF row.failures + 1 >= MaxFailures
  THEN [row EXCEPT !.locked = clock + LockFor, !.failures = 0]
  ELSE [row EXCEPT !.failures = @ + 1]

\* verify(): a hash is checked by the parameters it was made with, "so old
\* hashes verify against their own parameters"; and those weaker than the ones
\* made now are made again, once the password has proved right.
Verifies(l) == login[l].given = login[l].row.password
Rehashed(row) == IF row.weak THEN [row EXCEPT !.weak = FALSE] ELSE row
Welcomed(row) == [Rehashed(row) EXCEPT !.failures = 0, !.locked = 0]

Refuse(l) ==
  /\ At(l, "hashing") /\ ~Verifies(l)
  /\ Goes(l, [step |-> "saving", row |-> Failed(login[l].row)])
  /\ UNCHANGED <<account, clock, meant, wrong, crossed, met>>

\* One suspended is told so only when the password is right, and nothing is saved.
Welcome(l) ==
  /\ At(l, "hashing") /\ Verifies(l)
  /\ Goes(l, IF login[l].row.status = "suspended" THEN Idle
             ELSE [step |-> "saving", row |-> Welcomed(login[l].row)])
  /\ UNCHANGED <<account, clock, meant, wrong, crossed, met>>

\* save() reads the row again, to find the columns the copy changes ...
Compare(l) ==
  /\ At(l, "saving")
  /\ Goes(l, [step |-> "writing", row |-> login[l].row,
              columns |-> {c \in DOMAIN account : login[l].row[c] # account[c]}])
  /\ UNCHANGED <<account, clock, meant, wrong, crossed, met>>

\* ... and writes those.
Save(l) ==
  /\ At(l, "writing")
  /\ account' = [c \in DOMAIN account |->
                   IF c \in login[l].columns THEN login[l].row[c] ELSE account[c]]
  /\ met' = (met \/ Reading({l}))
  /\ wrong' = IF login[l].row.failures # 0 /\ ~met' THEN wrong + 1 ELSE 0
  /\ Goes(l, Idle)
  /\ UNCHANGED <<clock, meant, crossed>>

\* The process dies.
Drop(l) ==
  /\ ~At(l, "idle")
  /\ Goes(l, Idle)
  /\ UNCHANGED <<account, clock, meant, wrong, crossed, met>>

\* setPassword() writes what it hashed, and lifts the lock.
SetPassword(p) ==
  /\ account # NoAccount /\ p # meant.password
  /\ account' = [account EXCEPT !.password = p, !.weak = FALSE, !.failures = 0, !.locked = 0]
  /\ meant' = [meant EXCEPT !.password = p]
  /\ crossed' = (crossed \/ Reading({}))
  /\ wrong' = 0
  /\ UNCHANGED <<login, clock, met>>

SetStatus(status) ==
  /\ account # NoAccount /\ status # meant.status
  /\ account' = [account EXCEPT !.status = status]
  /\ meant' = [meant EXCEPT !.status = status]
  /\ crossed' = (crossed \/ Reading({}))
  /\ UNCHANGED <<login, clock, wrong, met>>

Next ==
  \/ Tick \/ Create
  \/ \E l \in Logins : \/ Refuse(l) \/ Welcome(l) \/ Compare(l) \/ Save(l) \/ Drop(l)
                       \/ \E given \in Passwords \union {Guess} : Begin(l, given)
  \/ \E p \in Passwords : SetPassword(p)
  \/ \E status \in Statuses : SetStatus(status)

Spec == Init /\ [][Next]_accountVars

----------------------------------------------------------------------------
\* The password and the status are the ones last set, however many logins try,
\* fail, lock and upgrade at once -- but for one that had read the row when it
\* was set, which saves the old ones back; and where logins follow one another,
\* no run of wrong passwords is longer than the lock allows.
LoginsKeepTheAccount ==
  account # NoAccount =>
    /\ ~crossed => account.password = meant.password /\ account.status = meant.status
    /\ ~met /\ ~crossed => wrong < MaxFailures
=============================================================================
