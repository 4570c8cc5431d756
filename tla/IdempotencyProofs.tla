-------------------------- MODULE IdempotencyProofs --------------------------
(***************************************************************************)
(* Theorems about Idempotency, for any number of requests, keys and        *)
(* payloads, any timeouts and any handlers.                                *)
(***************************************************************************)
EXTENDS Idempotency, TLAPS

\* Every row, lock, claim and transaction keeps its type, and a handler that
\* has marked its key done still holds the row that it will complete.
THEOREM TypeCorrect == Spec => [](TypeOK /\ MarkedRows)
<1> USE KeysAssumption, TimesAssumption
<1> DEFINE Inv == TypeOK /\ MarkedRows
<1>1. Init => Inv
  BY DEF Init, TypeOK, Places, Live, Over, TxStates, MarkedRows
<1>2. Inv /\ [Next]_vars => Inv'
  <2> SUFFICES ASSUME TypeOK, MarkedRows, [Next]_vars PROVE TypeOK' /\ MarkedRows'
    OBVIOUS
  <2> USE DEF TypeOK, MarkedRows, Held, Places, Live, Over, TxStates, Row, Statuses
  <2>1. ASSUME NEW r \in Requests, Arrive(r) PROVE TypeOK' /\ MarkedRows'
    BY <2>1 DEF Arrive
  <2>2. ASSUME NEW r \in Requests, SelectNone(r) PROVE TypeOK' /\ MarkedRows'
    BY <2>2 DEF SelectNone
  <2>3. ASSUME NEW r \in Requests, SelectHeld(r) PROVE TypeOK' /\ MarkedRows'
    BY <2>3 DEF SelectHeld, Decision
  <2>4. ASSUME NEW r \in Requests, Claim(r) PROVE TypeOK' /\ MarkedRows'
    BY <2>4 DEF Claim, NewRow
  <2>5. ASSUME NEW r \in Requests, Duplicate(r) PROVE TypeOK' /\ MarkedRows'
    BY <2>5 DEF Duplicate
  <2>6. ASSUME NEW r \in Requests, Write(r) PROVE TypeOK' /\ MarkedRows'
    BY <2>6 DEF Write
  <2>7. ASSUME NEW r \in Requests, Join(r) PROVE TypeOK' /\ MarkedRows'
    BY <2>7 DEF Join
  <2>8. ASSUME NEW r \in Requests, MarkDone(r) PROVE TypeOK' /\ MarkedRows'
    BY <2>8 DEF MarkDone, Owns
  <2>9. ASSUME NEW r \in Requests, Commit(r) PROVE TypeOK' /\ MarkedRows'
    <3>1. /\ tx' = [tx EXCEPT ![r] = "none"] /\ UNCHANGED <<pc, stamp, settled, answer, now>>
          /\ done' \in [Requests -> BOOLEAN] /\ work' \in [Requests -> Nat]
      BY <2>9 DEF Commit
    <3>2. CASE tx[r] = "marked"
      <4>1. /\ row' = [row EXCEPT ![KeyOf[r]] = [@ EXCEPT !.status = "completed"]]
            /\ lock' = [lock EXCEPT ![KeyOf[r]] = Nobody]
            /\ row[KeyOf[r]] \in Row
        BY <2>9, <3>2 DEF Commit
      <4>2. \A s \in Requests \ {r} : tx[s] = "marked" => KeyOf[s] # KeyOf[r]
        BY <3>2
      <4>3. TypeOK'
        BY <3>1, <4>1
      <4>4. MarkedRows'
        BY <3>1, <4>1, <4>2
      <4>. QED
        BY <4>3, <4>4
    <3>3. CASE tx[r] # "marked"
      BY <2>9, <3>1, <3>3 DEF Commit
    <3>. QED
      BY <3>2, <3>3
  <2>10. ASSUME NEW r \in Requests, Store(r) PROVE TypeOK' /\ MarkedRows'
    <3>1. CASE Owns(r)
      <4>1. row[KeyOf[r]] \in Row
        BY <3>1 DEF Owns
      <4>2. row' \in [Keys -> Row \union {NoRow}]
        BY <2>10, <3>1, <4>1 DEF Store
      <4>. QED
        BY <2>10, <3>1, <4>2 DEF Store, Owns
    <3>2. CASE ~Owns(r)
      BY <2>10, <3>2 DEF Store
    <3>. QED
      BY <3>1, <3>2
  <2>11. ASSUME NEW r \in Requests, StoreFails(r) PROVE TypeOK' /\ MarkedRows'
    BY <2>11 DEF StoreFails
  <2>12. ASSUME NEW r \in Requests, Release(r) PROVE TypeOK' /\ MarkedRows'
    BY <2>12 DEF Release, Owns
  <2>13. ASSUME NEW r \in Requests, ReleaseFails(r) PROVE TypeOK' /\ MarkedRows'
    BY <2>13 DEF ReleaseFails
  <2>14. ASSUME NEW r \in Requests, Open(r) PROVE TypeOK' /\ MarkedRows'
    BY <2>14 DEF Open
  <2>15. ASSUME NEW r \in Requests, Rollback(r) PROVE TypeOK' /\ MarkedRows'
    BY <2>15 DEF Rollback, Unlocked
  <2>16. ASSUME NEW r \in Requests, Return(r) PROVE TypeOK' /\ MarkedRows'
    BY <2>16 DEF Return
  <2>17. ASSUME NEW r \in Requests, Throw(r) PROVE TypeOK' /\ MarkedRows'
    BY <2>17 DEF Throw
  <2>18. ASSUME NEW r \in Requests, Crash(r) PROVE TypeOK' /\ MarkedRows'
    BY <2>18 DEF Crash, Unlocked, Live
  <2>19. CASE Purge
    BY <2>19 DEF Purge
  <2>20. CASE Tick
    BY <2>20 DEF Tick
  <2>21. CASE UNCHANGED vars
    BY <2>21 DEF vars
  <2>. QED
    BY <2>1, <2>2, <2>3, <2>4, <2>5, <2>6, <2>7, <2>8, <2>9, <2>10, <2>11, <2>12, <2>13, <2>14, <2>15, <2>16, <2>17, <2>18, <2>19, <2>20, <2>21
    DEF Next, Progress, Handler
<1>3. QED
  BY <1>1, <1>2, PTL DEF Spec

\* No replay ever repeats a claim that was released or abandoned, or the answer
\* to another payload: also when handlers outlive the lock timeout.
THEOREM ReplayAlwaysEarned == Spec => []ReplayIsEarned
<1> USE KeysAssumption, TimesAssumption
<1>1. Init => Earned /\ ReplayIsEarned
  BY DEF Init, Earned, ReplayIsEarned, Held
<1>2. TypeOK /\ TypeOK' /\ MarkedRows /\ Earned /\ ReplayIsEarned /\ [Next]_vars
        => Earned' /\ ReplayIsEarned'
  <2> SUFFICES ASSUME TypeOK, TypeOK', MarkedRows, Earned, ReplayIsEarned, [Next]_vars
               PROVE  Earned' /\ ReplayIsEarned'
    OBVIOUS
  <2> USE DEF TypeOK, MarkedRows, Held, Owns, Row, Earned, ReplayIsEarned
  <2>1. ASSUME NEW r \in Requests, Arrive(r) PROVE Earned' /\ ReplayIsEarned'
    BY <2>1 DEF Arrive
  <2>2. ASSUME NEW r \in Requests, SelectNone(r) PROVE Earned' /\ ReplayIsEarned'
    BY <2>2 DEF SelectNone
  <2>3. ASSUME NEW r \in Requests, SelectHeld(r) PROVE Earned' /\ ReplayIsEarned'
    <3>1. UNCHANGED <<row, tx, work>> /\ pc[r] = "selecting"
      BY <2>3 DEF SelectHeld
    <3>2. \A s \in Requests : pc[s] = "answered" => pc'[s] = "answered"
      BY <2>3 DEF SelectHeld
    <3>3. Earned'
      BY <3>1, <3>2
    <3>4. CASE answer' = answer
      BY <3>1, <3>2, <3>4
    <3>5. CASE answer' = [answer EXCEPT ![r] = row[KeyOf[r]].id] /\ Held(KeyOf[r])
               /\ Decision(row[KeyOf[r]], PrintOf[r], stamp[r]) = "replay"
      <4>1. row[KeyOf[r]].print = PrintOf[r] /\ row[KeyOf[r]].status = "completed"
        BY <3>5 DEF Decision, Statuses
      <4>2. answer'[r] = row[KeyOf[r]].id /\ \A s \in Requests \ {r} : answer'[s] = answer[s]
        BY <3>5
      <4>. QED
        BY <3>1, <3>2, <3>3, <3>5, <4>1, <4>2
    <3>. QED
      BY <2>3, <3>3, <3>4, <3>5 DEF SelectHeld
  <2>4. ASSUME NEW r \in Requests, Claim(r) PROVE Earned' /\ ReplayIsEarned'
    BY <2>4 DEF Claim, NewRow
  <2>5. ASSUME NEW r \in Requests, Duplicate(r) PROVE Earned' /\ ReplayIsEarned'
    BY <2>5 DEF Duplicate
  <2>6. ASSUME NEW r \in Requests, Write(r) PROVE Earned' /\ ReplayIsEarned'
    BY <2>6 DEF Write
  <2>7. ASSUME NEW r \in Requests, Join(r) PROVE Earned' /\ ReplayIsEarned'
    BY <2>7 DEF Join
  <2>8. ASSUME NEW r \in Requests, MarkDone(r) PROVE Earned' /\ ReplayIsEarned'
    BY <2>8 DEF MarkDone
  <2>9. ASSUME NEW r \in Requests, Commit(r) PROVE Earned' /\ ReplayIsEarned'
    BY <2>9 DEF Commit
  <2>10. ASSUME NEW r \in Requests, Store(r) PROVE Earned' /\ ReplayIsEarned'
    <3>1. /\ UNCHANGED <<stamp, tx, work, answer, now>>
          /\ pc[r] = "storing" /\ pc' = [pc EXCEPT ![r] = "answered"]
      BY <2>10 DEF Store
    <3>2. CASE Owns(r)
      <4>1. row' = [row EXCEPT ![KeyOf[r]] = [@ EXCEPT !.status = "completed", !.body = "response"]]
        BY <2>10, <3>2 DEF Store
      <4>. QED
        BY <3>1, <3>2, <4>1
    <3>3. CASE UNCHANGED row
      BY <3>1, <3>3
    <3>. QED
      BY <2>10, <3>2, <3>3 DEF Store
  <2>11. ASSUME NEW r \in Requests, StoreFails(r) PROVE Earned' /\ ReplayIsEarned'
    BY <2>11 DEF StoreFails
  <2>12. ASSUME NEW r \in Requests, Release(r) PROVE Earned' /\ ReplayIsEarned'
    <3>1. UNCHANGED <<tx, work, answer>> /\ \A k \in Keys : row'[k] \in {row[k], NoRow}
      BY <2>12 DEF Release
    <3>2. \A s \in Requests : pc[s] = "answered" => pc'[s] = "answered"
      BY <2>12 DEF Release
    <3>3. ASSUME NEW s \in Requests, tx[s] = "marked"
          PROVE  pc[s] = "handling" /\ row'[KeyOf[s]] = row[KeyOf[s]]
      BY <2>12, <3>3 DEF Release
    <3>. QED
      BY <3>1, <3>2, <3>3
  <2>13. ASSUME NEW r \in Requests, ReleaseFails(r) PROVE Earned' /\ ReplayIsEarned'
    BY <2>13 DEF ReleaseFails
  <2>14. ASSUME NEW r \in Requests, Open(r) PROVE Earned' /\ ReplayIsEarned'
    BY <2>14 DEF Open
  <2>15. ASSUME NEW r \in Requests, Rollback(r) PROVE Earned' /\ ReplayIsEarned'
    BY <2>15 DEF Rollback, Unlocked
  <2>16. ASSUME NEW r \in Requests, Return(r) PROVE Earned' /\ ReplayIsEarned'
    BY <2>16 DEF Return
  <2>17. ASSUME NEW r \in Requests, Throw(r) PROVE Earned' /\ ReplayIsEarned'
    BY <2>17 DEF Throw
  <2>18. ASSUME NEW r \in Requests, Crash(r) PROVE Earned' /\ ReplayIsEarned'
    BY <2>18 DEF Crash, Unlocked, Live
  <2>19. CASE Purge
    BY <2>19 DEF Purge
  <2>20. CASE Tick
    BY <2>20 DEF Tick
  <2>21. CASE UNCHANGED vars
    BY <2>21 DEF vars
  <2>. QED
    BY <2>1, <2>2, <2>3, <2>4, <2>5, <2>6, <2>7, <2>8, <2>9, <2>10, <2>11, <2>12, <2>13, <2>14, <2>15, <2>16, <2>17, <2>18, <2>19, <2>20, <2>21
    DEF Next, Progress, Handler
<1>3. Spec => [](TypeOK /\ MarkedRows)
  BY TypeCorrect
<1>4. QED
  BY <1>1, <1>2, <1>3, PTL DEF Spec

\* When every request ends within the lock timeout, the parts of IInv hold
\* together: each step leaves each of them as it finds it.
THEOREM Inductive ==
    ASSUME HandlersInTime = TRUE
    PROVE  Spec => []IInv
<1> USE KeysAssumption, TimesAssumption
<1> DEFINE Parts == Times /\ Rows /\ Handlings /\ Transactions /\ Locks /\ Flags /\ Completed /\ KeySpent
<1>1. Init => TypeOK /\ MarkedRows /\ Parts
  BY DEF Init, TypeOK, Places, Live, Over, TxStates, MarkedRows, Times, Rows, Handlings,
         Transactions, Locks, Flags, Completed, KeySpent, Held, Owns
<1>2. TypeOK /\ TypeOK' /\ MarkedRows /\ Parts /\ [Next]_vars => Parts'
  <2> SUFFICES ASSUME TypeOK, TypeOK', MarkedRows, Parts, [Next]_vars PROVE Parts'
    OBVIOUS
  <2> USE DEF TypeOK, MarkedRows, Held, Owns, Unexpired, Live, Places, Over, TxStates, Row, Statuses
  <2>1. ASSUME NEW r \in Requests, Arrive(r) PROVE Parts'
    BY <2>1 DEF Arrive, Times, Rows, Handlings, Transactions, Locks, Flags, Completed, KeySpent
  <2>2. ASSUME NEW r \in Requests, SelectNone(r) PROVE Parts'
    BY <2>2 DEF SelectNone, Times, Rows, Handlings, Transactions, Locks, Flags, Completed, KeySpent
  <2>3. ASSUME NEW r \in Requests, SelectHeld(r) PROVE Parts'
    <3>1. /\ pc[r] = "selecting" /\ UNCHANGED <<row, stamp, tx, settled, done, work, now>>
          /\ Held(KeyOf[r]) /\ lock[KeyOf[r]] = Nobody
      BY <2>3 DEF SelectHeld
    <3>2. CASE pc' \in {[pc EXCEPT ![r] = "refused"], [pc EXCEPT ![r] = "replayed"]} /\ UNCHANGED lock
      BY <3>1, <3>2 DEF Times, Rows, Handlings, Transactions, Locks, Flags, Completed, KeySpent
    <3>3. CASE /\ pc' = [pc EXCEPT ![r] = "inserting"] /\ lock' = [lock EXCEPT ![KeyOf[r]] = r]
               /\ Decision(row[KeyOf[r]], PrintOf[r], stamp[r]) = "takeover"
      BY <3>1, <3>3 DEF Decision, Times, Rows, Handlings, Transactions, Locks, Flags, Completed, KeySpent
    <3>. QED
      BY <2>3, <3>2, <3>3 DEF SelectHeld
  <2>4. ASSUME NEW r \in Requests, Claim(r) PROVE Parts'
    BY <2>4 DEF Claim, NewRow, Times, Rows, Handlings, Transactions, Locks, Flags, Completed, KeySpent
  <2>5. ASSUME NEW r \in Requests, Duplicate(r) PROVE Parts'
    BY <2>5 DEF Duplicate, Times, Rows, Handlings, Transactions, Locks, Flags, Completed, KeySpent
  <2>6. ASSUME NEW r \in Requests, Write(r) PROVE Parts'
    BY <2>6 DEF Write, Times, Rows, Handlings, Transactions, Locks, Flags, Completed, KeySpent
  <2>7. ASSUME NEW r \in Requests, Join(r) PROVE Parts'
    BY <2>7 DEF Join, Times, Rows, Handlings, Transactions, Locks, Flags, Completed, KeySpent
  <2>8. ASSUME NEW r \in Requests, MarkDone(r) PROVE Parts'
    <3>1. tx[r] = "wrote" /\ UNCHANGED <<row, pc, stamp, settled, done, work, answer, now>>
      BY <2>8 DEF MarkDone
    <3>2. Owns(r) /\ row[KeyOf[r]].status = "in_progress"
      BY <2>8, <3>1 DEF MarkDone, Handlings
    <3>3. /\ tx' = [tx EXCEPT ![r] = "marked"] /\ lock' = [lock EXCEPT ![KeyOf[r]] = r]
          /\ lock[KeyOf[r]] = Nobody
      BY <2>8, <3>2 DEF MarkDone
    <3>. QED
      BY <3>1, <3>2, <3>3 DEF Times, Rows, Handlings, Transactions, Locks, Flags, Completed, KeySpent
  <2>9. ASSUME NEW r \in Requests, Commit(r) PROVE Parts'
    <3>1. Times'
      BY <2>9 DEF Commit, Times
    <3>2. Rows'
      BY <2>9 DEF Commit, Rows, Times, Flags
    <3>3. Handlings'
      <4>1. ASSUME NEW s \in Requests, pc[s] = "handling"
            PROVE  row'[KeyOf[s]] # NoRow /\ row'[KeyOf[s]].id = s
        BY <4>1, <2>9 DEF Commit, Handlings
      <4>2. done'[r] = TRUE
        BY <2>9 DEF Commit, Transactions
      <4>3. ASSUME NEW s \in Requests \ {r}, pc[s] = "handling"
            PROVE  row'[KeyOf[s]] = row[KeyOf[s]] /\ done'[s] = done[s]
        BY <4>3, <2>9 DEF Commit, Handlings
      <4>4. pc' = pc
        BY <2>9 DEF Commit
      <4>. QED
        BY <4>1, <4>2, <4>3, <4>4 DEF Handlings
    <3>4. Transactions'
      BY <2>9 DEF Commit, Transactions, Handlings, Flags
    <3>5. Locks'
      BY <2>9 DEF Commit, Locks, Rows, Handlings, Transactions, Times
    <3>6. Flags'
      <4>1. done'[r] = TRUE /\ work'[r] > 0
        BY <2>9 DEF Commit, Flags, Transactions
      <4>2. \A s \in Requests \ {r} : done'[s] = done[s] /\ work'[s] = work[s]
        BY <2>9 DEF Commit
      <4>3. pc' = pc /\ settled' = settled /\ pc[r] = "handling"
        BY <2>9 DEF Commit
      <4>. QED
        BY <4>1, <4>2, <4>3 DEF Flags
    <3>7. KeySpent'
      <4>1. UNCHANGED <<stamp, now>> /\ work[r] \in Nat
        BY <2>9 DEF Commit
      <4>2. ASSUME NEW s \in Requests \ {r}, Owns(s), row[KeyOf[s]].status = "completed"
            PROVE  Owns(s)' /\ row'[KeyOf[s]].status = "completed"
        BY <4>2, <2>9 DEF Commit, Handlings
      <4>3. \A s \in Requests \ {r} : work'[s] = work[s]
        BY <2>9 DEF Commit
      <4>4. CASE tx[r] = "marked"
        <5>1. Owns(r) /\ row[KeyOf[r]] \in Row
          BY <4>4 DEF Handlings
        <5>2. Owns(r)' /\ row'[KeyOf[r]].status = "completed"
          BY <5>1, <4>4, <2>9 DEF Commit
        <5>. QED
          BY <4>1, <4>2, <4>3, <5>2 DEF KeySpent
      <4>5. CASE tx[r] = "joined"
        <5>1. row' = row /\ work[r] > 0
          BY <4>5, <2>9 DEF Commit, Transactions, Flags
        <5>. QED
          BY <4>1, <4>3, <5>1 DEF KeySpent
      <4>. QED
        BY <4>4, <4>5, <2>9 DEF Commit, Transactions
    <3>8. Completed'
      <4>1. ASSUME NEW s \in Requests \ {r}, Owns(s)'
            PROVE  row'[KeyOf[s]] = row[KeyOf[s]] /\ work'[s] = work[s]
        BY <4>1, <2>9 DEF Commit, Handlings
      <4>2. CASE tx[r] = "marked"
        <5>1. row[KeyOf[r]] \in Row
          BY <4>2 DEF Handlings
        <5>2. row'[KeyOf[r]].status = "completed"
          BY <5>1, <4>2, <2>9 DEF Commit
        <5>. QED
          BY <4>1, <5>2 DEF Completed
      <4>3. CASE tx[r] = "joined"
        <5>1. row' = row /\ work[r] > 0
          BY <4>3, <2>9 DEF Commit, Transactions, Flags
        <5>. QED
          BY <4>1, <5>1 DEF Completed
      <4>. QED
        BY <4>2, <4>3, <2>9 DEF Commit, Transactions
    <3>. QED
      BY <3>1, <3>2, <3>3, <3>4, <3>5, <3>6, <3>7, <3>8
  <2>10. ASSUME NEW r \in Requests, Store(r) PROVE Parts'
    <3>1. Times'
      BY <2>10 DEF Store, Times
    <3>2. Rows'
      BY <2>10 DEF Store, Rows, Times, Flags
    <3>3. Handlings'
      BY <2>10 DEF Store, Handlings, Rows, Locks, Times, Flags, Transactions
    <3>4. Transactions'
      BY <2>10 DEF Store, Transactions, Handlings, Flags
    <3>5. Locks'
      BY <2>10 DEF Store, Locks, Rows, Handlings, Transactions, Times
    <3>6. Flags'
      BY <2>10 DEF Store, Flags, Transactions
    <3>7. KeySpent'
      <4>1. UNCHANGED <<work, stamp, now>>
        BY <2>10 DEF Store
      <4>2. ASSUME NEW s \in Requests, Owns(s), row[KeyOf[s]].status = "completed"
            PROVE  Owns(s)' /\ row'[KeyOf[s]].status = "completed"
        <5>1. CASE KeyOf[s] = KeyOf[r] /\ Owns(r)
          <6>1. row[KeyOf[r]] \in Row
            BY <5>1
          <6>2. row'[KeyOf[r]] = [row[KeyOf[r]] EXCEPT !.status = "completed",
                                                     !.body = "response"]
            BY <5>1, <2>10 DEF Store
          <6>3. row'[KeyOf[r]] \in Row
            BY <6>1, <6>2
          <6>4. row'[KeyOf[r]] # NoRow
            BY <6>3 DEF Row
          <6>. QED
            BY <4>2, <5>1, <6>1, <6>2, <6>4
        <5>2. CASE ~(KeyOf[s] = KeyOf[r] /\ Owns(r))
          <6>1. row'[KeyOf[s]] = row[KeyOf[s]]
            BY <5>2, <2>10 DEF Store
          <6>. QED
            BY <6>1, <4>2
        <5>. QED
          BY <5>1, <5>2
      <4>. QED
        BY <4>1, <4>2 DEF KeySpent
    <3>8. Completed'
      <4>1. work' = work
        BY <2>10 DEF Store
      <4>2. ASSUME NEW s \in Requests, Owns(s)', work[s] > 0
            PROVE  row'[KeyOf[s]].status = "completed"
        <5>1. CASE KeyOf[s] = KeyOf[r] /\ Owns(r)
          <6>1. row[KeyOf[r]] \in Row
            BY <5>1
          <6>. QED
            BY <5>1, <6>1, <2>10 DEF Store
        <5>2. CASE ~(KeyOf[s] = KeyOf[r] /\ Owns(r))
          <6>1. row'[KeyOf[s]] = row[KeyOf[s]]
            BY <5>2, <2>10 DEF Store
          <6>. QED
            BY <6>1, <4>2 DEF Completed
        <5>. QED
          BY <5>1, <5>2
      <4>. QED
        BY <4>1, <4>2 DEF Completed
    <3>. QED
      BY <3>1, <3>2, <3>3, <3>4, <3>5, <3>6, <3>7, <3>8
  <2>11. ASSUME NEW r \in Requests, StoreFails(r) PROVE Parts'
    BY <2>11 DEF StoreFails, Times, Rows, Handlings, Transactions, Locks, Flags, Completed, KeySpent
  <2>12. ASSUME NEW r \in Requests, Release(r) PROVE Parts'
    <3>0. /\ pc[r] = "releasing" /\ pc' = [pc EXCEPT ![r] = "failed"]
          /\ UNCHANGED <<lock, stamp, tx, settled, done, work, answer, now>>
      BY <2>12 DEF Release
    <3>1. CASE Owns(r) /\ row[KeyOf[r]].status = "in_progress"
      <4>1. row' = [row EXCEPT ![KeyOf[r]] = NoRow] /\ lock[KeyOf[r]] = Nobody
        BY <2>12, <3>1 DEF Release
      <4>2. \A s \in Requests : pc[s] = "handling" => KeyOf[s] # KeyOf[r]
        BY <3>0, <3>1 DEF Handlings
      <4>3. \A s \in Requests : work[s] > 0 /\ Unexpired(s) => KeyOf[s] # KeyOf[r]
        BY <3>1 DEF KeySpent, Completed
      <4>4. Times' /\ Rows' /\ Handlings' /\ Transactions'
        BY <3>0, <4>1, <4>2 DEF Times, Rows, Handlings, Transactions
      <4>5. Locks' /\ Flags' /\ Completed' /\ KeySpent'
        BY <3>0, <4>1, <4>3 DEF Locks, Flags, Completed, KeySpent
      <4>. QED
        BY <4>4, <4>5
    <3>2. CASE UNCHANGED row
      BY <3>0, <3>2 DEF Times, Rows, Handlings, Transactions, Locks, Flags, Completed, KeySpent
    <3>. QED
      BY <2>12, <3>1, <3>2 DEF Release
  <2>13. ASSUME NEW r \in Requests, ReleaseFails(r) PROVE Parts'
    BY <2>13 DEF ReleaseFails, Times, Rows, Handlings, Transactions, Locks, Flags, Completed, KeySpent
  <2>14. ASSUME NEW r \in Requests, Open(r) PROVE Parts'
    BY <2>14 DEF Open, Times, Rows, Handlings, Transactions, Locks, Flags, Completed, KeySpent
  <2>15. ASSUME NEW r \in Requests, Rollback(r) PROVE Parts'
    BY <2>15 DEF Rollback, Unlocked, Times, Rows, Handlings, Transactions, Locks, Flags, Completed, KeySpent
  <2>16. ASSUME NEW r \in Requests, Return(r) PROVE Parts'
    BY <2>16 DEF Return, Times, Rows, Handlings, Transactions, Locks, Flags, Completed, KeySpent
  <2>17. ASSUME NEW r \in Requests, Throw(r) PROVE Parts'
    BY <2>17 DEF Throw, Times, Rows, Handlings, Transactions, Locks, Flags, Completed, KeySpent
  <2>18. ASSUME NEW r \in Requests, Crash(r) PROVE Parts'
    BY <2>18 DEF Crash, Unlocked, Times, Rows, Handlings, Transactions, Locks, Flags, Completed, KeySpent
  <2>19. CASE Purge
    <3>1. Times' /\ Rows' /\ Handlings' /\ Transactions'
      BY <2>19 DEF Purge, Expired, Times, Rows, Handlings, Transactions
    <3>2. Locks' /\ Flags'
      BY <2>19 DEF Purge, Expired, Locks, Flags
    <3>3. Completed' /\ KeySpent'
      BY <2>19 DEF Purge, Expired, Rows, Completed, KeySpent
    <3>. QED
      BY <3>1, <3>2, <3>3
  <2>20. CASE Tick
    BY <2>20 DEF Tick, InTime, Times, Rows, Handlings, Transactions, Locks, Flags, Completed, KeySpent
  <2>21. CASE UNCHANGED vars
    BY <2>21 DEF vars, Times, Rows, Handlings, Transactions, Locks, Flags, Completed, KeySpent
  <2>. QED
    BY <2>1, <2>2, <2>3, <2>4, <2>5, <2>6, <2>7, <2>8, <2>9, <2>10, <2>11, <2>12, <2>13, <2>14, <2>15, <2>16, <2>17, <2>18, <2>19, <2>20, <2>21
    DEF Next, Progress, Handler
<1>3. TypeOK /\ MarkedRows /\ Parts => IInv
  BY DEF IInv
<1>4. Spec => [](TypeOK /\ MarkedRows)
  BY TypeCorrect
<1>5. QED
  BY <1>1, <1>2, <1>3, <1>4, PTL DEF Spec

\* While a key is kept it stands for the work done under it: no takeover,
\* release, purge, crash or failed response ever lets a repeat through.
THEOREM KeySpentAlways ==
    ASSUME HandlersInTime = TRUE
    PROVE  Spec => []KeySpent
<1>1. IInv => KeySpent
  BY DEF IInv
<1>2. Spec => []IInv
  BY Inductive
<1>3. QED
  BY <1>1, <1>2, PTL

\* The first commit of a handler's work takes the key along: its UPDATE finds
\* the claim in progress, because no handler in time has lost its row.
THEOREM KeyAndWorkCommitTogether ==
    ASSUME HandlersInTime = TRUE
    PROVE  Spec => KeyAndWorkTogether
<1> USE KeysAssumption
<1> DEFINE Together == \A r \in Requests :
             work[r] = 0 /\ work'[r] > 0
               => /\ row'[KeyOf[r]] # NoRow
                  /\ row'[KeyOf[r]].id = r
                  /\ row'[KeyOf[r]].status = "completed"
<1>1. IInv /\ IInv' /\ [Next]_vars => [Together]_vars
  <2> SUFFICES ASSUME IInv, IInv', [Next]_vars,
                      NEW r \in Requests, work[r] = 0, work'[r] > 0
               PROVE  /\ row'[KeyOf[r]] # NoRow
                      /\ row'[KeyOf[r]].id = r
                      /\ row'[KeyOf[r]].status = "completed"
    OBVIOUS
  <2>1. Commit(r)
    <3>1. work'[r] # work[r]
      OBVIOUS
    <3>2. ASSUME NEW s \in Requests, Commit(s) PROVE s = r
      BY <3>1, <3>2 DEF Commit, IInv, TypeOK
    <3>. QED
      BY <3>1, <3>2 DEF Next, Progress, Handler, vars, Arrive, SelectNone, SelectHeld, Claim,
         Duplicate, Write, Join, MarkDone, Store, StoreFails, Release, ReleaseFails,
         Open, Rollback, Return, Throw, Crash, Purge, Tick
  <2>2. tx[r] = "marked" /\ pc[r] = "handling" /\ Owns(r)
    BY <2>1 DEF Commit, IInv, MarkedRows, Handlings, Transactions, Flags
  <2>3. row[KeyOf[r]] \in Row
    BY <2>2 DEF IInv, TypeOK, Owns, Held
  <2>4. row'[KeyOf[r]] = [row[KeyOf[r]] EXCEPT !.status = "completed"]
    BY <2>1, <2>2 DEF Commit, IInv, TypeOK
  <2>5. row'[KeyOf[r]] \in Row
    BY <2>3, <2>4 DEF Row, Statuses
  <2>. QED
    BY <2>2, <2>3, <2>4, <2>5 DEF Owns, Row
<1>2. Spec => []IInv
  BY Inductive
<1>3. QED
  BY <1>1, <1>2, PTL DEF Spec, KeyAndWorkTogether


----------------------------------------------------------------------------
(* Idempotency implements OncePerKey, when handlers end in time.             *)

\* A step that leaves the rows, the work and the clock alone is no step of
\* OncePerKey.
LEMMA Quiet == UNCHANGED <<row, work, now>> => UNCHANGED Once!vars
BY DEF Once!vars, SpentBy, Held

\* A new claim forgets what its key stood for: nothing, or work whose time
\* is up.
LEMMA ClaimForgets ==
    ASSUME IInv, NEW r \in Requests, Claim(r)
    PROVE  [Once!Next]_Once!vars
<1> USE KeysAssumption, TimesAssumption DEF Held
<1> DEFINE k == KeyOf[r]
<1>1. k \in Keys /\ row' = [row EXCEPT ![k] = NewRow(r)] /\ UNCHANGED <<work, now>>
  BY DEF Claim
<1>2. row' \in [Keys -> Row \union {NoRow}] /\ row'[k].status = "in_progress"
  BY <1>1 DEF NewRow, Row, Statuses, IInv, TypeOK
<1>3. \A m \in Keys \ {k} : row'[m] = row[m]
  BY <1>1, <1>2 DEF IInv, TypeOK
<1>4. SpentBy(k)' = Nobody
  BY <1>2 DEF SpentBy
<1>5. \A m \in Keys \ {k} : SpentBy(m)' = SpentBy(m)
  BY <1>1, <1>3 DEF SpentBy
<1>6. CASE SpentBy(k) = Nobody
  BY <1>1, <1>3, <1>4, <1>5, <1>6 DEF Once!vars
<1>7. CASE SpentBy(k) # Nobody
  <2>1. row[k].expiresAt <= now
    BY <1>7 DEF SpentBy, Claim, IInv, Locks, MarkedRows
  <2>2. Once!Forget
    <3> DEFINE spent == [m \in Keys |-> SpentBy(m)]
               until == [m \in Keys |-> IF SpentBy(m) = Nobody THEN 0 ELSE row[m].expiresAt]
    <3>1. {k} \in SUBSET Keys /\ UNCHANGED <<now, {s \in Requests : work[s] > 0}>>
      BY <1>1
    <3>2. \A m \in {k} : spent[m] # Nobody /\ until[m] <= now
      BY <1>1, <1>7, <2>1
    <3>3. spent' = [m \in Keys |-> IF m \in {k} THEN Nobody ELSE spent[m]]
      BY <1>4, <1>5
    <3>4. until' = [m \in Keys |-> IF m \in {k} THEN 0 ELSE until[m]]
      BY <1>3, <1>4, <1>5
    <3>. HIDE DEF spent, until
    <3>. QED
      BY <3>1, <3>2, <3>3, <3>4 DEF Once!Forget, spent, until
  <2>. QED
    BY <2>2 DEF Once!Next
<1>. QED
  BY <1>6, <1>7

\* The first commit of a handler does the key's work; a later one adds to it.
LEMMA CommitWorks ==
    ASSUME IInv, NEW r \in Requests, Commit(r)
    PROVE  [Once!Next]_Once!vars
<1> USE KeysAssumption, TimesAssumption DEF Held
<1> DEFINE k == KeyOf[r]
<1>1. k \in Keys /\ pc[r] = "handling" /\ Owns(r) /\ row[k] \in Row
  <2>1. pc[r] = "handling"
    BY DEF Commit, IInv, MarkedRows
  <2>2. Owns(r)
    BY <2>1 DEF IInv, Handlings
  <2>. QED
    BY <2>1, <2>2 DEF IInv, TypeOK, Owns
<1>2. \A s \in Requests : work[s] \in Nat /\ work'[s] \in Nat /\ (work'[s] > 0 <=> s = r \/ work[s] > 0)
  <2>1. /\ \A s \in Requests : work[s] \in Nat
        /\ \A s \in Requests : work'[s] = IF s = r THEN work[s] + 1 ELSE work[s]
    BY DEF Commit, IInv, TypeOK
  <2>. QED
    BY <2>1
<1>3. CASE tx[r] = "joined"
  <2>1. work[r] > 0 /\ UNCHANGED <<row, now>>
    BY <1>3 DEF Commit, IInv, Transactions, Flags
  <2>2. \A s \in Requests : work'[s] > 0 <=> work[s] > 0
    BY <1>2, <2>1
  <2>3. \A m \in Keys : row[m] # NoRow => row[m].id \in Requests
    BY DEF IInv, TypeOK, Row
  <2>4. \A m \in Keys : SpentBy(m)' = SpentBy(m)
    BY <2>1, <2>2, <2>3 DEF SpentBy
  <2>. QED
    BY <2>1, <2>2, <2>4 DEF Once!vars
<1>4. CASE tx[r] = "marked"
  <2>1. work[r] = 0 /\ row[k].status = "in_progress" /\ row[k].id = r
    BY <1>1, <1>2, <1>4 DEF IInv, Transactions, Flags, Handlings, Owns
  <2>2. row' = [row EXCEPT ![k] = [row[k] EXCEPT !.status = "completed"]] /\ UNCHANGED now
    BY <1>4 DEF Commit, IInv, TypeOK
  <2>3. /\ row'[k] \in Row /\ row'[k] # NoRow
        /\ row'[k].id = r /\ row'[k].status = "completed" /\ row'[k].expiresAt = row[k].expiresAt
        /\ \A m \in Keys \ {k} : row'[m] = row[m]
    <3>1. [row[k] EXCEPT !.status = "completed"] \in Row
      BY <1>1 DEF Row, Statuses
    <3>. QED
      BY <1>1, <2>1, <2>2, <3>1 DEF IInv, TypeOK, Row
  <2>4. row[k].expiresAt > now
    BY <1>1, <2>1 DEF IInv, Times, Rows, TypeOK
  <2>5. \A m \in Keys \ {k} : row[m] # NoRow => row[m].id \in Requests \ {r}
    BY <1>1 DEF IInv, Rows, TypeOK, Row
  <2>6. \A m \in Keys \ {k} : SpentBy(m)' = SpentBy(m)
    BY <1>2, <2>3, <2>5 DEF SpentBy
  <2>7. SpentBy(k) = Nobody /\ SpentBy(k)' = r
    BY <1>2, <2>1, <2>3 DEF SpentBy
  <2>8. Once!Work(r, k)
    <3> DEFINE spent == [m \in Keys |-> SpentBy(m)]
               until == [m \in Keys |-> IF SpentBy(m) = Nobody THEN 0 ELSE row[m].expiresAt]
               worked == {s \in Requests : work[s] > 0}
    <3>1. spent[k] = Nobody /\ spent' = [spent EXCEPT ![k] = r]
      BY <1>1, <2>6, <2>7
    <3>2. r \notin worked /\ worked' = worked \union {r}
      BY <1>2, <2>1
    <3>3. until'[k] > now /\ until' = [until EXCEPT ![k] = until'[k]]
      <4>1. until'[k] = row[k].expiresAt
        BY <1>1, <2>3, <2>7, KeysAssumption
      <4>2. \A m \in Keys \ {k} : until'[m] = until[m]
        BY <2>3, <2>6
      <4>3. until = [m \in Keys |-> until[m]] /\ until' = [m \in Keys |-> until'[m]]
        OBVIOUS
      <4>. HIDE DEF until
      <4>. QED
        BY <1>1, <2>4, <4>1, <4>2, <4>3
    <3>. HIDE DEF spent, until, worked
    <3>. QED
      BY <2>2, <3>1, <3>2, <3>3 DEF Once!Work, spent, until, worked
  <2>. QED
    BY <1>1, <2>8 DEF Once!Next
<1>5. tx[r] # "missed"
  BY DEF IInv, Transactions
<1>. QED
  BY <1>3, <1>4, <1>5 DEF Commit

\* A stored response completes a row whose request did no work, or that says
\* completed already.
LEMMA StoreIsQuiet ==
    ASSUME IInv, NEW r \in Requests, Store(r)
    PROVE  [Once!Next]_Once!vars
<1> USE KeysAssumption DEF Held
<1> DEFINE k == KeyOf[r]
<1>1. UNCHANGED <<work, now>> /\ k \in Keys
  BY DEF Store
<1>2. CASE ~Owns(r)
  BY <1>1, <1>2, Quiet DEF Store
<1>3. CASE Owns(r)
  <2>1. row[k] \in Row /\ row[k].id = r
    BY <1>3 DEF IInv, TypeOK, Owns
  <2>2. [row[k] EXCEPT !.status = "completed", !.body = "response"] \in Row
    BY <2>1 DEF Row, Statuses
  <2>3. /\ row'[k] # NoRow /\ row'[k].id = r /\ row'[k].status = "completed"
        /\ row'[k].expiresAt = row[k].expiresAt
        /\ \A m \in Keys \ {k} : row'[m] = row[m]
    BY <1>1, <1>3, <2>1, <2>2 DEF Store, IInv, TypeOK, Row
  <2>4. work[r] > 0 => row[k].status = "completed"
    BY <1>3 DEF IInv, Completed
  <2>5. \A m \in Keys : SpentBy(m)' = SpentBy(m)
    BY <1>1, <1>3, <2>1, <2>3, <2>4 DEF SpentBy, Owns
  <2>. QED
    BY <1>1, <2>3, <2>5 DEF Once!vars
<1>. QED
  BY <1>2, <1>3

\* A release deletes a row in progress, which stands for nothing.
LEMMA ReleaseIsQuiet ==
    ASSUME IInv, NEW r \in Requests, Release(r)
    PROVE  [Once!Next]_Once!vars
<1> USE KeysAssumption DEF Held
<1> DEFINE k == KeyOf[r]
<1>1. UNCHANGED <<work, now>> /\ k \in Keys
  BY DEF Release
<1>2. CASE row' = row
  BY <1>1, <1>2, Quiet
<1>3. CASE row' # row
  <2>1. row[k].status = "in_progress" /\ row' = [row EXCEPT ![k] = NoRow]
    BY <1>3 DEF Release
  <2>2. row'[k] = NoRow /\ \A m \in Keys \ {k} : row'[m] = row[m]
    BY <1>1, <2>1 DEF IInv, TypeOK
  <2>3. \A m \in Keys : SpentBy(m)' = SpentBy(m)
    BY <1>1, <2>1, <2>2 DEF SpentBy
  <2>4. SpentBy(k) = Nobody
    BY <2>1 DEF SpentBy
  <2>. QED
    BY <1>1, <2>2, <2>3, <2>4 DEF Once!vars
<1>. QED
  BY <1>2, <1>3

\* The purge forgets keys whose time is up.
LEMMA PurgeForgets ==
    ASSUME IInv, Purge
    PROVE  [Once!Next]_Once!vars
<1> USE DEF Held
<1> DEFINE K == {k \in Keys : Expired(k) /\ SpentBy(k) # Nobody}
<1>1. row' = [k \in Keys |-> IF Expired(k) THEN NoRow ELSE row[k]] /\ UNCHANGED <<work, now>>
  BY DEF Purge
<1>2. \A k \in Keys : SpentBy(k)' = IF k \in K THEN Nobody ELSE SpentBy(k)
  BY <1>1 DEF SpentBy
<1>3. \A k \in K : SpentBy(k) # Nobody /\ row[k].expiresAt <= now
  BY DEF Expired, IInv, TypeOK, Row
<1>4. \A k \in Keys \ K : SpentBy(k) = Nobody \/ row'[k] = row[k]
  BY <1>1
<1>5. Once!Forget
  <2>1. K \in SUBSET Keys
    OBVIOUS
  <2>. HIDE DEF K
  <2>. QED
    BY <1>1, <1>2, <1>3, <1>4, <2>1 DEF Once!Forget
<1>. QED
  BY <1>5 DEF Once!Next

\* Under one key at most one request does work while the key is kept: every
\* step of the package is one of OncePerKey, or none.
THEOREM Implements ==
    ASSUME HandlersInTime = TRUE
    PROVE  Spec => WorkOncePerKey
<1>1. Init => Once!Init
  BY DEF Init, Once!Init, SpentBy, Held
<1>2. IInv /\ [Next]_vars => [Once!Next]_Once!vars
  <2> SUFFICES ASSUME IInv, [Next]_vars PROVE [Once!Next]_Once!vars
    OBVIOUS
  <2>1. CASE UNCHANGED <<row, work, now>>
    BY <2>1, Quiet
  <2>2. ASSUME NEW r \in Requests, Claim(r) PROVE [Once!Next]_Once!vars
    BY <2>2, ClaimForgets
  <2>3. ASSUME NEW r \in Requests, Commit(r) PROVE [Once!Next]_Once!vars
    BY <2>3, CommitWorks
  <2>4. ASSUME NEW r \in Requests, Store(r) PROVE [Once!Next]_Once!vars
    BY <2>4, StoreIsQuiet
  <2>5. ASSUME NEW r \in Requests, Release(r) PROVE [Once!Next]_Once!vars
    BY <2>5, ReleaseIsQuiet
  <2>6. CASE Purge
    BY <2>6, PurgeForgets
  <2>7. CASE Tick
    BY <2>7 DEF Tick, Once!Next, Once!Pass, SpentBy, Held
  <2>. QED
    BY <2>1, <2>2, <2>3, <2>4, <2>5, <2>6, <2>7
    DEF Next, Progress, Handler, vars, Arrive, SelectNone, SelectHeld, Duplicate, Write, Join,
        MarkDone, StoreFails, ReleaseFails, Open, Rollback, Return, Throw, Crash
<1>3. Spec => []IInv
  BY Inductive
<1>4. QED
  BY <1>1, <1>2, <1>3, PTL DEF Spec, WorkOncePerKey, Once!Spec
==============================================================================
