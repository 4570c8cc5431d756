------------------------------ MODULE Scanner ------------------------------
(***************************************************************************)
(* packages/jobs scanner.ts: replicas that scan a forward window under one *)
(* lock for items about to come due, claim each and dispatch it, while     *)
(* items are made, moved and cancelled.                                    *)
(***************************************************************************)
EXTENDS Naturals, FiniteSets

CONSTANTS
  Replicas, Items,
  Window,          \* windowMs
  LockTtl,         \* of the pass
  DedupeTtl,       \* of a claim: four windows unless given
  MaxPass,         \* bound on how long a pass takes
  MaxMoment, MaxFaults, MaxMoves, \* bounds on time, on crashes and failures, on changes of plan
  Nobody

VARIABLES
  moment,
  due, since,      \* when each item is due, 0 if it is not, and since when
  lock,            \* the lock of the pass: [by, until]
  claims,          \* the claim on each item, by its key
  pass,            \* where each replica is
  faults, moves,
  found,           \* occurrences that a pass found: an item, and when it is due
  dispatched,      \* how often each was dispatched
  sent,            \* until when the last dispatch of each item is remembered
  failed,          \* occurrences to be tried again: their dispatch failed, or their pass ended before
  dead,            \* occurrences whose worker died with the claim on them
  lastFind, late   \* the last time a pass looked, and whether two were too far apart

scanVars == <<moment, due, since, lock, claims, pass, faults, moves, found, dispatched, sent,
              failed, dead, lastFind, late>>

Moments == 0..MaxMoment
Occurrences == Items \X Moments
Idle == [step |-> "idle"]
Free == [by |-> Nobody, until |-> 0]

TypeOK ==
  /\ moment \in Moments /\ lastFind \in Moments /\ late \in BOOLEAN /\ faults \in 0..MaxFaults /\ moves \in 0..MaxMoves
  /\ due \in [Items -> Moments] /\ since \in [Items -> Moments]
  /\ lock.by \in Replicas \union {Nobody}
  /\ DOMAIN claims \subseteq Items /\ \A i \in DOMAIN claims : claims[i].by \in Replicas
  /\ found \subseteq Occurrences /\ failed \subseteq found /\ dead \subseteq found
  /\ sent \in [Items -> Nat]
  /\ DOMAIN dispatched = found /\ DOMAIN pass = Replicas

Init ==
  /\ moment = 0 /\ due = [i \in Items |-> 0] /\ since = [i \in Items |-> 0]
  /\ lock = Free /\ claims = [i \in {} |-> Free]
  /\ pass = [r \in Replicas |-> Idle] /\ faults = 0 /\ moves = 0
  /\ found = {} /\ dispatched = [o \in {} |-> 0] /\ failed = {} /\ dead = {}
  /\ sent = [i \in Items |-> 0]
  /\ lastFind = 0 /\ late = FALSE

At(r, step) == pass[r].step = step
Goes(r, to) == pass' = [pass EXCEPT ![r] = to]
Put(f, i, v) == [j \in DOMAIN f \union {i} |-> IF j = i THEN v ELSE f[j]]

----------------------------------------------------------------------------
\* Redis drops what has expired.
Pass ==
  /\ moment < MaxMoment
  /\ \A r \in Replicas : ~At(r, "idle") => moment - pass[r].at < MaxPass
  /\ moment' = moment + 1
  /\ lock' = IF lock.until <= moment' THEN Free ELSE lock
  /\ claims' = [i \in {i \in DOMAIN claims : claims[i].until > moment'} |-> claims[i]]
  /\ late' = (late \/ moment' - lastFind > Window)
  /\ UNCHANGED <<due, since, pass, faults, moves, found, dispatched, sent, failed, dead, lastFind>>

\* The world changes: an item is made, moved or cancelled (external).
Plan(i, when) ==
  /\ moves < MaxMoves /\ moves' = moves + 1
  /\ due[i] # when /\ (when > moment \/ when = 0)
  /\ due' = [due EXCEPT ![i] = when] /\ since' = [since EXCEPT ![i] = moment]
  /\ UNCHANGED <<moment, lock, claims, pass, faults, found, dispatched, sent, failed, dead, lastFind, late>>

\* scanOnce(): one of the replicas has the lock, or gives up at once.
Begin(r) ==
  /\ At(r, "idle") /\ lock = Free
  /\ lock' = [by |-> r, until |-> moment + LockTtl]
  /\ Goes(r, [step |-> "find", at |-> moment])
  /\ UNCHANGED <<moment, due, since, claims, faults, moves, found, dispatched, sent, failed, dead, lastFind, late>>

\* find(from, to): "[from, to)", read fresh each scan.
InWindow(i, now) == due[i] >= now /\ due[i] < now + Window

Find(r) ==
  /\ At(r, "find")
  /\ LET items == {<<i, due[i]>> : i \in {j \in Items : due[j] # 0 /\ InWindow(j, pass[r].at)}} IN
     /\ Goes(r, [step |-> "items", at |-> pass[r].at, left |-> items])
     /\ found' = found \union items
     /\ dispatched' = [o \in found' |-> IF o \in found THEN dispatched[o] ELSE 0]
     /\ failed' = failed \ items
  /\ lastFind' = pass[r].at
  /\ UNCHANGED <<moment, due, since, lock, claims, faults, moves, sent, dead, late>>

\* "Claim before dispatching": SET NX under the item's key, and what is claimed
\* is skipped.  keyFor() names the item, a booking and which reminder it is, and
\* not the moment: a claim goes with the item when it is moved.
CanClaim(i) == i \notin DOMAIN claims

Claim(r) ==
  /\ At(r, "items")
  /\ \E o \in pass[r].left :
       IF CanClaim(o[1])
       THEN /\ claims' = Put(claims, o[1], [by |-> r, until |-> moment + DedupeTtl])
            /\ Goes(r, [step |-> "dispatch", at |-> pass[r].at, left |-> pass[r].left \ {o}, item |-> o])
       ELSE Goes(r, [pass[r] EXCEPT !.left = @ \ {o}]) /\ UNCHANGED claims
  /\ UNCHANGED <<moment, due, since, lock, faults, moves, found, dispatched, sent, failed, dead, lastFind, late>>

On(r) == [step |-> "items", at |-> pass[r].at, left |-> pass[r].left]

Dispatch(r) ==
  /\ At(r, "dispatch")
  /\ LET o == pass[r].item IN
     /\ dispatched' = [dispatched EXCEPT ![o] = @ + 1]
     /\ sent' = [sent EXCEPT ![o[1]] = IF o[1] \in DOMAIN claims THEN claims[o[1]].until ELSE @]
  /\ Goes(r, On(r))
  /\ UNCHANGED <<moment, due, since, lock, claims, faults, moves, found, failed, dead, lastFind, late>>

\* Mutant of Released: a dispatch that failed keeps its claim.
ReleasedNot(r, i) == claims

\* "Release so the next pass retries": its own claim, and no other's.
Released(r, i) ==
  LET others == {j \in DOMAIN claims : j # i \/ claims[j].by # r} IN [j \in others |-> claims[j]]

DispatchFails(r) ==
  /\ At(r, "dispatch") /\ faults < MaxFaults
  /\ faults' = faults + 1
  /\ claims' = Released(r, pass[r].item[1])
  /\ failed' = failed \union {pass[r].item}
  /\ Goes(r, On(r))
  /\ UNCHANGED <<moment, due, since, lock, moves, found, dispatched, sent, dead, lastFind, late>>

\* The pass ends, or its find() fails, and the lock is released if it is held.
End(r) ==
  /\ \/ At(r, "items") /\ pass[r].left = {} /\ UNCHANGED faults
     \/ At(r, "find") /\ faults < MaxFaults /\ faults' = faults + 1
  /\ lock' = IF lock.by = r THEN Free ELSE lock
  /\ Goes(r, Idle)
  /\ UNCHANGED <<moment, due, since, claims, moves, found, dispatched, sent, failed, dead, lastFind, late>>

\* A worker dies: its lock and its claims wait out their time.
Die(r) ==
  /\ ~At(r, "idle") /\ faults < MaxFaults
  /\ faults' = faults + 1
  /\ Goes(r, Idle)
  /\ failed' = failed \union (IF At(r, "find") THEN {} ELSE pass[r].left)
  /\ dead' = dead \union (IF At(r, "dispatch") THEN {pass[r].item} ELSE {})
  /\ UNCHANGED <<moment, due, since, lock, claims, moves, found, dispatched, sent, lastFind, late>>

Next ==
  \/ Pass
  \/ \E i \in Items, when \in Moments : Plan(i, when)
  \/ \E r \in Replicas :
       Begin(r) \/ Find(r) \/ Claim(r) \/ Dispatch(r) \/ DispatchFails(r) \/ End(r) \/ Die(r)

Spec == Init /\ [][Next]_scanVars

----------------------------------------------------------------------------
\* An item that is dispatched is not about to be dispatched again while that is
\* remembered, wherever it was moved, and one occurrence never is.
OnceEach ==
  /\ \A o \in found : dispatched[o] <= 1
  /\ \A r \in Replicas : At(r, "dispatch") => sent[pass[r].item[1]] <= moment

\* What a pass found is dispatched when no pass is at it any more, and what
\* failed is when it is found again -- unless the worker died that had claimed
\* it, or the item was also found at another moment, and its one key is claimed.
Moved(o) == \E p \in found : p[1] = o[1] /\ p # o
NoneDropped ==
  \A o \in found :
    \/ dispatched[o] = 1 \/ o \in failed \union dead \/ Moved(o)
    \/ \E r \in Replicas : \/ At(r, "items") /\ o \in pass[r].left
                           \/ At(r, "dispatch") /\ (o = pass[r].item \/ o \in pass[r].left)

\* "Anything cancelled simply is not found": what a pass has in hand stands as
\* it was found, unless it was moved or cancelled since the pass began.
AsItStands ==
  \A r \in Replicas : At(r, "items") \/ At(r, "dispatch") =>
    \A o \in pass[r].left \union (IF At(r, "dispatch") THEN {pass[r].item} ELSE {}) :
      due[o[1]] = o[2] \/ since[o[1]] >= pass[r].at

\* Where the passes look often enough, the window leaves no gap "in which an
\* item's moment passes unnoticed": what stood for a window before its moment
\* has been found.
NoneUnnoticed ==
  ~late => \A i \in Items :
    due[i] # 0 /\ moment > due[i] + MaxPass /\ since[i] + Window <= due[i] => <<i, due[i]>> \in found

EachMomentOnce == OnceEach /\ NoneDropped /\ AsItStands /\ NoneUnnoticed
=============================================================================
