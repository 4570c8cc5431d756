------------------------------ MODULE Scheduler ------------------------------
(***************************************************************************)
(* packages/jobs/src/scheduler.ts: one recurring task, registered with the *)
(* TaskScheduler of every replica of a fleet.  A tick is one call of       *)
(* tick(): it reads the interval, takes the task's lock, claims the        *)
(* interval, runs the task and releases the lock.                          *)
(***************************************************************************)
EXTENDS Naturals, FiniteSets

CONSTANTS
    Names,          \* the names locks are taken under
    Unset,          \* what an absent key reads as
    Replicas,
    Interval,       \* intervalMs, in units of time
    LockTtl,        \* lockTtlMs
    RunOnStart,     \* runOnStart
    Early,          \* how early a timer may fire
    MaxLate,        \* bound on how late one fires
    MaxDelay,       \* bound on the time from a tick's start to its claim
    MaxRun,         \* bound on how long the task runs
    MaxTime,        \* bound on the clock
    MaxFaults       \* bound on Redis calls that fail

ASSUME SchedulerAssumption ==
    /\ Interval \in Nat \ {0}
    /\ {LockTtl, Early, MaxLate, MaxDelay, MaxRun, MaxTime, MaxFaults} \subseteq Nat
    /\ RunOnStart \in BOOLEAN
    /\ MaxDelay <= Interval
    /\ MaxDelay + MaxRun < LockTtl

VARIABLES
    redis,      \* the value and expiry of each key
    now,        \* the clock: timers fire and Redis expires keys by it
    due,        \* per replica, when its timer is set for; Off once stopped
    alive,      \* the replicas whose process is up
    ticks,      \* the ticks under way
    armed,      \* the replicas whose timer was set this instant
    ran,        \* how often each interval has been run
    lastTaken,  \* when the task's lock was last taken
    faults      \* Redis calls that have failed

vars == <<redis, now, due, armed, alive, ticks, ran, lastTaken, faults>>

------------------------------------------------------------------------------
(* packages/redis/src/lock.ts: keys of one Redis instance that hold the    *)
(* token of whoever set them until they are deleted or expire.             *)

Entry(Tokens) == [token : Tokens, until : Nat]

RedisTypeOK(Tokens) == redis \in [Names -> Entry(Tokens) \union {Unset}]

RedisInit == redis = [n \in Names |-> Unset]

Taken(n) == redis[n] # Unset

\* Time passes, and a key whose expiry has come is gone.
RedisPass ==
    /\ now' = now + 1
    /\ redis' = [n \in Names |-> IF Taken(n) /\ redis[n].until <= now + 1
                                 THEN Unset ELSE redis[n]]

HeldBy(n, token) == Taken(n) /\ redis[n].token = token

\* Mutant of SetNX: a SET without NX.
SetAlways(n, token, ttl) ==
    redis' = [redis EXCEPT ![n] = [token |-> token, until |-> now + ttl]]

\* Mutant of SetNX: a SET without PX, which sets no expiry.
SetNXForever(n, token, ttl) ==
    /\ ~Taken(n)
    /\ redis' = [redis EXCEPT ![n] = [token |-> token, until |-> Unset]]

\* SET key token PX ttl NX answers OK.
SetNX(n, token, ttl) ==
    /\ ~Taken(n)
    /\ redis' = [redis EXCEPT ![n] = [token |-> token, until |-> now + ttl]]

\* RELEASE_SCRIPT: the comparison and the delete are one step.
ReleaseScript(n, token) ==
    redis' = IF HeldBy(n, token) THEN [redis EXCEPT ![n] = Unset] ELSE redis

------------------------------------------------------------------------------
(* The task, its intervals and its ticks.                                  *)

Off == 0
Lock == <<"task">>
ClaimOf(interval) == <<"interval", interval>>

Intervals == 0..(MaxTime \div Interval)
ASSUME NamesAssumption == Names = {Lock} \union {ClaimOf(i) : i \in Intervals}

Steps == {"locking", "claiming", "running", "releasing"}
\* A tick's token is drawn at random: what is known of it is whose it is.
Token == [replica : Replicas, at : 0..MaxTime]
ASSUME UnsetAssumption == Unset \notin Entry(Token)
Tick == [token : Token, interval : Intervals, step : Steps, since : 0..MaxTime]

TypeOK ==
    /\ RedisTypeOK(Token)
    /\ now \in 0..MaxTime
    /\ due \in [Replicas -> Nat]
    /\ alive \subseteq Replicas
    /\ ticks \subseteq Tick
    /\ armed \subseteq Replicas
    /\ ran \in [Intervals -> Nat]
    /\ lastTaken \in 0..MaxTime
    /\ faults \in 0..MaxFaults

\* The start of the next interval, counted from the epoch.
Boundary(t) == (t \div Interval + 1) * Interval

NewTick(r) == [token |-> [replica |-> r, at |-> now], interval |-> now \div Interval,
               step |-> "locking", since |-> now]

Init ==
    /\ RedisInit
    /\ now = 0
    /\ due = [r \in Replicas |-> Boundary(0)]
    /\ alive = Replicas
    /\ ticks = IF RunOnStart THEN {NewTick(r) : r \in Replicas} ELSE {}
    /\ armed = Replicas
    /\ ran = [i \in Intervals |-> 0]
    /\ lastTaken = 0
    /\ faults = 0

Advance(t, step) == ticks' = (ticks \ {t}) \union {[t EXCEPT !.step = step]}
Over(t) == ticks' = ticks \ {t}

------------------------------------------------------------------------------
\* The timer fires: it is set again first, from the clock, and the tick reads
\* which interval it is in.
Fire(r) ==
    /\ r \in alive
    /\ due[r] # Off
    /\ now + Early >= due[r]
    /\ r \notin armed
    /\ due' = [due EXCEPT ![r] = Boundary(now)]
    /\ armed' = armed \union {r}
    /\ ticks' = ticks \union {NewTick(r)}
    /\ UNCHANGED <<redis, now, alive, ran, lastTaken, faults>>

\* Mutant of TakeLock: the lock kept for twice its time.
TakeLockLonger(t) ==
    /\ t.step = "locking"
    /\ SetNX(Lock, t.token, 2 * LockTtl)
    /\ Advance(t, "claiming")
    /\ lastTaken' = now
    /\ UNCHANGED <<now, due, armed, alive, ran, faults>>

\* withLock: a run still going is not joined by a second.
TakeLock(t) ==
    /\ t.step = "locking"
    /\ SetNX(Lock, t.token, LockTtl)
    /\ Advance(t, "claiming")
    /\ lastTaken' = now
    /\ UNCHANGED <<now, due, armed, alive, ran, faults>>

SkipGoing(t) ==
    /\ t.step = "locking"
    /\ Taken(Lock)
    /\ Over(t)
    /\ UNCHANGED <<redis, now, due, armed, alive, ran, lastTaken, faults>>

\* Mutant of Claim: the claim expires as its interval ends.
ClaimShorter(t) ==
    /\ t.step = "claiming"
    /\ SetNX(ClaimOf(t.interval), t.token, Interval)
    /\ ticks' = (ticks \ {t}) \union {[t EXCEPT !.step = "running", !.since = now]}
    /\ ran' = [ran EXCEPT ![t.interval] = @ + 1]
    /\ UNCHANGED <<now, due, armed, alive, lastTaken, faults>>

\* The interval's own claim, never released: two intervals later it is gone.
Claim(t) ==
    /\ t.step = "claiming"
    /\ SetNX(ClaimOf(t.interval), t.token, 2 * Interval)
    /\ ticks' = (ticks \ {t}) \union {[t EXCEPT !.step = "running", !.since = now]}
    /\ ran' = [ran EXCEPT ![t.interval] = @ + 1]
    /\ UNCHANGED <<now, due, armed, alive, lastTaken, faults>>

SkipRun(t) ==
    /\ t.step = "claiming"
    /\ Taken(ClaimOf(t.interval))
    /\ Advance(t, "releasing")
    /\ UNCHANGED <<redis, now, due, armed, alive, ran, lastTaken, faults>>

\* execute(): what the task throws is swallowed, so it ends one way.
EndRun(t) ==
    /\ t.step = "running"
    /\ Advance(t, "releasing")
    /\ UNCHANGED <<redis, now, due, armed, alive, ran, lastTaken, faults>>

ReleaseLock(t) ==
    /\ t.step = "releasing"
    /\ ReleaseScript(Lock, t.token)
    /\ Over(t)
    /\ UNCHANGED <<now, due, armed, alive, ran, lastTaken, faults>>

\* A call to Redis is rejected, with or without the command having been done:
\* taking the lock, the tick is over; claiming, the lock is still released;
\* releasing, the lock is left to expire.
RedisFails(t) ==
    /\ faults < MaxFaults
    /\ faults' = faults + 1
    /\ \/ /\ t.step = "locking"
          /\ SetNX(Lock, t.token, LockTtl) \/ UNCHANGED redis
          /\ Over(t)
       \/ /\ t.step = "claiming"
          /\ SetNX(ClaimOf(t.interval), t.token, 2 * Interval) \/ UNCHANGED redis
          /\ Advance(t, "releasing")
       \/ /\ t.step = "releasing"
          /\ UNCHANGED redis
          /\ Over(t)
    /\ UNCHANGED <<now, due, armed, alive, ran, lastTaken>>

\* stop(): the timer is cleared; the ticks under way are waited for.
Stop(r) ==
    /\ r \in alive
    /\ due[r] # Off
    /\ due' = [due EXCEPT ![r] = Off]
    /\ UNCHANGED <<redis, now, armed, alive, ticks, ran, lastTaken, faults>>

\* The process ends once stop() has answered, or dies with its ticks.
Exit(r) ==
    /\ r \in alive
    /\ due[r] = Off
    /\ \A t \in ticks : t.token.replica # r
    /\ alive' = alive \ {r}
    /\ UNCHANGED <<redis, now, due, armed, ticks, ran, lastTaken, faults>>

Crash(r) ==
    /\ r \in alive
    /\ alive' = alive \ {r}
    /\ ticks' = {t \in ticks : t.token.replica # r}
    /\ UNCHANGED <<redis, now, due, armed, ran, lastTaken, faults>>

\* Time passes, while nothing is later than its bound.
Pass ==
    /\ now < MaxTime
    /\ \A r \in alive : due[r] # Off => now < due[r] + MaxLate
    /\ \A t \in ticks :
          /\ t.step \in {"locking", "claiming"} => now < t.since + MaxDelay
          /\ t.step = "running" => now < t.since + MaxRun
          /\ t.step # "releasing"
    /\ RedisPass
    /\ armed' = {}
    /\ UNCHANGED <<due, alive, ticks, ran, lastTaken, faults>>

Next ==
    \/ \E r \in Replicas : Fire(r) \/ Stop(r) \/ Exit(r) \/ Crash(r)
    \/ \E t \in ticks :
          \/ TakeLock(t) \/ SkipGoing(t) \/ Claim(t) \/ SkipRun(t) \/ EndRun(t)
          \/ ReleaseLock(t) \/ RedisFails(t)
    \/ Pass

Spec == Init /\ [][Next]_vars

------------------------------------------------------------------------------
(* "Runs recurring tasks once per interval across a scaled fleet."         *)

\* No interval is run twice, by two replicas or by one whose timer fired early
\* or whose tick waited: the claim outlives every tick that could repeat it.
OncePerInterval ==
    \A i \in Intervals : ran[i] <= 1

\* "A run still going when the next interval starts is not joined by a second".
NoSecondRun ==
    \A s, t \in ticks : s.step = "running" /\ t.step = "running" => s = t

\* "A replica dying mid-task means the lock expires and the next interval
\* picks it up": while a replica is up and Redis answers, the task's lock is
\* taken again within an interval of its expiry, however many replicas died
\* holding it, and whoever fired early, late or at once with another.
Serving(r) == r \in alive /\ due[r] # Off
TaskResumes ==
    faults = 0 /\ (\E r \in Replicas : Serving(r))
        => now - lastTaken < LockTtl + Interval + MaxLate + MaxDelay

------------------------------------------------------------------------------
(* Why the first two hold: the parts of the inductive invariant.           *)

\* A token is one tick's, and one a replica has not drawn yet this instant is
\* nobody's.
Tokens ==
    /\ \A t \in ticks : t.token.at <= now /\ (t.token.at = now => t.token.replica \in armed)
    /\ \A s, t \in ticks : s.token = t.token => s = t

\* A tick decides soon after it began, and began within the interval it read.
Delays ==
    \A t \in ticks :
        t.step \in {"locking", "claiming"} =>
            /\ t.since = t.token.at
            /\ now <= t.since + MaxDelay
            /\ t.interval * Interval <= t.since
            /\ t.since < (t.interval + 1) * Interval

\* Whoever claims or runs holds the lock, for longer than that may take.
Holds ==
    \A t \in ticks :
        /\ t.step \in {"claiming", "running"} => HeldBy(Lock, t.token)
        /\ t.step = "claiming" => redis[Lock].until >= t.since + LockTtl
        /\ t.step = "running" => /\ redis[Lock].until + MaxDelay >= t.since + LockTtl
                                 /\ now <= t.since + MaxRun

\* An interval that has run is claimed until no tick that read it is left.
Claimed ==
    \A i \in Intervals :
        ran[i] > 0 => \/ now >= (i + 2) * Interval
                      \/ /\ Taken(ClaimOf(i))
                         /\ redis[ClaimOf(i)].until >= (i + 2) * Interval

IInv == TypeOK /\ Tokens /\ Delays /\ Holds /\ Claimed /\ OncePerInterval

(* And why the third: while Redis answers, a lock is its last taker's, and    *)
(* whoever serves is due within an interval of its end, or trying for it.      *)

\* A timer is set at most an interval ahead, and never long past.
Timers ==
    \A r \in Replicas : Serving(r) => due[r] <= now + Interval /\ now <= due[r] + MaxLate

\* The lock is held no longer than since it was last taken.
Lapses ==
    Taken(Lock) => now < redis[Lock].until /\ redis[Lock].until <= lastTaken + LockTtl

Resuming ==
    \A r \in Replicas : Serving(r) =>
        \/ due[r] < lastTaken + LockTtl + Interval
        \/ \E t \in ticks : /\ t.token.replica = r /\ t.step = "locking"
                            /\ t.since < lastTaken + LockTtl + Interval + MaxLate

RInv == lastTaken <= now /\ Timers /\ (faults = 0 => Lapses /\ Resuming)
==============================================================================
