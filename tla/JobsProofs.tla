----------------------------- MODULE JobsProofs -----------------------------
(***************************************************************************)
(* Theorems about what runs behind the requests: Scheduler, Scanner, the   *)
(* tagged cache and the rate limit of RedisHelpers, JobQueue, PrintQueue,  *)
(* for any replicas, intervals, delays, locks, items, keys, lifetimes,     *)
(* limits, jobs, workers and tickets that the assumptions of Scheduler and *)
(* MCJobs allow; and from them the invariants of MCJobs.                   *)
(***************************************************************************)
EXTENDS MCJobs, SumTheorems, SequenceTheorems

(* The scheduler *)

\* Where in time an interval lies.
LEMMA WithinInterval ==
    ASSUME NEW t \in Nat, NEW n \in Nat \ {0}
    PROVE  /\ t \div n \in Nat
           /\ (t \div n) * n <= t
           /\ t < (t \div n + 1) * n
           /\ (t \div n + 1) * n \in Nat
BY SMTT(20)

\* A later instant lies in no earlier interval.
LEMMA IntervalsInOrder ==
    ASSUME NEW s \in Nat, NEW t \in Nat, NEW n \in Nat \ {0}, s <= t
    PROVE  s \div n <= t \div n
BY SMTT(20)

\* Where the next interval and the one after it begin.
LEMMA IntervalsAdd ==
    ASSUME NEW i \in Nat, NEW n \in Nat
    PROVE  /\ i * n \in Nat /\ (i + 1) * n = i * n + n /\ (i + 2) * n = i * n + 2 * n
BY SMTT(20)

\* The keys of a fleet's locks are distinct.
LEMMA LockNames ==
    /\ Lock \in Names
    /\ \A i \in Intervals : ClaimOf(i) \in Names /\ ClaimOf(i) # Lock
    /\ \A i, j \in Intervals : ClaimOf(i) = ClaimOf(j) => i = j
BY NamesAssumption DEF Lock, ClaimOf

\* A tick that begins (tick, up to its first call) reads the interval it is in.
LEMMA NewTicks ==
    ASSUME TypeOK, NEW r \in Replicas
    PROVE  /\ NewTick(r) \in Tick
           /\ NewTick(r).interval * Interval <= now
           /\ now < (NewTick(r).interval + 1) * Interval
<1> USE SchedulerAssumption
<1>1. now \in 0..MaxTime /\ now \in Nat /\ MaxTime \in Nat /\ Interval \in Nat \ {0}
  BY DEF TypeOK
<1>2. now \div Interval \in Intervals
  BY <1>1, WithinInterval, IntervalsInOrder DEF Intervals
<1>3. (now \div Interval) * Interval <= now /\ now < (now \div Interval + 1) * Interval
  BY <1>1, WithinInterval
<1>. QED
  BY <1>1, <1>2, <1>3 DEF NewTick, Tick, Token, Steps

\* SET NX leaves the key held by the token it was given, for the time it was
\* given, and no other key changed.
LEMMA SetsEntry ==
    ASSUME RedisTypeOK(Token), now \in Nat,
           NEW n \in Names, NEW token \in Token, NEW life \in Nat, SetNX(n, token, life)
    PROVE  /\ RedisTypeOK(Token)'
           /\ HeldBy(n, token)'
           /\ redis'[n].until = now + life
           /\ \A m \in Names \ {n} : redis'[m] = redis[m]
<1>1. [token |-> token, until |-> now + life] \in Entry(Token)
  BY DEF Entry
<1>. QED
  BY <1>1, UnsetAssumption DEF RedisTypeOK, SetNX, HeldBy, Taken

\* A tick that moves on is a tick still.
LEMMA StepsOn ==
    ASSUME NEW t \in Tick, NEW step \in Steps, NEW t0 \in 0..MaxTime
    PROVE  /\ [t EXCEPT !.step = step] \in Tick
           /\ [t EXCEPT !.step = step, !.since = t0] \in Tick
BY DEF Tick

\* Where the next interval begins is a natural number.
LEMMA BoundaryNatural ==
    ASSUME NEW t \in Nat
    PROVE  Boundary(t) \in Nat
<1>1. Interval \in Nat \ {0}
  BY SchedulerAssumption
<1>2. (t \div Interval + 1) * Interval \in Nat
  BY <1>1, WithinInterval
<1> QED  BY <1>2 DEF Boundary

\* Every key, timer and tick keeps its type.
THEOREM TypeCorrect == Spec => []TypeOK
<1> USE SchedulerAssumption, UnsetAssumption
<1> USE DEF TypeOK, RedisTypeOK, Entry
<1>1. Init => TypeOK
  <2> SUFFICES ASSUME Init PROVE TypeOK
    OBVIOUS
  <2>1. 0 \div Interval \in Intervals /\ Boundary(0) \in Nat
    BY WithinInterval, IntervalsInOrder, BoundaryNatural DEF Intervals
  <2>2. ticks \subseteq Tick
    BY <2>1 DEF Init, NewTick, Tick, Token, Steps
  <2>. QED
    BY <2>1, <2>2 DEF Init, RedisInit, Intervals
<1>2. TypeOK /\ [Next]_vars => TypeOK'
  <2> SUFFICES ASSUME TypeOK, [Next]_vars PROVE TypeOK'
    OBVIOUS
  <2>1. ASSUME NEW r \in Replicas, Fire(r) PROVE TypeOK'
    <3>1. NewTick(r) \in Tick
      BY NewTicks
    <3>2. Boundary(now) \in Nat
      <4>1. now \in 0..MaxTime /\ MaxTime \in Nat
        BY DEF TypeOK
      <4>2. now \in Nat
        BY <4>1
      <4> QED  BY <4>2, BoundaryNatural
    <3>. QED
      BY <2>1, <3>1, <3>2 DEF Fire
  <2>2. ASSUME NEW r \in Replicas, Stop(r) PROVE TypeOK'
    BY <2>2 DEF Stop, Off
  <2>3. ASSUME NEW r \in Replicas, Exit(r) PROVE TypeOK'
    BY <2>3 DEF Exit
  <2>4. ASSUME NEW r \in Replicas, Crash(r) PROVE TypeOK'
    BY <2>4 DEF Crash
  <2>5. ASSUME NEW t \in ticks, TakeLock(t) PROVE TypeOK'
    <3>1. t \in Tick /\ t.token \in Token
      BY DEF Tick
    <3>2. RedisTypeOK(Token)'
      BY <2>5, <3>1, SetsEntry, LockNames DEF TakeLock
    <3>3. ticks' \subseteq Tick
      BY <2>5, <3>1, StepsOn DEF TakeLock, Advance, Steps
    <3>. QED
      BY <2>5, <3>2, <3>3 DEF TakeLock
  <2>6. ASSUME NEW t \in ticks, SkipGoing(t) PROVE TypeOK'
    BY <2>6 DEF SkipGoing, Over
  <2>7. ASSUME NEW t \in ticks, Claim(t) PROVE TypeOK'
    <3>1. t \in Tick /\ t.token \in Token /\ t.interval \in Intervals
      BY DEF Tick
    <3>2. RedisTypeOK(Token)'
      BY <2>7, <3>1, SetsEntry, LockNames DEF Claim
    <3>3. ticks' \subseteq Tick
      BY <2>7, <3>1, StepsOn DEF Claim, Steps
    <3>4. ran' \in [Intervals -> Nat]
      BY <2>7, <3>1 DEF Claim
    <3>. QED
      BY <2>7, <3>2, <3>3, <3>4 DEF Claim
  <2>8. ASSUME NEW t \in ticks, SkipRun(t) PROVE TypeOK'
    BY <2>8 DEF SkipRun, Advance, Tick, Steps
  <2>9. ASSUME NEW t \in ticks, EndRun(t) PROVE TypeOK'
    BY <2>9 DEF EndRun, Advance, Tick, Steps
  <2>10. ASSUME NEW t \in ticks, ReleaseLock(t) PROVE TypeOK'
    BY <2>10 DEF ReleaseLock, ReleaseScript, Over
  <2>11. ASSUME NEW t \in ticks, RedisFails(t) PROVE TypeOK'
    <3>1. redis' \in [Names -> Entry(Token) \union {Unset}]
      BY <2>11 DEF RedisFails, SetNX, Tick
    <3>2. ticks' \subseteq Tick
      BY <2>11 DEF RedisFails, Over, Advance, Tick, Steps
    <3>. QED
      BY <2>11, <3>1, <3>2 DEF RedisFails
  <2>12. CASE Pass
    BY <2>12 DEF Pass, RedisPass
  <2>13. CASE UNCHANGED vars
    BY <2>13 DEF vars
  <2>. QED
    BY <2>1, <2>2, <2>3, <2>4, <2>5, <2>6, <2>7, <2>8, <2>9, <2>10, <2>11, <2>12, <2>13 DEF Next
<1>3. QED
  BY <1>1, <1>2, PTL DEF Spec

\* The instants at which an interval and the two after it begin.
LEMMA Ends ==
    ASSUME NEW i \in Intervals
    PROVE  /\ i \in Nat /\ i * Interval \in Nat
           /\ (i + 1) * Interval = i * Interval + Interval
           /\ (i + 2) * Interval = i * Interval + 2 * Interval
BY SchedulerAssumption, WithinInterval, IntervalsAdd DEF Intervals

\* Each part of IInv holds for ever: a lock outlives the run it guards, and an
\* interval's claim the ticks that could repeat it.
THEOREM Inductive == Spec => []IInv
<1> USE SchedulerAssumption, LockNames
<1> DEFINE Parts == Tokens /\ Delays /\ Holds /\ Claimed /\ OncePerInterval
<1>1. Init => Parts
  <2> SUFFICES ASSUME Init PROVE Parts
    OBVIOUS
  <2>1. \A t \in ticks : \E r \in Replicas : t = NewTick(r)
    BY DEF Init
  <2>2. 0 \div Interval \in Nat /\ (0 \div Interval) * Interval <= 0 /\ 0 < (0 \div Interval + 1) * Interval
    BY WithinInterval
  <2>3. Tokens
    BY <2>1 DEF Tokens, Init, NewTick
  <2>4. Delays
    BY <2>1, <2>2 DEF Delays, Init, NewTick
  <2>5. Holds
    BY <2>1 DEF Holds, NewTick
  <2>. QED
    BY <2>3, <2>4, <2>5 DEF Claimed, OncePerInterval, Init
<1>2. TypeOK /\ TypeOK' /\ Parts /\ [Next]_vars => Parts'
  <2> SUFFICES ASSUME TypeOK, TypeOK', Parts, [Next]_vars PROVE Parts'
    OBVIOUS
  <2>0. now \in Nat /\ now' \in Nat /\ \A t \in ticks : t \in Tick /\ t.token \in Token /\ t.since \in Nat
                /\ t.interval \in Intervals /\ t.token.at \in Nat
    BY DEF TypeOK, Tick, Token
  <2>1. ASSUME NEW r \in Replicas, Fire(r) PROVE Parts'
    <3>1. /\ NewTick(r) \in Tick
          /\ NewTick(r).interval * Interval <= now
          /\ now < (NewTick(r).interval + 1) * Interval
      BY NewTicks
    <3>2. /\ ticks' = ticks \union {NewTick(r)} /\ UNCHANGED <<redis, now, ran>>
          /\ r \notin armed /\ armed' = armed \union {r}
      BY <2>1 DEF Fire
    <3>3. Tokens'
      BY <2>0, <3>2 DEF Tokens, NewTick
    <3>4. Delays'
      BY <2>0, <3>1, <3>2 DEF Delays, NewTick
    <3>5. Holds'
      BY <3>2 DEF Holds, NewTick, HeldBy, Taken
    <3>. QED
      BY <3>2, <3>3, <3>4, <3>5 DEF Claimed, OncePerInterval, Taken
  <2>2. ASSUME NEW r \in Replicas, Stop(r) PROVE Parts'
    BY <2>2 DEF Stop, Tokens, Delays, Holds, Claimed, OncePerInterval, HeldBy, Taken
  <2>3. ASSUME NEW r \in Replicas, Exit(r) PROVE Parts'
    BY <2>3 DEF Exit, Tokens, Delays, Holds, Claimed, OncePerInterval, HeldBy, Taken
  <2>4. ASSUME NEW r \in Replicas, Crash(r) PROVE Parts'
    BY <2>4 DEF Crash, Tokens, Delays, Holds, Claimed, OncePerInterval, HeldBy, Taken
  <2>5. ASSUME NEW t \in ticks, TakeLock(t) PROVE Parts'
    <3>1. /\ HeldBy(Lock, t.token)' /\ redis'[Lock].until = now + LockTtl
          /\ \A m \in Names \ {Lock} : redis'[m] = redis[m]
      BY <2>0, <2>5, SetsEntry DEF TakeLock, TypeOK
    <3>2. /\ ticks' = (ticks \ {t}) \union {[t EXCEPT !.step = "claiming"]}
          /\ t.step = "locking" /\ UNCHANGED <<now, armed, ran>> /\ ~Taken(Lock)
      BY <2>5 DEF TakeLock, Advance, SetNX
    <3>3. Tokens'
      BY <2>0, <3>2 DEF Tokens, Tick
    <3>4. Delays'
      BY <2>0, <3>2 DEF Delays, Tick
    <3>5. \A s \in ticks : s.step \notin {"claiming", "running"}
      BY <3>2 DEF Holds, HeldBy
    <3>6. Holds'
      <4> DEFINE u == [t EXCEPT !.step = "claiming"]
      <4>1. u.step = "claiming" /\ u.token = t.token /\ u.since = t.since
        BY <2>0 DEF Tick
      <4>2. t.since <= now
        BY <2>0, <3>2 DEF Tokens, Delays
      <4>3. HeldBy(Lock, u.token)' /\ redis'[Lock].until >= u.since + LockTtl
        BY <2>0, <3>1, <4>1, <4>2
      <4>4. ticks' = (ticks \ {t}) \union {u}
        BY <3>2
      <4>. HIDE DEF u
      <4>. QED
        BY <3>5, <4>1, <4>3, <4>4 DEF Holds
    <3>7. Claimed'
      BY <3>1, <3>2 DEF Claimed, Taken
    <3>. QED
      BY <3>2, <3>3, <3>4, <3>6, <3>7 DEF OncePerInterval
  <2>6. ASSUME NEW t \in ticks, SkipGoing(t) PROVE Parts'
    BY <2>6 DEF SkipGoing, Over, Tokens, Delays, Holds, Claimed, OncePerInterval, HeldBy, Taken
  <2>7. ASSUME NEW t \in ticks, Claim(t) PROVE Parts'
    <3> DEFINE n == ClaimOf(t.interval)
    <3>1. /\ Taken(n)' /\ redis'[n].until = now + 2 * Interval
          /\ \A m \in Names \ {n} : redis'[m] = redis[m]
      BY <2>0, <2>7, SetsEntry DEF Claim, TypeOK, HeldBy
    <3>2. /\ ticks' = (ticks \ {t}) \union {[t EXCEPT !.step = "running", !.since = now]}
          /\ ran' = [ran EXCEPT ![t.interval] = @ + 1]
          /\ t.step = "claiming" /\ UNCHANGED <<now, armed>> /\ ~Taken(n)
      BY <2>7 DEF Claim, SetNX
    <3> DEFINE u == [t EXCEPT !.step = "running", !.since = now]
    <3>u. u.step = "running" /\ u.token = t.token /\ u.since = now /\ ticks' = (ticks \ {t}) \union {u}
      BY <2>0, <3>2 DEF Tick
    <3>. HIDE DEF u
    <3>3. Tokens'
      BY <2>0, <3>2, <3>u DEF Tokens
    <3>4. Delays'
      BY <2>0, <3>2, <3>u DEF Delays
    <3>5. redis'[Lock] = redis[Lock]
      BY <2>0, <3>1
    <3>6. redis[Lock].until + MaxDelay >= now + LockTtl
      <4>1. redis[Lock].until \in Nat
        BY <3>2 DEF Holds, HeldBy, Taken, TypeOK, RedisTypeOK, Entry
      <4>. QED
        BY <2>0, <3>2, <4>1 DEF Holds, Delays
    <3>7. Holds'
      <4>1. HeldBy(Lock, t.token)'
        BY <3>2, <3>5 DEF Holds, HeldBy, Taken
      <4>2. redis'[Lock].until + MaxDelay >= u.since + LockTtl /\ now' <= u.since + MaxRun
        BY <2>0, <3>2, <3>5, <3>6, <3>u
      <4>3. ASSUME NEW s \in ticks
            PROVE  HeldBy(Lock, s.token)' <=> HeldBy(Lock, s.token)
        BY <3>5 DEF HeldBy, Taken
      <4>. QED
        BY <3>2, <3>5, <3>u, <4>1, <4>2, <4>3 DEF Holds
    <3>8. ran[t.interval] = 0 /\ now + 2 * Interval >= (t.interval + 2) * Interval
      <4>1. /\ now <= t.since + MaxDelay /\ t.since < (t.interval + 1) * Interval
            /\ t.interval * Interval <= t.since /\ t.since <= now
        BY <2>0, <3>2 DEF Delays, Tokens
      <4>2. now < (t.interval + 2) * Interval
        BY <2>0, <4>1, Ends
      <4>3. ~(ran[t.interval] > 0)
        BY <2>0, <3>2, <4>2, Ends DEF Claimed
      <4>. QED
        BY <2>0, <4>1, <4>3, Ends DEF TypeOK
    <3>9. Claimed' /\ OncePerInterval'
      <4>1. ASSUME NEW i \in Intervals \ {t.interval}
            PROVE  ran'[i] = ran[i] /\ redis'[ClaimOf(i)] = redis[ClaimOf(i)]
        BY <2>0, <3>1, <3>2 DEF TypeOK
      <4>2. ran'[t.interval] = 1
        BY <2>0, <3>2, <3>8 DEF TypeOK
      <4>. QED
        BY <2>0, <3>1, <3>2, <3>8, <4>1, <4>2 DEF Claimed, OncePerInterval, Taken
    <3>. QED
      BY <3>3, <3>4, <3>7, <3>9
  <2>8. ASSUME NEW t \in ticks, SkipRun(t) PROVE Parts'
    BY <2>0, <2>8 DEF SkipRun, Advance, Tick, Tokens, Delays, Holds, Claimed, OncePerInterval, HeldBy, Taken
  <2>9. ASSUME NEW t \in ticks, EndRun(t) PROVE Parts'
    BY <2>0, <2>9 DEF EndRun, Advance, Tick, Tokens, Delays, Holds, Claimed, OncePerInterval, HeldBy, Taken
  <2>10. ASSUME NEW t \in ticks, ReleaseLock(t) PROVE Parts'
    <3>1. t.step = "releasing" /\ ticks' = ticks \ {t} /\ UNCHANGED <<now, armed, ran>>
      BY <2>10 DEF ReleaseLock, Over
    <3>2. \A m \in Names \ {Lock} : redis'[m] = redis[m]
      BY <2>10 DEF ReleaseLock, ReleaseScript, TypeOK, RedisTypeOK
    <3>3. HeldBy(Lock, t.token) \/ redis' = redis
      BY <2>10 DEF ReleaseLock, ReleaseScript
    <3>4. \A s \in ticks : s.step \in {"claiming", "running"} => redis' = redis
      BY <3>1, <3>3 DEF Holds, Tokens, HeldBy
    <3>5. Holds'
      BY <3>1, <3>4 DEF Holds, HeldBy, Taken
    <3>. QED
      BY <3>1, <3>2, <3>5 DEF Tokens, Delays, Claimed, OncePerInterval, Taken
  <2>11. ASSUME NEW t \in ticks, RedisFails(t) PROVE Parts'
    <3>1. UNCHANGED <<now, armed, ran>>
      BY <2>11 DEF RedisFails
    <3>2. CASE t.step = "locking" /\ ticks' = ticks \ {t}
               /\ (SetNX(Lock, t.token, LockTtl) \/ UNCHANGED redis)
      <4>1. \A m \in Names \ {Lock} : redis'[m] = redis[m]
        BY <2>0, <3>2, SetsEntry DEF TypeOK
      <4>2. Tokens' /\ Delays'
        BY <3>1, <3>2 DEF Tokens, Delays
      <4>3. Holds'
        <5>1. CASE UNCHANGED redis
          BY <3>1, <3>2, <5>1 DEF Holds, HeldBy, Taken
        <5>2. CASE SetNX(Lock, t.token, LockTtl)
          BY <3>2, <5>2 DEF SetNX, Holds, HeldBy
        <5>. QED
          BY <3>2, <5>1, <5>2
      <4>. QED
        BY <3>1, <4>1, <4>2, <4>3 DEF Claimed, OncePerInterval, Taken
    <3>3. CASE t.step = "claiming" /\ Advance(t, "releasing")
               /\ (SetNX(ClaimOf(t.interval), t.token, 2 * Interval) \/ UNCHANGED redis)
      <4> DEFINE n == ClaimOf(t.interval)
                 u == [t EXCEPT !.step = "releasing"]
      <4>1. u.step = "releasing" /\ u.token = t.token /\ ticks' = (ticks \ {t}) \union {u}
        BY <2>0, <3>3 DEF Tick, Advance
      <4>. HIDE DEF u
      <4>2. \A m \in Names : redis'[m] = redis[m] \/ ~Taken(m)
        <5>1. CASE UNCHANGED redis
          BY <5>1
        <5>2. CASE SetNX(n, t.token, 2 * Interval)
          <6>1. ~Taken(n) /\ \A m \in Names \ {n} : redis'[m] = redis[m]
            BY <2>0, <5>2, SetsEntry DEF TypeOK, SetNX
          <6>. QED
            BY <6>1
        <5>. QED
          BY <3>3, <5>1, <5>2
      <4>3. redis'[Lock] = redis[Lock]
        BY <2>0, <3>3, SetsEntry DEF TypeOK
      <4>4. Tokens' /\ Delays'
        BY <2>0, <3>1, <4>1 DEF Tokens, Delays
      <4>5. Holds'
        BY <3>1, <4>1, <4>3 DEF Holds, HeldBy, Taken
      <4>6. Claimed'
        BY <3>1, <4>2 DEF Claimed, Taken
      <4>. QED
        BY <3>1, <4>4, <4>5, <4>6 DEF OncePerInterval
    <3>4. CASE t.step = "releasing" /\ UNCHANGED redis /\ ticks' = ticks \ {t}
      BY <3>1, <3>4 DEF Tokens, Delays, Holds, Claimed, OncePerInterval, HeldBy, Taken
    <3>. QED
      BY <2>11, <3>2, <3>3, <3>4 DEF RedisFails, Over
  <2>12. CASE Pass
    <3>1. now' = now + 1 /\ UNCHANGED <<ticks, ran>>
      BY <2>12 DEF Pass, RedisPass
    <3>2. ASSUME NEW n \in Names, Taken(n), redis[n].until > now + 1
          PROVE  redis'[n] = redis[n]
      <4>1. redis[n].until \in Nat
        BY <3>2 DEF Taken, TypeOK, RedisTypeOK, Entry
      <4>. QED
        BY <2>0, <3>2, <4>1, <2>12 DEF Pass, RedisPass
    <3>3. Tokens'
      BY <2>0, <3>1 DEF Tokens
    <3>4. Delays'
      BY <2>0, <2>12, <3>1 DEF Delays, Pass
    <3>5. ASSUME NEW t \in ticks, t.step \in {"claiming", "running"}
          PROVE  redis'[Lock] = redis[Lock] /\ (t.step = "running" => now' <= t.since + MaxRun)
      <4>1. Taken(Lock) /\ redis[Lock].until \in Nat
        BY <3>5 DEF Holds, HeldBy, Taken, TypeOK, RedisTypeOK, Entry
      <4>2. /\ t.step = "claiming" => now < t.since + MaxDelay
            /\ t.step = "running" => now < t.since + MaxRun
        BY <2>12, <3>5 DEF Pass
      <4>3. redis[Lock].until > now + 1
        BY <2>0, <3>5, <4>1, <4>2 DEF Holds
      <4>. QED
        BY <2>0, <3>1, <3>2, <4>1, <4>2, <4>3
    <3>6. Holds'
      BY <2>0, <3>1, <3>5 DEF Holds, HeldBy, Taken
    <3>7. Claimed'
      <4> SUFFICES ASSUME NEW i \in Intervals, ran[i] > 0
                   PROVE  \/ now' >= (i + 2) * Interval
                          \/ /\ Taken(ClaimOf(i))'
                             /\ redis'[ClaimOf(i)].until >= (i + 2) * Interval
        BY <3>1 DEF Claimed
      <4>1. CASE now >= (i + 2) * Interval
        BY <2>0, <3>1, <4>1, Ends
      <4>2. CASE Taken(ClaimOf(i)) /\ redis[ClaimOf(i)].until >= (i + 2) * Interval
        <5>1. redis[ClaimOf(i)].until \in Nat
          BY <4>2 DEF Taken, TypeOK, RedisTypeOK, Entry
        <5>2. CASE redis[ClaimOf(i)].until > now + 1
          BY <3>2, <4>2, <5>2 DEF Taken
        <5>3. CASE redis[ClaimOf(i)].until <= now + 1
          BY <2>0, <3>1, <4>2, <5>1, <5>3, Ends
        <5>. QED
          BY <2>0, <5>1, <5>2, <5>3
      <4>. QED
        BY <4>1, <4>2 DEF Claimed
    <3>. QED
      BY <3>1, <3>3, <3>4, <3>6, <3>7 DEF OncePerInterval
  <2>13. CASE UNCHANGED vars
    BY <2>13 DEF vars, Tokens, Delays, Holds, Claimed, OncePerInterval, HeldBy, Taken
  <2>. QED
    BY <2>1, <2>2, <2>3, <2>4, <2>5, <2>6, <2>7, <2>8, <2>9, <2>10, <2>11, <2>12, <2>13 DEF Next
<1>3. TypeOK /\ Parts => IInv
  BY DEF IInv
<1>4. Spec => []TypeOK
  BY TypeCorrect
<1>5. QED
  BY <1>1, <1>2, <1>3, <1>4, PTL DEF Spec

\* However many replicas, however early or late their timers: no interval is
\* run twice.
THEOREM OncePerIntervalAlways == Spec => []OncePerInterval
<1>1. IInv => OncePerInterval
  BY DEF IInv
<1>2. QED
  BY <1>1, Inductive, PTL

\* No run is joined by a second, of another replica or of its own.
THEOREM NoSecondRunAlways == Spec => []NoSecondRun
<1>1. IInv => NoSecondRun
  BY DEF IInv, Holds, Tokens, HeldBy, NoSecondRun
<1>2. QED
  BY <1>1, Inductive, PTL

\* The next interval begins after now, and within an interval.
LEMMA NextBoundary ==
    ASSUME NEW t \in Nat
    PROVE  Boundary(t) \in Nat /\ t < Boundary(t) /\ Boundary(t) <= t + Interval
<1>1. /\ t \div Interval \in Nat /\ (t \div Interval) * Interval <= t
      /\ t < (t \div Interval + 1) * Interval /\ (t \div Interval + 1) * Interval \in Nat
  BY SchedulerAssumption, WithinInterval
<1>2. (t \div Interval + 1) * Interval = (t \div Interval) * Interval + Interval
  BY <1>1, SchedulerAssumption, IntervalsAdd
<1>3. (t \div Interval) * Interval \in Nat
  BY <1>1, SchedulerAssumption, IntervalsAdd
<1>. QED
  BY <1>1, <1>2, <1>3, SchedulerAssumption DEF Boundary

\* What moves a tick on that has its lock, or loses one, leaves timers and who
\* is due as they are.
LEMMA ResumingKept ==
    ASSUME TypeOK, RInv,
           UNCHANGED <<now, due, lastTaken>>, alive' \subseteq alive, faults' = 0 => faults = 0,
           faults' = 0 => redis' = redis \/ redis'[Lock] = redis[Lock] \/ redis'[Lock] = Unset,
           faults' = 0 => \A t \in ticks : t.step = "locking" /\ t.token.replica \in alive' => t \in ticks'
    PROVE  RInv'
<1>1. \A r \in Replicas : Serving(r)' => Serving(r)
  BY DEF Serving
<1>2. Timers'
  BY <1>1 DEF RInv, Timers
<1>3. ASSUME faults' = 0 PROVE Lapses'
  BY <1>3 DEF RInv, Lapses, Taken
<1>4. ASSUME faults' = 0 PROVE Resuming'
  <2> SUFFICES ASSUME NEW r \in Replicas, Serving(r)'
               PROVE  \/ due[r] < lastTaken + LockTtl + Interval
                      \/ \E t \in ticks' : /\ t.token.replica = r /\ t.step = "locking"
                                           /\ t.since < lastTaken + LockTtl + Interval + MaxLate
    BY DEF Resuming
  <2>1. Serving(r) /\ r \in alive'
    BY <1>1 DEF Serving
  <2>. QED
    BY <1>4, <2>1 DEF RInv, Resuming
<1>. QED
  BY <1>2, <1>3, <1>4 DEF RInv

\* Every step keeps what the task's resumption rests on.
LEMMA RStep == TypeOK /\ TypeOK' /\ Delays /\ RInv /\ [Next]_vars => RInv'
<1> USE SchedulerAssumption, LockNames
<1> SUFFICES ASSUME TypeOK, TypeOK', Delays, RInv, [Next]_vars PROVE RInv'
  OBVIOUS
<1>0. /\ now \in Nat /\ lastTaken \in Nat /\ lastTaken <= now /\ faults \in Nat
      /\ \A r \in Replicas : due[r] \in Nat
      /\ \A t \in ticks : t \in Tick /\ t.token \in Token /\ t.since \in Nat
  BY DEF TypeOK, Tick, RInv
<1>1. ASSUME NEW q \in Replicas, Fire(q) PROVE RInv'
  <2>1. /\ due' = [due EXCEPT ![q] = Boundary(now)] /\ ticks' = ticks \union {NewTick(q)}
        /\ UNCHANGED <<redis, now, alive, lastTaken, faults>> /\ Serving(q)
    BY <1>1 DEF Fire, Serving
  <2>2. Boundary(now) \in Nat /\ now < Boundary(now) /\ Boundary(now) <= now + Interval
    BY <1>0, NextBoundary
  <2>3. Timers'
    <3> SUFFICES ASSUME NEW r \in Replicas, Serving(r)'
                 PROVE  due'[r] <= now + Interval /\ now <= due'[r] + MaxLate
      BY <2>1 DEF Timers
    <3>1. CASE r = q
      BY <1>0, <2>1, <2>2, <3>1 DEF TypeOK
    <3>2. CASE r # q
      <4>1. due'[r] = due[r] /\ Serving(r)
        BY <2>1, <3>2 DEF TypeOK, Serving
      <4>. QED
        BY <4>1 DEF RInv, Timers
    <3>. QED
      BY <3>1, <3>2
  <2>4. ASSUME faults = 0 PROVE Resuming'
    <3> SUFFICES ASSUME NEW r \in Replicas, Serving(r)'
                 PROVE  \/ due'[r] < lastTaken + LockTtl + Interval
                        \/ \E t \in ticks' : /\ t.token.replica = r /\ t.step = "locking"
                                             /\ t.since < lastTaken + LockTtl + Interval + MaxLate
      BY <2>1 DEF Resuming
    <3>1. CASE r = q
      <4>1. CASE due[q] < lastTaken + LockTtl + Interval
        <5>1. now <= due[q] + MaxLate
          BY <2>1 DEF RInv, Timers
        <5>2. /\ NewTick(q) \in ticks' /\ NewTick(q).token.replica = q
              /\ NewTick(q).step = "locking" /\ NewTick(q).since = now
          BY <2>1 DEF NewTick
        <5>3. now < lastTaken + LockTtl + Interval + MaxLate
          BY <1>0, <4>1, <5>1
        <5>. QED
          BY <3>1, <5>2, <5>3
      <4>2. CASE \E t \in ticks : /\ t.token.replica = q /\ t.step = "locking"
                                  /\ t.since < lastTaken + LockTtl + Interval + MaxLate
        BY <2>1, <3>1, <4>2
      <4>. QED
        BY <2>1, <2>4, <4>1, <4>2 DEF RInv, Resuming
    <3>2. CASE r # q
      <4>1. due'[r] = due[r] /\ Serving(r)
        BY <2>1, <3>2 DEF TypeOK, Serving
      <4>. QED
        BY <2>1, <2>4, <4>1 DEF RInv, Resuming
    <3>. QED
      BY <3>1, <3>2
  <2>. QED
    BY <2>1, <2>3, <2>4 DEF RInv, Lapses, Taken
<1>2. ASSUME NEW q \in Replicas, Stop(q) PROVE RInv'
  <2>1. /\ due' = [due EXCEPT ![q] = Off] /\ UNCHANGED <<redis, now, alive, ticks, lastTaken, faults>>
    BY <1>2 DEF Stop
  <2>2. \A r \in Replicas : Serving(r)' => Serving(r) /\ due'[r] = due[r]
    BY <2>1 DEF Serving, TypeOK
  <2>. QED
    BY <2>1, <2>2 DEF RInv, Timers, Lapses, Resuming, Taken
<1>3. ASSUME NEW q \in Replicas, Exit(q) PROVE RInv'
  BY <1>3, ResumingKept DEF Exit
<1>4. ASSUME NEW q \in Replicas, Crash(q) PROVE RInv'
  <2>1. /\ alive' = alive \ {q} /\ ticks' = {t \in ticks : t.token.replica # q}
        /\ UNCHANGED <<redis, now, due, lastTaken, faults>>
    BY <1>4 DEF Crash
  <2>. QED
    BY <2>1, ResumingKept
<1>5. ASSUME NEW t \in ticks, TakeLock(t) PROVE RInv'
  <2>1. /\ redis'[Lock].until = now + LockTtl /\ lastTaken' = now
        /\ UNCHANGED <<now, due, alive, faults>>
    BY <1>0, <1>5, SetsEntry DEF TakeLock, TypeOK
  <2>2. Timers'
    BY <2>1 DEF RInv, Timers, Serving
  <2>3. Lapses'
    BY <1>0, <2>1 DEF Lapses
  <2>4. Resuming'
    <3>1. \A r \in Replicas : Serving(r)' => due'[r] < lastTaken' + LockTtl + Interval
      BY <1>0, <2>1 DEF RInv, Timers, Serving
    <3>. QED
      BY <3>1 DEF Resuming
  <2>. QED
    BY <1>0, <2>1, <2>2, <2>3, <2>4 DEF RInv
<1>6. ASSUME NEW t \in ticks, SkipGoing(t) PROVE RInv'
  <2>1. Taken(Lock) /\ ticks' = ticks \ {t} /\ UNCHANGED <<redis, now, due, alive, lastTaken, faults>>
    BY <1>6 DEF SkipGoing, Over
  <2>2. Timers' /\ (faults = 0 => Lapses')
    BY <2>1 DEF RInv, Timers, Serving, Lapses, Taken
  <2>3. ASSUME faults = 0 PROVE Resuming'
    <3>1. redis[Lock].until \in Nat /\ now < redis[Lock].until /\ redis[Lock].until <= lastTaken + LockTtl
      BY <2>1, <2>3 DEF RInv, Lapses, Taken, TypeOK, RedisTypeOK, Entry
    <3>2. \A r \in Replicas : Serving(r) => due[r] < lastTaken + LockTtl + Interval
      BY <1>0, <3>1 DEF RInv, Timers
    <3>. QED
      BY <2>1, <3>2 DEF Resuming, Serving
  <2>. QED
    BY <1>0, <2>1, <2>2, <2>3 DEF RInv
<1>7. ASSUME NEW t \in ticks, t.step # "locking", NEW u, ticks' = (ticks \ {t}) \union {u},
             UNCHANGED <<now, due, alive, lastTaken>>, faults' = 0 => faults = 0,
             faults' = 0 => redis'[Lock] = redis[Lock]
      PROVE  RInv'
  <2>1. \A s \in ticks : s.step = "locking" => s \in ticks'
    BY <1>7
  <2>. QED
    BY <1>7, <2>1, ResumingKept
<1>8. ASSUME NEW t \in ticks, Claim(t) PROVE RInv'
  <2>1. redis'[Lock] = redis[Lock]
    BY <1>0, <1>8, SetsEntry DEF Claim, TypeOK, Tick
  <2>. QED
    BY <1>7, <1>8, <2>1 DEF Claim
<1>9. ASSUME NEW t \in ticks, SkipRun(t) \/ EndRun(t) PROVE RInv'
  BY <1>7, <1>9 DEF SkipRun, EndRun, Advance
<1>10. ASSUME NEW t \in ticks, ReleaseLock(t) PROVE RInv'
  <2>1. /\ t.step = "releasing" /\ ticks' = ticks \ {t}
        /\ UNCHANGED <<now, due, alive, lastTaken, faults>>
    BY <1>10 DEF ReleaseLock, Over
  <2>2. redis' = redis \/ redis'[Lock] = Unset
    BY <1>10 DEF ReleaseLock, ReleaseScript, TypeOK, RedisTypeOK
  <2>. QED
    BY <2>1, <2>2, ResumingKept
<1>11. ASSUME NEW t \in ticks, RedisFails(t) PROVE RInv'
  <2>1. faults' = faults + 1 /\ UNCHANGED <<now, due, alive, lastTaken>>
    BY <1>11 DEF RedisFails
  <2>2. faults' # 0
    BY <1>0, <2>1
  <2>. QED
    BY <2>1, <2>2 DEF RInv, Timers, Serving
<1>12. CASE Pass
  <2>1. /\ now' = now + 1 /\ UNCHANGED <<due, alive, ticks, lastTaken, faults>>
        /\ \A r \in alive : due[r] # Off => now < due[r] + MaxLate
        /\ redis'[Lock] = IF Taken(Lock) /\ redis[Lock].until <= now + 1 THEN Unset ELSE redis[Lock]
    BY <1>12 DEF Pass, RedisPass
  <2>2. Timers'
    BY <1>0, <2>1 DEF RInv, Timers, Serving
  <2>3. ASSUME faults = 0 PROVE Lapses'
    <3>1. CASE redis'[Lock] = Unset
      BY <3>1 DEF Lapses, Taken
    <3>2. CASE redis'[Lock] # Unset
      <4>1. redis'[Lock] = redis[Lock] /\ Taken(Lock) /\ ~(redis[Lock].until <= now + 1)
        BY <2>1, <3>2 DEF Taken
      <4>2. redis[Lock].until \in Nat
        BY <4>1 DEF Taken, TypeOK, RedisTypeOK, Entry
      <4>. QED
        BY <1>0, <2>1, <2>3, <4>1, <4>2 DEF RInv, Lapses
    <3>. QED
      BY <3>1, <3>2
  <2>4. ASSUME faults = 0 PROVE Resuming'
    BY <2>1, <2>4 DEF RInv, Resuming, Serving
  <2>. QED
    BY <1>0, <2>1, <2>2, <2>3, <2>4 DEF RInv
<1>13. CASE UNCHANGED vars
  BY <1>13 DEF vars, RInv, Timers, Lapses, Resuming, Serving, Taken
<1>. QED
  BY <1>1, <1>2, <1>3, <1>4, <1>5, <1>6, <1>8, <1>9, <1>10, <1>11, <1>12, <1>13 DEF Next

\* A replica that dies holding the task's lock does not end the task: while one
\* is up and Redis answers, the lock is taken again within an interval of its
\* expiry and the delays of a timer and a tick, whichever replicas died and when.
THEOREM TaskResumesAlways == Spec => []TaskResumes
<1> USE SchedulerAssumption
<1>1. Init => RInv
  <2> SUFFICES ASSUME Init PROVE RInv
    OBVIOUS
  <2>1. Boundary(0) \in Nat /\ 0 < Boundary(0) /\ Boundary(0) <= Interval
    BY NextBoundary
  <2>2. Timers /\ Resuming
    BY <2>1 DEF Init, Timers, Resuming
  <2>3. ~Taken(Lock)
    BY LockNames DEF Init, RedisInit, Taken
  <2>. QED
    BY <2>2, <2>3 DEF Init, RInv, Lapses
<1>2. TypeOK /\ TypeOK' /\ Delays /\ RInv /\ [Next]_vars => RInv'
  BY RStep
<1>3. TypeOK /\ Delays /\ RInv => TaskResumes
  <2> SUFFICES ASSUME TypeOK, Delays, RInv, faults = 0, NEW r \in Replicas, Serving(r)
               PROVE  now - lastTaken < LockTtl + Interval + MaxLate + MaxDelay
    BY DEF TaskResumes
  <2>1. now \in Nat /\ lastTaken \in Nat /\ due[r] \in Nat /\ now <= due[r] + MaxLate
    BY DEF TypeOK, RInv, Timers
  <2>2. CASE due[r] < lastTaken + LockTtl + Interval
    BY <2>1, <2>2
  <2>3. ASSUME NEW t \in ticks, t.step = "locking",
               t.since < lastTaken + LockTtl + Interval + MaxLate
        PROVE  now - lastTaken < LockTtl + Interval + MaxLate + MaxDelay
    <3>1. t.since \in Nat /\ now <= t.since + MaxDelay
      BY <2>3 DEF TypeOK, Tick, Delays
    <3>. QED
      BY <2>1, <2>3, <3>1
  <2>. QED
    BY <2>2, <2>3 DEF RInv, Resuming
<1>4. Spec => [](TypeOK /\ Delays)
  <2>1. IInv => TypeOK /\ Delays
    BY DEF IInv
  <2>. QED
    BY <2>1, Inductive, PTL
<1>. QED
  BY <1>1, <1>2, <1>3, <1>4, PTL DEF Spec

----------------------------------------------------------------------------
(* The scanner *)

\* Where a pass may be.
Searching == [step : {"find"}, at : Nat]
Sorting == [step : {"items"}, at : Nat, left : SUBSET Scan!Occurrences]
Sending == [step : {"dispatch"}, at : Nat, left : SUBSET Scan!Occurrences, item : Scan!Occurrences]
PassAt == {Scan!Idle} \union Searching \union Sorting \union Sending
ClaimAt == [by : Replicas, until : Nat]

ScanTyped ==
  /\ moment \in 0..MaxMoment /\ lastFind \in 0..moment /\ late \in BOOLEAN
  /\ scanFaults \in 0..ScanFaults /\ moves \in 0..MaxMoves
  /\ itemDue \in [Items -> 0..MaxMoment] /\ since \in [Items -> 0..moment]
  /\ lock.by \in Replicas \union {Nobody}
  /\ DOMAIN claims \subseteq Items /\ \A i \in DOMAIN claims : claims[i] \in ClaimAt
  /\ found \subseteq Scan!Occurrences /\ failed \subseteq found /\ dead \subseteq found
  /\ dispatched \in [found -> Nat] /\ sent \in [Items -> Nat] /\ pass \in [Replicas -> PassAt]

\* What a pass has found may be dispatched by it, and stands as it was found
\* unless it was moved or cancelled since.
InTime(x, o) ==
  /\ o \in found /\ o[2] >= x.at /\ o[2] < x.at + Ahead
  /\ itemDue[o[1]] = o[2] \/ since[o[1]] >= x.at

\* A pass is at it for as long as it may take, and has in hand what it found.
PassHolds(x) ==
  /\ x.step # "idle" => x.at <= moment /\ moment <= x.at + MaxPass
  /\ x.step \in {"items", "dispatch"} => \A o \in x.left : InTime(x, o)
  /\ x.step = "dispatch" => InTime(x, x.item)

InHand == \A r \in Replicas : PassHolds(pass[r])

AtHand(o) == \E r \in Replicas : pass[r].step = "dispatch" /\ pass[r].item = o

\* Who is about to send an item has the claim on it, and for long enough.
HandHolds ==
  \A r \in Replicas : pass[r].step = "dispatch" =>
    LET i == pass[r].item[1] IN
    i \in DOMAIN claims /\ claims[i].by = r /\ claims[i].until >= pass[r].at + DedupeTtl

\* What was sent is remembered, by the claim it was sent under, and nobody is
\* about to send it again; and that outlives all who could claim it.
Remembered ==
  /\ \A i \in Items : sent[i] > moment =>
       /\ i \in DOMAIN claims /\ claims[i].until = sent[i]
       /\ \A r \in Replicas : pass[r].step = "dispatch" => pass[r].item[1] # i
  /\ \A o \in found : dispatched[o] <= 1 /\ (dispatched[o] = 1 => sent[o[1]] > o[2] + MaxPass)

\* Every claim is somebody's who is about to send, or sent, or died.
ClaimedFor ==
  \A i \in DOMAIN claims : \E o \in found : o[1] = i /\ (dispatched[o] = 1 \/ o \in dead \/ AtHand(o))

NoneForgotten ==
  \A o \in found :
    \/ dispatched[o] = 1 \/ o \in failed \union dead \/ Scan!Moved(o) \/ AtHand(o)
    \/ \E r \in Replicas : pass[r].step \in {"items", "dispatch"} /\ o \in pass[r].left

\* The last pass that looked found what was in its window, and the windows of
\* passes that are not too far apart leave no gap.
NoGap ==
  /\ \A i \in Items :
       itemDue[i] # 0 /\ lastFind > since[i] /\ lastFind <= itemDue[i] /\ itemDue[i] < lastFind + Ahead =>
         <<i, itemDue[i]>> \in found
  /\ ~late => \A i \in Items :
       itemDue[i] # 0 /\ since[i] + Ahead <= itemDue[i] /\ moment > itemDue[i] => <<i, itemDue[i]>> \in found

ScanInv == ScanTyped /\ InHand /\ HandHolds /\ Remembered /\ ClaimedFor /\ NoneForgotten /\ NoGap

\* Where a pass may be, and what it has there.
LEMMA PassIs ==
  \A x \in PassAt :
    /\ x.step \in {"idle", "find", "items", "dispatch"}
    /\ x.step = "idle" <=> x = Scan!Idle
    /\ x.step # "idle" => x.at \in Nat
    /\ x.step \in {"items", "dispatch"} => x.left \subseteq Scan!Occurrences
    /\ x.step = "dispatch" => x.item \in Scan!Occurrences
BY DEF PassAt, Searching, Sorting, Sending, Scan!Idle

\* A pass moves on, and the others do not.
LEMMA PassGoes ==
  ASSUME ScanTyped, NEW r \in Replicas, NEW x \in PassAt, Scan!Goes(r, x)
  PROVE  /\ pass' \in [Replicas -> PassAt]
         /\ pass'[r] = x
         /\ \A q \in Replicas : q # r => pass'[q] = pass[q]
BY DEF ScanTyped, Scan!Goes

\* What the assumption says of each constant.
LEMMA ScanBounds ==
  /\ Ahead \in Nat /\ DedupeTtl \in Nat /\ MaxPass \in Nat /\ MaxMoment \in Nat
  /\ ScanFaults \in Nat /\ MaxMoves \in Nat
  /\ Ahead + MaxPass <= DedupeTtl
BY ScanAssumption

\* An occurrence is of an item, and due at a moment.
LEMMA OccurrenceIs ==
  /\ \A o \in Scan!Occurrences : o[1] \in Items /\ o[2] \in 0..MaxMoment /\ o[2] \in Nat /\ o = <<o[1], o[2]>>
  /\ \A i \in Items, m \in 0..MaxMoment : <<i, m>> \in Scan!Occurrences
BY ScanAssumption DEF Scan!Occurrences, Scan!Moments

\* Who is about to send has a claim that lasts longer than the pass may take,
\* and what it is about to send was not sent under one that is remembered.
LEMMA HandIs ==
  ASSUME ScanInv, NEW r \in Replicas, pass[r].step = "dispatch"
  PROVE  LET o == pass[r].item
             i == pass[r].item[1] IN
         /\ pass[r].at \in Nat /\ pass[r].left \subseteq Scan!Occurrences
         /\ o \in found /\ o \in Scan!Occurrences /\ i \in Items /\ o[2] \in Nat
         /\ o[2] >= pass[r].at /\ o[2] < pass[r].at + Ahead
         /\ moment \in Nat /\ pass[r].at <= moment /\ moment <= pass[r].at + MaxPass
         /\ i \in DOMAIN claims /\ claims[i].by = r /\ claims[i] \in ClaimAt
         /\ claims[i].until \in Nat /\ claims[i].until > pass[r].at + MaxPass
         /\ claims[i].until > o[2] + MaxPass
         /\ sent[i] \in Nat /\ sent[i] <= moment
         /\ dispatched[o] = 0
         /\ \A q \in Replicas : q # r /\ pass[q].step = "dispatch" => pass[q].item[1] # i
<1> PICK o : o = pass[r].item
  OBVIOUS
<1> PICK i : i = o[1]
  OBVIOUS
<1>1. pass[r] \in PassAt /\ pass[r].at \in Nat /\ pass[r].left \subseteq Scan!Occurrences /\ o \in Scan!Occurrences
  BY PassIs DEF ScanInv, ScanTyped
<1>2. /\ o \in found /\ o[2] >= pass[r].at /\ o[2] < pass[r].at + Ahead
      /\ pass[r].at <= moment /\ moment <= pass[r].at + MaxPass
  BY DEF ScanInv, InHand, PassHolds, InTime
<1>3. moment \in Nat /\ o[2] \in Nat /\ i \in Items
  BY <1>1, OccurrenceIs DEF ScanInv, ScanTyped
<1>4. /\ i \in DOMAIN claims /\ claims[i].by = r /\ claims[i].until >= pass[r].at + DedupeTtl
      /\ claims[i] \in ClaimAt /\ claims[i].until \in Nat
  BY DEF ScanInv, HandHolds, ScanTyped, ClaimAt
<1>5. claims[i].until > pass[r].at + MaxPass /\ claims[i].until > o[2] + MaxPass
  BY <1>1, <1>2, <1>3, <1>4, ScanBounds
<1>6. sent[i] \in Nat /\ sent[i] <= moment
  BY <1>3 DEF ScanInv, Remembered, ScanTyped
<1>7. dispatched[o] = 0
  <2>1. dispatched[o] \in Nat /\ dispatched[o] <= 1 /\ (dispatched[o] = 1 => sent[i] > o[2] + MaxPass)
    BY <1>2 DEF ScanInv, Remembered, ScanTyped
  <2>2. ~(sent[i] > o[2] + MaxPass)
    BY <1>1, <1>2, <1>3, <1>6, ScanBounds
  <2> QED  BY <2>1, <2>2
<1>8. \A q \in Replicas : q # r /\ pass[q].step = "dispatch" => pass[q].item[1] # i
  BY <1>4 DEF ScanInv, HandHolds
<1> QED  BY <1>1, <1>2, <1>3, <1>4, <1>5, <1>6, <1>7, <1>8

\* The invariant of the scanner holds at first.
LEMMA ScanBegins == Scan!Init => ScanInv
<1> SUFFICES ASSUME Scan!Init PROVE ScanInv
  OBVIOUS
<1> USE ScanAssumption DEF Scan!Init
<1>1. Scan!Idle \in PassAt /\ Scan!Idle.step = "idle"
  BY DEF PassAt, Scan!Idle
<1>2. \A r \in Replicas : pass[r].step = "idle"
  BY <1>1
<1>3. ScanTyped
  <2>1. DOMAIN claims = {} /\ dispatched \in [{} -> Nat] /\ found = {} /\ failed = {} /\ dead = {}
    OBVIOUS
  <2>2. pass \in [Replicas -> PassAt] /\ lock.by = Nobody
    BY <1>1 DEF Scan!Free
  <2>0. late \in BOOLEAN
    OBVIOUS
  <2>3. /\ moment = 0 /\ lastFind = 0 /\ sent \in [Items -> Nat]
        /\ itemDue \in [Items -> 0..MaxMoment] /\ since \in [Items -> 0..0]
        /\ scanFaults \in 0..ScanFaults /\ moves \in 0..MaxMoves
    BY ScanBounds
  <2> QED  BY ScanBounds, <2>0, <2>1, <2>2, <2>3 DEF ScanTyped
<1>4. InHand /\ HandHolds
  BY <1>2 DEF InHand, PassHolds, HandHolds
<1>5. Remembered /\ ClaimedFor /\ NoneForgotten
  BY DEF Remembered, ClaimedFor, NoneForgotten
<1>6. NoGap
  BY DEF NoGap
<1> QED  BY <1>3, <1>4, <1>5, <1>6 DEF ScanInv

\* Time passes, and what has expired is dropped.
LEMMA ScanPasses == ScanInv /\ Scan!Pass => ScanInv'
<1> SUFFICES ASSUME ScanInv, Scan!Pass PROVE ScanInv'
  OBVIOUS
<1> USE DEF ScanInv
<1>1. /\ moment \in Nat /\ moment' = moment + 1 /\ moment' \in 0..MaxMoment
      /\ pass' = pass /\ found' = found /\ dispatched' = dispatched /\ failed' = failed /\ dead' = dead
      /\ sent' = sent /\ lastFind' = lastFind /\ itemDue' = itemDue /\ since' = since
  BY ScanAssumption DEF Scan!Pass, ScanTyped
<1>2. /\ claims' = [i \in {i \in DOMAIN claims : claims[i].until > moment'} |-> claims[i]]
      /\ DOMAIN claims' = {i \in DOMAIN claims : claims[i].until > moment'}
      /\ \A i \in DOMAIN claims' : claims'[i] = claims[i]
  BY DEF Scan!Pass
<1>3. ScanTyped'
  BY ScanAssumption, <1>1, <1>2 DEF ScanTyped, Scan!Pass, Scan!Free
<1>4. ASSUME NEW r \in Replicas, pass[r].step # "idle"
      PROVE  pass[r].at <= moment' /\ moment' <= pass[r].at + MaxPass /\ pass[r].at \in Nat
  <2>1. pass[r].at \in Nat /\ moment - pass[r].at < MaxPass /\ pass[r].at <= moment
    BY <1>4, PassIs DEF Scan!Pass, Scan!At, ScanTyped, InHand, PassHolds
  <2> QED  BY <1>1, <2>1, ScanBounds
<1>5. InHand'
  <2>1. \A x, o : InTime(x, o)' <=> InTime(x, o)
    BY <1>1 DEF InTime
  <2> QED  BY <1>1, <1>4, <2>1 DEF InHand, PassHolds
<1>6. HandHolds'
  <2>1. ASSUME NEW r \in Replicas, pass[r].step = "dispatch"
        PROVE  LET i == pass[r].item[1] IN
               i \in DOMAIN claims' /\ claims'[i].by = r /\ claims'[i].until >= pass[r].at + DedupeTtl
    <3>1. PICK i : i = pass[r].item[1]
      OBVIOUS
    <3>2. i \in DOMAIN claims /\ claims[i].until \in Nat /\ claims[i].until > pass[r].at + MaxPass
      BY <2>1, <3>1, HandIs
    <3>3. claims[i].until > moment'
      BY <1>1, <1>4, <2>1, <3>2, ScanBounds
    <3> QED  BY <1>2, <2>1, <3>1, <3>2, <3>3 DEF HandHolds
  <2> QED  BY <1>1, <2>1 DEF HandHolds
<1>7. Remembered'
  <2>1. \A i \in Items : sent[i] > moment' => sent[i] > moment
    BY <1>1 DEF ScanTyped
  <2> QED  BY <1>1, <1>2, <2>1 DEF Remembered
<1>8. ClaimedFor' /\ NoneForgotten'
  BY <1>1, <1>2 DEF ClaimedFor, NoneForgotten, AtHand, Scan!Moved
<1>9. NoGap'
  <2>1. ASSUME ~late', NEW i \in Items, itemDue[i] # 0, since[i] + Ahead <= itemDue[i], moment' > itemDue[i]
        PROVE  <<i, itemDue[i]>> \in found
    <3>1. itemDue[i] \in Nat /\ since[i] \in Nat /\ lastFind \in Nat /\ lastFind <= moment
      BY <1>1, ScanBounds DEF ScanTyped
    <3>2. ~late /\ moment' <= lastFind + Ahead
      <4>1. late' = (late \/ moment' - lastFind > Ahead)
        BY DEF Scan!Pass
      <4>2. ~late /\ ~(moment' - lastFind > Ahead)
        BY <2>1, <4>1
      <4> QED  BY <1>1, <3>1, <4>2, ScanBounds
    <3>3. CASE moment > itemDue[i]
      BY <2>1, <3>2, <3>3 DEF NoGap
    <3>4. CASE ~(moment > itemDue[i])
      <4>1. lastFind > since[i] /\ lastFind <= itemDue[i] /\ itemDue[i] < lastFind + Ahead
        BY <1>1, <2>1, <3>1, <3>2, <3>4, ScanBounds
      <4> QED  BY <2>1, <4>1 DEF NoGap
    <3> QED  BY <3>3, <3>4
  <2> QED  BY <1>1, <2>1 DEF NoGap
<1> QED  BY <1>3, <1>5, <1>6, <1>7, <1>8, <1>9

\* An item is made, moved or cancelled.
LEMMA ScanPlans ==
  ASSUME ScanInv, NEW i \in Items, NEW when \in Scan!Moments, Scan!Plan(i, when)
  PROVE  ScanInv'
<1> USE ScanAssumption DEF ScanInv, Scan!Plan
<1>1. ScanTyped'
  BY DEF ScanTyped, Scan!Moments
<1>2. /\ \A j \in Items : j # i => itemDue'[j] = itemDue[j] /\ since'[j] = since[j]
      /\ itemDue'[i] = when /\ since'[i] = moment /\ when \in Nat /\ moment \in Nat /\ lastFind \in 0..moment
  BY DEF ScanTyped, Scan!Moments
<1>3. InHand'
  <2>1. ASSUME NEW r \in Replicas, NEW o \in found, pass[r].step # "idle", InTime(pass[r], o)
        PROVE  InTime(pass[r], o)'
    <3>1. o[1] \in Items
      BY OccurrenceIs DEF ScanTyped
    <3>2. pass[r].at <= moment
      BY <2>1 DEF InHand, PassHolds
    <3> QED  BY <1>2, <2>1, <3>1, <3>2 DEF InTime
  <2>2. \A r \in Replicas : PassHolds(pass[r])
    BY DEF InHand
  <2>3. \A r \in Replicas : \A o : InTime(pass[r], o) => o \in found
    BY DEF InTime
  <2> QED  BY <2>1, <2>2, <2>3 DEF InHand, PassHolds
<1>4. HandHolds' /\ Remembered' /\ ClaimedFor' /\ NoneForgotten'
  BY DEF HandHolds, Remembered, ClaimedFor, NoneForgotten, AtHand, Scan!Moved
<1>5. NoGap'
  BY <1>2 DEF NoGap
<1> QED  BY <1>1, <1>3, <1>4, <1>5

\* A pass that moves on to what it has in hand, and has no more in hand than before.
LEMMA InHandKept ==
  ASSUME ScanInv, NEW r \in Replicas, NEW x, PassHolds(x)',
         UNCHANGED <<moment, itemDue, since, found>>,
         pass'[r] = x, \A q \in Replicas : q # r => pass'[q] = pass[q]
  PROVE  InHand'
<1>1. \A q \in Replicas : PassHolds(pass[q])
  BY DEF ScanInv, InHand
<1>2. \A q \in Replicas : PassHolds(pass[q])'
  <2>1. \A q \in Replicas : q # r => PassHolds(pass[q])'
    BY <1>1 DEF PassHolds, InTime
  <2>2. PassHolds(pass[r])'
    BY DEF PassHolds, InTime
  <2> QED  BY <2>1, <2>2
<1> QED  BY <1>2 DEF InHand

\* A replica takes the lock of the pass, and has found nothing yet.
LEMMA ScanStarts == ASSUME ScanInv, NEW r \in Replicas, Scan!Begin(r) PROVE ScanInv'
<1>1. PICK x : x = [step |-> "find", at |-> moment]
  OBVIOUS
<1>2. x \in PassAt /\ x.step = "find" /\ x.at = moment /\ moment \in Nat
  BY <1>1, ScanAssumption DEF PassAt, Searching, ScanTyped, ScanInv
<1>3. pass' \in [Replicas -> PassAt] /\ pass'[r] = x /\ \A q \in Replicas : q # r => pass'[q] = pass[q]
  BY <1>1, <1>2, PassGoes DEF Scan!Begin, ScanInv
<1>4. /\ pass[r].step = "idle" /\ lock' = [by |-> r, until |-> moment + ScanLockTtl]
      /\ UNCHANGED <<moment, itemDue, since, claims, scanFaults, moves, found, dispatched, sent, failed, dead, lastFind, late>>
  BY DEF Scan!Begin, Scan!At
<1>5. ScanTyped'
  BY <1>3, <1>4 DEF ScanTyped, ScanInv
<1>6. InHand'
  <2>1. PassHolds(x)'
    BY <1>2, <1>4, ScanBounds DEF PassHolds
  <2> QED  BY <1>3, <1>4, <2>1, InHandKept
<1>7. \A o : AtHand(o)' <=> AtHand(o)
  BY <1>2, <1>3, <1>4 DEF AtHand
<1>8. HandHolds' /\ Remembered'
  BY <1>2, <1>3, <1>4 DEF HandHolds, Remembered, ScanInv
<1>9. ClaimedFor' /\ NoneForgotten'
  BY <1>2, <1>3, <1>4, <1>7 DEF ClaimedFor, NoneForgotten, Scan!Moved, ScanInv
<1>10. NoGap'
  BY <1>4 DEF NoGap, ScanInv
<1> QED  BY <1>5, <1>6, <1>8, <1>9, <1>10 DEF ScanInv

\* find() returns what stands in its window.
LEMMA ScanFinds == ASSUME ScanInv, NEW r \in Replicas, Scan!Find(r) PROVE ScanInv'
<1>1. PICK items : items = {<<i, itemDue[i]>> : i \in {j \in Items : itemDue[j] # 0 /\ Scan!InWindow(j, pass[r].at)}}
  OBVIOUS
<1>2. PICK x : x = [step |-> "items", at |-> pass[r].at, left |-> items]
  OBVIOUS
<1>3. pass[r].step = "find" /\ pass[r].at \in Nat
  BY PassIs DEF Scan!Find, Scan!At, ScanTyped, ScanInv
<1>4. items \subseteq Scan!Occurrences
  BY <1>1 DEF ScanTyped, Scan!Occurrences, Scan!Moments, ScanInv
<1>5. \A o \in items : o[2] \in Nat /\ o[2] >= pass[r].at /\ o[2] < pass[r].at + Ahead /\ itemDue[o[1]] = o[2]
  BY <1>1, <1>4, OccurrenceIs DEF Scan!InWindow
<1>6. x \in PassAt /\ x.step = "items" /\ x.at = pass[r].at /\ x.left = items
  BY <1>2, <1>3, <1>4 DEF PassAt, Sorting
<1>7. pass' \in [Replicas -> PassAt] /\ pass'[r] = x /\ \A q \in Replicas : q # r => pass'[q] = pass[q]
  <2>1. Scan!Goes(r, x)
    BY <1>1, <1>2 DEF Scan!Find
  <2> QED  BY <1>6, <2>1, PassGoes DEF ScanInv
<1>8. /\ found' = found \union items /\ lastFind' = pass[r].at /\ failed' = failed \ items
      /\ dispatched' = [o \in found' |-> IF o \in found THEN dispatched[o] ELSE 0]
      /\ UNCHANGED <<moment, itemDue, since, lock, claims, scanFaults, moves, sent, dead, late>>
  BY <1>1 DEF Scan!Find
<1>9. pass[r].at <= moment /\ moment <= pass[r].at + MaxPass /\ moment \in Nat
  BY <1>3 DEF InHand, PassHolds, ScanTyped, ScanInv
<1>10. /\ dispatched' \in [found' -> Nat]
       /\ \A o \in found : dispatched'[o] = dispatched[o]
       /\ \A o \in found' \ found : dispatched'[o] = 0
  BY <1>8 DEF ScanTyped, ScanInv
<1>11. ScanTyped'
  BY <1>3, <1>4, <1>7, <1>8, <1>9, <1>10 DEF ScanTyped, ScanInv
<1>12. InHand'
  <2>1. PassHolds(x)'
    BY <1>3, <1>5, <1>6, <1>8, <1>9 DEF PassHolds, InTime
  <2>2. PassHolds(pass[r])'
    BY <1>7, <2>1 DEF PassHolds, InTime
  <2>3. ASSUME NEW q \in Replicas, q # r PROVE (PassHolds(pass[q]))'
    <3>1. pass'[q] = pass[q] /\ PassHolds(pass[q])
      BY <1>7, <2>3 DEF ScanInv, InHand
    <3> QED  BY <1>8, <3>1 DEF PassHolds, InTime
  <2> QED  BY <2>2, <2>3 DEF InHand
<1>13. \A o : AtHand(o)' <=> AtHand(o)
  BY <1>3, <1>6, <1>7 DEF AtHand
<1>14. HandHolds'
  BY <1>6, <1>7, <1>8 DEF HandHolds, ScanInv
<1>15. Remembered'
  BY <1>6, <1>7, <1>8, <1>10 DEF Remembered, ScanInv
<1>16. ClaimedFor'
  BY <1>8, <1>10, <1>13 DEF ClaimedFor, ScanInv
<1>17. NoneForgotten'
  <2>1. ASSUME NEW o \in found, o \notin items PROVE NoneForgotten!(o)'
    <3>1. Scan!Moved(o) => Scan!Moved(o)'
      BY <1>8 DEF Scan!Moved
    <3>2. NoneForgotten!(o)
      BY DEF NoneForgotten, ScanInv
    <3> QED  BY <1>3, <1>6, <1>7, <1>8, <1>10, <1>13, <2>1, <3>1, <3>2
  <2>2. ASSUME NEW o \in items PROVE NoneForgotten!(o)'
    BY <1>6, <1>7, <2>2
  <2> QED  BY <1>8, <2>1, <2>2 DEF NoneForgotten
<1>18. NoGap'
  <2>1. ASSUME NEW i \in Items, itemDue[i] # 0, pass[r].at <= itemDue[i], itemDue[i] < pass[r].at + Ahead
        PROVE  <<i, itemDue[i]>> \in items
    BY <1>1, <2>1 DEF Scan!InWindow
  <2> QED  BY <1>8, <2>1 DEF NoGap, ScanInv
<1> QED  BY <1>11, <1>12, <1>14, <1>15, <1>16, <1>17, <1>18 DEF ScanInv

\* The pass takes up one of what it found: claims it, or leaves it to who did.
LEMMA ScanClaims == ASSUME ScanInv, NEW r \in Replicas, Scan!Claim(r) PROVE ScanInv'
<1>1. pass[r].step = "items" /\ pass[r].at \in Nat /\ pass[r].left \subseteq Scan!Occurrences
  BY PassIs DEF Scan!Claim, Scan!At, ScanTyped, ScanInv
<1>2. PICK o \in pass[r].left :
        IF Scan!CanClaim(o[1])
        THEN /\ claims' = Scan!Put(claims, o[1], [by |-> r, until |-> moment + DedupeTtl])
             /\ Scan!Goes(r, [step |-> "dispatch", at |-> pass[r].at, left |-> pass[r].left \ {o}, item |-> o])
        ELSE Scan!Goes(r, [pass[r] EXCEPT !.left = @ \ {o}]) /\ UNCHANGED claims
  BY DEF Scan!Claim
<1>3. /\ o \in found /\ o \in Scan!Occurrences /\ o[1] \in Items /\ InTime(pass[r], o)
      /\ \A p \in pass[r].left : InTime(pass[r], p)
      /\ pass[r].at <= moment /\ moment <= pass[r].at + MaxPass /\ moment \in Nat
  BY <1>1, <1>2, OccurrenceIs DEF InHand, PassHolds, InTime, ScanTyped, ScanInv
<1>4. UNCHANGED <<moment, itemDue, since, lock, scanFaults, moves, found, dispatched, sent, failed, dead, lastFind, late>>
  BY DEF Scan!Claim
<1>5. NoGap'
  BY <1>4 DEF NoGap, ScanInv
<1>6. CASE Scan!CanClaim(o[1])
  <2>1. o[1] \notin DOMAIN claims
    BY <1>6 DEF Scan!CanClaim
  <2>2. PICK x : x = [step |-> "dispatch", at |-> pass[r].at, left |-> pass[r].left \ {o}, item |-> o]
    OBVIOUS
  <2>3. x \in PassAt /\ x.step = "dispatch" /\ x.at = pass[r].at /\ x.left = pass[r].left \ {o} /\ x.item = o
    BY <1>1, <1>3, <2>2 DEF PassAt, Sending
  <2>4. pass' \in [Replicas -> PassAt] /\ pass'[r] = x /\ \A q \in Replicas : q # r => pass'[q] = pass[q]
    BY <1>2, <1>6, <2>2, <2>3, PassGoes DEF ScanInv
  <2>5. PICK c : c = [by |-> r, until |-> moment + DedupeTtl]
    OBVIOUS
  <2>6. c \in ClaimAt /\ c.until = moment + DedupeTtl /\ c.by = r
    BY <1>3, <2>5, ScanBounds DEF ClaimAt
  <2>7. /\ DOMAIN claims' = DOMAIN claims \union {o[1]} /\ claims'[o[1]] = c
        /\ \A i \in DOMAIN claims : claims'[i] = claims[i]
    BY <1>2, <1>6, <2>1, <2>5 DEF Scan!Put
  <2>8. ScanTyped'
    BY <1>3, <1>4, <2>4, <2>6, <2>7 DEF ScanTyped, ScanInv
  <2>9. InHand'
    <3>1. PassHolds(x)'
      BY <1>3, <1>4, <2>3 DEF PassHolds, InTime
    <3> QED  BY <1>4, <2>4, <3>1, InHandKept
  <2>10. HandHolds'
    <3>1. c.until >= x.at + DedupeTtl
      BY <1>1, <1>3, <2>3, <2>6, ScanBounds
    <3> QED  BY <2>3, <2>4, <2>6, <2>7, <3>1 DEF HandHolds, ScanInv
  <2>11. \A p : AtHand(p)' <=> AtHand(p) \/ p = o
    BY <1>1, <2>3, <2>4 DEF AtHand
  <2>12. Remembered'
    BY <1>4, <2>1, <2>3, <2>4, <2>7 DEF Remembered, ScanInv
  <2>13. ClaimedFor'
    BY <1>3, <1>4, <2>7, <2>11 DEF ClaimedFor, ScanInv
  <2>14. NoneForgotten'
    BY <1>1, <1>4, <2>3, <2>4, <2>11 DEF NoneForgotten, Scan!Moved, ScanInv
  <2> QED  BY <1>5, <2>8, <2>9, <2>10, <2>12, <2>13, <2>14 DEF ScanInv
<1>7. CASE ~Scan!CanClaim(o[1])
  <2>1. o[1] \in DOMAIN claims
    BY <1>7 DEF Scan!CanClaim
  <2>2. PICK x : x = [pass[r] EXCEPT !.left = @ \ {o}]
    OBVIOUS
  <2>3. pass[r] \in Sorting
    BY <1>1 DEF ScanTyped, PassAt, Scan!Idle, Searching, Sending, ScanInv
  <2>4. x \in PassAt /\ x.step = "items" /\ x.at = pass[r].at /\ x.left = pass[r].left \ {o}
    BY <2>2, <2>3 DEF PassAt, Sorting
  <2>5. pass' \in [Replicas -> PassAt] /\ pass'[r] = x /\ \A q \in Replicas : q # r => pass'[q] = pass[q]
    BY <1>2, <1>7, <2>2, <2>4, PassGoes DEF ScanInv
  <2>6. claims' = claims
    BY <1>2, <1>7
  <2>7. ScanTyped'
    BY <1>4, <2>5, <2>6 DEF ScanTyped, ScanInv
  <2>8. InHand'
    <3>1. PassHolds(x)'
      BY <1>3, <1>4, <2>4 DEF PassHolds, InTime
    <3> QED  BY <1>4, <2>5, <3>1, InHandKept
  <2>9. \A p : AtHand(p)' <=> AtHand(p)
    BY <1>1, <2>4, <2>5 DEF AtHand
  <2>10. HandHolds' /\ Remembered'
    BY <1>4, <2>4, <2>5, <2>6 DEF HandHolds, Remembered, ScanInv
  <2>11. ClaimedFor'
    BY <1>4, <2>6, <2>9 DEF ClaimedFor, ScanInv
  <2>12. NoneForgotten'
    <3>1. dispatched[o] = 1 \/ o \in dead \/ AtHand(o) \/ Scan!Moved(o)
      BY <2>1 DEF ClaimedFor, Scan!Moved, ScanInv
    <3> QED  BY <1>1, <1>4, <2>4, <2>5, <2>9, <3>1 DEF NoneForgotten, Scan!Moved, ScanInv
  <2> QED  BY <1>5, <2>7, <2>8, <2>10, <2>11, <2>12 DEF ScanInv
<1> QED  BY <1>6, <1>7

\* What a pass goes on with after one of its items.
LEMMA ScanGoesOn ==
  ASSUME ScanInv, NEW r \in Replicas, pass[r].step = "dispatch", Scan!Goes(r, Scan!On(r))
  PROVE  \E x \in PassAt :
           /\ x.step = "items" /\ x.at = pass[r].at /\ x.left = pass[r].left
           /\ pass' \in [Replicas -> PassAt] /\ pass'[r] = x
           /\ \A q \in Replicas : q # r => pass'[q] = pass[q]
           /\ \A p : p # pass[r].item => (AtHand(p)' <=> AtHand(p))
           /\ UNCHANGED <<moment, itemDue, since, found>> => InHand'
<1>1. pass[r].at \in Nat /\ pass[r].left \subseteq Scan!Occurrences
  BY PassIs DEF ScanTyped, ScanInv
<1>2. PICK x : x = Scan!On(r)
  OBVIOUS
<1>3. x \in PassAt /\ x.step = "items" /\ x.at = pass[r].at /\ x.left = pass[r].left
  BY <1>1, <1>2 DEF Scan!On, PassAt, Sorting
<1>4. pass' \in [Replicas -> PassAt] /\ pass'[r] = x /\ \A q \in Replicas : q # r => pass'[q] = pass[q]
  BY <1>2, <1>3, PassGoes DEF ScanInv
<1>5. \A p : p # pass[r].item => (AtHand(p)' <=> AtHand(p))
  BY <1>3, <1>4 DEF AtHand
<1>6. ASSUME UNCHANGED <<moment, itemDue, since, found>> PROVE InHand'
  <2>1. PassHolds(pass[r])
    BY DEF InHand, ScanInv
  <2>2. PassHolds(x)'
    BY <1>3, <1>6, <2>1 DEF PassHolds, InTime
  <2> QED  BY <1>4, <1>6, <2>2, InHandKept
<1> QED  BY <1>3, <1>4, <1>5, <1>6

\* What was claimed is sent, by the one that claimed it.
LEMMA ScanDispatches == ASSUME ScanInv, NEW r \in Replicas, Scan!Dispatch(r) PROVE ScanInv'
<1>1. pass[r].step = "dispatch" /\ Scan!Goes(r, Scan!On(r))
  BY DEF Scan!Dispatch, Scan!At
<1>2. UNCHANGED <<moment, itemDue, since, lock, claims, scanFaults, moves, found, failed, dead, lastFind, late>>
  BY DEF Scan!Dispatch
<1>3. PICK x \in PassAt :
        /\ x.step = "items" /\ x.at = pass[r].at /\ x.left = pass[r].left
        /\ pass' \in [Replicas -> PassAt] /\ pass'[r] = x
        /\ \A q \in Replicas : q # r => pass'[q] = pass[q]
        /\ \A p : p # pass[r].item => (AtHand(p)' <=> AtHand(p))
        /\ InHand'
  BY <1>1, <1>2, ScanGoesOn
<1>4. PICK o, i : o = pass[r].item /\ i = o[1]
  OBVIOUS
<1>5. /\ o \in found /\ i \in Items /\ i \in DOMAIN claims /\ dispatched[o] = 0
      /\ claims[i].until \in Nat /\ claims[i].until > o[2] + MaxPass
      /\ sent[i] \in Nat /\ sent[i] <= moment /\ moment \in Nat
      /\ claims[i].until > moment
      /\ \A q \in Replicas : q # r /\ pass[q].step = "dispatch" => pass[q].item[1] # i
  <2>1. pass[r].at \in Nat /\ moment \in Nat /\ claims[i].until \in Nat
        /\ moment <= pass[r].at + MaxPass /\ claims[i].until > pass[r].at + MaxPass
    BY <1>1, <1>4, HandIs
  <2>2. claims[i].until > moment
    BY <2>1, ScanBounds
  <2> QED  BY <1>1, <1>4, <2>2, HandIs
<1>6. /\ dispatched' \in [found -> Nat] /\ dispatched'[o] = 1
      /\ \A p \in found : p # o => dispatched'[p] = dispatched[p]
      /\ sent' \in [Items -> Nat] /\ sent'[i] = claims[i].until
      /\ \A j \in Items : j # i => sent'[j] = sent[j]
  BY <1>4, <1>5 DEF Scan!Dispatch, ScanTyped, ScanInv
<1>7. ScanTyped'
  BY <1>2, <1>3, <1>6 DEF ScanTyped, ScanInv
<1>8. HandHolds'
  BY <1>2, <1>3 DEF HandHolds, ScanInv
<1>9. Remembered'
  <2>1. ASSUME NEW j \in Items, sent'[j] > moment
        PROVE  /\ j \in DOMAIN claims /\ claims[j].until = sent'[j]
               /\ \A q \in Replicas : pass'[q].step = "dispatch" => pass'[q].item[1] # j
    <3>1. CASE j = i
      BY <1>3, <1>5, <1>6, <3>1
    <3>2. CASE j # i
      BY <1>3, <1>6, <2>1, <3>2 DEF Remembered, ScanInv
    <3> QED  BY <3>1, <3>2
  <2>2. ASSUME NEW p \in found
        PROVE  dispatched'[p] <= 1 /\ (dispatched'[p] = 1 => sent'[p[1]] > p[2] + MaxPass)
    <3>0. p[1] \in Items /\ p[2] \in Nat /\ dispatched[p] \in Nat
          /\ dispatched[p] <= 1 /\ (dispatched[p] = 1 => sent[p[1]] > p[2] + MaxPass)
      BY OccurrenceIs DEF ScanTyped, Remembered, ScanInv
    <3>1. CASE p = o
      BY <1>4, <1>5, <1>6, <3>1
    <3>2. CASE p # o /\ p[1] # i
      BY <1>6, <3>0, <3>2
    <3>3. CASE p # o /\ p[1] = i
      <4>1. dispatched'[p] = dispatched[p] /\ sent'[p[1]] = claims[i].until /\ claims[i].until > sent[i]
        BY <1>5, <1>6, <3>3
      <4> QED  BY <1>5, <3>0, <3>3, <4>1, ScanBounds
    <3> QED  BY <3>1, <3>2, <3>3
  <2> QED  BY <1>2, <2>1, <2>2 DEF Remembered
<1>10. ClaimedFor'
  <2>1. ASSUME NEW j \in DOMAIN claims
        PROVE  \E p \in found : p[1] = j /\ (dispatched'[p] = 1 \/ p \in dead \/ AtHand(p)')
    <3>1. PICK p \in found : p[1] = j /\ (dispatched[p] = 1 \/ p \in dead \/ AtHand(p))
      BY DEF ClaimedFor, ScanInv
    <3> QED  BY <1>3, <1>4, <1>6, <3>1
  <2> QED  BY <1>2, <2>1 DEF ClaimedFor
<1>11. NoneForgotten'
  <2>1. ASSUME NEW p \in found, p # o PROVE NoneForgotten!(p)'
    <3>1. NoneForgotten!(p) /\ (Scan!Moved(p)' <=> Scan!Moved(p))
      BY <1>2 DEF NoneForgotten, Scan!Moved, ScanInv
    <3> QED  BY <1>1, <1>2, <1>3, <1>4, <1>6, <2>1, <3>1
  <2> QED  BY <1>2, <1>6, <2>1 DEF NoneForgotten
<1>12. NoGap'
  BY <1>2 DEF NoGap, ScanInv
<1> QED  BY <1>3, <1>7, <1>8, <1>9, <1>10, <1>11, <1>12 DEF ScanInv

\* A dispatch fails, and its claim goes, for the next pass to try again.
LEMMA ScanFails == ASSUME ScanInv, NEW r \in Replicas, Scan!DispatchFails(r) PROVE ScanInv'
<1>1. pass[r].step = "dispatch" /\ Scan!Goes(r, Scan!On(r))
  BY DEF Scan!DispatchFails, Scan!At
<1>2. UNCHANGED <<moment, itemDue, since, lock, moves, found, dispatched, sent, dead, lastFind, late>>
  BY DEF Scan!DispatchFails
<1>3. PICK x \in PassAt :
        /\ x.step = "items" /\ x.at = pass[r].at /\ x.left = pass[r].left
        /\ pass' \in [Replicas -> PassAt] /\ pass'[r] = x
        /\ \A q \in Replicas : q # r => pass'[q] = pass[q]
        /\ \A p : p # pass[r].item => (AtHand(p)' <=> AtHand(p))
        /\ InHand'
  BY <1>1, <1>2, ScanGoesOn
<1>4. PICK o, i : o = pass[r].item /\ i = o[1]
  OBVIOUS
<1>5. /\ o \in found /\ i \in DOMAIN claims /\ claims[i].by = r /\ sent[i] \in Nat /\ sent[i] <= moment
      /\ moment \in Nat
      /\ \A q \in Replicas : q # r /\ pass[q].step = "dispatch" => pass[q].item[1] # i
  BY <1>1, <1>4, HandIs
<1>6. /\ DOMAIN claims' = DOMAIN claims \ {i} /\ \A j \in DOMAIN claims' : claims'[j] = claims[j]
      /\ failed' = failed \union {o}
  <2>1. claims' = Scan!Released(r, i)
    BY <1>4 DEF Scan!DispatchFails
  <2>2. {j \in DOMAIN claims : j # i \/ claims[j].by # r} = DOMAIN claims \ {i}
    BY <1>5
  <2> QED  BY <1>4, <2>1, <2>2 DEF Scan!Released, Scan!DispatchFails
<1>7. ScanTyped'
  <2>1. scanFaults' \in 0..ScanFaults
    BY ScanBounds DEF Scan!DispatchFails, ScanTyped, ScanInv
  <2> QED  BY <1>2, <1>3, <1>5, <1>6, <2>1 DEF ScanTyped, ScanInv
<1>8. HandHolds'
  BY <1>3, <1>5, <1>6 DEF HandHolds, ScanInv
<1>9. Remembered'
  <2>1. ASSUME NEW j \in Items, sent[j] > moment
        PROVE  /\ j \in DOMAIN claims' /\ claims'[j].until = sent[j]
               /\ \A q \in Replicas : pass'[q].step = "dispatch" => pass'[q].item[1] # j
    <3>1. j # i
      BY <1>5, <2>1
    <3> QED  BY <1>3, <1>6, <2>1, <3>1 DEF Remembered, ScanInv
  <2> QED  BY <1>2, <2>1 DEF Remembered, ScanInv
<1>10. ClaimedFor'
  <2>1. ASSUME NEW j \in DOMAIN claims, j # i
        PROVE  \E p \in found : p[1] = j /\ (dispatched[p] = 1 \/ p \in dead \/ AtHand(p)')
    <3>1. PICK p \in found : p[1] = j /\ (dispatched[p] = 1 \/ p \in dead \/ AtHand(p))
      BY DEF ClaimedFor, ScanInv
    <3> QED  BY <1>3, <1>4, <2>1, <3>1
  <2> QED  BY <1>2, <1>6, <2>1 DEF ClaimedFor
<1>11. NoneForgotten'
  <2>1. ASSUME NEW p \in found, p # o PROVE NoneForgotten!(p)'
    <3>1. NoneForgotten!(p) /\ (Scan!Moved(p)' <=> Scan!Moved(p))
      BY <1>2 DEF NoneForgotten, Scan!Moved, ScanInv
    <3> QED  BY <1>1, <1>2, <1>3, <1>4, <1>6, <2>1, <3>1
  <2> QED  BY <1>2, <1>6, <2>1 DEF NoneForgotten
<1>12. NoGap'
  BY <1>2 DEF NoGap, ScanInv
<1> QED  BY <1>3, <1>7, <1>8, <1>9, <1>10, <1>11, <1>12 DEF ScanInv

\* A pass that is over has nothing in hand.
LEMMA ScanRests ==
  ASSUME ScanInv, NEW r \in Replicas, Scan!Goes(r, Scan!Idle),
         UNCHANGED <<moment, itemDue, since, claims, found, dispatched, sent, lastFind, late>>
  PROVE  /\ pass' \in [Replicas -> PassAt] /\ pass'[r].step = "idle"
         /\ \A q \in Replicas : q # r => pass'[q] = pass[q]
         /\ InHand' /\ HandHolds' /\ Remembered' /\ NoGap'
<1>1. Scan!Idle \in PassAt /\ Scan!Idle.step = "idle"
  BY DEF PassAt, Scan!Idle
<1>2. /\ pass' \in [Replicas -> PassAt] /\ pass'[r] = Scan!Idle
      /\ \A q \in Replicas : q # r => pass'[q] = pass[q]
  BY <1>1, PassGoes DEF ScanInv
<1>3. InHand'
  <2>1. PassHolds(Scan!Idle)'
    BY <1>1 DEF PassHolds
  <2> QED  BY <1>2, <2>1, InHandKept
<1>4. HandHolds' /\ Remembered'
  BY <1>1, <1>2 DEF HandHolds, Remembered, ScanInv
<1>5. NoGap'
  BY DEF NoGap, ScanInv
<1> QED  BY <1>1, <1>2, <1>3, <1>4, <1>5

\* A pass ends, or its find() fails.
LEMMA ScanEnds == ASSUME ScanInv, NEW r \in Replicas, Scan!End(r) PROVE ScanInv'
<1>1. /\ pass[r].step \in {"items", "find"} /\ (pass[r].step = "items" => pass[r].left = {})
      /\ Scan!Goes(r, Scan!Idle)
      /\ UNCHANGED <<moment, itemDue, since, claims, moves, found, dispatched, sent, failed, dead, lastFind, late>>
  BY DEF Scan!End, Scan!At
<1>2. /\ pass' \in [Replicas -> PassAt] /\ pass'[r].step = "idle"
      /\ \A q \in Replicas : q # r => pass'[q] = pass[q]
      /\ InHand' /\ HandHolds' /\ Remembered' /\ NoGap'
  BY <1>1, ScanRests
<1>3. ScanTyped'
  <2>1. scanFaults' \in 0..ScanFaults /\ lock'.by \in Replicas \union {Nobody}
    BY ScanBounds DEF Scan!End, ScanTyped, Scan!Free, ScanInv
  <2> QED  BY <1>1, <1>2, <2>1 DEF ScanTyped, ScanInv
<1>4. \A o : AtHand(o)' <=> AtHand(o)
  BY <1>1, <1>2 DEF AtHand
<1>5. ClaimedFor' /\ NoneForgotten'
  BY <1>1, <1>2, <1>4 DEF ClaimedFor, NoneForgotten, Scan!Moved, ScanInv
<1> QED  BY <1>2, <1>3, <1>5 DEF ScanInv

\* A worker dies: what it had found is to be tried again, and its claim stays.
LEMMA ScanDies == ASSUME ScanInv, NEW r \in Replicas, Scan!Die(r) PROVE ScanInv'
<1>1. /\ pass[r].step # "idle" /\ Scan!Goes(r, Scan!Idle)
      /\ failed' = failed \union (IF pass[r].step = "find" THEN {} ELSE pass[r].left)
      /\ dead' = dead \union (IF pass[r].step = "dispatch" THEN {pass[r].item} ELSE {})
      /\ UNCHANGED <<moment, itemDue, since, lock, claims, moves, found, dispatched, sent, lastFind, late>>
  BY DEF Scan!Die, Scan!At
<1>2. /\ pass' \in [Replicas -> PassAt] /\ pass'[r].step = "idle"
      /\ \A q \in Replicas : q # r => pass'[q] = pass[q]
      /\ InHand' /\ HandHolds' /\ Remembered' /\ NoGap'
  BY <1>1, ScanRests
<1>3. pass[r].step \in {"find", "items", "dispatch"}
  BY <1>1, PassIs DEF ScanTyped, ScanInv
<1>4. failed \subseteq failed' /\ failed' \subseteq found /\ dead \subseteq dead' /\ dead' \subseteq found
  <2>1. PassHolds(pass[r])
    BY DEF InHand, ScanInv
  <2> QED  BY <1>1, <1>3, <2>1 DEF ScanTyped, PassHolds, InTime, ScanInv
<1>5. ScanTyped'
  <2>1. scanFaults' \in 0..ScanFaults
    BY ScanBounds DEF Scan!Die, ScanTyped, ScanInv
  <2> QED  BY <1>1, <1>2, <1>4, <2>1 DEF ScanTyped, ScanInv
<1>6. \A o : AtHand(o) => AtHand(o)' \/ o \in dead'
  BY <1>1, <1>2, <1>3 DEF AtHand
<1>7. ClaimedFor'
  BY <1>1, <1>4, <1>6 DEF ClaimedFor, ScanInv
<1>8. NoneForgotten'
  <2>1. \A o : pass[r].step \in {"items", "dispatch"} /\ o \in pass[r].left => o \in failed'
    BY <1>1
  <2>2. \A o : Scan!Moved(o)' <=> Scan!Moved(o)
    BY <1>1 DEF Scan!Moved
  <2> QED  BY <1>1, <1>2, <1>4, <1>6, <2>1, <2>2 DEF NoneForgotten, ScanInv
<1> QED  BY <1>2, <1>5, <1>7, <1>8 DEF ScanInv

\* Every step of the scanner keeps its invariant.
LEMMA ScanStep == ScanInv /\ [Scan!Next]_Scan!scanVars => ScanInv'
<1>1. ScanInv /\ UNCHANGED Scan!scanVars => ScanInv'
  BY DEF Scan!scanVars, ScanInv, ScanTyped, InHand, PassHolds, InTime, HandHolds, Remembered, ClaimedFor,
         NoneForgotten, AtHand, Scan!Moved, NoGap
<1> QED
  BY <1>1, ScanPasses, ScanPlans, ScanStarts, ScanFinds, ScanClaims, ScanDispatches, ScanFails, ScanEnds,
     ScanDies DEF Scan!Next

\* And the invariant says that each moment is noticed, and once.
LEMMA ScanShows == ScanInv => Scan!TypeOK /\ Scan!EachMomentOnce
<1> SUFFICES ASSUME ScanInv PROVE Scan!TypeOK /\ Scan!EachMomentOnce
  OBVIOUS
<1>1. Scan!TypeOK
  BY ScanBounds DEF ScanInv, ScanTyped, Scan!TypeOK, Scan!Moments, ClaimAt
<1>2. Scan!OnceEach
  <2>1. \A r \in Replicas : Scan!At(r, "dispatch") => sent[pass[r].item[1]] <= moment
    BY HandIs DEF Scan!At
  <2> QED  BY <2>1 DEF ScanInv, Remembered, Scan!OnceEach
<1>3. Scan!NoneDropped
  BY DEF ScanInv, NoneForgotten, AtHand, Scan!NoneDropped, Scan!At
<1>4. Scan!AsItStands
  BY DEF ScanInv, InHand, PassHolds, InTime, Scan!AsItStands, Scan!At
<1>5. Scan!NoneUnnoticed
  BY ScanBounds DEF ScanInv, NoGap, ScanTyped, Scan!NoneUnnoticed
<1> QED  BY <1>1, <1>2, <1>3, <1>4, <1>5 DEF Scan!EachMomentOnce

\* However passes overlap, fail and die, and items are moved and cancelled, an
\* item is dispatched once while that is remembered, what a pass found is
\* dispatched, or tried again, and as it stands, and passes that look often
\* enough leave no gap between their windows (scanOnce).
THEOREM EachMomentOnceAlways == Scan!Spec => [](Scan!TypeOK /\ Scan!EachMomentOnce)
BY ScanBegins, ScanStep, ScanShows, PTL DEF Scan!Spec

\* The scanner of MCJobs is the scanner.
LEMMA ScanPart == PartsSpec => Scan!Spec
<1>1. PartsInit => Scan!Init
  BY DEF PartsInit
<1>2. [PartsNext]_partsVars => [Scan!Next]_Scan!scanVars
  BY DEF PartsNext, partsVars, TaskNext, ScanNext, CacheNext, RateNext, PrinterNext, WorkersNext,
     scanVars, Scan!scanVars
<1> QED  BY <1>1, <1>2, PTL DEF PartsSpec, Scan!Spec

----------------------------------------------------------------------------
(* The jobs of a queue, and their workers *)

\* What a worker may be doing.
WorkerAt ==
  [step : {"idle"}, closing : BOOLEAN] \union [step : {"handling"}, id : Ids, closing : BOOLEAN]
    \union [step : {"recording"}, id : Ids, well : BOOLEAN, closing : BOOLEAN]
    \union [step : {"closed", "gone"}]

WorkTyped ==
  /\ jobs \in [Ids -> Work!Job] /\ worker \in [Workers -> WorkerAt]
  /\ ready \in BOOLEAN /\ hooks \subseteq Workers \X Ids
  /\ ends \in [Ids -> [well : Nat, badly : Nat]] /\ letters \in [Ids -> [told : Nat, lost : Nat]]
  /\ left \subseteq Ids /\ asks \in 0..MaxAsks /\ cuts \in 0..MaxCuts

\* Who holds a job, who handles it, and who bears the letter of its failure.
Holding(id) == {w \in Workers : Work!Holds(w, id)}
Busy(id) == {w \in Workers : worker[w].step = "handling" /\ worker[w].id = id}
Bearing(id) == {w \in Workers : <<w, id>> \in hooks}
Active(id) == jobs[id].state = "active"
Failing(id) ==
  /\ Active(id)
  /\ worker[jobs[id].by].step = "recording" /\ worker[jobs[id].by].id = id /\ ~worker[jobs[id].by].well
One(b) == IF b THEN 1 ELSE 0

\* What has become of a job, and of the attempts at it.
Standing(id) ==
  /\ IF jobs[id].state = "failed" THEN jobs[id].made = Attempts ELSE jobs[id].made < Attempts
  /\ jobs[id].state = "none" => Holding(id) = {} /\ ends[id].well = 0 /\ ends[id].badly = 0
  /\ Active(id) => jobs[id].by \in Workers /\ (Work!Holds(jobs[id].by, id) \/ id \in left)
  /\ jobs[id].state = "completed" => ends[id].well > 0
  /\ \A w \in Workers : worker[w].step = "recording" /\ worker[w].id = id /\ worker[w].well => ends[id].well > 0

\* Every attempt is one that was counted, one that stalled, or the one under way.
Adds(id) ==
  /\ Cardinality(Holding(id)) <= jobs[id].stalls + One(Active(id))
  /\ ends[id].well + ends[id].badly + Cardinality(Busy(id)) <=
       jobs[id].made + jobs[id].stalls + One(jobs[id].state \in {"active", "completed"})
  /\ ends[id].well + Cardinality(Busy(id)) <=
       jobs[id].stalls + One(jobs[id].state \in {"active", "completed"} /\ ~Failing(id))
  /\ ends[id].badly >= jobs[id].made + One(Failing(id))
  /\ letters[id].told + letters[id].lost + Cardinality(Bearing(id)) = One(jobs[id].state = "failed")

WorkInv == WorkTyped /\ \A id \in Ids : Standing(id) /\ Adds(id)

\* The instance counts as everybody does.
LEMMA SameCountOfJobs == \A S : Work!Cardinality(S) = Cardinality(S)
BY DEF Cardinality, Work!Cardinality

\* What the assumption says of each constant.
LEMMA WorkBounds ==
  /\ IsFiniteSet(Workers) /\ Attempts \in Nat /\ Attempts >= 1
  /\ MaxAsks \in Nat /\ MaxCuts \in Nat /\ MaxStalls \in Nat
BY WorkAssumption

\* What a worker may be doing, and what it has with it.
LEMMA WorkerIs ==
  \A x \in WorkerAt :
    /\ x.step \in {"idle", "handling", "recording", "closed", "gone"}
    /\ x.step \in {"handling", "recording"} => x.id \in Ids
    /\ x.step = "recording" => x.well \in BOOLEAN
    /\ x.step \in {"idle", "handling", "recording"} => x.closing \in BOOLEAN
BY DEF WorkerAt

\* A worker moves on, and the others do not.
LEMMA WorkerGoes ==
  ASSUME WorkTyped, NEW w \in Workers, NEW x \in WorkerAt, Work!Goes(w, x)
  PROVE  /\ worker' \in [Workers -> WorkerAt]
         /\ worker'[w] = x
         /\ \A v \in Workers : v # w => worker'[v] = worker[v]
BY DEF WorkTyped, Work!Goes

\* What the queue holds of a job.
LEMMA JobIs ==
  \A x \in Work!Job :
    /\ x.state \in {"none", "waiting", "delayed", "active", "completed", "failed"}
    /\ x.by \in Workers \union {Work!NoOne}
    /\ x.made \in 0..Attempts /\ x.made \in Nat /\ x.stalls \in 0..MaxStalls /\ x.stalls \in Nat
BY WorkBounds DEF Work!Job

\* Workers come and go one at a time.
LEMMA OneMore ==
  ASSUME NEW S, IsFiniteSet(S), NEW w, w \notin S
  PROVE  /\ Cardinality(S \union {w}) = Cardinality(S) + 1
         /\ Cardinality(S) \in Nat
BY FS_AddElement, FS_CardinalityType

\* And go.
LEMMA OneLess ==
  ASSUME NEW S, IsFiniteSet(S), NEW w, w \in S
  PROVE  /\ Cardinality(S \ {w}) = Cardinality(S) - 1
         /\ Cardinality(S) \in Nat /\ Cardinality(S) >= 1
<1>1. IsFiniteSet(S \ {w}) /\ Cardinality(S \ {w}) = Cardinality(S) - 1
  BY FS_RemoveElement
<1>2. Cardinality(S \ {w}) \in Nat /\ Cardinality(S) \in Nat
  BY <1>1, FS_CardinalityType
<1> QED  BY <1>1, <1>2

\* Those who hold a job, handle it or bear its letter can be counted.
LEMMA WorkersCount ==
  \A id \in Ids :
    /\ IsFiniteSet(Holding(id)) /\ Cardinality(Holding(id)) \in Nat
    /\ IsFiniteSet(Busy(id)) /\ Cardinality(Busy(id)) \in Nat
    /\ IsFiniteSet(Bearing(id)) /\ Cardinality(Bearing(id)) \in Nat
    /\ Busy(id) \subseteq Holding(id)
<1> SUFFICES ASSUME NEW id \in Ids
             PROVE  /\ IsFiniteSet(Holding(id)) /\ Cardinality(Holding(id)) \in Nat
                    /\ IsFiniteSet(Busy(id)) /\ Cardinality(Busy(id)) \in Nat
                    /\ IsFiniteSet(Bearing(id)) /\ Cardinality(Bearing(id)) \in Nat
                    /\ Busy(id) \subseteq Holding(id)
  OBVIOUS
<1>1. Holding(id) \subseteq Workers /\ Busy(id) \subseteq Workers /\ Bearing(id) \subseteq Workers
      /\ Busy(id) \subseteq Holding(id)
  BY DEF Holding, Busy, Bearing, Work!Holds
<1> QED  BY <1>1, WorkBounds, FS_Subset, FS_CardinalityType

\* The invariant of the workers holds at first.
LEMMA WorkBegins == Work!Init => WorkInv
<1> SUFFICES ASSUME Work!Init PROVE WorkInv
  OBVIOUS
<1> USE WorkBounds DEF Work!Init
<1>1. \A id \in Ids : jobs[id] = Work!NoJob
  OBVIOUS
<1>2. Work!NoJob \in Work!Job /\ Work!NoJob.state = "none" /\ Work!NoJob.made = 0 /\ Work!NoJob.stalls = 0
  BY DEF Work!NoJob, Work!Job
<1>3. \A w \in Workers : worker[w] = Work!Idle
  OBVIOUS
<1>4. Work!Idle \in WorkerAt /\ Work!Idle.step = "idle"
  BY DEF Work!Idle, WorkerAt
<1>5. WorkTyped
  <2>1. ready \in BOOLEAN
    OBVIOUS
  <2>2. ends \in [Ids -> [well : Nat, badly : Nat]] /\ letters \in [Ids -> [told : Nat, lost : Nat]]
    BY DEF Work!Nothing, Work!Untold
  <2>3. jobs \in [Ids -> Work!Job] /\ worker \in [Workers -> WorkerAt]
    BY <1>2, <1>4
  <2>4. hooks \subseteq Workers \X Ids /\ left \subseteq Ids /\ asks \in 0..MaxAsks /\ cuts \in 0..MaxCuts
    OBVIOUS
  <2> QED  BY <2>1, <2>2, <2>3, <2>4 DEF WorkTyped
<1>6. ASSUME NEW id \in Ids PROVE Standing(id) /\ Adds(id)
  <2>1. Holding(id) = {} /\ Busy(id) = {} /\ Bearing(id) = {}
    BY <1>3, <1>4 DEF Holding, Busy, Bearing, Work!Holds
  <2>2. Cardinality({}) = 0
    BY FS_EmptySet
  <2>3. ends[id].well = 0 /\ ends[id].badly = 0 /\ letters[id].told = 0 /\ letters[id].lost = 0
    BY DEF Work!Nothing, Work!Untold
  <2>4. jobs[id].state = "none" /\ jobs[id].made = 0 /\ jobs[id].stalls = 0
    BY <1>1, <1>2
  <2>5. Standing(id)
    BY <1>3, <1>4, <2>1, <2>3, <2>4 DEF Standing, Active
  <2>6. Adds(id)
    BY <2>1, <2>2, <2>3, <2>4 DEF Adds, One, Active, Failing
  <2> QED  BY <2>5, <2>6
<1> QED  BY <1>5, <1>6 DEF WorkInv

\* A step that leaves a job alone, and all that workers hold of it.
Untouched(id) ==
  /\ jobs'[id] = jobs[id] /\ ends'[id] = ends[id] /\ letters'[id] = letters[id]
  /\ id \in left => id \in left'
  /\ \A w \in Workers :
       /\ <<w, id>> \in hooks' <=> <<w, id>> \in hooks
       /\ Work!Holds(w, id)' <=> Work!Holds(w, id)
       /\ Work!Holds(w, id) =>
            /\ worker'[w].step = worker[w].step
            /\ worker[w].step = "recording" => worker'[w].well = worker[w].well

\* Such a step keeps what is known of the job.
LEMMA WorkFrame ==
  ASSUME NEW id \in Ids, Standing(id), Adds(id), Untouched(id)
  PROVE  Standing(id)' /\ Adds(id)'
<1>1. Holding(id)' = Holding(id) /\ Bearing(id)' = Bearing(id)
  BY DEF Untouched, Holding, Bearing
<1>2. \A w \in Workers : worker'[w].step = "handling" /\ worker'[w].id = id
                           <=> worker[w].step = "handling" /\ worker[w].id = id
  BY DEF Untouched, Work!Holds
<1>3. Busy(id)' = Busy(id)
  BY <1>2 DEF Busy
<1>4. Active(id)' <=> Active(id)
  BY DEF Untouched, Active
<1>5. Failing(id)' <=> Failing(id)
  BY <1>4 DEF Untouched, Failing, Work!Holds, Standing
<1>6. Standing(id)'
  BY <1>1, <1>4 DEF Untouched, Standing, Work!Holds
<1>7. Adds(id)'
  <2>1. One(Active(id))' = One(Active(id)) /\ One(Failing(id))' = One(Failing(id))
    BY <1>4, <1>5 DEF One
  <2>2. One(jobs[id].state \in {"active", "completed"} /\ ~Failing(id))'
          = One(jobs[id].state \in {"active", "completed"} /\ ~Failing(id))
    BY <1>5 DEF One, Untouched
  <2> QED  BY <1>1, <1>3, <2>1, <2>2 DEF Untouched, Adds
<1> QED  BY <1>6, <1>7


\* Redis goes and comes back, and nothing is lost by that.
LEMMA WorkOutage == WorkInv /\ Work!Outage => WorkInv'
<1> SUFFICES ASSUME WorkInv, Work!Outage PROVE WorkInv'
  OBVIOUS
<1> USE DEF WorkInv
<1>1. UNCHANGED <<jobs, worker, hooks, ends, letters, left, asks>> /\ (ready' <=> ~ready)
  BY DEF Work!Outage
<1>2. cuts' \in 0..MaxCuts
  BY WorkBounds DEF Work!Outage, WorkTyped
<1>3. ready' \in BOOLEAN
  BY DEF Work!Outage
<1>4. WorkTyped'
  BY <1>1, <1>2, <1>3 DEF WorkTyped
<1>5. \A id \in Ids : Untouched(id)
  BY <1>1 DEF Untouched, Work!Holds
<1> QED  BY <1>4, <1>5, WorkFrame

\* A job is made under an id that holds none, and left alone under one that does.
LEMMA WorkEnqueues == ASSUME WorkInv, NEW id \in Ids, Work!Enqueue(id) PROVE WorkInv'
<1> USE WorkBounds DEF WorkInv
<1>1. asks' \in 0..MaxAsks /\ UNCHANGED <<worker, ready, hooks, left, cuts>>
  BY DEF Work!Enqueue, WorkTyped
<1>2. CASE jobs[id].state # "none"
  <2>1. UNCHANGED <<jobs, ends, letters>>
    BY <1>2 DEF Work!Enqueue
  <2>2. \A j \in Ids : Untouched(j)
    BY <1>1, <2>1 DEF Untouched, Work!Holds
  <2>3. WorkTyped'
    BY <1>1, <2>1 DEF WorkTyped
  <2> QED  BY <2>2, <2>3, WorkFrame
<1>3. CASE jobs[id].state = "none"
  <2>1. PICK state \in {"waiting", "delayed"} : jobs' = [jobs EXCEPT ![id] = [Work!NoJob EXCEPT !.state = state]]
    BY <1>3 DEF Work!Enqueue
  <2>2. ends' = [ends EXCEPT ![id] = Work!Nothing] /\ letters' = [letters EXCEPT ![id] = Work!Untold]
    BY <1>3 DEF Work!Enqueue
  <2>3. PICK x : x = [Work!NoJob EXCEPT !.state = state]
    OBVIOUS
  <2>4. x \in Work!Job /\ x.state = state /\ x.made = 0 /\ x.stalls = 0
    BY <2>3 DEF Work!NoJob, Work!Job
  <2>5. /\ jobs' \in [Ids -> Work!Job] /\ jobs'[id] = x
        /\ \A j \in Ids : j # id => jobs'[j] = jobs[j] /\ ends'[j] = ends[j] /\ letters'[j] = letters[j]
    BY <2>1, <2>2, <2>3, <2>4 DEF WorkTyped
  <2>6. /\ ends' \in [Ids -> [well : Nat, badly : Nat]] /\ letters' \in [Ids -> [told : Nat, lost : Nat]]
        /\ ends'[id].well = 0 /\ ends'[id].badly = 0 /\ letters'[id].told = 0 /\ letters'[id].lost = 0
    BY <2>2 DEF WorkTyped, Work!Nothing, Work!Untold
  <2>7. WorkTyped'
    BY <1>1, <2>5, <2>6 DEF WorkTyped
  <2>8. \A j \in Ids : j # id => Untouched(j)
    BY <1>1, <2>5 DEF Untouched, Work!Holds
  <2>9. Holding(id) = {} /\ Busy(id) = {} /\ Cardinality(Bearing(id)) = 0
    <3>1. Holding(id) = {} /\ Busy(id) = {}
      BY <1>3, WorkersCount DEF Standing
    <3>2. letters[id].told \in Nat /\ letters[id].lost \in Nat
      BY DEF WorkTyped
    <3> QED  BY <1>3, <3>1, <3>2, WorkersCount DEF Adds, One
  <2>10. Holding(id)' = {} /\ Busy(id)' = {} /\ Bearing(id)' = Bearing(id)
    BY <1>1, <2>9 DEF Holding, Busy, Bearing, Work!Holds
  <2>11. Standing(id)'
    BY <1>1, <1>3, <2>4, <2>5, <2>10 DEF Standing, Active, Holding, Work!Holds
  <2>12. Adds(id)'
    BY <2>4, <2>5, <2>6, <2>9, <2>10, FS_EmptySet DEF Adds, One, Active, Failing
  <2> QED  BY <2>7, <2>8, <2>11, <2>12, WorkFrame
<1> QED  BY <1>2, <1>3

\* The queue moves a job and no worker is told.
LEMMA WorkMoves ==
  ASSUME WorkInv, NEW id \in Ids, NEW x \in Work!Job, jobs' = [jobs EXCEPT ![id] = x],
         UNCHANGED <<worker, ready, hooks, letters, asks, cuts>>, left' \in SUBSET left, left \ {id} \subseteq left',
         ends' = ends, x.made = jobs[id].made, x.state \in {"waiting", "delayed"},
         jobs[id].state \in {"waiting", "delayed", "active"}, x.stalls = jobs[id].stalls + One(Active(id))
  PROVE  WorkInv'
<1> USE WorkBounds DEF WorkInv
<1>1. /\ jobs' \in [Ids -> Work!Job] /\ jobs'[id] = x
      /\ \A j \in Ids : j # id => jobs'[j] = jobs[j]
  BY DEF WorkTyped
<1>2. WorkTyped'
  BY <1>1 DEF WorkTyped
<1>3. \A j \in Ids : j # id => Untouched(j)
  BY <1>1 DEF Untouched, Work!Holds
<1>4. Holding(id)' = Holding(id) /\ Busy(id)' = Busy(id) /\ Bearing(id)' = Bearing(id)
  BY DEF Holding, Busy, Bearing, Work!Holds
<1>5. Standing(id)'
  BY <1>1, <1>4 DEF Standing, Active, Work!Holds
<1>6. Adds(id)'
  <2>1. jobs[id] \in Work!Job /\ ends[id].well \in Nat /\ ends[id].badly \in Nat
    BY DEF WorkTyped
  <2>2. jobs[id].made \in Nat /\ jobs[id].stalls \in Nat
    BY <2>1, JobIs
  <2>3. Adds(id)
    OBVIOUS
  <2> QED  BY <1>1, <1>4, <2>1, <2>2, <2>3, WorkersCount DEF Adds, One, Active, Failing
<1> QED  BY <1>2, <1>3, <1>5, <1>6, WorkFrame

\* A delay has passed.
LEMMA WorkDue == ASSUME WorkInv, NEW id \in Ids, Work!Due(id) PROVE WorkInv'
<1>1. PICK x : x = [jobs[id] EXCEPT !.state = "waiting"]
  OBVIOUS
<1>2. jobs[id] \in Work!Job /\ jobs[id].state = "delayed" /\ jobs' = [jobs EXCEPT ![id] = x]
  BY <1>1 DEF Work!Due, WorkInv, WorkTyped
<1>3. x \in Work!Job /\ x.state = "waiting" /\ x.made = jobs[id].made /\ x.stalls = jobs[id].stalls
  BY <1>1, <1>2 DEF Work!Job
<1>4. x.stalls = jobs[id].stalls + One(Active(id))
  BY <1>2, <1>3, JobIs DEF One, Active
<1>5. UNCHANGED <<worker, ready, hooks, ends, letters, left, asks, cuts>>
  BY DEF Work!Due
<1> QED  BY <1>2, <1>3, <1>4, <1>5, WorkMoves

\* A lock was not renewed, and the job is anybody's again.
LEMMA WorkStalls == ASSUME WorkInv, NEW id \in Ids, Work!Stalled(id) PROVE WorkInv'
<1>1. PICK x : x = [jobs[id] EXCEPT !.state = "waiting", !.by = Work!NoOne, !.stalls = @ + 1]
  OBVIOUS
<1>2. /\ jobs[id] \in Work!Job /\ jobs[id].state = "active" /\ jobs[id].stalls < MaxStalls
      /\ jobs' = [jobs EXCEPT ![id] = x]
  <2>1. jobs \in [Ids -> Work!Job]
    BY DEF WorkInv, WorkTyped
  <2> QED  BY <1>1, <2>1 DEF Work!Stalled
<1>3. x \in Work!Job /\ x.state = "waiting" /\ x.made = jobs[id].made /\ x.stalls = jobs[id].stalls + 1
  <2>1. jobs[id].stalls \in Nat /\ jobs[id].stalls + 1 \in 0..MaxStalls
    BY <1>2, WorkBounds, JobIs
  <2> QED  BY <1>1, <1>2, <2>1 DEF Work!Job
<1>4. x.stalls = jobs[id].stalls + One(Active(id))
  BY <1>2, <1>3 DEF One, Active
<1>5. left' = left \ {id} /\ UNCHANGED <<worker, ready, hooks, ends, letters, asks, cuts>>
  BY DEF Work!Stalled
<1>6. left' \in SUBSET left /\ left \ {id} \subseteq left'
  BY <1>5
<1> QED  BY <1>2, <1>3, <1>4, <1>5, <1>6, WorkMoves

\* What is over is forgotten, by the queue and by everybody.
LEMMA WorkRemoves == ASSUME WorkInv, NEW id \in Ids, Work!Remove(id) PROVE WorkInv'
<1> USE WorkBounds DEF WorkInv
<1>1. /\ jobs' = [jobs EXCEPT ![id] = Work!NoJob]
      /\ ends' = [ends EXCEPT ![id] = Work!Nothing] /\ letters' = [letters EXCEPT ![id] = Work!Untold]
      /\ UNCHANGED <<worker, ready, hooks, left, asks, cuts>>
  BY DEF Work!Remove
<1>2. Work!NoJob \in Work!Job /\ Work!NoJob.state = "none" /\ Work!NoJob.made = 0 /\ Work!NoJob.stalls = 0
  BY DEF Work!NoJob, Work!Job
<1>3. /\ jobs' \in [Ids -> Work!Job] /\ jobs'[id] = Work!NoJob
      /\ \A j \in Ids : j # id => jobs'[j] = jobs[j] /\ ends'[j] = ends[j] /\ letters'[j] = letters[j]
  BY <1>1, <1>2 DEF WorkTyped
<1>4. /\ ends' \in [Ids -> [well : Nat, badly : Nat]] /\ letters' \in [Ids -> [told : Nat, lost : Nat]]
      /\ ends'[id].well = 0 /\ ends'[id].badly = 0 /\ letters'[id].told = 0 /\ letters'[id].lost = 0
  BY <1>1 DEF WorkTyped, Work!Nothing, Work!Untold
<1>5. WorkTyped'
  BY <1>1, <1>3, <1>4 DEF WorkTyped
<1>6. \A j \in Ids : j # id => Untouched(j)
  BY <1>1, <1>3 DEF Untouched, Work!Holds
<1>7. Holding(id)' = {} /\ Busy(id)' = {} /\ Bearing(id)' = {}
  BY <1>1 DEF Work!Remove, Work!At, Holding, Busy, Bearing, Work!Holds
<1>8. Standing(id)'
  BY <1>2, <1>3, <1>4, <1>7 DEF Standing, Active, Holding, Work!Holds
<1>9. Adds(id)'
  BY <1>2, <1>3, <1>4, <1>7, FS_EmptySet DEF Adds, One, Active, Failing
<1> QED  BY <1>5, <1>6, <1>8, <1>9, WorkFrame


\* A worker takes a job up, and handles it or has no handler for it.
LEMMA WorkProcesses ==
  ASSUME WorkInv, NEW w \in Workers, NEW id \in Ids, Work!Process(w, id)
  PROVE  WorkInv'
<1> USE WorkBounds DEF WorkInv
<1>1. /\ worker[w].step = "idle" /\ jobs[id].state = "waiting" /\ jobs[id] \in Work!Job
      /\ jobs[id].made \in Nat /\ jobs[id].stalls \in Nat
  BY JobIs DEF Work!Process, Work!At, WorkTyped
<1>2. /\ jobs' \in [Ids -> Work!Job]
      /\ jobs'[id].state = "active" /\ jobs'[id].by = w
      /\ jobs'[id].made = jobs[id].made /\ jobs'[id].stalls = jobs[id].stalls
      /\ \A j \in Ids : j # id => jobs'[j] = jobs[j]
  BY <1>1 DEF Work!Process, WorkTyped, Work!Job
<1>3. UNCHANGED <<ready, hooks, letters, left, asks, cuts>>
  BY DEF Work!Process
<1>4. \E x \in WorkerAt :
        /\ Work!Goes(w, x) /\ x.step \in {"handling", "recording"} /\ x.id = id
        /\ IF x.step = "handling" THEN ends' = ends
           ELSE ~x.well /\ ends' = [ends EXCEPT ![id].badly = @ + 1]
  <2>1. CASE w \in Handling
    <3>1. PICK x : x = [step |-> "handling", id |-> id, closing |-> FALSE]
      OBVIOUS
    <3>2. x \in WorkerAt /\ x.step = "handling" /\ x.id = id
      BY <3>1 DEF WorkerAt
    <3> QED  BY <2>1, <3>1, <3>2 DEF Work!Process
  <2>2. CASE w \notin Handling
    <3>1. PICK x : x = [step |-> "recording", id |-> id, well |-> FALSE, closing |-> FALSE]
      OBVIOUS
    <3>2. x \in WorkerAt /\ x.step = "recording" /\ x.id = id /\ ~x.well
      BY <3>1 DEF WorkerAt
    <3> QED  BY <2>2, <3>1, <3>2 DEF Work!Process
  <2> QED  BY <2>1, <2>2
<1>5. PICK x \in WorkerAt :
        /\ Work!Goes(w, x) /\ x.step \in {"handling", "recording"} /\ x.id = id
        /\ IF x.step = "handling" THEN ends' = ends
           ELSE ~x.well /\ ends' = [ends EXCEPT ![id].badly = @ + 1]
  BY <1>4
<1>6. worker' \in [Workers -> WorkerAt] /\ worker'[w] = x /\ \A v \in Workers : v # w => worker'[v] = worker[v]
  BY <1>5, WorkerGoes
<1>7. /\ ends' \in [Ids -> [well : Nat, badly : Nat]]
      /\ ends'[id].well = ends[id].well
      /\ ends'[id].badly = ends[id].badly + One(x.step = "recording")
      /\ \A j \in Ids : j # id => ends'[j] = ends[j]
      /\ ends[id].well \in Nat /\ ends[id].badly \in Nat
  BY <1>5 DEF WorkTyped, One
<1>8. WorkTyped'
  BY <1>2, <1>3, <1>6, <1>7 DEF WorkTyped
<1>9. \A j \in Ids : j # id => Untouched(j)
  BY <1>1, <1>2, <1>3, <1>5, <1>6, <1>7 DEF Untouched, Work!Holds
<1>10. w \notin Holding(id) /\ w \notin Busy(id)
  BY <1>1 DEF Holding, Busy, Work!Holds
<1>11. /\ Holding(id)' = Holding(id) \union {w} /\ Bearing(id)' = Bearing(id)
       /\ Busy(id)' = IF x.step = "handling" THEN Busy(id) \union {w} ELSE Busy(id)
  BY <1>1, <1>3, <1>5, <1>6 DEF Holding, Busy, Bearing, Work!Holds
<1>12. /\ Cardinality(Holding(id)') = Cardinality(Holding(id)) + 1
       /\ Cardinality(Busy(id)') = Cardinality(Busy(id)) + One(x.step = "handling")
  BY <1>10, <1>11, OneMore, WorkersCount DEF One
<1>13. Standing(id)'
  BY <1>1, <1>2, <1>5, <1>6, <1>7 DEF Standing, Active, Work!Holds
<1>14. Failing(id)' <=> x.step = "recording"
  BY <1>2, <1>5, <1>6 DEF Failing, Active
<1>15. Adds(id)'
  <2>1. Adds(id)
    OBVIOUS
  <2>2. Cardinality(Holding(id)) \in Nat /\ Cardinality(Busy(id)) \in Nat /\ Cardinality(Bearing(id)) \in Nat
    BY WorkersCount
  <2>3. Active(id)'
    BY <1>2 DEF Active
  <2> QED  BY <1>1, <1>2, <1>3, <1>5, <1>7, <1>11, <1>12, <1>14, <2>1, <2>2, <2>3 DEF Adds, One, Active, Failing
<1> QED  BY <1>8, <1>9, <1>13, <1>15, WorkFrame

\* The handler returns or throws.
LEMMA WorkHandled ==
  ASSUME WorkInv, NEW w \in Workers, NEW well \in BOOLEAN, Work!Handled(w, well)
  PROVE  WorkInv'
<1> USE WorkBounds DEF WorkInv
<1>1. PICK id : id = worker[w].id
  OBVIOUS
<1>2. worker[w].step = "handling" /\ id \in Ids /\ worker[w].closing \in BOOLEAN
  BY <1>1, WorkerIs DEF Work!Handled, Work!At, WorkTyped
<1>3. PICK x : x = [step |-> "recording", id |-> id, well |-> well, closing |-> worker[w].closing]
  OBVIOUS
<1>4. x \in WorkerAt /\ x.step = "recording" /\ x.id = id /\ x.well = well
  BY <1>2, <1>3 DEF WorkerAt
<1>5. worker' \in [Workers -> WorkerAt] /\ worker'[w] = x /\ \A v \in Workers : v # w => worker'[v] = worker[v]
  BY <1>1, <1>3, <1>4, WorkerGoes DEF Work!Handled
<1>6. UNCHANGED <<jobs, ready, hooks, letters, left, asks, cuts>>
  BY DEF Work!Handled
<1>7. /\ ends' \in [Ids -> [well : Nat, badly : Nat]]
      /\ ends'[id].well = ends[id].well + One(well)
      /\ ends'[id].badly = ends[id].badly + One(~well)
      /\ \A j \in Ids : j # id => ends'[j] = ends[j]
      /\ ends[id].well \in Nat /\ ends[id].badly \in Nat
  BY <1>1, <1>2 DEF WorkTyped, One, Work!Handled
<1>8. WorkTyped'
  BY <1>5, <1>6, <1>7 DEF WorkTyped
<1>9. \A j \in Ids : j # id => Untouched(j)
  BY <1>1, <1>4, <1>5, <1>6, <1>7 DEF Untouched, Work!Holds
<1>10. w \in Busy(id)
  BY <1>1, <1>2 DEF Busy
<1>11. Holding(id)' = Holding(id) /\ Bearing(id)' = Bearing(id) /\ Busy(id)' = Busy(id) \ {w}
  BY <1>1, <1>2, <1>4, <1>5, <1>6 DEF Holding, Busy, Bearing, Work!Holds
<1>12. Cardinality(Busy(id)') = Cardinality(Busy(id)) - 1 /\ Cardinality(Busy(id)) >= 1
  BY <1>2, <1>10, <1>11, OneLess, WorkersCount
<1>13. Standing(id)'
  <2>1. Standing(id) /\ jobs'[id] = jobs[id] /\ left' = left
    BY <1>2, <1>6
  <2>2. ends'[id].well > 0 \/ (ends'[id].well = ends[id].well /\ ~well)
    BY <1>7 DEF One
  <2>3. \A v \in Workers : v # w /\ worker'[v].step = "recording" /\ worker'[v].id = id /\ worker'[v].well =>
                             ends'[id].well > 0
    BY <1>5, <2>1, <2>2 DEF Standing
  <2>4. jobs[id].state # "none"
    BY <1>10, <2>1, <1>2, WorkersCount DEF Standing
  <2>5. \A v \in Workers : Work!Holds(v, id) => Work!Holds(v, id)'
    BY <1>4, <1>5 DEF Work!Holds
  <2>6. jobs[id].state = "completed" => ends'[id].well > 0
    BY <2>1, <2>2 DEF Standing
  <2> QED  BY <1>4, <1>5, <2>1, <2>2, <2>3, <2>4, <2>5, <2>6 DEF Standing, Active
<1>14. Failing(id)' <=> (Failing(id) \/ (Active(id) /\ jobs[id].by = w /\ ~well))
  <2>1. Active(id) => jobs[id].by \in Workers
    BY <1>2 DEF Standing
  <2> QED  BY <1>2, <1>4, <1>5, <1>6, <2>1 DEF Failing, Active
<1>15. Failing(id) => jobs[id].by # w
  BY <1>2 DEF Failing
<1>16. Adds(id)'
  <2>1. Adds(id)
    BY <1>2
  <2>2. Cardinality(Busy(id)) \in Nat
    BY <1>2, WorkersCount
  <2>3. jobs[id].made \in Nat /\ jobs[id].stalls \in Nat
    BY <1>2, JobIs DEF WorkTyped
  <2> QED  BY <1>6, <1>7, <1>11, <1>12, <1>14, <1>15, <2>1, <2>2, <2>3 DEF Adds, One, Active
<1> QED  BY <1>8, <1>9, <1>13, <1>16, WorkFrame


\* A worker that is refused lets go of a job that is another's by now.
LEMMA WorkLetsGo ==
  ASSUME WorkInv, NEW w \in Workers, worker[w].step = "recording", NEW x \in WorkerAt, x.step = "idle",
         Work!Goes(w, x), UNCHANGED <<jobs, ready, hooks, ends, letters, left, asks, cuts>>,
         jobs[worker[w].id].state # "active" \/ jobs[worker[w].id].by # w
  PROVE  WorkInv'
<1> USE WorkBounds DEF WorkInv
<1>1. PICK id : id = worker[w].id
  OBVIOUS
<1>2. id \in Ids
  BY <1>1, WorkerIs DEF WorkTyped
<1>3. worker' \in [Workers -> WorkerAt] /\ worker'[w] = x /\ \A v \in Workers : v # w => worker'[v] = worker[v]
  BY WorkerGoes
<1>4. WorkTyped'
  BY <1>3 DEF WorkTyped
<1>5. \A j \in Ids : j # id => Untouched(j)
  BY <1>1, <1>3 DEF Untouched, Work!Holds
<1>6. w \in Holding(id)
  BY <1>1 DEF Holding, Work!Holds
<1>7. Holding(id)' = Holding(id) \ {w} /\ Bearing(id)' = Bearing(id) /\ Busy(id)' = Busy(id)
  BY <1>3 DEF Holding, Busy, Bearing, Work!Holds
<1>8. Cardinality(Holding(id)') = Cardinality(Holding(id)) - 1 /\ Cardinality(Holding(id)) \in Nat
  BY <1>2, <1>6, <1>7, OneLess, WorkersCount
<1>9. Active(id) => jobs[id].by \in Workers /\ jobs[id].by # w
  BY <1>1, <1>2 DEF Standing, Active
<1>10. Failing(id)' <=> Failing(id)
  BY <1>3, <1>9 DEF Failing, Active
<1>11. Standing(id)'
  BY <1>2, <1>3, <1>7, <1>9 DEF Standing, Active, Work!Holds
<1>12. Adds(id)'
  <2>1. Adds(id)
    BY <1>2
  <2>2. jobs[id].made \in Nat /\ jobs[id].stalls \in Nat
    BY <1>2, JobIs DEF WorkTyped
  <2> QED  BY <1>7, <1>8, <1>10, <2>1, <2>2 DEF Adds, One, Active
<1> QED  BY <1>4, <1>5, <1>11, <1>12, WorkFrame

\* And one that is not gives the job up: done, to be tried again, or failed.
LEMMA WorkSettles ==
  ASSUME WorkInv, NEW w \in Workers, worker[w].step = "recording", NEW x \in WorkerAt, x.step = "idle",
         Work!Goes(w, x), NEW id \in Ids, id = worker[w].id,
         jobs[id].state = "active", jobs[id].by = w,
         NEW job \in Work!Job, jobs' = [jobs EXCEPT ![id] = job], job.stalls = jobs[id].stalls,
         UNCHANGED <<ready, ends, letters, left, asks, cuts>>,
         IF worker[w].well
         THEN job.state = "completed" /\ job.made = jobs[id].made /\ hooks' = hooks
         ELSE /\ job.made = jobs[id].made + 1
              /\ IF job.made < Attempts THEN job.state = "delayed" /\ hooks' = hooks
                 ELSE job.state = "failed" /\ hooks' = hooks \union {<<w, id>>}
  PROVE  WorkInv'
<1> USE WorkBounds DEF WorkInv
<1>1. worker' \in [Workers -> WorkerAt] /\ worker'[w] = x /\ \A v \in Workers : v # w => worker'[v] = worker[v]
  BY WorkerGoes
<1>2. /\ jobs' \in [Ids -> Work!Job] /\ jobs'[id] = job
      /\ \A j \in Ids : j # id => jobs'[j] = jobs[j]
  BY DEF WorkTyped
<1>3. /\ jobs[id].made \in Nat /\ jobs[id].stalls \in Nat /\ jobs[id].made < Attempts
      /\ ends[id].well \in Nat /\ ends[id].badly \in Nat
      /\ letters[id].told \in Nat /\ letters[id].lost \in Nat
  <2>1. jobs[id].made \in Nat /\ jobs[id].stalls \in Nat
    BY JobIs DEF WorkTyped
  <2>2. /\ ends[id].well \in Nat /\ ends[id].badly \in Nat
        /\ letters[id].told \in Nat /\ letters[id].lost \in Nat
    BY DEF WorkTyped
  <2> QED  BY <2>1, <2>2 DEF Standing
<1>4. hooks' \subseteq Workers \X Ids /\ hooks' \subseteq hooks \union {<<w, id>>} /\ hooks \subseteq hooks'
  BY DEF WorkTyped
<1>5. WorkTyped'
  BY <1>1, <1>2, <1>4 DEF WorkTyped
<1>6. \A j \in Ids : j # id => Untouched(j)
  BY <1>1, <1>2, <1>4 DEF Untouched, Work!Holds
<1>7. w \in Holding(id)
  BY DEF Holding, Work!Holds
<1>8. Holding(id)' = Holding(id) \ {w} /\ Busy(id)' = Busy(id)
  BY <1>1 DEF Holding, Busy, Work!Holds
<1>9. Cardinality(Holding(id)') = Cardinality(Holding(id)) - 1 /\ Cardinality(Holding(id)) \in Nat
  BY <1>7, <1>8, OneLess, WorkersCount
<1>10. Failing(id) <=> ~worker[w].well
  BY DEF Failing, Active
<1>11. Adds(id) /\ Cardinality(Busy(id)) \in Nat /\ Cardinality(Bearing(id)) \in Nat
  BY WorkersCount
<1>12. letters[id].told = 0 /\ letters[id].lost = 0 /\ Cardinality(Bearing(id)) = 0
  <2>1. letters[id].told + letters[id].lost + Cardinality(Bearing(id)) = 0
    BY <1>11 DEF Adds, One
  <2>2. PICK a, b, c \in Nat : a = letters[id].told /\ b = letters[id].lost /\ c = Cardinality(Bearing(id))
    BY <1>3, <1>11
  <2>3. a + b + c = 0
    BY <2>1, <2>2
  <2>4. a = 0 /\ b = 0 /\ c = 0
    BY <2>3
  <2> QED  BY <2>2, <2>4
<1>13. Bearing(id) = {}
  BY <1>12, WorkersCount, FS_EmptySet
<1>14. Cardinality(Bearing(id)') = One(job.state = "failed")
  <2>1. CASE job.state = "failed"
    <3>1. Bearing(id)' = {w}
      BY <1>13, <2>1 DEF Bearing
    <3> QED  BY <2>1, <3>1, FS_Singleton DEF One
  <2>2. CASE job.state # "failed"
    <3>1. Bearing(id)' = {}
      BY <1>13, <2>2 DEF Bearing
    <3> QED  BY <2>2, <3>1, FS_EmptySet DEF One
  <2> QED  BY <2>1, <2>2
<1>15. ~Active(id)' /\ ~Failing(id)'
  BY <1>2 DEF Active, Failing
<1>16. Standing(id)'
  <2>1. IF job.state = "failed" THEN job.made = Attempts ELSE job.made < Attempts
    BY <1>3
  <2>2. job.state = "completed" => ends[id].well > 0
    BY DEF Standing
  <2>3. job.state # "none"
    OBVIOUS
  <2> QED  BY <1>1, <1>2, <1>15, <2>1, <2>2, <2>3 DEF Standing
<1>17. Adds(id)'
  <2>1. Adds(id) /\ Active(id)
    BY DEF Active
  <2>2. job.made \in Nat
    BY <1>3
  <2> QED  BY <1>2, <1>3, <1>8, <1>9, <1>10, <1>11, <1>12, <1>14, <1>15, <2>1, <2>2 DEF Adds, One
<1> QED  BY <1>5, <1>6, <1>16, <1>17, WorkFrame

\* The queue is told how an attempt ended.
LEMMA WorkRecords == ASSUME WorkInv, NEW w \in Workers, Work!Record(w) PROVE WorkInv'
<1> USE WorkBounds DEF WorkInv
<1>1. PICK id : id = worker[w].id
  OBVIOUS
<1>2. /\ worker[w].step = "recording" /\ id \in Ids
      /\ worker[w].well \in BOOLEAN /\ worker[w].closing \in BOOLEAN
  BY <1>1, WorkerIs DEF Work!Record, Work!At, WorkTyped
<1>3. PICK x : x = [Work!Idle EXCEPT !.closing = worker[w].closing]
  OBVIOUS
<1>4. x \in WorkerAt /\ x.step = "idle" /\ Work!Goes(w, x)
  BY <1>2, <1>3 DEF Work!Record, Work!Idle, WorkerAt
<1>5. UNCHANGED <<ready, ends, letters, left, asks, cuts>>
  BY DEF Work!Record
<1>6. CASE jobs[id].state # "active" \/ jobs[id].by # w
  <2>1. UNCHANGED <<jobs, hooks>>
    BY <1>1, <1>6 DEF Work!Record
  <2> QED  BY <1>1, <1>2, <1>4, <1>5, <1>6, <2>1, WorkLetsGo
<1>7. CASE ~(jobs[id].state # "active" \/ jobs[id].by # w)
  <2>1. jobs[id] \in Work!Job /\ jobs[id].made \in Nat /\ jobs[id].made < Attempts /\ jobs \in [Ids -> Work!Job]
    BY <1>2, <1>7, JobIs DEF WorkTyped, Standing
  <2>2. CASE worker[w].well
    <3>1. PICK job : job = [jobs[id] EXCEPT !.state = "completed", !.by = Work!NoOne]
      OBVIOUS
    <3>2. job \in Work!Job /\ job.state = "completed" /\ job.made = jobs[id].made /\ job.stalls = jobs[id].stalls
      BY <2>1, <3>1 DEF Work!Job
    <3>3. jobs' = [jobs EXCEPT ![id] = job] /\ hooks' = hooks
      BY <1>1, <1>7, <2>1, <2>2, <3>1 DEF Work!Record
    <3> QED  BY <1>1, <1>2, <1>4, <1>5, <1>7, <2>2, <3>2, <3>3, WorkSettles
  <2>3. CASE ~worker[w].well
    <3>1. PICK made : made = jobs[id].made + 1
      OBVIOUS
    <3>2. PICK job : job = [jobs[id] EXCEPT !.state = IF made < Attempts THEN "delayed" ELSE "failed",
                                            !.by = Work!NoOne, !.made = made]
      OBVIOUS
    <3>3. made \in 0..Attempts
      BY <2>1, <3>1
    <3>4. /\ job \in Work!Job /\ job.state = (IF made < Attempts THEN "delayed" ELSE "failed")
          /\ job.made = made /\ job.stalls = jobs[id].stalls
      BY <2>1, <3>2, <3>3 DEF Work!Job
    <3>5. jobs' = [jobs EXCEPT ![id] = job]
      BY <1>1, <1>7, <2>1, <2>3, <3>1, <3>2 DEF Work!Record
    <3>6. hooks' = IF Work!Exhausted(made) THEN hooks \union {<<w, id>>} ELSE hooks
      BY <1>1, <1>7, <2>3, <3>1 DEF Work!Record
    <3>7. IF job.made < Attempts THEN job.state = "delayed" /\ hooks' = hooks
          ELSE job.state = "failed" /\ hooks' = hooks \union {<<w, id>>}
      BY <3>3, <3>4, <3>6 DEF Work!Exhausted
    <3> QED  BY <1>1, <1>2, <1>4, <1>5, <1>7, <2>3, <3>1, <3>4, <3>5, <3>7, WorkSettles
  <2> QED  BY <1>2, <2>2, <2>3
<1> QED  BY <1>6, <1>7


\* The hook is called.
LEMMA WorkTells ==
  ASSUME WorkInv, NEW w \in Workers, NEW id \in Ids, Work!DeadLetter(w, id)
  PROVE  WorkInv'
<1> USE DEF WorkInv
<1>1. /\ <<w, id>> \in hooks /\ hooks' = hooks \ {<<w, id>>}
      /\ letters' = [letters EXCEPT ![id].told = @ + 1]
      /\ UNCHANGED <<jobs, worker, ready, ends, left, asks, cuts>>
  BY DEF Work!DeadLetter
<1>2. /\ letters' \in [Ids -> [told : Nat, lost : Nat]]
      /\ letters'[id].told = letters[id].told + 1 /\ letters'[id].lost = letters[id].lost
      /\ \A j \in Ids : j # id => letters'[j] = letters[j]
      /\ letters[id].told \in Nat /\ letters[id].lost \in Nat
  BY <1>1 DEF WorkTyped
<1>3. WorkTyped'
  BY <1>1, <1>2 DEF WorkTyped
<1>4. \A j \in Ids : j # id => Untouched(j)
  BY <1>1, <1>2 DEF Untouched, Work!Holds
<1>5. w \in Bearing(id)
  BY <1>1 DEF Bearing
<1>6. Holding(id)' = Holding(id) /\ Busy(id)' = Busy(id) /\ Bearing(id)' = Bearing(id) \ {w}
  BY <1>1 DEF Holding, Busy, Bearing, Work!Holds
<1>7. Cardinality(Bearing(id)') = Cardinality(Bearing(id)) - 1 /\ Cardinality(Bearing(id)) \in Nat
  BY <1>5, <1>6, OneLess, WorkersCount
<1>8. Standing(id)'
  BY <1>1, <1>6 DEF Standing, Active, Work!Holds
<1>9. Adds(id)'
  <2>1. Adds(id)
    OBVIOUS
  <2> QED  BY <1>1, <1>2, <1>6, <1>7, <2>1 DEF Adds, One, Active, Failing
<1> QED  BY <1>3, <1>4, <1>8, <1>9, WorkFrame

\* A process takes with it what it holds, and the letters it bears.
LEMMA WorkGoes ==
  ASSUME WorkInv, NEW w \in Workers, NEW step \in {"closed", "gone"}, Work!Ends(w, step),
         step = "closed" => worker[w].step = "idle",
         UNCHANGED <<jobs, ready, ends, asks>>, cuts' \in 0..MaxCuts
  PROVE  WorkInv'
<1> USE DEF WorkInv
<1>1. PICK x : x = [step |-> step]
  OBVIOUS
<1>2. x \in WorkerAt /\ x.step \in {"closed", "gone"}
  BY <1>1 DEF WorkerAt
<1>3. worker' \in [Workers -> WorkerAt] /\ worker'[w] = x /\ \A v \in Workers : v # w => worker'[v] = worker[v]
  BY <1>1, <1>2, WorkerGoes DEF Work!Ends
<1>4. /\ hooks' = {h \in hooks : h[1] # w}
      /\ left' = left \union {i \in Ids : step = "gone" /\ jobs[i].state = "active" /\ jobs[i].by = w}
  BY DEF Work!Ends
<1>5. /\ letters' \in [Ids -> [told : Nat, lost : Nat]]
      /\ \A j \in Ids : /\ letters'[j].told = letters[j].told
                        /\ letters'[j].lost = letters[j].lost + One(<<w, j>> \in hooks)
                        /\ letters[j].told \in Nat /\ letters[j].lost \in Nat
  BY DEF Work!Ends, WorkTyped, One
<1>6. WorkTyped'
  BY <1>3, <1>4, <1>5 DEF WorkTyped
<1>7. ASSUME NEW id \in Ids PROVE Standing(id)' /\ Adds(id)'
  <2>1. Standing(id) /\ Adds(id)
    OBVIOUS
  <2>2. /\ Holding(id)' = Holding(id) \ {w} /\ Busy(id)' = Busy(id) \ {w}
        /\ Bearing(id)' = Bearing(id) \ {w}
    BY <1>2, <1>3, <1>4 DEF Holding, Busy, Bearing, Work!Holds
  <2>3. Cardinality(Holding(id)') <= Cardinality(Holding(id)) /\ Cardinality(Holding(id)') \in Nat
    BY <2>2, WorkersCount, FS_Subset, FS_CardinalityType
  <2>4. Cardinality(Busy(id)') <= Cardinality(Busy(id)) /\ Cardinality(Busy(id)') \in Nat
    BY <2>2, WorkersCount, FS_Subset, FS_CardinalityType
  <2>5. Cardinality(Bearing(id)') = Cardinality(Bearing(id)) - One(<<w, id>> \in hooks)
    <3>1. CASE <<w, id>> \in hooks
      <4>1. w \in Bearing(id)
        BY <3>1 DEF Bearing
      <4> QED  BY <2>2, <3>1, <4>1, OneLess, WorkersCount DEF One
    <3>2. CASE <<w, id>> \notin hooks
      <4>1. Bearing(id)' = Bearing(id)
        BY <2>2, <3>2 DEF Bearing
      <4> QED  BY <3>2, <4>1, WorkersCount DEF One
    <3> QED  BY <3>1, <3>2
  <2>6. Failing(id)' => Failing(id)
    BY <1>2, <1>3, <2>1 DEF Failing, Active, Standing
  <2>7. Active(id) => jobs[id].by \in Workers /\ (Work!Holds(jobs[id].by, id)' \/ id \in left')
    <3>1. SUFFICES ASSUME Active(id) PROVE Work!Holds(jobs[id].by, id)' \/ id \in left'
      BY <2>1 DEF Standing
    <3>2. CASE jobs[id].by = w
      BY <1>4, <2>1, <3>1, <3>2 DEF Standing, Active, Work!Holds
    <3>3. CASE jobs[id].by # w
      BY <1>3, <1>4, <2>1, <3>1, <3>3 DEF Standing, Work!Holds
    <3> QED  BY <3>2, <3>3
  <2>8. Standing(id)'
    BY <1>2, <1>3, <2>1, <2>2, <2>7 DEF Standing, Active
  <2>9. Adds(id)'
    <3>1. /\ Cardinality(Holding(id)) \in Nat /\ Cardinality(Busy(id)) \in Nat /\ Cardinality(Bearing(id)) \in Nat
          /\ jobs[id].made \in Nat /\ jobs[id].stalls \in Nat /\ ends[id].well \in Nat /\ ends[id].badly \in Nat
      BY WorkersCount, JobIs DEF WorkTyped
    <3>2. letters'[id].told + letters'[id].lost + Cardinality(Bearing(id)')
            = letters[id].told + letters[id].lost + Cardinality(Bearing(id))
      BY <1>5, <2>5, <3>1 DEF One
    <3> QED  BY <2>1, <2>3, <2>4, <2>6, <3>1, <3>2 DEF Adds, One, Active
  <2> QED  BY <2>8, <2>9
<1> QED  BY <1>6, <1>7

\* A worker that holds nothing goes elsewhere with nothing.
LEMMA WorkTurns ==
  ASSUME WorkInv, NEW w \in Workers, NEW x \in WorkerAt, Work!Goes(w, x),
         \A id \in Ids : Work!Holds(w, id) =>
           /\ x.step = worker[w].step /\ x.id = worker[w].id
           /\ x.step = "recording" => x.well = worker[w].well,
         x.step \in {"handling", "recording"} => worker[w].step = x.step,
         UNCHANGED <<jobs, ready, hooks, ends, letters, left, asks, cuts>>
  PROVE  WorkInv'
<1> USE DEF WorkInv
<1>1. worker' \in [Workers -> WorkerAt] /\ worker'[w] = x /\ \A v \in Workers : v # w => worker'[v] = worker[v]
  BY WorkerGoes
<1>2. WorkTyped'
  BY <1>1 DEF WorkTyped
<1>3. worker[w].step \in {"handling", "recording"} => worker[w].id \in Ids /\ Work!Holds(w, worker[w].id)
  BY WorkerIs DEF WorkTyped, Work!Holds
<1>4. \A id \in Ids : Untouched(id)
  BY <1>1, <1>3 DEF Untouched, Work!Holds
<1> QED  BY <1>2, <1>4, WorkFrame

\* A process is told to end: in its own time, or at once where Redis is gone.
LEMMA WorkCloses == ASSUME WorkInv, NEW w \in Workers, Work!Close(w) PROVE WorkInv'
<1>1. worker[w] \in WorkerAt /\ worker[w].step \in {"idle", "handling", "recording"}
  BY WorkerIs DEF WorkInv, WorkTyped, Work!Close
<1>2. CASE ready
  <2>1. PICK x : x = [worker[w] EXCEPT !.closing = TRUE]
    OBVIOUS
  <2>2. /\ x \in WorkerAt /\ x.step = worker[w].step
        /\ x.step \in {"handling", "recording"} => x.id = worker[w].id
        /\ x.step = "recording" => x.well = worker[w].well
    BY <1>1, <2>1 DEF WorkerAt
  <2>3. Work!Goes(w, x) /\ UNCHANGED <<jobs, ready, hooks, ends, letters, left, asks, cuts>>
    BY <1>2, <2>1 DEF Work!Close
  <2>4. \A id \in Ids : Work!Holds(w, id) =>
          /\ x.step = worker[w].step /\ x.id = worker[w].id
          /\ x.step = "recording" => x.well = worker[w].well
    BY <2>2 DEF Work!Holds
  <2> QED  BY <2>2, <2>3, <2>4, WorkTurns
<1>3. CASE ~ready
  <2>1. Work!Ends(w, "gone") /\ UNCHANGED <<jobs, ready, ends, asks, cuts>>
    BY <1>3 DEF Work!Close
  <2>2. cuts' \in 0..MaxCuts
    BY <2>1 DEF WorkInv, WorkTyped
  <2> QED  BY <2>1, <2>2, WorkGoes
<1> QED  BY <1>2, <1>3

\* It ends, as told or cut short.
LEMMA WorkEnds ==
  ASSUME WorkInv, NEW w \in Workers, Work!Closed(w) \/ Work!Crash(w) PROVE WorkInv'
<1>1. CASE Work!Closed(w)
  <2>1. worker[w].step = "idle" /\ Work!Ends(w, "closed") /\ UNCHANGED <<jobs, ready, ends, asks, cuts>>
    BY <1>1 DEF Work!Closed, Work!At
  <2>2. cuts' \in 0..MaxCuts
    BY <2>1 DEF WorkInv, WorkTyped
  <2> QED  BY <2>1, <2>2, WorkGoes
<1>2. CASE Work!Crash(w)
  <2>1. Work!Ends(w, "gone") /\ UNCHANGED <<jobs, ready, ends, asks>>
    BY <1>2 DEF Work!Crash
  <2>2. cuts' \in 0..MaxCuts
    BY <1>2, WorkBounds DEF WorkInv, WorkTyped, Work!Crash
  <2> QED  BY <2>1, <2>2, WorkGoes
<1> QED  BY <1>1, <1>2

\* It begins again with nothing.
LEMMA WorkStarts == ASSUME WorkInv, NEW w \in Workers, Work!Start(w) PROVE WorkInv'
<1>1. PICK x : x = Work!Idle
  OBVIOUS
<1>2. x \in WorkerAt /\ x.step = "idle"
  BY <1>1 DEF Work!Idle, WorkerAt
<1>3. /\ Work!Goes(w, x) /\ worker[w].step \in {"closed", "gone"}
      /\ UNCHANGED <<jobs, ready, hooks, ends, letters, left, asks, cuts>>
  BY <1>1 DEF Work!Start
<1>4. \A id \in Ids : ~Work!Holds(w, id)
  BY <1>3 DEF Work!Holds
<1> QED  BY <1>2, <1>3, <1>4, WorkTurns

\* Every step of the workers keeps their invariant.
LEMMA WorkStep == WorkInv /\ [Work!Next]_Work!jobVars => WorkInv'
<1>1. ASSUME WorkInv, UNCHANGED Work!jobVars PROVE WorkInv'
  <2>1. WorkTyped'
    BY <1>1 DEF Work!jobVars, WorkInv, WorkTyped
  <2>2. \A id \in Ids : Untouched(id)
    BY <1>1 DEF Work!jobVars, Untouched, Work!Holds
  <2> QED  BY <1>1, <2>1, <2>2, WorkFrame DEF WorkInv
<1> QED
  BY <1>1, WorkOutage, WorkEnqueues, WorkDue, WorkRemoves, WorkStalls, WorkProcesses, WorkTells, WorkHandled,
     WorkRecords, WorkCloses, WorkEnds, WorkStarts DEF Work!Next

\* And the invariant says that jobs are accounted for.
LEMMA WorkShows == WorkInv => Work!TypeOK /\ Work!JobsAreAccounted
<1> SUFFICES ASSUME WorkInv PROVE Work!TypeOK /\ Work!JobsAreAccounted
  OBVIOUS
<1> USE DEF WorkInv
<1>1. Work!TypeOK
  BY WorkerIs DEF WorkTyped, Work!TypeOK
<1>2. ASSUME NEW id \in Ids
      PROVE  /\ Cardinality(Holding(id)) <= 1 + jobs[id].stalls
             /\ ends[id].well <= 1 + jobs[id].stalls
             /\ ends[id].well + ends[id].badly <= Attempts + jobs[id].stalls
             /\ jobs[id].state = "completed" => ends[id].well > 0
             /\ jobs[id].state = "failed" => jobs[id].made = Attempts /\ ends[id].badly >= Attempts
             /\ letters[id].told + letters[id].lost + Cardinality(Bearing(id)) = One(jobs[id].state = "failed")
             /\ jobs[id].state = "active" => Work!Holds(jobs[id].by, id) \/ id \in left
  <2>1. Standing(id) /\ Adds(id)
    OBVIOUS
  <2>2. /\ Cardinality(Holding(id)) \in Nat /\ Cardinality(Busy(id)) \in Nat
        /\ jobs[id].made \in Nat /\ jobs[id].stalls \in Nat /\ ends[id].well \in Nat /\ ends[id].badly \in Nat
    BY WorkersCount, JobIs DEF WorkTyped
  <2> QED  BY <2>1, <2>2, WorkBounds DEF Standing, Adds, One, Active
<1>3. \A id \in Ids : /\ Work!Cardinality({w \in Workers : Work!Holds(w, id)}) = Cardinality(Holding(id))
                      /\ Work!Cardinality({w \in Workers : <<w, id>> \in hooks}) = Cardinality(Bearing(id))
  BY SameCountOfJobs DEF Holding, Bearing
<1> QED  BY <1>1, <1>2, <1>3 DEF Work!JobsAreAccounted, One

\* Whatever stalls, fails, crashes and closes, a job is done once and by one
\* worker but for each time it stalled, given up after its attempts and no
\* sooner, and told of once (JobQueue.process, JobWorker.deadLetter).
THEOREM JobsAreAccountedAlways == Work!Spec => [](Work!TypeOK /\ Work!JobsAreAccounted)
BY WorkBegins, WorkStep, WorkShows, PTL DEF Work!Spec

\* The workers of MCJobs are the workers.
LEMMA WorkPart == PartsSpec => Work!Spec
<1>1. PartsInit => Work!Init
  BY DEF PartsInit
<1>2. [PartsNext]_partsVars => [Work!Next]_Work!jobVars
  BY DEF PartsNext, partsVars, TaskNext, ScanNext, CacheNext, RateNext, PrinterNext, WorkersNext,
     jobVars, Work!jobVars
<1> QED  BY <1>1, <1>2, PTL DEF PartsSpec, Work!Spec

----------------------------------------------------------------------------
(* The cache *)

\* Where a getOrSet() and an invalidateTag() may be.
ReaderAt ==
  {Redis!Idle} \union [step : {"compute", "tag"}, key : Keys] \union [step : {"store"}, key : Keys, version : Nat]
PurgeAt == {Redis!Idle} \union [step : {"members", "untag"}] \union [step : {"delete"}, keys : SUBSET Keys]

CacheTyped ==
  /\ datum \in 1..MaxVersion /\ clock \in 0..MaxClock
  /\ ttl \in [Keys -> Nat \ {0}]
  /\ cache \in [Keys -> [version : Nat, until : Nat]]
  /\ \A k \in Keys : cache[k].version <= datum
  /\ tagged \subseteq Keys /\ crossed \subseteq Keys /\ tagUntil \in Nat
  /\ reader \in [Replicas -> ReaderAt]
  /\ \A r \in Replicas : reader[r].step = "store" => reader[r].version \in 1..datum
  /\ purge \in PurgeAt

\* Entries of the tag live equally long; an entry is about to be put under it.
Uniform == \A j, k \in Keys : ttl[j] = ttl[k]
Tagging(k) == \E r \in Replicas : reader[r].step = "tag" /\ reader[r].key = k

\* No entry outlives what it was given.
Lives == \A k \in Keys : cache[k].until <= clock + ttl[k]

\* Wherever the invalidation is, it has got hold of the entry or will: an entry
\* that stands is in the set of the tag or about to be put there.
Fresh(k) ==
  /\ purge # Redis!Idle => ~Redis!Filling(k)
  /\ \A r \in Replicas : reader[r].step = "store" /\ reader[r].key = k => reader[r].version = datum
  /\ purge = Redis!Idle /\ Redis!Hit(k) => cache[k].version = datum
  /\ purge.step \in {"idle", "members"} /\ Redis!Hit(k) =>
       Tagging(k) \/ (k \in tagged /\ tagUntil >= cache[k].until)
  /\ purge.step = "delete" /\ Redis!Hit(k) => k \in purge.keys
  /\ purge.step = "untag" => ~Redis!Hit(k)

CacheInv == CacheTyped /\ Lives /\ (Uniform => \A k \in Keys \ crossed : Fresh(k))

\* Where a getOrSet() may be, and what it has with it.
LEMMA ReaderIs ==
  \A x \in ReaderAt :
    /\ x.step \in {"idle", "compute", "store", "tag"}
    /\ x.step = "idle" <=> x = Redis!Idle
    /\ x.step # "idle" => x.key \in Keys
    /\ x.step = "store" => x.version \in Nat
  BY DEF ReaderAt, Redis!Idle

\* Where an invalidateTag() may be.
LEMMA PurgeIs ==
  \A x \in PurgeAt :
    /\ x.step \in {"idle", "members", "delete", "untag"}
    /\ x.step = "idle" <=> x = Redis!Idle
    /\ x.step = "delete" => x.keys \subseteq Keys
  BY DEF PurgeAt, Redis!Idle

\* A reader moves on, and the others do not.
LEMMA ReaderGoes ==
  ASSUME CacheTyped, NEW r \in Replicas, NEW x \in ReaderAt, Redis!Goes(r, x)
  PROVE  /\ reader' \in [Replicas -> ReaderAt]
         /\ reader'[r] = x
         /\ \A q \in Replicas : q # r => reader'[q] = reader[q]
  BY DEF CacheTyped, Redis!Goes

\* The invariant of the cache holds at first.
LEMMA CacheBegins == CacheAssumption /\ Redis!Init => CacheInv
<1> SUFFICES ASSUME CacheAssumption, Redis!Init PROVE CacheInv
  OBVIOUS
<1> USE DEF Redis!Init, CacheAssumption
<1>1. Redis!Idle \in ReaderAt /\ Redis!Idle \in PurgeAt
  BY DEF ReaderAt, PurgeAt
<1>2. Redis!Idle.step = "idle"
  BY DEF Redis!Idle
<1>3. \A r \in Replicas : reader[r] = Redis!Idle
  OBVIOUS
<1>4. \A k \in Keys : cache[k] = [version |-> 0, until |-> 0]
  BY DEF Redis!Missing
<1>5. ttl \in [Keys -> Nat \ {0}]
  OBVIOUS
<1>6. CacheTyped
  <2>1. cache \in [Keys -> [version : Nat, until : Nat]]
    BY DEF Redis!Missing
  <2>2. reader \in [Replicas -> ReaderAt]
    BY <1>1
  <2> QED  BY <1>1, <1>2, <1>3, <1>4, <1>5, <2>1, <2>2 DEF CacheTyped
<1>7. Lives
  BY <1>4, <1>5 DEF Lives
<1>8. \A k \in Keys \ crossed : Fresh(k)
  BY <1>2, <1>3, <1>4 DEF Fresh, Redis!Hit, Redis!Filling
<1> QED  BY <1>6, <1>7, <1>8 DEF CacheInv

\* Every step of the cache keeps its types ...
LEMMA CacheTypeStep ==
  ASSUME CacheAssumption, CacheTyped, Redis!Next
  PROVE  CacheTyped'
<1> USE DEF CacheTyped
<1>0. /\ datum \in Nat /\ clock \in Nat /\ MaxClock \in Nat /\ MaxVersion \in Nat
      /\ Redis!Idle \in ReaderAt /\ Redis!Idle \in PurgeAt
      /\ Redis!Missing \in [version : Nat, until : Nat] /\ Redis!Missing.version = 0
  BY DEF CacheAssumption, ReaderAt, PurgeAt, Redis!Missing
<1>1. CASE Redis!Tick
  <2>1. cache' \in [Keys -> [version : Nat, until : Nat]] /\ \A k \in Keys : cache'[k].version <= datum
    BY <1>0, <1>1 DEF Redis!Tick
  <2>2. tagged' \subseteq Keys /\ tagUntil' \in Nat /\ clock' \in 0..MaxClock
    BY <1>0, <1>1 DEF Redis!Tick
  <2> QED  BY <1>1, <2>1, <2>2 DEF Redis!Tick
<1>2. CASE Redis!Change
  <2>1. purge' \in PurgeAt
    BY <1>2 DEF Redis!Change, PurgeAt
  <2>2. datum' \in 1..MaxVersion /\ \A k \in Keys : cache[k].version <= datum'
    BY <1>0, <1>2 DEF Redis!Change
  <2>3. \A r \in Replicas : reader[r].step = "store" => reader[r].version \in 1..datum'
    BY <1>0, <1>2, ReaderIs DEF Redis!Change
  <2> QED  BY <1>2, <2>1, <2>2, <2>3 DEF Redis!Change
<1>3. CASE Redis!ReadMembers
  <2>1. purge' \in PurgeAt
    BY <1>3, <1>0 DEF Redis!ReadMembers, PurgeAt
  <2> QED  BY <1>3, <2>1 DEF Redis!ReadMembers
<1>4. CASE Redis!DeleteMembers
  <2>1. purge' \in PurgeAt
    BY <1>4 DEF Redis!DeleteMembers, PurgeAt
  <2>2. cache' \in [Keys -> [version : Nat, until : Nat]] /\ \A k \in Keys : cache'[k].version <= datum
    BY <1>0, <1>4 DEF Redis!DeleteMembers
  <2> QED  BY <1>4, <2>1, <2>2 DEF Redis!DeleteMembers
<1>5. CASE Redis!Untag
  BY <1>0, <1>5 DEF Redis!Untag
<1>6. ASSUME NEW r \in Replicas, Redis!Compute(r) PROVE CacheTyped'
  <2>1. reader[r].key \in Keys
    BY <1>6, ReaderIs DEF Redis!Compute
  <2>2. [step |-> "store", key |-> reader[r].key, version |-> datum] \in ReaderAt
    BY <1>0, <2>1 DEF ReaderAt
  <2>3. /\ reader' \in [Replicas -> ReaderAt]
        /\ reader'[r] = [step |-> "store", key |-> reader[r].key, version |-> datum]
        /\ \A q \in Replicas : q # r => reader'[q] = reader[q]
    BY <1>6, <2>2, ReaderGoes DEF Redis!Compute
  <2>4. \A q \in Replicas : reader'[q].step = "store" => reader'[q].version \in 1..datum
    BY <1>0, <2>3
  <2> QED  BY <1>6, <2>3, <2>4 DEF Redis!Compute
<1>7. ASSUME NEW r \in Replicas, Redis!Store(r) PROVE CacheTyped'
  <2>1. reader[r].key \in Keys /\ reader[r].version \in 1..datum
    BY <1>7, ReaderIs DEF Redis!Store
  <2>2. [step |-> "tag", key |-> reader[r].key] \in ReaderAt
    BY <2>1 DEF ReaderAt
  <2>3. /\ reader' \in [Replicas -> ReaderAt]
        /\ reader'[r] = [step |-> "tag", key |-> reader[r].key]
        /\ \A q \in Replicas : q # r => reader'[q] = reader[q]
    BY <1>7, <2>2, ReaderGoes DEF Redis!Store
  <2>4. \A q \in Replicas : reader'[q].step = "store" => reader'[q].version \in 1..datum
    BY <2>3
  <2>5. clock + ttl[reader[r].key] \in Nat
    BY <1>0, <2>1
  <2>6. cache' \in [Keys -> [version : Nat, until : Nat]] /\ \A k \in Keys : cache'[k].version <= datum
    BY <1>0, <1>7, <2>1, <2>5 DEF Redis!Store
  <2> QED  BY <1>7, <2>3, <2>4, <2>6 DEF Redis!Store
<1>8. ASSUME NEW r \in Replicas, Redis!Tag(r) PROVE CacheTyped'
  <2>1. reader[r].key \in Keys
    BY <1>8, ReaderIs DEF Redis!Tag
  <2>3. /\ reader' \in [Replicas -> ReaderAt]
        /\ reader'[r] = Redis!Idle
        /\ \A q \in Replicas : q # r => reader'[q] = reader[q]
    BY <1>0, <1>8, ReaderGoes DEF Redis!Tag
  <2>4. \A q \in Replicas : reader'[q].step = "store" => reader'[q].version \in 1..datum
    BY <2>3 DEF Redis!Idle
  <2>5. tagUntil' \in Nat
    BY <1>0, <1>8, <2>1 DEF Redis!Tag, Redis!TagLives
  <2> QED  BY <1>8, <2>1, <2>3, <2>4, <2>5 DEF Redis!Tag
<1>9. ASSUME NEW r \in Replicas, Redis!Die(r) PROVE CacheTyped'
  <2>1. reader[r].key \in Keys
    BY <1>9, ReaderIs DEF Redis!Die
  <2>3. /\ reader' \in [Replicas -> ReaderAt]
        /\ reader'[r] = Redis!Idle
        /\ \A q \in Replicas : q # r => reader'[q] = reader[q]
    BY <1>0, <1>9, ReaderGoes DEF Redis!Die
  <2>4. \A q \in Replicas : reader'[q].step = "store" => reader'[q].version \in 1..datum
    BY <2>3 DEF Redis!Idle
  <2> QED  BY <1>9, <2>1, <2>3, <2>4 DEF Redis!Die
<1>10. ASSUME NEW r \in Replicas, NEW k \in Keys, Redis!Miss(r, k) PROVE CacheTyped'
  <2>2. [step |-> "compute", key |-> k] \in ReaderAt
    BY DEF ReaderAt
  <2>3. /\ reader' \in [Replicas -> ReaderAt]
        /\ reader'[r] = [step |-> "compute", key |-> k]
        /\ \A q \in Replicas : q # r => reader'[q] = reader[q]
    BY <1>10, <2>2, ReaderGoes DEF Redis!Miss
  <2>4. \A q \in Replicas : reader'[q].step = "store" => reader'[q].version \in 1..datum
    BY <2>3
  <2>5. crossed' \subseteq Keys
    BY <1>10 DEF Redis!Miss
  <2> QED  BY <1>10, <2>3, <2>4, <2>5 DEF Redis!Miss
<1> QED  BY <1>1, <1>2, <1>3, <1>4, <1>5, <1>6, <1>7, <1>8, <1>9, <1>10 DEF Redis!Next

\* ... and no entry lives longer than it was asked to ...
LEMMA LivesStep ==
  ASSUME CacheAssumption, CacheTyped, Lives, Redis!Next
  PROVE  Lives'
<1> USE DEF CacheTyped, Lives
<1>0. /\ clock \in Nat /\ Redis!Missing.until = 0
      /\ \A k \in Keys : ttl[k] \in Nat /\ cache[k].until \in Nat
  BY DEF CacheAssumption, Redis!Missing
<1>1. CASE Redis!Tick
  BY <1>0, <1>1 DEF Redis!Tick
<1>2. CASE Redis!DeleteMembers
  BY <1>0, <1>2 DEF Redis!DeleteMembers
<1>3. ASSUME NEW r \in Replicas, Redis!Store(r) PROVE Lives'
  <2>1. reader[r].key \in Keys
    BY <1>3, ReaderIs DEF Redis!Store
  <2> QED  BY <1>0, <1>3, <2>1 DEF Redis!Store
<1>4. CASE UNCHANGED <<cache, clock, ttl>>
  BY <1>4
<1> QED
  BY <1>1, <1>2, <1>3, <1>4 DEF Redis!Next, Redis!Change, Redis!ReadMembers, Redis!Untag,
     Redis!Compute, Redis!Tag, Redis!Die, Redis!Miss

\* ... and, where entries live equally long, no entry of the tag escapes its
\* invalidation.
LEMMA FreshStep ==
  ASSUME CacheAssumption, CacheTyped, Lives, Uniform, Redis!Next,
         \A k \in Keys \ crossed : Fresh(k),
         NEW k \in Keys \ crossed'
  PROVE  Fresh(k)'
<1> USE DEF Redis!Hit
<1>0. /\ clock \in Nat /\ datum \in Nat \ {0} /\ tagUntil \in Nat /\ k \in Keys
      /\ Redis!Missing.version = 0 /\ Redis!Missing.until = 0
      /\ Redis!Idle.step = "idle"
      /\ cache[k].until \in Nat /\ cache[k].version \in Nat
      /\ ttl[k] \in Nat \ {0} /\ \A j \in Keys : ttl[j] = ttl[k]
      /\ purge.step \in {"idle", "members", "delete", "untag"}
      /\ purge.step = "idle" <=> purge = Redis!Idle
  BY PurgeIs DEF CacheTyped, CacheAssumption, Redis!Missing, Redis!Idle, Uniform
<1>r. \A q \in Replicas : /\ reader[q].step \in {"idle", "compute", "store", "tag"}
                          /\ reader[q].step = "idle" <=> reader[q] = Redis!Idle
                          /\ reader[q].step # "idle" => reader[q].key \in Keys
  BY ReaderIs DEF CacheTyped
<1>1. CASE Redis!Tick
  <2>1. k \notin crossed /\ Fresh(k)
    BY <1>1, <1>0 DEF Redis!Tick
  <2>2. cache'[k] = IF cache[k].until <= clock' THEN Redis!Missing ELSE cache[k]
    BY <1>0, <1>1 DEF Redis!Tick
  <2>3. clock' \in Nat
    BY <1>0, <1>1 DEF Redis!Tick
  <2>4. k \in tagged /\ tagUntil >= cache[k].until /\ cache'[k].version # 0 =>
          k \in tagged' /\ tagUntil' >= cache'[k].until
    BY <1>0, <1>1, <2>2, <2>3 DEF Redis!Tick
  <2> QED  BY <1>0, <1>1, <2>1, <2>2, <2>4 DEF Redis!Tick, Fresh, Tagging, Redis!Filling
<1>2. CASE Redis!Change
  <2>1. k \notin crossed /\ Fresh(k) /\ ~Redis!Filling(k)
    BY <1>2, <1>0 DEF Redis!Change
  <2>2. \A q \in Replicas : reader[q].step # "idle" => reader[q].key # k
    BY <2>1 DEF Redis!Filling
  <2>3. purge'.step = "members" /\ purge.step = "idle"
    BY <1>0, <1>2 DEF Redis!Change
  <2>4. purge' # Redis!Idle
    BY <1>0, <2>3
  <2> QED  BY <1>0, <1>2, <2>1, <2>2, <2>3, <2>4 DEF Redis!Change, Fresh, Tagging, Redis!Filling
<1>3. CASE Redis!ReadMembers
  <2>1. k \notin crossed /\ Fresh(k)
    BY <1>3, <1>0 DEF Redis!ReadMembers
  <2>2. ~Redis!Filling(k)
    BY <1>0, <1>3, <2>1 DEF Redis!ReadMembers, Fresh
  <2>3. ~Tagging(k)
    BY <2>2 DEF Redis!Filling, Tagging
  <2>4. cache[k].version # 0 => k \in tagged
    BY <1>0, <1>3, <2>1, <2>3 DEF Fresh, Redis!ReadMembers
  <2>5. CASE tagged = {}
    BY <1>0, <1>3, <2>1, <2>2, <2>4, <2>5 DEF Redis!ReadMembers, Fresh, Tagging, Redis!Filling
  <2>6. CASE tagged # {}
    <3>1. purge' = [step |-> "delete", keys |-> tagged]
      BY <1>3, <2>6 DEF Redis!ReadMembers
    <3>2. purge'.step = "delete" /\ purge'.keys = tagged /\ purge' # Redis!Idle
      BY <3>1, <1>0
    <3> QED  BY <1>0, <1>3, <2>1, <2>2, <2>4, <3>2 DEF Redis!ReadMembers, Fresh, Tagging, Redis!Filling
  <2> QED  BY <2>5, <2>6
<1>4. CASE Redis!DeleteMembers
  <2>1. k \notin crossed /\ Fresh(k)
    BY <1>4, <1>0 DEF Redis!DeleteMembers
  <2>2. ~Redis!Filling(k)
    BY <1>0, <1>4, <2>1 DEF Redis!DeleteMembers, Fresh
  <2>3. cache'[k] = IF k \in purge.keys THEN Redis!Missing ELSE cache[k]
    BY <1>0, <1>4 DEF Redis!DeleteMembers
  <2>4. cache'[k].version = 0
    BY <1>0, <1>4, <2>1, <2>3 DEF Redis!DeleteMembers, Fresh
  <2>5. purge'.step = "untag" /\ purge' # Redis!Idle
    BY <1>0, <1>4 DEF Redis!DeleteMembers
  <2> QED  BY <1>0, <1>4, <2>1, <2>2, <2>4, <2>5 DEF Redis!DeleteMembers, Fresh, Tagging, Redis!Filling
<1>5. CASE Redis!Untag
  <2>1. k \notin crossed /\ Fresh(k)
    BY <1>5, <1>0 DEF Redis!Untag
  <2> QED  BY <1>0, <1>5, <2>1 DEF Redis!Untag, Fresh, Tagging, Redis!Filling
<1>6. ASSUME NEW r \in Replicas, Redis!Compute(r) PROVE Fresh(k)'
  <2>1. k \notin crossed /\ Fresh(k)
    BY <1>6, <1>0 DEF Redis!Compute
  <2>2. reader[r].key \in Keys /\ reader[r].step = "compute"
    BY <1>6, <1>r DEF Redis!Compute
  <2>3. PICK x : x = [step |-> "store", key |-> reader[r].key, version |-> datum]
    OBVIOUS
  <2>4. x \in ReaderAt /\ x.step = "store" /\ x.key = reader[r].key /\ x.version = datum
    BY <1>0, <2>2, <2>3 DEF ReaderAt
  <2>5. /\ reader' \in [Replicas -> ReaderAt]
        /\ reader'[r] = x
        /\ \A q \in Replicas : q # r => reader'[q] = reader[q]
    BY <1>6, <2>3, <2>4, ReaderGoes DEF Redis!Compute
  <2> QED  BY <1>0, <1>6, <2>1, <2>2, <2>4, <2>5 DEF Redis!Compute, Fresh, Tagging, Redis!Filling
<1>7. ASSUME NEW r \in Replicas, Redis!Store(r) PROVE Fresh(k)'
  <2>1. k \notin crossed /\ Fresh(k)
    BY <1>7, <1>0 DEF Redis!Store
  <2>2. reader[r].key \in Keys /\ reader[r].step = "store"
    BY <1>7, <1>r DEF Redis!Store
  <2>3. PICK x : x = [step |-> "tag", key |-> reader[r].key]
    OBVIOUS
  <2>4. x \in ReaderAt /\ x.step = "tag" /\ x.key = reader[r].key
    BY <2>2, <2>3 DEF ReaderAt
  <2>5. /\ reader' \in [Replicas -> ReaderAt]
        /\ reader'[r] = x
        /\ \A q \in Replicas : q # r => reader'[q] = reader[q]
    BY <1>7, <2>3, <2>4, ReaderGoes DEF Redis!Store
  <2>6. CASE reader[r].key = k
    <3>1. purge = Redis!Idle /\ reader[r].version = datum
      BY <2>1, <2>2, <2>6 DEF Fresh, Redis!Filling
    <3>2. cache'[k].version = datum
      BY <1>0, <1>7, <2>6, <3>1 DEF Redis!Store, CacheTyped
    <3> QED  BY <1>0, <1>7, <2>1, <2>2, <2>4, <2>5, <2>6, <3>1, <3>2
             DEF Redis!Store, Fresh, Tagging, Redis!Filling
  <2>7. CASE reader[r].key # k
    <3>1. cache'[k] = cache[k]
      BY <1>0, <1>7, <2>7 DEF Redis!Store, CacheTyped
    <3> QED  BY <1>0, <1>7, <2>1, <2>2, <2>4, <2>5, <2>7, <3>1
             DEF Redis!Store, Fresh, Tagging, Redis!Filling
  <2> QED  BY <2>6, <2>7
<1>8. ASSUME NEW r \in Replicas, Redis!Tag(r) PROVE Fresh(k)'
  <2>1. k \notin crossed /\ Fresh(k)
    BY <1>8, <1>0 DEF Redis!Tag
  <2>2. reader[r].key \in Keys /\ reader[r].step = "tag"
    BY <1>8, <1>r DEF Redis!Tag
  <2>5. /\ reader' \in [Replicas -> ReaderAt]
        /\ reader'[r] = Redis!Idle
        /\ \A q \in Replicas : q # r => reader'[q] = reader[q]
    <3>1. Redis!Idle \in ReaderAt
      BY DEF ReaderAt
    <3> QED  BY <1>8, <3>1, ReaderGoes DEF Redis!Tag
  <2>6. tagUntil' = clock + 2 * ttl[k] /\ tagUntil' >= cache[k].until
    <3>1. tagUntil' = clock + 2 * ttl[k]
      BY <1>0, <1>8, <2>2 DEF Redis!Tag, Redis!TagLives
    <3>2. cache[k].until <= clock + ttl[k]
      BY <1>0 DEF Lives
    <3> QED  BY <1>0, <3>1, <3>2
  <2>7. Tagging(k) => Tagging(k)' \/ reader[r].key = k
    BY <1>0, <2>2, <2>5 DEF Tagging
  <2>8. tagged' = tagged \union {reader[r].key}
    BY <1>8 DEF Redis!Tag
  <2>9. cache'[k] = cache[k] /\ purge' = purge /\ datum' = datum
    BY <1>8 DEF Redis!Tag
  <2>10. purge.step \in {"idle", "members"} /\ cache[k].version # 0 => Tagging(k)' \/ k \in tagged'
    BY <2>1, <2>7, <2>8 DEF Fresh
  <2>11. Redis!Filling(k)' => Redis!Filling(k)
    BY <1>0, <2>2, <2>5 DEF Redis!Filling
  <2>12. \A q \in Replicas : reader'[q].step = "store" /\ reader'[q].key = k => reader'[q].version = datum
    BY <1>0, <2>1, <2>5 DEF Fresh
  <2> QED  BY <2>1, <2>6, <2>9, <2>10, <2>11, <2>12 DEF Fresh
<1>9. ASSUME NEW r \in Replicas, Redis!Die(r) PROVE Fresh(k)'
  <2>1. k \notin crossed /\ Fresh(k) /\ reader[r].key # k
    BY <1>9, <1>0 DEF Redis!Die
  <2>2. reader[r].key \in Keys /\ reader[r].step # "idle"
    BY <1>9, <1>r DEF Redis!Die
  <2>5. /\ reader' \in [Replicas -> ReaderAt]
        /\ reader'[r] = Redis!Idle
        /\ \A q \in Replicas : q # r => reader'[q] = reader[q]
    <3>1. Redis!Idle \in ReaderAt
      BY DEF ReaderAt
    <3> QED  BY <1>9, <3>1, ReaderGoes DEF Redis!Die
  <2>6. Tagging(k) => Tagging(k)'
    BY <1>0, <2>1, <2>2, <2>5 DEF Tagging
  <2>7. UNCHANGED <<cache, tagged, tagUntil, purge, datum>>
    BY <1>9 DEF Redis!Die
  <2> QED  BY <1>0, <2>1, <2>2, <2>5, <2>6, <2>7 DEF Fresh, Redis!Filling
<1>10. ASSUME NEW r \in Replicas, NEW j \in Keys, Redis!Miss(r, j) PROVE Fresh(k)'
  <2>2. reader[r].step = "idle" /\ cache[j].version = 0
    BY <1>10, <1>0 DEF Redis!Miss
  <2>3. PICK x : x = [step |-> "compute", key |-> j]
    OBVIOUS
  <2>4. x \in ReaderAt /\ x.step = "compute" /\ x.key = j
    BY <2>3 DEF ReaderAt
  <2>5. /\ reader' \in [Replicas -> ReaderAt]
        /\ reader'[r] = x
        /\ \A q \in Replicas : q # r => reader'[q] = reader[q]
    BY <1>10, <2>3, <2>4, ReaderGoes DEF Redis!Miss
  <2>6. UNCHANGED <<cache, tagged, tagUntil, purge, datum>>
    BY <1>10 DEF Redis!Miss
  <2>7. CASE j # k
    <3>1. k \notin crossed /\ Fresh(k)
      BY <1>10, <1>0, <2>7 DEF Redis!Miss
    <3> QED  BY <1>0, <2>2, <2>4, <2>5, <2>6, <2>7, <3>1 DEF Fresh, Tagging, Redis!Filling
  <2>8. CASE j = k
    <3>1. purge = Redis!Idle
      BY <1>10, <1>0, <2>8 DEF Redis!Miss
    <3>2. Redis!Filling(k) => Fresh(k)
      BY <1>10, <1>0, <2>8, <3>1 DEF Redis!Miss
    <3>3. \A q \in Replicas : reader[q].step = "store" /\ reader[q].key = k => reader[q].version = datum
      BY <3>2 DEF Redis!Filling, Fresh
    <3> QED  BY <1>0, <2>2, <2>4, <2>5, <2>6, <2>8, <3>1, <3>3 DEF Fresh, Tagging, Redis!Filling
  <2> QED  BY <2>7, <2>8
<1> QED  BY <1>1, <1>2, <1>3, <1>4, <1>5, <1>6, <1>7, <1>8, <1>9, <1>10 DEF Redis!Next

\* Every step of the cache keeps its invariant.
LEMMA CacheStep == CacheInv /\ [Redis!Next]_Redis!cacheVars => CacheInv'
<1> SUFFICES ASSUME CacheInv, [Redis!Next]_Redis!cacheVars PROVE CacheInv'
  OBVIOUS
<1> USE CacheAssumption
<1>1. CASE Redis!Next
  <2>1. CacheTyped' /\ Lives'
    BY <1>1, CacheTypeStep, LivesStep DEF CacheInv
  <2>2. ttl' = ttl
    BY <1>1 DEF Redis!Next, Redis!Tick, Redis!Change, Redis!ReadMembers, Redis!DeleteMembers, Redis!Untag,
       Redis!Compute, Redis!Store, Redis!Tag, Redis!Die, Redis!Miss
  <2>3. Uniform' => Uniform
    BY <2>2 DEF Uniform
  <2>4. Uniform' => \A k \in Keys \ crossed' : Fresh(k)'
    BY <1>1, <2>3, FreshStep DEF CacheInv
  <2> QED  BY <2>1, <2>4 DEF CacheInv
<1>2. CASE UNCHANGED Redis!cacheVars
  BY <1>2 DEF Redis!cacheVars, CacheInv, CacheTyped, Lives, Uniform, Fresh, Tagging, Redis!Filling, Redis!Hit
<1> QED  BY <1>1, <1>2

\* And the invariant says that what was invalidated is gone.
LEMMA CacheShows == CacheInv => Redis!TypeOK /\ Redis!InvalidatedIsGone
<1> SUFFICES ASSUME CacheInv PROVE Redis!TypeOK /\ Redis!InvalidatedIsGone
  OBVIOUS
<1>1. Redis!TypeOK
  BY CacheAssumption DEF CacheInv, CacheTyped, Redis!TypeOK
<1>2. Redis!InvalidatedIsGone
  BY DEF CacheInv, Redis!InvalidatedIsGone, Uniform, Fresh
<1> QED  BY <1>1, <1>2

\* Once an invalidation is over, no entry computed before it is served, unless
\* it was being filled meanwhile or entries of the tag live unequally long
\* (invalidateTag).
THEOREM InvalidatedIsGoneAlways == Redis!Spec => [](Redis!TypeOK /\ Redis!InvalidatedIsGone)
<1>1. Redis!Init => CacheInv
  BY CacheBegins, CacheAssumption
<1>2. CacheInv => Redis!TypeOK /\ Redis!InvalidatedIsGone
  BY CacheShows
<1> QED  BY <1>1, <1>2, CacheStep, PTL DEF Redis!Spec

\* The cache of MCJobs is the cache.
LEMMA CachePart == PartsSpec => Redis!Spec
<1>1. PartsInit => Redis!Init
  BY DEF PartsInit
<1>2. [PartsNext]_partsVars => [Redis!Next]_Redis!cacheVars
  BY DEF PartsNext, partsVars, TaskNext, ScanNext, CacheNext, RateNext, PrinterNext, WorkersNext,
     cacheVars, Redis!cacheVars
<1> QED  BY <1>1, <1>2, PTL DEF PartsSpec, Redis!Spec

----------------------------------------------------------------------------
(* The rate limit *)

\* The instance adds up as everybody does.
LEMMA SameSum == \A f, S : Redis!SumFunctionOnSet(f, S) = SumFunctionOnSet(f, S)
BY DEF SumFunctionOnSet, Redis!SumFunctionOnSet, FoldFunctionOnSet, Redis!FoldFunctionOnSet,
  MapThenFoldSet, Redis!MapThenFoldSet

\* A part comes to no more than the whole.
LEMMA SumOfPart ==
  ASSUME NEW f, NEW S, IsFiniteSet(S), NEW T \in SUBSET S, \A x \in S : f[x] \in Nat
  PROVE  SumFunctionOnSet(f, T) <= SumFunctionOnSet(f, S)
<1>1. PICK U : U = S \ T
  OBVIOUS
<1>2. IsFiniteSet(T) /\ IsFiniteSet(U) /\ T \intersect U = {} /\ T \union U = S
  BY <1>1, FS_Subset
<1>3. \A x \in T \union U : f[x] \in Int
  BY <1>2
<1>4. SumFunctionOnSet(f, S) = SumFunctionOnSet(f, T) + SumFunctionOnSet(f, U)
  BY <1>2, <1>3, SumOfBoth
<1>5. SumFunctionOnSet(f, T) \in Nat /\ SumFunctionOnSet(f, U) \in Nat
  BY <1>2, SumIsNat
<1> QED  BY <1>4, <1>5

\* Whole seconds are no shorter than what was rounded up to them.
LEMMA WholeSeconds ==
  ASSUME NEW n \in Nat \ {0}, NEW x \in Nat
  PROVE  /\ ((x + n - 1) \div n) * n \in Nat
         /\ ((x + n - 1) \div n) * n >= x
BY SMTT(20)

\* Some numbers have a least one, and Min is it.
LEMMA LeastIs ==
  ASSUME NEW n \in Nat, NEW S \in SUBSET (0..n), S # {}
  PROVE  Redis!Min(S) \in S /\ \A x \in S : Redis!Min(S) <= x
<1>1. PICK N : N = 0..n
  OBVIOUS
<1>0. IsFiniteSet(N)
  BY <1>1, FS_Interval
<1>2. PICK X : X = {0..x : x \in S}
  OBVIOUS
<1>3. X \subseteq SUBSET N /\ X # {}
  <2>1. \A x \in S : 0..x \subseteq N
    BY <1>1
  <2> QED  BY <1>2, <2>1
<1>4. PICK T \in X : \A U \in X : U \subseteq T => U = T
  BY <1>0, <1>3, SmallestPart
<1>5. PICK x \in S : T = 0..x
  BY <1>2, <1>4
<1>6. ASSUME NEW y \in S PROVE x <= y
  <2> SUFFICES ASSUME y < x PROVE FALSE
    OBVIOUS
  <2>1. 0..y \in X /\ 0..y \subseteq T /\ x \in T /\ x \notin 0..y
    BY <1>2, <1>5
  <2> QED  BY <1>4, <2>1
<1> QED  BY <1>6 DEF Redis!Min

\* What the sorted set and what was let through come to.
Span == 0..MaxInstant
InWindow == {m \in Span : m > instant - Window}
Staying(then) == {m \in Span : m + Window > then}

RateTypes ==
  /\ instant \in Window..MaxInstant
  /\ members \in [Span -> Nat] /\ spent \in [Span -> Nat] /\ free \in Nat

\* The members that the window keeps are all that was let through in it.
Counted ==
  /\ SumFunctionOnSet(members, InWindow) <= Limit
  /\ \A m \in Span : m > instant - Window => members[m] = spent[m]

\* Who was refused was told of a moment when some of them will be gone.
Told == free # 0 => SumFunctionOnSet(members, Staying(free)) < Limit

RateInv == RateTypes /\ Counted /\ Told

\* The window is a finite stretch of the time there is, and what it holds is a number.
LEMMA WindowIs ==
  ASSUME RateAssumption, RateTypes
  PROVE  /\ IsFiniteSet(Span) /\ IsFiniteSet(InWindow) /\ InWindow \subseteq Span
         /\ Redis!Moments = Span /\ {m \in Span : Redis!Live(m)} = InWindow
         /\ Redis!Used = SumFunctionOnSet(members, InWindow)
         /\ SumFunctionOnSet(members, InWindow) \in Nat
         /\ \A then : IsFiniteSet(Staying(then)) /\ Staying(then) \subseteq Span
                      /\ SumFunctionOnSet(members, Staying(then)) \in Nat
<1> USE RateAssumption
<1>1. IsFiniteSet(Span) /\ InWindow \subseteq Span
  BY FS_Interval DEF Span, InWindow
<1>2. IsFiniteSet(InWindow)
  BY <1>1, FS_Subset
<1>3. Redis!Moments = Span /\ {m \in Span : Redis!Live(m)} = InWindow
  BY DEF Redis!Moments, Redis!Live, Span, InWindow
<1>4. Redis!Used = SumFunctionOnSet(members, InWindow)
  BY <1>3, SameSum DEF Redis!Used
<1>5. \A m \in Span : members[m] \in Nat
  BY DEF RateTypes
<1>6. SumFunctionOnSet(members, InWindow) \in Nat
  BY <1>1, <1>2, <1>5, SumIsNat
<1>7. ASSUME NEW then
      PROVE  IsFiniteSet(Staying(then)) /\ Staying(then) \subseteq Span
             /\ SumFunctionOnSet(members, Staying(then)) \in Nat
  <2>1. Staying(then) \subseteq Span /\ IsFiniteSet(Staying(then))
    BY <1>1, FS_Subset DEF Staying
  <2> QED  BY <1>5, <2>1, SumIsNat
<1> QED  BY <1>1, <1>2, <1>3, <1>4, <1>6, <1>7

\* What the sum of a window comes to is counted in the set.
LEMMA RateSound == RateInv => Redis!RateTyped /\ Redis!RateIsHonest
<1> SUFFICES ASSUME RateInv PROVE Redis!RateTyped /\ Redis!RateIsHonest
  OBVIOUS
<1> USE RateAssumption DEF RateInv
<1>0. \A m \in Span : members[m] \in Nat /\ spent[m] \in Nat
  BY DEF RateTypes
<1>1. Redis!RateTyped
  BY WindowIs DEF Redis!RateTyped, RateTypes, Span
<1>2. PICK S : S = {m \in Span : m > instant - Window /\ m <= instant}
  OBVIOUS
<1>3. S \subseteq InWindow /\ IsFiniteSet(S)
  BY <1>2, WindowIs, FS_Subset DEF InWindow
<1>4. SumFunctionOnSet(spent, S) = SumFunctionOnSet(members, S)
  BY <1>2, <1>3, SumOfEqual DEF Counted
<1>5. SumFunctionOnSet(members, S) <= SumFunctionOnSet(members, InWindow)
  BY <1>0, <1>3, WindowIs, SumOfPart
<1>6. SumFunctionOnSet(members, S) \in Nat
  BY <1>0, <1>2, <1>3, SumIsNat
<1>7. SumFunctionOnSet(spent, S) <= Limit
  BY <1>4, <1>5, <1>6, WindowIs DEF Counted
<1>8. free # 0 /\ instant >= free => Redis!Used < Limit
  <2> SUFFICES ASSUME free # 0, instant >= free PROVE Redis!Used < Limit
    OBVIOUS
  <2>1. InWindow \subseteq Staying(free)
    BY DEF InWindow, Staying, RateTypes, Span
  <2>2. SumFunctionOnSet(members, InWindow) <= SumFunctionOnSet(members, Staying(free))
    BY <1>0, <2>1, WindowIs, SumOfPart
  <2> QED  BY <2>2, WindowIs DEF Told
<1>9. Redis!RateIsHonest
  BY <1>2, <1>7, <1>8, SameSum, WindowIs DEF Redis!RateIsHonest
<1> QED  BY <1>1, <1>9

\* The invariant of the rate limit holds of a set with nothing in it.
LEMMA RateOfNone ==
  ASSUME RateTypes, members = Redis!Nothing, spent = Redis!Nothing, free = 0
  PROVE  RateInv
<1> USE RateAssumption
<1>1. \A m \in Span : members[m] = 0 /\ spent[m] = 0
  BY WindowIs DEF Redis!Nothing
<1>2. SumFunctionOnSet(members, InWindow) = 0
  BY <1>1, WindowIs, SumOfZeros
<1> QED  BY <1>1, <1>2 DEF RateInv, Counted, Told

\* The invariant of the rate limit holds at first.
LEMMA RateBegins == Redis!RateInit => RateInv
<1> SUFFICES ASSUME Redis!RateInit PROVE RateInv
  OBVIOUS
<1>1. RateTypes
  BY RateAssumption DEF Redis!RateInit, RateTypes, Redis!Nothing, Redis!Moments, Span
<1> QED  BY <1>1, RateOfNone DEF Redis!RateInit

\* An operator lifts the block.
LEMMA RateResets == RateInv /\ Redis!Reset => RateInv'
<1> SUFFICES ASSUME RateInv, Redis!Reset PROVE RateInv'
  OBVIOUS
<1> USE RateAssumption
<1>1. /\ members' = Redis!Nothing /\ spent' = Redis!Nothing /\ free' = 0 /\ instant' = instant
      /\ RateTypes'
  BY WindowIs DEF Redis!Reset, RateInv, RateTypes, Redis!Nothing
<1>2. \A m \in Span : members'[m] = 0 /\ spent'[m] = 0
  BY <1>1, WindowIs DEF Redis!Nothing, RateInv
<1>3. InWindow' = InWindow /\ IsFiniteSet(InWindow) /\ InWindow \subseteq Span
  BY <1>1, WindowIs DEF InWindow, Span, RateInv
<1>4. SumFunctionOnSet(members', InWindow) = 0
  BY <1>2, <1>3, SumOfZeros
<1>5. Counted'
  BY <1>2, <1>3, <1>4 DEF Counted, Span
<1> QED  BY <1>1, <1>5 DEF RateInv, Told

\* Time passes: the window leaves members behind, and nothing else happens.
LEMMA RatePasses == RateInv /\ Redis!Pass => RateInv'
<1> SUFFICES ASSUME RateInv, Redis!Pass PROVE RateInv'
  OBVIOUS
<1> USE RateAssumption
<1>1. instant' = instant + 1 /\ RateTypes' /\ UNCHANGED <<members, spent, free>> /\ instant \in Nat
  BY DEF Redis!Pass, RateInv, RateTypes, Span
<1>2. InWindow' \subseteq InWindow
  BY <1>1 DEF InWindow, Span
<1>3. \A m \in Span : members[m] \in Nat
  BY DEF RateInv, RateTypes
<1>4. SumFunctionOnSet(members, InWindow') <= SumFunctionOnSet(members, InWindow)
  BY <1>2, <1>3, WindowIs, SumOfPart DEF RateInv
<1>5. SumFunctionOnSet(members, InWindow') \in Nat
  <2>1. IsFiniteSet(InWindow') /\ InWindow' \subseteq Span
    BY <1>2, WindowIs, FS_Subset DEF RateInv
  <2> QED  BY <1>3, <2>1, SumIsNat
<1>6. Counted'
  <2>1. \A m \in Span : m > instant' - Window => members[m] = spent[m]
    BY <1>1 DEF RateInv, Counted, Span
  <2>2. SumFunctionOnSet(members, InWindow') <= Limit
    BY <1>4, <1>5, WindowIs DEF RateInv, Counted
  <2> QED  BY <1>1, <2>1, <2>2 DEF Counted, Span
<1>7. Told'
  BY <1>1 DEF RateInv, Told, Staying, Span
<1> QED  BY <1>1, <1>6, <1>7 DEF RateInv

\* Trimming takes away what the window has left behind, and no more.
LEMMA TrimmedIs ==
  ASSUME RateInv
  PROVE  /\ Redis!Trimmed \in [Span -> Nat]
         /\ \A m \in Span : Redis!Trimmed[m] <= members[m]
         /\ \A m \in Span : Redis!Trimmed[m] = IF m \in InWindow THEN members[m] ELSE 0
BY RateAssumption, WindowIs DEF RateInv, RateTypes, Redis!Trimmed, Redis!Live, InWindow, Span

\* What no window keeps does not count: to be told of a moment stays right.
LEMMA ToldStill ==
  ASSUME RateInv, NEW then, NEW f \in [Span -> Nat], \A m \in Span : f[m] <= members[m],
         SumFunctionOnSet(members, Staying(then)) < Limit
  PROVE  SumFunctionOnSet(f, Staying(then)) < Limit
<1>1. \A m \in Staying(then) : f[m] \in Nat /\ members[m] \in Nat /\ f[m] <= members[m]
  BY WindowIs, RateAssumption DEF RateInv, RateTypes
<1>2. SumFunctionOnSet(f, Staying(then)) <= SumFunctionOnSet(members, Staying(then))
  BY <1>1, WindowIs, SumIsMonotone, RateAssumption DEF RateInv
<1>3. SumFunctionOnSet(f, Staying(then)) \in Nat
  BY <1>1, WindowIs, SumIsNat, RateAssumption DEF RateInv
<1> QED  BY <1>2, <1>3, WindowIs, RateAssumption DEF RateInv

\* A caller who is refused is told of a moment when a member will be gone.
LEMMA RefusedIsTold ==
  ASSUME RateInv, NEW then \in Nat, then = instant + Redis!RetryAfter
  PROVE  SumFunctionOnSet(Redis!Trimmed, Staying(then)) < Limit
<1> USE RateAssumption
<1>1. PICK f : f = Redis!Trimmed
  OBVIOUS
<1>2. /\ f \in [Span -> Nat]
      /\ \A m \in Span : f[m] = IF m \in InWindow THEN members[m] ELSE 0
  BY <1>1, TrimmedIs
<1>3. /\ IsFiniteSet(InWindow) /\ InWindow \subseteq Span /\ IsFiniteSet(Span)
      /\ IsFiniteSet(Staying(then)) /\ Staying(then) \subseteq Span
  BY WindowIs DEF RateInv
<1>4. instant \in Nat /\ \A m \in Span : m \in Nat /\ members[m] \in Nat
  BY DEF RateInv, RateTypes, Span
<1>5. Redis!Scores = {m \in InWindow : members[m] > 0}
  BY WindowIs DEF Redis!Scores, RateInv
<1>6. CASE Redis!Scores = {}
  <2>1. \A m \in Span : f[m] = 0
    BY <1>2, <1>3, <1>4, <1>5, <1>6
  <2>2. SumFunctionOnSet(f, Staying(then)) = 0
    BY <1>3, <2>1, SumOfZeros
  <2> QED  BY <1>1, <2>2
<1>7. CASE Redis!Scores # {}
  <2>1. PICK S : S = Redis!Scores
    OBVIOUS
  <2>2. S \in SUBSET (0..MaxInstant) /\ S # {}
    BY <1>3, <1>5, <1>7, <2>1 DEF Span
  <2>3. PICK least : least = Redis!Min(S)
    OBVIOUS
  <2>4. least \in S /\ \A x \in S : least <= x
    BY <2>2, <2>3, LeastIs
  <2>5. least \in InWindow /\ members[least] > 0 /\ least \in Nat
    BY <1>3, <1>4, <1>5, <2>1, <2>4
  <2>6. PICK x : x = least + Window - instant
    OBVIOUS
  <2>7. x \in Nat
    BY <1>4, <2>5, <2>6 DEF InWindow
  <2>8. PICK c : c = Redis!CeilSeconds(x)
    OBVIOUS
  <2>9. c \in Nat /\ c >= x
    BY <2>7, <2>8, WholeSeconds DEF Redis!CeilSeconds
  <2>10. then = instant + c
    BY <1>7, <2>1, <2>3, <2>6, <2>8 DEF Redis!RetryAfter
  <2>11. then >= least + Window
    BY <1>4, <2>5, <2>6, <2>7, <2>9, <2>10
  <2>12. PICK T : T = Staying(then) \intersect InWindow
    OBVIOUS
  <2>13. T \subseteq InWindow \ {least}
    BY <1>4, <2>5, <2>11, <2>12 DEF Staying
  <2>14. SumFunctionOnSet(f, Staying(then)) = SumFunctionOnSet(f, T)
    <3>1. PICK U : U = Staying(then) \ InWindow
      OBVIOUS
    <3>2. IsFiniteSet(T) /\ IsFiniteSet(U) /\ T \intersect U = {} /\ T \union U = Staying(then)
      BY <1>3, <2>12, <3>1, FS_Subset
    <3>3. \A m \in T \union U : f[m] \in Int
      BY <1>2, <1>3, <3>2
    <3>4. SumFunctionOnSet(f, U) = 0
      <4>1. \A m \in U : f[m] = 0
        BY <1>2, <1>3, <3>1
      <4> QED  BY <3>2, <4>1, SumOfZeros
    <3>5. SumFunctionOnSet(f, T \union U) = SumFunctionOnSet(f, T) + SumFunctionOnSet(f, U)
      BY <3>2, <3>3, SumOfBoth
    <3>6. SumFunctionOnSet(f, T) \in Int
      BY <3>2, <3>3, SumIsInt
    <3> QED  BY <3>2, <3>4, <3>5, <3>6
  <2>15. \A m \in InWindow : f[m] = members[m] /\ f[m] \in Nat
    BY <1>2, <1>3
  <2>16. PICK R : R = InWindow \ {least}
    OBVIOUS
  <2>17. IsFiniteSet(R) /\ R \subseteq InWindow
    BY <1>3, <2>16, FS_Subset
  <2>18. SumFunctionOnSet(f, T) <= SumFunctionOnSet(f, R)
    BY <2>13, <2>15, <2>16, <2>17, SumOfPart
  <2>19. SumFunctionOnSet(f, InWindow) = f[least] + SumFunctionOnSet(f, R)
    <3>1. \A m \in InWindow : f[m] \in Int
      BY <2>15
    <3>2. SumFunctionOnSet(f, InWindow) = f[least] + SumFunctionOnSet(f, InWindow \ {least})
      <4>1. least \in InWindow /\ IsFiniteSet(InWindow)
        BY <1>3, <2>5
      <4>2. \A y \in InWindow : SumFunctionOnSet(f, InWindow) = f[y] + SumFunctionOnSet(f, InWindow \ {y})
        BY <3>1, <4>1, SumWithout
      <4> QED  BY <4>1, <4>2
    <3> QED  BY <2>16, <3>2
  <2>20. SumFunctionOnSet(f, InWindow) = SumFunctionOnSet(members, InWindow)
    BY <1>3, <2>15, SumOfEqual
  <2>21. SumFunctionOnSet(f, T) \in Nat /\ SumFunctionOnSet(f, R) \in Nat
    BY <2>13, <2>15, <2>16, <2>17, SumIsNat, FS_Subset
  <2>22. SumFunctionOnSet(members, InWindow) <= Limit /\ f[least] >= 1 /\ f[least] \in Nat
    BY <2>5, <2>15 DEF RateInv, Counted
  <2> QED  BY <1>1, <2>14, <2>18, <2>19, <2>20, <2>21, <2>22
<1> QED  BY <1>6, <1>7

\* A caller is let through, or refused and told when to come back.
LEMMA RateConsumes ==
  ASSUME RateInv, NEW cost \in Costs, Redis!Consume(cost)
  PROVE  RateInv'
<1> USE RateAssumption
<1>0. /\ cost \in Nat /\ instant \in Nat /\ instant' = instant /\ instant \in Span
      /\ InWindow' = InWindow /\ instant \in InWindow
      /\ free \in Nat
  BY DEF Redis!Consume, RateInv, RateTypes, InWindow, Span
<1>1. PICK f : f = Redis!Trimmed
  OBVIOUS
<1>2. /\ f \in [Span -> Nat] /\ \A m \in Span : f[m] <= members[m]
      /\ \A m \in Span : f[m] = IF m \in InWindow THEN members[m] ELSE 0
  BY <1>1, TrimmedIs
<1>3. /\ IsFiniteSet(InWindow) /\ InWindow \subseteq Span
      /\ Redis!Used = SumFunctionOnSet(members, InWindow)
      /\ SumFunctionOnSet(members, InWindow) \in Nat
      /\ SumFunctionOnSet(members, InWindow) <= Limit
  BY WindowIs DEF RateInv, Counted
<1>4. SumFunctionOnSet(f, InWindow) = SumFunctionOnSet(members, InWindow)
  BY <1>2, <1>3, SumOfEqual
<1>5. Redis!RetryAfter \in Nat
  <2>1. CASE Redis!Scores = {}
    BY <2>1 DEF Redis!RetryAfter
  <2>2. CASE Redis!Scores # {}
    <3>1. PICK S : S = Redis!Scores
      OBVIOUS
    <3>2. S \subseteq InWindow /\ S \in SUBSET (0..MaxInstant)
      BY <1>3, <3>1, WindowIs DEF Redis!Scores, RateInv, Span
    <3>3. PICK least : least = Redis!Min(S)
      OBVIOUS
    <3>4. least \in S
      BY <2>2, <3>1, <3>2, <3>3, LeastIs
    <3>5. PICK x : x = least + Window - instant
      OBVIOUS
    <3>6. x \in Nat
      BY <1>0, <3>2, <3>4, <3>5 DEF InWindow, Span
    <3>7. Redis!CeilSeconds(x) \in Nat
      BY <3>6, WholeSeconds DEF Redis!CeilSeconds
    <3> QED  BY <2>2, <3>1, <3>3, <3>5, <3>7 DEF Redis!RetryAfter
  <2> QED  BY <2>1, <2>2
<1>6. CASE Redis!Used + cost > Limit
  <2>1. PICK then : then = instant + Redis!RetryAfter
    OBVIOUS
  <2>2. /\ members' = f /\ spent' = spent
        /\ free' = IF free # 0 /\ free < then THEN free ELSE then
    BY <1>1, <1>6, <2>1 DEF Redis!Consume
  <2>3. then \in Nat
    BY <1>0, <1>5, <2>1
  <2>4. RateTypes'
    BY <1>0, <1>2, <2>2, <2>3 DEF RateInv, RateTypes, Span
  <2>5. Counted'
    <3>1. \A m \in Span : m > instant - Window => f[m] = spent[m]
      BY <1>2 DEF RateInv, Counted, InWindow
    <3> QED  BY <1>0, <1>3, <1>4, <2>2, <3>1 DEF Counted, Span
  <2>6. SumFunctionOnSet(f, Staying(then)) < Limit
    BY <1>1, <2>1, <2>3, RefusedIsTold
  <2>7. free # 0 => SumFunctionOnSet(f, Staying(free)) < Limit
    BY <1>2, ToldStill DEF RateInv, Told
  <2>8. Told'
    <3>1. \A t : Staying(t)' = Staying(t)
      BY DEF Staying, Span
    <3>2. free' # 0 => SumFunctionOnSet(f, Staying(free')) < Limit
      BY <2>2, <2>6, <2>7
    <3> QED  BY <2>2, <3>2 DEF Told, Staying, Span
  <2> QED  BY <2>4, <2>5, <2>8 DEF RateInv
<1>7. CASE ~(Redis!Used + cost > Limit)
  <2>1. /\ members' = [f EXCEPT ![instant] = @ + cost]
        /\ spent' = [spent EXCEPT ![instant] = @ + cost]
        /\ free' = IF cost = 0 THEN free ELSE 0
    BY <1>1, <1>7 DEF Redis!Consume
  <2>2. /\ members' \in [Span -> Nat] /\ members'[instant] = f[instant] + cost
        /\ \A m \in Span : m # instant => members'[m] = f[m]
    BY <1>0, <1>2, <2>1
  <2>3. RateTypes'
    BY <1>0, <2>1, <2>2 DEF RateInv, RateTypes, Span
  <2>4. SumFunctionOnSet(members', InWindow) = SumFunctionOnSet(f, InWindow) + cost
    <3>1. PICK g : g = members'
      OBVIOUS
    <3>2. PICK R : R = InWindow \ {instant}
      OBVIOUS
    <3>3. IsFiniteSet(R) /\ R \subseteq InWindow /\ instant \notin R
      BY <1>3, <3>2, FS_Subset
    <3>4. \A m \in InWindow : f[m] \in Int /\ g[m] \in Int
      BY <1>2, <1>3, <2>2, <3>1
    <3>5. SumFunctionOnSet(g, InWindow) = g[instant] + SumFunctionOnSet(g, R)
      <4>1. \A y \in InWindow :
                SumFunctionOnSet(g, InWindow) = g[y] + SumFunctionOnSet(g, InWindow \ {y})
        BY <1>3, <3>4, SumWithout
      <4> QED  BY <1>0, <3>2, <4>1
    <3>6. SumFunctionOnSet(f, InWindow) = f[instant] + SumFunctionOnSet(f, R)
      <4>1. \A y \in InWindow :
                SumFunctionOnSet(f, InWindow) = f[y] + SumFunctionOnSet(f, InWindow \ {y})
        BY <1>3, <3>4, SumWithout
      <4> QED  BY <1>0, <3>2, <4>1
    <3>7. SumFunctionOnSet(g, R) = SumFunctionOnSet(f, R)
      BY <1>3, <2>2, <3>1, <3>3, SumOfEqual
    <3>8. SumFunctionOnSet(f, R) \in Int /\ f[instant] \in Int
      BY <1>0, <3>3, <3>4, SumIsInt
    <3> QED  BY <1>0, <2>2, <3>1, <3>5, <3>6, <3>7, <3>8
  <2>5. Counted'
    <3>1. SumFunctionOnSet(members', InWindow) <= Limit
      BY <1>0, <1>3, <1>4, <1>7, <2>4
    <3>2. \A m \in Span : m > instant - Window => members'[m] = spent'[m]
      BY <1>0, <1>2, <2>1, <2>2 DEF RateInv, RateTypes, Counted, InWindow
    <3> QED  BY <1>0, <3>1, <3>2 DEF Counted, Span
  <2>6. Told'
    <3>1. CASE cost # 0
      BY <2>1, <3>1 DEF Told
    <3>2. CASE cost = 0
      <4>1. \A m \in Span : members'[m] <= members[m]
        BY <1>0, <1>2, <2>2, <3>2
      <4>2. free # 0 => SumFunctionOnSet(members', Staying(free)) < Limit
        BY <2>2, <4>1, ToldStill DEF RateInv, Told
      <4> QED  BY <2>1, <3>2, <4>2 DEF Told, Staying, Span
    <3> QED  BY <3>1, <3>2
  <2> QED  BY <2>3, <2>5, <2>6 DEF RateInv
<1> QED  BY <1>6, <1>7

\* Every step of the rate limit keeps its invariant.
LEMMA RateStep == RateInv /\ [Redis!RateNext]_Redis!rateVars => RateInv'
<1>1. RateInv /\ UNCHANGED Redis!rateVars => RateInv'
  BY DEF Redis!rateVars, RateInv, RateTypes, Counted, Told, InWindow, Staying, Span
<1> QED  BY <1>1, RatePasses, RateResets, RateConsumes DEF Redis!RateNext

\* No window lets more through than the limit, whenever it begins and however
\* many requests share a millisecond, and when whoever was refused comes back as
\* told there is room for one (the sliding window's script).
THEOREM RateIsHonestAlways == Redis!RateSpec => [](Redis!RateTyped /\ Redis!RateIsHonest)
BY RateBegins, RateStep, RateSound, PTL DEF Redis!RateSpec

\* The rate limit of MCJobs is the rate limit.
LEMMA RatePart == PartsSpec => Redis!RateSpec
<1>1. PartsInit => Redis!RateInit
  BY DEF PartsInit
<1>2. [PartsNext]_partsVars => [Redis!RateNext]_Redis!rateVars
  BY DEF PartsNext, partsVars, TaskNext, ScanNext, CacheNext, RateNext, PrinterNext, WorkersNext,
     rateVars, Redis!rateVars
<1> QED  BY <1>1, <1>2, PTL DEF PartsSpec, Redis!RateSpec

----------------------------------------------------------------------------
(* The queue of a printer *)

\* A loop, which prints one ticket, and sleeps while it may be tried again.
TicketSteps == {"send", "sleep", "escalate", "printed", "failed"}
Loop == {l \in [job : 1..Tickets, attempt : 1..Tries, step : TicketSteps] : l.step = "sleep" => l.attempt < Tries}

TicketTypes ==
  /\ waiting \in Seq(1..Tickets) /\ sends \in Seq(1..Tickets)
  /\ loops \in Seq(Loop) /\ Len(loops) \in {0, 1} /\ (running <=> Len(loops) = 1)
  /\ running \in BOOLEAN /\ enqueued \in 0..Tickets /\ broken \in BOOLEAN
  /\ told \in [1..Tickets -> {"none", "printed", "failed"}]
  /\ escalated \subseteq 1..Tickets

Sent(j) == \E i \in 1..Len(sends) : sends[i] = j

\* The last tickets enqueued wait, in order, and the one before them is printed;
\* nothing that was sent comes after it.
InLine ==
  /\ Len(waiting) + Len(loops) <= enqueued
  /\ \A i \in 1..Len(waiting) : waiting[i] = enqueued - Len(waiting) + i
  /\ Len(loops) = 1 => loops[1].job = enqueued - Len(waiting)
  /\ \A i \in 1..Len(sends) : sends[i] <= enqueued - Len(waiting)
  /\ \A i, j \in 1..Len(sends) : i < j => sends[i] <= sends[j]
  /\ Len(waiting) > 0 => Len(loops) = 1 \/ broken

\* Of every ticket before that one it is known what became of it.
Settled ==
  /\ \A j \in 1..Tickets : /\ told[j] = "printed" => Sent(j)
                           /\ told[j] = "failed" => j \in escalated
                           /\ j <= enqueued - Len(waiting) - Len(loops) => j \in escalated \/ told[j] = "printed"
  /\ Len(loops) = 1 => /\ loops[1].step = "printed" => Sent(loops[1].job)
                       /\ loops[1].step = "failed" => loops[1].job \in escalated

TicketInv == TicketTypes /\ InLine /\ Settled

\* A loop at a ticket.
LEMMA LoopParts ==
  ASSUME NEW l \in Loop
  PROVE  /\ l.job \in 1..Tickets /\ l.attempt \in 1..Tries
         /\ l.step \in TicketSteps /\ (l.step = "sleep" => l.attempt < Tries)
BY DEF Loop

\* What stands in the queue, and at the printer.
LEMMA TicketParts ==
  ASSUME TicketTypes
  PROVE  /\ enqueued \in Nat /\ Len(waiting) \in Nat /\ Len(sends) \in Nat /\ Len(loops) \in Nat
         /\ \A i \in 1..Len(waiting) : waiting[i] \in 1..Tickets
         /\ \A i \in 1..Len(sends) : sends[i] \in 1..Tickets
         /\ DOMAIN sends = 1..Len(sends) /\ DOMAIN waiting = 1..Len(waiting) /\ DOMAIN loops = 1..Len(loops)
         /\ Len(loops) = 1 => loops[1] \in Loop /\ loops[1].job \in 1..Tickets
<1>1. /\ waiting \in Seq(1..Tickets) /\ sends \in Seq(1..Tickets) /\ loops \in Seq(Loop) /\ enqueued \in 0..Tickets
      /\ Tickets \in Nat
  BY TicketsAssumption DEF TicketTypes
<1>2. /\ Len(waiting) \in Nat /\ waiting \in [1..Len(waiting) -> 1..Tickets] /\ DOMAIN waiting = 1..Len(waiting)
  BY <1>1, LenProperties
<1>3. /\ Len(sends) \in Nat /\ sends \in [1..Len(sends) -> 1..Tickets] /\ DOMAIN sends = 1..Len(sends)
  BY <1>1, LenProperties
<1>4. /\ Len(loops) \in Nat /\ loops \in [1..Len(loops) -> Loop] /\ DOMAIN loops = 1..Len(loops)
  BY <1>1, LenProperties
<1>5. Len(loops) = 1 => loops[1] \in Loop
  BY <1>4
<1> QED  BY <1>1, <1>2, <1>3, <1>4, <1>5, LoopParts

\* The loop goes on.
LEMMA LoopMoves ==
  ASSUME TicketTypes, NEW l \in DOMAIN loops, NEW to \in Loop, Queue!Goes(l, to)
  PROVE  /\ l = 1 /\ Len(loops) = 1 /\ loops' \in Seq(Loop) /\ Len(loops') = 1 /\ loops'[1] = to
<1>1. l = 1 /\ Len(loops) = 1 /\ loops \in Seq(Loop) /\ 1 \in 1..Len(loops)
  BY TicketParts DEF TicketTypes
<1>2. loops' = [loops EXCEPT ![1] = to]
  BY <1>1 DEF Queue!Goes
<1> QED  BY <1>1, <1>2, ExceptSeq

\* The loop ends.
LEMMA LoopEnds ==
  ASSUME TicketTypes, NEW l \in DOMAIN loops, loops' = Queue!Drop(l)
  PROVE  l = 1 /\ Len(loops) = 1 /\ loops' \in Seq(Loop) /\ Len(loops') = 0
<1>1. l = 1 /\ Len(loops) = 1
  BY TicketParts DEF TicketTypes
<1>2. loops' = [i \in 1..0 |-> IF i < 1 THEN loops[i] ELSE loops[i + 1]]
  BY <1>1 DEF Queue!Drop
<1>3. loops' = <<>>
  BY <1>2
<1> QED  BY <1>1, <1>3, EmptySeq

\* A job begins, and with no printer it fails at once.
LEMMA PrintingLoop ==
  ASSUME NEW j \in 1..Tickets
  PROVE  /\ Queue!Printing(j) \in Loop /\ Queue!Printing(j).job = j
         /\ Queue!Printing(j).step \in {"send", "escalate"}
<1>1. 1 \in 1..Tries
  BY TicketsAssumption
<1> QED  BY <1>1 DEF Queue!Printing, Loop, TicketSteps

\* Nothing is enqueued at first.
LEMMA TicketsBegin == Queue!Init => TicketInv
<1> SUFFICES ASSUME Queue!Init PROVE TicketInv
  OBVIOUS
<1>1. /\ waiting = <<>> /\ loops = <<>> /\ sends = <<>> /\ running = FALSE /\ enqueued = 0 /\ broken = FALSE
      /\ told = [j \in 1..Tickets |-> "none"] /\ escalated = {} /\ Tickets \in Nat
  BY TicketsAssumption DEF Queue!Init, Queue!Numbers
<1>2. waiting \in Seq(1..Tickets) /\ sends \in Seq(1..Tickets) /\ loops \in Seq(Loop)
  BY <1>1, EmptySeq
<1>3. Len(waiting) = 0 /\ Len(sends) = 0 /\ Len(loops) = 0
  BY <1>1, EmptySeq
<1>4. TicketTypes
  <2>0. ~running /\ running \in BOOLEAN /\ broken \in BOOLEAN
    BY <1>1
  <2>1. running <=> Len(loops) = 1
    BY <1>3, <2>0
  <2>2. enqueued \in 0..Tickets /\ told \in [1..Tickets -> {"none", "printed", "failed"}]
    BY <1>1
  <2> QED  BY <1>1, <1>2, <1>3, <2>0, <2>1, <2>2 DEF TicketTypes
<1>5. InLine
  BY <1>1, <1>3 DEF InLine
<1>6. Settled
  BY <1>1, <1>3 DEF Settled
<1> QED  BY <1>4, <1>5, <1>6 DEF TicketInv

\* What is sent goes to the end.
LEMMA SendsGrow ==
  ASSUME TicketInv, Len(loops) = 1, sends' \in {sends, Append(sends, loops[1].job)}, UNCHANGED <<waiting, enqueued>>
  PROVE  /\ sends' \in Seq(1..Tickets) /\ Len(sends') \in Nat
         /\ \A i \in 1..Len(sends') : sends'[i] <= enqueued - Len(waiting)
         /\ \A i, j \in 1..Len(sends') : i < j => sends'[i] <= sends'[j]
         /\ \A j \in 1..Tickets : Sent(j) => Sent(j)'
         /\ \A j \in 1..Tickets : sends' = Append(sends, j) => Sent(j)'
<1> DEFINE Longer ==
      /\ sends' \in Seq(1..Tickets) /\ Len(sends') \in Nat
      /\ \A i \in 1..Len(sends') : sends'[i] <= enqueued - Len(waiting)
      /\ \A i, j \in 1..Len(sends') : i < j => sends'[i] <= sends'[j]
      /\ \A j \in 1..Tickets : Sent(j) => Sent(j)'
<1>1. /\ sends \in Seq(1..Tickets) /\ enqueued \in Nat /\ Len(waiting) \in Nat
      /\ loops[1].job \in 1..Tickets /\ loops[1].job = enqueued - Len(waiting) /\ Len(sends) \in Nat
      /\ \A i \in 1..Len(sends) : sends[i] <= enqueued - Len(waiting)
      /\ \A i, j \in 1..Len(sends) : i < j => sends[i] <= sends[j]
  BY TicketParts DEF TicketInv, TicketTypes, InLine
<1>2. ASSUME sends' = Append(sends, loops[1].job)
      PROVE  /\ sends' \in Seq(1..Tickets) /\ Len(sends') = Len(sends) + 1
             /\ sends'[Len(sends) + 1] = loops[1].job
             /\ \A i \in 1..Len(sends) : sends'[i] = sends[i]
  BY <1>1, <1>2, AppendProperties
<1>3. ASSUME sends' = Append(sends, loops[1].job) PROVE Longer
  <2>1. \A i \in 1..Len(sends') : i \in 1..Len(sends) \/ i = Len(sends) + 1
    BY <1>1, <1>2, <1>3
  <2>2. \A i \in 1..Len(sends') : sends'[i] <= enqueued - Len(waiting)
    BY <1>1, <1>2, <1>3, <2>1
  <2>3. ASSUME NEW i \in 1..Len(sends'), NEW j \in 1..Len(sends'), i < j PROVE sends'[i] <= sends'[j]
    <3>1. i \in 1..Len(sends)
      BY <1>1, <1>2, <1>3, <2>1, <2>3
    <3> QED  BY <1>1, <1>2, <1>3, <2>1, <2>3, <3>1
  <2>4. ASSUME NEW j \in 1..Tickets, Sent(j) PROVE Sent(j)'
    <3>1. PICK i \in 1..Len(sends) : sends[i] = j
      BY <2>4 DEF Sent
    <3>2. i \in 1..Len(sends') /\ sends'[i] = j
      BY <1>1, <1>2, <1>3, <3>1
    <3> QED  BY <3>2 DEF Sent
  <2> QED  BY <1>1, <1>2, <1>3, <2>2, <2>3, <2>4
<1>4. ASSUME sends' = sends PROVE Longer
  <2>1. \A j \in 1..Tickets : Sent(j) => Sent(j)'
    BY <1>4 DEF Sent
  <2> QED  BY <1>1, <1>4, <2>1
<1>5. ASSUME NEW j \in 1..Tickets, sends' = Append(sends, j) PROVE Sent(j)'
  <2>1. /\ Len(sends') = Len(sends) + 1 /\ sends'[Len(sends) + 1] = j
    BY <1>1, <1>5, AppendProperties
  <2>2. Len(sends) + 1 \in 1..Len(sends')
    BY <1>1, <2>1
  <2> QED  BY <2>1, <2>2 DEF Sent
<1> QED  BY <1>3, <1>4, <1>5

\* enqueue(): the ticket waits or begins.
LEMMA TicketEnqueued == TicketInv /\ Queue!Enqueue => TicketInv'
<1> SUFFICES ASSUME TicketInv, Queue!Enqueue PROVE TicketInv'
  OBVIOUS
<1>1. /\ waiting \in Seq(1..Tickets) /\ Len(waiting) \in Nat /\ enqueued \in 0..Tickets /\ Tickets \in Nat
      /\ loops \in Seq(Loop) /\ Len(loops) \in {0, 1} /\ (running <=> Len(loops) = 1)
      /\ Len(waiting) + Len(loops) <= enqueued
      /\ \A i \in 1..Len(waiting) : waiting[i] = enqueued - Len(waiting) + i
  BY TicketsAssumption, TicketParts DEF TicketInv, TicketTypes, InLine
<1>2. /\ enqueued' = enqueued + 1 /\ broken' = FALSE
      /\ sends' = sends /\ told' = told /\ escalated' = escalated
  BY DEF Queue!Enqueue
<1>3. enqueued' \in 1..Tickets /\ enqueued + 1 \in 1..Tickets
  BY <1>1, <1>2 DEF Queue!Enqueue
<1>4. PICK line : line = Append(waiting, enqueued + 1)
  OBVIOUS
<1>5. /\ line \in Seq(1..Tickets) /\ line # <<>> /\ Len(line) = Len(waiting) + 1
      /\ \A i \in 1..Len(waiting) : line[i] = waiting[i]
      /\ line[Len(waiting) + 1] = enqueued + 1
  <2>1. PICK n : n = enqueued + 1
    OBVIOUS
  <2>2. line = Append(waiting, n) /\ n \in 1..Tickets /\ waiting \in Seq(1..Tickets)
    BY <1>1, <1>3, <1>4, <2>1
  <2>3. /\ line \in Seq(1..Tickets) /\ line # <<>> /\ Len(line) = Len(waiting) + 1
        /\ \A i \in 1..Len(waiting) : line[i] = waiting[i]
        /\ line[Len(waiting) + 1] = n
    BY <2>2, AppendProperties
  <2> QED  BY <2>1, <2>3
<1>6. \A i \in 1..Len(line) : line[i] = enqueued - Len(waiting) + i
  <2>1. \A i \in 1..Len(waiting) : line[i] = enqueued - Len(waiting) + i
    BY <1>1, <1>5
  <2>2. line[Len(waiting) + 1] = enqueued - Len(waiting) + (Len(waiting) + 1)
    BY <1>1, <1>5
  <2>3. \A i \in 1..Len(line) : i \in 1..Len(waiting) \/ i = Len(waiting) + 1
    BY <1>1, <1>5
  <2> QED  BY <2>1, <2>2, <2>3
<1>7. /\ sends \in Seq(1..Tickets) /\ told \in [1..Tickets -> {"none", "printed", "failed"}]
      /\ escalated \subseteq 1..Tickets
      /\ \A i \in 1..Len(sends) : sends[i] \in 1..Tickets /\ sends[i] <= enqueued - Len(waiting)
      /\ \A i, j \in 1..Len(sends) : i < j => sends[i] <= sends[j]
      /\ \A j \in 1..Tickets : Sent(j) <=> Sent(j)'
  BY <1>2, TicketParts DEF TicketInv, TicketTypes, InLine, Sent
<1>8. ASSUME running PROVE TicketInv'
  <2>1. waiting' = line /\ loops' = loops /\ running' = running
    BY <1>2, <1>4, <1>8 DEF Queue!Enqueue, Queue!MayDrain
  <2>2. TicketTypes'
    <3>1. running' \in BOOLEAN /\ broken' \in BOOLEAN
      BY <1>2, <2>1 DEF TicketInv, TicketTypes
    <3>2. running' <=> Len(loops') = 1
      BY <1>1, <2>1
    <3> QED  BY <1>1, <1>2, <1>3, <1>5, <1>7, <2>1, <3>1, <3>2 DEF TicketTypes
  <2>3. InLine'
    <3>1. Len(loops') = 1 => loops'[1].job = enqueued - Len(waiting)
      BY <2>1 DEF TicketInv, InLine
    <3>0. Len(loops') = 1 /\ Len(loops) = 1 /\ Len(waiting') = Len(waiting) + 1
      BY <1>1, <1>5, <1>8, <2>1
    <3>2. enqueued' - Len(waiting') = enqueued - Len(waiting) /\ Len(waiting') + Len(loops') <= enqueued' /\ Len(loops') = 1
      BY <1>1, <1>2, <3>0
    <3> QED  BY <1>2, <1>5, <1>6, <1>7, <2>1, <3>1, <3>2 DEF InLine
  <2>4. Settled'
    <3>1. enqueued' - Len(waiting') - Len(loops') = enqueued - Len(waiting) - Len(loops)
      BY <1>1, <1>2, <1>5, <2>1
    <3>2. Len(loops) = 1 => loops[1].job \in 1..Tickets
      BY TicketParts DEF TicketInv
    <3> QED  BY <1>2, <1>7, <2>1, <3>1, <3>2 DEF TicketInv, Settled
  <2> QED  BY <2>2, <2>3, <2>4 DEF TicketInv
<1>9. ASSUME ~running PROVE TicketInv'
  <2>1. /\ waiting' = Tail(line) /\ loops' = Append(loops, Queue!Printing(Head(line))) /\ running' = TRUE
    BY <1>2, <1>4, <1>9 DEF Queue!Enqueue, Queue!MayDrain
  <2>2. /\ Head(line) \in 1..Tickets /\ Head(line) = line[1]
        /\ waiting' \in Seq(1..Tickets) /\ Len(waiting') = Len(waiting)
        /\ \A i \in 1..Len(waiting) : waiting'[i] = line[i + 1]
    BY <1>1, <1>5, <2>1, HeadTailProperties
  <2>3. PICK first : first = Queue!Printing(Head(line))
    OBVIOUS
  <2>4. first \in Loop /\ first.job = line[1] /\ first.step \in {"send", "escalate"}
    BY <2>2, <2>3, PrintingLoop
  <2>5. Len(loops) = 0 /\ loops' = Append(loops, first)
    BY <1>1, <1>9, <2>1, <2>3
  <2>6. loops' \in Seq(Loop) /\ Len(loops') = 1 /\ loops'[1] = first
    BY <1>1, <2>4, <2>5, AppendProperties
  <2>7. line[1] = enqueued - Len(waiting) + 1
        /\ \A i \in 1..Len(waiting) : waiting'[i] = enqueued - Len(waiting) + 1 + i
    BY <1>1, <1>5, <1>6, <2>2
  <2>8. TicketTypes'
    <3>1. running' \in BOOLEAN /\ broken' \in BOOLEAN /\ (running' <=> Len(loops') = 1)
      BY <1>2, <2>1, <2>6
    <3> QED  BY <1>1, <1>2, <1>3, <1>7, <2>2, <2>6, <3>1 DEF TicketTypes
  <2>9. InLine'
    <3>1. /\ enqueued' - Len(waiting') = enqueued - Len(waiting) + 1
          /\ Len(waiting') + Len(loops') <= enqueued' /\ Len(loops') = 1
      BY <1>1, <1>2, <2>2, <2>5, <2>6
    <3>2. \A i \in 1..Len(sends') : sends'[i] <= enqueued' - Len(waiting')
      <4>1. PICK sent0, m, k : sent0 = sends /\ m = enqueued - Len(waiting)
                               /\ k = enqueued' - Len(waiting')
        OBVIOUS
      <4>2. /\ m \in Int /\ k = m + 1 /\ sends' = sent0
            /\ \A i \in 1..Len(sent0) : sent0[i] \in Int /\ sent0[i] <= m
        BY <1>1, <1>2, <1>7, <3>1, <4>1
      <4>3. \A i \in 1..Len(sent0) : sent0[i] <= k
        BY <4>2
      <4> QED  BY <4>1, <4>2, <4>3
    <3>3. \A i \in 1..Len(waiting') : waiting'[i] = enqueued' - Len(waiting') + i
      BY <2>2, <2>7, <3>1
    <3>4. loops'[1].job = enqueued' - Len(waiting')
      BY <2>4, <2>6, <2>7, <3>1
    <3> QED  BY <1>2, <1>7, <3>1, <3>2, <3>3, <3>4 DEF InLine
  <2>10. Settled'
    <3>1. enqueued' - Len(waiting') - Len(loops') = enqueued - Len(waiting) - Len(loops)
      BY <1>1, <1>2, <2>2, <2>5, <2>6
    <3>2. loops'[1].step # "printed" /\ loops'[1].step # "failed"
      BY <2>4, <2>6
    <3> QED  BY <1>2, <1>7, <3>1, <3>2 DEF TicketInv, Settled
  <2> QED  BY <2>8, <2>9, <2>10 DEF TicketInv
<1> QED  BY <1>8, <1>9

\* A step of the loop to which the queue is nothing.
LEMMA LoopSteps ==
  ASSUME TicketInv, Len(loops) = 1, loops' \in Seq(Loop), Len(loops') = 1, loops'[1].job = loops[1].job,
         UNCHANGED <<waiting, running, enqueued, told, broken>>,
         sends' \in {sends, Append(sends, loops[1].job)},
         loops'[1].step = "printed" => sends' = Append(sends, loops[1].job),
         escalated' \in {escalated, escalated \union {loops[1].job}},
         loops'[1].step = "failed" => escalated' = escalated \union {loops[1].job}
  PROVE  TicketInv'
<1>1. /\ loops[1].job \in 1..Tickets /\ enqueued \in Nat /\ Len(waiting) \in Nat
      /\ running = TRUE /\ escalated \subseteq 1..Tickets
  BY TicketParts DEF TicketInv, TicketTypes
<1>2. /\ sends' \in Seq(1..Tickets) /\ Len(sends') \in Nat
      /\ \A i \in 1..Len(sends') : sends'[i] <= enqueued - Len(waiting)
      /\ \A i, j \in 1..Len(sends') : i < j => sends'[i] <= sends'[j]
      /\ \A j \in 1..Tickets : Sent(j) => Sent(j)'
      /\ \A j \in 1..Tickets : sends' = Append(sends, j) => Sent(j)'
  BY SendsGrow
<1>3. escalated' \subseteq 1..Tickets /\ escalated \subseteq escalated'
  BY <1>1
<1>4. TicketTypes'
  <2>1. running' \in BOOLEAN /\ broken' \in BOOLEAN /\ (running' <=> Len(loops') = 1)
    BY <1>1 DEF TicketInv, TicketTypes
  <2> QED  BY <1>2, <1>3, <2>1 DEF TicketInv, TicketTypes
<1>5. InLine'
  BY <1>2 DEF TicketInv, InLine
<1>6. Settled'
  <2>1. PICK job : job = loops[1].job
    OBVIOUS
  <2>2. /\ loops'[1].job = job /\ job \in 1..Tickets
        /\ loops'[1].step = "printed" => sends' = Append(sends, job)
        /\ loops'[1].step = "failed" => job \in escalated'
    BY <1>1, <2>1
  <2>3. loops'[1].step = "printed" => Sent(job)'
    BY <1>2, <2>2
  <2>4. loops'[1].step = "printed" => Sent(loops[1].job)'
    BY <2>2, <2>3 DEF Sent
  <2>5. loops'[1].step = "failed" => loops'[1].job \in escalated'
    BY <2>2
  <2>6. enqueued' - Len(waiting') - Len(loops') = enqueued - Len(waiting) - Len(loops)
    OBVIOUS
  <2> QED  BY <1>2, <1>3, <2>4, <2>5, <2>6 DEF TicketInv, Settled
<1> QED  BY <1>4, <1>5, <1>6 DEF TicketInv

\* A record of a loop with another step.
LEMMA LoopRecords ==
  ASSUME NEW l \in Loop, NEW step \in TicketSteps, step = "sleep" => l.attempt < Tries
  PROVE  /\ [l EXCEPT !.step = step] \in Loop
         /\ [l EXCEPT !.step = step].job = l.job /\ [l EXCEPT !.step = step].step = step
BY DEF Loop

\* The printer takes it, or may have, and then it is tried again.
LEMMA TicketSent == ASSUME TicketInv, NEW l \in DOMAIN loops, Queue!Send(l) PROVE TicketInv'
<1>1. /\ UNCHANGED <<waiting, running, enqueued, told, escalated, broken>>
      /\ l = 1 /\ Len(loops) = 1 /\ loops[1] \in Loop /\ TicketTypes
  BY TicketParts DEF Queue!Send, TicketInv, TicketTypes
<1>2. PICK step \in {"printed", "sleep", "escalate"} :
        /\ Queue!Goes(1, [loops[1] EXCEPT !.step = step])
        /\ sends' \in {sends, Append(sends, loops[1].job)}
        /\ step = "printed" => sends' = Append(sends, loops[1].job)
        /\ step = "sleep" => loops[1].attempt < Tries
  BY <1>1 DEF Queue!Send
<1>3. PICK to : to = [loops[1] EXCEPT !.step = step]
  OBVIOUS
<1>4. to \in Loop /\ to.job = loops[1].job /\ to.step = step
  <2>1. step \in TicketSteps /\ (step = "sleep" => loops[1].attempt < Tries)
    BY <1>2 DEF TicketSteps
  <2> QED  BY <1>1, <1>3, <2>1, LoopRecords
<1>5. loops' \in Seq(Loop) /\ Len(loops') = 1 /\ loops'[1] = to
  BY <1>1, <1>2, <1>3, <1>4, LoopMoves
<1> QED  BY <1>1, <1>2, <1>4, <1>5, LoopSteps

\* It is tried again.
LEMMA TicketAgain == ASSUME TicketInv, NEW l \in DOMAIN loops, Queue!Wake(l) PROVE TicketInv'
<1>1. /\ UNCHANGED <<waiting, running, enqueued, sends, told, escalated, broken>>
      /\ l = 1 /\ Len(loops) = 1 /\ loops[1] \in Loop /\ TicketTypes /\ loops[1].step = "sleep"
  BY TicketParts DEF Queue!Wake, TicketInv, TicketTypes
<1>2. PICK to : to = [loops[1] EXCEPT !.step = "send", !.attempt = @ + 1]
  OBVIOUS
<1>3. to \in Loop /\ to.job = loops[1].job /\ to.step = "send"
  <2>1. /\ loops[1] \in [job : 1..Tickets, attempt : 1..Tries, step : TicketSteps]
        /\ loops[1].attempt < Tries /\ Tries \in Nat
    BY <1>1, TicketsAssumption DEF Loop
  <2>2. loops[1].attempt + 1 \in 1..Tries /\ "send" \in TicketSteps
    BY <2>1 DEF TicketSteps
  <2>3. to \in [job : 1..Tickets, attempt : 1..Tries, step : TicketSteps] /\ to.job = loops[1].job /\ to.step = "send"
    BY <1>2, <2>1, <2>2
  <2> QED  BY <2>3 DEF Loop
<1>4. loops' \in Seq(Loop) /\ Len(loops') = 1 /\ loops'[1] = to
  BY <1>1, <1>2, <1>3, LoopMoves DEF Queue!Wake
<1> QED  BY <1>1, <1>3, <1>4, LoopSteps

\* A loop that ended; all that is kept of its ticket is what was told.
LEMMA LoopOver ==
  ASSUME TicketInv, Len(loops) = 1, loops' \in Seq(Loop), Len(loops') = 0, running' = FALSE,
         UNCHANGED <<waiting, enqueued, sends>>, broken' \in BOOLEAN, Len(waiting) > 0 => broken',
         escalated \subseteq escalated', escalated' \subseteq 1..Tickets,
         told' \in [1..Tickets -> {"none", "printed", "failed"}],
         \A j \in 1..Tickets : j # loops[1].job => told'[j] = told[j],
         told'[loops[1].job] = "printed" => Sent(loops[1].job),
         told'[loops[1].job] = "failed" => loops[1].job \in escalated',
         loops[1].job \in escalated' \/ told'[loops[1].job] = "printed"
  PROVE  TicketInv'
<1>1. /\ loops[1].job \in 1..Tickets /\ enqueued \in Nat /\ Len(waiting) \in Nat
      /\ loops[1].job = enqueued - Len(waiting)
  BY TicketParts DEF TicketInv, TicketTypes, InLine
<1>2. TicketTypes'
  <2>1. running' \in BOOLEAN /\ ~running'
    OBVIOUS
  <2>2. running' <=> Len(loops') = 1
    BY <2>1
  <2> QED  BY <2>1, <2>2 DEF TicketInv, TicketTypes
<1>3. InLine'
  BY <1>1 DEF TicketInv, InLine
<1>4. \A j \in 1..Tickets : Sent(j) <=> Sent(j)'
  BY DEF Sent
<1>5. Settled'
  <2>1. ASSUME NEW j \in 1..Tickets
        PROVE  /\ told'[j] = "printed" => Sent(j)
               /\ told'[j] = "failed" => j \in escalated'
               /\ j <= enqueued - Len(waiting) => j \in escalated' \/ told'[j] = "printed"
    <3>1. CASE j = loops[1].job
      BY <3>1
    <3>2. CASE j # loops[1].job
      <4>1. told'[j] = told[j] /\ (j <= enqueued - Len(waiting) => j <= enqueued - Len(waiting) - Len(loops))
        BY <1>1, <3>2
      <4> QED  BY <4>1 DEF TicketInv, Settled
    <3> QED  BY <3>1, <3>2
  <2>2. enqueued' - Len(waiting') - Len(loops') = enqueued - Len(waiting)
    BY <1>1
  <2> QED  BY <1>4, <2>1, <2>2 DEF Settled
<1> QED  BY <1>2, <1>3, <1>5 DEF TicketInv

\* Somebody is told of what failed.
LEMMA TicketEscalated == ASSUME TicketInv, NEW l \in DOMAIN loops, Queue!Escalate(l) PROVE TicketInv'
<1>1. /\ UNCHANGED <<waiting, enqueued, sends, told>>
      /\ l = 1 /\ Len(loops) = 1 /\ loops[1] \in Loop /\ TicketTypes
      /\ escalated' = escalated \union {loops[1].job} /\ loops[1].job \in 1..Tickets
  BY TicketParts DEF Queue!Escalate, TicketInv, TicketTypes
<1>2. ASSUME Queue!Goes(l, [loops[l] EXCEPT !.step = "failed"]), UNCHANGED <<running, broken>>
      PROVE  TicketInv'
  <2>1. PICK to : to = [loops[1] EXCEPT !.step = "failed"]
    OBVIOUS
  <2>2. to \in Loop /\ to.job = loops[1].job /\ to.step = "failed"
    BY <1>1, <2>1, LoopRecords DEF TicketSteps
  <2>3. loops' \in Seq(Loop) /\ Len(loops') = 1 /\ loops'[1] = to
    BY <1>1, <1>2, <2>1, <2>2, LoopMoves
  <2> QED  BY <1>1, <1>2, <2>2, <2>3, LoopSteps
<1>3. ASSUME loops' = Queue!Drop(l), running' = FALSE, broken' = TRUE PROVE TicketInv'
  <2>1. loops' \in Seq(Loop) /\ Len(loops') = 0
    BY <1>1, <1>3, LoopEnds
  <2>2. /\ told \in [1..Tickets -> {"none", "printed", "failed"}] /\ escalated \subseteq 1..Tickets
        /\ \A j \in 1..Tickets : told[j] = "printed" => Sent(j)
    BY DEF TicketInv, TicketTypes, Settled
  <2>3. broken' \in BOOLEAN /\ broken'
    BY <1>3
  <2> QED  BY <1>1, <1>3, <2>1, <2>2, <2>3, LoopOver
<1> QED  BY <1>2, <1>3 DEF Queue!Escalate

\* onDone, and the next ticket or none.
LEMMA TicketDone == ASSUME TicketInv, NEW l \in DOMAIN loops, Queue!Done(l) PROVE TicketInv'
<1>0. l = 1 /\ Len(loops) = 1 /\ loops[1] \in Loop /\ loops[1].job \in 1..Tickets /\ TicketTypes
  BY TicketParts DEF TicketInv, TicketTypes
<1>1. /\ UNCHANGED <<enqueued, sends, escalated, broken>>
      /\ l = 1 /\ Len(loops) = 1 /\ loops[1] \in Loop /\ TicketTypes
      /\ loops[1].job \in 1..Tickets /\ loops[1].step \in {"printed", "failed"}
      /\ told' = [told EXCEPT ![loops[1].job] = loops[1].step]
  BY <1>0 DEF Queue!Done
<1>2. /\ told \in [1..Tickets -> {"none", "printed", "failed"}]
      /\ waiting \in Seq(1..Tickets) /\ Len(waiting) \in Nat /\ enqueued \in 0..Tickets
      /\ escalated \subseteq 1..Tickets /\ loops[1].job = enqueued - Len(waiting)
      /\ loops[1].step = "printed" => Sent(loops[1].job)
      /\ loops[1].step = "failed" => loops[1].job \in escalated
      /\ \A i \in 1..Len(waiting) : waiting[i] = enqueued - Len(waiting) + i
      /\ Len(waiting) + Len(loops) <= enqueued
      /\ running = TRUE
  BY <1>1, TicketParts DEF TicketInv, TicketTypes, InLine, Settled
<1>3. /\ told' \in [1..Tickets -> {"none", "printed", "failed"}]
      /\ told'[loops[1].job] = loops[1].step
      /\ \A j \in 1..Tickets : j # loops[1].job => told'[j] = told[j]
  BY <1>1, <1>2
<1>4. ASSUME waiting = <<>>, loops' = Queue!Drop(l), running' = FALSE, UNCHANGED waiting PROVE TicketInv'
  <2>1. loops' \in Seq(Loop) /\ Len(loops') = 0
    BY <1>1, <1>4, LoopEnds
  <2>2. Len(waiting) = 0
    BY <1>4, EmptySeq
  <2>3. broken' \in BOOLEAN
    BY <1>1 DEF TicketTypes
  <2>4. /\ UNCHANGED <<waiting, enqueued, sends>> /\ (Len(waiting) > 0 => broken')
        /\ escalated \subseteq escalated' /\ escalated' \subseteq 1..Tickets
    BY <1>1, <1>2, <1>4, <2>2
  <2>5. /\ told'[loops[1].job] = "printed" => Sent(loops[1].job)
        /\ told'[loops[1].job] = "failed" => loops[1].job \in escalated'
        /\ loops[1].job \in escalated' \/ told'[loops[1].job] = "printed"
    BY <1>1, <1>2, <1>3
  <2> QED  BY <1>1, <1>3, <1>4, <2>1, <2>3, <2>4, <2>5, LoopOver
<1>5. ASSUME waiting # <<>>, Queue!Goes(l, Queue!Printing(Head(waiting))), waiting' = Tail(waiting), UNCHANGED running
      PROVE  TicketInv'
  <2>1. /\ Head(waiting) \in 1..Tickets /\ Head(waiting) = waiting[1] /\ Len(waiting) >= 1
        /\ waiting' \in Seq(1..Tickets) /\ Len(waiting') = Len(waiting) - 1
        /\ \A i \in 1..Len(waiting') : waiting'[i] = waiting[i + 1]
    <3>1. Len(waiting) >= 1
      BY <1>2, <1>5, EmptySeq
    <3>2. /\ Head(waiting) \in 1..Tickets /\ Tail(waiting) \in Seq(1..Tickets)
          /\ Len(Tail(waiting)) = Len(waiting) - 1
          /\ \A i \in 1..Len(Tail(waiting)) : Tail(waiting)[i] = waiting[i + 1]
      BY <1>2, <1>5, HeadTailProperties
    <3>3. Head(waiting) = waiting[1]
      BY <1>2, <3>1
    <3> QED  BY <1>5, <3>1, <3>2, <3>3
  <2>2. PICK to : to = Queue!Printing(Head(waiting))
    OBVIOUS
  <2>3. to \in Loop /\ to.job = waiting[1] /\ to.step \in {"send", "escalate"}
    BY <2>1, <2>2, PrintingLoop
  <2>4. loops' \in Seq(Loop) /\ Len(loops') = 1 /\ loops'[1] = to
    BY <1>1, <1>5, <2>2, <2>3, LoopMoves
  <2>5. /\ enqueued' - Len(waiting') = enqueued - Len(waiting) + 1
        /\ Len(waiting') + Len(loops') <= enqueued' /\ Len(waiting') \in Nat
        /\ waiting[1] = enqueued - Len(waiting) + 1
    BY <1>1, <1>2, <2>1, <2>4
  <2>6. TicketTypes'
    <3>1. running' \in BOOLEAN /\ broken' \in BOOLEAN /\ (running' <=> Len(loops') = 1)
      BY <1>1, <1>2, <1>5, <2>4 DEF TicketTypes
    <3> QED  BY <1>1, <1>2, <1>3, <2>1, <2>4, <3>1 DEF TicketTypes
  <2>7. InLine'
    <3>1. /\ \A i \in 1..Len(sends) : sends[i] <= enqueued - Len(waiting) /\ sends[i] \in Nat
          /\ \A i, j \in 1..Len(sends) : i < j => sends[i] <= sends[j]
      BY TicketParts DEF TicketInv, InLine
    <3>2. \A i \in 1..Len(sends') : sends'[i] <= enqueued' - Len(waiting')
      BY <1>1, <1>2, <2>5, <3>1
    <3>3. \A i \in 1..Len(waiting') : waiting'[i] = enqueued' - Len(waiting') + i
      BY <1>2, <2>1, <2>5
    <3> QED  BY <1>1, <2>3, <2>4, <2>5, <3>1, <3>2, <3>3 DEF InLine
  <2>8. \A j \in 1..Tickets : Sent(j) <=> Sent(j)'
    BY <1>1 DEF Sent
  <2>9. Settled'
    <3>1. ASSUME NEW j \in 1..Tickets
          PROVE  /\ told'[j] = "printed" => Sent(j)
                 /\ told'[j] = "failed" => j \in escalated
                 /\ j <= enqueued - Len(waiting) => j \in escalated \/ told'[j] = "printed"
      <4>1. CASE j = loops[1].job
        BY <1>1, <1>2, <1>3, <4>1
      <4>2. CASE j # loops[1].job
        <5>1. told'[j] = told[j] /\ (j <= enqueued - Len(waiting) => j <= enqueued - Len(waiting) - Len(loops))
          BY <1>1, <1>2, <1>3, <4>2
        <5> QED  BY <5>1 DEF TicketInv, Settled
      <4> QED  BY <4>1, <4>2
    <3>2. enqueued' - Len(waiting') - Len(loops') = enqueued - Len(waiting)
      BY <1>1, <1>2, <2>4, <2>5
    <3>3. loops'[1].step # "printed" /\ loops'[1].step # "failed"
      BY <2>3, <2>4
    <3> QED  BY <1>1, <2>8, <3>1, <3>2, <3>3 DEF Settled
  <2> QED  BY <2>6, <2>7, <2>9 DEF TicketInv
<1> QED  BY <1>4, <1>5 DEF Queue!Done

\* Every step of a printer's queue keeps its invariant.
LEMMA TicketStep == TicketInv /\ [Queue!Next]_Queue!queueVars => TicketInv'
<1>1. TicketInv /\ UNCHANGED Queue!queueVars => TicketInv'
  BY DEF Queue!queueVars, TicketInv, TicketTypes, InLine, Settled, Sent
<1> QED  BY <1>1, TicketEnqueued, TicketSent, TicketAgain, TicketEscalated, TicketDone DEF Queue!Next

\* What the invariant says of the queue.
LEMMA TicketsShow == TicketInv => Queue!TypeOK /\ Queue!OneTicketAtATime
<1> SUFFICES ASSUME TicketInv PROVE Queue!TypeOK /\ Queue!OneTicketAtATime
  OBVIOUS
<1>1. /\ enqueued \in Nat /\ Len(waiting) \in Nat /\ Len(loops) \in {0, 1}
      /\ DOMAIN sends = 1..Len(sends) /\ DOMAIN waiting = 1..Len(waiting) /\ DOMAIN loops = 1..Len(loops)
      /\ Len(loops) = 1 => loops[1] \in Loop
      /\ \A i \in 1..Len(waiting) : waiting[i] = enqueued - Len(waiting) + i
      /\ Len(loops) = 1 => loops[1].job = enqueued - Len(waiting)
  BY TicketParts DEF TicketInv, TicketTypes, InLine
<1>2. Queue!TypeOK
  <2>1. \A l \in DOMAIN loops : loops[l].job \in 1..Tickets /\ loops[l].attempt \in 1..Tries
    BY <1>1, LoopParts
  <2> QED  BY <2>1 DEF TicketInv, TicketTypes, Queue!TypeOK, Queue!Numbers
<1>3. ASSUME NEW j \in 1..Tickets, j \notin escalated
      PROVE  \/ told[j] = "printed" \/ enqueued < j
             \/ \E i \in DOMAIN waiting : waiting[i] = j
             \/ \E l \in DOMAIN loops : loops[l].job = j
  <2>1. CASE j <= enqueued - Len(waiting) - Len(loops)
    BY <1>3, <2>1 DEF TicketInv, Settled
  <2>2. CASE j > enqueued - Len(waiting) /\ j <= enqueued
    <3>1. j - (enqueued - Len(waiting)) \in 1..Len(waiting)
      BY <1>1, <2>2
    <3>2. waiting[j - (enqueued - Len(waiting))] = j
      BY <1>1, <3>1
    <3> QED  BY <1>1, <3>1, <3>2
  <2>3. CASE Len(loops) = 1 /\ j = enqueued - Len(waiting)
    BY <1>1, <2>3
  <2> QED  BY <1>1, <2>1, <2>2, <2>3
<1>4. /\ Len(loops) <= 1
      /\ \A i, j \in DOMAIN sends : i < j => sends[i] <= sends[j]
      /\ \A j \in 1..Tickets : /\ told[j] = "printed" => \E i \in DOMAIN sends : sends[i] = j
                               /\ told[j] = "failed" => j \in escalated
  BY <1>1 DEF TicketInv, InLine, Settled, Sent
<1>5. waiting # <<>> => loops # <<>> \/ broken
  <2>1. waiting # <<>> => Len(waiting) > 0
    BY <1>1, EmptySeq DEF TicketInv, TicketTypes
  <2>2. Len(loops) = 1 => loops # <<>>
    BY EmptySeq
  <2> QED  BY <2>1, <2>2 DEF TicketInv, InLine
<1> QED  BY <1>2, <1>3, <1>4, <1>5 DEF Queue!OneTicketAtATime, Queue!Numbers

\* Tickets reach the printer one at a time and in the order enqueued, and of each
\* one it is known what became of it (queue.ts), for any number of tickets and
\* attempts, whichever have no printer.
THEOREM OneTicketAtATimeAlways == Queue!Spec => [](Queue!TypeOK /\ Queue!OneTicketAtATime)
BY TicketsBegin, TicketStep, TicketsShow, PTL DEF Queue!Spec

\* The printer of MCJobs is a printer.
LEMMA PrinterPart == PartsSpec => Queue!Spec
<1>1. PartsInit => Queue!Init
  BY DEF PartsInit
<1>2. [PartsNext]_partsVars => [Queue!Next]_Queue!queueVars
  BY DEF PartsNext, partsVars, TaskNext, ScanNext, CacheNext, RateNext, PrinterNext, WorkersNext,
     queueVars, Queue!queueVars
<1> QED  BY <1>1, <1>2, PTL DEF PartsSpec, Queue!Spec

----------------------------------------------------------------------------
(* Side by side *)

\* Behind the requests, what an invalidation was told of is gone, no window lets
\* more through than the limit and who is refused is told when to come back
\* (cache.ts, rate-limit.ts), for any keys, lifetimes, limits, windows and costs.
THEOREM RedisHelpersHoldAlways == PartsSpec => []RedisHelpersHold
<1>1. Redis!TypeOK /\ Redis!InvalidatedIsGone /\ Redis!RateTyped /\ Redis!RateIsHonest => RedisHelpersHold
  BY DEF RedisHelpersHold
<1> QED  BY <1>1, CachePart, InvalidatedIsGoneAlways, RatePart, RateIsHonestAlways, PTL

\* And what comes due is dispatched once and not missed, and no job is lost, done
\* twice or given up in silence (scanner.ts, queue.ts, worker.ts), for any items,
\* windows, locks, ids, workers and attempts.
THEOREM MomentsAndJobsAlways == PartsSpec => []EachMomentOnce
<1>1. Scan!TypeOK /\ Scan!EachMomentOnce /\ Work!TypeOK /\ Work!JobsAreAccounted => EachMomentOnce
  BY DEF EachMomentOnce
<1> QED  BY <1>1, ScanPart, EachMomentOnceAlways, WorkPart, JobsAreAccountedAlways, PTL

\* What the jobs run checks of a printer's queue: all of its property in every
\* behaviour but one that asks how a ticket is set.
THEOREM TicketsInTurnAlways == PartsSpec /\ part # "ticket" => []OneTicketAtATime
<1>1. PartsInit /\ part # "ticket" => question.kind = "none"
  BY DEF PartsInit
<1>2. question.kind = "none" /\ [PartsNext]_partsVars => (question.kind = "none")'
  BY DEF PartsNext, partsVars, TaskNext, ScanNext, CacheNext, RateNext, PrinterNext, WorkersNext
<1>3. Queue!TypeOK /\ Queue!OneTicketAtATime /\ question.kind = "none" => OneTicketAtATime
  BY DEF OneTicketAtATime
<1> QED  BY <1>1, <1>2, <1>3, PrinterPart, OneTicketAtATimeAlways, PTL DEF PartsSpec
=============================================================================
