---------------------------- MODULE RedisHelpers ----------------------------
(***************************************************************************)
(* packages/redis.  cache.ts: entries computed from one datum and carrying *)
(* its tag, and the tag invalidated whenever the datum changes.  Each      *)
(* command is atomic in Redis, and a pipeline of them is not.              *)
(* rate-limit.ts: the sliding window of one key, as the sorted set the     *)
(* script keeps.  The script is atomic.                                    *)
(***************************************************************************)
EXTENDS Naturals, FiniteSets, Functions, FiniteSetsExt

CONSTANTS
  Readers, Keys,
  Lifetimes,       \* the ways entries may be given a ttl: [Keys -> Nat \ {0}]
  MaxVersion,      \* bound on the changes of the datum
  MaxClock,        \* bound on time
  Limit, Window,
  Costs,           \* what requests may count for; 0 is peek()
  Second,          \* milliseconds in a second
  MaxMoment        \* bound on time

VARIABLES
  datum,           \* its version, in the database
  ttl,             \* how long each entry is asked to live
  cache,           \* the entries: the version each was computed from, and until when
  tagged, tagUntil, \* the set of the tag, and when it expires
  reader,          \* where each getOrSet() is
  purge,           \* where invalidateTag() is
  clock,
  crossed,         \* keys that were being filled while an invalidation went on
  moment,          \* the clock, in milliseconds
  members,         \* the sorted set: how many of its members have each score
  spent,           \* what the requests let through at each moment counted for
  free             \* the first moment that a caller refused was told to come back at,
                   \* if none was let through since; 0 for nobody

cacheVars == <<datum, ttl, cache, tagged, tagUntil, reader, purge, clock, crossed>>

Idle == [step |-> "idle"]
Missing == [version |-> 0, until |-> 0]

TypeOK ==
  /\ datum \in 1..MaxVersion /\ clock \in 0..MaxClock
  /\ \A k \in Keys : cache[k].version \in 0..datum /\ cache[k].until \in Nat
  /\ tagged \subseteq Keys /\ crossed \subseteq Keys /\ tagUntil \in Nat
  /\ DOMAIN reader = Readers

Init ==
  /\ datum = 1 /\ clock = 0 /\ ttl \in Lifetimes
  /\ cache = [k \in Keys |-> Missing] /\ tagged = {} /\ tagUntil = 0
  /\ reader = [r \in Readers |-> Idle] /\ purge = Idle
  /\ crossed = {}

Goes(r, to) == reader' = [reader EXCEPT ![r] = to]
Filling(k) == \E r \in Readers : reader[r].step # "idle" /\ reader[r].key = k
Hit(k) == cache[k].version # 0

----------------------------------------------------------------------------
\* Redis drops what has expired.
Tick ==
  /\ clock < MaxClock
  /\ clock' = clock + 1
  /\ cache' = [k \in Keys |-> IF cache[k].until <= clock' THEN Missing ELSE cache[k]]
  /\ tagged' = IF tagUntil <= clock' THEN {} ELSE tagged
  /\ tagUntil' = IF tagUntil <= clock' THEN 0 ELSE tagUntil
  /\ UNCHANGED <<datum, ttl, reader, purge, crossed>>

\* getOrSet() that misses: "several callers missing at once will all compute".
Miss(r, k) ==
  /\ reader[r] = Idle /\ ~Hit(k)
  /\ Goes(r, [step |-> "compute", key |-> k])
  /\ crossed' = IF purge # Idle THEN crossed \union {k}
                ELSE IF Filling(k) THEN crossed ELSE crossed \ {k}
  /\ UNCHANGED <<datum, ttl, cache, tagged, tagUntil, purge, clock>>

Compute(r) ==
  /\ reader[r].step = "compute"
  /\ Goes(r, [step |-> "store", key |-> reader[r].key, version |-> datum])
  /\ UNCHANGED <<datum, ttl, cache, tagged, tagUntil, purge, clock, crossed>>

\* set(): SET with its ttl ...
Store(r) ==
  /\ reader[r].step = "store"
  /\ LET k == reader[r].key IN
     cache' = [cache EXCEPT ![k] = [version |-> reader[r].version, until |-> clock + ttl[k]]]
  /\ Goes(r, [step |-> "tag", key |-> reader[r].key])
  /\ UNCHANGED <<datum, ttl, tagged, tagUntil, purge, clock, crossed>>

\* Mutant of TagLives: set when the tag is new, and left alone after.
TagLivesFirst(k) == IF tagged = {} THEN clock + 2 * ttl[k] ELSE tagUntil

\* ... and then SADD and PEXPIRE: "the tag set outlives its members".
TagLives(k) == clock + 2 * ttl[k]

Tag(r) ==
  /\ reader[r].step = "tag"
  /\ tagged' = tagged \union {reader[r].key}
  /\ tagUntil' = TagLives(reader[r].key)
  /\ Goes(r, Idle)
  /\ UNCHANGED <<datum, ttl, cache, purge, clock, crossed>>

\* The reader dies on the way.
Die(r) ==
  /\ reader[r] # Idle
  /\ Goes(r, Idle)
  /\ crossed' = crossed \union {reader[r].key}
  /\ UNCHANGED <<datum, ttl, cache, tagged, tagUntil, purge, clock>>

\* The datum changes, and its owner invalidates: SMEMBERS ...
Change ==
  /\ purge = Idle /\ datum < MaxVersion
  /\ datum' = datum + 1
  /\ purge' = [step |-> "members"]
  /\ crossed' = crossed \union {k \in Keys : Filling(k)}
  /\ UNCHANGED <<ttl, cache, tagged, tagUntil, reader, clock>>

ReadMembers ==
  /\ purge.step = "members"
  /\ purge' = IF tagged = {} THEN Idle ELSE [step |-> "delete", keys |-> tagged]
  /\ UNCHANGED <<datum, ttl, cache, tagged, tagUntil, reader, clock, crossed>>

\* ... and a DEL of each, and of the set, with whatever has joined it since.
DeleteMembers ==
  /\ purge.step = "delete"
  /\ cache' = [k \in Keys |-> IF k \in purge.keys THEN Missing ELSE cache[k]]
  /\ purge' = [step |-> "untag"]
  /\ UNCHANGED <<datum, ttl, tagged, tagUntil, reader, clock, crossed>>

Untag ==
  /\ purge.step = "untag"
  /\ tagged' = {} /\ tagUntil' = 0
  /\ purge' = Idle
  /\ UNCHANGED <<datum, ttl, cache, reader, clock, crossed>>

Next ==
  \/ Tick \/ Change \/ ReadMembers \/ DeleteMembers \/ Untag
  \/ \E r \in Readers : Compute(r) \/ Store(r) \/ Tag(r) \/ Die(r) \/ \E k \in Keys : Miss(r, k)

Spec == Init /\ [][Next]_cacheVars

----------------------------------------------------------------------------
\* Once an invalidation is over, no entry computed before it is served, unless
\* the entry was being filled while one went on, or its filling was cut off --
\* and unless entries of the tag are given different lifetimes: its set takes
\* that of the last one added, and a short-lived one makes it expire before
\* the others do.
InvalidatedIsGone ==
  purge = Idle /\ (\A j, k \in Keys : ttl[j] = ttl[k]) =>
    \A k \in Keys \ crossed : Hit(k) => cache[k].version = datum

----------------------------------------------------------------------------
(* The rate limit *)

rateVars == <<moment, members, spent, free>>

Moments == 0..MaxMoment

RateTyped ==
  /\ moment \in Moments /\ free \in Nat
  /\ members \in [Moments -> Nat] /\ spent \in [Moments -> Nat]

Nothing == [m \in Moments |-> 0]

RateInit == moment = Window /\ members = Nothing /\ spent = Nothing /\ free = 0

\* ZREMRANGEBYSCORE key 0 now-window leaves what is younger, and ZCARD counts it:
\* the members of one millisecond are distinct, by their number and math.random().
\* PEXPIRE drops the key when the last of them is as old as that.
Live(m) == m > moment - Window
Used == SumFunctionOnSet(members, {m \in Moments : Live(m)})
Scores == {m \in Moments : Live(m) /\ members[m] > 0}

\* ZRANGE key 0 0 WITHSCORES, and whole seconds until that member is gone; of an
\* empty set, which refuses what counts for more than the limit, as many
\* seconds as the window has milliseconds.
CeilSeconds(ms) == ((ms + Second - 1) \div Second) * Second
RetryAfter == IF Scores = {} THEN Window * Second ELSE CeilSeconds(Min(Scores) + Window - moment)

Trimmed == [m \in Moments |-> IF Live(m) THEN members[m] ELSE 0]

Consume(cost) ==
  /\ IF Used + cost > Limit
     THEN /\ members' = Trimmed
          /\ free' = IF free # 0 /\ free < moment + RetryAfter THEN free ELSE moment + RetryAfter
          /\ UNCHANGED spent
     ELSE /\ members' = [Trimmed EXCEPT ![moment] = @ + cost]
          /\ spent' = [spent EXCEPT ![moment] = @ + cost]
          /\ free' = IF cost = 0 THEN free ELSE 0
  /\ UNCHANGED moment

Pass ==
  /\ moment < MaxMoment
  /\ moment' = moment + 1
  /\ UNCHANGED <<members, spent, free>>

\* reset(): "for an operator lifting a block".
Reset ==
  /\ members # Nothing
  /\ members' = Nothing /\ spent' = Nothing /\ free' = 0
  /\ UNCHANGED moment

RateNext == Pass \/ Reset \/ \E cost \in Costs : Consume(cost)

RateSpec == RateInit /\ [][RateNext]_rateVars

----------------------------------------------------------------------------
\* No stretch of time as long as the window lets through more than the limit,
\* "which keeps the rate honest" across what a fixed window takes for a
\* boundary; and when whoever was refused comes back as told, and nobody was let
\* through since, there is room: for one, and not for all a greater cost asks.
RateIsHonest ==
  /\ SumFunctionOnSet(spent, {m \in Moments : m > moment - Window /\ m <= moment}) <= Limit
  /\ free # 0 /\ moment >= free => Used < Limit
=============================================================================
