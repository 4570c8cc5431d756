------------------------------- MODULE MCJobs -------------------------------
(***************************************************************************)
(* What runs behind the requests, side by side as in MCServices: the       *)
(* scheduler of a task, the scanner of a window, the tagged cache and the  *)
(* rate limit in Redis, the jobs of a queue and their workers, the queue   *)
(* of a printer, and the tickets in it.                                    *)
(* Two replicas, an interval of two units, a lock of three and a run of    *)
(* one; one item and one job, two entries of one tag.                      *)
(***************************************************************************)
EXTENDS Scheduler, TLC

CONSTANT Nobody

\* Of Scanner, RedisHelpers and JobQueue, whose names for these they have; `Ahead`,
\* `ScanLockTtl`, `ScanFaults` and `MaxInstant` are Scanner's Window, LockTtl and
\* MaxFaults, and the MaxMoment of the rate limit.
CONSTANTS
  Items, Ahead, ScanLockTtl, DedupeTtl, MaxPass, MaxMoment, ScanFaults, MaxMoves,
  Keys, Lifetimes, MaxVersion, MaxClock,
  Limit, Window, Costs, Second, MaxInstant,
  Ids, Workers, Handling, Attempts, MaxAsks, MaxCuts, MaxStalls,
  Tickets, Tries, Absent          \* PrintQueue's Jobs, Attempts and Unknown

\* A claim outlives the window and the longest a pass takes: it is for four
\* windows, unless given.  Every ttl is of some milliseconds; a limit lets one
\* through at least, and a job or a ticket is tried once at least.
ASSUME ScanAssumption ==
  /\ {Ahead, ScanLockTtl, DedupeTtl, MaxPass, MaxMoment, ScanFaults, MaxMoves} \subseteq Nat
  /\ Ahead + MaxPass <= DedupeTtl
ASSUME WorkAssumption ==
  /\ IsFiniteSet(Workers)
  /\ Attempts \in Nat \ {0} /\ {MaxAsks, MaxCuts, MaxStalls} \subseteq Nat
ASSUME CacheAssumption ==
  /\ Lifetimes \subseteq [Keys -> Nat \ {0}] /\ Lifetimes # {}
  /\ MaxVersion \in Nat \ {0} /\ MaxClock \in Nat
ASSUME RateAssumption ==
  /\ Limit \in Nat \ {0} /\ Window \in Nat \ {0} /\ Second \in Nat \ {0} /\ Costs \subseteq Nat
  /\ MaxInstant \in Nat /\ Window <= MaxInstant
ASSUME TicketsAssumption == Tickets \in Nat /\ Tries \in Nat \ {0}

VARIABLES
  part,
  moment, itemDue, since, lock, claims, pass, scanFaults, moves, found, dispatched, sent,
  failed, dead, lastFind, late,
  datum, ttl, cache, tagged, tagUntil, reader, purge, clock, crossed,
  instant, members, spent, free,
  waiting, loops, running, enqueued, sends, told, escalated, broken,
  jobs, worker, ready, hooks, ends, letters, left, asks, cuts,
  question

scanVars == <<moment, itemDue, since, lock, claims, pass, scanFaults, moves, found, dispatched,
              sent, failed, dead, lastFind, late>>
cacheVars == <<datum, ttl, cache, tagged, tagUntil, reader, purge, clock, crossed>>
rateVars == <<instant, members, spent, free>>
queueVars == <<waiting, loops, running, enqueued, sends, told, escalated, broken>>
jobVars == <<jobs, worker, ready, hooks, ends, letters, left, asks, cuts>>
partsVars == <<part, vars, scanVars, cacheVars, rateVars, queueVars, jobVars, question>>

MCNames == {<<"task">>} \union {<<"interval", i>> : i \in 0..(MaxTime \div Interval)}
\* Entries of one lifetime, and of two.
MCLifetimes == {[k \in {"a", "b"} |-> 2], [k \in {"a", "b"} |-> IF k = "a" THEN 2 ELSE 1]}
Symmetry == Permutations(Replicas)

Scan == INSTANCE Scanner WITH
  Window <- Ahead, LockTtl <- ScanLockTtl, MaxFaults <- ScanFaults, due <- itemDue, faults <- scanFaults

Redis == INSTANCE RedisHelpers WITH
  Readers <- Replicas, MaxMoment <- MaxInstant, moment <- instant

Work == INSTANCE JobQueue

Queue == INSTANCE PrintQueue WITH Jobs <- Tickets, Attempts <- Tries, Unknown <- Absent

\* Texts of letters, spaces, ends of lines, accents and what is in no table, on
\* paper about as wide, after a ticket that left the printer in any style.
Texts(chars, n) == UNION {[1..k -> chars] : k \in 0..n}
Styles == {{}, {"big"}, {"bold", "centre"}}
TicketQuestions ==
  [kind : {"ticket"}, width : 2..5, before : Styles,
   call : [does : {"line", "heading", "bold", "centred"},
           text : Texts({"a", " ", "\n"}, 5) \union Texts({"b", "accent", "cup", " "}, 3)]]
  \union [kind : {"columns"}, label : Texts({"a", " "}, 4), value : Texts({"a", " "}, 4), width : 2..6]

PartsInit ==
  /\ part \in {"task", "scan", "cache", "rate", "printer", "ticket", "workers"}
  /\ IF part = "ticket" THEN question \in TicketQuestions ELSE question = [kind |-> "none"]
  /\ Init /\ Scan!Init /\ Redis!RateInit /\ Queue!Init /\ Work!Init
  /\ Redis!Init /\ (part # "cache" => ttl = CHOOSE t \in Lifetimes : TRUE)

TaskNext == part = "task" /\ Next /\ UNCHANGED <<part, scanVars, cacheVars, rateVars, queueVars, jobVars, question>>
ScanNext == part = "scan" /\ Scan!Next /\ UNCHANGED <<part, vars, cacheVars, rateVars, queueVars, jobVars, question>>
CacheNext == part = "cache" /\ Redis!Next /\ UNCHANGED <<part, vars, scanVars, rateVars, queueVars, jobVars, question>>
RateNext == part = "rate" /\ Redis!RateNext /\ UNCHANGED <<part, vars, scanVars, cacheVars, queueVars, jobVars, question>>
PrinterNext == part = "printer" /\ Queue!Next /\ UNCHANGED <<part, vars, scanVars, cacheVars, rateVars, jobVars, question>>

WorkersNext == part = "workers" /\ Work!Next /\ UNCHANGED <<part, vars, scanVars, cacheVars, rateVars, queueVars, question>>

PartsNext == TaskNext \/ ScanNext \/ CacheNext \/ RateNext \/ PrinterNext \/ WorkersNext

PartsSpec == PartsInit /\ [][PartsNext]_partsVars

----------------------------------------------------------------------------
\* scanner.ts: what comes due is dispatched once, and not missed (Scanner);
\* queue.ts and worker.ts: no job is lost, done twice or given up in silence, but
\* where a process ended or lost its lock (JobQueue).
EachMomentOnce ==
  /\ part = "scan" => Scan!TypeOK /\ Scan!EachMomentOnce
  /\ part = "workers" => Work!TypeOK /\ Work!JobsAreAccounted

\* cache.ts: what an invalidation was told of is gone; rate-limit.ts:
\* no window lets through more than the limit, and whoever is refused is told
\* when to come back (RedisHelpers).
RedisHelpersHold ==
  /\ part = "cache" => Redis!TypeOK /\ Redis!InvalidatedIsGone
  /\ part = "rate" => Redis!RateTyped /\ Redis!RateIsHonest

\* queue.ts: one ticket prints at a time, in order, and nobody waits for an
\* answer for ever; escpos.ts: and it prints whole, whatever came before it
\* (PrintQueue).
OneTicketAtATime ==
  /\ part = "printer" => Queue!TypeOK /\ Queue!OneTicketAtATime
  /\ question.kind = "ticket" => Queue!TicketIsWhole(question.call, question.width, question.before)
  /\ question.kind = "columns" => Queue!ValueIsRead(question.label, question.value, question.width)
=============================================================================
