# Mortar: a verification project

TLA+ models of the Mortar packages (`src/packages/*`): what happens in them at
the same time, in what order, and on what fails half way; the arithmetic, texts
and formats they work out; TLC runs that check them on small instances; and
theorems about them that TLAPS proves for every instance.

Mortar is a set of TypeScript libraries for NestJS services: several Node
processes (replicas) share one Postgres and one Redis. Inside a process the
actors are asynchronous flows that give way to one another at every `await`;
between processes they meet in row locks, unique indexes, Redis keys, and
messages; and most packages speak to somebody else's service (a payment
provider, a calendar, a phone), which has no transaction in common with the
database. That is where the hazards are, and what the modules keep: a statement
sent to Postgres or Redis, or a call to a provider, is a step; everything between
two of them in one flow is part of a step.

Contents: 1 inventory, 2 the modules and the code, 3 the runs, 4 fairness,
5 what is proved, 6 where code and documentation disagree, 7 what is not
modelled, 8 the plan.

## 1. Inventory

### Shared state, several actors

| package | state it keeps | operations | interacts with | what is hard | what makes it correct |
|---|---|---|---|---|---|
| `idempotency` | one row per (tenant, scope, key): claim id, fingerprint, status, response, claimed and expiry times; in memory, one `ClaimInFlight` per request (`settled`, `done`) | `begin`, `markDone`, `complete`, `release`, `purgeExpired`; the interceptor that drives them | joins the commits of the handler's own transactions (`joinCommits` of `database`) | two claims at once, takeover of a slow or dead claim, a crash between any two statements, a store or a release that fails | work is done once per key while the key is kept; a replay repeats an answer that was earned; everybody is answered |
| `database` | the stack of transaction scopes of a flow (AsyncLocalStorage): callbacks, participants; Postgres's transaction | `runInTransaction` (nested: a savepoint; or independent), `afterCommit`, `joinCommits`, `bindTransactionManager` | everything that writes; `idempotency` and `tenancy` take part in commits | nesting, partial rollback, a callback that throws, a failing COMMIT, a connection lost during COMMIT | callbacks run for committed work only, in order, once, and none is lost |
| `redis` | keys with a token and an expiry (locks), values and tag sets (cache), sorted sets (rate windows) | `RedisLocks` acquire, release, `withLock`; `RedisCache` get, set, invalidate by tag; the rate window | used by `jobs`, `http`, and products | a lock that expires under its holder; a value stored after its invalidation; sets that expire before their members; requests of one millisecond | only the holder releases; an invalidated value is not served; no window lets through more than the limit |
| `jobs` | in Redis: the task's lock, the claim of each interval, the claim of each scanned item, the queue; in memory: timers, ticks and jobs under way | `TaskScheduler` register/tick/stop; `WindowScanner.scan`; enqueue, worker, dead letters, close | `RedisLocks`; BullMQ | several replicas, early and late timers, slow ticks, a process that dies holding a lock or a job, Redis calls that fail after they were done | one run per interval; no two runs at once; the task is taken up again; an item is dispatched once; a job is never lost |
| `realtime` | per channel: a numbered backlog (Redis sorted set) that expires after a quiet day; per connection: subscriptions, heartbeat; per key: its connections under a cap; per client: its position (`ChannelCursor`), its socket, poller and timers | publish, fan-out, subscribe/resume, live delivery, polling, gap and resync; connect, supersede, ping, drain | Redis, sockets, the products' state | publishers in several processes, broadcasts out of order, events overtaking the replay, reconnects, overlapping polls, a backlog trimmed or forgotten, sockets each end has a different view of | no event is stepped over in silence; a client catches up; the cap holds |
| `game-economy` | ledger entries, lots (what is left of each credit), draws, cached balance rows | purchase, grant, spend, refund, reverse, forget, reconcile | `database` | lock per currency but key per holder; a refund that reads before it locks; reversals and replays; forget during a write | ledger = lots = cached balance; draws explain every debit; refunds are whole; replays answer what was asked |
| `vouchers` | voucher rows with a cached balance, entries | issue, redeem, release, adjust, cancel, expire, reconcile | `database` | the sweep reads without the lock the tills take | balance = sum of entries; nothing given back that was not taken; cancel is final |
| `billing` | subscriptions, customers, usage rows with a reported mark; at the provider: keys, intents, calculations | checkout, assign, quantity, cancel, webhooks; `pay`; record, recount, `reportUsage` | payment provider | usage recorded between a sweep's read and its UPDATE; webhooks late, twice, out of order; a row written before the money moves; lost answers; a day turned into a moment | who is entitled bought it, and pays once; a reference is charged once; a day is marked only when told and billed once |
| `commerce` | payments, refunds, kept cards, payouts | take, capture, release, refund, webhooks; saveCard, confirmCard, forgetCard | payment provider | a crash after the provider has charged; two refunds at once; a card forgotten half way | what is booked is what was charged; a card the provider holds has its one row |
| `comms` | suppressions, deliveries, mail received | send with fallbacks, refusals, STOP and START, receipts, erase, rekey | mail and SMS providers | counting read-modify-write against an unsubscribe; fallbacks to another channel | whoever refused is not written to again; mail received is taken in once and read whole |
| `messaging` | templates of tenants, credits | resolve, edit, render; buy, debit, refund | `comms`, providers | two edits of one template; a debit of an amount that was checked before | words are the tenant's; credit is counted once |
| `files` | file rows with a status, objects in a store | request upload, `confirm`, erase, abandoned sweep, attach, read; seal, archive, print | object store, scanner | two confirms, a crash while scanning, an erase during it, bytes replaced while the signed URL works | nothing unscanned is ever ready; what opens is what was sealed |
| `calendars` | connections, links between entries and external events | connect, push, pull, remove, disconnect, refresh | calendar providers | two pushes of one entry, a token refreshed while the connection is consented to again | our copies are known to be ours; busy time is what the provider says |
| `auth` | users, memberships, roles, sessions, one-time tokens, second factors | login, password, status, grant, rotate, revoke, issue, consume, enrol, check | `database`, OAuth providers | rows read, then saved after an await; a delete and an insert without a transaction | a revoked session stays revoked; a token or code is used once; wrong ones are counted; nobody holds a role that is gone |
| `workflow` | transition log, public links, revocations | transition, reverse; issue, reissue, revoke, verify, sweep | `database` | two reissues at once; a visit that began before one | a replaced link opens nothing; the log is a path of the machine |
| `printing` | the queue in memory | enqueue, drain, `onFailure`, `onEscalate` | printers | a callback that throws leaves the drain loop; an answer that is unknown | one ticket prints at a time, in order, and nobody waits for ever |
| `wallet` | passes, device registrations; at Google: objects and a token | register, unregister, update, push, serve; build, sign, verify; write an object | APNs, Google | two changes in a second, a push lost or answered for an older token | a copy comes current; a pass that is built verifies, a changed one does not |
| `tenancy`, `context`, `audit` | the tenant and context of a flow; the setting of a transaction; the trail | `runInTenantTransaction`, repository reads and writes, middleware; record, purge | `database`, row security of Postgres | pooled connections, nesting, a transaction that rolls back under a flow | a tenant's rows are its own; the trail says what changed |

### Worked out, without shared state

`money`, `quantity` and `rates` are exact arithmetic (rounding, allocation, tax,
conversion, the feeds of three banks); `clock` reckons spans, zones and months;
`csv` reads and writes sheets of other people; the wallet, files, comms and
printing packages have formats (passes, archives, mail, tickets) whose writer and
reader must agree. Each is asked every question of a bounded set (section 3).

`config`, `http`, `links`, `observability` and `phone` are plumbing: parsing of an
environment, mapping of errors, URLs, logs and numbers. They keep no state that a
property is about and are not modelled.

## 2. The modules and the code

`map` in `PROJECT.json` gives each definition its lines. Modules that hold the
state of one component:

| module | of | actors | what a step is |
|---|---|---|---|
| `Idempotency` | `idempotency/src/{service,claim-in-flight,interceptor}.ts` | HTTP requests that carry a key, the purge, the clock | one statement of `begin`, `markDone`, `complete`, `release` with the row locks it takes and the commit that shows it; a handler's open, write, commit, return, throw; a crash |
| `OncePerKey` | what that package promises | – | doing work for the first time, forgetting a key |
| `IdempotencyProofs` | theorems about `Idempotency`, and that it implements `OncePerKey` | | |
| `Transaction` | `database/src/transaction.ts` | one asynchronous flow, its nested scopes | open, write, fail, catch, register a callback, release or roll back, each participant, COMMIT with its outcomes (done, refused, done and never answered), each callback |
| `ServicesProofs` | theorems about `Transaction` and about who is let in, in `MCServices` | | |
| `RedisHelpers` | `redis/src/{cache,rate-limit}.ts` | readers and an invalidation; requests of one key | one command of Redis; one run of the script |
| `Scheduler` | `jobs/src/scheduler.ts`, `redis/src/lock.ts` | the ticks of every replica | one Redis call (SET NX PX, the release script), expiry; a timer that fires; a run that ends; a crash |
| `Scanner` | `jobs/src/scanner.ts` | overlapping passes, the product | lock, find, claim, dispatch, release of one pass; an item made, moved, cancelled; a crash |
| `JobQueue` | `jobs/src/{queue,worker}.ts`; BullMQ external | who enqueues, workers of several processes | enqueue, start, an outcome, a stall, close and its forcing, a dead letter written, a process cut off |
| `JobsProofs` | theorems about `Scheduler`, `RedisHelpers`, `Scanner`, `JobQueue`, `PrintQueue` and what `MCJobs` checks of them | | |
| `Realtime` | `realtime/src/{client,gaps}.ts`, `nestjs/socket`, `nestjs/polling.ts`, `nestjs/redis-backlog.ts`, `server/resume.ts` | publishers, the gateway, a client with its socket and polls | one Redis call, one frame sent or received |
| `RealtimeProofs` | theorems about `Realtime` | | |
| `Gateway` | `realtime/src/nestjs/socket/index.ts`, `client.ts` (connections) | pages, the server, a drain | one event at one end: accepted, superseded, pinged, closed, heard of; a timer |
| `GameEconomy` | `game-economy/src/nestjs/game-economy.service.ts` | callers, each in a transaction | taking the balance row, the reads and the plan, the writes with the commit |
| `EconomyProofs` | theorems about `GameEconomy` | | |
| `Vouchers` | `vouchers/src/nestjs/vouchers.service.ts` | tills, sweeps | taking the row, the writes with the commit; for the sweep each statement |
| `VouchersProofs` | theorems about `Vouchers` | | |
| `SumTheorems` | lemmas on sums over finite sets, which the ledgers' proofs cite | | |
| `Metering` | `billing/src/nestjs/billing.service.ts` (usage) and `providers/stripe.ts` (`reportUsage`) | the product, overlapping sweeps, the provider, the clock | one upsert; a sweep's read, each call, each UPDATE; a failure or lost answer anywhere |
| `MeteringProofs` | theorems about `Metering` | | |
| `Subscriptions` | `billing/src/nestjs/billing.service.ts`, `providers/stripe.ts` | desks, the buyer, the provider, its webhooks | one statement, one call, one event delivered |
| `Purchases` | `billing/src/providers/stripe.ts` (`pay`) | callers with one reference, the provider | each of the three calls under its key, or its loss |
| `Payments` | `commerce/src/nestjs/commerce.service.ts`, `providers/stripe.ts` | clerks, the provider, its webhooks | the read, the call, the write of each operation; a crash between; `CardsSpec` the same for kept cards |
| `Messages` | `messaging/src/{templates.service,template,gsm,credits.service,pumping}.ts` | callers with transactions of their own | one statement; a commit or rollback |
| `Comms` | `comms/src` | clerks sending, mail received, receipts, sweeps, erasure | one statement, one call of a port |
| `Files` | `files/src/files.service.ts` | the browser, confirmations, sweeps and erasures | one statement, one call of the bucket or scanner; a crash |
| `SecondFactor`, `AuthTokens` (sessions, and tokens sent by mail), `Accounts`, `Roles` | `auth/src/services/*.ts` | requests that meet | one statement, with the row it reads or the whole row it saves; hashing between them |
| `CalendarSync` | `calendars/src` | callers that connect, push, pull, remove; the owner of the calendar | one statement, one call of the provider |
| `Links`, `TransitionLog` | `workflow/src/{links,machine}` | callers and visitors; requests of two actors | one statement; a move with its row |
| `Tenancy` | `tenancy/src`, `context/src`, `audit/src` | flows over a pool of connections | a statement, `BEGIN` with its binding, a savepoint, an end, a context entered or left |
| `PrintQueue` | `printing/src/queue.ts` | the loop of one queue | enqueue, send, its answer, a callback |
| `AppleWallet` | `wallet/src/apple/webservice.ts`, `nestjs/registrations.service.ts` | a device, its pushes, the product | one request of the device, one push or answer |
| `GoogleWallet` | `wallet/src/google` | writers of one object | PUT, POST, a token fetched, an answer lost |

Modules, or halves of modules, that are operators with a reference to hold them
to, and no state: `Sums` (money, rates, quantity, tiers, proration, deposits,
segments), `Clock` (clock, working days, quiet hours), `Sheets` (csv), `Archive`
(files), and the latter halves of `AppleWallet` (Apple's passes), `Comms` (addresses,
MIME, ports, receipts, words that stop), `CalendarSync` (busy time),
`Messages` (rendering, alphabets, pumping), `Tenancy` (the trail), `PrintQueue`
(ESC/POS) and `GoogleWallet` (payloads, links).

How state corresponds, where it is not plain from the comments of the module:

- **Idempotency.** `row[k]` is the committed row of the unique index, `lock[k]`
  the open transaction that holds it FOR UPDATE (or by its UPDATE), `tx[r]` the
  handler's own transaction, `settled` and `done` the two flags of
  `ClaimInFlight`. The row inserted by `begin` is identified by the request:
  each request begins once, and a retry is another request. The fingerprint is a
  value compared, the response is only present or absent.
- **Transaction.** `scopes` is the AsyncLocalStorage stack; each scope holds what
  it wrote and the callbacks it was given, and hands both to its parent as
  `releaseInto` does. Work is numbered, and a callback is named by the work
  written before it, so that "the callback is about this work" can be said.
  `broken` is Postgres's aborted state. Begin, COMMIT and its failures are
  external (TypeORM and Postgres).
- **Scheduler.** A tick is a record of who, which interval and which step;
  `redis` maps lock names to a token and an expiry, as Redis keeps them.
- **Realtime.** An event is its number. What is held is an unbroken run, so its
  bounds say all of it: `first`, `oldest` and `latest`, all 0 where there is no
  channel. `Expire` forgets a channel, and the next event begins a run above all
  that was ever handed out (`top`) and not next to it, as the clock of Redis does.
  `base` is where the client joined, `taken` what was given to the product,
  `covered` how far an `onResync` made it fetch afresh, `leapt` how far it was moved
  on from 0, `announced` the last event that was fanned out, and `unread` what an
  answer promised whose events were forgotten before they were read; they are
  observations, not state of the code, and no guard reads them apart from
  recording `base` once.
- **Scanner.** A claim is on an item, as `keyFor` is documented (`scanner.ts:26-33`:
  the booking and which reminder it is, without the moment), so it goes with the
  item when that is moved. `found`, `dispatched`, `sent`, `failed`, `dead` are observations.
- **RedisHelpers.** The sorted set of the rate limit is the number of members at each
  score: members of one millisecond are distinct, by their number and
  `math.random()`, as the integration test has it (20 at once, 5 let through).
  The time to come back is that of the script: from the oldest score, and the
  window where there is none.
- **Files.** `url` says whether the signed URL still works: bytes may be put through it
  whatever became of the file since (`s3.storage.ts:163-212`). `taken` and `late` record
  whether they came after a confirmation had read those it scans.
- **CalendarSync.** A call holds the row it read until it has a token; what the provider
  gave is written in a step of its own (`SaveTokens`), with the refresh token if one
  came. `inTurn` records whether a consent or a disconnection overtook one.
- **GameEconomy.** The tables are functions: entries by number, what is left of
  each lot, draws by (debit, lot), balance by currency. Nothing a transaction
  writes is seen until it commits and Postgres's unique indexes and CHECKs decide
  at the writes, so writes and commit are one step with the refusals in its guard.
- **Vouchers.** As above for the tills. The sweep holds no lock when it reads, so
  its read, its INSERT (which shares the row through the foreign key), its count
  and its commit are four steps.
- **Metering.** `usage[d]` is the row of day `d` of one tenant and meter, with
  `reported_at` as set or not; `sweep[s]` is a `reportUsage()`: the rows it has
  read and not gone through yet, and whether it is about to call the provider or
  to mark the row. `known` and `billed` are the provider's books (external, as
  `stripe.ts` describes them: a reference is recognised over a rolling day).
  `DatesAreText` is what the driver does with the DATE a call takes its moment from;
  where it is a date object, no call has a moment and each throws. `late` and `forgotten` are observations that no guard reads: the days that moved after
  a sweep had read them, and those of which a reference has lapsed.
- **The services.** A call is a record of its step and of the rows it holds from
  its reads: that it may save them later over what others wrote meanwhile is the
  point. A provider is a function from keys to what it did under them. Variables
  that a comment calls an observation (`crossed`, `met`, `superseded`,
  `undisturbed`, `asked` and such) are read by properties only.

What composes: `Scheduler` has the locks of Redis in it and `Realtime` the
backlog; `Idempotency` has in it the part of `Transaction` it relies on (a
participant is the last statement before COMMIT, and its `onCommitted` follows
it), which `Transaction`'s `ToldOfCommits` shows for any nesting; `Tenancy` has the
part of it that binds a tenant. `MCServices`, `MCSales`, `MCJobs` and `MCHoldings`
put components side by side for the runs.

## 3. The runs

A part of the system that is one component with its own actors has few states,
and the parts do not read one another's rows. Four runs therefore hold several
side by side: `part` names the component a behaviour is about, its actions alone
are enabled and the variables of the others stay as they began, so that the
states of the parts add up and do not multiply. `question` is a member of a set of
inputs for what has no state: the first state of such a behaviour has the input,
and the invariant says what the operators answer for it. Where `part` is not the
component of a property, or `question` of another kind, the property has nothing
to say.

| run | asks | states |
|---|---|---|
| `idempotency` (`MCIdempotency`) | is work done once per key, are replays earned, is everybody answered | 248,751 |
| `idempotency_overrun` | does a handler's first commit always take its key along, also where handlers outlive the timeout: **violated**, see 6 | |
| `transaction` (`MCServices`) | do callbacks and participants hear of what committed, in order, and of nothing else, but where the answer of a COMMIT is lost (`CallbackFollowsCommit`, `CallbacksAreKept`, `ToldOfCommits`); is what is ready scanned and whole (`ReadyIsScannedAndWhole`); does what lets somebody in let in those it should (`AccessIsKept`); are our copies in a calendar known (`OneCopyKnown`); are links, lifecycles and trails kept (`WorkflowIsKept`) | 1.6 million |
| `transaction_swallow` | `CallbackFollowsCommit` where work swallows an SQL error: **violated**, see 6 | |
| `scheduler` (`MCJobs`) | one run per interval, no two at once, taken up after a crash (`OncePerInterval`, `NoSecondRun`, `TaskResumes`); is an item dispatched once and a job accounted for (`EachMomentOnce`); do cache and rate window hold (`RedisHelpersHold`); is one ticket printed at a time, and whole (`OneTicketAtATime`) | 2.8 million |
| `realtime` (`Realtime`) | is an event ever stepped over in silence by a client that stands at one (`NoEventSteppedOver`); does a client catch up with what was announced (`CatchesUp`) | 1.9 million |
| `realtime_empty` | is none stepped over by any client (`NoSilentLoss`), in a channel that was empty: **violated**, see 6 | |
| `game_economy` (`MCHoldings`) | do ledger, lots, draws and cached balances agree; are answers true (`LedgerAccounts`, `LotsAreKept`, `AnsweredTruly`); do passes, writes and sockets come current (`DevicesAreServed`) | 1.0 million |
| `vouchers` (`MCSales`) | does the cache agree and is a release covered (`BooksBalance`), is a cancellation final (`NothingAfterCancel`); are the books those of the provider (`BooksAreReal`); is a plan bought (`EntitledBySale`); is a refusal to be written to honoured, and mail received kept (`StopIsHonoured`); are sums, sheets and words right (`SumsAgree`), and times (`TimeAgrees`); is a day marked only when told (`OwedUntilTold`), and billed once and whole if it stood still (`SettledIsBilled`) | 1.2 million |
| `vouchers_sweeps` | does the cache agree where two sweeps overlap: **violated**, see 6 | |
| `metering_moved` (`Metering`) | is a marked day billed for what was counted: **violated**, see 6 | |
| `metering_dates` | is everything counted reported, where a DATE is answered as a date object: **violated**, see 6 | |

The instances, and why they are enough:

| component | instance | which lets |
|---|---|---|
| `Idempotency` | a request, its repeat, and the key reused with another payload; 2, 1 and 0 transactions; timeout 1, ttl 3, clock to 4 | one hold, one wait and one arrive; the clock run past the timeout (takeover) and the ttl (purge), so each branch of `evaluate()` is taken. Keys do not interact: no step reads two rows |
| `Transaction` | 2 statements, 3 transactions, 3 levels, 1 participant | a savepoint inside a savepoint, and an independent transaction inside a savepoint, hand callbacks on; that the number of statements does not matter is proved |
| `Scheduler` | 2 replicas, interval 2, lock 3, timers 1 early, 1 from start to claim, runs of up to 1, one failing Redis call, clock to 6 | two ticks interleave, of two replicas and of one; three intervals and the lapse of a claim |
| `Scanner` | 2 replicas, 1 item, window 2, a pass of up to 1, dedupe 3 (the least allowed), to moment 6, one fault, two changes of plan | passes overlap, a lock lapse under one; an item be made, and then moved past its claim, moved while its claim lasts, or cancelled; a claim lapse; a dispatch fail and be tried again |
| `JobQueue` | 1 id, a worker that handles it and one that does not, 2 attempts, 3 enqueues, 2 cuts, 2 stalls | a job fail for good, be handed over, enqueued again before and after it is forgotten |
| `RedisHelpers`, cache | 2 readers, 2 keys of one tag, clock to 4 | a fill begun before an invalidation end after it, the second fill keep the tag |
| `RedisHelpers`, rate limit | limit 3, window 4, costs 0, 1, 2 and 4, to moment 13 | three windows, requests of one millisecond, one that no window has room for, refusals with a time |
| `PrintQueue` | 4 jobs, 3 attempts, one unknown outcome; tickets of up to 5 characters on 2 to 5 columns | a retry, an escalation and a throwing callback with jobs behind them; every way a line can break |
| `Realtime` | a channel that has an event; numbers from 3 to 6, a backlog of 2, two of: a socket lost, an append unanswered, the channel forgotten; one poll | the backlog be trimmed past a client, or be forgotten and numbered afresh; a poll in flight across a reconnection answer late, and a gap told in it move the client back |
| `Gateway` | 2 pages, one of which polls, cap 1, 3 sockets, one trouble | a page supersede another and come back, each end ignorant of the other |
| `GameEconomy` | 2 callers, 2 currencies, 3 keys, 4 entries, 5 offers | a grant, a purchase, a spend over both and a refund or reversal; a replay, and a key in two currencies |
| `AppleWallet` | 1 device; 1 pass that changes across seconds, 2 within one; 2 pushes | a change between a listing and its fetch, a 410 for an older token |
| `GoogleWallet` | 2 writers, 3 writes, lifetime 2, clock to 4 | two first writes meet; a token lapse under one |
| `Vouchers` | 2 tills, 1 sweep, 2 subjects, amounts 1 and 2, 5 entries | issue, redeem, release, redeem and expire |
| `Payments` | 2 clerks, 1 reference of price 2, 4 calls; cards: 6 calls | take, a lost answer, its retry, and a refund of each half at once; save, confirm, forget and again |
| `Subscriptions` | 2 desks, 2 plans, 2 requests to the provider | an abandoned checkout and one that is paid, events of both in any order |
| `Purchases` | 2 callers of one reference, 4 buyers, 2 prices, 3 calls | an answer lost and asked again with the same and with a corrected address |
| `Messages` | 2 callers, 5 edits, 5 entries | a resolve overtaken by two edits; a debit, its refund and another between check and debit |
| `Metering` | 2 overlapping sweeps, 2 days, figures 0 and 1, clock to 2; `metering_moved` has figures to 2, `metering_dates` 1 sweep and 1 day | a failure at the first day leave the second; a day counted again (0, 1 and back); a reference lapse |
| `Comms` | 2 clerks, 2 channels with a fallback, 1 message received, 2 refusals, 3 calls | a refusal and a STOP meet while a send is under way |
| `Files` | 2 confirmations, 1 sweep or erasure, 5 contents, the URL used any number of times | bytes replaced before, between and after the two, the row go under either |
| `SecondFactor` | 2 requests, window 1, lock after 2, clock to 2, 3 secrets | the same code tried at once, and at both ends of its window |
| `AuthTokens`, sessions | 2 requests, idle 1, life 2, 4 tokens | a rotation and a revocation between a read and its save |
| `AuthTokens`, mail | 2 requests, 3 tokens | a token clicked twice while it is superseded twice |
| `Accounts` | logins one at a time with 2 passwords, clock to 2; 2 at once with 1, clock to 1 | a lock come, lapse and come again; failures of two logins written over one another |
| `Roles` | 2 callers, 2 keys, one of them shipped, 2 roles, 2 memberships | a role replaced while it is granted, a member leave and return |
| `CalendarSync` | 3 calls one after the other with 3 copies; 2 calls at once with 2 | push, move and pull follow one another; consent, refresh and disconnect meet |
| `Links` | 2 callers; 3 short links, or 3 signed ones and 1 visitor | reissues meet, a visit begin before one |
| `TransitionLog` | 7 moves with a loop and a join among 3 states, 6 rows | a reversal of a reversal, a terminal state left |
| `Tenancy` | 2 flows, 2 tenants, 1 connection, 2 statements | the connection pass from one tenant to the other with a transaction nested in each |

The questions: fractions from -25/8 to 25; splits over up to four ratios; texts of
up to three digits and four decimals, numbers in each convention of separators;
days over a year of four months, each wall clock around a change of zones from -12
to 13 hours; feeds of up to two days with a quote that is odd in each way; passes
with groups at and past their limits; archives of up to two files with one field
changed; mails nested past the depth that is read. They reach past every limit in
the code on both sides, with the limits themselves made small where the operator
takes them as a parameter (the dictionary of units, the ceiling of an archive) and
the code's own where it does not (colours 0 to 255, 70 and 160 characters of a
text).

Assumptions of a run are in its constants or in an ASSUME:

- `idempotency`: `HandlersInTime`, every request ends within `lockTimeoutMs`
  (5 minutes by default; a ten second HTTP timeout is usual). `LockTimeout < Ttl`.
- `scheduler`: `MaxDelay <= Interval` and `MaxDelay + MaxRun < LockTtl`, which the
  options' documentation asks for; no time passes between the end of a run and
  its release, which the lock's length leaves ample room for.
- `vouchers`: of usage, that the driver answers a DATE as text (`DatesAreText`): the two
  properties of it are of days that reach the provider. `metering_dates` asks the other
  case. Of subscriptions, that the provider keeps its idempotency keys for ever.
- `game_economy`: between the read and the delete of `forget()` no credit arrives
  in a currency the holder never had; the service's comment at lines 301-307 says
  that the caller sees to this.
- `transaction`: work does not go on in a scope whose statement failed
  (`SwallowSqlErrors = FALSE`).

Where the code lets a case through that a property would refuse, the property
excepts that case by an observation kept for it, its comment says so, and section 6
lists it. `CHECK_DEADLOCK FALSE` where the system really stops: every request has
ended, the clock or another bound is reached, a question has been answered.
Symmetry (of callers, replicas, tills, subjects and keys: they enter no arithmetic
and no order) is used only in runs without liveness.

Every property of every passing run has a mutant of the code it breaks under
(a dropped guard, a lock not taken, a claim too short, a swapped order); the
mutated forms stand in the modules before the definitions they mutate, and say so.

## 4. Fairness

- `Idempotency`: `WF(Progress(r))` for each request: Node runs every ready
  continuation and Postgres answers every statement. `SF(Return \/ Throw)`: a
  handler, however many transactions it opens, ends; strong, because opening a
  transaction disables returning. Nothing obliges a request to arrive, a handler
  to write, a process to crash, or the clock to run.
- `Realtime`: `WF(Broadcasts \/ Gateway \/ Receive)`: some broadcast, handler or frame
  gets through while there is any, which is what processes that run and a socket that
  is open give; and `WF(Open)`: a client without a socket goes on trying. Nothing
  obliges anybody to publish, to fan out what was appended, to poll, to be answered, to
  lose a socket or to forget a channel.
- `Scheduler`'s `TaskResumes` is a bounded response, said as an invariant over the
  clock, with no fairness: a bound on each delay stands in the guard of `Pass`.
- `Metering` (for `metering_dates` alone; what the other runs ask of it is safety): a sweep that is not under way reads again (the nightly job of the
  product). `SF` of telling and of marking each day: the job does not fail at the
  same step of the same day for ever. It is needed, as one row that fails ends the
  whole sweep, and those after it wait for the next. Nothing obliges the product to
  count or a tenant to sign up.

- The components in `MCServices`, `MCSales`, `MCJobs` and `MCHoldings` state no
  fairness: what is asked of them is safety, said also of ends ("a worker that
  closed in its own time left nothing half done", "nobody waits for ever" of the
  printer as: no job waits while no loop is there to take it).

## 5. What is proved

Of `Idempotency`, for any number of requests, keys and payloads, any timeouts with
`LockTimeout < Ttl`, any number of transactions per handler. However long handlers
run:

- `TypeCorrect`: `Spec => [](TypeOK /\ MarkedRows)`. `TypeOK` alone is not
  inductive: the commit of a marked transaction writes to the row, so that row must
  be there, which `MarkedRows` says: a transaction that has marked its row still
  holds its lock.
- `ReplayAlwaysEarned`: `Spec => []ReplayIsEarned`, from `Earned`: a completed row
  is that of a request that did its work or stored its response, and a transaction
  that marked its row owns it, so that the commit completes no other.

Where `HandlersInTime`:

- `Inductive`: `Spec => []IInv`. `IInv` is `TypeOK`, `KeySpent` and
  - `MarkedRows`, as above;
  - `Times`: nobody's clock reading is in the future, and who is not past its
    handler began no longer than the timeout ago (from the guard of `Tick`);
  - `Rows`: a row holds its inserter's payload and times;
  - `Handlings`: a handler under way owns its row, which is in progress until its
    first commit: the step that uses it is `MarkDone`, whose UPDATE then finds it;
  - `Transactions`: so no transaction ever missed its row;
  - `Locks`: a row that a `begin` holds may be taken over: expired, or a claim
    older than the timeout. With `Times`, it is not that of a handler under way,
    and with `KeySpent` not one whose work is kept;
  - `Flags`: `done` says exactly that work was committed;
  - `Completed`: no row stands in progress for a request that has done its work, so
    that neither `Store` nor `Release` changes what a key stands for, also after
    it has expired.
- `KeySpentAlways`, from `KeySpent` in `IInv`: the key stands, completed, for work
  done under it until it expires.
- `KeyAndWorkCommitTogether`: `Spec => KeyAndWorkTogether`. Only `Commit` adds
  work; by `Transactions` it is of a marked transaction, and by `Handlings` the
  row it completes is the handler's own.
- `Implements`: `Spec => WorkOncePerKey`, the refinement of `OncePerKey`. A lemma
  for each action that writes rows says which step of `OncePerKey` it is: `Claim`
  and `Purge` forget keys whose time is up (`Locks`), the first `Commit` is `Work`
  (`Times` gives that the key is still kept), `Store`, `Release` and later commits
  are none (`Completed`), and `Tick` is `Pass`.

The run `idempotency` checks `IInv`'s consequences on its instance; the run
`idempotency_overrun` shows that the assumption on handlers is needed.

Of `Scheduler`, for any replicas, any clock, any interval, lock and delays with
`MaxDelay <= Interval` and `MaxDelay + MaxRun < LockTtl` (the bounds that the guard
of `Pass` puts on a tick before it decides and on a run):

- `TypeCorrect`: `Spec => []TypeOK`.
- `Inductive`: `Spec => []IInv`. `IInv` is `TypeOK`, `OncePerInterval` and
  - `Tokens`: no two ticks hold the same lock token, so that the release script of
    one never deletes the lock of another;
  - `Delays`: a tick that has not decided began within the interval it read, at most
    `MaxDelay` ago;
  - `Holds`: whoever claims or runs holds the lock, which expires later than the
    time that may take: at the claim, `MaxDelay` of `LockTtl` are gone at most;
  - `Claimed`: once an interval ran, its claim stands until two intervals after its
    start. `OncePerInterval` alone is not inductive: a tick could find a claim
    expired. By `Delays` a tick that read interval `i` decides before
    `(i + 2) * Interval`, and until then the claim is there.
- `OncePerIntervalAlways`, `NoSecondRunAlways`: no interval runs twice; `Claim`
  starts no run while another goes on, as both would hold the one lock.
- `TaskResumesAlways`: `Spec => []TaskResumes`, from a second invariant, `RInv`, that
  bounds the clock by the timers: `Timers` (a timer is set at most an interval ahead
  and never long past), `Lapses` (a held lock expires a `LockTtl` after it was last
  taken) and `Resuming` (while Redis answers, whoever serves has a timer due, or a
  tick at the lock, within an interval of that expiry). The last is what makes it
  inductive: a tick that found the lock taken goes back to its timer, and only
  `Lapses` says that it was still right to.

Of `Scanner`, for any replicas, items, moments and changes of plan where
`Ahead + MaxPass <= DedupeTtl` (`ScanAssumption`: a claim outlives the window
that finds an occurrence and the longest pass; the default of four windows,
`scanner.ts:92`, allows a pass to take three):

- `EachMomentOnceAlways`: an occurrence is dispatched at most once, an item not again
  while the last time is remembered, wherever it was moved, and what a pass found is
  dispatched, or tried again. `ScanInv` has, besides the types, `InHand` (a pass has in
  hand what it found no longer than `MaxPass` ago), `HandHolds` (who is about to send an
  item holds the claim on it, and for long enough), `Remembered` (what was sent is
  claimed until no pass could have that occurrence in hand), `ClaimedFor` (every claim
  is somebody's who sent, is about to, or died: what a failed dispatch leaves behind is
  no claim, which is what `NoneForgotten` needs of an item that is skipped),
  `NoneForgotten` and `NoGap` (what an earlier window should have had was found).
  `EachMomentOnce` by itself says nothing of the claims that keep it.

Of `JobQueue`, for any finite set of workers, any jobs and any `Attempts > 0`:

- `JobsAreAccountedAlways`, from `WorkInv`, an account of each job: `Standing` says
  where a job is for each of its states, and `Adds` that every attempt that began is
  counted as made, stalled or under way, and every failure as a letter told, lost
  or still borne by a hook. These are sums of cardinalities: that one worker more
  or less adds or takes one is a lemma.

Of `PrintQueue`, for any number of tickets and of attempts and any printers missing
(`TicketsAssumption`):

- `OneTicketAtATimeAlways`, from `TicketInv`: `InLine` (the tickets waiting are the
  last enqueued, in order; the one before them is the loop's, and nothing sent comes
  after it; tickets without a loop wait only after a callback threw) and `Settled`
  (of every ticket before that one, it was told that it printed, and then it was
  sent, or somebody was told that it did not). `OneTicketAtATime` bounds what was sent
  by what waits, which a step that takes the next ticket keeps only by `InLine`.
- `TicketsInTurnAlways` says it of `MCJobs`, in every behaviour that does not ask how a
  ticket is set. Lines are wrapped and columns cut by folds over their text: what
  those compute for every text is an induction over data and stays with TLC.

Of `RedisHelpers`, for any readers, keys, lifetimes, limits and windows:

- `InvalidatedIsGoneAlways`, from `CacheInv`: until an invalidation comes to it, an
  entry that stands is in the set of its tag or about to be put there (`Fresh`), as
  no entry outlives the set where lifetimes are equal (`Lives`).
- `RateIsHonestAlways`, from `RateInv`: the members of the sorted set that the window
  keeps are, score by score, all that was let through in it, however many came in one
  millisecond (`Counted`), and whoever was refused was told of a moment by which one of
  them at least is gone (`Told`).

`MomentsAndJobsAlways` and `RedisHelpersHoldAlways` say the same of `MCJobs`, whose
`PartsSpec` runs one part in each behaviour: they are the invariants
`EachMomentOnce` and `RedisHelpersHold` of the run `scheduler`, for every value of the
constants that its configuration sets.

Of `Metering`, for any sweeps, days, figures and clock, whatever fails or overlaps, and
whatever the driver makes of a DATE (`ASSUME MeteringAssumption PROVE ...`: the bounds are
numbers, and no row is no row):

- `TypeCorrect`: `Spec => []TypeOK`, which also says that a sweep holds rows that
  are there.
- `Inductive`: `Spec => []IInv`. `IInv` is `TypeOK`, `OwedUntilTold` and
  - `Markings`: the row a sweep is about to mark is of a day it told of. That a
    sweep holds one row per day is not part of `IInv`: the step of `Tell` gets by
    with the order of the days, by which the row marked next is of the day told;
  - `Readings`: what a sweep has read of a day that did not move is its figure;
  - `Bills`: a reference the provider knows stands for its day, and such a day, if
    it did not move, is billed its figure; one never told of is billed nothing.
- `OwedUntilToldAlways` and `SettledIsBilledAlways` from these: a second call for a
  day meets the reference of the first, and the first billed the figure.

`MCSales` checks the two properties with `Metering` as one of its parts, and assumes
`MeteringAssumption` of it.

Of `Transaction`, for any depth of scopes, any number of transactions, statements and
participants:

- `TypeCorrect`, from `Shape`: a savepoint is of the transaction of the scope below
  it, a transaction is newer than everything below it, and whoever commits or runs
  callbacks is in a scope that is a transaction.
- `CallbacksAreKeptAlways`: no callback of committed work is lost, none runs twice,
  and those of a transaction run in the order they were registered in. `Work` says
  where a callback waits (in the scope whose work it is about, or in the one it was
  released into) and `Order` that what waits in a scope rises and follows what waits
  below it in the same transaction: releasing a savepoint then appends.
- `CallbackFollowsCommitAlways`, `ToldOfCommitsAlways`, where `~SwallowSqlErrors`:
  what Postgres has given up (`broken`) is the innermost scope and on its way out
  (`Unbroken`), so the COMMIT that a participant or a callback follows kept the work.
  A participant is told only of what committed, and of all that did but where the
  answer of a COMMIT was lost: then `unanswered` has the transaction, the caller hears
  an error and nobody is told. Without the hypothesis both are false, which the run
  `transaction_swallow` shows:
  Postgres answers the COMMIT of an aborted transaction by rolling it back.

Of the parts of `MCServices` that say who is let in to what, for any number of
callers and of what each part has (`AccessIsKeptAlways`: `PartsSpec =>
[]AccessIsKept`, put together from the six below, each of which is a theorem about
the specification of its component; a lemma for each says that what a part does
among the others it does by itself):

- `SpentOnceAlways` (mailed tokens), from `MailInv`: whoever works holds a token that
  is live, alone (`Spending`: the row lock of `consumeWith()`), and of a token that
  may be spent no work was done yet (`Unspent`). That no work was done twice is not
  inductive without the latter.
- `EndedStaysEndedAlways` (sessions), from `SessionInv`: the token that each request
  is about to save is one that nobody else has and that nothing replaced
  (`FreshTokens`); once a session ended with no request holding its row, nobody
  holds a copy that could bring it back (`Over`).
- `CodesOnceAndCountedAlways` (second factor), from `FactorInv`: one request at a
  time holds the row, as it read it (`RowLocked`); the row tells which codes were
  used, through its last step and the recovery codes it has left, also of secrets
  enrolled since (`UsedUp`), and how many were wrong (`CountedWrong`).
- `LoginsKeepTheAccountAlways` (accounts), from `AccountInv`: unless a change crossed
  a login, every copy of the row has in it what was last set (`AsMeant`); unless
  logins met, the row counts the wrong passwords and whoever is about to save it
  counted one more or none (`CountedAll`).
- `GrantsAreMeantAlways` (roles), from `RoleInv`: no grant outlives its role or its
  membership (`GrantsStand`: the cascades), and rows change in one way at a time
  (`RowsStay`); while calls follow one another, what a call has looked up is still so
  (`Due`), and what is held is what was given but between the two statements of
  `setRoles()` (`InTurn`).
- `TenantsApartAlways` (tenancy, with the trail of `audit`), from `TenantInv`: no
  connection that is free is bound (`FreeIsUnbound`); a change the trail owes an
  entry for is in the scope that is open or committed (`Owing`), and in a scope
  every entry is of a change in it (`IsStack`), which is why a rollback takes both.

TLC checked each of these invariants on the run's instance before it was proved.

Of `Realtime`, for any backlog, any number of events, polls, reconnections, appends
unanswered and channels forgotten, and however many events there were before (none
included):

- `TypeCorrect`: `Spec => []TypeOK`, from `InStep`: the bounds of the backlog
  (`Numbered`), whatever is on its way names events that were appended (`UnderWay`),
  and a client stands somewhere from when it has joined (`Placed`).
- `NoEventSteppedOverAlways`: every event after the client's first position and up to
  its present one was given to the product, or covered by a fetch it was told to make,
  or passed in a step out of 0 (`leapt`). The lemma `NothingPassedOver` goes through each
  frame and each poll answer, however late: a client that stands at an event moves on
  to the next one, or is told. Without that exception it is false, as the run
  `realtime_empty` shows; and a channel that had events is no protection, as it may be
  forgotten (section 6).

Of `Vouchers`, for any tills, subjects, amounts and bound on the entries:

- `NothingAfterCancelAlways`: `Spec => NothingAfterCancel`, and
  `ReleasedWithinTakenAlways`: no subject is given back more than was taken for it,
  whatever sweeps overlap. Both from `RowHeld`: a till that holds the row has read
  it as it is (`Holding`), and a sweep's share of it keeps tills out (`Sweeping`).
- `BooksBalanceAlways` and `TypeCorrect` (the cached balance is the sum of the
  entries and stays between nothing and what was issued) where sweeps do not
  overlap (`LoneSweep`): then what a sweep has counted is still what there is
  (`Counted`). The run `vouchers_sweeps` shows that two sweeps break it.

`SumTheorems` are the lemmas on `SumFunctionOnSet` that the proofs about ledgers
cite: a sum over a finite set is an integer, is that of a part and one more,
of two parts apart, of equal functions, grows with what is summed. The community
modules define it by a fold whose recursion no installed prover can induct
on; here each is proved by its smallest counterexample, which the library's theorem
that the finite subsets of a set are well-founded gives.

Of `GameEconomy`, for any callers, currencies, keys and offers, either order of the
lots and any bound on the entries, from one invariant, `IInv`:

- `LedgerAccountsAlways`: `Spec => []LedgerAccounts`, which is what `reconcile()` looks
  for: the cached balance, the sum of the entries and what is left of the lots come to
  the same, every entry's balance is that of the entries up to it, and the draws
  account for every lot and every debit.
- `LotsAreKeptAlways`: a spend draws on no lot before those ahead of it are empty, and
  a purchase is given back once, by a refund only if it is whole.
- `AnsweredTrulyAlways`: an answer names an entry that was written for what was asked,
  also when it is a repeat; a reversal says truly what it took and what was spent.
- `TypeCorrect`: nothing kept is ever negative.

`IInv` is these, `Tables` (the links between entries, lots and draws),
`ReversedWhole` (a reversal left nothing of its purchase, and what it took is all that
spends had not) and, for each caller, `Standing`: where it has locked, it holds the row
of its currency and has read the balance as it is (`Reads`); what it has planned can
still be drawn (`Planned`); who forgets a holder has every row there is (`Alone`).
None of the properties is inductive without these: `Write` draws what was planned some
steps before, and only the lock says that the lots are still as they were. The proof
is in halves. What a step does to the books: `EnteredBooks` for a step that writes an
entry, `BooksStand` for one that does not. What it does to the callers: `StillKeeps`
for who steps aside, a lemma per action for who steps. `Allocated` is what
`allocate.ts` promises: its draws come to the amount, each within its lot, and none is
made on a lot before those ahead of it are exhausted.

The assumptions the proofs rest on are `KeysAssumption` and `TimesAssumption` of
`Idempotency`; `SchedulerAssumption` and `NamesAssumption` of `Scheduler`, with
`UnsetAssumption`: an absent key is no entry; `ScanAssumption`, `WorkAssumption`,
`CacheAssumption`, `RateAssumption` and `TicketsAssumption` of `MCJobs`; `MeteringAssumption` of
`Metering`, a hypothesis of its theorems, which `UsageAssumption` of `MCSales` has for its part;
`BoundsAssumption` of `Transaction`; `AmountsAssumption` and `RowsAssumption` of
`MCServices` (amounts are numbers, of failures, passwords and tokens there may be one,
and a row that is absent is no row); `RealtimeAssumption` of `Realtime`;
`VouchersAssumption` of `Vouchers`; `EconomyAssumption` of `GameEconomy`. TLC evaluates them in each run.

Only model-checked: every liveness property (fairness and ENABLED are out of the
prover's reach); what recursive definitions compute for every input (induction
over data is, too), so `Sums`, `Clock`, `Sheets`, `Archive` and the passes of `AppleWallet`
stay with TLC's bounded sets; and, so far, the modules that are not named above.

## 6. Where code and documentation disagree

With a run that shows it:

1. `claim-in-flight.ts:11-13`: "the key and that work commit together or not at
   all". `markDone()` never looks at how many rows it updated
   (`service.ts:191`): a handler that outlives the lock timeout has been taken over
   and commits its work under no key. Run `idempotency_overrun`.
2. `database/src/transaction.ts:159-161`: a callback "must not fire for work that
   then rolled back". If the work catches an error of its own SQL, Postgres turns
   COMMIT into a rollback without an error, and the callbacks run. Run
   `transaction_swallow`.
3. `realtime/src/client.ts:185-186`: a client at 0 "has been replayed everything
   the channel carried before this frame arrives". At 0 `offer()` takes any event
   for the first (`gaps.ts:68-71`), and a connection is live before its resume is
   answered: events before the first to arrive are skipped in silence. Run
   `realtime_empty`.
4. `vouchers.service.ts:69-71`: "the balance is their sum". Two sweeps that
   overlap write a voucher off twice. Run `vouchers_sweeps`.
5. `billing.service.ts:382-388`: "Only a day whose figure actually moved is owed
   again", and "the charge would be right". The sweep marks by `id` whatever the
   row says by then (516): usage counted since its read is marked reported and never
   told. And a day that moves after it was told goes out again under the same
   reference, which the provider drops while it knows it. Run `metering_moved`, where
   days do reach the provider.
6. `billing.service.ts:444`: the sweep "Tells the provider about everything counted and
   not yet reported." It reads a DATE column with a raw query, which `pg` answers as a
   JS Date, and makes a moment of it by appending a time to its text (508): an Invalid
   Date, which `stripe.ts:334` sends as NaN. The call is refused, the sweep ends, and the
   next one begins with the same row; the integration test's provider looks at neither
   the moment nor the reference. Run `metering_dates`.

Seen while modelling, without a run of their own. Where a property would refuse
the behaviour, it excepts it by name.

*State that several actors share*

- `database/src/transaction.ts:156-175`: a COMMIT that the server has done and whose
  answer is lost leaves work that is durable, an error for the caller, and no callback
  run and no participant told.
- `files/src/storage/s3.storage.ts:163-212`: the signed URL works for its five minutes
  whatever became of the file. Bytes put through it after the scan replace those of a
  file that is ready and not sealed (a sealed one no longer opens), and come back after
  an erasure.
- `calendars.service.ts:537-556`: a refresh writes its tokens to the row whatever that is
  by now. One that overlaps a new consent puts the older grant's tokens back, and one that
  overlaps `disconnect()` leaves tokens in a row that is disconnected, which the comment
  at 264-268 is against.
- `jobs/src/scanner.ts:148-160`: an item moved while the claim on it lasts is found at its
  new time and skipped, as the documented key does not hold the moment; the comment
  (73-76) has it that "anything rescheduled is found at its new time". A worker
  that dies between claim and dispatch leaves the item to wait out the dedupe time.
- `redis/src/rate-limit.ts:34-40`: the time to come back is when the oldest member leaves,
  which makes room for one: a request of a greater cost may be refused again then. One
  that costs more than the limit, of an empty set, is told the window in milliseconds
  where seconds are meant.
- `realtime/src/nestjs/redis-backlog.ts:43-57`: a client told a gap from a channel that was
  forgotten stands at 0, as does one that was there when it was: the next events may
  pass it by in silence, as in 3. An answer whose bounds were read before and whose
  events after it was forgotten says nothing, until the next event shows the gap.
- `comms.service.ts:526-541`: retention takes rows of either direction, so a mail that is
  delivered again after it is new once more, and its files are attached again.
- `auth/.../user.service.ts:142`: a login saves the row it read: a password set,
  or a status changed, since then is written back.
- `auth` roles: the entity's comments "Assigned automatically" and "At most one
  per scope" of the default role are kept by nothing.
- `billing.service.ts:165-168`: the row takes the plan before the payment, though
  the comment has it written when the money moved. `stripe`'s `incomplete` is
  read as active, by design and by a test.
- `calendars.service.ts:386-429`: a pull reads 14 days back and 90 ahead and takes
  every link outside that window for deleted: it makes another copy at each pull.
- `commerce.service.ts:413`: a second capture that fails writes its failure over a
  payment that was captured. `confirmCard()` does not ask whether the setup
  succeeded; a crash between detach and delete (335) leaves a row that
  `forgetCard()` cannot delete; two `saveCard()` before the first is confirmed make
  two customers.
- `redis/src/cache.ts:64`: a tag's set takes the lifetime of the last entry added,
  and may expire before an earlier member.
- `messaging/.../templates.service.ts:68`: the two reads of a resolve can answer
  with the product's words while the tenant moves its own from one language to the
  other. `canAfford()` and then `debit()` (`credits.service.ts:93`) is left to products.
- `comms`: rekey fails whole where a row under the new fingerprint exists already.
- `jobs/src/worker.ts:106`: `close()` does not wait for the dead-letter hook; a
  graceful close begun before Redis went down is not forced. "Enqueued twice
  runs once" holds while the earlier job is kept, 24 hours or 7 days.
- `realtime/src/client.ts:168-174`: the `onclose` of a socket that was stopped,
  heard after `start()`, sets the new socket to null.
- `tenancy/src/rls.ts:45-59` with `transaction.ts:117-121`: a tenant's transaction
  opened inside another joins it as a savepoint, and its tenant is not bound.
  `repository.ts:128-135`: `save()` of a row known only by its id writes another
  tenant's where the policies are not in force, against the comment at 121-127.
  `nest.ts:137-147`: a resolver that throws leaves the request without `next()`.
- `audit`: two purges at once may each read a short batch and both stop early;
  redaction stops at depth 8.
- `wallet/google/api.ts`: of two first writes the second POST is answered 409 and its
  payload is not written.

*Formats and sums*

- `calendars`: Microsoft's all-day events close the diary, though `google.ts` says
  that whole days are skipped.
- `clock/src/zone.ts:81`: the probes miss the offset before a gap in zones more than
  eleven hours ahead.
- `comms`: a prefix with a capital mints addresses that never parse
  (`address.ts:49-51`); a part that is no text, without a name or `attachment`, becomes text though
  `mime.ts:20-21` says otherwise; a boundary that begins with one two levels up
  swallows files (164); a multipart without boundary, or deeper than 20, is dropped
  in silence; "stop ." is not heard (`suppression.ts:73-77`); an answer of Resend
  that comes late is logged as failed though the message went (`resend.ts:139`); the
  id kept of a web push is its status code.
- `csv`: rows read after `parseCsv` are numbered short by the blank lines before
  them (`mapping.ts:139-142`); with '.' for decimals and thousands the point is lost.
- `files`: `readZip` believes the end record's count; years from 2108 and more than
  65535 entries throw a RangeError. Printed cards: the doc has the plan give up its
  space first, but a code left no space vanishes in silence; text at the least
  size may be wider than the card.
- `messaging`: transliteration may cost more than it saves ('…' and 'œ' become
  longer).
- `printing/src/escpos.ts`: `columns()` cuts with '…', which CP1250 as written here
  lacks, so '?' is printed, and throws for a value as wide as the paper; the
  `codePage` option changes what the printer is told, not the bytes.
- `quantity`: `convert()` answers for an unknown unit to itself though `canConvert`
  says no. `money`: `sum()` refuses where an intermediate sum overflows.
- `rates`: a multiplier that is no power of ten shifts by a fraction of a place
  (BNR, MNB); a quote in a currency not registered has the whole feed refused
  (`bnr.ts:62`); `shiftDecimal` loses zeros for very negative places
  (`decimal.ts:25-30`); the ECB's values are not trimmed.
- `wallet`: `validateContent` passes an empty barcode encoding, and a field whose value is
  NaN or Infinity and becomes null in JSON, which `validatePassJson` refuses (355-357);
  a file added under a name that every object inherits (`toString`) is not missed in
  the manifest (`verify.ts:132`); keys on P-384 and P-521 build passes that do not verify,
  as the manifest is digested by SHA-256 (`sign.ts:92`) and the signature names SHA-384 or
  SHA-512 (268); a certificate without a unit builds a pass the checker
  refuses; colours from 256 to 999, and a missing image of the style, are not
  seen by `verifyPkPass`; header, auxiliary and an event's fields are not rendered
  for Google.
- `http/src/serialize.ts`: `fromHttpException` ignores `exposeInternals` for 5xx,
  though its doc says that the message is generic (read, not modelled).

## 7. What is not modelled

Of the modelled packages:

- `idempotency`, `database`: fingerprints and response bodies; migrations, sealed
  columns, health, the data source. That the answer of a COMMIT is lost is modelled in
  `Transaction` and not in `Idempotency`: there it leaves `done` unset, and `release()`,
  which is then not skipped, deletes rows in progress alone and so not the one that
  COMMIT completed.
- `redis`, `jobs`: `extend()` of a lock, the in-memory doubles; callers of one rate limit
  whose clocks differ, and two draws of `math.random()` that are equal within a
  millisecond; BullMQ's own limit
  on stalls, metrics, and the context a job carries.
- `realtime`: several channels on one connection; the memory backlog, which restarts
  at 1 with its process; a gateway process that goes while its publishers stay. The three
  reads of a channel's bounds are one step, and what is on its way is taken to arrive
  within the day in which the channel is forgotten, but for answers that say what is
  still so.
- `game-economy`, `vouchers`: the rates of a game's currencies; voucher codes and
  their retry, denominations.
- `billing`, `commerce`: the limit of 1000 rows per tenant and sweep; refunds of
  `pay()`; onboarding of accounts; the provider's wire format. The provider is
  taken at the port's word, "Idempotent on `reference`" (`port.ts:343`): a repeated
  reference is answered without an error. That the disputes of Stripe carry the
  tenant in metadata of their own, which they do not, belongs to the wire format. The
  text of a reference holds the day as the driver answers it: for a date object it is long
  and depends on the zone of the process, which no run asks.
- `comms`, `messaging`: subjects of web push, the fetching of mail received, what is
  kept of it for the history; the providers of texts.
- `files`: the drawing of pictures (sharp, pdf-lib), the signing of S3.
- `calendars`: the OAuth exchange; the count of failures with its backoff and health;
  the switches for each direction.
- `auth`: guards, the hashing itself, OAuth.
- `wallet`: the tokens of the web service, the development certificate, DER and
  CMS, which are a digest and a key here.
- `tenancy`, `context`, `audit`: how a resolver looks a tenant up, the schema of
  subdomains; attributes and snapshots of a context; the redaction of metadata.
- `printing`: transports, the drawer.
- `money`, `quantity`, `rates`, `clock`, `csv`: tables of currencies and units,
  formatting, `fromMajor`; the HTTP of the feeds; the zone database; prefix, suffix
  and case of a field.

Whole packages: `config` (an environment parsed once), `http` (errors mapped to
answers, headers), `links` (URLs), `observability` (logs, metrics, health) and
`phone` (numbers of a table). They keep no state between calls that a property
could relate, and what they compute is wording.

Integers have no width here but where the code asks for a bound (`Sums` holds
sums to a stated largest): the amounts are Postgres bigints and the numbers of
events start from a clock in milliseconds; nothing modelled comes near 2^53. What
floating point loses is not modelled: a number that is not whole is a fraction.

## 8. The plan

1. *Done.* `Idempotency` with `OncePerKey`; `Transaction`;
   `Scheduler`; `Realtime`; `GameEconomy`; `Vouchers`; `Metering`.
2. *Done.* `Payments`, `Subscriptions`, `Purchases`; `Scanner`, `JobQueue`,
   `RedisHelpers`, `PrintQueue`; `Comms`, `Messages`, `Files`, `Archive`;
   `Accounts`, `Roles`, `AuthTokens`, `SecondFactor`, `Tenancy`;
   `CalendarSync`, `Links`, `TransitionLog`; `AppleWallet`, `GoogleWallet`,
   `Gateway`; `Sums`, `Clock`, `Sheets`.
3. Theorems. *Done:* those of section 5. Next, in order: `ReadyIsScannedAndWhole` of
   `Files`; what `Payments` keeps of the
   provider's books.
4. Further modelling: health and backoff of `calendars`, several channels of
   one connection of `realtime`, the disputes of `billing`.
