------------------------------ MODULE JobQueue ------------------------------
(***************************************************************************)
(* packages/jobs queue.ts and worker.ts: jobs that are enqueued under an   *)
(* id of their own, taken by the workers of several processes, tried again *)
(* when a handler fails, and told to the dead-letter hook when they have   *)
(* failed for good.  The queue itself is BullMQ, in Redis, modelled by     *)
(* what the package counts on: it ignores an id it holds, gives a job to   *)
(* one worker at a time, and takes up again one whose worker has gone.     *)
(***************************************************************************)
EXTENDS Integers, FiniteSets

CONSTANTS
  Ids,             \* what idFor() makes of a payload
  Workers,         \* one in a process
  Handling,        \* those with a handler registered for the job
  Attempts,        \* options.attempts
  MaxAsks, MaxCuts, MaxStalls \* bounds on enqueues, on crashes and outages, on stalls of a job

VARIABLES
  jobs,            \* what the queue holds under each id
  worker,          \* what each is doing
  ready,           \* connectionReady(): Redis is there
  hooks,           \* dead letters on their way to the hook: <<worker, id>>
  ends,            \* of the job under each id: handlers that ended well, and badly
  letters,         \* of the same: dead letters told, and lost with a process
  left,            \* jobs that a process left as it was cut short
  asks, cuts       \* how often each happened

jobVars == <<jobs, worker, ready, hooks, ends, letters, left, asks, cuts>>

NoOne == "nobody"
NoJob == [state |-> "none", by |-> NoOne, made |-> 0, stalls |-> 0]
Job == [state : {"none", "waiting", "delayed", "active", "completed", "failed"}, by : Workers \union {NoOne},
        made : 0..Attempts, stalls : 0..MaxStalls]
Idle == [step |-> "idle", closing |-> FALSE]
Over == {"completed", "failed"}

TypeOK ==
  /\ jobs \in [Ids -> Job] /\ ready \in BOOLEAN /\ hooks \subseteq Workers \X Ids
  /\ \A w \in Workers : /\ worker[w].step \in {"idle", "handling", "recording", "closed", "gone"}
                        /\ worker[w].step \in {"handling", "recording"} => worker[w].id \in Ids
  /\ left \subseteq Ids /\ asks \in 0..MaxAsks /\ cuts \in 0..MaxCuts

Nothing == [well |-> 0, badly |-> 0]
Untold == [told |-> 0, lost |-> 0]

Init ==
  /\ jobs = [i \in Ids |-> NoJob] /\ worker = [w \in Workers |-> Idle] /\ ready = TRUE /\ hooks = {}
  /\ ends = [i \in Ids |-> Nothing] /\ letters = [i \in Ids |-> Untold]
  /\ left = {} /\ asks = 0 /\ cuts = 0

At(w, step) == worker[w].step = step
Goes(w, to) == worker' = [worker EXCEPT ![w] = to]

----------------------------------------------------------------------------
\* enqueue() and schedule(): a job held under the id, whatever has become of
\* it, is left as it is.
Enqueue(id) ==
  /\ ready /\ asks < MaxAsks /\ asks' = asks + 1
  /\ IF jobs[id].state = "none"
     THEN /\ \E state \in {"waiting", "delayed"} : jobs' = [jobs EXCEPT ![id] = [NoJob EXCEPT !.state = state]]
          /\ ends' = [ends EXCEPT ![id] = Nothing]
          /\ letters' = [letters EXCEPT ![id] = Untold]
     ELSE UNCHANGED <<jobs, ends, letters>>
  /\ UNCHANGED <<worker, ready, hooks, left, cuts>>

\* A delay has passed; what is over is kept for a while, longer than a hook takes.
Due(id) ==
  /\ ready /\ jobs[id].state = "delayed"
  /\ jobs' = [jobs EXCEPT ![id].state = "waiting"]
  /\ UNCHANGED <<worker, ready, hooks, ends, letters, left, asks, cuts>>

Remove(id) ==
  /\ ready /\ jobs[id].state \in Over /\ \A w \in Workers : <<w, id>> \notin hooks
  /\ \A w \in Workers : At(w, "handling") \/ At(w, "recording") => worker[w].id # id
  /\ jobs' = [jobs EXCEPT ![id] = NoJob]
  /\ ends' = [ends EXCEPT ![id] = Nothing] /\ letters' = [letters EXCEPT ![id] = Untold]
  /\ UNCHANGED <<worker, ready, hooks, left, asks, cuts>>

\* process() begins; with no handler it throws, and the attempt is spent.
Process(w, id) ==
  /\ ready /\ At(w, "idle") /\ ~worker[w].closing /\ jobs[id].state = "waiting"
  /\ jobs' = [jobs EXCEPT ![id].state = "active", ![id].by = w]
  /\ IF w \in Handling
     THEN /\ Goes(w, [step |-> "handling", id |-> id, closing |-> FALSE])
          /\ UNCHANGED ends
     ELSE /\ Goes(w, [step |-> "recording", id |-> id, well |-> FALSE, closing |-> FALSE])
          /\ ends' = [ends EXCEPT ![id].badly = @ + 1]
  /\ UNCHANGED <<ready, hooks, letters, left, asks, cuts>>

\* The handler returns or throws.
Handled(w, well) ==
  /\ At(w, "handling")
  /\ Goes(w, [step |-> "recording", id |-> worker[w].id, well |-> well, closing |-> worker[w].closing])
  /\ ends' = IF well THEN [ends EXCEPT ![worker[w].id].well = @ + 1] ELSE [ends EXCEPT ![worker[w].id].badly = @ + 1]
  /\ UNCHANGED <<jobs, ready, hooks, letters, left, asks, cuts>>

\* on('failed'): whether that was the last attempt.
Exhausted(made) == made >= Attempts

\* The queue is told how it ended: a failure waits to be tried again, or is the
\* last and goes to the hook. A worker that has lost the job to another is
\* refused, which is an error of the worker's and not of the job.
Record(w) ==
  /\ ready /\ At(w, "recording")
  /\ Goes(w, [Idle EXCEPT !.closing = worker[w].closing])
  /\ LET id == worker[w].id
         made == jobs[id].made + 1
     IN  IF jobs[id].state # "active" \/ jobs[id].by # w THEN UNCHANGED <<jobs, hooks>>
         ELSE IF worker[w].well
         THEN jobs' = [jobs EXCEPT ![id].state = "completed", ![id].by = NoOne] /\ UNCHANGED hooks
         ELSE /\ jobs' = [jobs EXCEPT ![id] = [@ EXCEPT !.state = IF made < Attempts THEN "delayed" ELSE "failed",
                                                        !.by = NoOne, !.made = made]]
              /\ hooks' = IF Exhausted(made) THEN hooks \union {<<w, id>>} ELSE hooks
  /\ UNCHANGED <<ready, ends, letters, left, asks, cuts>>

\* deadLetter(): the hook is called, and whatever it throws is only logged.
DeadLetter(w, id) ==
  /\ <<w, id>> \in hooks
  /\ hooks' = hooks \ {<<w, id>>}
  /\ letters' = [letters EXCEPT ![id].told = @ + 1]
  /\ UNCHANGED <<jobs, worker, ready, ends, left, asks, cuts>>

----------------------------------------------------------------------------
\* What a process takes with it when it ends.
Ends(w, step) ==
  /\ Goes(w, [step |-> step])
  /\ hooks' = {h \in hooks : h[1] # w}
  /\ letters' = [i \in Ids |-> IF <<w, i>> \in hooks THEN [letters[i] EXCEPT !.lost = @ + 1] ELSE letters[i]]
  /\ left' = left \union {i \in Ids : step = "gone" /\ jobs[i].state = "active" /\ jobs[i].by = w}

\* close(): with Redis there it takes no more and ends with what it has, and
\* without it does not wait; it is decided once. A hook is not waited for.
Close(w) ==
  /\ worker[w].step \notin {"closed", "gone"} /\ ~worker[w].closing
  /\ IF ready
     THEN Goes(w, [worker[w] EXCEPT !.closing = TRUE]) /\ UNCHANGED <<hooks, letters, left>>
     ELSE Ends(w, "gone")
  /\ UNCHANGED <<jobs, ready, ends, asks, cuts>>

Closed(w) ==
  /\ At(w, "idle") /\ worker[w].closing
  /\ Ends(w, "closed")
  /\ UNCHANGED <<jobs, ready, ends, asks, cuts>>

Crash(w) ==
  /\ worker[w].step \notin {"closed", "gone"} /\ cuts < MaxCuts /\ cuts' = cuts + 1
  /\ Ends(w, "gone")
  /\ UNCHANGED <<jobs, ready, ends, asks>>

Start(w) ==
  /\ worker[w].step \in {"closed", "gone"} /\ Goes(w, Idle)
  /\ UNCHANGED <<jobs, ready, hooks, ends, letters, left, asks, cuts>>

Outage ==
  /\ IF ready THEN cuts < MaxCuts /\ cuts' = cuts + 1 ELSE UNCHANGED cuts
  /\ ready' = ~ready
  /\ UNCHANGED <<jobs, worker, hooks, ends, letters, left, asks>>

\* A lock that was not renewed, by a process that has ended or is cut off and
\* may be handling it still: the job is taken up again as stalled.
Stalled(id) ==
  /\ ready /\ jobs[id].state = "active" /\ jobs[id].stalls < MaxStalls
  /\ left' = left \ {id}
  /\ jobs' = [jobs EXCEPT ![id].state = "waiting", ![id].by = NoOne, ![id].stalls = @ + 1]
  /\ UNCHANGED <<worker, ready, hooks, ends, letters, asks, cuts>>

Next ==
  \/ Outage
  \/ \E id \in Ids : Enqueue(id) \/ Due(id) \/ Remove(id) \/ Stalled(id)
  \/ \E w \in Workers :
       \/ \E id \in Ids : Process(w, id) \/ DeadLetter(w, id)
       \/ \E well \in BOOLEAN : Handled(w, well)
       \/ Record(w) \/ Close(w) \/ Closed(w) \/ Crash(w) \/ Start(w)

Spec == Init /\ [][Next]_jobVars

----------------------------------------------------------------------------
Holds(w, id) == worker[w].step \in {"handling", "recording"} /\ worker[w].id = id

\* What was enqueued twice is done once, and by one worker at a time, but for
\* each time it stalled; a job is given up after its attempts and no sooner, the
\* hook is told of that once unless its process ended first, and of nothing else;
\* and a worker that closed in its own time left nothing half done.
JobsAreAccounted ==
  \A id \in Ids :
    LET job == jobs[id]
        told == letters[id].told + letters[id].lost + Cardinality({w \in Workers : <<w, id>> \in hooks})
    IN  /\ Cardinality({w \in Workers : Holds(w, id)}) <= 1 + job.stalls
        /\ ends[id].well <= 1 + job.stalls
        /\ ends[id].well + ends[id].badly <= Attempts + job.stalls
        /\ job.state = "completed" => ends[id].well > 0
        /\ job.state = "failed" => job.made = Attempts /\ ends[id].badly >= Attempts
        /\ told = IF job.state = "failed" THEN 1 ELSE 0
        /\ job.state = "active" => Holds(job.by, id) \/ id \in left
=============================================================================
