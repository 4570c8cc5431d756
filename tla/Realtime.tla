------------------------------ MODULE Realtime ------------------------------
(***************************************************************************)
(* packages/realtime: one client (client.ts, gaps.ts) of one channel, the  *)
(* gateway that holds its socket (nestjs/socket/index.ts), the route it    *)
(* polls when it has none (nestjs/polling.ts), and the publishers behind.  *)
(*                                                                         *)
(* An event is its number.  The socket delivers in order until it closes;  *)
(* polls overlap, and their answers may come late or never.  A channel     *)
(* quiet for a day is forgotten, and is numbered afresh by the next event. *)
(***************************************************************************)
EXTENDS Integers, Sequences, FiniteSets

CONSTANTS
    First,      \* the number the channel's first run begins at: Redis's clock
    Keep,       \* how many events the backlog holds
    Before,     \* events published before the client first joins
    MaxEvents,  \* bound on the events published
    MaxFaults,  \* bound on the sockets lost, appends unanswered and channels forgotten
    MaxPolls    \* bound on the polls in flight

ASSUME RealtimeAssumption ==
    /\ {First, Keep} \subseteq Nat \ {0}
    /\ {Before, MaxEvents, MaxFaults, MaxPolls} \subseteq Nat
    /\ Before <= MaxEvents

VARIABLES
    oldest,     \* the oldest number the backlog holds
    latest,     \* the last one handed out
    first,      \* the number the channel's present run began at
    top,        \* the last number handed out of all the channel's runs
    fanout,     \* events appended and not yet handed to the gateway's sockets
    socket,     \* whether the client has a socket open
    live,       \* whether the gateway's connection is subscribed
    handlers,   \* the subscribe frames the gateway is answering
    wire,       \* the frames on their way to the client
    polls,      \* the polls under way
    seen,       \* ChannelCursor: the client's position
    taken,      \* events handed to the product
    covered,    \* the last event covered by an onResync
    leapt,      \* the last event a client standing at 0 was moved on to
    unread,     \* the last event of an answer whose events were forgotten meanwhile
    announced,  \* the last event whose publisher went on to fan it out
    base,       \* where the client joined: what is before it is history
    faults      \* sockets lost, appends unanswered, channels forgotten

vars == <<oldest, latest, first, top, fanout, announced, socket, live, handlers, wire,
          polls, seen, taken, covered, leapt, unread, base, faults>>

backlog == <<oldest, latest, first, top>>
server == <<backlog, fanout, announced>>
client == <<seen, taken, covered, leapt, base>>
rest == <<unread, faults>>

\* One more of what seldom happens.
Fault == faults < MaxFaults /\ faults' = faults + 1

------------------------------------------------------------------------------
(* The channel's backlog (nestjs/redis-backlog.ts), and what it answers a  *)
(* client that says where it stands (server/resume.ts).  What is held is   *)
(* always an unbroken run of numbers, so its bounds say all of it; 0 and 0 *)
(* are an empty channel.                                                   *)

BacklogInit(n) ==
    /\ latest = IF n = 0 THEN 0 ELSE First + n - 1
    /\ oldest = IF n = 0 THEN 0 ELSE IF n > Keep THEN First + n - Keep ELSE First
    /\ first = IF n = 0 THEN 0 ELSE First
    /\ top = latest

\* A new run begins at the clock: above the run before it, and not next to it.
RunStart == IF top = 0 THEN First ELSE top + 2

NextSeq == IF latest = 0 THEN RunStart ELSE latest + 1

\* APPEND: the number, the event, the trimming and the three expiries put off
\* are one step.
Append1 ==
    /\ latest' = NextSeq
    /\ top' = NextSeq
    /\ first' = IF latest = 0 THEN RunStart ELSE first
    /\ oldest' = IF NextSeq - first' >= Keep THEN NextSeq - Keep + 1 ELSE first'

\* What was on its way at the last event is not a day later: what a request
\* under way says of the client or was told of the channel is still so.
Settled ==
    /\ fanout = {}
    /\ wire = <<>>
    /\ \A q \in handlers \union polls :
           IF q.answer = "none" THEN q.since = seen ELSE q.hi = latest

\* A day without an event: the counter, the log and the run's start are gone.
Expire ==
    /\ latest # 0
    /\ Settled
    /\ Fault
    /\ latest' = 0 /\ oldest' = 0 /\ first' = 0
    /\ UNCHANGED <<top, fanout, announced, socket, live, handlers, wire, polls, client, unread>>

\* A client's position when it has none: it is joining, and starts from now.
NoPosition == -1

\* 0 stands just before the run's first event; of an empty channel the bounds
\* name no first, which stands for 1.
PositionOf(since) == IF since = 0 /\ first # 0 THEN first - 1 ELSE since

\* What the bounds say to a client: it joins, is current, is to be sent events,
\* or cannot be served -- it stands ahead of the channel or too far behind.
Verdict(since) ==
    IF since = NoPosition \/ PositionOf(since) = latest THEN "current"
    ELSE IF PositionOf(since) > latest \/ PositionOf(since) < oldest - 1 THEN "gap"
    ELSE "events"

\* since(): everything still held after the position, as it is read now.
Held(position) == {e \in oldest..latest : e > position /\ e > 0}

\* resume() of a request: the bounds, and what they say.
Resumed(q) ==
    [q EXCEPT !.answer = Verdict(q.since), !.hi = latest,
              !.since = IF Verdict(q.since) = "events" THEN PositionOf(q.since) ELSE NoPosition]

------------------------------------------------------------------------------
(* The state.                                                              *)

Seqs == 0..(First + MaxEvents)
Positions == Seqs \union {NoPosition}

Frame == [kind : {"event", "gap", "welcome"}, seq : Seqs]

\* A handler has taken the frame, is subscribed, and has read the bounds; a
\* poll is sent, has read them, and is answered.
Answers == {"none", "current", "gap", "events"}

Handler == [since : Positions, step : {"authorising", "resuming", "reading"},
            answer : Answers, hi : Seqs]

Poll == [since : Positions, step : {"asked", "reading", "answered"},
         answer : Answers, hi : Seqs, events : SUBSET Seqs]

TypeOK ==
    /\ {oldest, latest, first, top, covered, leapt, unread, announced} \subseteq Seqs
    /\ fanout \subseteq Seqs
    /\ socket \in BOOLEAN /\ live \in BOOLEAN
    /\ handlers \subseteq Handler
    /\ wire \in Seq(Frame)
    /\ polls \subseteq Poll
    /\ seen \in Positions
    /\ taken \subseteq Seqs
    /\ base \in Positions
    /\ faults \in 0..MaxFaults

Init ==
    /\ BacklogInit(Before)
    /\ fanout = {}
    /\ announced = latest
    /\ socket = FALSE
    /\ live = FALSE
    /\ handlers = {}
    /\ wire = <<>>
    /\ polls = {}
    /\ seen \in {NoPosition, latest}
    /\ taken = {}
    /\ covered = 0
    /\ leapt = 0
    /\ unread = 0
    /\ base = seen
    /\ faults = 0

------------------------------------------------------------------------------
(* The publishers.                                                         *)

\* publish(): the event is durable first, and fanned out after -- or not at
\* all, when the append's answer is lost and publish() throws.
Publish ==
    /\ NextSeq < First + MaxEvents
    /\ Append1
    /\ \/ /\ fanout' = fanout \union {NextSeq}
          /\ announced' = NextSeq
          /\ UNCHANGED faults
       \/ Fault /\ UNCHANGED <<fanout, announced>>
    /\ UNCHANGED <<socket, live, handlers, wire, polls, client, unread>>

\* fanOut(): to the connections subscribed now.  The events of several
\* publishers reach a gateway in any order.
FanOut(e) ==
    /\ e \in fanout
    /\ fanout' = fanout \ {e}
    /\ wire' = IF live THEN Append(wire, [kind |-> "event", seq |-> e]) ELSE wire
    /\ UNCHANGED <<backlog, announced, socket, live, handlers, polls, client, rest>>

------------------------------------------------------------------------------
(* The gateway: handle() of a subscribe frame, which waits three times.    *)

\* Mutant of Subscription: a handler in a step of its own.
SubscriptionWaiting(position) ==
    [since |-> position, step |-> "waiting", answer |-> "none", hi |-> 0]

\* Mutant of Subscription: a page that says nothing of where it stands.
SubscriptionAfresh(position) ==
    [since |-> NoPosition, step |-> "authorising", answer |-> "none", hi |-> 0]

Subscription(position) ==
    [since |-> position, step |-> "authorising", answer |-> "none", hi |-> 0]

\* authorise() answers: the connection is live before it is resumed.
Authorised(h) ==
    /\ h.step = "authorising"
    /\ live' = TRUE
    /\ handlers' = (handlers \ {h}) \union {[h EXCEPT !.step = "resuming"]}
    /\ UNCHANGED <<server, socket, wire, polls, client, rest>>

ReadBounds(h) ==
    /\ h.step = "resuming"
    /\ handlers' = (handlers \ {h}) \union {[Resumed(h) EXCEPT !.step = "reading"]}
    /\ UNCHANGED <<server, socket, live, wire, polls, client, rest>>

\* The numbers of a run, oldest first.
InOrder(S) ==
    [i \in 1..Cardinality(S) |-> CHOOSE e \in S : Cardinality({d \in S : d <= e}) = i]

Frames(kind, S) == [i \in 1..Cardinality(S) |-> [kind |-> kind, seq |-> InOrder(S)[i]]]

\* The replay or the gap, and the welcome after it.
Answer(h) ==
    /\ h.step = "reading"
    /\ LET replay == IF h.answer = "events" THEN Held(h.since) ELSE {}
       IN  /\ wire' = wire
                 \o (IF h.answer = "gap" THEN <<[kind |-> "gap", seq |-> h.hi]>> ELSE <<>>)
                 \o Frames("event", replay)
                 \o <<[kind |-> "welcome", seq |-> h.hi]>>
           /\ unread' = IF h.answer = "events" /\ replay = {} THEN h.hi ELSE unread
    /\ handlers' = handlers \ {h}
    /\ UNCHANGED <<server, socket, live, polls, client, faults>>

------------------------------------------------------------------------------
(* The client.                                                             *)

\* Mutant of Offer: a jump taken as the next event.
OfferJump(e) == IF seen # NoPosition /\ e <= seen THEN "skip" ELSE "take"

\* ChannelCursor.offer: without a position, or at 0, any event is the next.
Offer(e) ==
    IF seen \in {NoPosition, 0} \/ e = seen + 1 THEN "take"
    ELSE IF e <= seen THEN "skip" ELSE "gap"

Joined(position) == IF base = NoPosition THEN position ELSE base

\* onResync: the product fetches its own state, with all that is published.
Resynced == covered' = top

\* What is beyond 0 is not told apart: a client there goes on to any number.
Leaps(e) == leapt' = IF seen = 0 /\ e > leapt THEN e ELSE leapt

ReceiveEvent ==
    /\ wire # <<>> /\ Head(wire).kind = "event"
    /\ wire' = Tail(wire)
    /\ LET e == Head(wire).seq
       IN  \/ /\ Offer(e) = "take"
              /\ seen' = e
              /\ taken' = taken \union {e}
              /\ base' = Joined(e - 1)
              /\ Leaps(e)
              /\ UNCHANGED <<covered, handlers>>
           \/ /\ Offer(e) = "skip"
              /\ UNCHANGED <<client, handlers>>
           \/ /\ Offer(e) = "gap"
              /\ Resynced
              /\ handlers' = handlers \union {Subscription(seen)}
              /\ UNCHANGED <<seen, taken, leapt, base>>
    /\ UNCHANGED <<server, socket, live, polls, rest>>

ReceiveGap ==
    /\ wire # <<>> /\ Head(wire).kind = "gap"
    /\ wire' = Tail(wire)
    /\ seen' = Head(wire).seq
    /\ base' = Joined(Head(wire).seq)
    /\ Resynced
    /\ UNCHANGED <<server, socket, live, handlers, polls, taken, leapt, rest>>

\* A welcome gives a position to a client that has none, or that is at 0.
ReceiveWelcome ==
    /\ wire # <<>> /\ Head(wire).kind = "welcome"
    /\ wire' = Tail(wire)
    /\ IF seen \in {NoPosition, 0}
       THEN seen' = Head(wire).seq /\ base' = Joined(Head(wire).seq) /\ Leaps(Head(wire).seq)
       ELSE UNCHANGED <<seen, base, leapt>>
    /\ UNCHANGED <<server, socket, live, handlers, polls, taken, covered, rest>>

\* onopen: polling stops, and the subscription carries where the client stands.
Open ==
    /\ ~socket
    /\ socket' = TRUE
    /\ handlers' = {Subscription(seen)}
    /\ UNCHANGED <<server, live, wire, polls, client, rest>>

\* The socket is lost -- closed by either heartbeat, superseded, or by the
\* network -- with whatever was on its way.
Close ==
    /\ socket
    /\ Fault
    /\ socket' = FALSE
    /\ live' = FALSE
    /\ handlers' = {}
    /\ wire' = <<>>
    /\ UNCHANGED <<server, polls, client, unread>>

------------------------------------------------------------------------------
(* The fallback: ask(), every pollMs while there is no socket.             *)

Ask ==
    /\ ~socket
    /\ Cardinality(polls) < MaxPolls
    /\ polls' = polls \union {[since |-> seen, step |-> "asked", answer |-> "none",
                               hi |-> 0, events |-> {}]}
    /\ UNCHANGED <<server, socket, live, handlers, wire, client, rest>>

\* Only what is to be sent is read.
PollBounds(p) ==
    /\ p.step = "asked"
    /\ LET step == IF Verdict(p.since) = "events" THEN "reading" ELSE "answered"
       IN  polls' = (polls \ {p}) \union {[Resumed(p) EXCEPT !.step = step]}
    /\ UNCHANGED <<server, socket, live, handlers, wire, client, rest>>

PollRead(p) ==
    /\ p.step = "reading"
    /\ polls' = (polls \ {p})
          \union {[p EXCEPT !.step = "answered", !.since = NoPosition,
                            !.events = Held(p.since)]}
    /\ UNCHANGED <<server, socket, live, handlers, wire, client, rest>>

PollLost(p) ==
    /\ polls' = polls \ {p}
    /\ UNCHANGED <<server, socket, live, handlers, wire, client, rest>>

\* The events an unbroken run S gives a client: all of it, the part it has not
\* seen, or none when the run starts beyond its position.
Unseen(S) ==
    IF seen \in {NoPosition, 0} THEN S
    ELSE IF seen + 1 \in S THEN {e \in S : e > seen} ELSE {}

Highest(S) == CHOOSE e \in S : \A d \in S : d <= e
Lowest(S) == CHOOSE e \in S : \A d \in S : e <= d

\* An answer with events: each is offered; one beyond the position is a gap,
\* and the product told, but nothing is asked until the next poll.
PollEvents(p) ==
    /\ p.step = "answered"
    /\ p.events # {}
    /\ polls' = polls \ {p}
    /\ LET new == Unseen(p.events)
       IN  /\ taken' = taken \union new
           /\ seen' = IF new = {} THEN seen ELSE Highest(new)
           /\ base' = Joined(Lowest(p.events) - 1)
           /\ Leaps(Highest(p.events))
           /\ covered' = IF new = {} /\ \E e \in p.events : e > seen THEN top ELSE covered
    /\ UNCHANGED <<server, socket, live, handlers, wire, rest>>

\* An answer without: a gap starts the client again from where the channel
\* stands, and a client with no position, or left at 0, takes that one.
PollNothing(p) ==
    /\ p.step = "answered"
    /\ p.events = {}
    /\ polls' = polls \ {p}
    /\ IF p.answer = "gap"
       THEN /\ seen' = p.hi
            /\ base' = Joined(p.hi)
            /\ Resynced
            /\ UNCHANGED leapt
       ELSE /\ IF seen \in {NoPosition, 0}
               THEN seen' = p.hi /\ base' = Joined(p.hi) /\ Leaps(p.hi)
               ELSE UNCHANGED <<seen, base, leapt>>
            /\ UNCHANGED covered
    /\ UNCHANGED <<server, socket, live, handlers, wire, taken, rest>>

------------------------------------------------------------------------------
Broadcasts == \E e \in fanout : FanOut(e)
Gateway == \E h \in handlers : Authorised(h) \/ ReadBounds(h) \/ Answer(h)
Receive == ReceiveEvent \/ ReceiveGap \/ ReceiveWelcome
Fallback == \E p \in polls : PollBounds(p) \/ PollRead(p) \/ PollEvents(p) \/ PollNothing(p)

Next ==
    \/ Publish
    \/ Expire
    \/ Broadcasts
    \/ Gateway
    \/ Receive
    \/ Open \/ Close
    \/ Ask
    \/ Fallback
    \/ \E p \in polls : PollLost(p)

Spec == Init /\ [][Next]_vars

\* Some broadcast, handler or frame on its way gets through while there is any,
\* and the client goes on trying for a socket; nothing obliges anybody to
\* publish, to poll or to be answered, to lose a socket or to forget a channel.
Fairness ==
    /\ WF_vars(Broadcasts \/ Gateway \/ Receive)
    /\ WF_vars(Open)

FairSpec == Spec /\ Fairness

------------------------------------------------------------------------------
(* "A connection that can prove what it has and has not seen."             *)

\* Handed to the product, or published before an onResync told it to fetch its
\* state again.
Accounted(e) == e \in taken \/ e <= covered

\* What lies between where a client joined and where it stands.
Passed == {e \in Seqs : base # NoPosition /\ base < e /\ e <= seen /\ e >= First}

\* No event is stepped over in silence.
NoSilentLoss == \A e \in Passed : Accounted(e)

\* No event is stepped over in silence by a client that stands at one, whatever
\* overtakes what, however the backlog is trimmed, and though the channel is
\* forgotten and numbered afresh: a number passed that was neither handed over
\* nor fetched was passed in the step out of 0.
NoEventSteppedOver == \A e \in Passed : Accounted(e) \/ e <= leapt

\* Its run has been forgotten.
Expired(e) == e \notin first..latest

\* A client that stands somewhere -- a page left open -- ends up
\* with all that any socket was handed, whatever sockets and polls are lost,
\* stale answers move it back or appends go unannounced, once nothing more is
\* published: it has every event, or was told to fetch its state again.  A
\* client at 0 may miss what the channel has forgotten, and what it leaps over;
\* any, what was forgotten between the two reads of its answer.
CatchesUp ==
    base # NoPosition =>
        <>[](\A e \in Seqs : First <= e /\ base < e /\ e <= announced
                => Accounted(e) \/ e <= leapt \/ ((seen = 0 \/ e <= unread) /\ Expired(e)))

------------------------------------------------------------------------------
(* Why nothing is lost: what is under way never runs ahead of the channel. *)

\* Where a client can stand in a channel that has handed out n: at one of its
\* events or, while it is empty, before the first.
Marks(n) == (First..n) \union {0}

FramesTo(n) ==
    [kind : {"event"}, seq : First..n] \union [kind : {"gap", "welcome"}, seq : Marks(n)]

HandlersTo(n) ==
    {h \in Handler : h.step = "reading" =>
        h.hi \in Marks(n) /\ (h.answer = "events" => h.since # NoPosition)}

\* A run of the channel's events: what a poll is answered with.
Runs(n) == {S \in SUBSET (First..n) : \E a, b \in First..n : a <= b /\ S = a..b}

PollsTo(n) ==
    {p \in Poll : /\ p.step # "asked" => p.hi \in Marks(n)
                  /\ p.step = "reading" => p.since # NoPosition
                  /\ p.events \in Runs(n) \union {{}}}

\* The flags and the counter, which nothing below depends on.
Flagged ==
    /\ socket \in BOOLEAN /\ live \in BOOLEAN
    /\ faults \in 0..MaxFaults

\* The backlog's bounds, and what is fanned out, covered and leapt within all
\* that was ever handed out.
Numbered ==
    /\ top \in Marks(top) /\ top < First + MaxEvents
    /\ latest \in {0, top}
    /\ {oldest, first} \subseteq Marks(top)
    /\ oldest <= latest /\ (oldest = 0 => latest = 0)
    /\ first <= oldest /\ (first = 0 => latest = 0)
    /\ fanout \subseteq First..top
    /\ {covered, leapt, unread, announced} \subseteq Marks(top)

UnderWay ==
    /\ handlers \subseteq HandlersTo(top)
    /\ wire \in Seq(FramesTo(top))
    /\ polls \subseteq PollsTo(top)

\* A client stands somewhere from when it has joined, and not before.
Placed ==
    /\ seen \in Marks(top) \union {NoPosition}
    /\ base \in Positions
    /\ seen = NoPosition <=> base = NoPosition
    /\ taken \subseteq First..top

InStep == Flagged /\ Numbered /\ UnderWay /\ Placed
==============================================================================
