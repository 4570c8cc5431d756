--------------------------- MODULE RealtimeProofs ---------------------------
(***************************************************************************)
(* Theorems about Realtime, for any backlog, any number of events, faults  *)
(* and polls in flight.                                                    *)
(***************************************************************************)
EXTENDS Realtime, SequenceTheorems, FiniteSetTheorems, TLAPS

------------------------------------------------------------------------------
(* What a channel has handed out only grows.                               *)

\* A mark of a channel is a position of the program's, and no "no position".
LEMMA MarksArePositions ==
    ASSUME NEW n \in Int, n < First + MaxEvents, NEW m \in Marks(n)
    PROVE  /\ m \in Seqs /\ m \in Positions /\ m \in Int /\ m # NoPosition
           /\ n \in Marks(n) => m <= n
BY RealtimeAssumption DEF Marks, Seqs, Positions, NoPosition

\* What was under way at one moment is still within the channel at a later one.
LEMMA UnderWayGrows ==
    ASSUME NEW n \in Int, NEW m \in Int, n <= m
    PROVE  /\ First..n \subseteq First..m
           /\ Marks(n) \subseteq Marks(m)
           /\ HandlersTo(n) \subseteq HandlersTo(m)
           /\ FramesTo(n) \subseteq FramesTo(m)
           /\ PollsTo(n) \subseteq PollsTo(m)
<1>. First \in Int
  BY RealtimeAssumption
<1>1. First..n \subseteq First..m
  OBVIOUS
<1>2. Marks(n) \subseteq Marks(m)
  BY <1>1 DEF Marks
<1>3. HandlersTo(n) \subseteq HandlersTo(m)
  BY <1>2 DEF HandlersTo
<1>4. FramesTo(n) \subseteq FramesTo(m)
  BY <1>1, <1>2 DEF FramesTo
<1>5. Runs(n) \subseteq Runs(m)
  BY <1>1 DEF Runs
<1>6. PollsTo(n) \subseteq PollsTo(m)
  BY <1>2, <1>5 DEF PollsTo
<1>. QED
  BY <1>1, <1>2, <1>3, <1>4, <1>6

------------------------------------------------------------------------------
(* Runs of numbers.                                                        *)

\* The least and the greatest of a run are its ends.
LEMMA BoundsOfRun ==
    ASSUME NEW a \in Int, NEW b \in Int, a <= b
    PROVE  Highest(a..b) = b /\ Lowest(a..b) = a
<1>1. b \in a..b /\ \A d \in a..b : d <= b
  OBVIOUS
<1>2. a \in a..b /\ \A d \in a..b : a <= d
  OBVIOUS
<1>3. ASSUME NEW e \in a..b, \A d \in a..b : d <= e
      PROVE  e = b
  BY <1>1, <1>3
<1>4. ASSUME NEW e \in a..b, \A d \in a..b : e <= d
      PROVE  e = a
  BY <1>2, <1>4
<1>5. Highest(a..b) = b
  BY <1>1, <1>3 DEF Highest
<1>6. Lowest(a..b) = a
  BY <1>2, <1>4 DEF Lowest
<1>. QED
  BY <1>5, <1>6

\* The i-th of a run's numbers is one of its numbers.
LEMMA InOrderWithin ==
    ASSUME NEW a \in Int, NEW b \in Int, NEW i \in 1..Cardinality(a..b)
    PROVE  InOrder(a..b)[i] \in a..b
<1>1. a <= b /\ i \in 1..(b - a + 1)
  BY FS_Interval
<1>2. PICK S : S = a..b
  OBVIOUS
<1>3. PICK e : e = a + i - 1
  OBVIOUS
<1>4. e \in S /\ e \in Int
  BY <1>1, <1>2, <1>3
<1>5. {d \in S : d <= e} = a..e
  BY <1>1, <1>2, <1>3
<1>6. Cardinality({d \in S : d <= e}) = i
  <2>1. Cardinality(a..e) = IF a > e THEN 0 ELSE e - a + 1
    BY <1>4, FS_Interval
  <2>2. Cardinality(a..e) = i
    BY <1>1, <1>3, <2>1
  <2>. QED
    BY <1>5, <2>2
<1>7. (CHOOSE x \in S : Cardinality({d \in S : d <= x}) = i) \in S
  BY <1>4, <1>6
<1>8. InOrder(S)[i] \in S
  BY <1>2, <1>7 DEF InOrder
<1>. QED
  BY <1>2, <1>8

\* The replay of a run of a channel's events is frames of that channel.
LEMMA ReplayTyped ==
    ASSUME NEW n \in Int, NEW a \in First..n, NEW b \in First..n
    PROVE  Frames("event", a..b) \in Seq(FramesTo(n))
<1>. First \in Int /\ a \in Int /\ b \in Int
  BY RealtimeAssumption
<1>1. PICK c : c = Cardinality(a..b)
  OBVIOUS
<1>2. c \in Nat
  <2>1. Cardinality(a..b) = IF a > b THEN 0 ELSE b - a + 1
    BY FS_Interval
  <2>. QED
    BY <1>1, <2>1
<1>3. ASSUME NEW i \in 1..c
      PROVE  [kind |-> "event", seq |-> InOrder(a..b)[i]] \in FramesTo(n)
  <2>1. PICK e : e = InOrder(a..b)[i]
    OBVIOUS
  <2>2. e \in a..b
    BY <1>1, <2>1, InOrderWithin
  <2>3. e \in First..n
    BY <2>2
  <2>. QED
    BY <2>1, <2>3 DEF FramesTo
<1>4. Frames("event", a..b) = [i \in 1..c |-> [kind |-> "event", seq |-> InOrder(a..b)[i]]]
  BY <1>1 DEF Frames
<1>5. Frames("event", a..b) \in [1..c -> FramesTo(n)]
  BY <1>3, <1>4
<1>. QED
  BY <1>2, <1>5, SeqDef

\* What is held after a position is nothing, or a run up to the top event.
LEMMA HeldIsRun ==
    ASSUME Numbered, NEW p \in Nat
    PROVE  \/ Held(p) = {}
           \/ \E a \in First..top : a <= top /\ Held(p) = a..top
<1>. First \in Nat \ {0}
  BY RealtimeAssumption
<1>1. /\ top \in Int /\ oldest \in Int /\ (latest = 0 \/ latest = top)
      /\ oldest <= latest /\ (oldest = 0 \/ oldest >= First) /\ (oldest = 0 => latest = 0)
  BY DEF Numbered, Marks
<1>2. CASE latest = 0
  <2>1. oldest = 0
    BY <1>1, <1>2
  <2>. QED
    BY <1>2, <2>1 DEF Held
<1>3. CASE latest # 0
  <2>1. oldest >= First /\ oldest <= latest /\ latest = top
    BY <1>1, <1>3
  <2>2. PICK a : a = IF oldest > p THEN oldest ELSE p + 1
    OBVIOUS
  <2>3. a \in Int /\ a >= First
    BY <1>1, <2>1, <2>2
  <2>4. Held(p) = a..top
    BY <1>1, <2>1, <2>2, <2>3 DEF Held
  <2>5. CASE a <= top
    BY <1>1, <2>3, <2>4, <2>5
  <2>6. CASE a > top
    BY <1>1, <2>3, <2>4, <2>6
  <2>. QED
    BY <1>1, <2>3, <2>5, <2>6
<1>. QED
  BY <1>2, <1>3

\* What is read of the bounds is a position to read on from, and where they end.
LEMMA BoundsRead ==
    ASSUME Numbered, NEW since \in Positions
    PROVE  /\ Verdict(since) \in Answers
           /\ Verdict(since) = "events" => PositionOf(since) \in Nat
           /\ PositionOf(since) \in Positions
           /\ latest \in Marks(top)
<1>1. first \in Marks(top) /\ top \in Int /\ top < First + MaxEvents /\ top \in Marks(top)
      /\ latest \in {0, top}
  BY RealtimeAssumption DEF Numbered, Marks
<1>2. first = 0 \/ first - 1 \in Seqs
  BY <1>1, RealtimeAssumption DEF Marks, Seqs
<1>3. PositionOf(since) \in Positions /\ (since # NoPosition => PositionOf(since) \in Nat)
  BY <1>2, RealtimeAssumption DEF PositionOf, Positions, Seqs, NoPosition
<1>4. Verdict(since) \in Answers /\ (Verdict(since) = "events" => since # NoPosition)
  BY DEF Verdict, Answers
<1>5. latest \in Marks(top)
  BY <1>1 DEF Marks
<1>. QED
  BY <1>3, <1>4, <1>5

------------------------------------------------------------------------------
(* The invariant.                                                          *)

\* At the start nothing is on its way, and a client stands where the channel does
\* or has no place.
LEMMA InStepInit == Init => InStep
<1> SUFFICES ASSUME Init PROVE InStep
  OBVIOUS
<1>. First \in Nat \ {0} /\ Keep \in Nat \ {0} /\ Before \in Nat
     /\ MaxEvents \in Nat /\ MaxFaults \in Nat /\ Before <= MaxEvents
  BY RealtimeAssumption
<1>1. Flagged
  <2>1. socket \in BOOLEAN /\ live \in BOOLEAN
    BY Zenon DEF Init
  <2>2. faults \in 0..MaxFaults
    BY DEF Init
  <2>. QED
    BY <2>1, <2>2, Zenon DEF Flagged
<1>2. /\ top = latest /\ announced = latest /\ covered = 0 /\ leapt = 0 /\ unread = 0
      /\ fanout = {} /\ seen \in {NoPosition, latest} /\ base = seen /\ taken = {}
  BY DEF Init, BacklogInit
<1>4. Numbered
  <2>1. CASE Before = 0
    BY <1>2, <2>1 DEF Init, BacklogInit, Numbered, Marks
  <2>2. CASE Before # 0
    <3>1. latest = First + Before - 1 /\ latest \in First..latest /\ latest \in Nat
          /\ first = First
      BY <2>2 DEF Init, BacklogInit
    <3>2. oldest \in First..latest
      BY <2>2, <3>1 DEF Init, BacklogInit
    <3>. QED
      BY <1>2, <3>1, <3>2 DEF Numbered, Marks
  <2>. QED
    BY <2>1, <2>2
<1>5. UnderWay
  BY EmptySeq DEF Init, UnderWay
<1>6. top \in Int /\ top < First + MaxEvents /\ top \in Marks(top)
  BY <1>4 DEF Numbered, Marks
<1>7. top \in Positions /\ top # NoPosition
  BY <1>6, MarksArePositions
<1>8. Placed
  BY <1>2, <1>6, <1>7 DEF Placed, Positions
<1>. QED
  BY <1>1, <1>4, <1>5, <1>8 DEF InStep

\* What every step below needs of the numbers.
LEMMA LatestIs ==
    ASSUME Numbered
    PROVE  top \in Nat /\ top < First + MaxEvents /\ top \in Marks(top)
BY RealtimeAssumption DEF Numbered, Marks

\* A step that neither hands out a number nor moves the client keeps the
\* numbers and the client's place.
LEMMA ServerKept ==
    ASSUME Numbered, UNCHANGED server, covered' = covered \/ covered' = top,
           {leapt', unread'} \subseteq Marks(top)
    PROVE  Numbered'
<1>1. top \in Marks(top)
  BY LatestIs
<1>2. /\ top' = top /\ latest' = latest /\ oldest' = oldest /\ first' = first
      /\ fanout' = fanout /\ announced' = announced
  BY DEF server, backlog
<1>3. {covered', leapt', unread', announced'} \subseteq Marks(top)
  BY <1>1, <1>2 DEF Numbered
<1>. QED
  BY <1>2, <1>3 DEF Numbered, Marks

\* So does one that leaves the client as it is.
LEMMA NumbersKept ==
    ASSUME Numbered, UNCHANGED server, UNCHANGED client, UNCHANGED unread
    PROVE  Numbered'
<1>1. covered' = covered /\ leapt' = leapt /\ unread' = unread
  BY DEF client
<1>2. {leapt, unread} \subseteq Marks(top)
  BY DEF Numbered
<1>. QED
  BY <1>1, <1>2, ServerKept

\* Where the client does not move, it keeps its place.
LEMMA ClientKept ==
    ASSUME Placed, UNCHANGED <<top, seen, base, taken>>
    PROVE  Placed'
BY DEF Placed

\* A published event is one more to hand over, and moves nobody.
LEMMA PublishKeeps == InStep /\ Publish => InStep'
<1> SUFFICES ASSUME InStep, Publish PROVE InStep'
  OBVIOUS
<1>. First \in Nat \ {0} /\ Keep \in Nat \ {0} /\ Before \in Nat
     /\ MaxEvents \in Nat /\ MaxFaults \in Nat
  BY RealtimeAssumption
<1>1. Numbered /\ UnderWay /\ Placed /\ Flagged
  BY DEF InStep
<1>2. top \in Nat /\ (top = 0 \/ top >= First) /\ latest \in {0, top}
      /\ first \in Int /\ (first = 0 => latest = 0) /\ (first = 0 \/ first >= First)
      /\ first <= latest
  BY <1>1 DEF Numbered, Marks
<1>3. /\ NextSeq \in Nat /\ NextSeq >= First /\ top < NextSeq /\ NextSeq < First + MaxEvents
      /\ top' = NextSeq /\ latest' = NextSeq
  BY <1>2 DEF Publish, Append1, NextSeq, RunStart
<1>4. first' \in First..top'
  <2>1. CASE latest = 0
    BY <1>2, <1>3, <2>1 DEF Publish, Append1, NextSeq
  <2>2. CASE latest # 0
    BY <1>2, <1>3, <2>2 DEF Publish, Append1
  <2>. QED
    BY <2>1, <2>2
<1>5. oldest' \in first'..top'
  <2>1. PICK f, n : f = first' /\ n = NextSeq
    OBVIOUS
  <2>2. oldest' = IF n - f >= Keep THEN n - Keep + 1 ELSE f
    BY <2>1 DEF Publish, Append1
  <2>3. f \in Nat /\ n \in Nat /\ f <= n /\ top' = n
    BY <1>3, <1>4, <2>1
  <2>4. oldest' \in f..n
    BY <2>2, <2>3
  <2>. QED
    BY <2>1, <2>3, <2>4
<1>6. First..top \subseteq First..top' /\ Marks(top) \subseteq Marks(top')
  BY <1>2, <1>3, UnderWayGrows
<1>7. Numbered'
  <2>1. top' \in Marks(top') /\ {oldest', first'} \subseteq Marks(top')
    BY <1>3, <1>4, <1>5 DEF Marks
  <2>2. oldest' <= latest' /\ oldest' # 0 /\ first' <= oldest' /\ first' # 0
    BY <1>3, <1>4, <1>5
  <2>3. fanout' \subseteq First..top' /\ announced' \in Marks(top')
    <3>1. fanout \subseteq First..top' /\ NextSeq \in First..top'
          /\ announced \in Marks(top') /\ NextSeq \in Marks(top')
      BY <1>1, <1>3, <1>6, <2>1 DEF Numbered
    <3>. QED
      BY <3>1 DEF Publish
  <2>4. {covered', leapt', unread'} \subseteq Marks(top')
    BY <1>1, <1>6 DEF Publish, Numbered, client
  <2>. QED
    BY <1>3, <2>1, <2>2, <2>3, <2>4 DEF Numbered
<1>8. UnderWay'
  <2>1. HandlersTo(top) \subseteq HandlersTo(top')
        /\ FramesTo(top) \subseteq FramesTo(top')
        /\ PollsTo(top) \subseteq PollsTo(top')
    BY <1>2, <1>3, UnderWayGrows
  <2>2. wire \in Seq(FramesTo(top'))
    BY <1>1, <2>1, SeqMonotonic DEF UnderWay
  <2>. QED
    BY <1>1, <2>1, <2>2 DEF UnderWay, Publish
<1>9. Placed'
  BY <1>1, <1>6 DEF Placed, Publish, client
<1>10. Flagged'
  <2>1. faults' \in 0..MaxFaults
    BY <1>1 DEF Flagged, Publish, Fault
  <2>. QED
    BY <1>1, <2>1, Zenon DEF Flagged, Publish
<1>. QED
  BY <1>7, <1>8, <1>9, <1>10 DEF InStep

\* A channel forgotten leaves its bounds empty, and all that it handed out behind.
LEMMA ExpireKeeps == InStep /\ Expire => InStep'
<1> SUFFICES ASSUME InStep, Expire PROVE InStep'
  OBVIOUS
<1>1. Numbered /\ UnderWay /\ Placed /\ Flagged
  BY DEF InStep
<1>2. /\ latest' = 0 /\ oldest' = 0 /\ first' = 0 /\ top' = top /\ fanout' = fanout
      /\ UNCHANGED <<announced, covered, leapt, unread>>
  BY DEF Expire, client
<1>3. Numbered'
  BY <1>1, <1>2, RealtimeAssumption DEF Numbered, Marks
<1>4. UnderWay'
  BY <1>1, <1>2 DEF UnderWay, Expire
<1>5. Placed'
  BY <1>1, <1>2 DEF Placed, Expire, client
<1>6. Flagged'
  <2>1. faults' \in 0..MaxFaults
    BY <1>1, RealtimeAssumption DEF Flagged, Expire, Fault
  <2>. QED
    BY <1>1, <2>1, Zenon DEF Flagged, Expire
<1>. QED
  BY <1>3, <1>4, <1>5, <1>6 DEF InStep

\* A broadcast reaches the socket as it is, whatever is queued before it.
LEMMA FanOutKeeps == ASSUME InStep, NEW e \in fanout, FanOut(e) PROVE InStep'
<1>1. Numbered /\ UnderWay /\ Placed /\ Flagged
  BY DEF InStep
<1>2. e \in First..top
  BY <1>1 DEF Numbered
<1>3. Numbered'
  <2>1. fanout' \subseteq First..top
    BY <1>1 DEF Numbered, FanOut
  <2>2. UNCHANGED <<latest, oldest, first, top, announced, covered, leapt, unread>>
    BY DEF FanOut, backlog, client, rest
  <2>. QED
    BY <1>1, <2>1, <2>2 DEF Numbered
<1>4. UnderWay'
  <2>1. PICK f : f = [kind |-> "event", seq |-> e]
    OBVIOUS
  <2>2. f \in FramesTo(top)
    BY <1>2, <2>1 DEF FramesTo
  <2>3. Append(wire, f) \in Seq(FramesTo(top))
    BY <1>1, <2>2, AppendProperties DEF UnderWay
  <2>4. wire' \in {wire, Append(wire, f)}
    BY <2>1 DEF FanOut
  <2>. QED
    BY <1>1, <2>3, <2>4 DEF UnderWay, FanOut, backlog
<1>5. Placed'
  BY <1>1 DEF Placed, FanOut, client, backlog
<1>6. Flagged'
  BY <1>1, Zenon DEF Flagged, FanOut, rest
<1>. QED
  BY <1>3, <1>4, <1>5, <1>6 DEF InStep

------------------------------------------------------------------------------
(* The gateway.                                                            *)

\* Each step of a handler leaves one that its channel bounds.
LEMMA HandlerMoves ==
    ASSUME Numbered, NEW h \in Handler
    PROVE  /\ h.step = "authorising" => [h EXCEPT !.step = "resuming"] \in HandlersTo(top)
           /\ [Resumed(h) EXCEPT !.step = "reading"] \in HandlersTo(top)
<1>. top \in Int /\ top < First + MaxEvents
  BY LatestIs
<1>1. PICK position, answer, hi :
          /\ position = IF Verdict(h.since) = "events" THEN PositionOf(h.since) ELSE NoPosition
          /\ answer = Verdict(h.since)
          /\ hi = latest
  OBVIOUS
<1>2. /\ position \in Positions /\ answer \in Answers /\ hi \in Marks(top) /\ hi \in Seqs
      /\ (answer = "events" => position # NoPosition)
  BY <1>1, BoundsRead, MarksArePositions DEF Handler, Positions, NoPosition
<1>3. PICK g : g = [h EXCEPT !.step = "resuming"]
  OBVIOUS
<1>4. g \in Handler /\ g.step = "resuming"
  BY <1>3 DEF Handler
<1>5. PICK k : k = [h EXCEPT !.answer = answer, !.hi = hi, !.since = position, !.step = "reading"]
  OBVIOUS
<1>6. k \in Handler /\ k.hi = hi /\ (k.answer = "events" => k.since # NoPosition)
  BY <1>2, <1>5 DEF Handler
<1>7. [Resumed(h) EXCEPT !.step = "reading"] = k
  BY <1>1, <1>5 DEF Resumed, Handler
<1>. QED
  BY <1>2, <1>3, <1>4, <1>6, <1>7 DEF HandlersTo

\* A subscription begins from where the client said it stood.
LEMMA SubscriptionBegins ==
    ASSUME NEW n, NEW position \in Positions
    PROVE  Subscription(position) \in HandlersTo(n)
<1>1. PICK h : h = [since |-> position, step |-> "authorising", answer |-> "none", hi |-> 0]
  OBVIOUS
<1>2. 0 \in Seqs
  BY RealtimeAssumption DEF Seqs
<1>3. h \in Handler /\ h.step = "authorising"
  BY <1>1, <1>2 DEF Handler, Answers
<1>. QED
  BY <1>1, <1>3 DEF HandlersTo, Subscription

\* A handler's reads leave the invariant, and its answer is of the channel.
LEMMA AuthorisedKeeps == ASSUME InStep, NEW h \in handlers, Authorised(h) PROVE InStep'
<1>1. Numbered /\ UnderWay /\ Placed /\ Flagged
  BY DEF InStep
<1>2. h \in Handler
  BY <1>1 DEF UnderWay, HandlersTo
<1>3. Numbered'
  BY <1>1, NumbersKept DEF Authorised, rest
<1>4. UnderWay'
  <2>1. [h EXCEPT !.step = "resuming"] \in HandlersTo(top)
    BY <1>1, <1>2, HandlerMoves DEF Authorised
  <2>. QED
    BY <1>1, <2>1 DEF UnderWay, Authorised, server, backlog
<1>5. Placed'
  BY <1>1, ClientKept DEF Authorised, client, server, backlog, rest
<1>6. Flagged'
  BY <1>1, Zenon DEF Flagged, Authorised, server, backlog, rest
<1>. QED
  BY <1>3, <1>4, <1>5, <1>6 DEF InStep

\* The bounds a handler reads are those of the backlog at that moment.
LEMMA ReadBoundsKeeps == ASSUME InStep, NEW h \in handlers, ReadBounds(h) PROVE InStep'
<1>1. Numbered /\ UnderWay /\ Placed /\ Flagged
  BY DEF InStep
<1>2. h \in Handler
  BY <1>1 DEF UnderWay, HandlersTo
<1>3. Numbered'
  BY <1>1, NumbersKept DEF ReadBounds, rest
<1>4. UnderWay'
  <2>1. [Resumed(h) EXCEPT !.step = "reading"] \in HandlersTo(top)
    BY <1>1, <1>2, HandlerMoves
  <2>. QED
    BY <1>1, <2>1 DEF UnderWay, ReadBounds, server, backlog
<1>5. Placed'
  BY <1>1, ClientKept DEF ReadBounds, client, server, backlog, rest
<1>6. Flagged'
  BY <1>1, Zenon DEF Flagged, ReadBounds, server, backlog, rest
<1>. QED
  BY <1>3, <1>4, <1>5, <1>6 DEF InStep

\* A frame that says where the channel stood.
LEMMA MarkFrames ==
    ASSUME NEW n, NEW m \in Marks(n), NEW kind \in {"gap", "welcome"}
    PROVE  <<[kind |-> kind, seq |-> m]>> \in Seq(FramesTo(n))
<1>1. PICK f : f = [kind |-> kind, seq |-> m]
  OBVIOUS
<1>2. f \in FramesTo(n)
  BY <1>1 DEF FramesTo
<1>3. <<f>> \in Seq(FramesTo(n))
  BY <1>2
<1>. QED
  BY <1>1, <1>3

\* What a handler answers is of numbers the channel has: a gap, or the run that is
\* held, and a welcome after it.
LEMMA AnswerKeeps == ASSUME InStep, NEW h \in handlers, Answer(h) PROVE InStep'
<1>1. Numbered /\ UnderWay /\ Placed /\ Flagged
  BY DEF InStep
<1>2. h \in Handler /\ h.hi \in Marks(top) /\ (h.answer = "events" => h.since \in Nat)
  BY <1>1, RealtimeAssumption
     DEF UnderWay, HandlersTo, Answer, Handler, Positions, Seqs, NoPosition
<1>3. Numbered'
  <2>1. leapt' = leapt /\ covered' = covered /\ leapt \in Marks(top)
    BY <1>1 DEF Answer, client, Numbered
  <2>2. unread' \in {h.hi, unread} /\ unread \in Marks(top)
    BY <1>1 DEF Answer, Numbered
  <2>3. UNCHANGED server
    BY DEF Answer
  <2>. QED
    BY <1>1, <1>2, <2>1, <2>2, <2>3, ServerKept
<1>4. wire' \in Seq(FramesTo(top))
  <2> DEFINE replay == IF h.answer = "events" THEN Held(h.since) ELSE {}
             gapped == IF h.answer = "gap" THEN <<[kind |-> "gap", seq |-> h.hi]>> ELSE <<>>
             welcome == <<[kind |-> "welcome", seq |-> h.hi]>>
  <2>1. gapped \in Seq(FramesTo(top)) /\ welcome \in Seq(FramesTo(top))
    BY <1>2, MarkFrames, EmptySeq
  <2>2. replay = {} \/ \E a \in First..top : a <= top /\ replay = a..top
    <3>1. CASE h.answer = "events"
      <4>1. h.since \in Nat
        BY <1>2, <3>1
      <4>. QED
        BY <1>1, <3>1, <4>1, HeldIsRun
    <3>2. CASE h.answer # "events"
      BY <3>2
    <3>. QED
      BY <3>1, <3>2
  <2>3. Frames("event", replay) \in Seq(FramesTo(top))
    <3>1. CASE replay = {}
      <4>1. Cardinality({}) = 0
        BY FS_EmptySet
      <4>2. 1..0 = {}
        OBVIOUS
      <4>3. Frames("event", {}) \in [1..0 -> FramesTo(top)]
        BY <4>1, <4>2 DEF Frames
      <4>. QED
        BY <3>1, <4>3, SeqDef
    <3>2. ASSUME NEW a \in First..top, a <= top, replay = a..top
          PROVE  Frames("event", replay) \in Seq(FramesTo(top))
      <4>1. top \in First..top /\ top \in Int
        BY <1>1, <3>2, LatestIs, RealtimeAssumption
      <4>2. Frames("event", a..top) \in Seq(FramesTo(top))
        BY <4>1, ReplayTyped
      <4>. QED
        BY <3>2, <4>2
    <3>. QED
      BY <2>2, <3>1, <3>2
  <2>4. wire \in Seq(FramesTo(top))
    BY <1>1 DEF UnderWay
  <2>5. wire' = ((wire \o gapped) \o Frames("event", replay)) \o welcome
    BY DEF Answer
  <2> HIDE DEF replay, gapped, welcome
  <2>6. wire \o gapped \in Seq(FramesTo(top))
    BY <2>1, <2>4, ConcatProperties
  <2>7. (wire \o gapped) \o Frames("event", replay) \in Seq(FramesTo(top))
    BY <2>3, <2>6, ConcatProperties
  <2>. QED
    BY <2>1, <2>5, <2>7, ConcatProperties
<1>5. UnderWay'
  BY <1>1, <1>4 DEF UnderWay, Answer, server, backlog, rest
<1>6. Placed'
  BY <1>1, ClientKept DEF Answer, client, server, backlog, rest
<1>7. Flagged'
  BY <1>1, Zenon DEF Flagged, Answer, server, backlog, rest
<1>. QED
  BY <1>3, <1>5, <1>6, <1>7 DEF InStep

------------------------------------------------------------------------------
(* The client.                                                             *)

\* What comes off the wire is of the channel, and so is what is left on it.
LEMMA HeadOfWire ==
    ASSUME InStep, wire # <<>>
    PROVE  /\ Head(wire) \in FramesTo(top)
           /\ Tail(wire) \in Seq(FramesTo(top))
BY HeadTailProperties DEF InStep, UnderWay

\* A position taken to join at.
LEMMA JoinedSomewhere ==
    ASSUME Placed, NEW position \in Positions, position # NoPosition
    PROVE  Joined(position) \in Positions /\ Joined(position) # NoPosition
BY DEF Placed, Joined

\* A position of the channel is one to stand at and to join at.
LEMMA StandsAt ==
    ASSUME Numbered, Placed, NEW m \in Marks(top)
    PROVE  /\ m \in Positions /\ m # NoPosition /\ m \in Int /\ m <= top
           /\ Joined(m) \in Positions /\ Joined(m) # NoPosition
<1>1. top \in Int /\ top < First + MaxEvents /\ top \in Marks(top)
  BY LatestIs
<1>2. m \in Positions /\ m # NoPosition /\ m \in Int /\ m <= top
  BY <1>1, MarksArePositions
<1>. QED
  BY <1>2, JoinedSomewhere

\* An event of the channel is one to stand at, and the place before it is one
\* to join at.
LEMMA EventIs ==
    ASSUME Numbered, Placed, NEW e \in First..top
    PROVE  /\ e \in Nat \ {0} /\ e <= top /\ e \in Marks(top)
           /\ e \in Positions /\ e # NoPosition
           /\ Joined(e - 1) \in Positions /\ Joined(e - 1) # NoPosition
<1>1. First \in Nat \ {0} /\ top \in Nat /\ top < First + MaxEvents
  BY RealtimeAssumption, LatestIs
<1>2. e \in Nat \ {0} /\ e <= top /\ e \in Marks(top)
  BY <1>1 DEF Marks
<1>3. e - 1 \in Positions /\ e - 1 # NoPosition /\ e \in Positions /\ e # NoPosition
  BY <1>1, <1>2, RealtimeAssumption DEF Positions, Seqs, NoPosition
<1>. QED
  BY <1>2, <1>3, JoinedSomewhere

\* The client's own position is one a subscription can carry.
LEMMA SeenIsPosition == ASSUME Numbered, Placed PROVE seen \in Positions
BY LatestIs, MarksArePositions DEF Placed, Positions

\* An event taken from the socket moves the client by one or opens a gap.
LEMMA ReceiveEventKeeps == InStep /\ ReceiveEvent => InStep'
<1> SUFFICES ASSUME InStep, ReceiveEvent PROVE InStep'
  OBVIOUS
<1>1. Numbered /\ UnderWay /\ Placed /\ Flagged
  BY DEF InStep
<1>2. PICK e : e = Head(wire).seq
  OBVIOUS
<1>3. e \in First..top
  BY <1>2, HeadOfWire DEF ReceiveEvent, FramesTo
<1>4. Numbered'
  <2>1. covered' \in {covered, top} /\ UNCHANGED server
    BY DEF ReceiveEvent, client, Resynced
  <2>2. {leapt', unread'} \subseteq Marks(top)
    <3>1. leapt' \in {leapt, e} /\ unread' = unread
      BY <1>2 DEF ReceiveEvent, Leaps, client, rest
    <3>. QED
      BY <1>1, <1>3, <3>1 DEF Numbered, Marks
  <2>. QED
    BY <1>1, <2>1, <2>2, ServerKept
<1>5. UnderWay'
  <2>1. Subscription(seen) \in HandlersTo(top)
    BY <1>1, SeenIsPosition, SubscriptionBegins
  <2>2. handlers' \subseteq HandlersTo(top)
    BY <1>1, <2>1 DEF UnderWay, ReceiveEvent
  <2>3. wire' \in Seq(FramesTo(top))
    BY HeadOfWire DEF ReceiveEvent
  <2>. QED
    BY <1>1, <2>2, <2>3 DEF UnderWay, ReceiveEvent, server, backlog, rest
<1>6. Placed'
  <2>1. CASE seen' = e /\ taken' = taken \union {e} /\ base' = Joined(e - 1)
    BY <1>1, <1>3, <2>1, EventIs DEF Placed, ReceiveEvent, server, backlog, rest
  <2>2. CASE UNCHANGED <<seen, taken, base>>
    BY <1>1, <2>2, ClientKept DEF ReceiveEvent, server, backlog, rest
  <2>. QED
    BY <1>2, <2>1, <2>2 DEF ReceiveEvent, client
<1>7. Flagged'
  BY <1>1, Zenon DEF Flagged, ReceiveEvent, server, backlog, rest
<1>. QED
  BY <1>4, <1>5, <1>6, <1>7 DEF InStep

\* A gap told by the server resynchronises the client, and loses nothing.
LEMMA ReceiveGapKeeps == InStep /\ ReceiveGap => InStep'
<1> SUFFICES ASSUME InStep, ReceiveGap PROVE InStep'
  OBVIOUS
<1>1. Numbered /\ UnderWay /\ Placed /\ Flagged
  BY DEF InStep
<1>2. PICK m : m = Head(wire).seq
  OBVIOUS
<1>3. m \in Marks(top)
  BY <1>2, HeadOfWire DEF ReceiveGap, FramesTo
<1>4. Numbered'
  <2>1. covered' = top /\ UNCHANGED server
    BY DEF ReceiveGap, Resynced
  <2>2. {leapt', unread'} \subseteq Marks(top)
    BY <1>1 DEF ReceiveGap, rest, Numbered
  <2>. QED
    BY <1>1, <2>1, <2>2, ServerKept
<1>5. UnderWay'
  BY <1>1, HeadOfWire DEF UnderWay, ReceiveGap, server, backlog, rest
<1>6. Placed'
  BY <1>1, <1>2, <1>3, StandsAt DEF Placed, ReceiveGap, server, backlog, rest
<1>7. Flagged'
  BY <1>1, Zenon DEF Flagged, ReceiveGap, server, backlog, rest
<1>. QED
  BY <1>4, <1>5, <1>6, <1>7 DEF InStep

\* A welcome places a client that had no place.
LEMMA ReceiveWelcomeKeeps == InStep /\ ReceiveWelcome => InStep'
<1> SUFFICES ASSUME InStep, ReceiveWelcome PROVE InStep'
  OBVIOUS
<1>1. Numbered /\ UnderWay /\ Placed /\ Flagged
  BY DEF InStep
<1>2. PICK m : m = Head(wire).seq
  OBVIOUS
<1>3. m \in Marks(top)
  BY <1>2, HeadOfWire DEF ReceiveWelcome, FramesTo
<1>4. Numbered'
  <2>1. covered' = covered /\ UNCHANGED server
    BY DEF ReceiveWelcome
  <2>2. {leapt', unread'} \subseteq Marks(top)
    <3>1. leapt' \in {leapt, m} /\ unread' = unread
      BY <1>2 DEF ReceiveWelcome, Leaps, rest
    <3>. QED
      BY <1>1, <1>3, <3>1 DEF Numbered
  <2>. QED
    BY <1>1, <2>1, <2>2, ServerKept
<1>5. UnderWay'
  BY <1>1, HeadOfWire DEF UnderWay, ReceiveWelcome, server, backlog, rest
<1>6. Placed'
  <2>1. CASE seen' = m /\ base' = Joined(m)
    BY <1>1, <1>3, <2>1, StandsAt DEF Placed, ReceiveWelcome, server, backlog, rest
  <2>2. CASE UNCHANGED <<seen, base>>
    BY <1>1, <2>2, ClientKept DEF ReceiveWelcome, server, backlog, rest
  <2>. QED
    BY <1>2, <2>1, <2>2 DEF ReceiveWelcome
<1>7. Flagged'
  BY <1>1, Zenon DEF Flagged, ReceiveWelcome, server, backlog, rest
<1>. QED
  BY <1>4, <1>5, <1>6, <1>7 DEF InStep

\* A socket that opens asks for what follows the client's place.
LEMMA OpenKeeps == InStep /\ Open => InStep'
<1> SUFFICES ASSUME InStep, Open PROVE InStep'
  OBVIOUS
<1>1. Numbered /\ UnderWay /\ Placed /\ Flagged
  BY DEF InStep
<1>2. Numbered'
  BY <1>1, NumbersKept DEF Open, rest
<1>3. Subscription(seen) \in HandlersTo(top)
  BY <1>1, SeenIsPosition, SubscriptionBegins
<1>4. UnderWay'
  BY <1>1, <1>3 DEF UnderWay, Open, server, backlog, rest
<1>5. Placed'
  BY <1>1, ClientKept DEF Open, client, server, backlog, rest
<1>6. Flagged'
  BY <1>1, Zenon DEF Flagged, Open, server, backlog, rest
<1>. QED
  BY <1>2, <1>4, <1>5, <1>6 DEF InStep

\* A socket that closes takes its frames and its handler with it.
LEMMA CloseKeeps == InStep /\ Close => InStep'
<1> SUFFICES ASSUME InStep, Close PROVE InStep'
  OBVIOUS
<1>1. Numbered /\ UnderWay /\ Placed /\ Flagged
  BY DEF InStep
<1>2. Numbered'
  BY <1>1, NumbersKept DEF Close, rest
<1>3. UnderWay'
  BY <1>1, EmptySeq DEF UnderWay, Close, server, backlog, rest
<1>4. Placed'
  BY <1>1, ClientKept DEF Close, client, server, backlog, rest
<1>5. Flagged'
  <2>1. faults' \in 0..MaxFaults
    BY <1>1, RealtimeAssumption DEF Flagged, Close, Fault
  <2>2. socket' \in BOOLEAN /\ live' \in BOOLEAN
    BY Zenon DEF Close
  <2>. QED
    BY <2>1, <2>2, Zenon DEF Flagged
<1>. QED
  BY <1>2, <1>3, <1>4, <1>5 DEF InStep

------------------------------------------------------------------------------
(* The fallback.                                                           *)

\* Each step of a poll leaves one that its channel bounds.
LEMMA PollMoves ==
    ASSUME Numbered, NEW p \in PollsTo(top), NEW found \in Runs(top) \union {{}}
    PROVE  /\ p.step = "asked" =>
                 /\ Verdict(p.since) = "events" =>
                        [Resumed(p) EXCEPT !.step = "reading"] \in PollsTo(top)
                 /\ Verdict(p.since) # "events" =>
                        [Resumed(p) EXCEPT !.step = "answered"] \in PollsTo(top)
           /\ p.step = "reading" =>
                 [p EXCEPT !.step = "answered", !.since = NoPosition, !.events = found]
                     \in PollsTo(top)
<1>. top \in Int /\ top < First + MaxEvents
  BY LatestIs
<1>1. PICK position, answer, hi :
          /\ position = IF Verdict(p.since) = "events" THEN PositionOf(p.since) ELSE NoPosition
          /\ answer = Verdict(p.since)
          /\ hi = latest
  OBVIOUS
<1>2. /\ p \in Poll /\ position \in Positions /\ answer \in Answers
      /\ hi \in Marks(top) /\ hi \in Seqs
      /\ (answer = "events" => position # NoPosition) /\ NoPosition \in Positions
  BY <1>1, BoundsRead, MarksArePositions DEF Poll, PollsTo, Positions, NoPosition
<1>3. ASSUME NEW step \in {"reading", "answered"}, p.step = "asked",
             step = "reading" <=> answer = "events"
      PROVE  [Resumed(p) EXCEPT !.step = step] \in PollsTo(top)
  <2>1. PICK q : q = [p EXCEPT !.answer = answer, !.hi = hi, !.since = position, !.step = step]
    OBVIOUS
  <2>2. q \in Poll /\ q.hi = hi /\ q.step = step /\ q.since = position /\ q.events = p.events
    BY <1>2, <2>1 DEF Poll
  <2>3. p.events \in Runs(top) \union {{}}
    BY DEF PollsTo
  <2>4. q \in PollsTo(top)
    BY <1>2, <1>3, <2>2, <2>3 DEF PollsTo
  <2>5. [Resumed(p) EXCEPT !.step = step] = q
    BY <1>1, <1>2, <2>1 DEF Resumed, Poll
  <2>. QED
    BY <2>4, <2>5
<1>4. found \in SUBSET Seqs
  BY RealtimeAssumption DEF Runs, Seqs
<1>5. PICK r : r = [p EXCEPT !.step = "answered", !.since = NoPosition, !.events = found]
  OBVIOUS
<1>6. r \in Poll /\ r.step = "answered" /\ r.hi = p.hi /\ r.events = found
  BY <1>2, <1>4, <1>5 DEF Poll
<1>. QED
  BY <1>1, <1>3, <1>5, <1>6 DEF PollsTo

\* A poll begins from where the client stands.
LEMMA AskBegins ==
    ASSUME NEW n, NEW position \in Positions
    PROVE  [since |-> position, step |-> "asked", answer |-> "none", hi |-> 0, events |-> {}]
               \in PollsTo(n)
<1>1. PICK p : p = [since |-> position, step |-> "asked", answer |-> "none", hi |-> 0, events |-> {}]
  OBVIOUS
<1>2. 0 \in Seqs
  BY RealtimeAssumption DEF Seqs
<1>3. p \in Poll /\ p.step = "asked"
  BY <1>1, <1>2 DEF Poll, Answers
<1>. QED
  BY <1>1, <1>3 DEF PollsTo

\* A poll sent changes nothing but the polls.
LEMMA AskKeeps == InStep /\ Ask => InStep'
<1> SUFFICES ASSUME InStep, Ask PROVE InStep'
  OBVIOUS
<1>1. Numbered /\ UnderWay /\ Placed /\ Flagged
  BY DEF InStep
<1>2. Numbered'
  BY <1>1, NumbersKept DEF Ask, rest
<1>3. UnderWay'
  <2>1. PICK p : p = [since |-> seen, step |-> "asked", answer |-> "none", hi |-> 0, events |-> {}]
    OBVIOUS
  <2>2. p \in PollsTo(top)
    BY <1>1, <2>1, SeenIsPosition, AskBegins
  <2>. QED
    BY <1>1, <2>1, <2>2 DEF UnderWay, Ask, server, backlog, rest
<1>4. Placed'
  BY <1>1, ClientKept DEF Ask, client, server, backlog, rest
<1>5. Flagged'
  BY <1>1, Zenon DEF Flagged, Ask, server, backlog, rest
<1>. QED
  BY <1>2, <1>3, <1>4, <1>5 DEF InStep

\* The bounds a poll reads are those of the backlog at that moment.
LEMMA PollBoundsKeeps == ASSUME InStep, NEW p \in polls, PollBounds(p) PROVE InStep'
<1>1. Numbered /\ UnderWay /\ Placed /\ Flagged
  BY DEF InStep
<1>2. Numbered'
  BY <1>1, NumbersKept DEF PollBounds, rest
<1>3. UnderWay'
  <2>1. PICK found : found = {}
    OBVIOUS
  <2>2. p \in PollsTo(top) /\ p.step = "asked"
    BY <1>1 DEF UnderWay, PollBounds
  <2>3. PICK q : /\ q \in PollsTo(top)
                 /\ polls' = (polls \ {p}) \union {q}
    BY <1>1, <2>1, <2>2, PollMoves DEF PollBounds
  <2>. QED
    BY <1>1, <2>3 DEF UnderWay, PollBounds, server, backlog
<1>4. Placed'
  BY <1>1, ClientKept DEF PollBounds, client, server, backlog, rest
<1>5. Flagged'
  BY <1>1, Zenon DEF Flagged, PollBounds, server, backlog, rest
<1>. QED
  BY <1>2, <1>3, <1>4, <1>5 DEF InStep

\* The events a poll reads are a run, from the client's place or the backlog's.
LEMMA PollReadKeeps == ASSUME InStep, NEW p \in polls, PollRead(p) PROVE InStep'
<1>1. Numbered /\ UnderWay /\ Placed /\ Flagged
  BY DEF InStep
<1>2. Numbered'
  BY <1>1, NumbersKept DEF PollRead, rest
<1>3. UnderWay'
  <2>1. p \in PollsTo(top) /\ p.step = "reading"
    BY <1>1 DEF UnderWay, PollRead
  <2>2. p.since \in Nat
    BY <2>1, RealtimeAssumption DEF PollsTo, Poll, Positions, Seqs, NoPosition
  <2>3. PICK found : found = Held(p.since)
    OBVIOUS
  <2>4. found \in Runs(top) \union {{}}
    <3>1. found = {} \/ \E a \in First..top : a <= top /\ found = a..top
      BY <1>1, <2>2, <2>3, HeldIsRun
    <3>2. ASSUME NEW a \in First..top, a <= top, found = a..top
          PROVE  found \in Runs(top)
      BY <1>1, <3>2, LatestIs, RealtimeAssumption DEF Runs
    <3>. QED
      BY <3>1, <3>2
  <2>5. PICK q : q = [p EXCEPT !.step = "answered", !.since = NoPosition, !.events = found]
    OBVIOUS
  <2>6. q \in PollsTo(top)
    BY <1>1, <2>1, <2>4, <2>5, PollMoves
  <2>7. polls' = (polls \ {p}) \union {q}
    BY <2>3, <2>5 DEF PollRead
  <2>. QED
    BY <1>1, <2>6, <2>7 DEF UnderWay, PollRead, server, backlog
<1>4. Placed'
  BY <1>1, ClientKept DEF PollRead, client, server, backlog, rest
<1>5. Flagged'
  BY <1>1, Zenon DEF Flagged, PollRead, server, backlog, rest
<1>. QED
  BY <1>2, <1>3, <1>4, <1>5 DEF InStep

\* A poll that is lost changes nothing but the polls.
LEMMA PollLostKeeps == ASSUME InStep, NEW p \in polls, PollLost(p) PROVE InStep'
<1>1. Numbered /\ UnderWay /\ Placed /\ Flagged
  BY DEF InStep
<1>2. Numbered'
  BY <1>1, NumbersKept DEF PollLost, rest
<1>3. UnderWay'
  BY <1>1 DEF UnderWay, PollLost, server, backlog, rest
<1>4. Placed'
  BY <1>1, ClientKept DEF PollLost, client, server, backlog, rest
<1>5. Flagged'
  BY <1>1, Zenon DEF Flagged, PollLost, server, backlog, rest
<1>. QED
  BY <1>2, <1>3, <1>4, <1>5 DEF InStep

\* What an answered run gives the client: nothing, or a run that ends where it
\* does and that leaves no number out between the client's position and it.
LEMMA UnseenOfRun ==
    ASSUME Numbered, Placed, NEW a \in First..top, NEW b \in First..top, a <= b
    PROVE  \/ Unseen(a..b) = {} /\ seen # NoPosition
           \/ /\ Unseen(a..b) # {} /\ Unseen(a..b) \subseteq First..top
              /\ Highest(Unseen(a..b)) = b
              /\ seen \in {NoPosition, 0} => Unseen(a..b) = a..b
              /\ seen \notin {NoPosition, 0} => Unseen(a..b) = (seen + 1)..b
<1>. First \in Nat \ {0} /\ top \in Nat /\ a \in Nat /\ b \in Nat
  BY RealtimeAssumption, LatestIs
<1>1. CASE seen \in {NoPosition, 0}
  <2>1. Unseen(a..b) = a..b
    BY <1>1 DEF Unseen
  <2>2. a..b # {} /\ a..b \subseteq First..top
    OBVIOUS
  <2>3. Highest(a..b) = b
    BY BoundsOfRun
  <2>. QED
    BY <1>1, <2>1, <2>2, <2>3
<1>2. CASE seen \notin {NoPosition, 0} /\ seen + 1 \in a..b
  <2>1. seen \in Int
    BY <1>2, RealtimeAssumption DEF Placed, Marks
  <2>2. Unseen(a..b) = (seen + 1)..b
    BY <1>2, <2>1 DEF Unseen
  <2>3. seen + 1 <= b /\ seen + 1 \in Int /\ (seen + 1)..b \subseteq First..top
    BY <1>2, <2>1
  <2>4. Highest((seen + 1)..b) = b
    BY <2>3, BoundsOfRun
  <2>. QED
    BY <1>2, <2>2, <2>3, <2>4
<1>3. CASE seen \notin {NoPosition, 0} /\ seen + 1 \notin a..b
  BY <1>3 DEF Unseen
<1>. QED
  BY <1>1, <1>2, <1>3

\* Events a poll brings move the client on, or are old and dropped.
LEMMA PollEventsKeeps == ASSUME InStep, NEW p \in polls, PollEvents(p) PROVE InStep'
<1>1. Numbered /\ UnderWay /\ Placed /\ Flagged
  BY DEF InStep
<1>2. PICK a, b \in First..top : a <= b /\ p.events = a..b
  BY <1>1 DEF PollEvents, UnderWay, PollsTo, Runs
<1>3. Numbered'
  <2>1. covered' \in {covered, top} /\ UNCHANGED server
    BY DEF PollEvents
  <2>2. {leapt', unread'} \subseteq Marks(top)
    <3>1. Highest(p.events) = b
      BY <1>2, BoundsOfRun, RealtimeAssumption
    <3>2. leapt' \in {leapt, b} /\ unread' = unread
      BY <3>1 DEF PollEvents, Leaps, rest
    <3>. QED
      BY <1>1, <3>2 DEF Numbered, Marks
  <2>. QED
    BY <1>1, <2>1, <2>2, ServerKept
<1>4. UnderWay'
  BY <1>1 DEF UnderWay, PollEvents, server, backlog, rest
<1>5. Placed'
  <2>1. PICK new : new = Unseen(p.events)
    OBVIOUS
  <2>2. Lowest(p.events) = a
    BY <1>2, BoundsOfRun, RealtimeAssumption
  <2>3. /\ taken' = taken \union new
        /\ seen' = IF new = {} THEN seen ELSE Highest(new)
        /\ base' = Joined(a - 1)
    BY <2>1, <2>2 DEF PollEvents
  <2>4. top' = top
    BY DEF PollEvents, server, backlog, rest
  <2>5. CASE new = {}
    <3>1. seen # NoPosition
      BY <1>1, <1>2, <2>1, <2>5, UnseenOfRun
    <3>2. UNCHANGED <<seen, base, taken>>
      BY <1>1, <2>3, <2>5, <3>1 DEF Placed, Joined
    <3>. QED
      BY <1>1, <2>4, <3>2, ClientKept
  <2>6. CASE new # {}
    <3>1. new \subseteq First..top /\ Highest(new) = b
      BY <1>1, <1>2, <2>1, <2>6, UnseenOfRun
    <3>2. b \in Marks(top) /\ b # NoPosition
          /\ Joined(a - 1) \in Positions /\ Joined(a - 1) # NoPosition
      BY <1>1, EventIs
    <3>. QED
      BY <1>1, <2>3, <2>4, <2>6, <3>1, <3>2 DEF Placed
  <2>. QED
    BY <2>5, <2>6
<1>6. Flagged'
  BY <1>1, Zenon DEF Flagged, PollEvents, server, backlog, rest
<1>. QED
  BY <1>3, <1>4, <1>5, <1>6 DEF InStep

\* An answer without events places the client, or resynchronises it.
LEMMA PollNothingKeeps == ASSUME InStep, NEW p \in polls, PollNothing(p) PROVE InStep'
<1>1. Numbered /\ UnderWay /\ Placed /\ Flagged
  BY DEF InStep
<1>2. PICK m : m = p.hi
  OBVIOUS
<1>3. m \in Marks(top)
  BY <1>1, <1>2 DEF PollNothing, UnderWay, PollsTo
<1>4. Numbered'
  <2>1. covered' \in {covered, top} /\ UNCHANGED server
    BY DEF PollNothing, Resynced
  <2>2. {leapt', unread'} \subseteq Marks(top)
    <3>1. leapt' \in {leapt, m} /\ unread' = unread
      BY <1>2 DEF PollNothing, Leaps, rest
    <3>. QED
      BY <1>1, <1>3, <3>1 DEF Numbered
  <2>. QED
    BY <1>1, <2>1, <2>2, ServerKept
<1>5. UnderWay'
  BY <1>1 DEF UnderWay, PollNothing, server, backlog, rest
<1>6. Placed'
  <2>1. CASE seen' = m /\ base' = Joined(m)
    BY <1>1, <1>3, <2>1, StandsAt DEF Placed, PollNothing, server, backlog, rest
  <2>2. CASE UNCHANGED <<seen, base>>
    BY <1>1, <2>2, ClientKept DEF PollNothing, server, backlog, rest
  <2>. QED
    BY <1>2, <2>1, <2>2 DEF PollNothing
<1>7. Flagged'
  BY <1>1, Zenon DEF Flagged, PollNothing, server, backlog, rest
<1>. QED
  BY <1>4, <1>5, <1>6, <1>7 DEF InStep

------------------------------------------------------------------------------
(* The theorems.                                                           *)

\* No step leaves the invariant.
LEMMA InStepStep == InStep /\ [Next]_vars => InStep'
<1> SUFFICES ASSUME InStep, [Next]_vars PROVE InStep'
  OBVIOUS
<1>1. CASE Publish
  BY <1>1, PublishKeeps
<1>11. CASE Expire
  BY <1>11, ExpireKeeps
<1>2. CASE Broadcasts
  BY <1>2, FanOutKeeps DEF Broadcasts
<1>3. CASE Gateway
  BY <1>3, AuthorisedKeeps, ReadBoundsKeeps, AnswerKeeps DEF Gateway
<1>4. CASE Receive
  BY <1>4, ReceiveEventKeeps, ReceiveGapKeeps, ReceiveWelcomeKeeps DEF Receive
<1>5. CASE Open
  BY <1>5, OpenKeeps
<1>6. CASE Close
  BY <1>6, CloseKeeps
<1>7. CASE Ask
  BY <1>7, AskKeeps
<1>8. CASE Fallback
  BY <1>8, PollBoundsKeeps, PollReadKeeps, PollEventsKeeps, PollNothingKeeps DEF Fallback
<1>9. CASE \E p \in polls : PollLost(p)
  BY <1>9, PollLostKeeps
<1>10. CASE UNCHANGED vars
  BY <1>10 DEF InStep, Flagged, Numbered, UnderWay, Placed, vars
<1>. QED
  BY <1>1, <1>2, <1>3, <1>4, <1>5, <1>6, <1>7, <1>8, <1>9, <1>10, <1>11 DEF Next

\* The invariant holds for ever.
LEMMA InStepAlways == Spec => []InStep
<1>. QED
  BY InStepInit, InStepStep, PTL DEF Spec

\* The invariant types every variable.
LEMMA InStepTyped == InStep => TypeOK
<1> SUFFICES ASSUME InStep PROVE TypeOK
  OBVIOUS
<1>1. Numbered /\ UnderWay /\ Placed /\ Flagged
  BY DEF InStep
<1>2. top \in Nat /\ top < First + MaxEvents /\ top \in Marks(top)
  BY <1>1, LatestIs
<1>3. First..top \subseteq Seqs /\ 0..top \subseteq Seqs
  BY <1>2, RealtimeAssumption DEF Seqs
<1>4. Marks(top) \subseteq Seqs
  BY <1>2, MarksArePositions
<1>5. /\ {oldest, latest, first, top, covered, leapt, unread, announced} \subseteq Seqs
      /\ fanout \subseteq Seqs
  <2>1. latest \in Marks(top) /\ {oldest, first, top} \subseteq Marks(top)
    BY <1>1, <1>2 DEF Numbered, Marks
  <2>2. {covered, leapt, unread, announced} \subseteq Marks(top) /\ fanout \subseteq First..top
    BY <1>1 DEF Numbered
  <2>. QED
    BY <1>3, <1>4, <2>1, <2>2
<1>6. handlers \subseteq Handler /\ polls \subseteq Poll
  BY <1>1 DEF UnderWay, HandlersTo, PollsTo
<1>7. wire \in Seq(Frame)
  <2>1. FramesTo(top) \subseteq Frame
    BY <1>3, <1>4 DEF FramesTo, Frame
  <2>. QED
    BY <1>1, <2>1, SeqMonotonic DEF UnderWay
<1>8. seen \in Positions /\ taken \subseteq Seqs /\ base \in Positions
  BY <1>1, <1>3, SeenIsPosition DEF Placed
<1>. QED
  BY <1>1, <1>5, <1>6, <1>7, <1>8 DEF TypeOK, Flagged

\* Every variable keeps its type: no number runs past the channel's, and what
\* is on the wire, in a handler or in a poll is of the program's kinds.
THEOREM TypeCorrect == Spec => []TypeOK
BY InStepAlways, InStepTyped, PTL

\* Every step of the socket, the polls and their answers, however late, hands
\* the product what it passes over, tells it to fetch its own state, or moves it
\* out of 0.
LEMMA NothingPassedOver ==
    ASSUME InStep, NoEventSteppedOver, [Next]_vars
    PROVE  NoEventSteppedOver'
<1>1. Numbered /\ UnderWay /\ Placed /\ Flagged
  BY DEF InStep
<1>. First \in Nat \ {0} /\ top \in Nat /\ NoPosition = -1
  BY <1>1, LatestIs, RealtimeAssumption DEF NoPosition
<1>2. /\ \A m \in Marks(top) : m \in Nat /\ m <= top
      /\ covered \in Nat /\ leapt \in Nat /\ covered <= top
  BY <1>1, RealtimeAssumption DEF Marks, Numbered
<1>3. seen = NoPosition \/ seen = 0 \/ seen \in First..top
  BY <1>1, RealtimeAssumption DEF Placed, Marks
<1>4. base \in Int /\ (seen = NoPosition <=> base = NoPosition)
  BY <1>1, RealtimeAssumption DEF Placed, Positions, Seqs
\* A client that stays, and one told, whatever it is told of.
<1>5. ASSUME seen' = seen, base' = base, taken \subseteq taken',
             covered' \in {covered, top}, leapt' \in Int, leapt' >= leapt
      PROVE  NoEventSteppedOver'
  BY <1>2, <1>5 DEF NoEventSteppedOver, Passed, Accounted, Seqs
<1>6. ASSUME NEW m \in Marks(top), seen' = m, base' = Joined(m), taken' = taken,
             \/ covered' = top
             \/ covered' = covered /\ seen \in {NoPosition, 0}
                    /\ leapt' = IF seen = 0 /\ m > leapt THEN m ELSE leapt
      PROVE  NoEventSteppedOver'
  <2>1. m \in Nat /\ m <= top
    BY <1>2
  <2>2. CASE covered' = top
    BY <1>6, <2>1, <2>2 DEF NoEventSteppedOver, Passed, Accounted, Seqs
  <2>3. CASE seen = NoPosition
    <3>1. base' = m
      BY <1>4, <1>6, <2>3 DEF Joined
    <3>. QED
      BY <1>6, <2>1, <3>1 DEF NoEventSteppedOver, Passed, Accounted, Seqs
  <2>4. CASE seen = 0 /\ leapt' = IF m > leapt THEN m ELSE leapt
    <3>1. leapt' >= m
      BY <1>2, <2>1, <2>4
    <3>. QED
      BY <1>2, <1>6, <2>1, <3>1 DEF NoEventSteppedOver, Passed, Accounted, Seqs
  <2>. QED
    BY <1>3, <1>6, <2>2, <2>3, <2>4
<1>7. CASE ReceiveEvent
  <2>1. PICK e : e = Head(wire).seq
    OBVIOUS
  <2>2. e \in First..top
    BY <1>7, <2>1, HeadOfWire DEF ReceiveEvent, FramesTo
  <2>3. CASE /\ Offer(e) = "take" /\ seen' = e /\ taken' = taken \union {e}
             /\ base' = Joined(e - 1) /\ covered' = covered /\ Leaps(e)
    <3>1. seen = NoPosition \/ seen = 0 \/ (e = seen + 1 /\ base' = base)
      BY <1>3, <1>4, <2>3 DEF Offer, Joined
    <3>2. CASE seen = NoPosition
      <4>1. base' = e - 1
        BY <1>4, <2>3, <3>2 DEF Joined
      <4>. QED
        BY <2>2, <2>3, <4>1 DEF NoEventSteppedOver, Passed, Accounted, Seqs
    <3>3. CASE seen = 0
      <4>1. leapt' >= e
        BY <1>2, <2>2, <2>3, <3>3 DEF Leaps
      <4>2. leapt' \in Int
        BY <1>2, <2>2, <2>3 DEF Leaps
      <4>. QED
        BY <2>2, <2>3, <4>1, <4>2 DEF NoEventSteppedOver, Passed, Accounted, Seqs
    <3>4. CASE seen \in First..top /\ e = seen + 1 /\ base' = base
      <4>1. leapt' = leapt
        BY <2>3, <3>4 DEF Leaps
      <4>. QED
        BY <1>2, <1>4, <2>2, <2>3, <3>4, <4>1
           DEF NoEventSteppedOver, Passed, Accounted, Seqs
    <3>. QED
      BY <1>3, <3>1, <3>2, <3>3, <3>4
  <2>4. CASE UNCHANGED <<seen, base, taken, leapt>> /\ covered' \in {covered, top}
    BY <1>2, <1>5, <2>4
  <2>. QED
    BY <1>7, <2>1, <2>3, <2>4 DEF ReceiveEvent, client, Resynced
<1>8. CASE ReceiveGap
  <2>1. Head(wire).seq \in Marks(top)
    BY <1>8, HeadOfWire DEF ReceiveGap, FramesTo
  <2>. QED
    BY <1>6, <1>8, <2>1 DEF ReceiveGap, Resynced
<1>9. CASE ReceiveWelcome
  <2>1. Head(wire).seq \in Marks(top)
    BY <1>9, HeadOfWire DEF ReceiveWelcome, FramesTo
  <2>. QED
    BY <1>2, <1>5, <1>6, <1>9, <2>1 DEF ReceiveWelcome, Leaps
<1>10. ASSUME NEW p \in polls, PollEvents(p)
       PROVE  NoEventSteppedOver'
  <2>1. PICK a, b \in First..top : a <= b /\ p.events = a..b
    BY <1>1, <1>10 DEF PollEvents, UnderWay, PollsTo, Runs
  <2>2. PICK new : new = Unseen(p.events)
    OBVIOUS
  <2>3. Lowest(p.events) = a /\ Highest(p.events) = b
    BY <2>1, BoundsOfRun, RealtimeAssumption
  <2>4. /\ taken' = taken \union new
        /\ seen' = IF new = {} THEN seen ELSE Highest(new)
        /\ base' = Joined(a - 1)
        /\ covered' \in {covered, top}
        /\ leapt' = IF seen = 0 /\ b > leapt THEN b ELSE leapt
    BY <1>10, <2>2, <2>3 DEF PollEvents, Leaps
  <2>5. leapt' \in Int /\ leapt' >= leapt /\ covered' \in Int /\ covered' >= covered
    BY <1>2, <2>1, <2>4
  <2>6. CASE new = {}
    <3>1. seen # NoPosition
      BY <1>1, <2>1, <2>2, <2>6, UnseenOfRun
    <3>2. seen' = seen /\ base' = base
      BY <1>4, <2>4, <2>6, <3>1 DEF Joined
    <3>. QED
      BY <1>5, <2>4, <2>5, <3>2
  <2>7. CASE new # {} /\ seen = NoPosition
    <3>1. new = a..b /\ seen' = b
      BY <1>1, <2>1, <2>2, <2>4, <2>7, UnseenOfRun
    <3>2. base' = a - 1
      BY <1>4, <2>4, <2>7 DEF Joined
    <3>. QED
      BY <2>1, <2>4, <3>1, <3>2 DEF NoEventSteppedOver, Passed, Accounted, Seqs
  <2>8. CASE new # {} /\ seen = 0
    <3>1. seen' = b /\ leapt' >= b
      BY <1>1, <1>2, <2>1, <2>2, <2>4, <2>8, UnseenOfRun
    <3>. QED
      BY <2>1, <2>5, <3>1 DEF NoEventSteppedOver, Passed, Accounted, Seqs
  <2>9. CASE new # {} /\ seen \in First..top
    <3>1. new = (seen + 1)..b /\ seen' = b
      BY <1>1, <2>1, <2>2, <2>4, <2>9, UnseenOfRun
    <3>2. base' = base
      BY <1>4, <2>4, <2>9 DEF Joined
    <3>3. ASSUME NEW e \in Passed'
          PROVE  Accounted(e)' \/ e <= leapt'
      <4>1. e \in Seqs /\ e >= First /\ base < e /\ e <= b /\ e \in Int
        BY <3>1, <3>2, <3>3 DEF Passed, Seqs
      <4>2. CASE e <= seen
        <5>1. e \in Passed
          BY <1>4, <2>9, <4>1, <4>2, RealtimeAssumption DEF Passed, NoPosition
        <5>2. e \in taken \/ e <= covered \/ e <= leapt
          BY <5>1 DEF NoEventSteppedOver, Accounted
        <5>. QED
          BY <1>2, <2>4, <2>5, <4>1, <5>2 DEF Accounted
      <4>3. CASE e > seen
        <5>1. e \in new
          BY <2>1, <2>9, <3>1, <4>1, <4>3
        <5>. QED
          BY <2>4, <5>1 DEF Accounted
      <4>. QED
        BY <2>9, <4>1, <4>2, <4>3
    <3>. QED
      BY <3>3 DEF NoEventSteppedOver
  <2>. QED
    BY <1>3, <2>6, <2>7, <2>8, <2>9
<1>11. ASSUME NEW p \in polls, PollNothing(p)
       PROVE  NoEventSteppedOver'
  <2>1. p.hi \in Marks(top)
    BY <1>1, <1>11 DEF PollNothing, UnderWay, PollsTo
  <2>. QED
    BY <1>2, <1>5, <1>6, <1>11, <2>1 DEF PollNothing, Resynced, Leaps
<1>12. CASE UNCHANGED client
  BY <1>2, <1>5, <1>12 DEF client
<1>13. CASE Publish \/ Expire \/ Open \/ Close \/ Ask
  BY <1>12, <1>13 DEF Publish, Expire, Open, Close, Ask
<1>14. CASE Broadcasts
  BY <1>12, <1>14 DEF Broadcasts, FanOut
<1>15. CASE Gateway
  BY <1>12, <1>15 DEF Gateway, Authorised, ReadBounds, Answer
<1>16. ASSUME NEW p \in polls, PollBounds(p) \/ PollRead(p) \/ PollLost(p)
       PROVE  NoEventSteppedOver'
  BY <1>12, <1>16 DEF PollBounds, PollRead, PollLost
<1>17. CASE UNCHANGED vars
  BY <1>12, <1>17 DEF vars, client
<1>. QED
  BY <1>7, <1>8, <1>9, <1>10, <1>11, <1>13, <1>14, <1>15, <1>16, <1>17
     DEF Next, Receive, Fallback

\* "A connection that can prove what it has and has not seen": no event between
\* where a client joined and where it stands goes by without being handed to the
\* product or covered by an onResync, unless it went by in the step out of 0 --
\* sockets that close, handlers that answer late, polls that overlap, appends
\* unannounced, and a backlog trimmed and forgotten under them all allowed for.
\* The step out of 0 has to be left out: the run of a channel joined empty shows
\* an event lost in it.
THEOREM NoEventSteppedOverAlways == Spec => []NoEventSteppedOver
<1>1. Init => NoEventSteppedOver
  <2> SUFFICES ASSUME Init PROVE NoEventSteppedOver
    OBVIOUS
  <2>1. base = seen /\ base \in Int
    BY LatestIs, InStepInit, RealtimeAssumption
       DEF Init, InStep, Placed, Positions, Seqs, NoPosition
  <2>. QED
    BY <2>1 DEF NoEventSteppedOver, Passed, Seqs
<1>2. InStep /\ NoEventSteppedOver /\ [Next]_vars => NoEventSteppedOver'
  BY NothingPassedOver
<1>. QED
  BY <1>1, <1>2, InStepAlways, PTL DEF Spec
=============================================================================
