---------------------------- MODULE CalendarSync ----------------------------
(***************************************************************************)
(* packages/calendars: one appointment copied out to one connected         *)
(* calendar (calendars.service.ts), where its owner moves and deletes the  *)
(* copy, and what is busy there is read back.  The connection, the link to *)
(* the copy and the provider have no transaction in common.  What is read  *)
(* back is worked out apart from them (sync.ts and the two providers), and *)
(* comes last.  The count of failures that health is told by is left out.  *)
(***************************************************************************)
EXTENDS Integers, Sequences, SequencesExt, FiniteSetsExt

CONSTANTS
  Callers,         \* calls that may be under way at once
  MaxVersion,      \* of the appointment; 0 is of a copy its owner edited
  MaxEvents,       \* bound on the copies made
  MaxGrants,       \* bound on the consents given
  MaxCalls,        \* bound on the calls ever begun
  NoConnection, NoLink

VARIABLES
  connection,      \* the row of mortar_calendar_connections
  valid,           \* the first of the consents not withdrawn since
  inside,          \* the appointment is in the window that is synced
  link,            \* the row of mortar_calendar_links
  copies,          \* our events in their calendar, and the version of each
  made, grants,    \* copies and consents so far
  call,            \* where each call is
  calls,           \* how many were begun
  pushed,          \* what the last push to end well wrote: 0 for a removal
  undisturbed,     \* no calls overlapped, and none failed half way
  inTurn,          \* no consent or disconnection was written while a call that
                   \* had read the row before had yet to use its tokens
  blocking         \* our own copies that the last pull reported as busy

calendarVars == <<connection, valid, inside, link, copies, made, grants, call, calls,
                  pushed, undisturbed, inTurn, blocking>>

Versions == 1..MaxVersion
Grants == 1..MaxGrants
Connection == [state: {"active", "revoked", "disconnected"}, refresh: {0} \union Grants,
               access: {0} \union Grants, fresh: BOOLEAN]
Link == [id: 1..MaxCalls, copy: 1..MaxEvents, version: Versions]
Idle == [step |-> "idle"]

TypeOK ==
  /\ connection \in Connection \union {NoConnection}
  /\ link \in Link \union {NoLink}
  /\ \A e \in DOMAIN copies : e \in 1..made /\ copies[e] \in 0..MaxVersion
  /\ made \in 0..MaxEvents /\ grants \in 0..MaxGrants /\ valid \in 1..MaxGrants+1
  /\ DOMAIN call = Callers /\ calls \in 0..MaxCalls
  /\ pushed \in 0..MaxVersion /\ undisturbed \in BOOLEAN /\ inTurn \in BOOLEAN /\ inside \in BOOLEAN
  /\ blocking \subseteq 1..MaxEvents

Init ==
  /\ connection = NoConnection /\ valid = 1 /\ inside = TRUE /\ link = NoLink
  /\ copies = [e \in {} |-> 0] /\ made = 0 /\ grants = 0
  /\ call = [c \in Callers |-> Idle] /\ calls = 0
  /\ pushed = 0 /\ undisturbed = TRUE /\ inTurn = TRUE /\ blocking = {}

At(c, step) == call[c].step = step
Goes(c, to) == call' = [call EXCEPT ![c] = to]
Step(c, step) == Goes(c, [call[c] EXCEPT !.step = step])
Without(e) == [f \in DOMAIN copies \ {e} |-> copies[f]]
With(e, version) == [f \in DOMAIN copies \union {e} |-> IF f = e THEN version ELSE copies[f]]

Begins(c, kind, version) ==
  /\ At(c, "idle") /\ calls < MaxCalls
  /\ calls' = calls + 1
  /\ undisturbed' = (undisturbed /\ \A d \in Callers : At(d, "idle"))
  /\ Goes(c, [step |-> "token", kind |-> kind, id |-> calls + 1, version |-> version, row |-> connection, access |-> 0,
              link |-> NoLink, seen |-> [e \in {} |-> 0], copy |-> 0])
  /\ UNCHANGED <<inside, connection, valid, link, copies, made, grants, pushed, inTurn, blocking>>

----------------------------------------------------------------------------
(* The owner *)

\* Nobody but c is between reading the row and writing tokens back to it.
NoneRefreshing(others) == \A d \in others : ~At(d, "token") /\ ~At(d, "tokens")

\* connect(): a consent's tokens in the one row of the subject.
Connect ==
  /\ grants < MaxGrants
  /\ grants' = grants + 1
  /\ connection' = [state |-> "active", refresh |-> grants + 1, access |-> grants + 1, fresh |-> TRUE]
  /\ inTurn' = (inTurn /\ NoneRefreshing(Callers))
  /\ UNCHANGED <<inside, valid, link, copies, made, call, calls, pushed, undisturbed, blocking>>

\* The owner withdraws every consent at the provider; an access token ages; and
\* what we wrote is moved or deleted there (external).
Withdraw ==
  /\ valid' = grants + 1
  /\ UNCHANGED <<inside, connection, link, copies, made, grants, call, calls, pushed, undisturbed, inTurn, blocking>>

Age ==
  /\ connection # NoConnection
  /\ connection' = [connection EXCEPT !.fresh = FALSE]
  /\ UNCHANGED <<inside, valid, link, copies, made, grants, call, calls, pushed, undisturbed, inTurn, blocking>>

\* The days of the appointment leave the window behind.
Passes ==
  /\ inside' = FALSE
  /\ UNCHANGED <<connection, valid, link, copies, made, grants, call, calls, pushed, undisturbed, inTurn, blocking>>

Tamper(e) ==
  /\ copies' = With(e, 0) \/ copies' = Without(e)
  /\ UNCHANGED <<inside, connection, valid, link, made, grants, call, calls, pushed, undisturbed, inTurn, blocking>>

----------------------------------------------------------------------------
(* Calls *)

Active == connection # NoConnection /\ connection.state = "active"

Push(c, version) == Active /\ Begins(c, "push", version)
Pull(c) == Active /\ Begins(c, "pull", 0)
Disconnect(c) == connection # NoConnection /\ Begins(c, "disconnect", 0)

\* The provider is there, or is not, or the process dies with its answer.
Fails(c) ==
  /\ ~At(c, "idle")
  /\ IF call[c].kind = "disconnect" /\ ~At(c, "forget") THEN Step(c, "forget") ELSE Goes(c, Idle)
  /\ undisturbed' = FALSE
  /\ UNCHANGED <<inside, connection, valid, link, copies, made, grants, calls, pushed, inTurn, blocking>>

\* refresh(): invalid_grant is a consent withdrawn; any other answer is a failure.
Consented(read) == read.refresh >= valid

\* freshToken(): the token of the row that was read, or one the provider gives
\* for its refresh token. No consent, no token: disconnect() goes on without, and
\* the others note it.
Token(c) ==
  /\ At(c, "token")
  /\ LET read == call[c].row
         Has(token, step) == Goes(c, [call[c] EXCEPT !.step = step, !.row = NoConnection, !.access = token])
     IN
     IF read.fresh /\ read.access # 0
     THEN Has(read.access, "link") /\ UNCHANGED connection
     ELSE IF Consented(read)
     THEN Has(read.refresh, "tokens") /\ UNCHANGED connection
     ELSE IF call[c].kind = "disconnect"
     THEN Step(c, "forget") /\ UNCHANGED connection
     ELSE /\ connection' = [connection EXCEPT !.state = "revoked"]
          /\ Goes(c, Idle)
  /\ UNCHANGED <<inside, valid, link, copies, made, grants, calls, pushed, undisturbed, inTurn, blocking>>

\* What the provider gave is written to the row whatever it is by now: the
\* access token, and a new refresh token where one came with it, of the consent
\* that was read.
SaveTokens(c) ==
  /\ At(c, "tokens")
  /\ \E refresh \in {connection.refresh, call[c].access} :
       connection' = [connection EXCEPT !.access = call[c].access, !.fresh = TRUE, !.refresh = refresh]
  /\ Step(c, "link")
  /\ UNCHANGED <<inside, valid, link, copies, made, grants, calls, pushed, undisturbed, inTurn, blocking>>

Usable(c) == call[c].access >= valid

\* What events() of a window answers: of ours all but those out of it, and an
\* edited one may have been moved in or out.
Shown(seen) ==
  /\ seen \subseteq DOMAIN copies
  /\ \A e \in DOMAIN copies : copies[e] # 0 => (e \in seen <=> inside)

\* A pull reads their events, then the link; the others read the link.
ReadEvents(c) ==
  /\ At(c, "link") /\ call[c].kind = "pull" /\ Usable(c)
  /\ \E seen \in SUBSET DOMAIN copies :
       /\ Shown(seen)
       /\ Goes(c, [call[c] EXCEPT !.step = "events", !.seen = [e \in seen |-> copies[e]]])
  /\ UNCHANGED <<inside, connection, valid, link, copies, made, grants, calls, pushed, undisturbed, inTurn, blocking>>

InStep(c) == link.copy \in DOMAIN call[c].seen /\ call[c].seen[link.copy] = link.version

\* shouldPush(): neither cancelled nor out of the window.
ShouldPush(c) == call[c].version # 0 /\ inside

ReadLink(c) ==
  /\ At(c, "events") \/ (At(c, "link") /\ call[c].kind # "pull")
  /\ LET removes == call[c].kind = "disconnect" \/ ~ShouldPush(c)
         next == CASE call[c].kind = "pull" -> IF link = NoLink \/ InStep(c) THEN "report" ELSE "upsert"
                   [] link = NoLink /\ removes -> IF call[c].kind = "push" THEN "done" ELSE "forget"
                   [] removes -> "remove"
                   [] OTHER -> "upsert"
     IN  Goes(c, [call[c] EXCEPT !.step = next, !.link = link,
                                 !.copy = IF link = NoLink THEN 0 ELSE link.copy])
  /\ UNCHANGED <<inside, connection, valid, link, copies, made, grants, calls, pushed, undisturbed, inTurn, blocking>>

\* upsert() to either provider: rewritten where it is, and made again where 404
\* or 410 says it is not.
Rewrites(copy) == copy \in DOMAIN copies

\* A pull that has not seen it takes it for deleted, and makes another at once.
Upsert(c) ==
  /\ At(c, "upsert") /\ Usable(c)
  /\ LET pulls == call[c].kind = "pull"
         version == IF pulls THEN call[c].link.version ELSE call[c].version
         copy == call[c].copy
         rewrites == Rewrites(copy) /\ (pulls => copy \in DOMAIN call[c].seen)
     IN  /\ undisturbed' = (undisturbed /\ (pulls /\ Rewrites(copy) => rewrites))
         /\ made' = IF rewrites THEN made ELSE made + 1
         /\ made' <= MaxEvents
         /\ copies' = With(IF rewrites THEN copy ELSE made', version)
         /\ Goes(c, [call[c] EXCEPT !.step = "save", !.copy = IF rewrites THEN copy ELSE made'])
  /\ UNCHANGED <<inside, connection, valid, link, grants, calls, pushed, inTurn, blocking>>

RemoveCopy(c) ==
  /\ At(c, "remove") /\ Usable(c)
  /\ copies' = Without(call[c].copy)
  /\ Step(c, IF call[c].kind = "push" THEN "delete" ELSE "forget")
  /\ UNCHANGED <<inside, connection, valid, link, made, grants, calls, pushed, undisturbed, inTurn, blocking>>

\* Mutant of Relinked: a copy made again keeps the name of the one before.
RelinkedAsWas(c) == link

\* The link a pull leaves says where the copy now is.
Relinked(c) == [link EXCEPT !.copy = call[c].copy]

Same(c) == link # NoLink /\ call[c].link # NoLink /\ link.id = call[c].link.id

\* A push saves the link it found, inserted again where it has gone meanwhile;
\* an insert beside another link is refused. A pull updates that link or none.
SaveLink(c) ==
  /\ At(c, "save")
  /\ IF call[c].kind = "pull"
     THEN /\ link' = IF Same(c) THEN Relinked(c) ELSE link
          /\ Step(c, "report")
          /\ UNCHANGED pushed
     ELSE /\ link = NoLink \/ Same(c)
          /\ link' = [id |-> IF call[c].link = NoLink THEN call[c].id ELSE call[c].link.id,
                      copy |-> call[c].copy, version |-> call[c].version]
          /\ pushed' = call[c].version
          /\ Goes(c, Idle)
  /\ UNCHANGED <<inside, connection, valid, copies, made, grants, calls, undisturbed, inTurn, blocking>>

\* The link goes after the copy, or there was none.
DeleteLink(c) ==
  /\ At(c, "delete") \/ At(c, "done")
  /\ link' = IF At(c, "delete") /\ Same(c) THEN NoLink ELSE link
  /\ pushed' = 0
  /\ Goes(c, Idle)
  /\ UNCHANGED <<inside, connection, valid, copies, made, grants, calls, undisturbed, inTurn, blocking>>

\* busyFrom(): what was seen there, but for our own.
Report(c) ==
  /\ At(c, "report")
  /\ blocking' = DOMAIN call[c].seen \
       {call[c].copy, IF call[c].link = NoLink THEN 0 ELSE call[c].link.copy}
  /\ Goes(c, Idle)
  /\ UNCHANGED <<inside, connection, valid, link, copies, made, grants, calls, pushed, undisturbed, inTurn>>

\* disconnect(): the links go and so do the tokens.
Forget(c) ==
  /\ At(c, "forget")
  /\ link' = NoLink
  /\ connection' = [state |-> "disconnected", refresh |-> 0, access |-> 0, fresh |-> FALSE]
  /\ pushed' = 0
  /\ undisturbed' = (undisturbed /\ (link # NoLink => link.copy \notin DOMAIN copies))
  /\ inTurn' = (inTurn /\ NoneRefreshing(Callers \ {c}))
  /\ Goes(c, Idle)
  /\ UNCHANGED <<inside, valid, copies, made, grants, calls, blocking>>

Next ==
  \/ Connect \/ Withdraw \/ Age \/ Passes
  \/ \E e \in DOMAIN copies : Tamper(e)
  \/ \E c \in Callers :
       \/ \E version \in 0..MaxVersion : Push(c, version)
       \/ Pull(c) \/ Disconnect(c) \/ Token(c) \/ SaveTokens(c) \/ ReadEvents(c) \/ ReadLink(c) \/ Upsert(c)
       \/ RemoveCopy(c) \/ SaveLink(c) \/ DeleteLink(c) \/ Report(c) \/ Forget(c) \/ Fails(c)

Spec == Init /\ [][Next]_calendarVars

----------------------------------------------------------------------------
(* What is read back: an event of theirs has an id, when it is, and whether  *)
(* it is busy and cancelled                                                  *)

\* toEvent() of either provider: without an id or a time, none. Google gives a
\* whole day no time of day, and it is skipped; Graph gives it midnights. Two
\* words of Graph's say that the person may be booked, and one of Google's.
FromGoogle(item) ==
  IF item.id = "" \/ item.span # "hours" THEN {}
  ELSE {[id |-> item.id, starts |-> item.starts, ends |-> item.ends,
         busy |-> item.word # "transparent", cancelled |-> item.status = "cancelled"]}
FromGraph(item) ==
  IF item.id = "" \/ item.span = "none" THEN {}
  ELSE {[id |-> item.id, starts |-> item.starts, ends |-> item.ends,
         busy |-> item.word \notin {"free", "workingElsewhere"}, cancelled |-> item.status = "cancelled"]}

\* offsetOf(): what the zone is ahead of UTC at an instant.
OffsetOf(zone, instant) == IF instant < zone.at THEN zone.before ELSE zone.after

\* instantOf(): the second pass takes the offset of what the first one found.
InstantOf(wall, zone) ==
  LET first == wall - OffsetOf(zone, wall)
  IN  wall - OffsetOf(zone, first)

BlocksTime(event, ours) ==
  event.id \notin ours /\ ~event.cancelled /\ event.busy /\ event.ends > event.starts

\* busyFrom(): in the order they start, each joined to the last it touches.
Joined(merged, period) ==
  IF merged # <<>> /\ period.starts <= Last(merged).ends
  THEN [merged EXCEPT ![Len(merged)].ends = Max({@, period.ends})]
  ELSE Append(merged, period)
BusyFrom(events, ours) ==
  LET kept == {[starts |-> e.starts, ends |-> e.ends] : e \in {one \in events : BlocksTime(one, ours)}}
  IN  FoldLeft(Joined, <<>>, SetToSortSeq(kept, LAMBDA a, b : a.starts < b.starts))

----------------------------------------------------------------------------
\* A connection that is active can be refreshed, however consents, calls and
\* disconnections meet; where none of them overtook a call about to refresh it,
\* its tokens are those of the last consent, and one that is disconnected has
\* none "left lying about"; and where calls followed one another, none failed
\* half way and no pull looked for a copy out of the window it reads, which it
\* takes for deleted and makes again, every copy of ours out there is the one the link names, the link
\* says what was last pushed, and no pull takes a copy of ours for time of
\* theirs, which "would block the slot the appointment already occupies".
OneCopyKnown ==
  /\ Active => connection.refresh # 0
  /\ inTurn /\ connection # NoConnection =>
       IF connection.state = "disconnected" THEN connection.refresh = 0 /\ connection.access = 0
       ELSE connection.refresh = grants /\ connection.access = grants
  /\ undisturbed /\ (\A c \in Callers : At(c, "idle")) =>
       /\ DOMAIN copies \subseteq {IF link = NoLink THEN 0 ELSE link.copy}
       /\ pushed = IF link = NoLink THEN 0 ELSE link.version
       /\ blocking = {}

\* The busy time handed over is the time of the events that block, each moment
\* once and nothing of ours, in periods apart from one another, whichever
\* provider told of them; but a day of Google's does not close the diary, and
\* one of Graph's does.
BusyIsTheirs(items, ours) ==
  \A From \in {"google", "graph"} :
    LET events == UNION {IF From = "google" THEN FromGoogle(item) ELSE FromGraph(item) : item \in items}
        busy == BusyFrom(events, ours)
    IN  /\ \A i \in 1..(Len(busy) - 1) : busy[i].ends < busy[i + 1].starts
        /\ \A at \in 0..8 :
             (\E i \in DOMAIN busy : busy[i].starts <= at /\ at < busy[i].ends)
               <=> \E item \in items :
                     /\ item.id \notin ours \union {""} /\ item.status # "cancelled"
                     /\ item.span \in (IF From = "google" THEN {"hours"} ELSE {"hours", "days"})
                     /\ item.word \notin (IF From = "google" THEN {"transparent"} ELSE {"free", "workingElsewhere"})
                     /\ item.starts <= at /\ at < item.ends

\* A wall time of Graph's is read as the instant at which a clock of its zone
\* shows it, and where the clocks go back as one of the two.
InstantIsRead(wall, zone) ==
  LET shown == {t \in (wall - 15)..(wall + 15) : t + OffsetOf(zone, t) = wall}
  IN  shown # {} => InstantOf(wall, zone) \in shown
=============================================================================
