------------------------------- MODULE Gateway -------------------------------
(***************************************************************************)
(* packages/realtime, connections: which ones the socket server holds      *)
(* (nestjs/socket/index.ts), under the cap of one key, against heartbeats, *)
(* refusals, errors and the replacement of the process; and the life of    *)
(* each page's client (client.ts), which polls where it has no socket and  *)
(* asks for one again.  What is said over them is in Realtime.             *)
(*                                                                         *)
(* Every page is of one account.  A socket is the number of its opening;   *)
(* each end has its own view of it, until it hears of the other's.         *)
(***************************************************************************)
EXTENDS Integers, Sequences, FiniteSets, SequencesExt

CONSTANTS
  Pages, Polls,     \* pages, and those given a pollUrl
  Cap,              \* maxConnectionsPerKey
  MaxSockets,       \* bound on the sockets opened
  MaxTroubles,      \* bound on stops, cuts, errors and replacements together
  NoSocket

VARIABLES
  \* the server
  byKey,            \* the account's connections, the oldest first
  connections,
  accepted,         \* the sockets that were, in their order
  \* each socket
  owner, server, client, code,
  cut,              \* the network between is gone
  alive,            \* has answered the last ping
  beats,            \* heartbeats it was asked at since it was cut
  \* each page
  socket, closed, poller, timers, state,
  rushed,           \* started again before the socket it stopped was closed
  troubles

serverVars == <<byKey, connections, accepted>>
socketVars == <<owner, server, client, code, cut, alive, beats>>
pageVars == <<socket, closed, poller, timers, state, rushed>>
gatewayVars == <<serverVars, socketVars, pageVars, troubles>>

Sockets == 1..MaxSockets
Ends == {"none", "verifying", "open", "failing", "closing", "closed"}
States == {"offline", "connecting", "live", "polling"}

TypeOK ==
  /\ connections \subseteq Sockets /\ byKey \in Seq(Sockets) /\ accepted \in Seq(Sockets)
  /\ \A s \in DOMAIN owner :
       /\ owner[s] \in Pages /\ server[s] \in Ends
       /\ client[s] \in {"connecting", "open", "closing", "closed"}
       /\ code[s] \in {"", "superseded"}
  /\ \A p \in Pages :
       /\ socket[p] \in DOMAIN owner \union {NoSocket} /\ state[p] \in States
       /\ timers[p] \subseteq {"soon", "longest"}

Init ==
  /\ byKey = <<>> /\ connections = {} /\ accepted = <<>>
  /\ owner = <<>> /\ server = <<>> /\ client = <<>> /\ code = <<>>
  /\ cut = <<>> /\ alive = <<>> /\ beats = <<>>
  /\ socket = [p \in Pages |-> NoSocket] /\ closed = [p \in Pages |-> TRUE]
  /\ poller = [p \in Pages |-> FALSE] /\ timers = [p \in Pages |-> {}]
  /\ state = [p \in Pages |-> "offline"] /\ rushed = [p \in Pages |-> FALSE]
  /\ troubles = 0

----------------------------------------------------------------------------
(* The server *)

\* forget(): out of the connections, and out of its key's count.
Without(conns, s) == SelectSeq(conns, LAMBDA one : one # s)

\* count(): the oldest give way while there are more than the cap.
Counted(s) == Append(byKey, s)
GivingWay(held) == SubSeq(held, 1, Len(held) - Cap)
Staying(held) == SubSeq(held, Len(held) - Cap + 1, Len(held))

\* verify() and accept(): refused, or checked in vain, or upgraded.
Accept(s) ==
  /\ s \in DOMAIN owner /\ server[s] = "verifying"
  /\ LET held == Counted(s)
         oldest == IF Len(held) > Cap THEN Range(GivingWay(held)) ELSE {}
     IN  /\ byKey' = IF Len(held) > Cap THEN Staying(held) ELSE held
         /\ connections' = (connections \union {s}) \ oldest
         /\ server' = [t \in DOMAIN server |->
                         CASE t = s -> "open" [] t \in oldest -> "closing" [] OTHER -> server[t]]
         /\ code' = [t \in DOMAIN code |-> IF t \in oldest THEN "superseded" ELSE code[t]]
  /\ accepted' = Append(accepted, s)
  /\ UNCHANGED <<owner, client, cut, alive, beats, pageVars, troubles>>

Refuse(s) ==
  /\ s \in DOMAIN owner /\ server[s] = "verifying"
  /\ server' = [server EXCEPT ![s] = "closed"]
  /\ UNCHANGED <<serverVars, owner, client, code, cut, alive, beats, pageVars, troubles>>

\* One of the troubles that the bound is on.
Trouble ==
  /\ troubles < MaxTroubles
  /\ troubles' = troubles + 1

\* handle() failed over the frame that onopen sent: closed with INTERNAL_ERROR.
Fail(s) ==
  /\ s \in DOMAIN owner /\ server[s] = "open" /\ client[s] # "connecting" /\ ~cut[s]
  /\ Trouble
  /\ server' = [server EXCEPT ![s] = "failing"]
  /\ UNCHANGED <<serverVars, owner, client, code, cut, alive, beats, pageVars>>

\* The 'close' of a socket: heard from the page, or given up on.
Hear(s) ==
  /\ s \in DOMAIN owner /\ server[s] \in {"open", "failing", "closing"}
  /\ server[s] = "open" => client[s] \in {"closing", "closed"} /\ ~cut[s]
  /\ server' = [server EXCEPT ![s] = "closed"]
  /\ connections' = connections \ {s} /\ byKey' = Without(byKey, s)
  /\ UNCHANGED <<accepted, owner, client, code, cut, alive, beats, pageVars, troubles>>

\* The heartbeat: terminated, or asked again.
Beat ==
  LET silent == {s \in connections : ~alive[s]} IN
  /\ connections # {}
  /\ connections' = connections \ silent
  /\ byKey' = SelectSeq(byKey, LAMBDA s : s \notin silent)
  /\ server' = [s \in DOMAIN server |-> IF s \in silent THEN "closed" ELSE server[s]]
  /\ alive' = [s \in DOMAIN alive |-> s \notin connections']
  /\ beats' = [s \in DOMAIN beats |-> IF cut[s] /\ s \in connections' THEN beats[s] + 1 ELSE 0]
  /\ UNCHANGED <<accepted, owner, client, code, cut, pageVars, troubles>>

Pong(s) ==
  /\ s \in connections /\ client[s] = "open" /\ ~cut[s] /\ ~alive[s]
  /\ alive' = [alive EXCEPT ![s] = TRUE]
  /\ UNCHANGED <<serverVars, owner, server, client, code, cut, beats, pageVars, troubles>>

\* close(), or the end of the process: another takes its place.
Replace ==
  /\ Trouble
  /\ connections' = {} /\ byKey' = <<>> /\ accepted' = <<>>
  /\ server' = [s \in DOMAIN server |-> "closed"]
  /\ UNCHANGED <<owner, client, code, cut, alive, beats, pageVars>>

Cut(s) ==
  /\ s \in DOMAIN owner /\ ~cut[s] /\ client[s] # "closed" /\ server[s] # "closed" /\ Trouble
  /\ cut' = [cut EXCEPT ![s] = TRUE]
  /\ UNCHANGED <<serverVars, owner, server, client, code, alive, beats, pageVars>>

----------------------------------------------------------------------------
(* A page *)

\* open(): a socket, where the page is not stopped.  It is not `connecting'
\* while it polls.
OpenSocket(p, isPolling) ==
  /\ Len(owner) < MaxSockets
  /\ owner' = Append(owner, p) /\ server' = Append(server, "verifying")
  /\ client' = Append(client, "connecting") /\ code' = Append(code, "")
  /\ cut' = Append(cut, FALSE) /\ alive' = Append(alive, TRUE)
  /\ beats' = Append(beats, 0)
  /\ socket' = [socket EXCEPT ![p] = Len(owner) + 1]
  /\ state' = IF isPolling THEN state ELSE [state EXCEPT ![p] = "connecting"]
  /\ UNCHANGED <<serverVars, troubles, poller>>

\* startPolling(), and a timer for the next socket: the longest where another
\* page took its place.
FallBack(p, wait) ==
  /\ poller' = [poller EXCEPT ![p] = p \in Polls]
  /\ state' = IF poller[p] THEN state ELSE [state EXCEPT ![p] = IF p \in Polls THEN "polling" ELSE "offline"]
  /\ timers' = [timers EXCEPT ![p] = @ \union {wait}]

Start(p) ==
  /\ closed[p]
  /\ closed' = [closed EXCEPT ![p] = FALSE]
  /\ OpenSocket(p, FALSE)
  /\ rushed' = [rushed EXCEPT ![p] = @ \/ \E s \in DOMAIN owner : owner[s] = p /\ client[s] = "closing"]
  /\ UNCHANGED timers

\* stop(): its timers stay, and find it closed.
Stop(p) ==
  /\ ~closed[p] /\ Trouble
  /\ closed' = [closed EXCEPT ![p] = TRUE] /\ poller' = [poller EXCEPT ![p] = FALSE]
  /\ client' = IF socket[p] = NoSocket THEN client ELSE [client EXCEPT ![socket[p]] = "closing"]
  /\ socket' = [socket EXCEPT ![p] = NoSocket]
  /\ state' = [state EXCEPT ![p] = "offline"]
  /\ UNCHANGED <<serverVars, owner, server, code, cut, alive, beats, timers, rushed>>

Timer(p, wait) ==
  /\ wait \in timers[p]
  /\ timers' = [timers EXCEPT ![p] = @ \ {wait}]
  /\ IF closed[p] \/ socket[p] # NoSocket
     THEN UNCHANGED <<serverVars, socketVars, socket, state, poller, troubles>>
     ELSE OpenSocket(p, poller[p])
  /\ UNCHANGED <<closed, rushed>>

\* onopen: it no longer polls.
Opened(s) ==
  /\ s \in DOMAIN owner /\ client[s] = "connecting" /\ server[s] \in {"open", "failing", "closing"} /\ ~cut[s]
  /\ client' = [client EXCEPT ![s] = "open"]
  /\ poller' = [poller EXCEPT ![owner[s]] = FALSE]
  /\ state' = [state EXCEPT ![owner[s]] = "live"]
  /\ UNCHANGED <<serverVars, owner, server, code, cut, alive, beats, socket, closed, timers,
                 rushed, troubles>>

\* The page hears of the end from the server, or of one it asked for, or nothing
\* for two heartbeats, and closes.
Ended(s) ==
  \/ server[s] \in {"failing", "closing", "closed"}
  \/ client[s] = "closing"
  \/ cut[s]

\* onclose: whichever socket it is of, the page has none.
Closed(s) ==
  /\ s \in DOMAIN owner /\ client[s] # "closed" /\ Ended(s)
  /\ client' = [client EXCEPT ![s] = "closed"]
  /\ socket' = [socket EXCEPT ![owner[s]] = NoSocket]
  /\ IF closed[owner[s]] THEN UNCHANGED <<poller, state, timers>>
     ELSE FallBack(owner[s], IF code[s] = "superseded" /\ ~cut[s] THEN "longest" ELSE "soon")
  /\ UNCHANGED <<serverVars, owner, server, code, cut, alive, beats, closed, rushed, troubles>>

Next ==
  \/ Beat \/ Replace
  \/ \E s \in DOMAIN owner :
       \/ Accept(s) \/ Refuse(s) \/ Hear(s) \/ Pong(s) \/ Cut(s) \/ Opened(s) \/ Closed(s) \/ Fail(s)
  \/ \E p \in Pages :
       \/ Start(p) \/ Stop(p)
       \/ \E wait \in timers[p] : Timer(p, wait)

Spec == Init /\ [][Next]_gatewayVars

----------------------------------------------------------------------------
\* "A page just opened always has its socket, and the page given way polls":
\* the account's count is of its connections, at most the cap, in their order,
\* each an open socket, and every open socket is counted; one gave way only to
\* as many newer ones; and one nobody answers on is gone at the second heartbeat.
CountIsRight ==
  /\ Len(byKey) <= Cap /\ Range(byKey) = connections
  /\ \A i, j \in DOMAIN byKey : i < j => byKey[i] # byKey[j] /\ \E k, l \in DOMAIN accepted :
                                            k < l /\ accepted[k] = byKey[i] /\ accepted[l] = byKey[j]
  /\ connections = {s \in DOMAIN owner : server[s] \in {"open", "failing"}}
  /\ \A i \in DOMAIN accepted : code[accepted[i]] = "superseded" => Len(accepted) - i >= Cap
  /\ \A s \in connections : cut[s] => beats[s] < 2

\* A page that was not stopped has a socket, or will ask for one, and polls
\* while it has none that is open; one that was stopped has nothing, and no page
\* has a socket it does not know of, unless it was started again too soon.
PageIsServed ==
  \A p \in Pages :
    /\ ~closed[p] => socket[p] # NoSocket \/ timers[p] # {}
    /\ closed[p] => ~poller[p] /\ socket[p] = NoSocket
    /\ ~rushed[p] =>
         /\ closed[p] => state[p] = "offline"
         /\ ~closed[p] /\ socket[p] = NoSocket => poller[p] = (p \in Polls)
         /\ poller[p] => state[p] = "polling"
         /\ \A s \in DOMAIN owner : owner[s] = p /\ client[s] \in {"connecting", "open"} => socket[p] = s
         /\ state[p] = "live" <=> \E s \in DOMAIN owner : owner[s] = p /\ client[s] = "open"

GatewayHolds == CountIsRight /\ PageIsServed
=============================================================================
