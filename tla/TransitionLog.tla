---------------------------- MODULE TransitionLog ----------------------------
(***************************************************************************)
(* packages/workflow machine: a lifecycle as a table of moves, and the log *)
(* of one subject's.  The product opens the transaction, reads the subject *)
(* under its lock, so that its requests follow one another, and writes the *)
(* state the log answers with.                                             *)
(***************************************************************************)
EXTENDS Naturals, Sequences, FiniteSets

CONSTANTS
  States, Initial, Terminal, \* the lifecycle ...
  Moves,           \* ... and what its table may hold: [from, to, trigger, by]
  Triggers, Actors,
  MaxRows,         \* bound on the log
  NoState          \* from_state of the opening move, and a subject not yet there

VARIABLES
  table,           \* the moves of this lifecycle
  state,           \* the subject's state, in the product's table
  rows,            \* the rows of the log, in the order of occurred_at
  work             \* the product's transaction: what it has read and written

logVars == <<table, state, rows, work>>

Idle == [step |-> "idle"]
Row == [id : Nat, from : States \union {NoState}, to : States, reverses : Nat]

TypeOK ==
  /\ table \subseteq Moves
  /\ state \in States \union {NoState}
  /\ rows \in Seq(Row) /\ Len(rows) <= MaxRows
  /\ work = Idle \/ work.rows \in Seq(Row)

\* What defineMachine() builds, and does not refuse.
Reachable(moves) ==
  LET reach[n \in 0..Cardinality(States)] ==
        IF n = 0 THEN {Initial}
        ELSE reach[n-1] \union {m.to : m \in {m \in moves : m.from \in reach[n-1]}}
  IN reach[Cardinality(States)]

Sound(moves) ==
  /\ Terminal \subseteq States /\ Initial \in States \ Terminal
  /\ \A m \in moves : m.from \in States \ Terminal /\ m.to \in States /\ m.by # {}
  /\ \A m, o \in moves :
       m.from = o.from /\ m.trigger = o.trigger /\ m.by \intersect o.by # {} => m = o
  /\ \A s \in States \ Terminal : \E m \in moves : m.from = s
  /\ Reachable(moves) = States

Init ==
  /\ table \in {moves \in SUBSET Moves : Sound(moves)}
  /\ state = NoState /\ rows = <<>> /\ work = Idle

IsOpen == work.step = "open"
NextId == Len(work.rows) + 1

----------------------------------------------------------------------------
\* transitionFor(): "which one applies" is never "decided by table order".
TransitionFor(from, trigger, by) ==
  {m \in table : m.from = from /\ m.trigger = trigger /\ by \in m.by}

----------------------------------------------------------------------------
\* The product's transaction takes the subject's lock and reads its state.
Begin ==
  /\ work = Idle
  /\ work' = [step |-> "open", from |-> state, rows |-> rows]
  /\ UNCHANGED <<table, state, rows>>

\* occurred_at is clock_timestamp(), so a row comes after those before it, and
\* the product goes on from the state it was answered.
Writes(row) ==
  /\ Len(work.rows) < MaxRows
  /\ work' = [work EXCEPT !.from = row.to, !.rows = Append(@, row)]
  /\ UNCHANGED <<table, state, rows>>

\* record(): the opening move lands on the initial state, and any other is in
\* the table, for that actor.
Open ==
  /\ IsOpen /\ work.from = NoState
  /\ Writes([id |-> NextId, from |-> NoState, to |-> Initial, reverses |-> 0])

Record(trigger, by) ==
  /\ IsOpen /\ work.from # NoState
  /\ \E m \in TransitionFor(work.from, trigger, by) :
       Writes([id |-> NextId, from |-> m.from, to |-> m.to, reverses |-> 0])

\* Mutant of LastOf: the last move that was not a reversal.
LastForward(log) ==
  LET moves == SelectSeq(log, LAMBDA row : row.reverses = 0) IN moves[Len(moves)]

\* ORDER BY occurred_at DESC, id DESC.
LastOf(log) == log[Len(log)]

\* reverse(): neither a reversal nor the opening move is reversed.
Undo ==
  /\ IsOpen /\ work.rows # <<>>
  /\ LET last == LastOf(work.rows) IN
     /\ last.reverses = 0 /\ last.from # NoState
     /\ Writes([id |-> NextId, from |-> last.to, to |-> last.from, reverses |-> last.id])

\* The log and the subject commit together, or neither does: a refusal is
\* thrown, and the product's transaction rolls back.
Commit ==
  /\ IsOpen /\ work.rows # rows
  /\ rows' = work.rows /\ state' = work.from
  /\ work' = Idle /\ UNCHANGED table

Abort == IsOpen /\ work' = Idle /\ UNCHANGED <<table, state, rows>>

Next ==
  \/ Begin \/ Open \/ Undo \/ Commit \/ Abort
  \/ \E trigger \in Triggers, by \in Actors : Record(trigger, by)

Spec == Init /\ [][Next]_logVars

----------------------------------------------------------------------------
\* enteredCurrentStateAt() and history() tell the truth: the log is a path of
\* the table from the initial state to the one the subject is in, on which a
\* reversal goes back over the move just before it, and a terminal state is
\* left by no other way.
LogIsThePath ==
  /\ state = IF rows = <<>> THEN NoState ELSE rows[Len(rows)].to
  /\ \A n \in DOMAIN rows :
       LET row == rows[n] IN
       /\ row.from = IF n = 1 THEN NoState ELSE rows[n-1].to
       /\ IF n = 1 THEN row.to = Initial
          ELSE IF row.reverses = 0
          THEN \E m \in table : m.from = row.from /\ m.to = row.to
          ELSE /\ n > 2 /\ row.reverses = n - 1
               /\ rows[n-1].reverses = 0 /\ row.to = rows[n-1].from
       /\ row.from \in Terminal => row.reverses # 0
=============================================================================
