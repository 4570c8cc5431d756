----------------------------- MODULE Transaction -----------------------------
(***************************************************************************)
(* packages/database/src/transaction.ts: one asynchronous flow and the     *)
(* scopes it has open -- transactions, independent ones inside them,       *)
(* savepoints, and transactions opened elsewhere and bound -- with the     *)
(* callbacks registered in each and the participants that join commits.    *)
(*                                                                         *)
(* A piece of work is one statement that writes, and is named by its       *)
(* number, 1 up, as is a transaction; a callback is named by the work it   *)
(* was registered for, the last before it.                                 *)
(***************************************************************************)
EXTENDS Naturals, Sequences

CONSTANTS
    MaxWork,         \* bound on the statements that write
    MaxTx,           \* bound on the transactions begun
    MaxDepth,        \* bound on nesting
    Participants,    \* how many participants joinCommits bound to the flow
    SwallowSqlErrors \* whether the application goes on, inside the scope that
                     \* met it, after a statement's error

ASSUME BoundsAssumption ==
    /\ MaxWork \in Nat
    /\ MaxTx \in Nat
    /\ MaxDepth \in Nat
    /\ Participants \in Nat
    /\ SwallowSqlErrors \in BOOLEAN

VARIABLES
    scopes,     \* the stack of TransactionScopes, innermost last
    phase,      \* what the flow is doing in the innermost
    joined,     \* participants run for the commit under way
    works,      \* statements written so far
    txs,        \* transactions begun so far
    registered, \* work a callback was registered for
    durable,    \* work that is committed
    marked,     \* transactions whose participants' marks are committed
    told,       \* transactions whose commit the participants heard of
    unanswered, \* observation: transactions whose COMMIT was applied and its
                \* answer lost
    ran,        \* callbacks run, in order, with their transaction
    dropped     \* callbacks given up with an error: one before them threw, or
                \* the answer to COMMIT was lost

vars == <<scopes, phase, joined, works, txs, registered, durable, marked, told,
          unanswered, ran, dropped>>

Kinds == {"tx", "savepoint", "bound"}

\* TransactionScope: `commitsHere` is FALSE below a bound transaction; `broken`
\* is Postgres's own state: after an error nothing but a rollback succeeds.
Scope == [kind : Kinds, tx : 1..MaxTx, writes : SUBSET (1..MaxWork),
          callbacks : Seq(1..MaxWork), commitsHere : BOOLEAN, broken : BOOLEAN]

Phases == {"running", "throwing", "joining", "after", "dead"}

TypeOK ==
    /\ scopes \in Seq(Scope)
    /\ phase \in Phases
    /\ joined \in 0..Participants
    /\ works \in 0..MaxWork
    /\ txs \in 0..MaxTx
    /\ registered \subseteq 1..MaxWork
    /\ durable \subseteq 1..MaxWork
    /\ marked \subseteq 1..MaxTx
    /\ told \subseteq 1..MaxTx
    /\ unanswered \subseteq 1..MaxTx
    /\ ran \in Seq([tx : 0..MaxTx, work : 1..MaxWork])
    /\ dropped \subseteq 1..MaxWork

Init ==
    /\ scopes = <<>>
    /\ phase = "running"
    /\ joined = 0
    /\ works = 0
    /\ txs = 0
    /\ registered = {}
    /\ durable = {}
    /\ marked = {}
    /\ told = {}
    /\ unanswered = {}
    /\ ran = <<>>
    /\ dropped = {}

Depth == Len(scopes)
Top == scopes[Depth]
InScope(kind) == Depth > 0 /\ Top.kind = kind
Outer == SubSeq(scopes, 1, Depth - 1)
WithTop(s) == [scopes EXCEPT ![Depth] = s]

\* An error leaves a scope for the one around it, or for the flow's caller.
Rethrown == IF Depth > 1 THEN "throwing" ELSE "running"

------------------------------------------------------------------------------
(* Opening a scope: runInTransaction, runInSavepoint, bindTransactionManager *)

\* Mutant of NewScope: numbered by its depth, as the scope's own `depth` is,
\* and not by its transaction.
NewScopeNested(kind, tx, commitsHere) ==
    [kind |-> kind, tx |-> Depth, writes |-> {}, callbacks |-> <<>>,
     commitsHere |-> commitsHere, broken |-> FALSE]

NewScope(kind, tx, commitsHere) ==
    [kind |-> kind, tx |-> tx, writes |-> {}, callbacks |-> <<>>,
     commitsHere |-> commitsHere, broken |-> FALSE]

\* The outermost transaction, or one asked to be independent of it.
Begin(kind) ==
    /\ phase = "running"
    /\ Depth < MaxDepth
    /\ txs < MaxTx
    /\ txs' = txs + 1
    /\ scopes' = Append(scopes, NewScope(kind, txs + 1, kind = "tx"))
    /\ UNCHANGED <<phase, joined, works, registered, durable, marked, told, unanswered, ran, dropped>>

BeginTx == Begin("tx")
Bind == Begin("bound")

Savepoint ==
    /\ phase = "running"
    /\ Depth \in 1..(MaxDepth - 1)
    /\ ~Top.broken
    /\ scopes' = Append(scopes, NewScope("savepoint", Top.tx, Top.commitsHere))
    /\ UNCHANGED <<phase, joined, works, txs, registered, durable, marked, told, unanswered, ran, dropped>>

------------------------------------------------------------------------------
(* The work of a scope.                                                    *)

\* resolveManager: the ambient transaction's manager, or the pool's, whose
\* statement commits by itself.
Write ==
    /\ phase = "running"
    /\ works < MaxWork
    /\ works' = works + 1
    /\ IF Depth = 0
       THEN durable' = durable \union {works + 1} /\ UNCHANGED scopes
       ELSE /\ ~Top.broken
            /\ scopes' = WithTop([Top EXCEPT !.writes = @ \union {works + 1}])
            /\ UNCHANGED durable
    /\ UNCHANGED <<phase, joined, txs, registered, marked, told, unanswered, ran, dropped>>

\* A statement fails -- every statement does, once one has.
SqlError ==
    /\ phase = "running"
    /\ Depth > 0
    /\ scopes' = WithTop([Top EXCEPT !.broken = TRUE])
    /\ phase' = "throwing"
    /\ UNCHANGED <<joined, works, txs, registered, durable, marked, told, unanswered, ran, dropped>>

AppError ==
    /\ phase = "running"
    /\ Depth > 0
    /\ phase' = "throwing"
    /\ UNCHANGED <<scopes, joined, works, txs, registered, durable, marked, told, unanswered, ran, dropped>>

\* The application catches the error in the scope it has reached.
Catch ==
    /\ phase = "throwing"
    /\ ~Top.broken \/ SwallowSqlErrors
    /\ phase' = "running"
    /\ UNCHANGED <<scopes, joined, works, txs, registered, durable, marked, told, unanswered, ran, dropped>>

\* afterCommit(), called once the work it follows is written: run at once
\* outside a transaction, kept with the scope in one that commits here, and
\* refused in one that is bound.
AfterCommit ==
    /\ phase = "running"
    /\ works > 0
    /\ works \notin registered
    /\ IF Depth = 0
       THEN /\ works \in durable
            /\ ran' = Append(ran, [tx |-> 0, work |-> works])
            /\ registered' = registered \union {works}
            /\ UNCHANGED <<scopes, phase>>
       ELSE /\ works \in Top.writes
            /\ IF Top.commitsHere
               THEN /\ scopes' = WithTop([Top EXCEPT !.callbacks = Append(@, works)])
                    /\ registered' = registered \union {works}
                    /\ UNCHANGED phase
               ELSE phase' = "throwing" /\ UNCHANGED <<scopes, registered>>
            /\ UNCHANGED ran
    /\ UNCHANGED <<joined, works, txs, durable, marked, told, unanswered, dropped>>

------------------------------------------------------------------------------
(* The end of a savepoint.                                                 *)

KeptFirst == [Outer[Depth - 1] EXCEPT !.writes = @ \union Top.writes,
                                      !.callbacks = Top.callbacks \o @]

KeptBehind == [Outer[Depth - 1] EXCEPT !.writes = @ \union Top.writes]

Kept == [Outer[Depth - 1] EXCEPT !.writes = @ \union Top.writes,
                                 !.callbacks = @ \o Top.callbacks]

\* RELEASE SAVEPOINT: the work is the parent's now, and so are the callbacks.
Release ==
    /\ phase = "running"
    /\ InScope("savepoint")
    /\ ~Top.broken
    /\ scopes' = [Outer EXCEPT ![Depth - 1] = Kept]
    /\ UNCHANGED <<phase, joined, works, txs, registered, durable, marked, told, unanswered, ran, dropped>>

\* Mutants of RollbackTo and Kept: the callbacks of the work undone kept for
\* the parent; those of the work kept put before the parent's, and left behind.
RollbackToKeeping ==
    /\ InScope("savepoint")
    /\ phase = "throwing" \/ (phase = "running" /\ Top.broken)
    /\ scopes' = [Outer EXCEPT ![Depth - 1].callbacks = @ \o Top.callbacks]
    /\ phase' = "throwing"
    /\ UNCHANGED <<joined, works, txs, registered, durable, marked, told, unanswered, ran, dropped>>

\* ROLLBACK TO SAVEPOINT, for the work's error or the release's own: what was
\* to follow the work goes with it, and the error goes on to the parent.
RollbackTo ==
    /\ InScope("savepoint")
    /\ phase = "throwing" \/ (phase = "running" /\ Top.broken)
    /\ scopes' = Outer
    /\ phase' = "throwing"
    /\ UNCHANGED <<joined, works, txs, registered, durable, marked, told, unanswered, ran, dropped>>

------------------------------------------------------------------------------
(* The end of a transaction.                                               *)

\* The work has returned: the participants run, in order, inside it.
StartCommit ==
    /\ phase = "running"
    /\ InScope("tx")
    /\ phase' = "joining"
    /\ joined' = 0
    /\ UNCHANGED <<scopes, works, txs, registered, durable, marked, told, unanswered, ran, dropped>>

Participate ==
    /\ phase = "joining"
    /\ joined < Participants
    /\ ~Top.broken
    /\ joined' = joined + 1
    /\ UNCHANGED <<scopes, phase, works, txs, registered, durable, marked, told, unanswered, ran, dropped>>

\* What runs after the work is outside every catch of its own: what is open is
\* rolled back, and the error goes on.
Abandoned == scopes' = Outer /\ phase' = Rethrown

ParticipantFails ==
    /\ phase = "joining"
    /\ joined < Participants
    /\ Abandoned
    /\ UNCHANGED <<joined, works, txs, registered, durable, marked, told, unanswered, ran, dropped>>

\* COMMIT, then what the participants left to be told.  Postgres answers the
\* COMMIT of a broken transaction by rolling it back, and reports no error.
Commit ==
    /\ phase = "joining"
    /\ joined = Participants
    /\ phase' = "after"
    /\ told' = told \union {Top.tx}
    /\ IF Top.broken
       THEN UNCHANGED <<durable, marked>>
       ELSE /\ durable' = durable \union Top.writes
            /\ marked' = marked \union {Top.tx}
    /\ UNCHANGED <<scopes, joined, works, txs, registered, unanswered, ran, dropped>>

\* The server has committed, and the connection is lost before it says so: the
\* work and the marks are durable, and nobody is told and nothing is run.
AppliedUnanswered ==
    /\ ~Top.broken
    /\ durable' = durable \union Top.writes
    /\ marked' = marked \union {Top.tx}
    /\ unanswered' = unanswered \union {Top.tx}
    /\ dropped' = dropped \union {Top.callbacks[i] : i \in 1..Len(Top.callbacks)}

\* Mutant of CommitFails: the participants told before COMMIT is answered.
CommitFailsTold ==
    /\ phase = "joining"
    /\ joined = Participants
    /\ Abandoned
    /\ told' = told \union {Top.tx}
    /\ \/ UNCHANGED <<durable, marked, unanswered, dropped>>
       \/ AppliedUnanswered
    /\ UNCHANGED <<joined, works, txs, registered, ran>>

\* COMMIT is answered with an error, or not at all: whether it was applied the
\* caller cannot know, and hears of the error either way.
CommitFails ==
    /\ phase = "joining"
    /\ joined = Participants
    /\ Abandoned
    /\ \/ UNCHANGED <<durable, marked, unanswered, dropped>>
       \/ AppliedUnanswered
    /\ UNCHANGED <<joined, works, txs, registered, told, ran>>

RollbackTx ==
    /\ phase = "throwing"
    /\ InScope("tx")
    /\ scopes' = Outer
    /\ phase' = Rethrown
    /\ UNCHANGED <<joined, works, txs, registered, durable, marked, told, unanswered, ran, dropped>>

\* The callbacks, one after the other, outside the scope they came from.
RunCallback ==
    /\ phase = "after"
    /\ Top.callbacks # <<>>
    /\ ran' = Append(ran, [tx |-> Top.tx, work |-> Head(Top.callbacks)])
    /\ scopes' = WithTop([Top EXCEPT !.callbacks = Tail(@)])
    /\ UNCHANGED <<phase, joined, works, txs, registered, durable, marked, told, unanswered, dropped>>

\* One throws: the rest are not run, and the caller hears an error for a
\* transaction that is committed.
CallbackThrows ==
    /\ phase = "after"
    /\ Top.callbacks # <<>>
    /\ dropped' = dropped \union {Top.callbacks[i] : i \in 1..Len(Top.callbacks)}
    /\ scopes' = Outer
    /\ phase' = Rethrown
    /\ UNCHANGED <<joined, works, txs, registered, durable, marked, told, unanswered, ran>>

Finish ==
    /\ phase = "after"
    /\ Top.callbacks = <<>>
    /\ scopes' = Outer
    /\ phase' = "running"
    /\ UNCHANGED <<joined, works, txs, registered, durable, marked, told, unanswered, ran, dropped>>

\* A bound transaction is ended by the code that opened it.
EndBound ==
    /\ InScope("bound")
    /\ \/ /\ phase = "running"
          /\ durable' = IF Top.broken THEN durable ELSE durable \union Top.writes
          /\ UNCHANGED phase
       \/ /\ phase = "throwing"
          /\ phase' = Rethrown
          /\ UNCHANGED durable
    /\ scopes' = Outer
    /\ UNCHANGED <<joined, works, txs, registered, marked, told, unanswered, ran, dropped>>

\* The process dies with whatever it had open.
Crash ==
    /\ phase # "dead"
    /\ phase' = "dead"
    /\ UNCHANGED <<scopes, joined, works, txs, registered, durable, marked, told, unanswered, ran, dropped>>

------------------------------------------------------------------------------
App == BeginTx \/ Bind \/ Savepoint \/ Write \/ SqlError \/ AppError \/ Catch \/ AfterCommit

End == Release \/ StartCommit \/ (phase = "running" /\ EndBound)

Engine ==
    \/ RollbackTo \/ Participate \/ ParticipantFails \/ Commit \/ CommitFails
    \/ RollbackTx \/ RunCallback \/ CallbackThrows \/ Finish
    \/ (phase = "throwing" /\ EndBound)

Next == App \/ End \/ Engine \/ Crash

Spec == Init /\ [][Next]_vars

------------------------------------------------------------------------------
(* What a caller of runInTransaction and afterCommit counts on.            *)

RanWork == {ran[i].work : i \in 1..Len(ran)}
Pending == IF phase = "after" THEN {Top.callbacks[i] : i \in 1..Len(Top.callbacks)} ELSE {}

\* No callback runs for work that rolled back, with a savepoint or with the
\* whole transaction: a side effect follows the commit of what it is about.
CallbackFollowsCommit == RanWork \subseteq durable

\* The callbacks of one transaction run in the order they were registered,
\* however they were spread over its savepoints, and each runs once.
CallbacksInOrder ==
    \A i, j \in 1..Len(ran) :
        i < j /\ ran[i].tx = ran[j].tx => ran[i].work < ran[j].work

\* A callback whose work is committed has run, is about to, or was given up
\* with an error the caller heard: the hand-over from savepoint to parent to
\* commit drops none, also where an independent transaction comes between.
NothingLost ==
    phase # "dead" => registered \intersect durable \subseteq RanWork \union Pending \union dropped

\* afterCommit: the callbacks of what committed run, every one of them, in the
\* order they were registered.
CallbacksAreKept == CallbacksInOrder /\ NothingLost

\* A participant hears of a commit only if it holds what it wrote, and of every
\* one that does but where the answer to COMMIT was lost: then nobody is told,
\* and the caller hears an error.
ToldOfCommits == told \subseteq marked /\ marked \subseteq told \union unanswered
==============================================================================
