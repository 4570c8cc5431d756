----------------------------- MODULE OncePerKey -----------------------------
(***************************************************************************)
(* What the idempotency package promises its callers, with none of its     *)
(* machinery: under one key at most one request does its work while the    *)
(* key is kept.  A request may go on adding to work of its own.            *)
(***************************************************************************)
EXTENDS Naturals

CONSTANTS Requests, Keys, Nobody

VARIABLES
    spent,      \* per key, the request whose work the key stands for
    until,      \* per key, when the key stops standing for that work
    worked,     \* the requests that have done work
    clock       \* the time

vars == <<spent, until, worked, clock>>

Init ==
    /\ spent = [k \in Keys |-> Nobody]
    /\ until = [k \in Keys |-> 0]
    /\ worked = {}
    /\ clock = 0

\* The one way to do work for the first time: on a key nobody has spent.
Work(r, k) ==
    /\ spent[k] = Nobody
    /\ r \notin worked
    /\ worked' = worked \union {r}
    /\ spent' = [spent EXCEPT ![k] = r]
    /\ until'[k] > clock
    /\ until' = [until EXCEPT ![k] = until'[k]]
    /\ UNCHANGED clock

\* Keys are forgotten once, and only once, their time is up.
Forget ==
    \E K \in SUBSET Keys :
        /\ \A k \in K : spent[k] # Nobody /\ until[k] <= clock
        /\ spent' = [k \in Keys |-> IF k \in K THEN Nobody ELSE spent[k]]
        /\ until' = [k \in Keys |-> IF k \in K THEN 0 ELSE until[k]]
        /\ UNCHANGED <<worked, clock>>

Pass ==
    /\ clock' = clock + 1
    /\ UNCHANGED <<spent, until, worked>>

Next == Forget \/ Pass \/ \E r \in Requests, k \in Keys : Work(r, k)

Spec == Init /\ [][Next]_vars
=============================================================================
