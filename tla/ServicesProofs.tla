--------------------------- MODULE ServicesProofs ---------------------------
(***************************************************************************)
(* Theorems about the transaction flow, for any depth of scopes, any       *)
(* number of transactions, statements and participants; and about the      *)
(* parts of MCServices that say who is let in to what, for any number of   *)
(* callers, rows, secrets, tokens, roles and tenants.                      *)
(***************************************************************************)
EXTENDS MCServices, SequenceTheorems, TLAPS

\* What is in a sequence, and whether it rises.
In(q) == {q[i] : i \in 1..Len(q)}
Increasing(q) == \A i, j \in 1..Len(q) : i < j => q[i] < q[j]

\* A queue of nothing.
LEMMA InEmpty == In(<<>>) = {} /\ Increasing(<<>>)
BY DEF In, Increasing

\* What a queue holds after one more is added.
LEMMA InAppend ==
    ASSUME NEW S, NEW q \in Seq(S), NEW x \in S
    PROVE  In(Append(q, x)) = In(q) \union {x}
<1>1. /\ Len(Append(q, x)) = Len(q) + 1 /\ Len(q) \in Nat
      /\ Append(q, x)[Len(q) + 1] = x
      /\ \A i \in 1..Len(q) : Append(q, x)[i] = q[i]
  BY AppendProperties, LenProperties
<1>. QED
  BY <1>1 DEF In

\* What two queues hold, one after the other.
LEMMA InConcat ==
    ASSUME NEW S, NEW p \in Seq(S), NEW q \in Seq(S)
    PROVE  In(p \o q) = In(p) \union In(q)
<1>1. /\ Len(p) \in Nat /\ Len(q) \in Nat /\ Len(p \o q) = Len(p) + Len(q)
      /\ \A i \in 1..(Len(p) + Len(q)) : (p \o q)[i] = IF i <= Len(p) THEN p[i] ELSE q[i - Len(p)]
  BY ConcatProperties, LenProperties
<1>2. \A i \in 1..Len(p) : i \in 1..Len(p \o q) /\ (p \o q)[i] = p[i]
  BY <1>1
<1>3. ASSUME NEW i \in 1..Len(q) PROVE Len(p) + i \in 1..Len(p \o q) /\ (p \o q)[Len(p) + i] = q[i]
  <2>1. Len(p) + i \in 1..(Len(p) + Len(q)) /\ ~(Len(p) + i <= Len(p)) /\ (Len(p) + i) - Len(p) = i
    BY <1>1
  <2>. QED
    BY <1>1, <2>1
<1>4. \A i \in 1..Len(p \o q) : (p \o q)[i] \in In(p) \union In(q)
  <2>1. ASSUME NEW i \in 1..Len(p \o q), ~(i <= Len(p)) PROVE i - Len(p) \in 1..Len(q)
    BY <1>1, <2>1
  <2>. QED
    BY <1>1, <2>1 DEF In
<1>5. In(p \o q) \subseteq In(p) \union In(q)
  BY <1>4 DEF In
<1>6. In(p) \subseteq In(p \o q)
  BY <1>2 DEF In
<1>7. In(q) \subseteq In(p \o q)
  BY <1>3 DEF In
<1>. QED
  BY <1>5, <1>6, <1>7

\* What a queue holds once its head is taken.
LEMMA InTail ==
    ASSUME NEW S, NEW q \in Seq(S), q # <<>>
    PROVE  In(q) = {Head(q)} \union In(Tail(q))
<1>1. /\ Len(q) \in Nat \ {0} /\ Head(q) = q[1] /\ Len(Tail(q)) = Len(q) - 1
      /\ \A i \in 1..(Len(q) - 1) : Tail(q)[i] = q[i + 1]
  BY HeadTailProperties, LenProperties, EmptySeq
<1>2. ASSUME NEW i \in 1..Len(q), i # 1 PROVE i - 1 \in 1..Len(Tail(q)) /\ Tail(q)[i - 1] = q[i]
  <2>1. i - 1 \in 1..(Len(q) - 1) /\ (i - 1) + 1 = i
    BY <1>1, <1>2
  <2>. QED
    BY <1>1, <2>1
<1>3. \A i \in 1..(Len(q) - 1) : i + 1 \in 1..Len(q)
  BY <1>1
<1>4. In(q) \subseteq {Head(q)} \union In(Tail(q))
  BY <1>1, <1>2 DEF In
<1>5. In(Tail(q)) \subseteq In(q)
  BY <1>1, <1>3 DEF In
<1>6. Head(q) \in In(q)
  BY <1>1 DEF In
<1>. QED
  BY <1>4, <1>5, <1>6

\* A queue in order stays so when a later one is added.
LEMMA IncreasingAppend ==
    ASSUME NEW S, S \subseteq Nat, NEW q \in Seq(S), NEW x \in S, Increasing(q), \A y \in In(q) : y < x
    PROVE  Increasing(Append(q, x))
<1>1. /\ Len(Append(q, x)) = Len(q) + 1 /\ Len(q) \in Nat
      /\ Append(q, x)[Len(q) + 1] = x
      /\ \A i \in 1..Len(q) : Append(q, x)[i] = q[i]
  BY AppendProperties, LenProperties
<1>2. \A i \in 1..Len(q) : q[i] < x
  BY DEF In
<1>. QED
  BY <1>1, <1>2 DEF Increasing

\* Two queues in order are one, when all of one are before all of the other.
LEMMA IncreasingConcat ==
    ASSUME NEW S, S \subseteq Nat, NEW p \in Seq(S), NEW q \in Seq(S), Increasing(p), Increasing(q),
           \A x \in In(p), y \in In(q) : x < y
    PROVE  Increasing(p \o q)
<1>1. /\ Len(p) \in Nat /\ Len(q) \in Nat /\ Len(p \o q) = Len(p) + Len(q)
      /\ \A i \in 1..(Len(p) + Len(q)) : (p \o q)[i] = IF i <= Len(p) THEN p[i] ELSE q[i - Len(p)]
  BY ConcatProperties, LenProperties
<1> SUFFICES ASSUME NEW i \in 1..Len(p \o q), NEW j \in 1..Len(p \o q), i < j
             PROVE  (p \o q)[i] < (p \o q)[j]
  BY DEF Increasing
<1>2. CASE j <= Len(p)
  <2>1. i \in 1..Len(p) /\ j \in 1..Len(p) /\ (p \o q)[i] = p[i] /\ (p \o q)[j] = p[j]
    BY <1>1, <1>2
  <2>. QED
    BY <2>1 DEF Increasing
<1>3. CASE i <= Len(p) /\ ~(j <= Len(p))
  <2>1. /\ i \in 1..Len(p) /\ j - Len(p) \in 1..Len(q)
        /\ (p \o q)[i] = p[i] /\ (p \o q)[j] = q[j - Len(p)]
    BY <1>1, <1>3
  <2>2. p[i] \in In(p) /\ q[j - Len(p)] \in In(q)
    BY <2>1 DEF In
  <2>. QED
    BY <2>1, <2>2
<1>4. CASE ~(i <= Len(p))
  <2>1. /\ i - Len(p) \in 1..Len(q) /\ j - Len(p) \in 1..Len(q) /\ i - Len(p) < j - Len(p)
        /\ (p \o q)[i] = q[i - Len(p)] /\ (p \o q)[j] = q[j - Len(p)]
    BY <1>1, <1>4
  <2>. QED
    BY <2>1 DEF Increasing
<1>. QED
  BY <1>1, <1>2, <1>3, <1>4

\* A queue in order stays so when its head is taken, and all of it is later.
LEMMA IncreasingTail ==
    ASSUME NEW S, S \subseteq Nat, NEW q \in Seq(S), q # <<>>, Increasing(q)
    PROVE  Increasing(Tail(q)) /\ \A y \in In(Tail(q)) : Head(q) < y
<1>1. /\ Len(q) \in Nat \ {0} /\ Head(q) = q[1] /\ Len(Tail(q)) = Len(q) - 1
      /\ \A i \in 1..(Len(q) - 1) : Tail(q)[i] = q[i + 1]
  BY HeadTailProperties, LenProperties, EmptySeq
<1>2. \A i \in 1..(Len(q) - 1) : i + 1 \in 1..Len(q) /\ 1 < i + 1 /\ 1 \in 1..Len(q)
  BY <1>1
<1>. QED
  BY <1>1, <1>2 DEF In, Increasing

------------------------------------------------------------------------------
(* The stack: what opening, changing and leaving a scope do to it.         *)

\* The stack of scopes, by its depth.
LEMMA Scopes ==
    ASSUME TypeOK
    PROVE  /\ Depth \in Nat /\ Depth = Len(scopes)
           /\ scopes = <<>> <=> Depth = 0
           /\ Depth > 0 => Top \in Scope /\ Top = scopes[Depth]
           /\ \A i \in 1..Depth : scopes[i] \in Scope
<1>1. scopes \in Seq(Scope)
  BY DEF TypeOK
<1>2. Len(scopes) \in Nat /\ \A i \in 1..Len(scopes) : scopes[i] \in Scope
  BY <1>1, LenProperties, ElementOfSeq
<1>3. scopes = <<>> <=> Len(scopes) = 0
  BY <1>1, EmptySeq
<1>. QED
  BY <1>2, <1>3 DEF Depth, Top

\* A scope opened is on top, and those below are as they were.
LEMMA Pushed ==
    ASSUME TypeOK, NEW s \in Scope, scopes' = Append(scopes, s)
    PROVE  /\ scopes' \in Seq(Scope)
           /\ Depth' = Depth + 1 /\ Top' = s /\ scopes'[Depth + 1] = s
           /\ \A i \in 1..Depth : scopes'[i] = scopes[i]
BY AppendProperties DEF TypeOK, Depth, Top

\* A scope that changes is on top, and those below are as they were.
LEMMA Retopped ==
    ASSUME TypeOK, Depth > 0, NEW s \in Scope, scopes' = WithTop(s)
    PROVE  /\ scopes' \in Seq(Scope)
           /\ Depth' = Depth /\ Top' = s /\ scopes'[Depth] = s
           /\ \A i \in 1..(Depth - 1) : scopes'[i] = scopes[i]
<1>1. Depth \in 1..Len(scopes)
  BY Scopes
<1>. QED
  BY <1>1, ExceptSeq DEF TypeOK, Depth, Top, WithTop

\* A scope closed leaves those below as they were.
LEMMA Popped ==
    ASSUME TypeOK, Depth > 0
    PROVE  /\ Outer \in Seq(Scope)
           /\ Len(Outer) = Depth - 1
           /\ \A i \in 1..(Depth - 1) : Outer[i] = scopes[i]
<1>1. Depth - 1 \in Nat /\ \A i \in 1..(Depth - 1) : scopes[i] \in Scope
  BY Scopes
<1>. QED
  BY <1>1, SubSeqProperties DEF Outer

\* A scope closed into its parent changes the parent alone.
LEMMA Merged ==
    ASSUME TypeOK, Depth > 1, NEW s \in Scope, scopes' = [Outer EXCEPT ![Depth - 1] = s]
    PROVE  /\ scopes' \in Seq(Scope)
           /\ Depth' = Depth - 1 /\ Top' = s /\ scopes'[Depth - 1] = s
           /\ \A i \in 1..(Depth - 2) : scopes'[i] = scopes[i]
<1>1. /\ Outer \in Seq(Scope) /\ Len(Outer) = Depth - 1
      /\ \A i \in 1..(Depth - 1) : Outer[i] = scopes[i]
  BY Popped, Scopes
<1>2. Depth - 1 \in 1..Len(Outer)
  BY <1>1, Scopes
<1>. QED
  BY <1>1, <1>2, ExceptSeq, Scopes DEF Depth, Top

\* What a savepoint hands its parent.
LEMMA Handed ==
    ASSUME TypeOK, Depth > 1
    PROVE  /\ Kept \in Scope
           /\ Kept.kind = scopes[Depth - 1].kind /\ Kept.tx = scopes[Depth - 1].tx
           /\ Kept.commitsHere = scopes[Depth - 1].commitsHere
           /\ Kept.broken = scopes[Depth - 1].broken
           /\ Kept.writes = scopes[Depth - 1].writes \union Top.writes
           /\ Kept.callbacks = scopes[Depth - 1].callbacks \o Top.callbacks
<1>1. Outer[Depth - 1] = scopes[Depth - 1] /\ scopes[Depth - 1] \in Scope /\ Top \in Scope
  BY Popped, Scopes
<1>2. scopes[Depth - 1].callbacks \o Top.callbacks \in Seq(1..MaxWork)
  BY <1>1, ConcatProperties DEF Scope
<1>. QED
  BY <1>1, <1>2 DEF Kept, Scope

------------------------------------------------------------------------------
(* Types, and the shape of the stack they rest on: whoever commits, hears   *)
(* of a failure or runs callbacks is in a scope, and that is a transaction; *)
(* a savepoint is of the transaction of the scope below it, and a           *)
(* transaction is newer than everything below it.                           *)

Stacked(st, d, n) ==
    \A i \in 1..d :
        /\ st[i].tx \in 1..n
        /\ st[i].kind = "tx" => st[i].commitsHere
        /\ st[i].kind = "bound" => ~st[i].commitsHere
        /\ st[i].kind = "savepoint" =>
              /\ i > 1
              /\ st[i].tx = st[i - 1].tx
              /\ st[i].commitsHere = st[i - 1].commitsHere
        /\ \A j \in 1..(i - 1) :
              /\ st[j].tx <= st[i].tx
              /\ st[i].kind # "savepoint" => st[j].tx < st[i].tx

Shape ==
    /\ phase = "throwing" => Depth > 0
    /\ phase \in {"joining", "after"} => InScope("tx")
    /\ Stacked(scopes, Depth, txs)

\* A stack as high as another, and no different but for what Stacked is not about.
LEMMA StackedAlike ==
    ASSUME NEW d \in Nat, NEW e \in Nat, e <= d, NEW n \in Nat, NEW st, NEW tt, Stacked(st, d, n),
           \A i \in 1..e : /\ tt[i].kind = st[i].kind /\ tt[i].tx = st[i].tx
                          /\ tt[i].commitsHere = st[i].commitsHere
    PROVE  Stacked(tt, e, n)
BY DEF Stacked

\* A stack with one more scope.
LEMMA StackedGrows ==
    ASSUME NEW d \in Nat, NEW n \in Nat, NEW m \in Nat, n <= m, NEW st, NEW tt, Stacked(st, d, n),
           \A i \in 1..d : tt[i] = st[i], NEW s, tt[d + 1] = s, s.tx \in 1..m,
           \/ s.kind = "tx" /\ s.commitsHere /\ n < s.tx
           \/ s.kind = "bound" /\ ~s.commitsHere /\ n < s.tx
           \/ /\ s.kind = "savepoint" /\ d > 0
              /\ s.tx = st[d].tx /\ s.commitsHere = st[d].commitsHere
    PROVE  Stacked(tt, d + 1, m)
<1>1. ASSUME NEW i \in 1..d PROVE
        /\ tt[i].tx \in 1..m
        /\ tt[i].kind = "tx" => tt[i].commitsHere
        /\ tt[i].kind = "bound" => ~tt[i].commitsHere
        /\ tt[i].kind = "savepoint" =>
              /\ i > 1
              /\ tt[i].tx = tt[i - 1].tx
              /\ tt[i].commitsHere = tt[i - 1].commitsHere
        /\ \A j \in 1..(i - 1) :
              /\ tt[j].tx <= tt[i].tx
              /\ tt[i].kind # "savepoint" => tt[j].tx < tt[i].tx
  BY DEF Stacked
<1>2. \A j \in 1..d : tt[j].tx \in 1..n /\ tt[j].tx <= st[d].tx
  BY DEF Stacked
<1>3. d > 0 => tt[d] = st[d]
  OBVIOUS
<1>4. (d + 1) - 1 = d /\ \A i \in 1..(d + 1) : i \in 1..d \/ i = d + 1
  OBVIOUS
<1>. QED
  BY <1>1, <1>2, <1>3, <1>4 DEF Stacked

\* Types and the shape of the stack hold at first.
LEMMA ShapeInit == Init => TypeOK /\ Shape
<1> SUFFICES ASSUME Init PROVE TypeOK /\ Shape
  OBVIOUS
<1>1. scopes \in Seq(Scope) /\ Len(scopes) = 0 /\ ran \in Seq([tx : 0..MaxTx, work : 1..MaxWork])
  BY EmptySeq DEF Init
<1>2. TypeOK
  BY <1>1, BoundsAssumption DEF Init, TypeOK, Phases
<1>. QED
  BY <1>1, <1>2 DEF Init, Shape, Stacked, Depth

\* A new scope, of a transaction of its own or of the one it is a savepoint in.
LEMMA PushingShape ==
    ASSUME TypeOK, Shape, NEW s \in Scope, scopes' = Append(scopes, s), phase' = "running",
           txs' \in 0..MaxTx, txs <= txs',
           \/ s.kind = "tx" /\ s.commitsHere /\ txs < s.tx /\ s.tx = txs'
           \/ s.kind = "bound" /\ ~s.commitsHere /\ txs < s.tx /\ s.tx = txs'
           \/ s.kind = "savepoint" /\ Depth > 0 /\ s.tx = Top.tx /\ s.commitsHere = Top.commitsHere
    PROVE  scopes' \in Seq(Scope) /\ Shape'
<1>1. /\ scopes' \in Seq(Scope)
      /\ Depth' = Depth + 1 /\ scopes'[Depth + 1] = s
      /\ \A i \in 1..Depth : scopes'[i] = scopes[i]
  BY Pushed
<1>2. Depth \in Nat /\ (Depth > 0 => Top = scopes[Depth]) /\ txs \in Nat /\ txs' \in Nat
  BY Scopes DEF TypeOK
<1>3. Stacked(scopes, Depth, txs)
  BY DEF Shape
<1>4. Depth > 0 => Top.tx \in 1..txs
  BY <1>2, <1>3 DEF Stacked
<1>5. s.tx \in 1..txs'
  BY <1>2, <1>4
<1>6. Stacked(scopes', Depth + 1, txs')
  BY <1>1, <1>2, <1>3, <1>5, StackedGrows
<1>. QED
  BY <1>1, <1>2, <1>6 DEF Shape

\* A change of the innermost scope that leaves it where it belongs.
LEMMA ChangingShape ==
    ASSUME TypeOK, Shape, Depth > 0, NEW s \in Scope, scopes' = WithTop(s),
           s.kind = Top.kind, s.tx = Top.tx, s.commitsHere = Top.commitsHere,
           txs' = txs, phase' = phase \/ phase' \in {"running", "throwing"}
    PROVE  scopes' \in Seq(Scope) /\ Shape'
<1>1. /\ scopes' \in Seq(Scope)
      /\ Depth' = Depth /\ Top' = s /\ scopes'[Depth] = s
      /\ \A i \in 1..(Depth - 1) : scopes'[i] = scopes[i]
  BY Retopped
<1>2. Depth \in Nat /\ Top = scopes[Depth] /\ txs \in Nat
  BY Scopes DEF TypeOK
<1>3. \A i \in 1..Depth : /\ scopes'[i].kind = scopes[i].kind /\ scopes'[i].tx = scopes[i].tx
                          /\ scopes'[i].commitsHere = scopes[i].commitsHere
  BY <1>1, <1>2
<1>4. Stacked(scopes, Depth, txs) /\ Depth <= Depth
  BY <1>2 DEF Shape
<1>5. Stacked(scopes', Depth, txs)
  BY <1>2, <1>3, <1>4, StackedAlike
<1>. QED
  BY <1>1, <1>5 DEF Shape, InScope

\* A way out of the innermost scope.
LEMMA PoppingShape ==
    ASSUME TypeOK, Shape, Depth > 0, scopes' = Outer, txs' = txs,
           phase' = "running" \/ (phase' = "throwing" /\ Depth > 1)
    PROVE  scopes' \in Seq(Scope) /\ Shape'
<1>1. /\ scopes' \in Seq(Scope) /\ Depth' = Depth - 1
      /\ \A i \in 1..(Depth - 1) : scopes'[i] = scopes[i]
  BY Popped DEF Depth
<1>2. Depth \in Nat /\ Depth - 1 \in Nat /\ Depth - 1 <= Depth /\ txs \in Nat
  BY Scopes DEF TypeOK
<1>3. Stacked(scopes', Depth - 1, txs)
  BY <1>1, <1>2, StackedAlike DEF Shape
<1>. QED
  BY <1>1, <1>2, <1>3 DEF Shape

\* A savepoint is never the outermost scope.
LEMMA UnderSavepoint ==
    ASSUME TypeOK, Shape, InScope("savepoint")
    PROVE  /\ Depth > 1 /\ Top.tx = scopes[Depth - 1].tx
           /\ Top.commitsHere = scopes[Depth - 1].commitsHere
<1>1. Depth \in Nat /\ Depth \in 1..Depth /\ Top = scopes[Depth] /\ Top.kind = "savepoint"
  BY Scopes DEF InScope
<1>. QED
  BY <1>1 DEF Shape, Stacked

\* A savepoint's release, which hands what it has to the scope below it.
LEMMA ReleasingShape ==
    ASSUME TypeOK, Shape, Release
    PROVE  scopes' \in Seq(Scope) /\ Shape'
<1>1. Depth \in Nat /\ Depth > 1 /\ Depth - 1 \in Nat /\ txs \in Nat
  <2>1. Depth > 1
    BY UnderSavepoint DEF Release
  <2>. QED
    BY <2>1, Scopes DEF TypeOK
<1>2. /\ scopes' \in Seq(Scope) /\ Depth' = Depth - 1 /\ scopes'[Depth - 1] = Kept
      /\ \A i \in 1..(Depth - 2) : scopes'[i] = scopes[i]
  BY <1>1, Merged, Handed DEF Release
<1>3. \A i \in 1..(Depth - 1) : /\ scopes'[i].kind = scopes[i].kind /\ scopes'[i].tx = scopes[i].tx
                                /\ scopes'[i].commitsHere = scopes[i].commitsHere
  BY <1>1, <1>2, Handed
<1>4. Stacked(scopes', Depth - 1, txs)
  BY <1>1, <1>3, StackedAlike DEF Shape
<1>. QED
  BY <1>1, <1>2, <1>4 DEF Release, Shape

\* Every step keeps types and the shape of the stack.
LEMMA TypeStep == TypeOK /\ Shape /\ [Next]_vars => TypeOK' /\ Shape'
<1> SUFFICES ASSUME TypeOK, Shape, [Next]_vars PROVE TypeOK' /\ Shape'
  OBVIOUS
<1>1. /\ Depth \in Nat
      /\ Depth > 0 => Top \in Scope /\ Top = scopes[Depth]
      /\ works \in 0..MaxWork /\ txs \in 0..MaxTx /\ joined \in 0..Participants
  BY Scopes DEF TypeOK
<1>2. ASSUME NEW kind \in {"tx", "bound"}, Begin(kind) PROVE TypeOK' /\ Shape'
  <2>1. /\ NewScope(kind, txs + 1, kind = "tx") \in Scope /\ txs + 1 \in 0..MaxTx
        /\ txs' = txs + 1 /\ scopes' = Append(scopes, NewScope(kind, txs + 1, kind = "tx"))
    BY <1>1, <1>2, EmptySeq, BoundsAssumption DEF Begin, NewScope, Scope, Kinds
  <2>2. scopes' \in Seq(Scope) /\ Shape'
    <3>1. phase' = "running" /\ txs' \in 0..MaxTx /\ txs <= txs'
      BY <1>1, <1>2, <2>1 DEF Begin
    <3>2. PICK s \in Scope : s = NewScope(kind, txs + 1, kind = "tx")
      BY <2>1
    <3>3. s.kind = kind /\ s.tx = txs' /\ txs < s.tx /\ scopes' = Append(scopes, s)
      BY <1>1, <2>1, <3>2 DEF NewScope
    <3>4. s.commitsHere <=> kind = "tx"
      BY <3>2 DEF NewScope
    <3>. QED
      BY <1>2, <3>1, <3>3, <3>4, PushingShape
  <2>. QED
    BY <1>2, <2>1, <2>2 DEF TypeOK, Begin
<1>3. CASE Savepoint
  <2>1. /\ NewScope("savepoint", Top.tx, Top.commitsHere) \in Scope
        /\ scopes' = Append(scopes, NewScope("savepoint", Top.tx, Top.commitsHere))
    BY <1>1, <1>3, EmptySeq DEF Savepoint, NewScope, Scope, Kinds
  <2>2. scopes' \in Seq(Scope) /\ Shape'
    BY <1>1, <1>3, <2>1, PushingShape DEF Savepoint, NewScope
  <2>. QED
    BY <1>3, <2>2 DEF TypeOK, Savepoint
<1>4. CASE Write
  <2>1. works' \in 0..MaxWork /\ works + 1 \in 1..MaxWork
    BY <1>1, <1>4, BoundsAssumption DEF Write
  <2>2. CASE Depth = 0
    BY <1>4, <2>1, <2>2 DEF Write, TypeOK, Shape, Depth, InScope, Top
  <2>3. CASE Depth > 0
    <3>1. [Top EXCEPT !.writes = @ \union {works + 1}] \in Scope
      BY <1>1, <2>1, <2>3 DEF Scope
    <3>2. scopes' \in Seq(Scope) /\ Shape'
      <4>1. /\ scopes' = WithTop([Top EXCEPT !.writes = @ \union {works + 1}])
            /\ txs' = txs /\ phase' = phase
        BY <1>1, <1>4, <2>3 DEF Write
      <4>. QED
        BY <1>1, <2>3, <3>1, <4>1, ChangingShape DEF Scope
    <3>. QED
      BY <1>4, <2>1, <2>3, <3>2 DEF Write, TypeOK
  <2>. QED
    BY <1>1, <2>2, <2>3
<1>5. CASE SqlError
  <2>1. [Top EXCEPT !.broken = TRUE] \in Scope
    BY <1>1, <1>5 DEF SqlError, Scope
  <2>2. scopes' \in Seq(Scope) /\ Shape'
    BY <1>1, <1>5, <2>1, ChangingShape DEF SqlError, Scope
  <2>. QED
    BY <1>5, <2>2 DEF TypeOK, SqlError, Phases
<1>6. CASE AppError \/ Catch \/ StartCommit \/ Participate \/ Crash
  <2>1. /\ scopes' = scopes /\ txs' = txs
        /\ UNCHANGED <<works, registered, durable, marked, told, unanswered, ran, dropped>>
        /\ phase' \in Phases
        /\ phase' = "throwing" => Depth > 0
        /\ phase' \in {"joining", "after"} => InScope("tx")
    <3>1. CASE AppError \/ Catch \/ Crash
      BY <1>6, <3>1 DEF AppError, Catch, Crash, Phases
    <3>2. CASE StartCommit \/ Participate
      BY <3>2 DEF StartCommit, Participate, Phases, Shape, TypeOK
    <3>. QED
      BY <1>6, <3>1, <3>2
  <2>2. joined' \in 0..Participants
    BY <1>1, <1>6, BoundsAssumption
       DEF AppError, Catch, StartCommit, Participate, Crash
  <2>. QED
    BY <2>1, <2>2 DEF TypeOK, Shape, Depth, InScope, Top
<1>7. CASE AfterCommit
  <2>1. works \in 1..MaxWork
    BY <1>1, <1>7 DEF AfterCommit
  <2>2. CASE Depth = 0
    <3>1. [tx |-> 0, work |-> works] \in [tx : 0..MaxTx, work : 1..MaxWork]
      BY <2>1, BoundsAssumption
    <3>2. ran' \in Seq([tx : 0..MaxTx, work : 1..MaxWork])
      <4>1. ran' = Append(ran, [tx |-> 0, work |-> works]) /\ ran \in Seq([tx : 0..MaxTx, work : 1..MaxWork])
        BY <1>7, <2>2 DEF AfterCommit, TypeOK
      <4>. QED
        BY <3>1, <4>1, AppendProperties
    <3>. QED
      BY <1>7, <2>1, <2>2, <3>2 DEF AfterCommit, TypeOK, Shape, Depth, InScope, Top
  <2>3. CASE Depth > 0 /\ Top.commitsHere
    <3>1. Append(Top.callbacks, works) \in Seq(1..MaxWork)
      BY <1>1, <2>1, <2>3, AppendProperties DEF Scope
    <3>2. [Top EXCEPT !.callbacks = Append(@, works)] \in Scope
      BY <1>1, <2>3, <3>1 DEF Scope
    <3>3. scopes' \in Seq(Scope) /\ Shape'
      <4>1. /\ scopes' = WithTop([Top EXCEPT !.callbacks = Append(@, works)])
            /\ txs' = txs /\ phase' = phase
        BY <1>1, <1>7, <2>3 DEF AfterCommit
      <4>. QED
        BY <1>1, <2>3, <3>2, <4>1, ChangingShape DEF Scope
    <3>. QED
      BY <1>7, <2>1, <2>3, <3>3 DEF AfterCommit, TypeOK
  <2>4. CASE Depth > 0 /\ ~Top.commitsHere
    BY <1>7, <2>4 DEF AfterCommit, TypeOK, Phases, Shape, Depth, InScope, Top
  <2>. QED
    BY <1>1, <2>2, <2>3, <2>4
<1>8. CASE Release
  BY <1>8, ReleasingShape DEF Release, TypeOK
<1>9. CASE \/ RollbackTo \/ RollbackTx \/ CallbackThrows \/ Finish \/ EndBound
           \/ ParticipantFails \/ CommitFails
  <2>1. Depth > 0
    BY <1>9 DEF RollbackTo, RollbackTx, CallbackThrows, Finish, EndBound, ParticipantFails,
                CommitFails, InScope, Shape
  <2>2. RollbackTo => Depth > 1
    BY UnderSavepoint DEF RollbackTo
  <2>3. scopes' \in Seq(Scope) /\ Shape'
    <3>1. scopes' = Outer /\ txs' = txs
      BY <1>9 DEF RollbackTo, RollbackTx, CallbackThrows, Finish, EndBound, ParticipantFails,
                  CommitFails, Abandoned
    <3>2. phase' = "running" \/ (phase' = "throwing" /\ Depth > 1)
      <4>0. Rethrown = "running" \/ (Rethrown = "throwing" /\ Depth > 1)
        BY DEF Rethrown
      <4>1. CASE RollbackTo
        BY <4>1, <2>2 DEF RollbackTo
      <4>2. CASE EndBound
        BY <4>0, <4>2 DEF EndBound
      <4>. QED
        BY <1>9, <4>0, <4>1, <4>2
           DEF RollbackTx, CallbackThrows, Finish, ParticipantFails, CommitFails, Abandoned
    <3>. QED
      BY <2>1, <3>1, <3>2, PoppingShape
  <2>4. CASE CallbackThrows
    <3>1. \A i \in 1..Len(Top.callbacks) : Top.callbacks[i] \in 1..MaxWork
      BY <1>1, <2>1, ElementOfSeq DEF Scope
    <3>. QED
      BY <2>3, <2>4, <3>1 DEF CallbackThrows, TypeOK, Rethrown, Phases
  <2>5. CASE EndBound
    BY <1>1, <2>1, <2>3, <2>5 DEF EndBound, TypeOK, Rethrown, Phases, Scope
  <2>6. CASE CommitFails
    <3>1. \A i \in 1..Len(Top.callbacks) : Top.callbacks[i] \in 1..MaxWork
      BY <1>1, <2>1, ElementOfSeq DEF Scope
    <3>2. Top.writes \subseteq 1..MaxWork /\ Top.tx \in 1..MaxTx
      BY <1>1, <2>1 DEF Scope
    <3>3. /\ durable' \subseteq 1..MaxWork /\ marked' \subseteq 1..MaxTx
          /\ unanswered' \subseteq 1..MaxTx /\ dropped' \subseteq 1..MaxWork
      BY <2>6, <3>1, <3>2 DEF CommitFails, AppliedUnanswered, TypeOK
    <3>. QED
      BY <2>3, <2>6, <3>3 DEF CommitFails, Abandoned, TypeOK, Rethrown, Phases
  <2>. QED
    BY <1>9, <2>3, <2>4, <2>5, <2>6
       DEF RollbackTo, RollbackTx, Finish, ParticipantFails, Abandoned, TypeOK, Rethrown, Phases
<1>10. CASE Commit
  <2>1. Top \in Scope /\ Top.tx \in 1..MaxTx
    BY <1>1, <1>10 DEF Commit, Shape, InScope, Scope
  <2>. QED
    BY <1>10, <2>1 DEF Commit, TypeOK, Phases, Shape, Scope, Depth, InScope, Top
<1>11. CASE RunCallback
  <2>1. Depth > 0 /\ Top \in Scope /\ Top.callbacks # <<>> /\ Top.callbacks \in Seq(1..MaxWork)
    BY <1>1, <1>11 DEF RunCallback, Shape, InScope, Scope
  <2>2. Tail(Top.callbacks) \in Seq(1..MaxWork) /\ Head(Top.callbacks) \in 1..MaxWork
    BY <2>1, HeadTailProperties
  <2>3. [Top EXCEPT !.callbacks = Tail(@)] \in Scope
    BY <2>1, <2>2 DEF Scope
  <2>4. scopes' \in Seq(Scope) /\ Shape'
    BY <1>1, <1>11, <2>1, <2>3, ChangingShape DEF RunCallback, Scope
  <2>5. [tx |-> Top.tx, work |-> Head(Top.callbacks)] \in [tx : 0..MaxTx, work : 1..MaxWork]
    BY <2>1, <2>2, BoundsAssumption DEF Scope
  <2>6. ran' \in Seq([tx : 0..MaxTx, work : 1..MaxWork])
    BY <1>11, <2>5, AppendProperties DEF RunCallback, TypeOK
  <2>. QED
    BY <1>11, <2>4, <2>6 DEF RunCallback, TypeOK
<1>12. CASE UNCHANGED vars
  BY <1>12 DEF vars, TypeOK, Shape, Depth, InScope, Top
<1>. QED
  BY <1>2, <1>3, <1>4, <1>5, <1>6, <1>7, <1>8, <1>9, <1>10, <1>11, <1>12
     DEF Next, App, End, Engine, BeginTx, Bind

\* TypeOK, as the code's own types and the nesting it enforces keep it: every
\* scope popped is one that was pushed, in every order of errors and ends.
THEOREM TypeCorrect == Spec => []TypeOK
<1>1. Spec => [](TypeOK /\ Shape)
  BY ShapeInit, TypeStep, PTL DEF Spec
<1>. QED
  BY <1>1, PTL

------------------------------------------------------------------------------
(* The work of a scope and the callbacks that wait in it.  Until the scope    *)
(* commits, none of its work is durable and each callback registered for it   *)
(* waits in it; a bound scope has none; no two scopes share work.             *)

Working(st, d, ph, ws, reg, dur) ==
    \A i \in 1..d :
        /\ st[i].writes \subseteq 1..ws
        /\ In(st[i].callbacks) \subseteq st[i].writes \intersect reg
        /\ st[i].commitsHere \/ In(st[i].callbacks) = {}
        /\ \A j \in 1..(i - 1) : st[j].writes \intersect st[i].writes = {}
        /\ i # d \/ ph # "after" =>
              /\ st[i].writes \intersect dur = {}
              /\ st[i].writes \intersect reg \subseteq In(st[i].callbacks)

Work ==
    /\ registered \subseteq 1..works
    /\ durable \subseteq 1..works
    /\ phase # "dead" => Working(scopes, Depth, phase, works, registered, durable)
    /\ NothingLost

\* The same scopes, or those left when the innermost ends, whatever else is
\* written and commits.
LEMMA WorkingKept ==
    ASSUME NEW d \in Nat, NEW e \in Nat, e <= d, NEW st, NEW tt, NEW ph, NEW qh,
           NEW ws \in Nat, NEW vs \in Nat, ws <= vs, NEW reg, NEW dur, NEW dir,
           Working(st, d, ph, ws, reg, dur), ph # "after" \/ e < d,
           \A i \in 1..e : /\ tt[i].writes = st[i].writes /\ tt[i].callbacks = st[i].callbacks
                          /\ tt[i].commitsHere = st[i].commitsHere,
           \A i \in 1..e : i # e \/ qh # "after" => st[i].writes \intersect dir \subseteq dur
    PROVE  Working(tt, e, qh, vs, reg, dir)
<1>1. 1..ws \subseteq 1..vs
  OBVIOUS
<1>2. ASSUME NEW i \in 1..e PROVE
        /\ tt[i].writes \subseteq 1..vs
        /\ In(tt[i].callbacks) \subseteq tt[i].writes \intersect reg
        /\ tt[i].commitsHere \/ In(tt[i].callbacks) = {}
        /\ \A j \in 1..(i - 1) : tt[j].writes \intersect tt[i].writes = {}
  BY <1>1 DEF Working
<1>3. ASSUME NEW i \in 1..e, i # e \/ qh # "after" PROVE
        /\ tt[i].writes \intersect dir = {}
        /\ tt[i].writes \intersect reg \subseteq In(tt[i].callbacks)
  <2>1. i \in 1..d /\ (i # d \/ ph # "after")
    OBVIOUS
  <2>2. st[i].writes \intersect dur = {} /\ st[i].writes \intersect reg \subseteq In(st[i].callbacks)
    BY <2>1 DEF Working
  <2>. QED
    BY <1>3, <2>2
<1>. QED
  BY <1>2, <1>3 DEF Working

\* A scope more, in which nothing is done yet.
LEMMA WorkingGrows ==
    ASSUME NEW d \in Nat, NEW st, NEW tt, NEW ph, NEW ws \in Nat, NEW reg, NEW dur,
           Working(st, d, ph, ws, reg, dur), ph # "after", \A i \in 1..d : tt[i] = st[i],
           tt[d + 1].writes = {}, In(tt[d + 1].callbacks) = {}
    PROVE  Working(tt, d + 1, ph, ws, reg, dur)
<1>1. \A i \in 1..(d + 1) : (i \in 1..d /\ tt[i] = st[i]) \/ i = d + 1
  OBVIOUS
<1>2. \A i \in 1..d : \A j \in 1..(i - 1) : j \in 1..d /\ tt[j] = st[j]
  OBVIOUS
<1>. QED
  BY <1>1, <1>2 DEF Working

\* A statement that writes, in the innermost scope.
LEMMA WorkingWrites ==
    ASSUME NEW d \in Nat, d > 0, NEW st, NEW tt, NEW ph, NEW ws \in Nat, NEW reg, NEW dur,
           reg \subseteq 1..ws, dur \subseteq 1..ws,
           Working(st, d, ph, ws, reg, dur), ph # "after", \A i \in 1..(d - 1) : tt[i] = st[i],
           tt[d].writes = st[d].writes \union {ws + 1}, tt[d].callbacks = st[d].callbacks,
           tt[d].commitsHere = st[d].commitsHere
    PROVE  Working(tt, d, ph, ws + 1, reg, dur)
<1>1. 1..ws \subseteq 1..(ws + 1) /\ ws + 1 \notin 1..ws /\ ws + 1 \in 1..(ws + 1)
  OBVIOUS
<1>2. \A i \in 1..d : (i \in 1..(d - 1) /\ tt[i] = st[i]) \/ i = d
  OBVIOUS
<1>3. \A i \in 1..d : \A j \in 1..(i - 1) : j \in 1..(d - 1) /\ tt[j] = st[j]
  OBVIOUS
<1>4. \A i \in 1..d : st[i].writes \subseteq 1..ws
  BY DEF Working
<1>5. ASSUME NEW i \in 1..(d - 1) PROVE
        /\ tt[i].writes \subseteq 1..(ws + 1)
        /\ In(tt[i].callbacks) \subseteq tt[i].writes \intersect reg
        /\ tt[i].commitsHere \/ In(tt[i].callbacks) = {}
        /\ \A j \in 1..(i - 1) : tt[j].writes \intersect tt[i].writes = {}
        /\ tt[i].writes \intersect dur = {}
        /\ tt[i].writes \intersect reg \subseteq In(tt[i].callbacks)
  BY <1>1, <1>3 DEF Working
<1>6. /\ tt[d].writes \subseteq 1..(ws + 1)
      /\ In(tt[d].callbacks) \subseteq tt[d].writes \intersect reg
      /\ tt[d].commitsHere \/ In(tt[d].callbacks) = {}
      /\ tt[d].writes \intersect dur = {}
      /\ tt[d].writes \intersect reg \subseteq In(tt[d].callbacks)
  BY <1>1 DEF Working
<1>7. ASSUME NEW j \in 1..(d - 1) PROVE tt[j].writes \intersect tt[d].writes = {}
  <2>1. st[j].writes \intersect st[d].writes = {} /\ st[j].writes \subseteq 1..ws /\ tt[j] = st[j]
    BY <1>4 DEF Working
  <2>. QED
    BY <1>1, <2>1
<1>. QED
  BY <1>2, <1>5, <1>6, <1>7 DEF Working

\* A callback for work of the innermost scope.
LEMMA WorkingRegisters ==
    ASSUME NEW d \in Nat, d > 0, NEW st, NEW tt, NEW ph, NEW ws \in Nat, NEW reg, NEW dur, NEW w \in st[d].writes,
           Working(st, d, ph, ws, reg, dur), ph # "after", \A i \in 1..(d - 1) : tt[i] = st[i],
           tt[d].writes = st[d].writes, In(tt[d].callbacks) = In(st[d].callbacks) \union {w},
           tt[d].commitsHere
    PROVE  Working(tt, d, ph, ws, reg \union {w}, dur)
<1>2. \A i \in 1..d : (i \in 1..(d - 1) /\ tt[i] = st[i] /\ w \notin st[i].writes) \/ i = d
  BY DEF Working
<1>3. \A i \in 1..d : \A j \in 1..(i - 1) : j \in 1..(d - 1) /\ tt[j] = st[j]
  OBVIOUS
<1>. QED
  BY <1>2, <1>3 DEF Working

\* A callback run.
LEMMA WorkingRuns ==
    ASSUME NEW d \in Nat, d > 0, NEW st, NEW tt, NEW ph, NEW ws \in Nat, NEW reg, NEW dur,
           Working(st, d, ph, ws, reg, dur), ph = "after", \A i \in 1..(d - 1) : tt[i] = st[i],
           tt[d].writes = st[d].writes, In(tt[d].callbacks) \subseteq In(st[d].callbacks),
           tt[d].commitsHere = st[d].commitsHere
    PROVE  Working(tt, d, ph, ws, reg, dur)
<1>2. \A i \in 1..d : (i \in 1..(d - 1) /\ tt[i] = st[i]) \/ i = d
  OBVIOUS
<1>3. \A i \in 1..d : \A j \in 1..(i - 1) : j \in 1..(d - 1) /\ tt[j] = st[j]
  OBVIOUS
<1>. QED
  BY <1>2, <1>3 DEF Working

\* A savepoint released into the scope below it.
LEMMA WorkingMerges ==
    ASSUME NEW d \in Nat, d > 1, NEW st, NEW tt, NEW ph, NEW ws \in Nat, NEW reg, NEW dur,
           Working(st, d, ph, ws, reg, dur), ph # "after", \A i \in 1..(d - 2) : tt[i] = st[i],
           tt[d - 1].writes = st[d - 1].writes \union st[d].writes,
           In(tt[d - 1].callbacks) = In(st[d - 1].callbacks) \union In(st[d].callbacks),
           tt[d - 1].commitsHere = st[d].commitsHere, tt[d - 1].commitsHere = st[d - 1].commitsHere
    PROVE  Working(tt, d - 1, ph, ws, reg, dur)
<1>1. d - 1 \in 1..d /\ d \in 1..d /\ \A j \in 1..(d - 2) : j \in 1..((d - 1) - 1) /\ j \in 1..(d - 1)
  OBVIOUS
<1>2. \A i \in 1..(d - 1) : (i \in 1..(d - 2) /\ i \in 1..d /\ tt[i] = st[i]) \/ i = d - 1
  OBVIOUS
<1>3. \A i \in 1..(d - 1) : \A j \in 1..(i - 1) : j \in 1..(d - 2) /\ j \in 1..d /\ tt[j] = st[j]
  OBVIOUS
<1>4. \A j \in 1..(d - 2) : st[j].writes \intersect tt[d - 1].writes = {}
  BY <1>1 DEF Working
<1>5. /\ tt[d - 1].writes \subseteq 1..ws
      /\ In(tt[d - 1].callbacks) \subseteq tt[d - 1].writes \intersect reg
      /\ tt[d - 1].commitsHere \/ In(tt[d - 1].callbacks) = {}
      /\ tt[d - 1].writes \intersect dur = {}
      /\ tt[d - 1].writes \intersect reg \subseteq In(tt[d - 1].callbacks)
  BY <1>1 DEF Working
<1>. QED
  BY <1>2, <1>3, <1>4, <1>5 DEF Working

\* What waits to run, as the set it is.
LEMMA Waiting ==
    Pending = IF phase = "after" THEN In(Top.callbacks) ELSE {}
BY DEF Pending, In

\* What has run, and one callback more.
LEMMA RanMore ==
    ASSUME NEW S, ran \in Seq(S), NEW t, NEW w, [tx |-> t, work |-> w] \in S,
           ran' = Append(ran, [tx |-> t, work |-> w])
    PROVE  /\ RanWork' = RanWork \union {w}
           /\ Len(ran) \in Nat /\ Len(ran') = Len(ran) + 1
           /\ ran'[Len(ran) + 1].tx = t /\ ran'[Len(ran) + 1].work = w
           /\ \A r \in 1..Len(ran) : ran'[r] = ran[r]
<1>1. /\ Len(ran) \in Nat /\ Len(ran') = Len(ran) + 1
      /\ ran'[Len(ran) + 1] = [tx |-> t, work |-> w]
      /\ \A r \in 1..Len(ran) : ran'[r] = ran[r]
  BY AppendProperties, LenProperties
<1>2. RanWork \union {w} \subseteq RanWork'
  BY <1>1 DEF RanWork
<1>3. RanWork' \subseteq RanWork \union {w}
  BY <1>1 DEF RanWork
<1>. QED
  BY <1>1, <1>2, <1>3

\* Nothing is registered at the start.
LEMMA WorkInit == Init => Work
<1> SUFFICES ASSUME Init PROVE Work
  OBVIOUS
<1>1. Depth = 0
  BY EmptySeq DEF Init, Depth
<1>. QED
  BY <1>1 DEF Init, Work, Working, NothingLost

\* What neither writes, registers nor runs anything, and stays in the scope or
\* leaves it for the one around it: what waits in a scope left is run or dropped.
LEMMA WorkStays ==
    ASSUME TypeOK, Shape, Work, phase # "dead", phase' # "dead",
           \/ scopes' = scopes /\ phase # "after" /\ phase' # "after"
           \/ scopes' = Outer /\ Depth > 0 /\ phase' # "after",
           phase = "after" => In(Top.callbacks) \subseteq dropped',
           UNCHANGED <<works, registered, durable, ran>>, dropped \subseteq dropped'
    PROVE  Work'
<1>1. Depth \in Nat /\ works \in Nat /\ Working(scopes, Depth, phase, works, registered, durable)
  BY Scopes DEF TypeOK, Work
<1>2. \A i \in 1..Depth : scopes[i].writes \intersect durable \subseteq durable
  OBVIOUS
<1>3. Working(scopes', Depth', phase', works, registered, durable)
  <2>1. CASE scopes' = scopes /\ phase # "after" /\ phase' # "after"
    <3>1. Depth' = Depth /\ \A i \in 1..Depth : scopes'[i] = scopes[i]
      BY <2>1 DEF Depth
    <3>. QED
      BY <1>1, <1>2, <2>1, <3>1, WorkingKept
  <2>2. CASE scopes' = Outer /\ Depth > 0 /\ phase' # "after"
    <3>1. Depth' = Depth - 1 /\ \A i \in 1..(Depth - 1) : scopes'[i] = scopes[i]
      BY <2>2, Popped DEF Depth
    <3>2. Depth - 1 \in Nat /\ Depth - 1 <= Depth /\ Depth - 1 < Depth
      BY <1>1, <2>2
    <3>. QED
      BY <1>1, <1>2, <2>2, <3>1, <3>2, WorkingKept
  <2>. QED
    BY <2>1, <2>2
<1>4. registered \intersect durable \subseteq RanWork \union dropped'
  <2>1. registered \intersect durable \subseteq RanWork \union Pending \union dropped
    BY DEF Work, NothingLost
  <2>2. Pending \subseteq dropped'
    BY Waiting
  <2>. QED
    BY <2>1, <2>2
<1>5. RanWork' = RanWork
  BY DEF RanWork
<1>. QED
  BY <1>3, <1>4, <1>5 DEF Work, NothingLost

\* Every step keeps what Work says.
LEMMA WorkStep == TypeOK /\ Shape /\ Work /\ [Next]_vars => Work'
<1> SUFFICES ASSUME TypeOK, Shape, Work, [Next]_vars PROVE Work'
  OBVIOUS
<1>1. /\ Depth \in Nat /\ works \in Nat
      /\ registered \subseteq 1..works /\ durable \subseteq 1..works
  BY Scopes DEF TypeOK, Work
<1>2. ASSUME phase # "dead" PROVE Working(scopes, Depth, phase, works, registered, durable)
  BY <1>2 DEF Work
<1>3. ASSUME Depth > 0 PROVE Top \in Scope /\ Top = scopes[Depth] /\ Depth \in 1..Depth
  BY <1>1, <1>3, Scopes
<1>4. ASSUME phase # "dead", phase # "after"
      PROVE  registered \intersect durable \subseteq RanWork \union dropped
  BY <1>4, Waiting DEF Work, NothingLost
<1>5. ASSUME NEW s, scopes' = Append(scopes, s), s \in Scope, s.writes = {}, s.callbacks = <<>>,
             phase = "running", UNCHANGED <<phase, works, registered, durable, ran, dropped>>
      PROVE  Work'
  <2>1. /\ Depth' = Depth + 1 /\ scopes'[Depth + 1] = s
        /\ \A i \in 1..Depth : scopes'[i] = scopes[i]
    BY <1>5, Pushed
  <2>2. Working(scopes', Depth + 1, phase, works, registered, durable)
    BY <1>1, <1>2, <1>5, <2>1, InEmpty, WorkingGrows
  <2>3. RanWork' = RanWork /\ registered \intersect durable \subseteq RanWork \union dropped
    BY <1>4, <1>5 DEF RanWork
  <2>. QED
    BY <1>1, <1>5, <2>1, <2>2, <2>3 DEF Work, NothingLost
<1>6. CASE BeginTx \/ Bind \/ Savepoint
  <2>1. ASSUME NEW kind, Begin(kind), kind \in {"tx", "bound"} PROVE Work'
    <3>1. NewScope(kind, txs + 1, kind = "tx") \in Scope
      <4>1. txs + 1 \in 1..MaxTx
        BY <2>1, BoundsAssumption DEF TypeOK, Begin
      <4>. QED
        BY <2>1, <4>1, EmptySeq DEF NewScope, Scope, Kinds
    <3>. QED
      BY <1>5, <2>1, <3>1 DEF Begin, NewScope
  <2>2. CASE Savepoint
    <3>1. NewScope("savepoint", Top.tx, Top.commitsHere) \in Scope
      BY <1>1, <1>3, <2>2, EmptySeq DEF Savepoint, NewScope, Scope, Kinds
    <3>. QED
      BY <1>5, <2>2, <3>1 DEF Savepoint, NewScope
  <2>. QED
    BY <1>6, <2>1, <2>2 DEF BeginTx, Bind
<1>7. CASE Write
  <2>1. /\ works' = works + 1 /\ phase = "running" /\ phase' = phase
        /\ UNCHANGED <<registered, ran, dropped>>
        /\ registered \intersect durable \subseteq RanWork \union dropped
        /\ RanWork' = RanWork
        /\ 1..works \subseteq 1..(works + 1) /\ works + 1 \in 1..(works + 1) /\ works + 1 \notin 1..works
    BY <1>1, <1>4, <1>7 DEF Write, RanWork
  <2>2. CASE Depth = 0
    <3>1. durable' = durable \union {works + 1} /\ Depth' = 0
      BY <1>7, <2>2 DEF Write, Depth
    <3>2. Working(scopes', Depth', phase', works', registered', durable')
      BY <3>1 DEF Working
    <3>3. registered' \intersect durable' \subseteq RanWork' \union dropped'
      BY <1>1, <2>1, <3>1
    <3>. QED
      BY <1>1, <2>1, <3>1, <3>2, <3>3 DEF Work, NothingLost
  <2>3. CASE Depth > 0
    <3>1. scopes' = WithTop([Top EXCEPT !.writes = @ \union {works + 1}]) /\ durable' = durable
      BY <1>1, <1>7, <2>3 DEF Write
    <3>2. [Top EXCEPT !.writes = @ \union {works + 1}] \in Scope
      <4>1. works + 1 \in 1..MaxWork
        BY <1>1, <1>7, BoundsAssumption DEF Write, TypeOK
      <4>. QED
        BY <1>3, <2>3, <4>1 DEF Scope
    <3>3. /\ Depth' = Depth /\ scopes'[Depth] = [Top EXCEPT !.writes = @ \union {works + 1}]
          /\ \A i \in 1..(Depth - 1) : scopes'[i] = scopes[i]
      BY <2>3, <3>1, <3>2, Retopped
    <3>4. /\ scopes'[Depth].writes = scopes[Depth].writes \union {works + 1}
          /\ scopes'[Depth].callbacks = scopes[Depth].callbacks
          /\ scopes'[Depth].commitsHere = scopes[Depth].commitsHere
      BY <1>3, <2>3, <3>3 DEF Scope
    <3>5. Working(scopes', Depth, phase, works + 1, registered, durable)
      BY <1>1, <1>2, <2>1, <2>3, <3>3, <3>4, WorkingWrites
    <3>. QED
      BY <1>1, <2>1, <3>1, <3>3, <3>5 DEF Work, NothingLost
  <2>. QED
    BY <1>1, <2>2, <2>3
<1>8. CASE SqlError
  <2>1. /\ Depth > 0 /\ phase = "running" /\ phase' = "throwing"
        /\ scopes' = WithTop([Top EXCEPT !.broken = TRUE])
        /\ UNCHANGED <<works, registered, durable, ran, dropped>>
    BY <1>8 DEF SqlError
  <2>2. [Top EXCEPT !.broken = TRUE] \in Scope
    BY <1>3, <2>1 DEF Scope
  <2>3. /\ Depth' = Depth /\ scopes'[Depth] = [Top EXCEPT !.broken = TRUE]
        /\ \A i \in 1..(Depth - 1) : scopes'[i] = scopes[i]
    BY <2>1, <2>2, Retopped
  <2>4. \A i \in 1..Depth : /\ scopes'[i].writes = scopes[i].writes
                            /\ scopes'[i].callbacks = scopes[i].callbacks
                            /\ scopes'[i].commitsHere = scopes[i].commitsHere
    <3>1. \A i \in 1..Depth : i \in 1..(Depth - 1) \/ i = Depth
      BY <1>1
    <3>2. /\ scopes'[Depth].writes = scopes[Depth].writes
          /\ scopes'[Depth].callbacks = scopes[Depth].callbacks
          /\ scopes'[Depth].commitsHere = scopes[Depth].commitsHere
      BY <1>3, <2>1, <2>3 DEF Scope
    <3>. QED
      BY <2>3, <3>1, <3>2
  <2>5. Working(scopes', Depth, phase', works, registered, durable)
    <3>1. \A i \in 1..Depth : scopes[i].writes \intersect durable \subseteq durable
      OBVIOUS
    <3>2. Working(scopes, Depth, phase, works, registered, durable)
      BY <1>2, <2>1
    <3>3. phase # "after" /\ Depth <= Depth /\ works <= works
      BY <1>1, <2>1
    <3>. QED
      BY <1>1, <2>4, <3>1, <3>2, <3>3, WorkingKept
  <2>6. RanWork' = RanWork /\ registered \intersect durable \subseteq RanWork \union dropped
    BY <1>4, <2>1 DEF RanWork
  <2>. QED
    BY <1>1, <2>1, <2>3, <2>5, <2>6 DEF Work, NothingLost
<1>9. CASE AppError \/ Catch \/ StartCommit \/ Participate
  BY <1>9, WorkStays DEF AppError, Catch, StartCommit, Participate
<1>10. CASE RollbackTo \/ RollbackTx \/ ParticipantFails
  <2>1. Depth > 0 /\ phase # "dead" /\ phase' # "dead" /\ phase' # "after" /\ phase # "after"
    BY <1>10 DEF RollbackTo, RollbackTx, ParticipantFails, Abandoned, Shape, InScope, Rethrown
  <2>. QED
    BY <1>10, <2>1, WorkStays DEF RollbackTo, RollbackTx, ParticipantFails, Abandoned
<1>11. CASE CallbackThrows \/ Finish
  <2>1. Depth > 0 /\ phase = "after" /\ phase' # "dead" /\ phase' # "after" /\ dropped \subseteq dropped'
    BY <1>11 DEF CallbackThrows, Finish, Shape, InScope, Rethrown
  <2>2. In(Top.callbacks) \subseteq dropped'
    BY <1>11, InEmpty DEF CallbackThrows, Finish, In
  <2>. QED
    BY <1>11, <2>1, <2>2, WorkStays DEF CallbackThrows, Finish
<1>12. CASE Crash
  BY <1>12 DEF Crash, Work, NothingLost
<1>13. CASE AfterCommit
  <2>1. /\ phase = "running" /\ works \in 1..works /\ works' = works
        /\ UNCHANGED <<durable, dropped>>
        /\ registered \intersect durable \subseteq RanWork \union dropped
    BY <1>1, <1>4, <1>13 DEF AfterCommit
  <2>2. CASE Depth = 0
    <3>1. /\ ran' = Append(ran, [tx |-> 0, work |-> works]) /\ registered' = registered \union {works}
          /\ scopes' = scopes /\ phase' = phase
      BY <1>13, <2>2 DEF AfterCommit
    <3>2. ran \in Seq([tx : 0..MaxTx, work : 1..MaxWork])
          /\ [tx |-> 0, work |-> works] \in [tx : 0..MaxTx, work : 1..MaxWork]
      BY <2>1, BoundsAssumption DEF TypeOK
    <3>3. RanWork' = RanWork \union {works}
      BY <3>1, <3>2, RanMore
    <3>4. Depth' = 0 /\ Working(scopes', 0, phase', works', registered', durable')
      BY <2>2, <3>1 DEF Depth, Working
    <3>. QED
      BY <1>1, <2>1, <3>1, <3>3, <3>4 DEF Work, NothingLost
  <2>3. CASE Depth > 0 /\ Top.commitsHere
    <3>1. /\ scopes' = WithTop([Top EXCEPT !.callbacks = Append(@, works)]) /\ works \in Top.writes
          /\ registered' = registered \union {works} /\ phase' = phase /\ ran' = ran
      BY <1>1, <1>13, <2>3 DEF AfterCommit
    <3>2. works \in 1..MaxWork /\ Top.callbacks \in Seq(1..MaxWork)
      BY <1>3, <2>1, <2>3 DEF TypeOK, Scope
    <3>3. [Top EXCEPT !.callbacks = Append(@, works)] \in Scope
      <4>1. Append(Top.callbacks, works) \in Seq(1..MaxWork)
        BY <3>2, AppendProperties
      <4>. QED
        BY <1>3, <2>3, <4>1 DEF Scope
    <3>4. /\ Depth' = Depth /\ scopes'[Depth] = [Top EXCEPT !.callbacks = Append(@, works)]
          /\ \A i \in 1..(Depth - 1) : scopes'[i] = scopes[i]
      BY <2>3, <3>1, <3>3, Retopped
    <3>5. /\ scopes'[Depth].writes = scopes[Depth].writes
          /\ scopes'[Depth].callbacks = Append(scopes[Depth].callbacks, works)
          /\ scopes'[Depth].commitsHere
      BY <1>3, <2>3, <3>4 DEF Scope
    <3>6. In(scopes'[Depth].callbacks) = In(scopes[Depth].callbacks) \union {works}
      <4>0. PICK S : S = 1..MaxWork
        OBVIOUS
      <4>1. In(Append(Top.callbacks, works)) = In(Top.callbacks) \union {works}
        <5>1. works \in S /\ Top.callbacks \in Seq(S)
          BY <3>2, <4>0
        <5>. QED
          BY <5>1, InAppend
      <4>. QED
        BY <1>3, <2>3, <3>5, <4>1
    <3>7. works \in scopes[Depth].writes /\ Working(scopes, Depth, phase, works, registered, durable)
      BY <1>2, <1>3, <2>1, <2>3, <3>1
    <3>8. Working(scopes', Depth, phase, works, registered \union {works}, durable)
      BY <1>1, <2>1, <2>3, <3>4, <3>5, <3>6, <3>7, WorkingRegisters
    <3>9. works \notin durable
      BY <1>1, <1>3, <2>1, <2>3, <3>7 DEF Working
    <3>10. RanWork' = RanWork
      BY <3>1 DEF RanWork
    <3>. QED
      BY <1>1, <2>1, <3>1, <3>4, <3>8, <3>9, <3>10 DEF Work, NothingLost
  <2>4. CASE Depth > 0 /\ ~Top.commitsHere
    BY <1>1, <1>13, <2>4, WorkStays DEF AfterCommit
  <2>. QED
    BY <1>1, <2>2, <2>3, <2>4
<1>14. CASE Release
  <2>1. /\ phase = "running" /\ phase' = phase /\ scopes' = [Outer EXCEPT ![Depth - 1] = Kept]
        /\ UNCHANGED <<works, registered, durable, ran, dropped>>
    BY <1>14 DEF Release
  <2>2. Depth > 1 /\ Top.commitsHere = scopes[Depth - 1].commitsHere /\ Top = scopes[Depth]
    BY <1>1, <1>3, <1>14, UnderSavepoint DEF Release
  <2>3. /\ Depth' = Depth - 1 /\ scopes'[Depth - 1] = Kept
        /\ \A i \in 1..(Depth - 2) : scopes'[i] = scopes[i]
    BY <2>1, <2>2, Merged, Handed
  <2>4. In(Kept.callbacks) = In(scopes[Depth - 1].callbacks) \union In(scopes[Depth].callbacks)
    <3>1. scopes[Depth].callbacks \in Seq(1..MaxWork) /\ scopes[Depth - 1].callbacks \in Seq(1..MaxWork)
      BY <1>1, <2>2, Scopes DEF Scope
    <3>2. In(scopes[Depth - 1].callbacks \o scopes[Depth].callbacks)
            = In(scopes[Depth - 1].callbacks) \union In(scopes[Depth].callbacks)
      BY <3>1, InConcat
    <3>3. Kept.callbacks = scopes[Depth - 1].callbacks \o Top.callbacks
      BY <2>2, Handed
    <3>. QED
      BY <2>2, <3>2, <3>3
  <2>5. Working(scopes', Depth - 1, phase, works, registered, durable)
    BY <1>1, <1>2, <2>1, <2>2, <2>3, <2>4, Handed, WorkingMerges
  <2>6. RanWork' = RanWork /\ registered \intersect durable \subseteq RanWork \union dropped
    BY <1>4, <2>1 DEF RanWork
  <2>. QED
    BY <1>1, <2>1, <2>3, <2>5, <2>6 DEF Work, NothingLost
<1>15. CASE Commit
  <2>1. /\ phase = "joining" /\ phase' = "after" /\ Depth > 0
        /\ UNCHANGED <<scopes, works, registered, ran, dropped>>
        /\ durable' \subseteq durable \union Top.writes
    BY <1>15 DEF Commit, Shape, InScope
  <2>2. Depth' = Depth /\ Top' = Top /\ RanWork' = RanWork
    BY <2>1 DEF Depth, Top, RanWork
  <2>3. Working(scopes, Depth, phase, works, registered, durable) /\ Top = scopes[Depth]
    BY <1>2, <1>3, <2>1
  <2>4. /\ Top.writes \subseteq 1..works /\ Top.writes \intersect registered \subseteq In(Top.callbacks)
        /\ \A i \in 1..Depth : i # Depth => scopes[i].writes \intersect durable' \subseteq durable
    BY <1>1, <2>1, <2>3 DEF Working
  <2>5. Working(scopes, Depth, "after", works, registered, durable')
    BY <1>1, <2>1, <2>3, <2>4, WorkingKept
  <2>6. Pending' = In(Top.callbacks)
    BY <2>1, <2>2 DEF Pending, In
  <2>7. registered \intersect durable' \subseteq RanWork \union In(Top.callbacks) \union dropped
    BY <1>4, <2>1, <2>4
  <2>. QED
    BY <1>1, <2>1, <2>2, <2>4, <2>5, <2>6, <2>7 DEF Work, NothingLost
<1>16. CASE RunCallback
  <2>1. /\ phase = "after" /\ phase' = phase /\ Depth > 0 /\ Top.callbacks # <<>>
        /\ UNCHANGED <<works, registered, durable, dropped>>
        /\ ran' = Append(ran, [tx |-> Top.tx, work |-> Head(Top.callbacks)])
        /\ scopes' = WithTop([Top EXCEPT !.callbacks = Tail(@)])
    BY <1>16 DEF RunCallback, Shape, InScope
  <2>2. Top.callbacks \in Seq(1..MaxWork) /\ Top = scopes[Depth] /\ Top \in Scope
    BY <1>3, <2>1 DEF Scope
  <2>3. Tail(Top.callbacks) \in Seq(1..MaxWork) /\ Head(Top.callbacks) \in 1..MaxWork
    BY <2>1, <2>2, HeadTailProperties
  <2>4. In(Top.callbacks) = {Head(Top.callbacks)} \union In(Tail(Top.callbacks))
    BY <2>1, <2>2, InTail
  <2>5. [Top EXCEPT !.callbacks = Tail(@)] \in Scope
    BY <2>2, <2>3 DEF Scope
  <2>6. /\ Depth' = Depth /\ scopes'[Depth] = [Top EXCEPT !.callbacks = Tail(@)]
        /\ Top' = [Top EXCEPT !.callbacks = Tail(@)]
        /\ \A i \in 1..(Depth - 1) : scopes'[i] = scopes[i]
    BY <2>1, <2>5, Retopped
  <2>7. /\ scopes'[Depth].writes = scopes[Depth].writes
        /\ scopes'[Depth].callbacks = Tail(Top.callbacks) /\ Top'.callbacks = Tail(Top.callbacks)
        /\ scopes'[Depth].commitsHere = scopes[Depth].commitsHere
    BY <2>2, <2>6 DEF Scope
  <2>8. Working(scopes', Depth, phase, works, registered, durable)
    <3>1. In(scopes'[Depth].callbacks) \subseteq In(scopes[Depth].callbacks)
      BY <2>2, <2>4, <2>7
    <3>2. Working(scopes, Depth, phase, works, registered, durable)
      BY <1>2, <2>1
    <3>3. phase = "after" /\ Depth > 0
      BY <2>1
    <3>. QED
      BY <1>1, <2>6, <2>7, <3>1, <3>2, <3>3, WorkingRuns
  <2>9. RanWork' = RanWork \union {Head(Top.callbacks)}
    <3>1. /\ [tx |-> Top.tx, work |-> Head(Top.callbacks)] \in [tx : 0..MaxTx, work : 1..MaxWork]
          /\ ran \in Seq([tx : 0..MaxTx, work : 1..MaxWork])
      BY <2>2, <2>3, BoundsAssumption DEF Scope, TypeOK
    <3>. QED
      BY <2>1, <3>1, RanMore
  <2>10. Pending = In(Top.callbacks) /\ Pending' = In(Tail(Top.callbacks))
    BY <2>1, <2>7 DEF Pending, In
  <2>11. registered \intersect durable \subseteq RanWork \union Pending \union dropped
    BY <2>1 DEF Work, NothingLost
  <2>. QED
    BY <1>1, <2>1, <2>4, <2>6, <2>8, <2>9, <2>10, <2>11 DEF Work, NothingLost
<1>17. CASE EndBound
  <2>1. Depth > 0 /\ Top.kind = "bound" /\ scopes' = Outer
        /\ UNCHANGED <<works, registered, ran, dropped>>
    BY <1>17 DEF EndBound, InScope
  <2>2. CASE phase = "throwing"
    <3>1. phase' # "dead" /\ phase' # "after" /\ durable' = durable
      BY <1>17, <2>2 DEF EndBound, Rethrown
    <3>. QED
      BY <2>1, <2>2, <3>1, WorkStays
  <2>3. CASE phase = "running"
    <3>1. durable' \subseteq durable \union Top.writes /\ phase' = "running"
      BY <1>17, <2>3 DEF EndBound
    <3>2. Depth' = Depth - 1 /\ \A i \in 1..(Depth - 1) : scopes'[i] = scopes[i]
      BY <2>1, Popped DEF Depth
    <3>3. Working(scopes, Depth, phase, works, registered, durable) /\ Top = scopes[Depth] /\ Depth \in 1..Depth
      BY <1>2, <1>3, <2>1, <2>3
    <3>4. ~Top.commitsHere
      BY <2>1, <3>3 DEF Shape, Stacked
    <3>5. Top.writes \subseteq 1..works /\ Top.writes \intersect registered = {}
      BY <2>3, <3>3, <3>4 DEF Working
    <3>6. \A i \in 1..(Depth - 1) : scopes[i].writes \intersect durable' \subseteq durable
      BY <1>1, <2>1, <3>1, <3>3 DEF Working
    <3>7. Working(scopes', Depth - 1, phase', works, registered, durable')
      <4>1. Depth - 1 \in Nat /\ Depth - 1 < Depth /\ Depth - 1 <= Depth
        BY <1>1, <2>1
      <4>. QED
        BY <1>1, <3>1, <3>2, <3>3, <3>6, <4>1, WorkingKept
    <3>8. RanWork' = RanWork /\ registered \intersect durable' \subseteq RanWork \union dropped
      BY <1>4, <2>1, <2>3, <3>1, <3>5 DEF RanWork
    <3>. QED
      BY <1>1, <2>1, <3>1, <3>2, <3>5, <3>7, <3>8 DEF Work, NothingLost
  <2>. QED
    BY <1>17, <2>2, <2>3 DEF EndBound
<1>18. CASE CommitFails
  <2>1. /\ phase = "joining" /\ phase' # "dead" /\ phase' # "after" /\ Depth > 0 /\ scopes' = Outer
        /\ UNCHANGED <<works, registered, ran>>
    BY <1>18 DEF CommitFails, Abandoned, Rethrown, Shape, InScope
  <2>2. CASE UNCHANGED <<durable, dropped>>
    BY <2>1, <2>2, WorkStays
  <2>3. CASE AppliedUnanswered
    <3>1. durable' = durable \union Top.writes /\ dropped' = dropped \union In(Top.callbacks)
      BY <2>3 DEF AppliedUnanswered, In
    <3>2. Depth' = Depth - 1 /\ \A i \in 1..(Depth - 1) : scopes'[i] = scopes[i]
      BY <2>1, Popped DEF Depth
    <3>3. Working(scopes, Depth, phase, works, registered, durable) /\ Top = scopes[Depth] /\ Depth \in 1..Depth
      BY <1>2, <1>3, <2>1
    <3>4. Top.writes \subseteq 1..works /\ Top.writes \intersect registered \subseteq In(Top.callbacks)
      BY <2>1, <3>3 DEF Working
    <3>5. \A i \in 1..(Depth - 1) : scopes[i].writes \intersect durable' \subseteq durable
      BY <1>1, <2>1, <3>1, <3>3 DEF Working
    <3>6. Working(scopes', Depth - 1, phase', works, registered, durable')
      <4>1. Depth - 1 \in Nat /\ Depth - 1 < Depth /\ Depth - 1 <= Depth
        BY <1>1, <2>1
      <4>. QED
        BY <1>1, <2>1, <3>2, <3>3, <3>5, <4>1, WorkingKept
    <3>7. RanWork' = RanWork /\ registered \intersect durable' \subseteq RanWork \union dropped'
      BY <1>4, <2>1, <3>1, <3>4 DEF RanWork
    <3>. QED
      BY <1>1, <2>1, <3>1, <3>2, <3>4, <3>6, <3>7 DEF Work, NothingLost
  <2>. QED
    BY <1>18, <2>2, <2>3 DEF CommitFails
<1>19. CASE UNCHANGED vars
  BY <1>19 DEF vars, Work, NothingLost, Depth, RanWork, Pending, Top
<1>. QED
  BY <1>6, <1>7, <1>8, <1>9, <1>10, <1>11, <1>12, <1>13, <1>14, <1>15, <1>16, <1>17, <1>18, <1>19
     DEF Next, App, End, Engine

------------------------------------------------------------------------------
(* Order.  What waits in a scope rises, and follows what waits in the scopes   *)
(* below it that are of the same transaction; nothing of an open transaction   *)
(* has run, but of the one that is running its callbacks, and those came first. *)

Ordered(st, d, ph, rn) ==
    \A i \in 1..d :
        /\ Increasing(st[i].callbacks)
        /\ \A j \in 1..(i - 1) : st[j].tx = st[i].tx =>
              \A a \in In(st[j].callbacks), b \in In(st[i].callbacks) : a < b
        /\ \A r \in 1..Len(rn) : rn[r].tx = st[i].tx =>
              /\ i = d
              /\ ph = "after"
              /\ \A b \in In(st[i].callbacks) : rn[r].work < b

Order ==
    /\ \A r \in 1..Len(ran) : ran[r].tx \in 0..txs /\ ran[r].work \in registered
    /\ CallbacksInOrder
    /\ phase # "dead" => Ordered(scopes, Depth, phase, ran)

\* The same scopes, or those left when the innermost ends.
LEMMA OrderedKept ==
    ASSUME NEW d \in Nat, NEW e \in Nat, e <= d, NEW st, NEW tt, NEW ph, NEW qh, NEW rn,
           Ordered(st, d, ph, rn), ph # "after" \/ e < d,
           \A i \in 1..e : tt[i].tx = st[i].tx /\ tt[i].callbacks = st[i].callbacks
    PROVE  Ordered(tt, e, qh, rn)
<1>1. \A i \in 1..e : i \in 1..d /\ (i # d \/ ph # "after")
  OBVIOUS
<1>2. \A i \in 1..e : \A j \in 1..(i - 1) : j \in 1..e
  OBVIOUS
<1>. QED
  BY <1>1, <1>2 DEF Ordered

\* A scope more, in which nothing waits yet.
LEMMA OrderedGrows ==
    ASSUME NEW d \in Nat, NEW st, NEW tt, NEW ph, NEW rn,
           Ordered(st, d, ph, rn), ph # "after", \A i \in 1..d : tt[i] = st[i],
           tt[d + 1].callbacks = <<>>, \A r \in 1..Len(rn) : rn[r].tx # tt[d + 1].tx
    PROVE  Ordered(tt, d + 1, ph, rn)
<1>1. \A i \in 1..(d + 1) : (i \in 1..d /\ tt[i] = st[i]) \/ i = d + 1
  OBVIOUS
<1>2. \A i \in 1..d : \A j \in 1..(i - 1) : j \in 1..d /\ tt[j] = st[j]
  OBVIOUS
<1>. QED
  BY <1>1, <1>2, InEmpty DEF Ordered

\* A callback registered after every other that waits.
LEMMA OrderedRegisters ==
    ASSUME NEW d \in Nat, d > 0, NEW st, NEW tt, NEW ph, NEW rn, NEW w,
           Ordered(st, d, ph, rn), ph # "after", \A i \in 1..(d - 1) : tt[i] = st[i],
           \A i \in 1..d : \A a \in In(st[i].callbacks) : a < w,
           tt[d].tx = st[d].tx, Increasing(tt[d].callbacks),
           In(tt[d].callbacks) = In(st[d].callbacks) \union {w}
    PROVE  Ordered(tt, d, ph, rn)
<1>1. \A i \in 1..d : (i \in 1..(d - 1) /\ tt[i] = st[i]) \/ i = d
  OBVIOUS
<1>2. \A i \in 1..d : \A j \in 1..(i - 1) : j \in 1..(d - 1) /\ j \in 1..d /\ tt[j] = st[j]
  OBVIOUS
<1>. QED
  BY <1>1, <1>2 DEF Ordered

\* The first callback of the innermost scope run, in a transaction of its own.
LEMMA OrderedRuns ==
    ASSUME NEW d \in Nat, d > 0, NEW st, NEW tt, NEW ph, NEW rn, NEW qn, NEW h,
           Ordered(st, d, ph, rn), ph = "after", \A i \in 1..(d - 1) : tt[i] = st[i],
           \A i \in 1..(d - 1) : st[i].tx # st[d].tx,
           tt[d].tx = st[d].tx, Increasing(tt[d].callbacks),
           In(st[d].callbacks) = {h} \union In(tt[d].callbacks),
           \A b \in In(tt[d].callbacks) : h < b,
           Len(rn) \in Nat, Len(qn) = Len(rn) + 1, \A r \in 1..Len(rn) : qn[r] = rn[r],
           qn[Len(rn) + 1].tx = st[d].tx, qn[Len(rn) + 1].work = h
    PROVE  Ordered(tt, d, ph, qn)
<1>1. \A i \in 1..d : (i \in 1..(d - 1) /\ tt[i] = st[i]) \/ i = d
  OBVIOUS
<1>2. \A i \in 1..d : \A j \in 1..(i - 1) : j \in 1..(d - 1) /\ j \in 1..d /\ tt[j] = st[j]
  OBVIOUS
<1>3. \A r \in 1..Len(qn) : (r \in 1..Len(rn) /\ qn[r] = rn[r]) \/ r = Len(rn) + 1
  OBVIOUS
<1>4. ASSUME NEW i \in 1..d PROVE
        /\ Increasing(tt[i].callbacks)
        /\ \A j \in 1..(i - 1) : tt[j].tx = tt[i].tx =>
              \A a \in In(tt[j].callbacks), b \in In(tt[i].callbacks) : a < b
  BY <1>1, <1>2 DEF Ordered
<1>5. ASSUME NEW i \in 1..d, NEW r \in 1..Len(qn), qn[r].tx = tt[i].tx PROVE
        i = d /\ \A b \in In(tt[i].callbacks) : qn[r].work < b
  <2>1. CASE r \in 1..Len(rn) /\ qn[r] = rn[r]
    BY <1>1, <1>5, <2>1 DEF Ordered
  <2>2. CASE r = Len(rn) + 1
    BY <1>1, <1>5, <2>2
  <2>. QED
    BY <1>3, <2>1, <2>2
<1>. QED
  BY <1>4, <1>5 DEF Ordered

\* A savepoint released into the scope below it, behind what waits there.
LEMMA OrderedMerges ==
    ASSUME NEW d \in Nat, d > 1, NEW st, NEW tt, NEW ph, NEW rn,
           Ordered(st, d, ph, rn), ph # "after", \A i \in 1..(d - 2) : tt[i] = st[i],
           st[d].tx = st[d - 1].tx, tt[d - 1].tx = st[d].tx, Increasing(tt[d - 1].callbacks),
           In(tt[d - 1].callbacks) = In(st[d - 1].callbacks) \union In(st[d].callbacks)
    PROVE  Ordered(tt, d - 1, ph, rn)
<1>1. \A i \in 1..(d - 1) : (i \in 1..(d - 2) /\ i \in 1..d /\ tt[i] = st[i]) \/ i = d - 1
  OBVIOUS
<1>2. \A i \in 1..(d - 1) : \A j \in 1..(i - 1) :
          j \in 1..(d - 2) /\ j \in 1..d /\ j \in 1..((d - 1) - 1) /\ j \in 1..(d - 1) /\ tt[j] = st[j]
  OBVIOUS
<1>3. d \in 1..d /\ d - 1 \in 1..d
  OBVIOUS
<1>4. ASSUME NEW i \in 1..(d - 1) PROVE
        /\ Increasing(tt[i].callbacks)
        /\ \A r \in 1..Len(rn) : rn[r].tx # tt[i].tx
  BY <1>1, <1>3 DEF Ordered
<1>5. ASSUME NEW i \in 1..(d - 1), NEW j \in 1..(i - 1), tt[j].tx = tt[i].tx,
             NEW a \in In(tt[j].callbacks), NEW b \in In(tt[i].callbacks)
      PROVE  a < b
  <2>1. CASE i \in 1..(d - 2) /\ tt[i] = st[i]
    BY <1>1, <1>2, <1>5, <2>1 DEF Ordered
  <2>2. CASE i = d - 1
    <3>1. st[j].tx = st[d - 1].tx /\ st[j].tx = st[d].tx /\ a \in In(st[j].callbacks)
      BY <1>2, <1>5, <2>2
    <3>2. j \in 1..((d - 1) - 1) /\ j \in 1..(d - 1)
      BY <1>2
    <3>3. b \in In(st[d - 1].callbacks) \/ b \in In(st[d].callbacks)
      BY <2>2
    <3>. QED
      BY <1>3, <3>1, <3>2, <3>3 DEF Ordered
  <2>. QED
    BY <1>1, <2>1, <2>2
<1>. QED
  BY <1>4, <1>5 DEF Ordered

\* A callback run after every other of its transaction.
LEMMA RanInOrder ==
    ASSUME NEW S, ran \in Seq(S), NEW t, NEW w, [tx |-> t, work |-> w] \in S,
           ran' = Append(ran, [tx |-> t, work |-> w]), CallbacksInOrder,
           \A r \in 1..Len(ran) : ran[r].tx = t => ran[r].work < w
    PROVE  CallbacksInOrder'
<1>1. /\ Len(ran) \in Nat /\ Len(ran') = Len(ran) + 1
      /\ ran'[Len(ran) + 1].tx = t /\ ran'[Len(ran) + 1].work = w
      /\ \A r \in 1..Len(ran) : ran'[r] = ran[r]
  BY RanMore
<1>2. ASSUME NEW i \in 1..(Len(ran) + 1), NEW j \in 1..(Len(ran) + 1), i < j, ran'[i].tx = ran'[j].tx
      PROVE  ran'[i].work < ran'[j].work
  <2>1. i \in 1..Len(ran) /\ (j \in 1..Len(ran) \/ j = Len(ran) + 1)
    BY <1>1, <1>2
  <2>. QED
    BY <1>1, <1>2, <2>1 DEF CallbacksInOrder
<1>. QED
  BY <1>1, <1>2 DEF CallbacksInOrder

\* Nothing has run at the start.
LEMMA OrderInit == Init => Order
<1> SUFFICES ASSUME Init PROVE Order
  OBVIOUS
<1>1. Depth = 0 /\ Len(ran) = 0
  BY EmptySeq DEF Init, Depth
<1>. QED
  BY <1>1 DEF Init, Order, Ordered, CallbacksInOrder

\* What registers and runs nothing, and leaves no scope but the innermost.
LEMMA OrderStays ==
    ASSUME TypeOK, Order, phase # "dead",
           \/ scopes' = scopes /\ phase # "after"
           \/ scopes' = Outer /\ Depth > 0
           \/ phase' = "dead",
           UNCHANGED <<txs, registered, ran>>
    PROVE  Order'
<1>1. Depth \in Nat /\ Ordered(scopes, Depth, phase, ran)
  BY Scopes DEF Order
<1>2. phase' # "dead" => Ordered(scopes', Depth', phase', ran)
  <2>1. CASE scopes' = scopes /\ phase # "after"
    <3>1. Depth' = Depth /\ \A i \in 1..Depth : scopes'[i] = scopes[i]
      BY <2>1 DEF Depth
    <3>. QED
      BY <1>1, <2>1, <3>1, OrderedKept
  <2>2. CASE scopes' = Outer /\ Depth > 0
    <3>1. Depth' = Depth - 1 /\ \A i \in 1..(Depth - 1) : scopes'[i] = scopes[i]
      BY <2>2, Popped DEF Depth
    <3>2. Depth - 1 \in Nat /\ Depth - 1 <= Depth /\ Depth - 1 < Depth
      BY <1>1, <2>2
    <3>. QED
      BY <1>1, <3>1, <3>2, OrderedKept
  <2>. QED
    BY <2>1, <2>2
<1>. QED
  BY <1>2 DEF Order, CallbacksInOrder

\* Every step keeps what Order says.
LEMMA OrderStep == TypeOK /\ Shape /\ Work /\ Order /\ [Next]_vars => Order'
<1> SUFFICES ASSUME TypeOK, Shape, Work, Order, [Next]_vars PROVE Order'
  OBVIOUS
<1>1. /\ Depth \in Nat /\ works \in Nat /\ txs \in Nat
      /\ registered \subseteq 1..works
      /\ \A r \in 1..Len(ran) : ran[r].tx \in 0..txs /\ ran[r].work \in registered
      /\ CallbacksInOrder
  BY Scopes DEF TypeOK, Work, Order
<1>2. ASSUME phase # "dead"
      PROVE  /\ Ordered(scopes, Depth, phase, ran)
             /\ Working(scopes, Depth, phase, works, registered, durable)
  BY <1>2 DEF Work, Order
<1>3. ASSUME Depth > 0 PROVE Top \in Scope /\ Top = scopes[Depth] /\ Depth \in 1..Depth
  BY <1>1, <1>3, Scopes
<1>4. ASSUME NEW s, scopes' = Append(scopes, s), s \in Scope, s.callbacks = <<>>, phase = "running",
             \A r \in 1..Len(ran) : ran[r].tx # s.tx, txs' \in Nat, txs <= txs',
             UNCHANGED <<phase, registered, ran>>
      PROVE  Order'
  <2>1. /\ Depth' = Depth + 1 /\ scopes'[Depth + 1] = s
        /\ \A i \in 1..Depth : scopes'[i] = scopes[i]
    BY <1>4, Pushed
  <2>2. Ordered(scopes', Depth + 1, phase, ran)
    BY <1>1, <1>2, <1>4, <2>1, OrderedGrows
  <2>3. \A r \in 1..Len(ran) : ran[r].tx \in 0..txs'
    BY <1>1, <1>4
  <2>. QED
    BY <1>1, <1>4, <2>1, <2>2, <2>3 DEF Order, CallbacksInOrder
<1>5. CASE BeginTx \/ Bind
  <2>1. ASSUME NEW kind, Begin(kind), kind \in {"tx", "bound"} PROVE Order'
    <3>1. NewScope(kind, txs + 1, kind = "tx") \in Scope
      <4>1. txs + 1 \in 1..MaxTx
        BY <2>1, BoundsAssumption DEF TypeOK, Begin
      <4>. QED
        BY <2>1, <4>1, EmptySeq DEF NewScope, Scope, Kinds
    <3>2. PICK s : s = NewScope(kind, txs + 1, kind = "tx")
      OBVIOUS
    <3>3. s.tx = txs + 1 /\ s.callbacks = <<>> /\ scopes' = Append(scopes, s) /\ s \in Scope
      BY <2>1, <3>1, <3>2 DEF Begin, NewScope
    <3>4. txs' \in Nat /\ txs <= txs' /\ \A r \in 1..Len(ran) : ran[r].tx # txs + 1
      BY <1>1, <2>1 DEF Begin
    <3>5. phase = "running" /\ UNCHANGED <<phase, registered, ran>>
      BY <2>1 DEF Begin
    <3>. QED
      BY <1>4, <3>3, <3>4, <3>5
  <2>. QED
    BY <1>5, <2>1 DEF BeginTx, Bind
<1>6. CASE Savepoint
  <2>1. Depth > 0 /\ phase = "running" /\ UNCHANGED <<phase, txs, registered, ran>>
    BY <1>1, <1>6 DEF Savepoint
  <2>2. PICK s : s = NewScope("savepoint", Top.tx, Top.commitsHere)
    OBVIOUS
  <2>3. s \in Scope /\ s.tx = Top.tx /\ s.callbacks = <<>> /\ scopes' = Append(scopes, s)
    BY <1>3, <1>6, <2>1, <2>2, EmptySeq DEF Savepoint, NewScope, Scope, Kinds
  <2>4. \A r \in 1..Len(ran) : ran[r].tx # s.tx
    BY <1>2, <1>3, <2>1, <2>3 DEF Ordered
  <2>. QED
    BY <1>1, <1>4, <2>1, <2>3, <2>4
<1>7. ASSUME NEW s, Depth > 0, scopes' = WithTop(s), s \in Scope, s.tx = Top.tx,
             s.callbacks = Top.callbacks, phase = "running", phase' # "after",
             UNCHANGED <<txs, registered, ran>>
      PROVE  Order'
  <2>1. /\ Depth' = Depth /\ scopes'[Depth] = s
        /\ \A i \in 1..(Depth - 1) : scopes'[i] = scopes[i]
    BY <1>7, Retopped
  <2>2. \A i \in 1..Depth : scopes'[i].tx = scopes[i].tx /\ scopes'[i].callbacks = scopes[i].callbacks
    <3>1. \A i \in 1..Depth : i \in 1..(Depth - 1) \/ i = Depth
      BY <1>1
    <3>. QED
      BY <1>3, <1>7, <2>1, <3>1
  <2>3. Ordered(scopes, Depth, phase, ran) /\ phase # "after" /\ Depth <= Depth
    BY <1>1, <1>2, <1>7
  <2>4. Ordered(scopes', Depth, phase', ran)
    BY <1>1, <2>2, <2>3, OrderedKept
  <2>. QED
    BY <1>1, <1>7, <2>1, <2>4 DEF Order, CallbacksInOrder
<1>8. CASE Write
  <2>1. CASE Depth = 0
    BY <1>8, <2>1, OrderStays DEF Write
  <2>2. CASE Depth > 0
    <3>1. PICK s : s = [Top EXCEPT !.writes = @ \union {works + 1}]
      OBVIOUS
    <3>2. works + 1 \in 1..MaxWork
      BY <1>1, <1>8, BoundsAssumption DEF Write, TypeOK
    <3>3. s \in Scope /\ s.tx = Top.tx /\ s.callbacks = Top.callbacks
      BY <1>3, <2>2, <3>1, <3>2 DEF Scope
    <3>4. scopes' = WithTop(s) /\ phase = "running" /\ UNCHANGED <<phase, txs, registered, ran>>
      BY <1>8, <2>2, <3>1 DEF Write
    <3>. QED
      BY <1>7, <2>2, <3>3, <3>4
  <2>. QED
    BY <1>1, <2>1, <2>2
<1>9. CASE SqlError
  <2>1. PICK s : s = [Top EXCEPT !.broken = TRUE]
    OBVIOUS
  <2>2. /\ Depth > 0 /\ scopes' = WithTop(s) /\ phase = "running" /\ phase' = "throwing"
        /\ UNCHANGED <<txs, registered, ran>>
    BY <1>9, <2>1 DEF SqlError
  <2>3. s \in Scope /\ s.tx = Top.tx /\ s.callbacks = Top.callbacks
    BY <1>3, <2>1, <2>2 DEF Scope
  <2>. QED
    BY <1>7, <2>2, <2>3
<1>10. CASE AppError \/ Catch \/ StartCommit \/ Participate
  BY <1>10, OrderStays DEF AppError, Catch, StartCommit, Participate
<1>11. CASE \/ RollbackTo \/ RollbackTx \/ CallbackThrows \/ Finish \/ EndBound
            \/ ParticipantFails \/ CommitFails
  <2>1. Depth > 0 /\ phase # "dead"
    BY <1>11 DEF RollbackTo, RollbackTx, CallbackThrows, Finish, EndBound, ParticipantFails,
                 CommitFails, InScope, Shape
  <2>2. scopes' = Outer /\ UNCHANGED <<txs, registered, ran>>
    BY <1>11 DEF RollbackTo, RollbackTx, CallbackThrows, Finish, EndBound, ParticipantFails,
                 CommitFails, Abandoned
  <2>. QED
    BY <2>1, <2>2, OrderStays
<1>12. CASE Commit
  BY <1>12, OrderStays DEF Commit
<1>13. CASE Crash
  BY <1>13, OrderStays DEF Crash
<1>14. CASE AfterCommit
  <2>1. /\ phase = "running" /\ works \notin registered /\ works > 0 /\ txs' = txs
        /\ \A c \in registered : c < works
    BY <1>1, <1>14 DEF AfterCommit
  <2>2. CASE Depth = 0
    <3>1. /\ ran' = Append(ran, [tx |-> 0, work |-> works]) /\ registered' = registered \union {works}
          /\ scopes' = scopes
      BY <1>14, <2>2 DEF AfterCommit
    <3>2. ran \in Seq([tx : 0..MaxTx, work : 1..MaxWork])
          /\ [tx |-> 0, work |-> works] \in [tx : 0..MaxTx, work : 1..MaxWork]
      BY <2>1, BoundsAssumption DEF TypeOK
    <3>3. \A r \in 1..Len(ran) : ran[r].work < works
      BY <1>1, <2>1
    <3>4. CallbacksInOrder'
      BY <1>1, <3>1, <3>2, <3>3, RanInOrder
    <3>5. /\ Len(ran) \in Nat /\ Len(ran') = Len(ran) + 1
          /\ ran'[Len(ran) + 1].tx = 0 /\ ran'[Len(ran) + 1].work = works
          /\ \A r \in 1..Len(ran) : ran'[r] = ran[r]
      BY <3>1, <3>2, RanMore
    <3>6. \A r \in 1..Len(ran') : ran'[r].tx \in 0..txs /\ ran'[r].work \in registered'
      <4>1. \A r \in 1..Len(ran') : r \in 1..Len(ran) \/ r = Len(ran) + 1
        BY <3>5
      <4>. QED
        BY <1>1, <3>1, <3>5, <4>1
    <3>7. Depth' = 0
      BY <2>2, <3>1 DEF Depth
    <3>. QED
      BY <2>1, <3>4, <3>6, <3>7 DEF Order, Ordered
  <2>3. CASE Depth > 0 /\ Top.commitsHere
    <3>0. PICK s : s = [Top EXCEPT !.callbacks = Append(@, works)]
      OBVIOUS
    <3>1. /\ scopes' = WithTop(s) /\ registered' = registered \union {works}
          /\ phase' = phase /\ ran' = ran
      BY <1>1, <1>14, <2>3, <3>0 DEF AfterCommit
    <3>2. PICK S : S = 1..MaxWork
      OBVIOUS
    <3>3. works \in S /\ Top.callbacks \in Seq(S) /\ S \subseteq Nat
      BY <1>3, <2>1, <2>3, <3>2 DEF TypeOK, Scope
    <3>4. Append(Top.callbacks, works) \in Seq(S)
      BY <3>3, AppendProperties
    <3>5. s \in Scope /\ s.tx = Top.tx /\ s.callbacks = Append(Top.callbacks, works)
      BY <1>3, <2>3, <3>0, <3>2, <3>4 DEF Scope
    <3>6. /\ Depth' = Depth /\ scopes'[Depth] = s
          /\ \A i \in 1..(Depth - 1) : scopes'[i] = scopes[i]
      BY <2>3, <3>1, <3>5, Retopped
    <3>7. \A i \in 1..Depth : \A a \in In(scopes[i].callbacks) : a < works
      BY <1>2, <2>1 DEF Working
    <3>8. In(s.callbacks) = In(scopes[Depth].callbacks) \union {works}
      BY <1>3, <2>3, <3>3, <3>5, InAppend
    <3>9. Increasing(s.callbacks)
      <4>1. Increasing(Top.callbacks) /\ \A a \in In(Top.callbacks) : a < works
        BY <1>2, <1>3, <2>1, <2>3, <3>7 DEF Ordered
      <4>. QED
        BY <3>3, <3>5, <4>1, IncreasingAppend
    <3>10. Ordered(scopes', Depth, phase, ran)
      <4>1. Ordered(scopes, Depth, phase, ran) /\ phase # "after" /\ Depth > 0 /\ s.tx = scopes[Depth].tx
        BY <1>2, <1>3, <2>1, <2>3, <3>5
      <4>. QED
        BY <1>1, <3>6, <3>7, <3>8, <3>9, <4>1, OrderedRegisters
    <3>. QED
      BY <1>1, <2>1, <3>1, <3>6, <3>10 DEF Order, CallbacksInOrder
  <2>4. CASE Depth > 0 /\ ~Top.commitsHere
    BY <1>1, <1>14, <2>4, OrderStays DEF AfterCommit
  <2>. QED
    BY <1>1, <2>2, <2>3, <2>4
<1>15. CASE Release
  <2>1. /\ phase = "running" /\ phase' = phase /\ scopes' = [Outer EXCEPT ![Depth - 1] = Kept]
        /\ UNCHANGED <<txs, registered, ran>>
    BY <1>15 DEF Release
  <2>2. Depth > 1 /\ Top.tx = scopes[Depth - 1].tx /\ Top = scopes[Depth]
    BY <1>1, <1>3, <1>15, UnderSavepoint DEF Release
  <2>3. /\ Depth' = Depth - 1 /\ scopes'[Depth - 1] = Kept
        /\ \A i \in 1..(Depth - 2) : scopes'[i] = scopes[i]
    BY <2>1, <2>2, Merged, Handed
  <2>4. Kept.callbacks = scopes[Depth - 1].callbacks \o scopes[Depth].callbacks /\ Kept.tx = scopes[Depth - 1].tx
    BY <2>2, Handed
  <2>5. PICK S : S = 1..MaxWork
    OBVIOUS
  <2>6. scopes[Depth].callbacks \in Seq(S) /\ scopes[Depth - 1].callbacks \in Seq(S) /\ S \subseteq Nat
    BY <1>1, <2>2, <2>5, Scopes DEF Scope
  <2>7. In(Kept.callbacks) = In(scopes[Depth - 1].callbacks) \union In(scopes[Depth].callbacks)
    BY <2>4, <2>6, InConcat
  <2>8. Increasing(Kept.callbacks)
    <3>1. /\ Increasing(scopes[Depth - 1].callbacks) /\ Increasing(scopes[Depth].callbacks)
          /\ \A a \in In(scopes[Depth - 1].callbacks), b \in In(scopes[Depth].callbacks) : a < b
      <4>1. Depth \in 1..Depth /\ Depth - 1 \in 1..Depth /\ Depth - 1 \in 1..(Depth - 1)
        BY <1>1, <2>2
      <4>. QED
        BY <1>2, <2>1, <2>2, <4>1 DEF Ordered
    <3>. QED
      BY <2>4, <2>6, <3>1, IncreasingConcat
  <2>9. Ordered(scopes', Depth - 1, phase, ran)
    <3>1. Ordered(scopes, Depth, phase, ran) /\ phase # "after"
      BY <1>2, <2>1
    <3>2. scopes[Depth].tx = scopes[Depth - 1].tx /\ scopes'[Depth - 1].tx = scopes[Depth].tx
      BY <2>2, <2>3, <2>4
    <3>. QED
      BY <1>1, <2>2, <2>3, <2>7, <2>8, <3>1, <3>2, OrderedMerges
  <2>. QED
    BY <1>1, <2>1, <2>3, <2>9 DEF Order, CallbacksInOrder
<1>16. CASE RunCallback
  <2>0. PICK s : s = [Top EXCEPT !.callbacks = Tail(@)]
    OBVIOUS
  <2>1. /\ phase = "after" /\ phase' = phase /\ Depth > 0 /\ Top.kind = "tx" /\ Top.callbacks # <<>>
        /\ UNCHANGED <<txs, registered>>
        /\ ran' = Append(ran, [tx |-> Top.tx, work |-> Head(Top.callbacks)])
        /\ scopes' = WithTop(s)
    BY <1>16, <2>0 DEF RunCallback, Shape, InScope
  <2>2. PICK S : S = 1..MaxWork
    OBVIOUS
  <2>3. Top.callbacks \in Seq(S) /\ S \subseteq Nat /\ Top = scopes[Depth] /\ Top \in Scope /\ Depth \in 1..Depth
    BY <1>3, <2>1, <2>2 DEF Scope
  <2>4. Tail(Top.callbacks) \in Seq(S) /\ Head(Top.callbacks) \in S
    BY <2>1, <2>3, HeadTailProperties
  <2>5. In(Top.callbacks) = {Head(Top.callbacks)} \union In(Tail(Top.callbacks))
    BY <2>1, <2>3, InTail
  <2>6. s \in Scope /\ s.tx = Top.tx /\ s.callbacks = Tail(Top.callbacks)
    BY <2>0, <2>2, <2>3, <2>4 DEF Scope
  <2>7. /\ Depth' = Depth /\ scopes'[Depth] = s
        /\ \A i \in 1..(Depth - 1) : scopes'[i] = scopes[i]
    BY <2>1, <2>6, Retopped
  <2>8. /\ Ordered(scopes, Depth, phase, ran)
        /\ Working(scopes, Depth, phase, works, registered, durable)
    BY <1>2, <2>1
  <2>9. Increasing(s.callbacks) /\ \A b \in In(s.callbacks) : Head(Top.callbacks) < b
    <3>1. Increasing(Top.callbacks)
      BY <2>3, <2>8 DEF Ordered
    <3>. QED
      BY <2>1, <2>3, <2>6, <3>1, IncreasingTail
  <2>10. \A i \in 1..(Depth - 1) : scopes[i].tx # scopes[Depth].tx
    <3>1. \A i \in 1..(Depth - 1) : scopes[i].tx < scopes[Depth].tx
      BY <2>1, <2>3 DEF Shape, Stacked
    <3>. QED
      BY <1>1, <3>1, Scopes DEF Scope
  <2>11. /\ [tx |-> Top.tx, work |-> Head(Top.callbacks)] \in [tx : 0..MaxTx, work : 1..MaxWork]
         /\ ran \in Seq([tx : 0..MaxTx, work : 1..MaxWork])
    BY <2>2, <2>3, <2>4, BoundsAssumption DEF Scope, TypeOK
  <2>12. /\ Len(ran) \in Nat /\ Len(ran') = Len(ran) + 1
         /\ ran'[Len(ran) + 1].tx = Top.tx /\ ran'[Len(ran) + 1].work = Head(Top.callbacks)
         /\ \A r \in 1..Len(ran) : ran'[r] = ran[r]
    BY <2>1, <2>11, RanMore
  <2>13. CallbacksInOrder'
    <3>1. Head(Top.callbacks) \in In(scopes[Depth].callbacks)
      BY <2>3, <2>5
    <3>2. \A r \in 1..Len(ran) : ran[r].tx = Top.tx => ran[r].work < Head(Top.callbacks)
      BY <2>3, <2>8, <3>1 DEF Ordered
    <3>3. PICK T : T = [tx : 0..MaxTx, work : 1..MaxWork]
      OBVIOUS
    <3>4. ran \in Seq(T) /\ [tx |-> Top.tx, work |-> Head(Top.callbacks)] \in T
      BY <2>11, <3>3
    <3>5. ran' = Append(ran, [tx |-> Top.tx, work |-> Head(Top.callbacks)])
      BY <2>1
    <3>. QED
      BY <1>1, <3>2, <3>4, <3>5, RanInOrder
  <2>14. Ordered(scopes', Depth, phase, ran')
    <3>1. In(scopes[Depth].callbacks) = {Head(Top.callbacks)} \union In(s.callbacks)
      BY <2>3, <2>5, <2>6
    <3>2. phase = "after" /\ Depth > 0 /\ s.tx = scopes[Depth].tx /\ ran'[Len(ran) + 1].tx = scopes[Depth].tx
      BY <2>1, <2>3, <2>6, <2>12
    <3>. QED
      BY <1>1, <2>7, <2>8, <2>9, <2>10, <2>12, <3>1, <3>2, OrderedRuns
  <2>15. \A r \in 1..Len(ran') : ran'[r].tx \in 0..txs /\ ran'[r].work \in registered
    <3>1. Top.tx \in 0..txs /\ Head(Top.callbacks) \in registered
      BY <1>1, <2>3, <2>5, <2>8 DEF Shape, Stacked, Working
    <3>2. \A r \in 1..Len(ran') : r \in 1..Len(ran) \/ r = Len(ran) + 1
      BY <2>12
    <3>. QED
      BY <1>1, <2>12, <3>1, <3>2
  <2>. QED
    BY <2>1, <2>7, <2>13, <2>14, <2>15 DEF Order
<1>17. CASE UNCHANGED vars
  BY <1>17 DEF vars, Order, CallbacksInOrder, Depth
<1>. QED
  BY <1>5, <1>6, <1>8, <1>9, <1>10, <1>11, <1>12, <1>13, <1>14, <1>15, <1>16, <1>17
     DEF Next, App, End, Engine

\* afterCommit, whatever fails and however scopes nest: the callbacks of one
\* transaction run in the order they were registered, each once, and none whose
\* work is committed is lost on its way from savepoint to parent to commit.
THEOREM CallbacksAreKeptAlways == Spec => []CallbacksAreKept
<1>1. Init => TypeOK /\ Shape /\ Work /\ Order
  BY ShapeInit, WorkInit, OrderInit
<1>2. TypeOK /\ Shape /\ Work /\ Order /\ [Next]_vars => (TypeOK /\ Shape /\ Work /\ Order)'
  BY TypeStep, WorkStep, OrderStep
<1>3. TypeOK /\ Shape /\ Work /\ Order => CallbacksAreKept
  BY DEF Work, Order, CallbacksAreKept
<1>. QED
  BY <1>1, <1>2, <1>3, PTL DEF Spec

------------------------------------------------------------------------------
(* What the other two rest on, where work stops at a statement's error: a     *)
(* scope Postgres has given up is the innermost, and on its way out.          *)

Unbroken(st, d, ph) == \A i \in 1..d : st[i].broken => i = d /\ ph = "throwing"

Followed ==
    /\ phase # "dead" => Unbroken(scopes, Depth, phase)
    /\ phase = "after" => Top.writes \subseteq durable
    /\ CallbackFollowsCommit
    /\ ToldOfCommits

\* The scopes that are left, or all, when the flow is not thrown from one.
LEMMA UnbrokenKept ==
    ASSUME NEW d \in Nat, NEW e \in Nat, e <= d, NEW st, NEW tt, NEW ph, NEW qh,
           Unbroken(st, d, ph), e < d \/ ph # "throwing" \/ qh = "throwing",
           \A i \in 1..e : tt[i].broken = st[i].broken
    PROVE  Unbroken(tt, e, qh)
<1>1. ASSUME NEW i \in 1..e, tt[i].broken PROVE i = e /\ qh = "throwing"
  <2>1. i \in 1..d /\ st[i].broken /\ i = d /\ ph = "throwing"
    BY <1>1 DEF Unbroken
  <2>. QED
    BY <2>1
<1>. QED
  BY <1>1 DEF Unbroken

\* A step that leaves the scopes as they are, or but for the innermost, and
\* neither commits nor runs a callback.
LEMMA FollowedStays ==
    ASSUME TypeOK, Followed, phase # "dead", phase' # "after",
           \/ /\ scopes' = scopes
              /\ phase # "throwing" \/ phase' = "throwing" \/ (Depth > 0 => ~Top.broken)
           \/ scopes' = Outer /\ Depth > 0
           \/ phase' = "dead",
           UNCHANGED <<marked, told, unanswered, ran>>, durable \subseteq durable'
    PROVE  Followed'
<1>1. Depth \in Nat /\ Unbroken(scopes, Depth, phase)
  BY Scopes DEF Followed
<1>2. phase' # "dead" => Unbroken(scopes', Depth', phase')
  <2>1. CASE /\ scopes' = scopes
             /\ phase # "throwing" \/ phase' = "throwing" \/ (Depth > 0 => ~Top.broken)
    <3>1. Depth' = Depth /\ \A i \in 1..Depth : scopes'[i] = scopes[i]
      BY <2>1 DEF Depth
    <3>2. CASE phase # "throwing" \/ phase' = "throwing"
      BY <1>1, <3>1, <3>2, UnbrokenKept
    <3>3. CASE Depth > 0 => ~Top.broken
      BY <1>1, <3>1, <3>3, Scopes DEF Unbroken
    <3>. QED
      BY <2>1, <3>2, <3>3
  <2>2. CASE scopes' = Outer /\ Depth > 0
    <3>1. Depth' = Depth - 1 /\ \A i \in 1..(Depth - 1) : scopes'[i] = scopes[i]
      BY <2>2, Popped DEF Depth
    <3>2. Depth - 1 \in Nat /\ Depth - 1 <= Depth /\ Depth - 1 < Depth
      BY <1>1, <2>2
    <3>. QED
      BY <1>1, <3>1, <3>2, UnbrokenKept
  <2>. QED
    BY <2>1, <2>2
<1>3. RanWork' = RanWork
  BY DEF RanWork
<1>. QED
  BY <1>2, <1>3 DEF Followed, CallbackFollowsCommit, ToldOfCommits

\* Every step keeps that, where nobody works on in a scope that met an error.
LEMMA FollowedStep ==
    ~SwallowSqlErrors /\ TypeOK /\ Shape /\ Work /\ Followed /\ [Next]_vars => Followed'
<1> SUFFICES ASSUME ~SwallowSqlErrors, TypeOK, Shape, Work, Followed, [Next]_vars PROVE Followed'
  OBVIOUS
<1>1. /\ Depth \in Nat /\ RanWork \subseteq durable
      /\ told \subseteq marked /\ marked \subseteq told \union unanswered
  BY Scopes DEF Followed, CallbackFollowsCommit, ToldOfCommits
<1>2. ASSUME phase # "dead"
      PROVE  /\ Unbroken(scopes, Depth, phase)
             /\ Working(scopes, Depth, phase, works, registered, durable)
  BY <1>2 DEF Work, Followed
<1>3. ASSUME Depth > 0 PROVE Top \in Scope /\ Top = scopes[Depth] /\ Depth \in 1..Depth
  BY <1>1, <1>3, Scopes
<1>4. ASSUME NEW s, scopes' = Append(scopes, s), s \in Scope, ~s.broken, phase = "running",
             UNCHANGED <<phase, durable, marked, told, unanswered, ran>>
      PROVE  Followed'
  <2>1. /\ Depth' = Depth + 1 /\ scopes'[Depth + 1] = s
        /\ \A i \in 1..Depth : scopes'[i] = scopes[i]
    BY <1>4, Pushed
  <2>2. \A i \in 1..(Depth + 1) : ~scopes'[i].broken
    <3>1. \A i \in 1..(Depth + 1) : i \in 1..Depth \/ i = Depth + 1
      BY <1>1
    <3>. QED
      BY <1>2, <1>4, <2>1, <3>1 DEF Unbroken
  <2>3. RanWork' = RanWork
    BY <1>4 DEF RanWork
  <2>. QED
    BY <1>1, <1>4, <2>1, <2>2, <2>3 DEF Followed, Unbroken, CallbackFollowsCommit, ToldOfCommits
<1>5. ASSUME NEW s, Depth > 0, scopes' = WithTop(s), s \in Scope,
             s.broken => Top.broken \/ phase' = "throwing",
             phase \in {"running", "after"}, phase' \in {phase, "throwing"},
             phase' = "after" => s.writes \subseteq Top.writes,
             UNCHANGED <<durable, marked, told, unanswered>>, RanWork' \subseteq durable
      PROVE  Followed'
  <2>1. /\ Depth' = Depth /\ scopes'[Depth] = s /\ Top' = s
        /\ \A i \in 1..(Depth - 1) : scopes'[i] = scopes[i]
    BY <1>5, Retopped
  <2>2. \A i \in 1..Depth : scopes'[i].broken => i = Depth /\ phase' = "throwing"
    <3>1. \A i \in 1..Depth : i \in 1..(Depth - 1) \/ i = Depth
      BY <1>1
    <3>2. \A i \in 1..Depth : ~scopes[i].broken
      BY <1>2, <1>5 DEF Unbroken
    <3>. QED
      BY <1>3, <1>5, <2>1, <3>1, <3>2
  <2>3. phase' = "after" => Top'.writes \subseteq durable
    BY <1>5, <2>1 DEF Followed
  <2>. QED
    BY <1>1, <1>5, <2>1, <2>2, <2>3 DEF Followed, Unbroken, CallbackFollowsCommit, ToldOfCommits
<1>6. CASE BeginTx \/ Bind
  <2>1. ASSUME NEW kind, Begin(kind), kind \in {"tx", "bound"} PROVE Followed'
    <3>1. NewScope(kind, txs + 1, kind = "tx") \in Scope
      <4>1. txs + 1 \in 1..MaxTx
        BY <2>1, BoundsAssumption DEF TypeOK, Begin
      <4>. QED
        BY <2>1, <4>1, EmptySeq DEF NewScope, Scope, Kinds
    <3>2. PICK s : s = NewScope(kind, txs + 1, kind = "tx")
      OBVIOUS
    <3>3. ~s.broken
      BY <3>2 DEF NewScope
    <3>4. scopes' = Append(scopes, s) /\ s \in Scope
      BY <2>1, <3>1, <3>2 DEF Begin
    <3>5. phase = "running" /\ UNCHANGED <<phase, durable, marked, told, unanswered, ran>>
      BY <2>1 DEF Begin
    <3>. QED
      BY <1>4, <3>3, <3>4, <3>5
  <2>. QED
    BY <1>6, <2>1 DEF BeginTx, Bind
<1>7. CASE Savepoint
  <2>1. Depth > 0 /\ phase = "running" /\ UNCHANGED <<phase, durable, marked, told, unanswered, ran>>
    BY <1>1, <1>7 DEF Savepoint
  <2>2. PICK s : s = NewScope("savepoint", Top.tx, Top.commitsHere)
    OBVIOUS
  <2>3. s \in Scope /\ scopes' = Append(scopes, s)
    BY <1>3, <1>7, <2>1, <2>2, EmptySeq DEF Savepoint, NewScope, Scope, Kinds
  <2>4. ~s.broken
    BY <2>2 DEF NewScope
  <2>. QED
    BY <1>4, <2>1, <2>3, <2>4
<1>8. CASE Write
  <2>1. phase = "running" /\ UNCHANGED <<phase, marked, told, unanswered, ran>>
    BY <1>8 DEF Write
  <2>2. CASE Depth = 0
    <3>1. scopes' = scopes /\ durable \subseteq durable'
      BY <1>8, <2>2 DEF Write
    <3>. QED
      BY <2>1, <3>1, FollowedStays
  <2>3. CASE Depth > 0
    <3>1. PICK s : s = [Top EXCEPT !.writes = @ \union {works + 1}]
      OBVIOUS
    <3>2. works + 1 \in 1..MaxWork
      BY <1>8, BoundsAssumption DEF Write, TypeOK
    <3>3. s \in Scope /\ s.broken = Top.broken
      BY <1>3, <2>3, <3>1, <3>2 DEF Scope
    <3>4. scopes' = WithTop(s) /\ UNCHANGED durable
      BY <1>8, <2>3, <3>1 DEF Write
    <3>5. RanWork' \subseteq durable
      BY <1>1, <2>1 DEF RanWork
    <3>. QED
      BY <1>5, <2>1, <2>3, <3>3, <3>4, <3>5
  <2>. QED
    BY <1>1, <2>2, <2>3
<1>9. CASE SqlError
  <2>1. PICK s : s = [Top EXCEPT !.broken = TRUE]
    OBVIOUS
  <2>2. /\ Depth > 0 /\ scopes' = WithTop(s) /\ phase = "running" /\ phase' = "throwing"
        /\ UNCHANGED <<durable, marked, told, unanswered, ran>>
    BY <1>9, <2>1 DEF SqlError
  <2>3. s \in Scope
    BY <1>3, <2>1, <2>2 DEF Scope
  <2>4. RanWork' \subseteq durable
    BY <1>1, <2>2 DEF RanWork
  <2>. QED
    BY <1>5, <2>2, <2>3, <2>4
<1>10. CASE AppError \/ StartCommit \/ Participate \/ Crash
  <2>1. /\ phase # "dead" /\ phase' # "after" /\ (phase # "throwing" \/ phase' = "dead")
        /\ scopes' = scopes /\ UNCHANGED <<marked, told, unanswered, ran, durable>>
    BY <1>10 DEF AppError, StartCommit, Participate, Crash
  <2>. QED
    BY <1>10, <2>1, FollowedStays
       DEF AppError, StartCommit, Participate, Crash
<1>11. CASE Catch
  BY <1>11, FollowedStays DEF Catch
<1>12. CASE \/ RollbackTo \/ RollbackTx \/ CallbackThrows \/ Finish \/ EndBound \/ ParticipantFails
            \/ (CommitFails /\ UNCHANGED <<durable, marked, unanswered>>)
  <2>1. Depth > 0 /\ phase # "dead"
    BY <1>12 DEF RollbackTo, RollbackTx, CallbackThrows, Finish, EndBound, ParticipantFails,
                 CommitFails, InScope, Shape
  <2>2. scopes' = Outer /\ phase' # "after" /\ UNCHANGED <<marked, told, unanswered, ran>> /\ durable \subseteq durable'
    BY <1>12 DEF RollbackTo, RollbackTx, CallbackThrows, Finish, EndBound, ParticipantFails,
                 CommitFails, Abandoned, Rethrown
  <2>. QED
    BY <2>1, <2>2, FollowedStays
<1>13. CASE AfterCommit
  <2>1. phase = "running" /\ UNCHANGED <<durable, marked, told, unanswered>>
    BY <1>13 DEF AfterCommit
  <2>2. CASE Depth = 0
    <3>1. /\ ran' = Append(ran, [tx |-> 0, work |-> works]) /\ works \in durable
          /\ scopes' = scopes /\ phase' = phase
      BY <1>13, <2>2 DEF AfterCommit
    <3>2. works \in 1..MaxWork
      BY <1>13 DEF AfterCommit, TypeOK
    <3>3. PICK T : T = [tx : 0..MaxTx, work : 1..MaxWork]
      OBVIOUS
    <3>4. ran \in Seq(T) /\ [tx |-> 0, work |-> works] \in T
      BY <3>2, <3>3, BoundsAssumption DEF TypeOK
    <3>5. RanWork' = RanWork \union {works}
      BY <3>1, <3>4, RanMore
    <3>6. Depth' = 0
      BY <2>2, <3>1 DEF Depth
    <3>. QED
      BY <1>1, <2>1, <3>1, <3>5, <3>6 DEF Followed, Unbroken, CallbackFollowsCommit, ToldOfCommits
  <2>3. CASE Depth > 0 /\ Top.commitsHere
    <3>1. PICK s : s = [Top EXCEPT !.callbacks = Append(@, works)]
      OBVIOUS
    <3>2. scopes' = WithTop(s) /\ phase' = phase /\ ran' = ran
      BY <1>1, <1>13, <2>3, <3>1 DEF AfterCommit
    <3>3. works \in 1..MaxWork
      BY <1>13 DEF AfterCommit, TypeOK
    <3>4. PICK S : S = 1..MaxWork
      OBVIOUS
    <3>5. works \in S /\ Top.callbacks \in Seq(S)
      BY <1>3, <2>3, <3>3, <3>4 DEF Scope
    <3>6. Append(Top.callbacks, works) \in Seq(S)
      BY <3>5, AppendProperties
    <3>7. s \in Scope /\ s.broken = Top.broken
      BY <1>3, <2>3, <3>1, <3>4, <3>6 DEF Scope
    <3>8. RanWork' \subseteq durable
      BY <1>1, <3>2 DEF RanWork
    <3>. QED
      BY <1>5, <2>1, <2>3, <3>2, <3>7, <3>8
  <2>4. CASE Depth > 0 /\ ~Top.commitsHere
    <3>1. phase' = "throwing" /\ UNCHANGED <<scopes, ran>>
      BY <1>1, <1>13, <2>4 DEF AfterCommit
    <3>. QED
      BY <2>1, <3>1, FollowedStays
  <2>. QED
    BY <1>1, <2>2, <2>3, <2>4
<1>14. CASE Release
  <2>1. /\ phase = "running" /\ phase' = phase /\ scopes' = [Outer EXCEPT ![Depth - 1] = Kept]
        /\ UNCHANGED <<durable, marked, told, unanswered, ran>>
    BY <1>14 DEF Release
  <2>2. Depth > 1
    BY <1>14, UnderSavepoint DEF Release
  <2>3. /\ Depth' = Depth - 1 /\ scopes'[Depth - 1] = Kept
        /\ \A i \in 1..(Depth - 2) : scopes'[i] = scopes[i]
    BY <2>1, <2>2, Merged, Handed
  <2>4. \A i \in 1..(Depth - 1) : scopes'[i].broken = scopes[i].broken
    <3>1. \A i \in 1..(Depth - 1) : i \in 1..(Depth - 2) \/ i = Depth - 1
      BY <1>1, <2>2
    <3>. QED
      BY <2>2, <2>3, <3>1, Handed
  <2>5. Unbroken(scopes', Depth - 1, phase)
    <3>1. Depth - 1 \in Nat /\ Depth - 1 <= Depth /\ Depth - 1 < Depth
      BY <1>1, <2>2
    <3>2. Unbroken(scopes, Depth, phase)
      BY <1>2, <2>1
    <3>. QED
      BY <1>1, <2>4, <3>1, <3>2, UnbrokenKept
  <2>6. RanWork' = RanWork
    BY <2>1 DEF RanWork
  <2>. QED
    BY <1>1, <2>1, <2>3, <2>5, <2>6 DEF Followed, CallbackFollowsCommit, ToldOfCommits
<1>15. CASE Commit
  <2>1. /\ phase = "joining" /\ phase' = "after" /\ Depth > 0
        /\ UNCHANGED <<scopes, unanswered, ran>>
    BY <1>15 DEF Commit, Shape, InScope
  <2>2. ~Top.broken
    BY <1>2, <1>3, <2>1 DEF Unbroken
  <2>3. /\ durable' = durable \union Top.writes
        /\ told' = told \union {Top.tx} /\ marked' = marked \union {Top.tx}
    BY <1>15, <2>2 DEF Commit
  <2>4. Depth' = Depth /\ Top' = Top /\ RanWork' = RanWork
    BY <2>1 DEF Depth, Top, RanWork
  <2>5. Unbroken(scopes, Depth, "after")
    BY <1>2, <2>1 DEF Unbroken
  <2>. QED
    BY <1>1, <2>1, <2>3, <2>4, <2>5 DEF Followed, CallbackFollowsCommit, ToldOfCommits
<1>16. CASE RunCallback
  <2>0. PICK s : s = [Top EXCEPT !.callbacks = Tail(@)]
    OBVIOUS
  <2>1. /\ phase = "after" /\ phase' = phase /\ Depth > 0 /\ Top.callbacks # <<>>
        /\ UNCHANGED <<durable, marked, told, unanswered>>
        /\ ran' = Append(ran, [tx |-> Top.tx, work |-> Head(Top.callbacks)])
        /\ scopes' = WithTop(s)
    BY <1>16, <2>0 DEF RunCallback, Shape, InScope
  <2>2. PICK S : S = 1..MaxWork
    OBVIOUS
  <2>3. Top.callbacks \in Seq(S) /\ Top = scopes[Depth] /\ Top \in Scope /\ Depth \in 1..Depth
    BY <1>3, <2>1, <2>2 DEF Scope
  <2>4. Tail(Top.callbacks) \in Seq(S) /\ Head(Top.callbacks) \in S
    BY <2>1, <2>3, HeadTailProperties
  <2>5. Head(Top.callbacks) \in In(Top.callbacks)
    BY <2>1, <2>3, InTail
  <2>6. s \in Scope /\ s.broken = Top.broken /\ s.writes = Top.writes
    BY <2>0, <2>2, <2>3, <2>4 DEF Scope
  <2>7. Head(Top.callbacks) \in durable
    <3>1. In(Top.callbacks) \subseteq Top.writes
      BY <1>2, <2>1, <2>3 DEF Working
    <3>. QED
      BY <2>1, <2>5, <3>1 DEF Followed
  <2>8. PICK T : T = [tx : 0..MaxTx, work : 1..MaxWork]
    OBVIOUS
  <2>9. ran \in Seq(T) /\ [tx |-> Top.tx, work |-> Head(Top.callbacks)] \in T
    BY <2>2, <2>3, <2>4, <2>8, BoundsAssumption DEF Scope, TypeOK
  <2>10. RanWork' = RanWork \union {Head(Top.callbacks)}
    BY <2>1, <2>9, RanMore
  <2>11. RanWork' \subseteq durable
    BY <1>1, <2>7, <2>10
  <2>. QED
    BY <1>5, <2>1, <2>6, <2>11
<1>17. CASE CommitFails /\ AppliedUnanswered
  <2>1. /\ phase # "dead" /\ phase' # "after" /\ Depth > 0 /\ scopes' = Outer /\ UNCHANGED <<told, ran>>
        /\ durable \subseteq durable' /\ marked' = marked \union {Top.tx}
        /\ unanswered' = unanswered \union {Top.tx}
    BY <1>17 DEF CommitFails, AppliedUnanswered, Abandoned, Rethrown, Shape, InScope
  <2>2. Depth' = Depth - 1 /\ \A i \in 1..(Depth - 1) : scopes'[i] = scopes[i]
    BY <2>1, Popped DEF Depth
  <2>3. Unbroken(scopes', Depth - 1, phase')
    <3>1. Depth - 1 \in Nat /\ Depth - 1 <= Depth /\ Depth - 1 < Depth
      BY <1>1, <2>1
    <3>2. Unbroken(scopes, Depth, phase)
      BY <1>2, <2>1
    <3>. QED
      BY <1>1, <2>2, <3>1, <3>2, UnbrokenKept
  <2>4. RanWork' = RanWork
    BY <2>1 DEF RanWork
  <2>. QED
    BY <1>1, <2>1, <2>2, <2>3, <2>4 DEF Followed, CallbackFollowsCommit, ToldOfCommits
<1>18. CASE UNCHANGED vars
  BY <1>18 DEF vars, Followed, Depth, Top, RanWork, CallbackFollowsCommit, ToldOfCommits
<1>. QED
  BY <1>6, <1>7, <1>8, <1>9, <1>10, <1>11, <1>12, <1>13, <1>14, <1>15, <1>16, <1>17, <1>18
     DEF Next, App, End, Engine, CommitFails

\* What both of the following rest on.
LEMMA FollowedAlways == ~SwallowSqlErrors => (Spec => []Followed)
<1> SUFFICES ASSUME ~SwallowSqlErrors PROVE Spec => []Followed
  OBVIOUS
<1>1. Init => TypeOK /\ Shape /\ Work /\ Followed
  <2>1. Init => Followed
    <3> SUFFICES ASSUME Init PROVE Followed
      OBVIOUS
    <3>1. Depth = 0 /\ Len(ran) = 0
      BY EmptySeq DEF Init, Depth
    <3>. QED
      BY <3>1 DEF Init, Followed, Unbroken, RanWork, CallbackFollowsCommit, ToldOfCommits
  <2>. QED
    BY <2>1, ShapeInit, WorkInit
<1>2. TypeOK /\ Shape /\ Work /\ Followed /\ [Next]_vars => (TypeOK /\ Shape /\ Work /\ Followed)'
  BY TypeStep, WorkStep, FollowedStep
<1>. QED
  BY <1>1, <1>2, PTL DEF Spec

\* afterCommit where work stops at a statement's error: no callback runs but for
\* work that is committed, in whatever order scopes end and callbacks throw.
THEOREM CallbackFollowsCommitAlways == ~SwallowSqlErrors => (Spec => []CallbackFollowsCommit)
<1> SUFFICES ASSUME ~SwallowSqlErrors PROVE Spec => []CallbackFollowsCommit
  OBVIOUS
<1>1. Followed => CallbackFollowsCommit
  BY DEF Followed
<1>. QED
  BY <1>1, FollowedAlways, PTL

\* joinCommits where work stops at a statement's error: a participant is told only
\* of commits that hold its mark, and of all of them but those whose answer the
\* connection lost, of which the caller hears an error.
THEOREM ToldOfCommitsAlways == ~SwallowSqlErrors => (Spec => []ToldOfCommits)
<1> SUFFICES ASSUME ~SwallowSqlErrors PROVE Spec => []ToldOfCommits
  OBVIOUS
<1>1. Followed => ToldOfCommits
  BY DEF Followed
<1>. QED
  BY <1>1, FollowedAlways, PTL

----------------------------------------------------------------------------
(* Mailed tokens *)

\* Where an issue() and a consumeWith() may be.
MailAt == {Tok!Unused} \union [step : {"void"}, tokens : SUBSET (1..MaxMailed)]
            \union [step : {"insert"}] \union [step : {"work"}, token : 1..MaxMailed]

MailTypes ==
  /\ mailed \in [1..MaxMailed -> {"none", "live", "spent", "purged"}]
  /\ mail \in [Callers -> MailAt]
  /\ superseded \subseteq 1..MaxMailed
  /\ worked \in [1..MaxMailed -> Nat]

\* Whoever works holds a token that is live, by itself.
Spending ==
  /\ \A m \in Callers : mail[m].step = "work" => mailed[mail[m].token] = "live"
  /\ \A m, n \in Callers : mail[m].step = "work" /\ mail[n].step = "work" /\ mail[m].token = mail[n].token => m = n
  /\ \A m \in Callers : mail[m].step = "void" => \A t \in mail[m].tokens : mailed[t] # "none"

\* No work was done of a token that may be spent yet; what was superseded may not.
Unspent ==
  /\ \A t \in 1..MaxMailed : worked[t] <= 1 /\ (mailed[t] \in {"none", "live"} => worked[t] = 0)
  /\ \A t \in superseded : mailed[t] \notin {"none", "live"}

MailInv == MailTypes /\ Spending /\ Unspent

\* What a call has with it.
LEMMA MailParts ==
  ASSUME MailTypes, NEW m \in Callers
  PROVE  /\ mail[m] \in MailAt
         /\ mail[m].step \in {"idle", "void", "insert", "work"}
         /\ mail[m].step = "void" => mail[m].tokens \subseteq 1..MaxMailed
         /\ mail[m].step = "work" => mail[m].token \in 1..MaxMailed
<1>1. mail[m] \in MailAt
  BY DEF MailTypes
<1> QED  BY <1>1 DEF MailAt, Tok!Unused

\* A call moves on, and the others do not.
LEMMA MailMoves ==
  ASSUME MailTypes, NEW m \in Callers, NEW to \in MailAt, Tok!Goes(m, to)
  PROVE  /\ mail' \in [Callers -> MailAt] /\ mail'[m] = to
         /\ \A n \in Callers \ {m} : mail'[n] = mail[n]
BY DEF Tok!Goes, MailTypes

\* Nobody has been sent anything at first.
LEMMA MailBegins == Tok!MailInit => MailInv
<1> SUFFICES ASSUME Tok!MailInit PROVE MailInv
  OBVIOUS
<1>1. /\ mail = [m \in Callers |-> [step |-> "idle"]] /\ mailed = [t \in 1..MaxMailed |-> "none"]
      /\ superseded = {} /\ worked = [t \in 1..MaxMailed |-> 0]
  BY DEF Tok!MailInit, Tok!Numbers, Tok!Unused
<1>2. [step |-> "idle"] \in MailAt
  BY DEF MailAt, Tok!Unused
<1>3. MailTypes
  BY <1>1, <1>2 DEF MailTypes
<1>4. \A m \in Callers : mail[m].step = "idle"
  BY <1>1
<1>5. Spending
  BY <1>4 DEF Spending
<1>6. Unspent
  BY <1>1 DEF Unspent
<1> QED  BY <1>3, <1>5, <1>6 DEF MailInv

\* issue() asks for what is outstanding to be voided.
LEMMA MailIssues == ASSUME MailInv, NEW m \in Callers, Tok!Issue(m) PROVE MailInv'
<1>1. /\ mail[m].step = "idle" /\ UNCHANGED <<mailed, expired, superseded, worked>>
      /\ Tok!Goes(m, [step |-> "void", tokens |-> Tok!InState("live")])
  BY DEF Tok!Issue, Tok!Doing
<1>2. [step |-> "void", tokens |-> Tok!InState("live")] \in MailAt
  BY DEF MailAt, Tok!InState, Tok!Numbers
<1>3. /\ mail' \in [Callers -> MailAt] /\ mail'[m] = [step |-> "void", tokens |-> Tok!InState("live")]
      /\ \A n \in Callers \ {m} : mail'[n] = mail[n]
  BY <1>1, <1>2, MailMoves DEF MailInv
<1>4. mail'[m].step = "void" /\ \A t \in mail'[m].tokens : mailed[t] = "live"
  BY <1>3 DEF Tok!InState
<1>5. MailTypes'
  BY <1>1, <1>3 DEF MailTypes, MailInv
<1>6. Spending'
  BY <1>1, <1>3, <1>4 DEF Spending, MailInv
<1>7. Unspent'
  BY <1>1 DEF Unspent, MailInv
<1> QED  BY <1>5, <1>6, <1>7 DEF MailInv

\* Nothing that is being spent is voided, nor what is not there.
LEMMA MailVoids ==
  ASSUME MailInv, NEW S \in SUBSET (1..MaxMailed), \A t \in S : ~Tok!Locked(t), Tok!Void(S)
  PROVE  /\ mailed' \in [1..MaxMailed -> {"none", "live", "spent", "purged"}]
         /\ \A m \in Callers : mail[m].step = "work" => mailed'[mail[m].token] = "live"
         /\ \A t \in 1..MaxMailed : (mailed'[t] = "none" <=> mailed[t] = "none") /\ (mailed'[t] = "live" => mailed[t] = "live" /\ t \notin S)
<1>1. mailed' = [t \in 1..MaxMailed |-> IF t \in S /\ mailed[t] = "live" THEN "spent" ELSE mailed[t]]
  BY DEF Tok!Void, Tok!Numbers
<1>2. mailed \in [1..MaxMailed -> {"none", "live", "spent", "purged"}]
  BY DEF MailInv, MailTypes
<1>3. mailed' \in [1..MaxMailed -> {"none", "live", "spent", "purged"}]
  BY <1>1, <1>2
<1>4. ASSUME NEW m \in Callers, mail[m].step = "work" PROVE mailed'[mail[m].token] = "live"
  <2>1. mail[m].token \in 1..MaxMailed
    BY <1>4, MailParts DEF MailInv
  <2>2. mailed[mail[m].token] = "live"
    BY <1>4 DEF MailInv, Spending
  <2>3. mail[m].token \notin S
    BY <1>4 DEF Tok!Locked, Tok!Doing
  <2> QED  BY <1>1, <2>1, <2>2, <2>3
<1>5. \A t \in 1..MaxMailed : (mailed'[t] = "none" <=> mailed[t] = "none") /\ (mailed'[t] = "live" => mailed[t] = "live" /\ t \notin S)
  BY <1>1, <1>2
<1> QED  BY <1>3, <1>4, <1>5

\* They are voided, when whoever was spending one is through.
LEMMA MailVoidsThem == ASSUME MailInv, NEW m \in Callers, Tok!VoidThem(m) PROVE MailInv'
<1>1. /\ mail[m].step = "void" /\ \A t \in mail[m].tokens : ~Tok!Locked(t)
      /\ Tok!Void(mail[m].tokens) /\ superseded' = superseded \union mail[m].tokens
      /\ Tok!Goes(m, [step |-> "insert"]) /\ worked' = worked
  BY DEF Tok!VoidThem, Tok!Doing
<1>2. mail[m].tokens \subseteq 1..MaxMailed
  BY <1>1, MailParts DEF MailInv
<1>3. /\ mailed' \in [1..MaxMailed -> {"none", "live", "spent", "purged"}]
      /\ \A n \in Callers : mail[n].step = "work" => mailed'[mail[n].token] = "live"
      /\ \A t \in 1..MaxMailed : (mailed'[t] = "none" <=> mailed[t] = "none") /\ (mailed'[t] = "live" => mailed[t] = "live" /\ t \notin mail[m].tokens)
  BY <1>1, <1>2, MailVoids
<1>4. [step |-> "insert"] \in MailAt
  BY DEF MailAt
<1>5. /\ mail' \in [Callers -> MailAt] /\ mail'[m] = [step |-> "insert"]
      /\ \A n \in Callers \ {m} : mail'[n] = mail[n]
  BY <1>1, <1>4, MailMoves DEF MailInv
<1>6. mail'[m].step = "insert"
  BY <1>5
<1>7. MailTypes'
  BY <1>1, <1>2, <1>3, <1>5 DEF MailTypes, MailInv
<1>8. Spending'
  <2>1. \A n \in Callers : mail'[n].step = "void" => n # m /\ mail[n].step = "void" /\ mail'[n].tokens = mail[n].tokens /\ mail[n].tokens \subseteq 1..MaxMailed
    BY <1>5, <1>6, MailParts DEF MailInv
  <2>2. \A n \in Callers : mail'[n].step = "void" => \A t \in mail'[n].tokens : mailed'[t] # "none"
    BY <2>1, <1>3 DEF MailInv, Spending
  <2> QED  BY <1>3, <1>5, <1>6, <2>2 DEF Spending, MailInv
<1>9. Unspent'
  <2>1. \A t \in mail[m].tokens : mailed[t] # "none"
    BY <1>1 DEF MailInv, Spending
  <2> QED  BY <1>1, <1>2, <1>3, <2>1 DEF Unspent, MailInv, MailTypes
<1> QED  BY <1>7, <1>8, <1>9 DEF MailInv

\* The new one is inserted.
LEMMA MailInserts == ASSUME MailInv, NEW m \in Callers, Tok!Insert(m) PROVE MailInv'
<1>1. PICK t \in Tok!InState("none") : mailed' = [mailed EXCEPT ![t] = "live"]
  BY DEF Tok!Insert
<1>2. t \in 1..MaxMailed /\ mailed[t] = "none"
  BY DEF Tok!InState, Tok!Numbers
<1>3. /\ mail[m].step = "insert" /\ Tok!Goes(m, [step |-> "idle"])
      /\ superseded' = superseded /\ worked' = worked
  BY DEF Tok!Insert, Tok!Doing, Tok!Unused
<1>4. [step |-> "idle"] \in MailAt
  BY DEF MailAt, Tok!Unused
<1>5. /\ mail' \in [Callers -> MailAt] /\ mail'[m] = [step |-> "idle"]
      /\ \A n \in Callers \ {m} : mail'[n] = mail[n]
  BY <1>3, <1>4, MailMoves DEF MailInv
<1>6. mail'[m].step = "idle"
  BY <1>5
<1>7. MailTypes'
  BY <1>1, <1>2, <1>3, <1>5 DEF MailTypes, MailInv
<1>8. \A u \in 1..MaxMailed : u # t => mailed'[u] = mailed[u]
  BY <1>1 DEF MailInv, MailTypes
<1>9. mailed'[t] = "live"
  BY <1>1, <1>2 DEF MailInv, MailTypes
<1>10. Spending'
  <2>1. \A n \in Callers : mail[n].step = "work" => mail[n].token \in 1..MaxMailed /\ mail[n].token # t
    BY <1>2, MailParts DEF MailInv, Spending
  <2>2. \A n \in Callers : mail[n].step = "void" => mail[n].tokens \subseteq 1..MaxMailed
    BY MailParts DEF MailInv
  <2> QED  BY <1>5, <1>6, <1>8, <1>9, <2>1, <2>2 DEF MailInv, Spending
<1>11. Unspent'
  <2>1. t \notin superseded
    BY <1>2 DEF MailInv, Unspent
  <2>2. superseded \subseteq 1..MaxMailed
    BY DEF MailInv, MailTypes
  <2> QED  BY <1>2, <1>3, <1>8, <1>9, <2>1, <2>2 DEF MailInv, Unspent
<1> QED  BY <1>7, <1>10, <1>11 DEF MailInv

\* One UPDATE spends it, for the work to come.
LEMMA MailConsumes == ASSUME MailInv, NEW m \in Callers, NEW t \in 1..MaxMailed, Tok!Consume(m, t) PROVE MailInv'
<1>1. /\ mail[m].step = "idle" /\ mailed[t] = "live" /\ ~Tok!Locked(t)
      /\ Tok!Goes(m, [step |-> "work", token |-> t]) /\ UNCHANGED <<mailed, expired, superseded, worked>>
  BY DEF Tok!Consume, Tok!CanSpend, Tok!Doing
<1>2. [step |-> "work", token |-> t] \in MailAt
  BY DEF MailAt
<1>3. /\ mail' \in [Callers -> MailAt] /\ mail'[m] = [step |-> "work", token |-> t]
      /\ \A n \in Callers \ {m} : mail'[n] = mail[n]
  BY <1>1, <1>2, MailMoves DEF MailInv
<1>4. mail'[m].step = "work" /\ mail'[m].token = t
  BY <1>3
<1>5. MailTypes'
  BY <1>1, <1>3 DEF MailTypes, MailInv
<1>6. \A n \in Callers : mail[n].step = "work" => mail[n].token # t
  BY <1>1 DEF Tok!Locked, Tok!Doing
<1>7. Spending'
  BY <1>1, <1>3, <1>4, <1>6 DEF Spending, MailInv
<1>8. Unspent'
  BY <1>1 DEF Unspent, MailInv
<1> QED  BY <1>5, <1>7, <1>8 DEF MailInv

\* The token and the work commit together.
LEMMA MailCommits == ASSUME MailInv, NEW m \in Callers, Tok!Commit(m) PROVE MailInv'
<1>1. /\ mail[m].step = "work" /\ Tok!Goes(m, [step |-> "idle"]) /\ superseded' = superseded
      /\ mailed' = [mailed EXCEPT ![mail[m].token] = "spent"]
      /\ worked' = [worked EXCEPT ![mail[m].token] = worked[mail[m].token] + 1]
  BY DEF Tok!Commit, Tok!Doing, Tok!Unused
<1>2. [step |-> "idle"] \in MailAt
  BY DEF MailAt, Tok!Unused
<1>3. /\ mail' \in [Callers -> MailAt] /\ mail'[m] = [step |-> "idle"]
      /\ \A n \in Callers \ {m} : mail'[n] = mail[n]
  BY <1>1, <1>2, MailMoves DEF MailInv
<1>4. mail'[m].step = "idle"
  BY <1>3
<1>5. PICK t \in 1..MaxMailed : t = mail[m].token
  BY <1>1, MailParts DEF MailInv
<1>6. mailed[t] = "live" /\ worked[t] = 0
  BY <1>1, <1>5 DEF MailInv, Spending, Unspent
<1>7. /\ mailed'[t] = "spent" /\ worked'[t] = 1
      /\ \A u \in 1..MaxMailed : u # t => mailed'[u] = mailed[u] /\ worked'[u] = worked[u]
  BY <1>1, <1>5, <1>6 DEF MailInv, MailTypes
<1>8. MailTypes'
  BY <1>1, <1>3, <1>5, <1>6 DEF MailTypes, MailInv
<1>9. Spending'
  <2>1. \A n \in Callers : mail[n].step = "work" /\ n # m => mail[n].token \in 1..MaxMailed /\ mail[n].token # t
    BY <1>1, <1>5, MailParts DEF MailInv, Spending
  <2>2. \A n \in Callers : mail[n].step = "void" => mail[n].tokens \subseteq 1..MaxMailed
    BY MailParts DEF MailInv
  <2> QED  BY <1>3, <1>4, <1>7, <2>1, <2>2 DEF MailInv, Spending
<1>10. Unspent'
  <2>1. superseded \subseteq 1..MaxMailed
    BY DEF MailInv, MailTypes
  <2> QED  BY <1>1, <1>7, <2>1 DEF MailInv, Unspent
<1> QED  BY <1>8, <1>9, <1>10 DEF MailInv

\* Or neither does.
LEMMA MailAborts == ASSUME MailInv, NEW m \in Callers, Tok!Abort(m) PROVE MailInv'
<1>1. Tok!Goes(m, [step |-> "idle"]) /\ UNCHANGED <<mailed, expired, superseded, worked>>
  BY DEF Tok!Abort, Tok!Unused
<1>2. [step |-> "idle"] \in MailAt
  BY DEF MailAt, Tok!Unused
<1>3. /\ mail' \in [Callers -> MailAt] /\ mail'[m] = [step |-> "idle"]
      /\ \A n \in Callers \ {m} : mail'[n] = mail[n]
  BY <1>1, <1>2, MailMoves DEF MailInv
<1>4. mail'[m].step = "idle"
  BY <1>3
<1>5. MailTypes'
  BY <1>1, <1>3 DEF MailTypes, MailInv
<1>6. Spending'
  BY <1>1, <1>3, <1>4 DEF Spending, MailInv
<1>7. Unspent'
  BY <1>1 DEF Unspent, MailInv
<1> QED  BY <1>5, <1>6, <1>7 DEF MailInv

\* All of them are revoked, or those past their time deleted.
LEMMA MailRevokes == ASSUME MailInv, Tok!RevokeAll PROVE MailInv'
<1>1. /\ \A t \in 1..MaxMailed : ~Tok!Locked(t)
      /\ Tok!Void(1..MaxMailed) /\ UNCHANGED <<mail, superseded, worked>>
  BY DEF Tok!RevokeAll, Tok!Numbers
<1>2. /\ mailed' \in [1..MaxMailed -> {"none", "live", "spent", "purged"}]
      /\ \A m \in Callers : mail[m].step = "work" => mailed'[mail[m].token] = "live"
      /\ \A t \in 1..MaxMailed : (mailed'[t] = "none" <=> mailed[t] = "none") /\ (mailed'[t] = "live" => mailed[t] = "live" /\ t \notin 1..MaxMailed)
  BY <1>1, MailVoids
<1>3. MailTypes'
  BY <1>1, <1>2 DEF MailTypes, MailInv
<1>4. Spending'
  <2>1. \A n \in Callers : mail[n].step = "void" => mail[n].tokens \subseteq 1..MaxMailed
    BY MailParts DEF MailInv
  <2> QED  BY <1>1, <1>2, <2>1 DEF Spending, MailInv
<1>5. Unspent'
  BY <1>1, <1>2 DEF Unspent, MailInv, MailTypes
<1> QED  BY <1>3, <1>4, <1>5 DEF MailInv

\* purge() deletes rows, and says nothing of what they opened.
LEMMA MailPurges == ASSUME MailInv, Tok!PurgeTokens PROVE MailInv'
<1>1. /\ \A t \in expired : ~Tok!Locked(t) /\ UNCHANGED <<mail, superseded, worked>>
      /\ mailed' = [t \in 1..MaxMailed |-> IF t \in expired THEN "purged" ELSE mailed[t]]
  BY DEF Tok!PurgeTokens, Tok!Numbers
<1>2. /\ UNCHANGED <<mail, superseded, worked>>
  BY DEF Tok!PurgeTokens
<1>3. MailTypes'
  BY <1>1, <1>2 DEF MailTypes, MailInv
<1>4. \A t \in 1..MaxMailed : mailed'[t] = IF t \in expired THEN "purged" ELSE mailed[t]
  BY <1>1
<1>5. Spending'
  <2>1. \A n \in Callers : mail[n].step = "work" => mail[n].token \in 1..MaxMailed /\ mail[n].token \notin expired
    BY <1>1, MailParts DEF MailInv, Tok!Locked, Tok!Doing
  <2>2. \A n \in Callers : mail[n].step = "void" => mail[n].tokens \subseteq 1..MaxMailed
    BY MailParts DEF MailInv
  <2> QED  BY <1>2, <1>4, <2>1, <2>2 DEF Spending, MailInv
<1>6. Unspent'
  BY <1>2, <1>4 DEF Unspent, MailInv, MailTypes
<1> QED  BY <1>3, <1>5, <1>6 DEF MailInv

\* Every step keeps it.
LEMMA MailStep == MailInv /\ [Tok!MailNext]_Tok!mailVars => MailInv'
<1>1. MailInv /\ UNCHANGED Tok!mailVars => MailInv'
  BY DEF Tok!mailVars, MailInv, MailTypes, Spending, Unspent
<1>2. \A t \in 1..MaxMailed : MailInv /\ Tok!Expire(t) => MailInv'
  BY DEF Tok!Expire, MailInv, MailTypes, Spending, Unspent
<1> QED
  BY <1>1, <1>2, MailRevokes, MailPurges, MailIssues, MailVoidsThem, MailInserts, MailCommits,
     MailAborts, MailConsumes DEF Tok!MailNext, Tok!Numbers

\* The work a token is for is done at most once, and not at all once a later one
\* was sent in its place (token.service.ts).
THEOREM SpentOnceAlways == Tok!MailSpec => []Tok!SpentOnce
<1>1. MailInv => Tok!SpentOnce
  <2> SUFFICES ASSUME MailInv PROVE Tok!SpentOnce
    OBVIOUS
  <2>1. \A t \in 1..MaxMailed : worked[t] <= 1
    BY DEF MailInv, Unspent
  <2>2. \A t \in superseded : mailed[t] # "live"
    BY DEF MailInv, Unspent
  <2>3. \A t \in superseded : ~Tok!Locked(t)
    BY <2>2 DEF MailInv, Spending, Tok!Locked, Tok!Doing
  <2> QED  BY <2>1, <2>2, <2>3 DEF Tok!SpentOnce, Tok!Numbers
<1> QED  BY <1>1, MailBegins, MailStep, PTL DEF Tok!MailSpec

----------------------------------------------------------------------------
(* Sessions *)

\* What a request may have of a session, and be about to write.
HoldingAt == {Tok!Nothing} \union [step : {"touching", "held"}, row : Tok!Session]
               \union [step : {"saving"}, row : Tok!Session, insert : BOOLEAN, revives : BOOLEAN]

SessionTypes ==
  /\ session \in Tok!Session \union {NoSession}
  /\ holding \in [Callers -> HoldingAt]
  /\ now \in Nat /\ tokens \in 0..MaxTokens
  /\ rotated \subseteq 1..tokens

\* Each save brings a token of its own, which nothing has replaced.
FreshTokens ==
  /\ session # NoSession => session.token \in 1..tokens /\ session.token \notin rotated
  /\ \A r \in Callers : holding[r].step = "saving" =>
       /\ holding[r].row.token \in 1..tokens /\ holding[r].row.token \notin rotated
       /\ session # NoSession => holding[r].row.token # session.token
  /\ \A r, q \in Callers :
       holding[r].step = "saving" /\ holding[q].step = "saving" /\ holding[r].row.token = holding[q].row.token => r = q

\* Of one that ended so, nobody holds a copy that could bring it back.
Over ==
  ended => /\ \A r \in Callers : holding[r].step = "none"
           /\ session # NoSession => session.revoked
           /\ tokens > 0

SessionInv == SessionTypes /\ FreshTokens /\ Over

\* What a request has.
LEMMA HoldingParts ==
  ASSUME SessionTypes, NEW r \in Callers
  PROVE  /\ holding[r] \in HoldingAt
         /\ holding[r].step \in {"none", "touching", "held", "saving"}
         /\ holding[r].step # "none" => holding[r].row \in Tok!Session
<1>1. holding[r] \in HoldingAt
  BY DEF SessionTypes
<1> QED  BY <1>1 DEF HoldingAt, Tok!Nothing

\* A request moves on, and the others do not.
LEMMA HoldingMoves ==
  ASSUME SessionTypes, NEW r \in Callers, NEW to \in HoldingAt, Tok!Holds(r, to)
  PROVE  /\ holding' \in [Callers -> HoldingAt] /\ holding'[r] = to
         /\ \A q \in Callers \ {r} : holding'[q] = holding[q]
BY DEF Tok!Holds, SessionTypes

\* No session is a row.
LEMMA SessionRows ==
  /\ NoSession \notin Tok!Session
  /\ \A row \in Tok!Session : row.token \in 1..MaxTokens /\ row.seen \in 0..Ttl /\ row # NoSession
  /\ MaxTokens \in Nat /\ Ttl \in Nat /\ MaxTokens >= 1
<1>1. NoSession \notin Tok!Session
  BY RowsAssumption
<1>2. \A row \in Tok!Session : row.token \in 1..MaxTokens /\ row.seen \in 0..Ttl
  BY DEF Tok!Session
<1> QED  BY <1>1, <1>2, AmountsAssumption

\* Nobody has signed in at first.
LEMMA SessionBegins == Tok!Init => SessionInv
<1> SUFFICES ASSUME Tok!Init PROVE SessionInv
  OBVIOUS
<1>1. /\ session = NoSession /\ holding = [r \in Callers |-> [step |-> "none"]]
      /\ now = 0 /\ tokens = 0 /\ rotated = {} /\ ended = FALSE
  BY DEF Tok!Init, Tok!Nothing
<1>2. [step |-> "none"] \in HoldingAt
  BY DEF HoldingAt, Tok!Nothing
<1>3. SessionTypes
  BY <1>1, <1>2, SessionRows DEF SessionTypes
<1>4. \A r \in Callers : holding[r].step = "none"
  BY <1>1
<1>5. FreshTokens
  BY <1>1, <1>4 DEF FreshTokens
<1>6. ended => \A r \in Callers : holding[r].step = "none"
  BY <1>4
<1>7. Over
  BY <1>1 DEF Over
<1> QED  BY <1>3, <1>5, <1>7 DEF SessionInv

\* create() gives out the first token.
LEMMA SessionCreates == ASSUME SessionInv, Tok!Create PROVE SessionInv'
<1>1. /\ session = NoSession /\ tokens = 0 /\ tokens' = 1
      /\ session' = [token |-> 1, seen |-> 0, revoked |-> FALSE]
      /\ UNCHANGED <<holding, now, rotated, ended>>
  BY DEF Tok!Create
<1>2. session' \in Tok!Session /\ session'.token = 1
  BY <1>1, SessionRows DEF Tok!Session
<1>3. rotated = {}
  BY <1>1 DEF SessionInv, SessionTypes
<1>4. \A r \in Callers : holding[r].step # "saving"
  BY <1>1 DEF SessionInv, FreshTokens
<1>5. SessionTypes'
  BY <1>1, <1>2, <1>3, SessionRows DEF SessionInv, SessionTypes
<1>6. FreshTokens'
  BY <1>1, <1>2, <1>3, <1>4 DEF FreshTokens
<1>7. ~ended
  BY <1>1 DEF SessionInv, Over
<1>8. Over'
  BY <1>1, <1>7 DEF Over
<1> QED  BY <1>5, <1>6, <1>8 DEF SessionInv

\* validate() takes a copy of one that is live.
LEMMA SessionValidates == ASSUME SessionInv, NEW r \in Callers, Tok!Validate(r) PROVE SessionInv'
<1>1. /\ holding[r].step = "none" /\ session # NoSession /\ Tok!Live(session)
      /\ UNCHANGED <<session, now, tokens, rotated, ended>>
  BY DEF Tok!Validate, Tok!At
<1>2. session \in Tok!Session /\ now \in 0..Ttl
  BY <1>1, SessionRows DEF SessionInv, SessionTypes, Tok!Live
<1>3. PICK to \in HoldingAt : Tok!Holds(r, to) /\ to.step \in {"touching", "held"}
  <2>1. [session EXCEPT !.seen = now] \in Tok!Session
    BY <1>2 DEF Tok!Session
  <2>2. /\ [step |-> "touching", row |-> [session EXCEPT !.seen = now]] \in HoldingAt
        /\ [step |-> "held", row |-> session] \in HoldingAt
    BY <1>2, <2>1 DEF HoldingAt
  <2>3. \/ Tok!Holds(r, [step |-> "touching", row |-> [session EXCEPT !.seen = now]])
        \/ Tok!Holds(r, [step |-> "held", row |-> session])
    BY DEF Tok!Validate
  <2> QED  BY <2>2, <2>3
<1>4. /\ holding' \in [Callers -> HoldingAt] /\ holding'[r] = to
      /\ \A q \in Callers \ {r} : holding'[q] = holding[q]
  BY <1>3, HoldingMoves DEF SessionInv
<1>5. holding'[r].step # "saving"
  BY <1>3, <1>4
<1>6. SessionTypes'
  BY <1>1, <1>4 DEF SessionInv, SessionTypes
<1>7. FreshTokens'
  BY <1>1, <1>4, <1>5 DEF SessionInv, FreshTokens
<1>8. ~session.revoked
  BY <1>1 DEF Tok!Live
<1>9. ~ended
  BY <1>1, <1>8 DEF SessionInv, Over
<1>10. Over'
  BY <1>1, <1>9 DEF Over
<1> QED  BY <1>6, <1>7, <1>10 DEF SessionInv

\* Of one that ended so nobody holds anything.
LEMMA NotOver == ASSUME SessionInv, NEW r \in Callers, holding[r].step # "none" PROVE ~ended
BY DEF SessionInv, Over

\* An UPDATE of the time it was last seen.
LEMMA SessionTouches == ASSUME SessionInv, NEW r \in Callers, Tok!TouchSeen(r) PROVE SessionInv'
<1>1. /\ holding[r].step = "touching" /\ UNCHANGED <<now, tokens, rotated, ended>>
      /\ session' = IF session = NoSession THEN NoSession ELSE [session EXCEPT !.seen = holding[r].row.seen]
      /\ Tok!Holds(r, [step |-> "held", row |-> holding[r].row])
  BY DEF Tok!TouchSeen, Tok!At, Tok!Touched
<1>2. holding[r].row \in Tok!Session
  BY <1>1, HoldingParts DEF SessionInv
<1>3. [step |-> "held", row |-> holding[r].row] \in HoldingAt
  BY <1>2 DEF HoldingAt
<1>4. /\ holding' \in [Callers -> HoldingAt] /\ holding'[r] = [step |-> "held", row |-> holding[r].row]
      /\ \A q \in Callers \ {r} : holding'[q] = holding[q]
  BY <1>1, <1>3, HoldingMoves DEF SessionInv
<1>5. holding'[r].step = "held"
  BY <1>4
<1>6. /\ session' \in Tok!Session \union {NoSession}
      /\ session' # NoSession => session # NoSession /\ session'.token = session.token
  <2>1. CASE session = NoSession
    BY <1>1, <2>1
  <2>2. CASE session # NoSession
    <3>1. session \in Tok!Session
      BY <2>2 DEF SessionInv, SessionTypes
    <3>2. session' = [session EXCEPT !.seen = holding[r].row.seen]
      BY <1>1, <2>2
    <3>3. session' \in Tok!Session /\ session'.token = session.token
      BY <1>2, <3>1, <3>2 DEF Tok!Session
    <3> QED  BY <2>2, <3>3
  <2> QED  BY <2>1, <2>2
<1>7. SessionTypes'
  BY <1>1, <1>4, <1>6 DEF SessionInv, SessionTypes
<1>8. FreshTokens'
  <2>1. session' # NoSession => session'.token \in 1..tokens /\ session'.token \notin rotated
    BY <1>6 DEF SessionInv, FreshTokens
  <2>2. \A q \in Callers : holding'[q].step = "saving" => holding'[q] = holding[q]
    BY <1>4, <1>5
  <2>3. \A q \in Callers : holding'[q].step = "saving" =>
          /\ holding'[q].row.token \in 1..tokens /\ holding'[q].row.token \notin rotated
          /\ session' # NoSession => holding'[q].row.token # session'.token
    BY <1>6, <2>2 DEF SessionInv, FreshTokens
  <2>4. \A p, q \in Callers :
          holding'[p].step = "saving" /\ holding'[q].step = "saving" /\ holding'[p].row.token = holding'[q].row.token => p = q
    BY <2>2 DEF SessionInv, FreshTokens
  <2> QED  BY <1>1, <2>1, <2>3, <2>4 DEF FreshTokens
<1>9. ~ended
  BY <1>1, NotOver
<1>10. Over'
  BY <1>1, <1>9 DEF Over
<1> QED  BY <1>7, <1>8, <1>10 DEF SessionInv

\* rotate() gives the copy a token of its own.
LEMMA SessionRotates == ASSUME SessionInv, NEW r \in Callers, Tok!Rotate(r) PROVE SessionInv'
<1>1. /\ holding[r].step = "held" /\ tokens < MaxTokens /\ now <= Ttl /\ tokens' = tokens + 1
      /\ UNCHANGED <<session, now, rotated, ended>>
  BY DEF Tok!Rotate, Tok!At
<1>2. holding[r].row \in Tok!Session
  BY <1>1, HoldingParts DEF SessionInv
<1>3. tokens \in Nat /\ tokens + 1 \in 1..MaxTokens /\ now \in 0..Ttl /\ rotated \subseteq 1..tokens
  BY <1>1, SessionRows DEF SessionInv, SessionTypes
<1>4. PICK row : row = [holding[r].row EXCEPT !.token = tokens + 1, !.seen = now]
  OBVIOUS
<1>5. row \in Tok!Session /\ row.token = tokens + 1
  BY <1>2, <1>3, <1>4 DEF Tok!Session
<1>6. PICK to \in HoldingAt : Tok!Holds(r, to) /\ to.step = "saving" /\ to.row = row
  <2>1. PICK a, b \in BOOLEAN : a = (session = NoSession) /\ b = (session # NoSession /\ session.revoked # holding[r].row.revoked)
    OBVIOUS
  <2>2. Tok!Holds(r, [step |-> "saving", row |-> row, insert |-> a, revives |-> b])
    BY <1>4, <2>1 DEF Tok!Rotate
  <2>3. [step |-> "saving", row |-> row, insert |-> a, revives |-> b] \in HoldingAt
    BY <1>5, <2>1 DEF HoldingAt
  <2> QED  BY <2>2, <2>3
<1>7. /\ holding' \in [Callers -> HoldingAt] /\ holding'[r] = to
      /\ \A q \in Callers \ {r} : holding'[q] = holding[q]
  BY <1>6, HoldingMoves DEF SessionInv
<1>8. holding'[r].step = "saving" /\ holding'[r].row.token = tokens + 1
  BY <1>5, <1>6, <1>7
<1>9. SessionTypes'
  BY <1>1, <1>3, <1>7 DEF SessionInv, SessionTypes
<1>10. FreshTokens'
  <2>1. session # NoSession => session.token \in 1..tokens
    BY DEF SessionInv, FreshTokens
  <2>2. \A q \in Callers : holding[q].step = "saving" => holding[q].row.token \in 1..tokens
    BY DEF SessionInv, FreshTokens
  <2>3. \A q \in Callers : holding'[q].step = "saving" =>
          /\ holding'[q].row.token \in 1..tokens' /\ holding'[q].row.token \notin rotated
          /\ session # NoSession => holding'[q].row.token # session.token
    BY <1>1, <1>3, <1>7, <1>8, <2>1 DEF SessionInv, FreshTokens
  <2>4. \A p, q \in Callers :
          holding'[p].step = "saving" /\ holding'[q].step = "saving" /\ holding'[p].row.token = holding'[q].row.token => p = q
    BY <1>3, <1>7, <1>8, <2>2 DEF SessionInv, FreshTokens
  <2>5. session # NoSession => session.token \in 1..tokens' /\ session.token \notin rotated
    BY <1>1, <1>3 DEF SessionInv, FreshTokens
  <2> QED  BY <1>1, <2>3, <2>4, <2>5 DEF FreshTokens
<1>11. ~ended
  BY <1>1, NotOver
<1>12. Over'
  BY <1>1, <1>11 DEF Over
<1> QED  BY <1>9, <1>10, <1>12 DEF SessionInv

\* save() writes it, over what is there by now.
LEMMA SessionSaves == ASSUME SessionInv, NEW r \in Callers, Tok!Save(r) PROVE SessionInv'
<1>1. /\ holding[r].step = "saving" /\ UNCHANGED <<now, tokens, ended>>
      /\ Tok!Holds(r, [step |-> "held", row |-> holding[r].row])
  BY DEF Tok!Save, Tok!At
<1>2. PICK row \in Tok!Session : row = holding[r].row
  BY <1>1, HoldingParts DEF SessionInv
<1>3. [step |-> "held", row |-> row] \in HoldingAt
  BY <1>2 DEF HoldingAt
<1>4. /\ holding' \in [Callers -> HoldingAt] /\ holding'[r] = [step |-> "held", row |-> row]
      /\ \A q \in Callers \ {r} : holding'[q] = holding[q]
  BY <1>1, <1>2, <1>3, HoldingMoves DEF SessionInv
<1>5. holding'[r].step = "held"
  BY <1>4
<1>6. /\ row.token \in 1..tokens /\ row.token \notin rotated
      /\ session # NoSession => row.token # session.token /\ session \in Tok!Session
                                 /\ session.token \in 1..tokens
      /\ rotated \subseteq 1..tokens
  BY <1>1, <1>2 DEF SessionInv, FreshTokens, SessionTypes
<1>7. \/ session' = session /\ rotated' = rotated
      \/ /\ session' \in Tok!Session /\ session'.token = row.token
         /\ \/ rotated' = rotated
            \/ session # NoSession /\ rotated' = rotated \union {session.token}
  <2>1. \/ session' = session /\ rotated' = rotated
        \/ session' = row /\ rotated' = rotated
        \/ /\ session # NoSession /\ rotated' = rotated \union {session.token}
           /\ session' = [row EXCEPT !.revoked = IF holding[r].revives THEN row.revoked ELSE session.revoked]
    <3>1. (session = NoSession) # holding[r].insert \/ holding[r].insert \/ (session # NoSession /\ ~holding[r].insert)
      <4>1. holding[r] \in HoldingAt
        BY HoldingParts DEF SessionInv
      <4>2. holding[r].insert \in BOOLEAN
        BY <1>1, <4>1 DEF HoldingAt, Tok!Nothing
      <4> QED  BY <4>2
    <3> QED  BY <1>2, <3>1 DEF Tok!Save
  <2>2. session # NoSession =>
          [row EXCEPT !.revoked = IF holding[r].revives THEN row.revoked ELSE session.revoked] \in Tok!Session
    <3> SUFFICES ASSUME session # NoSession
                 PROVE  [row EXCEPT !.revoked = IF holding[r].revives THEN row.revoked ELSE session.revoked] \in Tok!Session
      OBVIOUS
    <3>1. session.revoked \in BOOLEAN /\ row.revoked \in BOOLEAN
      BY <1>2, <1>6 DEF Tok!Session
    <3>2. PICK b \in BOOLEAN : b = IF holding[r].revives THEN row.revoked ELSE session.revoked
      BY <3>1
    <3>3. [row EXCEPT !.revoked = b] \in Tok!Session
      BY <1>2 DEF Tok!Session
    <3> QED  BY <3>2, <3>3
  <2>3. [row EXCEPT !.revoked = IF holding[r].revives THEN row.revoked ELSE session.revoked].token = row.token
    BY <1>2 DEF Tok!Session
  <2> QED  BY <2>1, <2>2, <2>3
<1>8. \A q \in Callers : holding'[q].step = "saving" => q # r /\ holding'[q] = holding[q] /\ holding[q].row.token # row.token
  BY <1>1, <1>2, <1>4, <1>5 DEF SessionInv, FreshTokens
<1>9. SessionTypes'
  <2>1. session' \in Tok!Session \union {NoSession}
    BY <1>7 DEF SessionInv, SessionTypes
  <2>2. rotated' \subseteq 1..tokens
    BY <1>6, <1>7
  <2> QED  BY <1>1, <1>4, <2>1, <2>2 DEF SessionInv, SessionTypes
<1>10. FreshTokens'
  <2>1. session' # NoSession => session'.token \in 1..tokens /\ session'.token \notin rotated'
    BY <1>6, <1>7 DEF SessionInv, FreshTokens
  <2>2. \A q \in Callers : holding'[q].step = "saving" =>
          /\ holding'[q].row.token \in 1..tokens /\ holding'[q].row.token \notin rotated
          /\ session # NoSession => holding'[q].row.token # session.token
    BY <1>8 DEF SessionInv, FreshTokens
  <2>3. \A q \in Callers : holding'[q].step = "saving" =>
          /\ holding'[q].row.token \in 1..tokens /\ holding'[q].row.token \notin rotated'
          /\ session' # NoSession => holding'[q].row.token # session'.token
    BY <1>7, <1>8, <2>2
  <2>4. \A p, q \in Callers :
          holding'[p].step = "saving" /\ holding'[q].step = "saving" /\ holding'[p].row.token = holding'[q].row.token => p = q
    BY <1>8 DEF SessionInv, FreshTokens
  <2> QED  BY <1>1, <2>1, <2>3, <2>4 DEF FreshTokens
<1>11. ~ended
  BY <1>1, NotOver
<1>12. Over'
  BY <1>1, <1>11 DEF Over
<1> QED  BY <1>9, <1>10, <1>12 DEF SessionInv

\* A request is over.
LEMMA SessionLeft == ASSUME SessionInv, NEW r \in Callers, Tok!Leave(r) PROVE SessionInv'
<1>1. Tok!Holds(r, [step |-> "none"]) /\ UNCHANGED <<session, now, tokens, rotated, ended>>
  BY DEF Tok!Leave, Tok!Nothing
<1>2. [step |-> "none"] \in HoldingAt
  BY DEF HoldingAt, Tok!Nothing
<1>3. /\ holding' \in [Callers -> HoldingAt] /\ holding'[r] = [step |-> "none"]
      /\ \A q \in Callers \ {r} : holding'[q] = holding[q]
  BY <1>1, <1>2, HoldingMoves DEF SessionInv
<1>4. holding'[r].step = "none"
  BY <1>3
<1>5. SessionTypes'
  BY <1>1, <1>3 DEF SessionInv, SessionTypes
<1>6. FreshTokens'
  BY <1>1, <1>3, <1>4 DEF SessionInv, FreshTokens
<1>7. Over'
  BY <1>1, <1>3, <1>4 DEF SessionInv, Over
<1> QED  BY <1>5, <1>6, <1>7 DEF SessionInv

\* It is revoked, or purged when its time is up.
LEMMA SessionEnds == ASSUME SessionInv, Tok!Revoke \/ Tok!PurgeExpired PROVE SessionInv'
<1>1. /\ session # NoSession /\ UNCHANGED <<holding, now, tokens, rotated>>
      /\ \/ session' = [session EXCEPT !.revoked = TRUE] /\ ended' = ~Tok!Held
         \/ session' = NoSession /\ ended' = (ended \/ ~Tok!Held)
  BY DEF Tok!Revoke, Tok!PurgeExpired
<1>2. session \in Tok!Session /\ session.token \in 1..tokens
  BY <1>1 DEF SessionInv, SessionTypes, FreshTokens
<1>3. \/ session' = NoSession
      \/ session' \in Tok!Session /\ session'.token = session.token /\ session'.revoked
  <2>1. [session EXCEPT !.revoked = TRUE] \in Tok!Session
    BY <1>2 DEF Tok!Session
  <2>2. [session EXCEPT !.revoked = TRUE].token = session.token /\ [session EXCEPT !.revoked = TRUE].revoked = TRUE
    BY <1>2 DEF Tok!Session
  <2> QED  BY <1>1, <2>1, <2>2
<1>4. SessionTypes'
  BY <1>1, <1>3 DEF SessionInv, SessionTypes
<1>5. FreshTokens'
  BY <1>1, <1>3 DEF SessionInv, FreshTokens
<1>6. ended' => \A r \in Callers : holding[r].step = "none"
  <2>1. ~Tok!Held => \A r \in Callers : holding[r].step = "none"
    BY DEF Tok!Held, Tok!At
  <2>2. ended => \A r \in Callers : holding[r].step = "none"
    BY DEF SessionInv, Over
  <2> QED  BY <1>1, <2>1, <2>2
<1>7. tokens > 0
  BY <1>2 DEF SessionInv, SessionTypes
<1>8. Over'
  BY <1>1, <1>3, <1>6, <1>7 DEF Over
<1> QED  BY <1>4, <1>5, <1>8 DEF SessionInv

\* Every step keeps it.
LEMMA SessionStep == SessionInv /\ [Tok!Next]_Tok!sessionVars => SessionInv'
<1>1. SessionInv /\ UNCHANGED Tok!sessionVars => SessionInv'
  BY DEF Tok!sessionVars, SessionInv, SessionTypes, FreshTokens, Over
<1>2. SessionInv /\ Tok!Tick => SessionInv'
  <2> SUFFICES ASSUME SessionInv, Tok!Tick PROVE SessionInv'
    OBVIOUS
  <2>1. now' = now + 1 /\ UNCHANGED <<session, holding, tokens, rotated, ended>>
    BY DEF Tok!Tick
  <2>2. SessionTypes'
    BY <2>1 DEF SessionInv, SessionTypes
  <2>3. FreshTokens' /\ Over'
    BY <2>1 DEF SessionInv, FreshTokens, Over
  <2> QED  BY <2>2, <2>3 DEF SessionInv
<1> QED
  BY <1>1, <1>2, SessionCreates, SessionValidates, SessionTouches, SessionRotates, SessionSaves,
     SessionLeft, SessionEnds DEF Tok!Next

\* A token that a rotation took the place of opens nothing again, and a session
\* revoked while no request held it stays so (session.service.ts).
THEOREM EndedStaysEndedAlways == Tok!Spec => []Tok!EndedStaysEnded
<1>1. SessionInv => Tok!EndedStaysEnded
  BY DEF SessionInv, FreshTokens, Over, Tok!EndedStaysEnded
<1> QED  BY <1>1, SessionBegins, SessionStep, PTL DEF Tok!Spec

----------------------------------------------------------------------------
(* A second factor *)

\* What a request is at: its code, and the row it read.
Asking == [op : Fac!Checks, code : Fac!Code \union {Fac!Wrong}, now : 0..MaxClock, row : Fac!Factor]

FactorTypes ==
  /\ factor \in Fac!Factor \union {NoFactor}
  /\ request \in [Callers -> Asking \union {Fac!Idle}]
  /\ holder = {r \in Callers : request[r] # Fac!Idle}
  /\ clock \in 0..MaxClock /\ secrets \in 0..MaxSecrets
  /\ used \subseteq Fac!Code /\ wrong \in Nat

Known(code) ==
  /\ code.kind = "totp" => code.secret <= secrets
  /\ code.kind = "recovery" => code.set <= secrets

\* One request at a time holds the row, which is as it read it.
RowLocked ==
  /\ \A r \in Callers : request[r] # Fac!Idle =>
       factor # NoFactor /\ request[r].row = factor /\ Known(request[r].code)
  /\ \A r, q \in Callers : request[r] # Fac!Idle /\ request[q] # Fac!Idle => r = q

\* The row tells which codes were used.
UsedUp ==
  /\ \A code \in used : Known(code)
  /\ factor # NoFactor =>
       /\ factor.secret <= secrets /\ \A set \in factor.recovery : set <= secrets
       /\ \A code \in used :
            /\ code.kind = "totp" /\ code.secret = factor.secret => code.step + 1 <= factor.last
            /\ code.kind = "recovery" => code.set \notin factor.recovery

\* And how many wrong ones there were.
CountedWrong == wrong = IF factor = NoFactor THEN 0 ELSE factor.failures

FactorInv == FactorTypes /\ RowLocked /\ UsedUp /\ ~twice /\ CountedWrong

\* What the constants are.
LEMMA FactorBounds ==
  /\ Window \in Nat /\ LockFor \in Nat /\ MaxClock \in Nat /\ MaxSecrets \in Nat
  /\ MaxFailures \in Nat /\ MaxFailures >= 1
  /\ NoFactor \notin Fac!Factor
BY AmountsAssumption, RowsAssumption

\* What is in a row, and in a code.
LEMMA FactorParts ==
  ASSUME NEW row \in Fac!Factor
  PROVE  /\ row.secret \in 1..MaxSecrets /\ row.last \in 0..(MaxClock + Window + 1)
         /\ row.recovery \in SUBSET (1..MaxSecrets) /\ row.failures \in 0..(MaxFailures - 1)
         /\ row.locked \in 0..(MaxClock + LockFor) /\ row.confirmed \in BOOLEAN
         /\ row # NoFactor
<1>1. /\ row.secret \in 1..MaxSecrets /\ row.last \in 0..(MaxClock + Window + 1)
      /\ row.recovery \in SUBSET (1..MaxSecrets) /\ row.failures \in 0..(MaxFailures - 1)
      /\ row.locked \in 0..(MaxClock + LockFor)
  BY DEF Fac!Factor
<1>2. row.confirmed \in BOOLEAN
  BY DEF Fac!Factor
<1>3. row # NoFactor
  BY FactorBounds
<1> QED  BY <1>1, <1>2, <1>3

\* What a code is of.
LEMMA CodeParts ==
  ASSUME NEW code \in Fac!Code \union {Fac!Wrong}
  PROVE  /\ code.kind \in {"totp", "recovery", "wrong"}
         /\ code.kind = "totp" => code \in Fac!Code /\ code.secret \in 1..MaxSecrets /\ code.step \in 0..(MaxClock + Window)
         /\ code.kind = "recovery" => code \in Fac!Code /\ code.set \in 1..MaxSecrets
         /\ code \in Fac!Code => code.kind \in {"totp", "recovery"}
BY DEF Fac!Code, Fac!Wrong

\* What a request has, and the row it holds.
LEMMA AskingParts ==
  ASSUME FactorInv, NEW r \in Callers, request[r] # Fac!Idle
  PROVE  /\ request[r] \in Asking
         /\ request[r].op \in Fac!Checks /\ request[r].code \in Fac!Code \union {Fac!Wrong}
         /\ request[r].now \in 0..MaxClock
         /\ request[r].row = factor /\ factor \in Fac!Factor /\ factor # NoFactor
         /\ Known(request[r].code)
         /\ \A q \in Callers : q # r => request[q] = Fac!Idle
<1>1. request[r] \in Asking
  BY DEF FactorInv, FactorTypes
<1>2. /\ request[r].op \in Fac!Checks /\ request[r].code \in Fac!Code \union {Fac!Wrong}
      /\ request[r].now \in 0..MaxClock
  BY <1>1 DEF Asking
<1>3. request[r].row = factor /\ factor # NoFactor /\ Known(request[r].code)
  BY DEF FactorInv, RowLocked
<1>4. factor \in Fac!Factor
  BY <1>3 DEF FactorInv, FactorTypes
<1>5. \A q \in Callers : q # r => request[q] = Fac!Idle
  BY DEF FactorInv, RowLocked
<1> QED  BY <1>1, <1>2, <1>3, <1>4, <1>5

\* Nobody holds the row once its one request is over.
LEMMA LetGo ==
  ASSUME FactorInv, NEW r \in Callers, request[r] # Fac!Idle,
         request' = [request EXCEPT ![r] = Fac!Idle], holder' = holder \ {r}
  PROVE  /\ request' \in [Callers -> Asking \union {Fac!Idle}]
         /\ \A q \in Callers : request'[q] = Fac!Idle
         /\ holder' = {q \in Callers : request'[q] # Fac!Idle}
<1>1. request \in [Callers -> Asking \union {Fac!Idle}] /\ holder = {q \in Callers : request[q] # Fac!Idle}
  BY DEF FactorInv, FactorTypes
<1>2. \A q \in Callers : q # r => request[q] = Fac!Idle
  BY AskingParts
<1> QED  BY <1>1, <1>2

\* No code is used, and none is wrong, at first.
LEMMA FactorBegins == Fac!Init => FactorInv
<1> SUFFICES ASSUME Fac!Init PROVE FactorInv
  OBVIOUS
<1>1. /\ factor = NoFactor /\ holder = {} /\ request = [r \in Callers |-> Fac!Idle]
      /\ clock = 0 /\ secrets = 0 /\ used = {} /\ wrong = 0
  BY DEF Fac!Init
<1>2. twice = FALSE
  BY DEF Fac!Init
<1>3. FactorTypes
  BY <1>1, FactorBounds DEF FactorTypes
<1>4. RowLocked /\ UsedUp /\ CountedWrong
  BY <1>1 DEF RowLocked, UsedUp, CountedWrong
<1> QED  BY <1>2, <1>3, <1>4 DEF FactorInv

\* begin() makes a secret that no code used before is of.
LEMMA FactorEnrols == ASSUME FactorInv, Fac!Enrol PROVE FactorInv'
<1>1. /\ holder = {} /\ secrets < MaxSecrets /\ secrets' = secrets + 1
      /\ UNCHANGED <<holder, request, clock, used, wrong>>
  BY DEF Fac!Enrol, Fac!CanLock
<1>2. twice' = twice
  BY DEF Fac!Enrol
<1>3. secrets \in Nat /\ secrets + 1 \in 1..MaxSecrets
  BY <1>1, FactorBounds DEF FactorInv, FactorTypes
<1>4. \A r \in Callers : request[r] = Fac!Idle
  BY <1>1 DEF FactorInv, FactorTypes
<1>5. /\ factor' \in Fac!Factor /\ factor' # NoFactor /\ factor'.secret = secrets + 1
      /\ factor'.failures = wrong
      /\ factor'.recovery \subseteq 1..MaxSecrets
      /\ \A set \in factor'.recovery : factor # NoFactor /\ set \in factor.recovery
  <2>1. CASE factor = NoFactor
    <3>1. factor' = [secret |-> secrets + 1, confirmed |-> FALSE, last |-> 0,
                     recovery |-> {}, failures |-> 0, locked |-> 0]
      BY <2>1 DEF Fac!Enrol
    <3>2. factor' \in Fac!Factor
      BY <1>3, <3>1, FactorBounds DEF Fac!Factor
    <3>3. wrong = 0
      BY <2>1 DEF FactorInv, CountedWrong
    <3> QED  BY <3>1, <3>2, <3>3, FactorBounds
  <2>2. CASE factor # NoFactor
    <3>1. factor' = [factor EXCEPT !.secret = secrets + 1]
      BY <2>2 DEF Fac!Enrol
    <3>2. factor \in Fac!Factor
      BY <2>2 DEF FactorInv, FactorTypes
    <3>3. /\ factor' \in Fac!Factor /\ factor'.secret = secrets + 1
          /\ factor'.failures = factor.failures /\ factor'.recovery = factor.recovery
      BY <1>3, <3>1, <3>2 DEF Fac!Factor
    <3>4. wrong = factor.failures
      BY <2>2 DEF FactorInv, CountedWrong
    <3> QED  BY <2>2, <3>2, <3>3, <3>4, FactorBounds, FactorParts
  <2> QED  BY <2>1, <2>2
<1>6. FactorTypes'
  BY <1>1, <1>3, <1>5 DEF FactorInv, FactorTypes
<1>7. RowLocked'
  BY <1>1, <1>4 DEF RowLocked
<1>8. used \subseteq Fac!Code /\ \A code \in used : Known(code)
  BY DEF FactorInv, FactorTypes, UsedUp
<1>9. \A code \in used :
        /\ code.kind = "totp" => code.secret < secrets + 1 /\ code.secret <= secrets'
        /\ code.kind = "recovery" => code.set <= secrets'
  BY <1>1, <1>3, <1>8, CodeParts DEF Known
<1>10. UsedUp'
  <2>1. \A code \in used : Known(code)'
    BY <1>9 DEF Known
  <2>2. \A set \in factor'.recovery : set <= secrets'
    BY <1>1, <1>3, <1>5, FactorParts DEF FactorInv, UsedUp
  <2>3. \A code \in used :
          /\ code.kind = "totp" => code.secret # factor'.secret
          /\ code.kind = "recovery" => code.set \notin factor'.recovery
    <3>1. \A code \in used : code.kind = "totp" => code.secret # secrets + 1
      BY <1>3, <1>8, <1>9, CodeParts
    <3> QED  BY <1>5, <3>1 DEF FactorInv, UsedUp
  <2>4. factor'.secret <= secrets'
    BY <1>1, <1>3, <1>5
  <2> QED  BY <1>1, <2>1, <2>2, <2>3, <2>4 DEF UsedUp
<1>11. CountedWrong'
  BY <1>1, <1>5 DEF CountedWrong
<1> QED  BY <1>2, <1>6, <1>7, <1>10, <1>11 DEF FactorInv

\* checked() reads the row under its lock.
LEMMA FactorLocks ==
  ASSUME FactorInv, NEW r \in Callers, NEW op \in Fac!Checks, NEW code \in Fac!Typed,
         NEW at \in 0..clock, Fac!Lock(r, op, code, at)
  PROVE  FactorInv'
<1>1. /\ request[r] = Fac!Idle /\ factor # NoFactor /\ holder = {} /\ holder' = holder \union {r}
      /\ request' = [request EXCEPT ![r] = [op |-> op, code |-> code, now |-> at, row |-> factor]]
      /\ UNCHANGED <<factor, clock, secrets, used, wrong>>
  BY DEF Fac!Lock, Fac!CanLock
<1>2. twice' = twice
  BY DEF Fac!Lock
<1>3. factor \in Fac!Factor
  BY <1>1 DEF FactorInv, FactorTypes
<1>4. code \in Fac!Code \union {Fac!Wrong} /\ Known(code)
  <2>1. CASE code = Fac!Wrong
    BY <2>1 DEF Known, Fac!Wrong
  <2>2. CASE code \in Fac!Code /\ IF code.kind = "totp" THEN code.secret <= secrets ELSE code.set <= secrets
    BY <2>2 DEF Known
  <2> QED  BY <2>1, <2>2 DEF Fac!Typed
<1>5. PICK asks : asks = [op |-> op, code |-> code, now |-> at, row |-> factor]
  OBVIOUS
<1>6. asks \in Asking /\ asks.row = factor /\ asks.code = code /\ asks # Fac!Idle
  <2>1. at \in 0..MaxClock
    BY FactorBounds DEF FactorInv, FactorTypes
  <2>2. asks \in Asking /\ asks.row = factor /\ asks.code = code
    BY <1>3, <1>4, <1>5, <2>1 DEF Asking
  <2>3. asks.op # "none"
    BY <1>5 DEF Fac!Checks
  <2>4. Fac!Idle.op = "none"
    BY DEF Fac!Idle
  <2> QED  BY <2>2, <2>3, <2>4
<1>7. \A q \in Callers : request[q] = Fac!Idle
  BY <1>1 DEF FactorInv, FactorTypes
<1>8. /\ request' \in [Callers -> Asking \union {Fac!Idle}] /\ request'[r] = asks
      /\ \A q \in Callers : q # r => request'[q] = Fac!Idle
  BY <1>1, <1>5, <1>6, <1>7 DEF FactorInv, FactorTypes
<1>9. holder' = {q \in Callers : request'[q] # Fac!Idle}
  BY <1>1, <1>6, <1>8
<1>10. FactorTypes'
  BY <1>1, <1>8, <1>9 DEF FactorInv, FactorTypes
<1>11. RowLocked'
  BY <1>1, <1>4, <1>6, <1>8 DEF RowLocked, Known
<1>12. UsedUp' /\ CountedWrong'
  BY <1>1 DEF FactorInv, UsedUp, CountedWrong, Known
<1> QED  BY <1>2, <1>10, <1>11, <1>12 DEF FactorInv

\* A right code has not been used.
LEMMA RightIsNew ==
  ASSUME FactorInv, NEW r \in Callers, request[r] # Fac!Idle, Fac!Right(r)
  PROVE  /\ request[r].code \in Fac!Code /\ request[r].code \notin used
         /\ \/ /\ request[r].code.kind = "totp" /\ request[r].code.secret = factor.secret
               /\ request[r].code.step + 1 > factor.last
            \/ request[r].op = "verify" /\ request[r].code.kind = "recovery"
<1>1. /\ request[r].row = factor /\ factor # NoFactor /\ factor \in Fac!Factor
      /\ request[r].code \in Fac!Code \union {Fac!Wrong}
  BY AskingParts
<1>2. \/ /\ request[r].code.kind = "totp" /\ request[r].code.secret = factor.secret
         /\ request[r].code.step + 1 > factor.last
      \/ request[r].op = "verify" /\ request[r].code.kind = "recovery" /\ request[r].code.set \in factor.recovery
  BY <1>1 DEF Fac!Right, Fac!Fresh, Fac!Recovers
<1>3. request[r].code \in Fac!Code
  BY <1>1, <1>2, CodeParts
<1>4. request[r].code \notin used
  <2>1. CASE request[r].code.kind = "totp" /\ request[r].code.secret = factor.secret
             /\ request[r].code.step + 1 > factor.last
    <3>1. request[r].code.step \in Nat /\ factor.last \in Nat
      BY <1>1, <2>1, CodeParts, FactorParts, FactorBounds
    <3>2. ~(request[r].code.step + 1 <= factor.last)
      BY <2>1, <3>1
    <3> QED  BY <1>1, <2>1, <3>2 DEF FactorInv, UsedUp
  <2>2. CASE request[r].code.kind = "recovery" /\ request[r].code.set \in factor.recovery
    BY <1>1, <2>2 DEF FactorInv, UsedUp
  <2> QED  BY <1>2, <2>1, <2>2
<1> QED  BY <1>2, <1>3, <1>4

\* It is written as used, and clears the count.
LEMMA FactorAccepts == ASSUME FactorInv, NEW r \in Callers, Fac!Accept(r) PROVE FactorInv'
<1>1. request[r] # Fac!Idle /\ Fac!Right(r)
  BY DEF Fac!Accept
<1>2. PICK asks \in Asking : asks = request[r]
  BY <1>1, AskingParts
<1>3. /\ asks.op \in Fac!Checks /\ asks.code \in Fac!Code \union {Fac!Wrong}
      /\ asks.row = factor /\ factor \in Fac!Factor /\ factor # NoFactor /\ Known(asks.code)
  BY <1>1, <1>2, AskingParts
<1>4. /\ asks.code \in Fac!Code /\ asks.code \notin used
      /\ \/ asks.code.kind = "totp" /\ asks.code.secret = factor.secret /\ asks.code.step + 1 > factor.last
         \/ asks.op = "verify" /\ asks.code.kind = "recovery"
  BY <1>1, <1>2, RightIsNew
<1>5. PICK cleared : cleared = [factor EXCEPT !.failures = 0, !.locked = 0]
  OBVIOUS
<1>6. /\ cleared \in Fac!Factor /\ cleared.failures = 0 /\ cleared.secret = factor.secret
      /\ cleared.last = factor.last /\ cleared.recovery = factor.recovery
  <2>1. 0 \in 0..(MaxFailures - 1) /\ 0 \in 0..(MaxClock + LockFor)
    BY FactorBounds
  <2>2. cleared \in Fac!Factor
    BY <1>3, <1>5, <2>1 DEF Fac!Factor
  <2> QED  BY <1>3, <1>5, <2>2 DEF Fac!Factor
<1>7. /\ wrong' = 0 /\ clock' = clock /\ used' = used \union {asks.code}
      /\ twice' = (twice \/ asks.code \in used)
  BY <1>2 DEF Fac!Accept
<1>8. ~twice'
  BY <1>4, <1>7 DEF FactorInv
<1>9. secrets \in Nat /\ secrets <= MaxSecrets
  BY FactorBounds DEF FactorInv, FactorTypes
<1>10. PICK row :
         /\ Fac!Write(r, row)
         /\ \/ /\ asks.op = "verify" /\ asks.code.kind = "recovery" /\ secrets' = secrets
               /\ row = [cleared EXCEPT !.recovery = factor.recovery \ {asks.code.set}]
            \/ /\ asks.op = "verify" /\ asks.code.kind # "recovery" /\ secrets' = secrets
               /\ row = [cleared EXCEPT !.last = asks.code.step + 1]
            \/ /\ asks.op # "verify" /\ secrets < MaxSecrets /\ secrets' = secrets + 1
               /\ row = [cleared EXCEPT !.last = asks.code.step + 1, !.confirmed = TRUE, !.recovery = {secrets + 1}]
  BY <1>2, <1>3, <1>5 DEF Fac!Accept
<1>11. /\ row \in Fac!Factor /\ row.failures = 0 /\ row.secret = factor.secret
       /\ \/ /\ asks.code.kind = "recovery" /\ secrets' = secrets
             /\ row.last = factor.last /\ row.recovery = factor.recovery \ {asks.code.set}
          \/ /\ asks.code.kind = "totp" /\ asks.code.secret = factor.secret /\ asks.code.step + 1 > factor.last
             /\ row.last = asks.code.step + 1
             /\ \/ secrets' = secrets /\ row.recovery = factor.recovery
                \/ secrets' = secrets + 1 /\ secrets < MaxSecrets /\ row.recovery = {secrets + 1}
  <2>1. factor.recovery \subseteq 1..MaxSecrets
    BY <1>3, FactorParts
  <2>2. CASE asks.code.kind = "recovery"
    <3>1. secrets' = secrets /\ row = [cleared EXCEPT !.recovery = factor.recovery \ {asks.code.set}]
      BY <1>4, <1>10, <2>2
    <3> QED  BY <1>6, <2>1, <2>2, <3>1 DEF Fac!Factor
  <2>3. CASE asks.code.kind # "recovery"
    <3>1. asks.code.kind = "totp" /\ asks.code.secret = factor.secret /\ asks.code.step + 1 > factor.last
      BY <1>4, <2>3
    <3>2. asks.code.step + 1 \in 0..(MaxClock + Window + 1)
      BY <1>3, <3>1, CodeParts, FactorBounds
    <3>3. CASE secrets' = secrets /\ row = [cleared EXCEPT !.last = asks.code.step + 1]
      BY <1>6, <3>1, <3>2, <3>3 DEF Fac!Factor
    <3>4. CASE /\ secrets < MaxSecrets /\ secrets' = secrets + 1
               /\ row = [cleared EXCEPT !.last = asks.code.step + 1, !.confirmed = TRUE, !.recovery = {secrets + 1}]
      <4>1. {secrets + 1} \in SUBSET (1..MaxSecrets)
        BY <1>9, <3>4, FactorBounds
      <4>2. row \in Fac!Factor
        BY <1>6, <3>2, <3>4, <4>1 DEF Fac!Factor
      <4>3. row.failures = 0 /\ row.secret = factor.secret /\ row.last = asks.code.step + 1 /\ row.recovery = {secrets + 1}
        BY <1>6, <3>4 DEF Fac!Factor
      <4> QED  BY <3>1, <3>4, <4>2, <4>3
    <3> QED  BY <1>10, <2>3, <3>3, <3>4
  <2> QED  BY <2>2, <2>3
<1>12. /\ factor' = row /\ holder' = holder \ {r} /\ request' = [request EXCEPT ![r] = Fac!Idle]
  BY <1>3, <1>10 DEF Fac!Write
<1>13. /\ request' \in [Callers -> Asking \union {Fac!Idle}]
       /\ \A q \in Callers : request'[q] = Fac!Idle
       /\ holder' = {q \in Callers : request'[q] # Fac!Idle}
  BY <1>1, <1>12, LetGo
<1>14. secrets' \in 0..MaxSecrets /\ secrets' >= secrets
  <2>1. secrets' = secrets \/ (secrets' = secrets + 1 /\ secrets < MaxSecrets)
    BY <1>11
  <2> QED  BY <1>9, <2>1, FactorBounds
<1>15. FactorTypes'
  BY <1>4, <1>7, <1>11, <1>12, <1>13, <1>14 DEF FactorInv, FactorTypes
<1>16. RowLocked'
  BY <1>13 DEF RowLocked
<1>17. used \subseteq Fac!Code /\ \A code \in used : Known(code)
  BY DEF FactorInv, FactorTypes, UsedUp
<1>18. \A code \in used' : code \in Fac!Code /\ Known(code)
  BY <1>3, <1>4, <1>7, <1>17
<1>19. UsedUp'
  <2>1. \A code \in used' : Known(code)'
    <3> SUFFICES ASSUME NEW code \in used' PROVE Known(code)'
      OBVIOUS
    <3>1. /\ code.kind = "totp" => code.secret \in Nat
          /\ code.kind = "recovery" => code.set \in Nat
      BY <1>18, CodeParts
    <3> QED  BY <1>9, <1>14, <1>18, <3>1 DEF Known
  <2>2. factor.secret <= secrets /\ factor.secret \in Nat /\ factor.recovery \subseteq Nat /\ \A set \in factor.recovery : set <= secrets
    BY <1>3, FactorParts DEF FactorInv, UsedUp
  <2>3. row.secret <= secrets' /\ \A set \in row.recovery : set <= secrets'
    BY <1>9, <1>11, <1>14, <2>2
  <2>4. \A code \in used : code.kind = "totp" /\ code.secret = factor.secret => code.step + 1 <= factor.last
    BY <1>3 DEF FactorInv, UsedUp
  <2>5. \A code \in used : code.kind = "recovery" => code.set \notin factor.recovery
    BY <1>3 DEF FactorInv, UsedUp
  <2>6. ASSUME NEW code \in used', code.kind = "totp", code.secret = row.secret PROVE code.step + 1 <= row.last
    <3>1. code.step \in Nat /\ factor.last \in Nat /\ row.last \in Nat
      BY <1>3, <1>11, <1>18, <2>6, CodeParts, FactorParts, FactorBounds
    <3>2. factor.last <= row.last
      BY <1>11, <3>1
    <3>3. CASE code \in used
      BY <1>11, <2>4, <2>6, <3>1, <3>2, <3>3
    <3>4. CASE code = asks.code
      BY <1>11, <2>6, <3>1, <3>4
    <3> QED  BY <1>7, <3>3, <3>4
  <2>7. ASSUME NEW code \in used', code.kind = "recovery" PROVE code.set \notin row.recovery
    <3>1. code.set \in Nat /\ code.set <= secrets
      BY <1>18, <2>7, CodeParts DEF Known
    <3>2. CASE code \in used
      BY <1>9, <1>11, <2>5, <2>7, <3>1, <3>2
    <3>3. CASE code = asks.code
      BY <1>11, <2>7, <3>3
    <3> QED  BY <1>7, <3>2, <3>3
  <2> QED  BY <1>12, <2>1, <2>3, <2>6, <2>7 DEF UsedUp
<1>20. CountedWrong'
  BY <1>7, <1>11, <1>12 DEF CountedWrong
<1> QED  BY <1>8, <1>15, <1>16, <1>19, <1>20 DEF FactorInv

\* A row that is written with the same codes keeps what it tells of them.
LEMMA SameCodes ==
  ASSUME FactorInv, NEW row \in Fac!Factor, factor' = row, factor # NoFactor,
         row.secret = factor.secret, row.last = factor.last, row.recovery = factor.recovery,
         used' = used, secrets' = secrets
  PROVE  UsedUp'
BY DEF FactorInv, UsedUp, Known

\* A wrong one is counted, and the last of a run locks.
LEMMA FactorRefuses == ASSUME FactorInv, NEW r \in Callers, Fac!Refuse(r) PROVE FactorInv'
<1>1. request[r] # Fac!Idle /\ UNCHANGED <<clock, secrets, used>>
  BY DEF Fac!Refuse
<1>2. twice' = twice
  BY DEF Fac!Refuse
<1>3. request[r].row = factor /\ factor \in Fac!Factor /\ factor # NoFactor /\ request[r].now \in 0..MaxClock
  BY <1>1, AskingParts
<1>4. factor.failures \in 0..(MaxFailures - 1) /\ wrong = factor.failures
  BY <1>3, FactorParts DEF FactorInv, CountedWrong
<1>5. PICK row :
        /\ Fac!Write(r, row)
        /\ \/ /\ row = [factor EXCEPT !.failures = 0, !.locked = request[r].now + LockFor]
              /\ wrong' = 0
           \/ /\ row = [factor EXCEPT !.failures = factor.failures + 1, !.locked = 0]
              /\ factor.failures + 1 < MaxFailures /\ wrong' = wrong + 1
  <2>1. CASE factor.failures + 1 >= MaxFailures
    BY <1>3, <2>1 DEF Fac!Refuse
  <2>2. CASE ~(factor.failures + 1 >= MaxFailures)
    <3>1. factor.failures + 1 < MaxFailures
      BY <1>4, <2>2, FactorBounds
    <3> QED  BY <1>3, <2>2, <3>1 DEF Fac!Refuse
  <2> QED  BY <2>1, <2>2
<1>6. /\ row \in Fac!Factor /\ row.failures = wrong'
      /\ row.secret = factor.secret /\ row.last = factor.last /\ row.recovery = factor.recovery
  <2>1. CASE row = [factor EXCEPT !.failures = 0, !.locked = request[r].now + LockFor] /\ wrong' = 0
    <3>1. 0 \in 0..(MaxFailures - 1) /\ request[r].now + LockFor \in 0..(MaxClock + LockFor)
      BY <1>3, FactorBounds
    <3>2. row \in Fac!Factor
      BY <1>3, <2>1, <3>1 DEF Fac!Factor
    <3> QED  BY <1>3, <2>1, <3>2 DEF Fac!Factor
  <2>2. CASE /\ row = [factor EXCEPT !.failures = factor.failures + 1, !.locked = 0]
             /\ factor.failures + 1 < MaxFailures /\ wrong' = wrong + 1
    <3>1. factor.failures + 1 \in 0..(MaxFailures - 1) /\ 0 \in 0..(MaxClock + LockFor)
      BY <1>4, <2>2, FactorBounds
    <3>2. row \in Fac!Factor
      BY <1>3, <2>2, <3>1 DEF Fac!Factor
    <3> QED  BY <1>3, <1>4, <2>2, <3>2 DEF Fac!Factor
  <2> QED  BY <1>5, <2>1, <2>2
<1>7. /\ factor' = row /\ holder' = holder \ {r} /\ request' = [request EXCEPT ![r] = Fac!Idle]
  BY <1>3, <1>5 DEF Fac!Write
<1>8. /\ request' \in [Callers -> Asking \union {Fac!Idle}]
      /\ \A q \in Callers : request'[q] = Fac!Idle
      /\ holder' = {q \in Callers : request'[q] # Fac!Idle}
  BY <1>1, <1>7, LetGo
<1>9. wrong' \in Nat
  BY <1>4, <1>5
<1>10. FactorTypes'
  BY <1>1, <1>6, <1>7, <1>8, <1>9 DEF FactorInv, FactorTypes
<1>11. RowLocked'
  BY <1>8 DEF RowLocked
<1>12. UsedUp'
  BY <1>1, <1>3, <1>6, <1>7, SameCodes
<1>13. CountedWrong'
  BY <1>6, <1>7, FactorBounds DEF CountedWrong
<1> QED  BY <1>2, <1>10, <1>11, <1>12, <1>13 DEF FactorInv

\* A request dies, and the row goes as it was.
LEMMA FactorStops == ASSUME FactorInv, NEW r \in Callers, Fac!Stop(r) PROVE FactorInv'
<1>1. request[r] # Fac!Idle /\ Fac!Write(r, factor) /\ UNCHANGED <<clock, secrets, used, wrong>>
  BY DEF Fac!Stop
<1>2. twice' = twice
  BY DEF Fac!Stop
<1>3. factor' = factor /\ holder' = holder \ {r} /\ request' = [request EXCEPT ![r] = Fac!Idle]
  BY <1>1 DEF Fac!Write
<1>4. /\ request' \in [Callers -> Asking \union {Fac!Idle}]
      /\ \A q \in Callers : request'[q] = Fac!Idle
      /\ holder' = {q \in Callers : request'[q] # Fac!Idle}
  BY <1>1, <1>3, LetGo
<1>5. FactorTypes'
  BY <1>1, <1>3, <1>4 DEF FactorInv, FactorTypes
<1>6. RowLocked'
  BY <1>4 DEF RowLocked
<1>7. UsedUp' /\ CountedWrong'
  BY <1>1, <1>3 DEF FactorInv, UsedUp, CountedWrong, Known
<1> QED  BY <1>2, <1>5, <1>6, <1>7 DEF FactorInv

\* The factor is taken away while nobody holds it.
LEMMA FactorGoes == ASSUME FactorInv, Fac!Remove PROVE FactorInv'
<1>1. holder = {} /\ factor' = NoFactor /\ wrong' = 0 /\ UNCHANGED <<holder, request, clock, secrets, used>>
  BY DEF Fac!Remove, Fac!CanLock
<1>2. twice' = twice
  BY DEF Fac!Remove
<1>3. \A q \in Callers : request[q] = Fac!Idle
  BY <1>1 DEF FactorInv, FactorTypes
<1>4. FactorTypes'
  BY <1>1 DEF FactorInv, FactorTypes
<1>5. RowLocked' /\ UsedUp' /\ CountedWrong'
  BY <1>1, <1>3 DEF FactorInv, RowLocked, UsedUp, CountedWrong, Known
<1> QED  BY <1>2, <1>4, <1>5 DEF FactorInv

\* Every step keeps it.
LEMMA FactorStep == FactorInv /\ [Fac!Next]_Fac!factorVars => FactorInv'
<1>1. FactorInv /\ UNCHANGED Fac!factorVars => FactorInv'
  <2> SUFFICES ASSUME FactorInv, UNCHANGED Fac!factorVars PROVE FactorInv'
    OBVIOUS
  <2>1. UNCHANGED <<factor, holder, request, clock, secrets, used, wrong>>
    BY DEF Fac!factorVars
  <2>2. twice' = twice
    BY DEF Fac!factorVars
  <2>3. FactorTypes' /\ RowLocked' /\ UsedUp' /\ CountedWrong'
    BY <2>1 DEF FactorInv, FactorTypes, RowLocked, UsedUp, CountedWrong, Known
  <2> QED  BY <2>2, <2>3 DEF FactorInv
<1>2. FactorInv /\ Fac!Tick => FactorInv'
  <2> SUFFICES ASSUME FactorInv, Fac!Tick PROVE FactorInv'
    OBVIOUS
  <2>1. clock < MaxClock /\ clock' = clock + 1 /\ UNCHANGED <<factor, holder, request, secrets, used, wrong>>
    BY DEF Fac!Tick
  <2>2. twice' = twice
    BY DEF Fac!Tick
  <2>3. FactorTypes'
    BY <2>1, FactorBounds DEF FactorInv, FactorTypes
  <2>4. RowLocked' /\ UsedUp' /\ CountedWrong'
    BY <2>1 DEF FactorInv, RowLocked, UsedUp, CountedWrong, Known
  <2> QED  BY <2>2, <2>3, <2>4 DEF FactorInv
<1> QED
  BY <1>1, <1>2, FactorEnrols, FactorLocks, FactorAccepts, FactorRefuses, FactorStops, FactorGoes DEF Fac!Next

\* A code proves the phone once, and no run of wrong ones is longer than the lock
\* allows (second-factor.service.ts).
THEOREM CodesOnceAndCountedAlways == Fac!Spec => []Fac!CodesOnceAndCounted
<1>1. FactorInv => Fac!CodesOnceAndCounted
  <2> SUFFICES ASSUME FactorInv PROVE Fac!CodesOnceAndCounted
    OBVIOUS
  <2>1. wrong < MaxFailures
    <3>1. CASE factor = NoFactor
      BY <3>1, FactorBounds DEF FactorInv, CountedWrong
    <3>2. CASE factor # NoFactor
      <4>1. factor \in Fac!Factor /\ wrong = factor.failures
        BY <3>2 DEF FactorInv, FactorTypes, CountedWrong
      <4> QED  BY <4>1, FactorParts, FactorBounds
    <3> QED  BY <3>1, <3>2
  <2>2. ~twice
    BY DEF FactorInv
  <2> QED  BY <2>1, <2>2 DEF Fac!CodesOnceAndCounted
<1> QED  BY <1>1, FactorBegins, FactorStep, PTL DEF Fac!Spec

----------------------------------------------------------------------------
(* Accounts *)

Columns == {"password", "weak", "failures", "locked", "status"}

\* Where a verifyPassword() may be, and the row it has.
LoginAt == {Acc!Idle} \union [step : {"hashing"}, given : Acc!Passwords \union {Acc!Guess}, row : Acc!Account]
             \union [step : {"saving"}, row : Acc!Account]
             \union [step : {"writing"}, row : Acc!Account, columns : SUBSET Columns]

AccountTypes ==
  /\ account \in Acc!Account \union {NoAccount}
  /\ login \in [Callers -> LoginAt]
  /\ accountClock \in 0..MaxClock /\ mistaken \in Nat
  /\ meant \in [password : Acc!Passwords, status : Acc!Statuses]
  /\ account = NoAccount => meant.password = 1 /\ meant.status = "active"

\* Whoever read the row has in it what was last set.
AsMeant ==
  /\ account # NoAccount => account.password = meant.password /\ account.status = meant.status
  /\ \A l \in Callers : login[l].step # "idle" =>
       login[l].row.password = meant.password /\ login[l].row.status = meant.status

\* The row counts the wrong passwords; who is about to save it has counted one
\* more, or none.
CountedAll ==
  /\ mistaken = (IF account = NoAccount THEN 0 ELSE account.failures) /\ mistaken < MaxFailures
  /\ \A l \in Callers :
       /\ login[l].step = "hashing" => login[l].row = account
       /\ login[l].step \in {"saving", "writing"} =>
            /\ login[l].row.failures < MaxFailures
            /\ login[l].row.failures = 0 \/ login[l].row.failures = account.failures + 1
       /\ login[l].step = "writing" =>
            ("failures" \in login[l].columns <=> login[l].row.failures # account.failures)

AccountInv ==
  /\ AccountTypes
  /\ \A l \in Callers : login[l].step # "idle" => account # NoAccount
  /\ ~crossed => AsMeant
  /\ ~crossed /\ ~met => CountedAll

\* What the constants are.
LEMMA AccountBounds ==
  /\ LockFor \in Nat /\ MaxClock \in Nat /\ MaxFailures \in Nat /\ MaxFailures >= 1
  /\ MaxPasswords \in Nat /\ MaxPasswords >= 1
  /\ NoAccount \notin Acc!Account
BY AmountsAssumption, RowsAssumption

\* What is in a row.
LEMMA AccountParts ==
  ASSUME NEW row \in Acc!Account
  PROVE  /\ row.password \in Acc!Passwords /\ row.failures \in 0..MaxFailures
         /\ row.locked \in 0..(MaxClock + LockFor) /\ row.status \in Acc!Statuses
         /\ row.weak \in BOOLEAN /\ DOMAIN row = Columns /\ row # NoAccount
<1>1. /\ row.password \in Acc!Passwords /\ row.failures \in 0..MaxFailures
      /\ row.locked \in 0..(MaxClock + LockFor) /\ row.status \in Acc!Statuses
  BY DEF Acc!Account
<1>2. row.weak \in BOOLEAN
  BY DEF Acc!Account
<1>3. DOMAIN row = Columns
  BY DEF Acc!Account, Columns
<1> QED  BY <1>1, <1>2, <1>3, AccountBounds

\* What a login has.
LEMMA LoginParts ==
  ASSUME AccountTypes, NEW l \in Callers
  PROVE  /\ login[l] \in LoginAt
         /\ login[l].step \in {"idle", "hashing", "saving", "writing"}
         /\ login[l].step # "idle" => login[l].row \in Acc!Account
         /\ login[l].step = "hashing" => login[l].given \in Acc!Passwords \union {Acc!Guess}
         /\ login[l].step = "writing" => login[l].columns \in SUBSET Columns
<1>1. login[l] \in LoginAt
  BY DEF AccountTypes
<1> QED  BY <1>1 DEF LoginAt, Acc!Idle

\* A login moves on, and the others do not.
LEMMA LoginMoves ==
  ASSUME AccountTypes, NEW l \in Callers, NEW to \in LoginAt, Acc!Goes(l, to)
  PROVE  /\ login' \in [Callers -> LoginAt] /\ login'[l] = to
         /\ \A m \in Callers \ {l} : login'[m] = login[m]
BY DEF Acc!Goes, AccountTypes

\* There is no account at first.
LEMMA AccountBegins == Acc!Init => AccountInv
<1> SUFFICES ASSUME Acc!Init PROVE AccountInv
  OBVIOUS
<1>1. /\ account = NoAccount /\ login = [l \in Callers |-> [step |-> "idle"]]
      /\ accountClock = 0 /\ mistaken = 0 /\ crossed = FALSE /\ met = FALSE
      /\ meant = [password |-> 1, status |-> "active"]
  BY DEF Acc!Init, Acc!Idle
<1>2. [step |-> "idle"] \in LoginAt
  BY DEF LoginAt, Acc!Idle
<1>3. meant \in [password : Acc!Passwords, status : Acc!Statuses]
  BY <1>1, AccountBounds DEF Acc!Passwords, Acc!Statuses
<1>4. AccountTypes
  BY <1>1, <1>2, <1>3, AccountBounds DEF AccountTypes
<1>5. \A l \in Callers : login[l].step = "idle"
  BY <1>1
<1>6. AsMeant
  BY <1>1, <1>5 DEF AsMeant
<1>7. CountedAll
  BY <1>1, <1>5, AccountBounds DEF CountedAll
<1> QED  BY <1>4, <1>5, <1>6, <1>7 DEF AccountInv

\* create() makes it, and nobody has read it before.
LEMMA AccountCreates == ASSUME AccountInv, Acc!Create PROVE AccountInv'
<1>1. account = NoAccount /\ UNCHANGED <<login, accountClock, meant, mistaken>>
  BY DEF Acc!Create
<1>2. crossed' = crossed /\ met' = met
  BY DEF Acc!Create
<1>3. PICK weak \in BOOLEAN :
        account' = [password |-> 1, weak |-> weak, failures |-> 0, locked |-> 0, status |-> "active"]
  BY DEF Acc!Create
<1>4. account' \in Acc!Account
  BY <1>3, AccountBounds DEF Acc!Account, Acc!Passwords, Acc!Statuses
<1>5. account'.password = 1 /\ account'.status = "active" /\ account'.failures = 0 /\ account' # NoAccount
  BY <1>3, <1>4, AccountBounds
<1>6. \A l \in Callers : login[l].step = "idle"
  BY <1>1 DEF AccountInv
<1>7. AccountTypes'
  BY <1>1, <1>2, <1>4, <1>5 DEF AccountInv, AccountTypes
<1>8. AsMeant'
  BY <1>1, <1>5, <1>6 DEF AsMeant, AccountInv, AccountTypes
<1>9. ~crossed /\ ~met => CountedAll'
  BY <1>1, <1>5, <1>6, AccountBounds DEF CountedAll, AccountInv
<1> QED  BY <1>1, <1>2, <1>6, <1>7, <1>8, <1>9 DEF AccountInv

\* Time passes.
LEMMA AccountTicks == ASSUME AccountInv, Acc!Tick PROVE AccountInv'
<1>1. accountClock < MaxClock /\ accountClock' = accountClock + 1 /\ UNCHANGED <<account, login, meant, mistaken>>
  BY DEF Acc!Tick
<1>2. crossed' = crossed /\ met' = met
  BY DEF Acc!Tick
<1>3. AccountTypes'
  BY <1>1, AccountBounds DEF AccountInv, AccountTypes
<1>4. (AsMeant => AsMeant') /\ (CountedAll => CountedAll')
  BY <1>1 DEF AsMeant, CountedAll
<1> QED  BY <1>1, <1>2, <1>3, <1>4 DEF AccountInv

\* A login that comes or goes, and writes nothing.
LEMMA LoginTurns ==
  ASSUME AccountInv, NEW l \in Callers, NEW to \in LoginAt, Acc!Goes(l, to),
         UNCHANGED <<account, accountClock, meant, mistaken>>, crossed' = crossed, met' = met,
         to.step # "idle" => account # NoAccount,
         ~crossed /\ to.step # "idle" => to.row.password = meant.password /\ to.row.status = meant.status,
         ~crossed /\ ~met =>
           /\ to.step = "hashing" => to.row = account
           /\ to.step \in {"saving", "writing"} =>
                /\ to.row.failures < MaxFailures
                /\ to.row.failures = 0 \/ to.row.failures = account.failures + 1
           /\ to.step = "writing" => ("failures" \in to.columns <=> to.row.failures # account.failures)
  PROVE  AccountInv'
<1>1. /\ login' \in [Callers -> LoginAt] /\ login'[l] = to
      /\ \A m \in Callers \ {l} : login'[m] = login[m]
  BY LoginMoves DEF AccountInv
<1>2. AccountTypes'
  BY <1>1 DEF AccountInv, AccountTypes
<1>3. \A m \in Callers : login'[m].step # "idle" => account # NoAccount
  BY <1>1 DEF AccountInv
<1>4. ASSUME ~crossed PROVE AsMeant'
  BY <1>1, <1>4 DEF AccountInv, AsMeant
<1>5. ASSUME ~crossed, ~met PROVE CountedAll'
  <2>1. CountedAll
    BY <1>5 DEF AccountInv
  <2>2. /\ to.step = "hashing" => to.row = account
        /\ to.step \in {"saving", "writing"} =>
             /\ to.row.failures < MaxFailures
             /\ to.row.failures = 0 \/ to.row.failures = account.failures + 1
        /\ to.step = "writing" => ("failures" \in to.columns <=> to.row.failures # account.failures)
    BY <1>5
  <2> QED  BY <1>1, <2>1, <2>2 DEF CountedAll
<1> QED  BY <1>2, <1>3, <1>4, <1>5 DEF AccountInv

\* verifyPassword() reads the row.
LEMMA LoginBegins ==
  ASSUME AccountInv, NEW l \in Callers, NEW word \in Acc!Passwords \union {Acc!Guess}, Acc!Begin(l, word)
  PROVE  AccountInv'
<1>1. /\ account # NoAccount /\ UNCHANGED <<account, accountClock, meant, mistaken>>
      /\ Acc!Goes(l, [step |-> "hashing", given |-> word, row |-> account])
  BY DEF Acc!Begin
<1>2. crossed' = crossed /\ met' = met
  BY DEF Acc!Begin
<1>3. PICK to \in LoginAt : to = [step |-> "hashing", given |-> word, row |-> account]
  <2>1. account \in Acc!Account
    BY <1>1 DEF AccountInv, AccountTypes
  <2> QED  BY <2>1 DEF LoginAt
<1>4. to.step = "hashing" /\ to.row = account
  BY <1>3
<1>5. Acc!Goes(l, to)
  BY <1>1, <1>3
<1>6. ~crossed => to.row.password = meant.password /\ to.row.status = meant.status
  BY <1>1, <1>4 DEF AccountInv, AsMeant
<1> QED  BY <1>1, <1>2, <1>4, <1>5, <1>6, LoginTurns

\* A wrong password: the copy counts one more, or locks.
LEMMA LoginRefused == ASSUME AccountInv, NEW l \in Callers, Acc!Refuse(l) PROVE AccountInv'
<1>1. /\ login[l].step = "hashing" /\ UNCHANGED <<account, accountClock, meant, mistaken>>
      /\ Acc!Goes(l, [step |-> "saving", row |-> Acc!Failed(login[l].row)])
  BY DEF Acc!Refuse, Acc!At
<1>2. crossed' = crossed /\ met' = met
  BY DEF Acc!Refuse
<1>3. PICK row \in Acc!Account : row = login[l].row
  BY <1>1, LoginParts DEF AccountInv
<1>4. PICK new \in Acc!Account : /\ new = Acc!Failed(row) /\ new.password = row.password /\ new.status = row.status
                                 /\ new.failures < MaxFailures
                                 /\ new.failures = 0 \/ new.failures = row.failures + 1
  <2>1. CASE row.failures + 1 >= MaxFailures
    <3>1. Acc!Failed(row) = [row EXCEPT !.locked = accountClock + LockFor, !.failures = 0]
      BY <2>1 DEF Acc!Failed
    <3>2. accountClock + LockFor \in 0..(MaxClock + LockFor) /\ 0 \in 0..MaxFailures /\ 0 < MaxFailures
      BY AccountBounds DEF AccountInv, AccountTypes
    <3>3. Acc!Failed(row) \in Acc!Account
      BY <1>3, <3>1, <3>2 DEF Acc!Account
    <3>4. Acc!Failed(row).failures = 0 /\ Acc!Failed(row).password = row.password /\ Acc!Failed(row).status = row.status
      BY <1>3, <3>1 DEF Acc!Account
    <3> QED  BY <3>2, <3>3, <3>4
  <2>2. CASE ~(row.failures + 1 >= MaxFailures)
    <3>1. Acc!Failed(row) = [row EXCEPT !.failures = row.failures + 1]
      BY <2>2 DEF Acc!Failed
    <3>2. row.failures + 1 \in 0..MaxFailures /\ row.failures + 1 < MaxFailures
      BY <1>3, <2>2, AccountParts, AccountBounds
    <3>3. Acc!Failed(row) \in Acc!Account
      BY <1>3, <3>1, <3>2 DEF Acc!Account
    <3>4. Acc!Failed(row).failures = row.failures + 1 /\ Acc!Failed(row).password = row.password /\ Acc!Failed(row).status = row.status
      BY <1>3, <3>1 DEF Acc!Account
    <3> QED  BY <3>2, <3>3, <3>4
  <2> QED  BY <2>1, <2>2
<1>5. PICK to \in LoginAt : to = [step |-> "saving", row |-> new]
  BY DEF LoginAt
<1>6. to.step = "saving" /\ to.row = new
  BY <1>5
<1>7. Acc!Goes(l, to)
  BY <1>1, <1>3, <1>4, <1>5
<1>8. account # NoAccount
  BY <1>1 DEF AccountInv
<1>9. ~crossed => to.row.password = meant.password /\ to.row.status = meant.status
  BY <1>1, <1>3, <1>4, <1>6 DEF AccountInv, AsMeant
<1>10. ~crossed /\ ~met => row = account
  BY <1>1, <1>3 DEF AccountInv, CountedAll
<1>11. ~crossed /\ ~met => /\ to.row.failures < MaxFailures
                           /\ to.row.failures = 0 \/ to.row.failures = account.failures + 1
  BY <1>4, <1>6, <1>10
<1> QED  BY <1>1, <1>2, <1>6, <1>7, <1>8, <1>9, <1>11, LoginTurns

\* Nobody goes anywhere from being idle.
LEMMA LoginIdles ==
  ASSUME AccountInv, NEW l \in Callers, Acc!Goes(l, Acc!Idle),
         UNCHANGED <<account, accountClock, meant, mistaken>>, crossed' = crossed, met' = met
  PROVE  AccountInv'
<1>1. PICK to \in LoginAt : to = Acc!Idle
  BY DEF LoginAt
<1>2. to.step = "idle"
  BY <1>1 DEF Acc!Idle
<1>3. Acc!Goes(l, to)
  BY <1>1
<1> QED  BY <1>2, <1>3, LoginTurns

\* A right one: the copy has nothing counted.
LEMMA LoginWelcomed == ASSUME AccountInv, NEW l \in Callers, Acc!Welcome(l) PROVE AccountInv'
<1>1. /\ login[l].step = "hashing" /\ UNCHANGED <<account, accountClock, meant, mistaken>>
      /\ \/ Acc!Goes(l, Acc!Idle)
         \/ Acc!Goes(l, [step |-> "saving", row |-> Acc!Welcomed(login[l].row)])
  BY DEF Acc!Welcome, Acc!At
<1>2. crossed' = crossed /\ met' = met
  BY DEF Acc!Welcome
<1>3. CASE Acc!Goes(l, Acc!Idle)
  BY <1>1, <1>2, <1>3, LoginIdles
<1>4. CASE Acc!Goes(l, [step |-> "saving", row |-> Acc!Welcomed(login[l].row)])
  <2>1. PICK row \in Acc!Account : row = login[l].row
    BY <1>1, LoginParts DEF AccountInv
  <2>2. PICK again \in Acc!Account : again = Acc!Rehashed(row) /\ again.password = row.password /\ again.status = row.status
    <3>1. [row EXCEPT !.weak = FALSE] \in Acc!Account
      BY <2>1 DEF Acc!Account
    <3>2. [row EXCEPT !.weak = FALSE].password = row.password /\ [row EXCEPT !.weak = FALSE].status = row.status
      BY <2>1 DEF Acc!Account
    <3> QED  BY <2>1, <3>1, <3>2 DEF Acc!Rehashed
  <2>3. PICK new \in Acc!Account : new = Acc!Welcomed(row) /\ new.password = row.password /\ new.status = row.status /\ new.failures = 0
    <3>1. 0 \in 0..MaxFailures /\ 0 \in 0..(MaxClock + LockFor)
      BY AccountBounds
    <3>2. [again EXCEPT !.failures = 0, !.locked = 0] \in Acc!Account
      BY <2>2, <3>1 DEF Acc!Account
    <3>3. /\ [again EXCEPT !.failures = 0, !.locked = 0].password = again.password
          /\ [again EXCEPT !.failures = 0, !.locked = 0].status = again.status
          /\ [again EXCEPT !.failures = 0, !.locked = 0].failures = 0
      BY <2>2 DEF Acc!Account
    <3> QED  BY <2>2, <3>2, <3>3 DEF Acc!Welcomed
  <2>4. PICK to \in LoginAt : to = [step |-> "saving", row |-> new]
    BY DEF LoginAt
  <2>5. to.step = "saving" /\ to.row = new
    BY <2>4
  <2>6. Acc!Goes(l, to)
    BY <1>4, <2>1, <2>3, <2>4
  <2>7. account # NoAccount
    BY <1>1 DEF AccountInv
  <2>8. ~crossed => to.row.password = meant.password /\ to.row.status = meant.status
    BY <1>1, <2>1, <2>3, <2>5 DEF AccountInv, AsMeant
  <2>9. to.row.failures = 0 /\ 0 < MaxFailures
    BY <2>3, <2>5, AccountBounds
  <2> QED  BY <1>1, <1>2, <2>5, <2>6, <2>7, <2>8, <2>9, LoginTurns
<1> QED  BY <1>1, <1>3, <1>4

\* save() finds out what the copy changes.
LEMMA LoginCompares == ASSUME AccountInv, NEW l \in Callers, Acc!Compare(l) PROVE AccountInv'
<1>1. /\ login[l].step = "saving" /\ UNCHANGED <<account, accountClock, meant, mistaken>>
      /\ Acc!Goes(l, [step |-> "writing", row |-> login[l].row,
                      columns |-> {c \in DOMAIN account : login[l].row[c] # account[c]}])
  BY DEF Acc!Compare, Acc!At
<1>2. crossed' = crossed /\ met' = met
  BY DEF Acc!Compare
<1>3. PICK row \in Acc!Account : row = login[l].row
  BY <1>1, LoginParts DEF AccountInv
<1>4. account # NoAccount /\ account \in Acc!Account
  BY <1>1 DEF AccountInv, AccountTypes
<1>5. PICK columns \in SUBSET Columns : /\ columns = {c \in DOMAIN account : row[c] # account[c]}
                                        /\ "failures" \in columns <=> row.failures # account.failures
  <2>1. DOMAIN account = Columns
    BY <1>4, AccountParts
  <2>2. "failures" \in Columns
    BY DEF Columns
  <2>3. PICK columns : columns = {c \in DOMAIN account : row[c] # account[c]}
    OBVIOUS
  <2>4. columns \in SUBSET Columns
    BY <2>1, <2>3
  <2>5. "failures" \in columns <=> row.failures # account.failures
    BY <2>1, <2>2, <2>3
  <2> QED  BY <2>3, <2>4, <2>5
<1>6. PICK to \in LoginAt : to = [step |-> "writing", row |-> row, columns |-> columns]
  BY DEF LoginAt
<1>7. to.step = "writing" /\ to.row = row /\ to.columns = columns
  BY <1>6
<1>8. Acc!Goes(l, to)
  BY <1>1, <1>3, <1>5, <1>6
<1>9. ~crossed => to.row.password = meant.password /\ to.row.status = meant.status
  BY <1>1, <1>3, <1>7 DEF AccountInv, AsMeant
<1>10. ~crossed /\ ~met => /\ to.row.failures < MaxFailures
                           /\ to.row.failures = 0 \/ to.row.failures = account.failures + 1
  BY <1>1, <1>3, <1>7 DEF AccountInv, CountedAll
<1>11. "failures" \in to.columns <=> to.row.failures # account.failures
  BY <1>5, <1>7
<1> QED  BY <1>1, <1>2, <1>4, <1>7, <1>8, <1>9, <1>10, <1>11, LoginTurns

\* And writes that.
LEMMA LoginSaves == ASSUME AccountInv, NEW l \in Callers, Acc!Save(l) PROVE AccountInv'
<1>1. /\ login[l].step = "writing" /\ Acc!Goes(l, Acc!Idle) /\ UNCHANGED <<accountClock, meant>>
      /\ account' = [c \in DOMAIN account |-> IF c \in login[l].columns THEN login[l].row[c] ELSE account[c]]
      /\ mistaken' = IF login[l].row.failures # 0 /\ ~met' THEN mistaken + 1 ELSE 0
  BY DEF Acc!Save, Acc!At
<1>2. crossed' = crossed /\ met' = (met \/ Acc!Reading({l}))
  BY DEF Acc!Save
<1>3. PICK row \in Acc!Account : row = login[l].row
  BY <1>1, LoginParts DEF AccountInv
<1>4. account # NoAccount /\ account \in Acc!Account
  BY <1>1 DEF AccountInv, AccountTypes
<1>5. /\ DOMAIN account = Columns /\ DOMAIN row = Columns
  BY <1>3, <1>4, AccountParts
<1>6. account' = [c \in Columns |-> IF c \in login[l].columns THEN row[c] ELSE account[c]]
  BY <1>1, <1>3, <1>5
<1>7. /\ account' \in Acc!Account
      /\ account'.password \in {row.password, account.password}
      /\ account'.status \in {row.status, account.status}
      /\ account'.failures = IF "failures" \in login[l].columns THEN row.failures ELSE account.failures
  <2>1. \A c \in Columns : account'[c] = IF c \in login[l].columns THEN row[c] ELSE account[c]
    BY <1>6
  <2>2. /\ account'.password \in {row.password, account.password}
        /\ account'.status \in {row.status, account.status}
        /\ account'.failures = IF "failures" \in login[l].columns THEN row.failures ELSE account.failures
        /\ account'.locked \in {row.locked, account.locked}
        /\ account'.weak \in {row.weak, account.weak}
    BY <2>1 DEF Columns
  <2>3. account' \in Acc!Account
    <3>1. PICK p \in Acc!Passwords, f \in 0..MaxFailures, k \in 0..(MaxClock + LockFor), s \in Acc!Statuses, w \in BOOLEAN :
            p = account'.password /\ f = account'.failures /\ k = account'.locked /\ s = account'.status /\ w = account'.weak
      BY <1>3, <1>4, <2>2, AccountParts
    <3>2. account' = [password |-> p, weak |-> w, failures |-> f, locked |-> k, status |-> s]
      BY <1>6, <3>1 DEF Columns
    <3> QED  BY <3>2 DEF Acc!Account
  <2> QED  BY <2>2, <2>3
<1>8. account' # NoAccount
  BY <1>7, AccountBounds
<1>9. PICK to \in LoginAt : to = Acc!Idle /\ to.step = "idle"
  <2>1. Acc!Idle \in LoginAt
    BY DEF LoginAt
  <2>2. Acc!Idle.step = "idle"
    BY DEF Acc!Idle
  <2> QED  BY <2>1, <2>2
<1>10. /\ login' \in [Callers -> LoginAt] /\ login'[l] = to
       /\ \A m \in Callers \ {l} : login'[m] = login[m]
  BY <1>1, <1>9, LoginMoves DEF AccountInv
<1>11. mistaken \in Nat
  BY DEF AccountInv, AccountTypes
<1>12. AccountTypes'
  BY <1>1, <1>4, <1>7, <1>8, <1>10, <1>11 DEF AccountInv, AccountTypes
<1>13. ASSUME ~crossed PROVE AsMeant'
  <2>1. /\ row.password = meant.password /\ row.status = meant.status
        /\ account.password = meant.password /\ account.status = meant.status
    BY <1>1, <1>3, <1>4, <1>13 DEF AccountInv, AsMeant
  <2>2. account'.password = meant'.password /\ account'.status = meant'.status
    BY <1>1, <1>7, <2>1
  <2>3. \A m \in Callers : login'[m].step # "idle" =>
          login'[m].row.password = meant'.password /\ login'[m].row.status = meant'.status
    BY <1>1, <1>9, <1>10, <1>13 DEF AccountInv, AsMeant
  <2> QED  BY <2>2, <2>3 DEF AsMeant
<1>14. ASSUME ~crossed, ~met' PROVE CountedAll'
  <2>1. ~met /\ ~Acc!Reading({l})
    BY <1>2, <1>14
  <2>2. \A m \in Callers : login'[m].step = "idle"
    BY <1>9, <1>10, <2>1 DEF Acc!Reading, Acc!At
  <2>3. /\ mistaken = account.failures /\ row.failures < MaxFailures
        /\ row.failures = 0 \/ row.failures = account.failures + 1
        /\ "failures" \in login[l].columns <=> row.failures # account.failures
    BY <1>1, <1>3, <1>4, <1>14, <2>1 DEF AccountInv, CountedAll
  <2>4. account'.failures = row.failures
    BY <1>7, <2>3
  <2>5. mistaken' = row.failures
    BY <1>1, <1>3, <1>14, <2>3
  <2> QED  BY <1>8, <2>2, <2>3, <2>4, <2>5 DEF CountedAll
<1> QED  BY <1>2, <1>8, <1>12, <1>13, <1>14 DEF AccountInv

\* A process dies.
LEMMA LoginDrops == ASSUME AccountInv, NEW l \in Callers, Acc!Drop(l) PROVE AccountInv'
<1>1. Acc!Goes(l, Acc!Idle) /\ UNCHANGED <<account, accountClock, meant, mistaken>>
  BY DEF Acc!Drop
<1>2. crossed' = crossed /\ met' = met
  BY DEF Acc!Drop
<1> QED  BY <1>1, <1>2, LoginIdles

\* The row is set anew, which crosses whoever has read it.
LEMMA AccountAnew ==
  ASSUME AccountInv, account # NoAccount, account' \in Acc!Account, login' = login, accountClock' = accountClock,
         meant' \in [password : Acc!Passwords, status : Acc!Statuses],
         mistaken' \in Nat, met' = met, crossed' = (crossed \/ Acc!Reading({})),
         ~crossed => account'.password = meant'.password /\ account'.status = meant'.status,
         ~crossed /\ ~met => mistaken' = account'.failures /\ mistaken' < MaxFailures
  PROVE  AccountInv'
<1>1. account' # NoAccount
  BY AccountBounds
<1>2. AccountTypes'
  BY <1>1 DEF AccountInv, AccountTypes
<1>3. ASSUME ~crossed' PROVE ~crossed /\ \A l \in Callers : login'[l].step = "idle"
  BY <1>3 DEF Acc!Reading, Acc!At
<1>4. ~crossed' => AsMeant'
  BY <1>1, <1>3 DEF AsMeant
<1>5. ~crossed' /\ ~met' => CountedAll'
  BY <1>1, <1>3 DEF CountedAll
<1> QED  BY <1>1, <1>2, <1>4, <1>5 DEF AccountInv

\* setPassword() also lifts the lock.
LEMMA PasswordIsSet == ASSUME AccountInv, NEW p \in Acc!Passwords, Acc!SetPassword(p) PROVE AccountInv'
<1>1. /\ account # NoAccount /\ login' = login /\ accountClock' = accountClock /\ mistaken' = 0
      /\ account' = [account EXCEPT !.password = p, !.weak = FALSE, !.failures = 0, !.locked = 0]
      /\ meant' = [meant EXCEPT !.password = p]
  BY DEF Acc!SetPassword
<1>2. met' = met /\ crossed' = (crossed \/ Acc!Reading({}))
  BY DEF Acc!SetPassword
<1>3. account \in Acc!Account /\ meant \in [password : Acc!Passwords, status : Acc!Statuses]
  BY <1>1 DEF AccountInv, AccountTypes
<1>4. 0 \in 0..MaxFailures /\ 0 \in 0..(MaxClock + LockFor) /\ 0 < MaxFailures
  BY AccountBounds
<1>5. account' \in Acc!Account
  BY <1>1, <1>3, <1>4 DEF Acc!Account
<1>6. account'.password = p /\ account'.failures = 0 /\ account'.status = account.status
  BY <1>1, <1>3 DEF Acc!Account
<1>7. meant' \in [password : Acc!Passwords, status : Acc!Statuses] /\ meant'.password = p /\ meant'.status = meant.status
  BY <1>1, <1>3
<1>8. ~crossed => account'.password = meant'.password /\ account'.status = meant'.status
  BY <1>1, <1>6, <1>7 DEF AccountInv, AsMeant
<1> QED  BY <1>1, <1>2, <1>4, <1>5, <1>6, <1>7, <1>8, AccountAnew

\* setStatus() leaves the count alone.
LEMMA StatusIsSet == ASSUME AccountInv, NEW status \in Acc!Statuses, Acc!SetStatus(status) PROVE AccountInv'
<1>1. /\ account # NoAccount /\ login' = login /\ accountClock' = accountClock /\ mistaken' = mistaken
      /\ account' = [account EXCEPT !.status = status]
      /\ meant' = [meant EXCEPT !.status = status]
  BY DEF Acc!SetStatus
<1>2. met' = met /\ crossed' = (crossed \/ Acc!Reading({}))
  BY DEF Acc!SetStatus
<1>3. account \in Acc!Account /\ meant \in [password : Acc!Passwords, status : Acc!Statuses] /\ mistaken \in Nat
  BY <1>1 DEF AccountInv, AccountTypes
<1>4. account' \in Acc!Account
  BY <1>1, <1>3 DEF Acc!Account
<1>5. account'.password = account.password /\ account'.failures = account.failures /\ account'.status = status
  BY <1>1, <1>3 DEF Acc!Account
<1>6. meant' \in [password : Acc!Passwords, status : Acc!Statuses] /\ meant'.password = meant.password /\ meant'.status = status
  BY <1>1, <1>3
<1>7. ~crossed => account'.password = meant'.password /\ account'.status = meant'.status
  BY <1>1, <1>5, <1>6 DEF AccountInv, AsMeant
<1>8. ~crossed /\ ~met => mistaken' = account'.failures /\ mistaken' < MaxFailures
  BY <1>1, <1>5 DEF AccountInv, CountedAll
<1> QED  BY <1>1, <1>2, <1>3, <1>4, <1>6, <1>7, <1>8, AccountAnew

\* Every step keeps it.
LEMMA AccountStep == AccountInv /\ [Acc!Next]_Acc!accountVars => AccountInv'
<1>1. AccountInv /\ UNCHANGED Acc!accountVars => AccountInv'
  <2> SUFFICES ASSUME AccountInv, UNCHANGED Acc!accountVars PROVE AccountInv'
    OBVIOUS
  <2>1. UNCHANGED <<account, login, accountClock, meant, mistaken>>
    BY DEF Acc!accountVars
  <2>2. crossed' = crossed /\ met' = met
    BY DEF Acc!accountVars
  <2>3. AccountTypes' /\ (AsMeant => AsMeant') /\ (CountedAll => CountedAll')
    BY <2>1 DEF AccountInv, AccountTypes, AsMeant, CountedAll
  <2> QED  BY <2>1, <2>2, <2>3 DEF AccountInv
<1> QED
  BY <1>1, AccountTicks, AccountCreates, LoginRefused, LoginWelcomed, LoginCompares, LoginSaves, LoginDrops,
     LoginBegins, PasswordIsSet, StatusIsSet DEF Acc!Next

\* The password and the status are the ones last set, and where logins follow one
\* another no run of wrong ones is longer than the lock allows (user.service.ts).
THEOREM LoginsKeepTheAccountAlways == Acc!Spec => []Acc!LoginsKeepTheAccount
<1>1. AccountInv => Acc!LoginsKeepTheAccount
  BY DEF AccountInv, AsMeant, CountedAll, Acc!LoginsKeepTheAccount
<1> QED  BY <1>1, AccountBegins, AccountStep, PTL DEF Acc!Spec

----------------------------------------------------------------------------
(* Roles *)

\* Where a call may be, and what it keeps.
CallAt ==
  {Rol!Idle}
  \union [op : {"define"}, step : {"insert"}, row : Rol!Role]
  \union [op : {"change"}, step : {"save"}, id : Rol!Ids, row : Rol!Role]
  \union [op : {"retire"}, step : {"delete"}, id : Rol!Ids]
  \union [op : {"set"}, step : {"join"}, keys : SUBSET Keys]
  \union [op : {"set"}, step : {"save", "resolve"}, keys : SUBSET Keys, of : Rol!Members]
  \union [op : {"set"}, step : {"clear", "give"}, of : Rol!Members, ids : SUBSET Rol!Ids]
  \union [op : {"grant"}, step : {"insert"}, of : Rol!Members, ids : SUBSET Rol!Ids]
  \union [op : {"revoke"}, step : {"delete"}, of : Rol!Members, ids : SUBSET Rol!Ids, key : Keys]

RoleTypes ==
  /\ role \in [Rol!Ids -> Rol!Role \union {NoRole}]
  /\ member \in Rol!Members \union {NoMember}
  /\ granted \subseteq [member : Rol!Members, role : Rol!Ids]
  /\ roles \in 0..MaxRoles /\ members \in 0..MaxMembers
  /\ admin \in [Callers -> CallAt] /\ apart \in BOOLEAN

\* Whoever changes a role has its row, which no other change makes another.
RowsStay ==
  /\ \A i \in Rol!Ids : i > roles => role[i] = NoRole
  /\ \A i, j \in Rol!Stored : role[i] = role[j] => i = j
  /\ \A c \in Callers : admin[c].op = "change" =>
       /\ admin[c].id <= roles
       /\ role[admin[c].id] \in {NoRole, admin[c].row}
       /\ \A d \in Callers : admin[d].op = "change" /\ admin[d].id = admin[c].id => admin[d].row = admin[c].row

\* A key finds the role: a system's is not hidden by a tenant's.
Answers(i) == role[i].scope = "system" => Rol!With("tenant", role[i].key) = {}

\* What a call has looked up is still so.
Due(deed) ==
  /\ deed.op = "change" => deed.id \in Rol!Stored
  /\ deed.op = "define" /\ deed.row.scope = "tenant" => Rol!With("system", deed.row.key) = {}
  /\ deed.op = "set" /\ deed.step \in {"clear", "give"} => \A i \in deed.ids : i \in Rol!Stored /\ Answers(i)
  /\ deed.op = "grant" => \A i \in deed.ids : i \in Rol!Stored /\ Answers(i)
  /\ deed.op = "set" /\ deed.step = "clear" => deed.of = member
  /\ deed.op = "revoke" => deed.of = member /\ deed.ids = Rol!FindByKey(deed.key)

Giving(deed) == deed.op = "set" /\ deed.step = "give"

\* Calls that follow one another: what is held is what was given, but between
\* the two statements of setRoles().
InTurn ==
  /\ \A c, d \in Callers : admin[c] # Rol!Idle /\ admin[d] # Rol!Idle => c = d
  /\ \A c \in Callers : Due(admin[c])
  /\ \A c \in Callers : Giving(admin[c]) => Rol!Held = {}
  /\ (\A c \in Callers : ~Giving(admin[c])) => Rol!Held = given
  /\ \A i \in Rol!Held : Answers(i)

GrantsStand == \A g \in granted : g.member = member /\ g.role \in Rol!Stored

RoleInv == RoleTypes /\ RowsStay /\ GrantsStand /\ (apart => InTurn)

\* What the constants are.
LEMMA RoleBounds ==
  /\ MaxRoles \in Nat /\ MaxMembers \in Nat
  /\ NoRole \notin Rol!Role /\ NoMember \notin Rol!Members
BY AmountsAssumption, RowsAssumption DEF Rol!Members

\* What a call keeps.
LEMMA CallParts ==
  ASSUME NEW deed \in CallAt
  PROVE  /\ deed.op \in {"idle", "define", "change", "retire", "set", "grant", "revoke"}
         /\ deed.op = "idle" <=> deed = Rol!Idle
         /\ deed.op = "define" => deed.row \in Rol!Role
         /\ deed.op = "change" => deed.id \in Rol!Ids /\ deed.row \in Rol!Role
         /\ deed.op = "retire" => deed.id \in Rol!Ids
         /\ deed.op = "set" => deed.step \in {"join", "save", "resolve", "clear", "give"}
         /\ deed.op = "set" /\ deed.step \in {"join", "save", "resolve"} => deed.keys \in SUBSET Keys
         /\ deed.op = "set" /\ deed.step \in {"save", "resolve", "clear", "give"} => deed.of \in Rol!Members
         /\ deed.op = "set" /\ deed.step \in {"clear", "give"} => deed.ids \in SUBSET Rol!Ids
         /\ deed.op = "grant" => deed.of \in Rol!Members /\ deed.ids \in SUBSET Rol!Ids
         /\ deed.op = "revoke" => deed.of \in Rol!Members /\ deed.ids \in SUBSET Rol!Ids /\ deed.key \in Keys
BY DEF CallAt, Rol!Idle

\* A call goes on, and the others do not.
LEMMA CallMoves ==
  ASSUME RoleTypes, NEW c \in Callers, NEW to \in CallAt, Rol!Goes(c, to)
  PROVE  /\ admin' \in [Callers -> CallAt] /\ admin'[c] = to
         /\ \A d \in Callers \ {c} : admin'[d] = admin[d]
BY DEF Rol!Goes, RoleTypes

\* One that is idle is owed nothing.
LEMMA IdleIsDue == Due(Rol!Idle) /\ Due(Rol!Idle)' /\ ~Giving(Rol!Idle)
BY DEF Due, Giving, Rol!Idle

\* While calls follow one another, the others are idle.
LEMMA InTurnGoes ==
  ASSUME RoleTypes, NEW c \in Callers, NEW to \in CallAt, Rol!Goes(c, to),
         \A d \in Callers \ {c} : admin[d] = Rol!Idle,
         Due(to)', Giving(to) => Rol!Held' = {}, ~Giving(to) => Rol!Held' = given',
         \A i \in Rol!Held' : Answers(i)'
  PROVE  InTurn'
<1>1. /\ admin'[c] = to
      /\ \A d \in Callers \ {c} : admin'[d] = Rol!Idle
  BY CallMoves
<1>2. \A d, e \in Callers : admin'[d] # Rol!Idle /\ admin'[e] # Rol!Idle => d = e
  BY <1>1
<1>3. \A d \in Callers : Due(admin[d])'
  <2>1. Due(admin[c])'
    BY <1>1 DEF Due
  <2>2. ASSUME NEW d \in Callers \ {c} PROVE Due(admin[d])'
    BY <1>1 DEF Due, Rol!Idle
  <2> QED  BY <2>1, <2>2
<1>4. \A d \in Callers : Giving(admin'[d]) => d = c
  BY <1>1, IdleIsDue
<1>5. \A d \in Callers : Giving(admin'[d]) => Rol!Held' = {}
  BY <1>1, <1>4
<1>6. (\A d \in Callers : ~Giving(admin'[d])) => Rol!Held' = given'
  BY <1>1
<1> QED  BY <1>2, <1>3, <1>5, <1>6 DEF InTurn, Giving

\* There is nothing at first.
LEMMA RolesBegin == Rol!Init => RoleInv
<1> SUFFICES ASSUME Rol!Init PROVE RoleInv
  OBVIOUS
<1>1. /\ role = [i \in Rol!Ids |-> NoRole] /\ member = NoMember /\ granted = {}
      /\ roles = 0 /\ members = 0 /\ admin = [c \in Callers |-> Rol!Idle] /\ given = {} /\ apart = TRUE
  BY DEF Rol!Init
<1>2. \A c \in Callers : admin[c] = Rol!Idle
  BY <1>1
<1>3. Rol!Held = {} /\ Rol!Stored = {}
  BY <1>1 DEF Rol!Held, Rol!Stored
<1>4. RoleTypes
  BY <1>1, RoleBounds DEF RoleTypes, CallAt
<1>5. RowsStay
  BY <1>1, <1>2, <1>3 DEF RowsStay, Rol!Idle
<1>6. GrantsStand
  BY <1>1 DEF GrantsStand
<1>7. InTurn
  BY <1>1, <1>2, <1>3, IdleIsDue DEF InTurn
<1> QED  BY <1>4, <1>5, <1>6, <1>7 DEF RoleInv

\* The rows while a call goes on that writes none.
LEMMA RowsStand ==
  ASSUME RoleInv, NEW c \in Callers, NEW to \in CallAt, Rol!Goes(c, to), UNCHANGED <<role, roles>>,
         to.op = "change" => to.id \in Rol!Stored /\ to.row = role[to.id]
  PROVE  RowsStay'
<1>1. /\ admin' \in [Callers -> CallAt] /\ admin'[c] = to
      /\ \A d \in Callers \ {c} : admin'[d] = admin[d]
  BY CallMoves DEF RoleInv
<1>2. RowsStay /\ RoleTypes
  BY DEF RoleInv
<1>3. \A i \in Rol!Stored : i \in Rol!Ids /\ i <= roles /\ role[i] # NoRole
  BY <1>2, RoleBounds DEF RowsStay, RoleTypes, Rol!Stored, Rol!Ids
<1>4. \A i, j \in Rol!Stored' : role'[i] = role'[j] => i = j
  BY <1>2 DEF RowsStay, Rol!Stored
<1>5. ASSUME NEW d \in Callers, admin'[d].op = "change"
      PROVE  /\ admin'[d].id <= roles /\ role[admin'[d].id] \in {NoRole, admin'[d].row}
             /\ \A e \in Callers : admin'[e].op = "change" /\ admin'[e].id = admin'[d].id => admin'[e].row = admin'[d].row
  <2>1. CASE d # c
    <3>1. admin'[d] = admin[d]
      BY <1>1, <2>1
    <3>2. admin[d].id <= roles /\ role[admin[d].id] \in {NoRole, admin[d].row}
      BY <1>2, <1>5, <3>1 DEF RowsStay
    <3>3. ASSUME NEW e \in Callers, admin'[e].op = "change", admin'[e].id = admin'[d].id PROVE admin'[e].row = admin'[d].row
      <4>1. CASE e = c
        BY <1>1, <1>3, <3>1, <3>2, <3>3, <4>1
      <4>2. CASE e # c
        BY <1>1, <1>2, <1>5, <3>1, <3>3, <4>2 DEF RowsStay
      <4> QED  BY <4>1, <4>2
    <3> QED  BY <3>1, <3>2, <3>3
  <2>2. CASE d = c
    <3>1. admin'[d] = to /\ to.id \in Rol!Stored /\ to.row = role[to.id]
      BY <1>1, <1>5, <2>2
    <3>2. ASSUME NEW e \in Callers, admin'[e].op = "change", admin'[e].id = admin'[d].id PROVE admin'[e].row = admin'[d].row
      <4>1. CASE e = c
        BY <2>2, <4>1
      <4>2. CASE e # c
        <5>1. admin'[e] = admin[e] /\ role[admin[e].id] \in {NoRole, admin[e].row}
          BY <1>1, <1>2, <3>2, <4>2 DEF RowsStay
        <5> QED  BY <1>3, <3>1, <3>2, <5>1
      <4> QED  BY <4>1, <4>2
    <3> QED  BY <1>3, <3>1, <3>2
  <2> QED  BY <2>1, <2>2
<1> QED  BY <1>2, <1>4, <1>5 DEF RowsStay

\* What is due stays so where nothing is written.
LEMMA DueStands ==
  ASSUME UNCHANGED <<role, member>>, NEW to, Due(to)
  PROVE  Due(to)'
<1>1. Rol!Stored' = Rol!Stored
  BY DEF Rol!Stored
<1>2. \A scope, key : Rol!With(scope, key)' = Rol!With(scope, key)
  BY <1>1 DEF Rol!With
<1>3. \A i : Answers(i)' <=> Answers(i)
  BY <1>2 DEF Answers
<1>4. \A key : Rol!FindByKey(key)' = Rol!FindByKey(key)
  BY <1>2 DEF Rol!FindByKey
<1> QED  BY <1>1, <1>2, <1>3, <1>4 DEF Due

\* findByKey() finds roles that are there, and a system's only where no
\* tenant's has its key.
LEMMA FoundAnswers ==
  ASSUME NEW key
  PROVE  /\ Rol!FindByKey(key) \subseteq Rol!Stored /\ Rol!Stored \subseteq Rol!Ids
         /\ \A i \in Rol!FindByKey(key) : Answers(i)
<1>1. Rol!FindByKey(key) \subseteq Rol!Stored /\ Rol!Stored \subseteq Rol!Ids
  BY DEF Rol!FindByKey, Rol!With, Rol!Stored
<1>2. ASSUME NEW i \in Rol!FindByKey(key), role[i].scope = "system" PROVE Rol!With("tenant", role[i].key) = {}
  <2>1. i \notin Rol!With("tenant", key)
    BY <1>2 DEF Rol!With
  <2>2. Rol!With("tenant", key) = {} /\ i \in Rol!With("system", key)
    BY <2>1 DEF Rol!FindByKey
  <2>3. role[i].key = key
    BY <2>2 DEF Rol!With
  <2> QED  BY <2>2, <2>3
<1> QED  BY <1>1, <1>2 DEF Answers

\* A call begins: it reads, and writes nothing.
LEMMA CallBegins ==
  ASSUME RoleInv, NEW c \in Callers, NEW to \in CallAt, Rol!Begins(c, to), Rol!Keeps, ~Giving(to), Due(to),
         to.op = "change" => to.row = role[to.id]
  PROVE  RoleInv'
<1>1. /\ admin[c] = Rol!Idle /\ Rol!Goes(c, to)
      /\ apart' = (apart /\ \A d \in Callers : admin[d] = Rol!Idle)
  BY DEF Rol!Begins
<1>2. /\ UNCHANGED <<role, member, granted, roles, members>>
      /\ given' = IF apart' THEN given ELSE {}
  BY DEF Rol!Keeps, Rol!Means
<1>3. /\ admin' \in [Callers -> CallAt] /\ admin'[c] = to
      /\ \A d \in Callers \ {c} : admin'[d] = admin[d]
  BY <1>1, CallMoves DEF RoleInv
<1>4. RoleTypes'
  BY <1>1, <1>2, <1>3 DEF RoleInv, RoleTypes
<1>5. RowsStay'
  BY <1>1, <1>2, RowsStand DEF Due
<1>6. GrantsStand'
  BY <1>2 DEF RoleInv, GrantsStand, Rol!Stored
<1>7. ASSUME apart' PROVE InTurn'
  <2>1. apart /\ \A d \in Callers : admin[d] = Rol!Idle
    BY <1>1, <1>7
  <2>2. Rol!Held' = given'
    BY <1>2, <1>7, <2>1, IdleIsDue DEF RoleInv, InTurn, Rol!Held
  <2>3. Due(to)'
    BY <1>2, DueStands
  <2>4. \A i \in Rol!Held' : Answers(i)'
    BY <1>2, <2>1 DEF RoleInv, InTurn, Rol!Held, Answers, Rol!With, Rol!Stored
  <2> QED  BY <1>1, <2>1, <2>2, <2>3, <2>4, InTurnGoes DEF RoleInv
<1> QED  BY <1>4, <1>5, <1>6, <1>7 DEF RoleInv

\* It stops half way.
LEMMA CallStops == ASSUME RoleInv, NEW c \in Callers, Rol!Stop(c) PROVE RoleInv'
<1>1. Rol!Goes(c, Rol!Idle) /\ apart' = FALSE /\ UNCHANGED <<role, member, granted, roles, members>>
  BY DEF Rol!Stop, Rol!Ends, Rol!Keeps
<1>2. PICK to \in CallAt : to = Rol!Idle
  BY DEF CallAt
<1>3. Rol!Goes(c, to) /\ to.op = "idle"
  BY <1>1, <1>2 DEF Rol!Idle
<1>4. RoleTypes'
  BY <1>1, <1>3, CallMoves DEF RoleInv, RoleTypes
<1>5. RowsStay'
  BY <1>1, <1>3, RowsStand
<1>6. GrantsStand'
  BY <1>1 DEF RoleInv, GrantsStand, Rol!Stored
<1> QED  BY <1>1, <1>4, <1>5, <1>6 DEF RoleInv

\* createTenantRole() and syncSystemRoles() look for the key.
LEMMA RoleIsDefined ==
  ASSUME RoleInv, NEW c \in Callers, NEW scope \in {"system", "tenant"}, NEW key \in Keys, Rol!Define(c, scope, key)
  PROVE  RoleInv'
<1>1. PICK row \in Rol!Role : row = [scope |-> scope, key |-> key]
  BY DEF Rol!Role
<1>2. PICK to \in CallAt : to = [op |-> "define", step |-> "insert", row |-> row]
  BY DEF CallAt
<1>3. to.op = "define" /\ to.row = row /\ row.scope = scope /\ row.key = key
  BY <1>1, <1>2
<1>4. Rol!Begins(c, to) /\ Rol!Keeps /\ (scope = "tenant" => Rol!With("system", key) = {})
  BY <1>1, <1>2 DEF Rol!Define
<1>5. Due(to) /\ ~Giving(to)
  BY <1>3, <1>4 DEF Due, Giving
<1> QED  BY <1>3, <1>4, <1>5, CallBegins

\* updateTenantRole() reads the role.
LEMMA RoleIsRead == ASSUME RoleInv, NEW c \in Callers, NEW i \in Rol!Ids, Rol!Change(c, i) PROVE RoleInv'
<1>1. i \in Rol!Stored /\ role[i] \in Rol!Role
  BY DEF Rol!Change, Rol!Stored, RoleInv, RoleTypes
<1>2. PICK row \in Rol!Role : row = role[i]
  BY <1>1
<1>3. PICK to \in CallAt : to = [op |-> "change", step |-> "save", id |-> i, row |-> row]
  BY DEF CallAt
<1>4. to.op = "change" /\ to.id = i /\ to.row = row
  BY <1>3
<1>5. Rol!Begins(c, to) /\ Rol!Keeps
  BY <1>2, <1>3 DEF Rol!Change
<1>6. Due(to) /\ ~Giving(to)
  BY <1>1, <1>4 DEF Due, Giving
<1> QED  BY <1>2, <1>4, <1>5, <1>6, CallBegins

\* deleteTenantRole() counts who holds it.
LEMMA RoleIsRetired == ASSUME RoleInv, NEW c \in Callers, NEW i \in Rol!Ids, Rol!Retire(c, i) PROVE RoleInv'
<1>1. PICK to \in CallAt : to = [op |-> "retire", step |-> "delete", id |-> i]
  BY DEF CallAt
<1>2. to.op = "retire"
  BY <1>1
<1>3. Rol!Begins(c, to) /\ Rol!Keeps
  BY <1>1 DEF Rol!Retire
<1>4. Due(to) /\ ~Giving(to)
  BY <1>2 DEF Due, Giving
<1> QED  BY <1>2, <1>3, <1>4, CallBegins

\* addMembership() looks for the membership.
LEMMA MemberIsAdded ==
  ASSUME RoleInv, NEW c \in Callers, NEW keys \in SUBSET Keys, NEW status \in BOOLEAN, Rol!Add(c, keys, status)
  PROVE  RoleInv'
<1>1. PICK to \in CallAt : /\ to.op = "set" /\ to.step \in {"join", "save", "resolve"}
                           /\ Rol!Begins(c, to)
  <2>1. CASE member = NoMember
    <3>1. PICK to \in CallAt : to = [op |-> "set", step |-> "join", keys |-> keys]
      BY DEF CallAt
    <3> QED  BY <2>1, <3>1 DEF Rol!Add
  <2>2. CASE member # NoMember
    <3>1. member \in Rol!Members
      BY <2>2 DEF RoleInv, RoleTypes
    <3>2. PICK step \in {"save", "resolve"} : step = IF status THEN "save" ELSE "resolve"
      OBVIOUS
    <3>3. PICK to \in CallAt : to = [op |-> "set", step |-> step, keys |-> keys, of |-> member]
      BY <3>1 DEF CallAt
    <3>4. to.op = "set" /\ to.step \in {"join", "save", "resolve"}
      BY <3>3
    <3>5. Rol!Begins(c, to)
      BY <2>2, <3>2, <3>3 DEF Rol!Add
    <3> QED  BY <3>4, <3>5
  <2> QED  BY <2>1, <2>2
<1>2. Rol!Keeps
  BY DEF Rol!Add
<1>3. Due(to) /\ ~Giving(to)
  BY <1>1 DEF Due, Giving
<1> QED  BY <1>1, <1>2, <1>3, CallBegins

\* setRoles() begins.
LEMMA RolesAreSet ==
  ASSUME RoleInv, NEW c \in Callers, NEW keys \in SUBSET Keys, Rol!SetRoles(c, keys)
  PROVE  RoleInv'
<1>1. member \in Rol!Members
  BY DEF RoleInv, RoleTypes, Rol!SetRoles
<1>2. PICK to \in CallAt : to = [op |-> "set", step |-> "resolve", keys |-> keys, of |-> member]
  BY <1>1 DEF CallAt
<1>3. to.op = "set" /\ to.step = "resolve"
  BY <1>2
<1>4. Rol!Begins(c, to) /\ Rol!Keeps
  BY <1>2 DEF Rol!SetRoles
<1>5. Due(to) /\ ~Giving(to)
  BY <1>3 DEF Due, Giving
<1> QED  BY <1>3, <1>4, <1>5, CallBegins

\* grant() looks the role up.
LEMMA GrantIsAsked == ASSUME RoleInv, NEW c \in Callers, NEW key \in Keys, Rol!Grant(c, key) PROVE RoleInv'
<1>1. member \in Rol!Members
  BY DEF RoleInv, RoleTypes, Rol!Grant
<1>2. PICK ids \in SUBSET Rol!Ids : ids = Rol!FindByKey(key)
  BY FoundAnswers
<1>3. PICK to \in CallAt : to = [op |-> "grant", step |-> "insert", of |-> member, ids |-> ids]
  BY <1>1 DEF CallAt
<1>4. to.op = "grant" /\ to.ids = ids
  BY <1>3
<1>5. Rol!Begins(c, to) /\ Rol!Keeps
  BY <1>2, <1>3 DEF Rol!Grant
<1>6. Due(to) /\ ~Giving(to)
  BY <1>2, <1>4, FoundAnswers DEF Due, Giving
<1> QED  BY <1>4, <1>5, <1>6, CallBegins

\* revoke() looks the role up.
LEMMA RevocationIsAsked == ASSUME RoleInv, NEW c \in Callers, NEW key \in Keys, Rol!Revoke(c, key) PROVE RoleInv'
<1>1. member \in Rol!Members
  BY DEF RoleInv, RoleTypes, Rol!Revoke
<1>2. PICK ids \in SUBSET Rol!Ids : ids = Rol!FindByKey(key)
  BY FoundAnswers
<1>3. PICK to \in CallAt : to = [op |-> "revoke", step |-> "delete", of |-> member, ids |-> ids, key |-> key]
  BY <1>1 DEF CallAt
<1>4. to.op = "revoke" /\ to.ids = ids /\ to.of = member /\ to.key = key
  BY <1>3
<1>5. Rol!Begins(c, to) /\ Rol!Keeps
  BY <1>2, <1>3 DEF Rol!Revoke
<1>6. Due(to) /\ ~Giving(to)
  BY <1>2, <1>4 DEF Due, Giving
<1> QED  BY <1>4, <1>5, <1>6, CallBegins

\* While calls follow one another, the one under way is alone, and what is held
\* is what was given, unless it is giving.
LEMMA OneUnderWay ==
  ASSUME RoleInv, apart, NEW c \in Callers, admin[c].op # "idle"
  PROVE  /\ \A d \in Callers \ {c} : admin[d] = Rol!Idle
         /\ Due(admin[c])
         /\ Giving(admin[c]) => Rol!Held = {}
         /\ ~Giving(admin[c]) => Rol!Held = given
         /\ \A i \in Rol!Held : i \in Rol!Stored /\ Answers(i)
<1>1. admin[c] # Rol!Idle /\ InTurn
  BY DEF RoleInv, Rol!Idle
<1>2. \A d \in Callers \ {c} : admin[d] = Rol!Idle
  BY <1>1 DEF InTurn
<1>3. ~Giving(admin[c]) => \A d \in Callers : ~Giving(admin[d])
  BY <1>2, IdleIsDue
<1>4. \A i \in Rol!Held : i \in Rol!Stored
  BY DEF RoleInv, GrantsStand, Rol!Held
<1> QED  BY <1>1, <1>2, <1>3, <1>4 DEF InTurn

\* Who is no member holds nothing.
LEMMA NobodyHolds == ASSUME RoleInv, member = NoMember PROVE granted = {} /\ Rol!Held = {}
<1>1. \A g \in granted : g.member \in Rol!Members /\ g.member = NoMember
  BY DEF RoleInv, RoleTypes, GrantsStand
<1> QED  BY <1>1, RoleBounds DEF Rol!Held

\* A call goes on, and writes no role and no grant.
LEMMA CallGoesOn ==
  ASSUME RoleInv, NEW c \in Callers, NEW to \in CallAt, Rol!Goes(c, to),
         admin[c].op = "set", admin[c].step \in {"join", "save", "resolve"},
         to.op = "set", to.step \in {"resolve", "clear"}, apart => Due(to)',
         UNCHANGED <<role, granted, roles, given, apart>>,
         member' \in Rol!Members, members' \in 0..MaxMembers,
         member' = member \/ member = NoMember
  PROVE  RoleInv'
<1>1. RoleTypes'
  BY CallMoves DEF RoleInv, RoleTypes
<1>2. RowsStay'
  BY RowsStand
<1>3. GrantsStand'
  BY NobodyHolds DEF RoleInv, GrantsStand, Rol!Stored
<1>4. ASSUME apart' PROVE InTurn'
  <2>1. ~Giving(to) /\ ~Giving(admin[c])
    BY DEF Giving
  <2>2. /\ \A d \in Callers \ {c} : admin[d] = Rol!Idle
        /\ Rol!Held = given /\ \A i \in Rol!Held : Answers(i)
    BY <1>4, <2>1, OneUnderWay
  <2>3. Rol!Held' = given' /\ \A i \in Rol!Held' : Answers(i)'
    BY <2>2 DEF Rol!Held, Answers, Rol!With, Rol!Stored
  <2> QED  BY <1>4, <2>1, <2>2, <2>3, InTurnGoes DEF RoleInv
<1> QED  BY <1>1, <1>2, <1>3, <1>4 DEF RoleInv

\* addMembership() inserts one that is not there.
LEMMA MemberJoins == ASSUME RoleInv, NEW c \in Callers, Rol!Join(c) PROVE RoleInv'
<1>1. /\ admin[c].op = "set" /\ admin[c].step = "join" /\ member = NoMember /\ members < MaxMembers
      /\ member' = members + 1 /\ members' = members + 1
      /\ Rol!Goes(c, [op |-> "set", step |-> "resolve", keys |-> admin[c].keys, of |-> members + 1])
      /\ UNCHANGED <<role, granted, roles, given, apart>>
  BY DEF Rol!Join, Rol!At
<1>2. members + 1 \in Rol!Members /\ members + 1 \in 0..MaxMembers
  BY <1>1, RoleBounds DEF RoleInv, RoleTypes, Rol!Members
<1>3. admin[c].keys \in SUBSET Keys
  BY <1>1, CallParts DEF RoleInv, RoleTypes
<1>4. PICK to \in CallAt : to = [op |-> "set", step |-> "resolve", keys |-> admin[c].keys, of |-> members + 1]
  BY <1>2, <1>3 DEF CallAt
<1>5. to.op = "set" /\ to.step = "resolve"
  BY <1>4
<1>6. Due(to)'
  BY <1>5 DEF Due
<1>7. Rol!Goes(c, to)
  BY <1>1, <1>4
<1> QED  BY <1>1, <1>2, <1>5, <1>6, <1>7, CallGoesOn

\* ... or saves one that is, or was.
LEMMA MemberIsSaved == ASSUME RoleInv, NEW c \in Callers, Rol!SaveMember(c) PROVE RoleInv'
<1>1. /\ admin[c].op = "set" /\ admin[c].step = "save" /\ member \in {admin[c].of, NoMember}
      /\ member' = admin[c].of /\ members' = members
      /\ Rol!Goes(c, [admin[c] EXCEPT !.step = "resolve"])
      /\ UNCHANGED <<role, granted, roles, given, apart>>
  BY DEF Rol!SaveMember, Rol!At
<1>2. admin[c] \in CallAt
  BY DEF RoleInv, RoleTypes
<1>3. admin[c] \in [op : {"set"}, step : {"save", "resolve"}, keys : SUBSET Keys, of : Rol!Members]
  BY <1>1, <1>2 DEF CallAt, Rol!Idle
<1>4. [admin[c] EXCEPT !.step = "resolve"] \in [op : {"set"}, step : {"save", "resolve"}, keys : SUBSET Keys, of : Rol!Members]
  BY <1>3
<1>5. [admin[c] EXCEPT !.step = "resolve"].op = "set" /\ [admin[c] EXCEPT !.step = "resolve"].step = "resolve"
  BY <1>1, <1>3
<1>6. PICK to \in CallAt : to = [admin[c] EXCEPT !.step = "resolve"] /\ to.op = "set" /\ to.step = "resolve"
  BY <1>4, <1>5 DEF CallAt
<1>7. Due(to)'
  BY <1>6 DEF Due
<1>8. admin[c].of \in Rol!Members
  BY <1>3
<1>9. Rol!Goes(c, to) /\ members' \in 0..MaxMembers
  BY <1>1, <1>6 DEF RoleInv, RoleTypes
<1> QED  BY <1>1, <1>6, <1>7, <1>8, <1>9, CallGoesOn

\* setRoles() looks the keys up.
LEMMA RolesAreResolved == ASSUME RoleInv, NEW c \in Callers, Rol!Resolve(c) PROVE RoleInv'
<1>1. /\ admin[c].op = "set" /\ admin[c].step = "resolve" /\ member = admin[c].of
      /\ Rol!Goes(c, [op |-> "set", step |-> "clear", of |-> member, ids |-> Rol!ResolveKeys(admin[c].keys)])
      /\ UNCHANGED <<role, member, granted, roles, members, given, apart>>
  BY DEF Rol!Resolve, Rol!At
<1>2. member \in Rol!Members
  BY <1>1, CallParts DEF RoleInv, RoleTypes
<1>3. PICK ids \in SUBSET Rol!Ids : ids = Rol!ResolveKeys(admin[c].keys) /\ \A i \in ids : i \in Rol!Stored /\ Answers(i)
  <2>1. \A i \in Rol!ResolveKeys(admin[c].keys) : i \in Rol!Ids /\ i \in Rol!Stored /\ Answers(i)
    BY FoundAnswers DEF Rol!ResolveKeys
  <2> QED  BY <2>1
<1>4. PICK to \in CallAt : to = [op |-> "set", step |-> "clear", of |-> member, ids |-> ids]
  BY <1>2 DEF CallAt
<1>5. to.op = "set" /\ to.step = "clear" /\ to.of = member /\ to.ids = ids
  BY <1>4
<1>6. Due(to)
  BY <1>3, <1>5 DEF Due
<1>7. Due(to)'
  BY <1>1, <1>6, DueStands
<1>8. Rol!Goes(c, to) /\ members' \in 0..MaxMembers
  BY <1>1, <1>3, <1>4 DEF RoleInv, RoleTypes
<1> QED  BY <1>1, <1>2, <1>5, <1>7, <1>8, CallGoesOn

\* setRoles() deletes what was granted.
LEMMA GrantsAreCleared == ASSUME RoleInv, NEW c \in Callers, Rol!Clear(c) PROVE RoleInv'
<1>1. /\ admin[c].op = "set" /\ admin[c].step = "clear"
      /\ granted' = {g \in granted : g.member # admin[c].of}
      /\ Rol!Goes(c, [admin[c] EXCEPT !.step = "give"])
      /\ UNCHANGED <<role, member, roles, members, given, apart>>
  BY DEF Rol!Clear, Rol!At
<1>2. admin[c] \in CallAt
  BY DEF RoleInv, RoleTypes
<1>3. admin[c] \in [op : {"set"}, step : {"clear", "give"}, of : Rol!Members, ids : SUBSET Rol!Ids]
  BY <1>1, <1>2 DEF CallAt, Rol!Idle
<1>4. [admin[c] EXCEPT !.step = "give"] \in [op : {"set"}, step : {"clear", "give"}, of : Rol!Members, ids : SUBSET Rol!Ids]
  BY <1>3
<1>5. /\ [admin[c] EXCEPT !.step = "give"].op = "set" /\ [admin[c] EXCEPT !.step = "give"].step = "give"
      /\ [admin[c] EXCEPT !.step = "give"].ids = admin[c].ids
  BY <1>1, <1>3
<1>6. PICK to \in CallAt : to = [admin[c] EXCEPT !.step = "give"] /\ to.op = "set" /\ to.step = "give" /\ to.ids = admin[c].ids
  BY <1>4, <1>5 DEF CallAt
<1>7. Rol!Goes(c, to)
  BY <1>1, <1>6
<1>8. RoleTypes'
  BY <1>1, <1>7, CallMoves DEF RoleInv, RoleTypes
<1>9. RowsStay'
  BY <1>1, <1>6, <1>7, RowsStand
<1>10. GrantsStand'
  BY <1>1 DEF RoleInv, GrantsStand, Rol!Stored
<1>11. ASSUME apart' PROVE InTurn'
  <2>1. /\ \A d \in Callers \ {c} : admin[d] = Rol!Idle
        /\ Due(admin[c])
    BY <1>1, <1>11, OneUnderWay
  <2>2. admin[c].of = member /\ \A i \in admin[c].ids : i \in Rol!Stored /\ Answers(i)
    BY <1>1, <2>1 DEF Due
  <2>3. Rol!Held' = {}
    BY <1>1, <2>2 DEF RoleInv, GrantsStand, Rol!Held
  <2>4. Due(to)
    BY <1>6, <2>2 DEF Due
  <2>5. Due(to)' /\ Giving(to)
    BY <1>1, <1>6, <2>4, DueStands DEF Giving
  <2> QED  BY <1>7, <2>1, <2>3, <2>5, InTurnGoes DEF RoleInv
<1> QED  BY <1>8, <1>9, <1>10, <1>11 DEF RoleInv

\* A call ends that has written grants, and no role.
LEMMA GrantsAreWritten ==
  ASSUME RoleInv, NEW c \in Callers, Rol!Goes(c, Rol!Idle), admin[c].op # "idle",
         UNCHANGED <<role, member, roles, members>>, apart' = apart,
         \A g \in granted' \ granted : g.member = member /\ g.role \in Rol!Stored,
         granted' \subseteq [member : Rol!Members, role : Rol!Ids],
         apart => Rol!Held' = given' /\ \A i \in Rol!Held' : Answers(i)
  PROVE  RoleInv'
<1>1. PICK to \in CallAt : to = Rol!Idle
  BY DEF CallAt
<1>2. Rol!Goes(c, to) /\ to.op = "idle" /\ ~Giving(to) /\ Due(to)'
  BY <1>1, IdleIsDue DEF Rol!Idle
<1>3. RoleTypes'
  BY <1>2, CallMoves DEF RoleInv, RoleTypes
<1>4. RowsStay'
  BY <1>2, RowsStand
<1>5. GrantsStand'
  BY DEF RoleInv, GrantsStand, Rol!Stored
<1>6. ASSUME apart' PROVE InTurn'
  <2>1. \A d \in Callers \ {c} : admin[d] = Rol!Idle
    BY <1>6, OneUnderWay
  <2>2. Rol!Held' = given' /\ \A i \in Rol!Held' : Answers(i)'
    BY <1>6 DEF Answers, Rol!With, Rol!Stored
  <2> QED  BY <1>2, <2>1, <2>2, InTurnGoes DEF RoleInv
<1> QED  BY <1>3, <1>4, <1>5, <1>6 DEF RoleInv

\* What is given to a member: the grants of some roles.
LEMMA NewGrants ==
  ASSUME NEW of \in Rol!Members, NEW ids \in SUBSET Rol!Ids
  PROVE  /\ [member : {of}, role : ids] \subseteq [member : Rol!Members, role : Rol!Ids]
         /\ \A g \in [member : {of}, role : ids] : g.member = of /\ g.role \in ids
         /\ {g.role : g \in [member : {of}, role : ids]} = ids
<1>1. \A i \in ids : [member |-> of, role |-> i] \in [member : {of}, role : ids] /\ [member |-> of, role |-> i].role = i
  OBVIOUS
<1>2. \A g \in [member : {of}, role : ids] : g.role \in ids /\ g.member = of
  OBVIOUS
<1>3. {g.role : g \in [member : {of}, role : ids]} \subseteq ids
  BY <1>2
<1>4. ids \subseteq {g.role : g \in [member : {of}, role : ids]}
  BY <1>1
<1>5. [member : {of}, role : ids] \subseteq [member : Rol!Members, role : Rol!Ids]
  OBVIOUS
<1> QED  BY <1>2, <1>3, <1>4, <1>5

\* setRoles() inserts what was asked for.
LEMMA RolesAreGiven == ASSUME RoleInv, NEW c \in Callers, Rol!Give(c) PROVE RoleInv'
<1>1. /\ admin[c].op = "set" /\ admin[c].step = "give"
      /\ admin[c].ids = {} \/ (member = admin[c].of /\ admin[c].ids \subseteq Rol!Stored)
      /\ granted' = granted \union [member : {admin[c].of}, role : admin[c].ids]
      /\ Rol!Goes(c, Rol!Idle) /\ apart' = apart
      /\ given' = IF apart' THEN admin[c].ids ELSE {}
      /\ UNCHANGED <<role, member, roles, members>>
  BY DEF Rol!Give, Rol!At, Rol!Grantable, Rol!Ends, Rol!Means, RoleInv, RoleTypes
<1>2. PICK of \in Rol!Members : of = admin[c].of
  BY <1>1, CallParts DEF RoleInv, RoleTypes
<1>3. PICK ids \in SUBSET Rol!Ids : ids = admin[c].ids
  BY <1>1, CallParts DEF RoleInv, RoleTypes
<1>4. PICK new : new = [member : {of}, role : ids]
  OBVIOUS
<1>5. /\ new \subseteq [member : Rol!Members, role : Rol!Ids]
      /\ \A g \in new : g.member = of /\ g.role \in ids
      /\ {g.role : g \in new} = ids
  BY <1>4, NewGrants
<1>6. granted' = granted \union new
  BY <1>1, <1>2, <1>3, <1>4
<1>7. \A g \in granted' \ granted : g.member = member /\ g.role \in Rol!Stored
  BY <1>1, <1>2, <1>3, <1>5, <1>6
<1>8. granted' \subseteq [member : Rol!Members, role : Rol!Ids]
  BY <1>5, <1>6 DEF RoleInv, RoleTypes
<1>9. ASSUME apart PROVE Rol!Held' = given' /\ \A i \in Rol!Held' : Answers(i)
  <2>1. Rol!Held = {} /\ Due(admin[c])
    BY <1>1, <1>9, OneUnderWay DEF Giving
  <2>2. Rol!Held' = Rol!Held \union {g.role : g \in new}
    BY <1>6 DEF Rol!Held
  <2> QED  BY <1>1, <1>3, <1>5, <1>9, <2>1, <2>2 DEF Due
<1> QED  BY <1>1, <1>7, <1>8, <1>9, GrantsAreWritten

\* grant() inserts one.
LEMMA GrantIsInserted == ASSUME RoleInv, NEW c \in Callers, Rol!InsertGrant(c) PROVE RoleInv'
<1>1. /\ admin[c].op = "grant" /\ member = admin[c].of /\ admin[c].ids \subseteq Rol!Stored
      /\ granted' = granted \union [member : {admin[c].of}, role : admin[c].ids]
      /\ Rol!Goes(c, Rol!Idle) /\ apart' = apart
      /\ given' = IF apart' THEN given \union admin[c].ids ELSE {}
      /\ UNCHANGED <<role, member, roles, members>>
  BY DEF Rol!InsertGrant, Rol!At, Rol!Grantable, Rol!Ends, Rol!Means, RoleInv, RoleTypes
<1>2. PICK of \in Rol!Members : of = admin[c].of
  BY <1>1, CallParts DEF RoleInv, RoleTypes
<1>3. PICK ids \in SUBSET Rol!Ids : ids = admin[c].ids
  BY <1>1, CallParts DEF RoleInv, RoleTypes
<1>4. PICK new : new = [member : {of}, role : ids]
  OBVIOUS
<1>5. /\ new \subseteq [member : Rol!Members, role : Rol!Ids]
      /\ \A g \in new : g.member = of /\ g.role \in ids
      /\ {g.role : g \in new} = ids
  BY <1>4, NewGrants
<1>6. granted' = granted \union new
  BY <1>1, <1>2, <1>3, <1>4
<1>7. \A g \in granted' \ granted : g.member = member /\ g.role \in Rol!Stored
  BY <1>1, <1>2, <1>3, <1>5, <1>6
<1>8. granted' \subseteq [member : Rol!Members, role : Rol!Ids]
  BY <1>5, <1>6 DEF RoleInv, RoleTypes
<1>9. ASSUME apart PROVE Rol!Held' = given' /\ \A i \in Rol!Held' : Answers(i)
  <2>1. Rol!Held = given /\ Due(admin[c]) /\ \A i \in Rol!Held : Answers(i)
    BY <1>1, <1>9, OneUnderWay DEF Giving
  <2>2. Rol!Held' = Rol!Held \union {g.role : g \in new}
    BY <1>6 DEF Rol!Held
  <2> QED  BY <1>1, <1>3, <1>5, <1>9, <2>1, <2>2 DEF Due
<1> QED  BY <1>1, <1>7, <1>8, <1>9, GrantsAreWritten

\* revoke() deletes one: of the roles that are held, its key finds those that
\* have it.
LEMMA GrantIsDeleted == ASSUME RoleInv, NEW c \in Callers, Rol!DeleteGrant(c) PROVE RoleInv'
<1>1. /\ admin[c].op = "revoke"
      /\ granted' = {g \in granted : ~(g.member = admin[c].of /\ g.role \in admin[c].ids)}
      /\ Rol!Goes(c, Rol!Idle) /\ apart' = apart
      /\ given' = IF apart' THEN {i \in given : role[i].key # admin[c].key} ELSE {}
      /\ UNCHANGED <<role, member, roles, members>>
  BY DEF Rol!DeleteGrant, Rol!At, Rol!Ends, Rol!Means, RoleInv, RoleTypes
<1>2. granted' \subseteq granted
  BY <1>1
<1>3. granted' \subseteq [member : Rol!Members, role : Rol!Ids]
  BY <1>2 DEF RoleInv, RoleTypes
<1>4. ASSUME apart PROVE Rol!Held' = given' /\ \A i \in Rol!Held' : Answers(i)
  <2>1. /\ Rol!Held = given /\ admin[c].of = member /\ admin[c].ids = Rol!FindByKey(admin[c].key)
        /\ \A i \in Rol!Held : i \in Rol!Stored /\ Answers(i)
    BY <1>1, <1>4, OneUnderWay DEF Giving, Due
  <2>2. ASSUME NEW i \in Rol!Held PROVE i \in Rol!FindByKey(admin[c].key) <=> role[i].key = admin[c].key
    <3>1. i \in Rol!FindByKey(admin[c].key) => role[i].key = admin[c].key
      BY DEF Rol!FindByKey, Rol!With
    <3>2. i \in Rol!Stored /\ Answers(i) /\ role[i] \in Rol!Role
      BY <2>1 DEF RoleInv, RoleTypes, Rol!Stored
    <3>3. role[i].scope \in {"system", "tenant"} /\ role[i] = [scope |-> role[i].scope, key |-> role[i].key]
      BY <3>2 DEF Rol!Role
    <3>4. ASSUME role[i].key = admin[c].key PROVE i \in Rol!With(role[i].scope, admin[c].key)
      BY <3>2, <3>3, <3>4 DEF Rol!With
    <3>5. role[i].key = admin[c].key => i \in Rol!FindByKey(admin[c].key)
      BY <3>2, <3>3, <3>4 DEF Rol!FindByKey, Answers
    <3> QED  BY <3>1, <3>5
  <2>3. \A g \in granted : g.member = member
    BY DEF RoleInv, GrantsStand
  <2>4. Rol!Held' = {i \in Rol!Held : i \notin admin[c].ids}
    BY <1>1, <2>1, <2>3 DEF Rol!Held
  <2> QED  BY <1>1, <1>4, <2>1, <2>2, <2>4
<1> QED  BY <1>1, <1>2, <1>3, <1>4, GrantsAreWritten

\* A call ends that has written a role, and no grant.
LEMMA RoleIsWritten ==
  ASSUME RoleInv, NEW c \in Callers, Rol!Goes(c, Rol!Idle), admin[c].op \in {"define", "change", "retire"},
         UNCHANGED <<member, granted, members, given>>, apart' = apart,
         role' \in [Rol!Ids -> Rol!Role \union {NoRole}], roles' \in 0..MaxRoles, roles <= roles',
         \A i \in Rol!Ids : i > roles' => role'[i] = NoRole,
         \A i, j \in Rol!Stored' : role'[i] = role'[j] => i = j,
         \A d \in Callers \ {c} : admin[d].op = "change" => role'[admin[d].id] \in {NoRole, admin[d].row},
         \A i \in Rol!Held : i \in Rol!Stored',
         apart => \A i \in Rol!Held : Answers(i)'
  PROVE  RoleInv'
<1>1. PICK to \in CallAt : to = Rol!Idle
  BY DEF CallAt
<1>2. Rol!Goes(c, to) /\ to.op = "idle" /\ ~Giving(to) /\ Due(to)'
  BY <1>1, IdleIsDue DEF Rol!Idle
<1>3. /\ admin' \in [Callers -> CallAt] /\ admin'[c].op = "idle"
      /\ \A d \in Callers \ {c} : admin'[d] = admin[d]
  BY <1>2, CallMoves DEF RoleInv
<1>4. RoleTypes'
  BY <1>3 DEF RoleInv, RoleTypes
<1>5. ASSUME NEW d \in Callers, admin'[d].op = "change"
      PROVE  /\ admin'[d].id <= roles' /\ role'[admin'[d].id] \in {NoRole, admin'[d].row}
             /\ \A e \in Callers : admin'[e].op = "change" /\ admin'[e].id = admin'[d].id => admin'[e].row = admin'[d].row
  <2>1. d # c /\ admin'[d] = admin[d] /\ admin[d] \in CallAt
    BY <1>3, <1>5 DEF RoleInv, RoleTypes
  <2>2. admin[d].id \in Rol!Ids
    BY <1>5, <2>1, CallParts
  <2>3. admin[d].id <= roles
    BY <1>5, <2>1 DEF RoleInv, RowsStay
  <2>4. admin[d].id <= roles'
    BY <2>2, <2>3, RoleBounds DEF RoleInv, RoleTypes, Rol!Ids
  <2>5. ASSUME NEW e \in Callers, admin'[e].op = "change", admin'[e].id = admin'[d].id PROVE admin'[e].row = admin'[d].row
    <3>1. e # c /\ admin'[e] = admin[e]
      BY <1>3, <2>5
    <3> QED  BY <1>5, <2>1, <2>5, <3>1 DEF RoleInv, RowsStay
  <2> QED  BY <1>5, <2>1, <2>4, <2>5
<1>6. RowsStay'
  BY <1>5 DEF RowsStay
<1>7. GrantsStand'
  BY DEF RoleInv, GrantsStand, Rol!Held
<1>8. ASSUME apart' PROVE InTurn'
  <2>1. /\ \A d \in Callers \ {c} : admin[d] = Rol!Idle
        /\ Rol!Held = given
    BY <1>8, OneUnderWay DEF Giving
  <2>2. Rol!Held' = given' /\ \A i \in Rol!Held' : Answers(i)'
    BY <1>8, <2>1 DEF Rol!Held
  <2> QED  BY <1>2, <2>1, <2>2, InTurnGoes DEF RoleInv
<1> QED  BY <1>4, <1>6, <1>7, <1>8 DEF RoleInv

\* A role is inserted whose key is free.
LEMMA RoleIsInserted == ASSUME RoleInv, NEW c \in Callers, Rol!Insert(c) PROVE RoleInv'
<1>1. /\ admin[c].op = "define" /\ roles < MaxRoles /\ Rol!With(admin[c].row.scope, admin[c].row.key) = {}
      /\ role' = [role EXCEPT ![roles + 1] = admin[c].row] /\ roles' = roles + 1
      /\ Rol!Goes(c, Rol!Idle) /\ apart' = apart
      /\ UNCHANGED <<member, granted, members, given>>
  BY DEF Rol!Insert, Rol!At, Rol!Ends, Rol!Insertable, RoleInv, RoleTypes
<1>2. PICK row \in Rol!Role : row = admin[c].row
  BY <1>1, CallParts DEF RoleInv, RoleTypes
<1>3. PICK new \in Rol!Ids : /\ new = roles + 1 /\ new \notin Rol!Stored
                             /\ \A i \in Rol!Ids : i > new => i > roles
  BY <1>1, RoleBounds DEF RoleInv, RoleTypes, RowsStay, Rol!Ids, Rol!Stored
<1>4. /\ role \in [Rol!Ids -> Rol!Role \union {NoRole}] /\ role' = [role EXCEPT ![new] = row]
  BY <1>1, <1>2, <1>3 DEF RoleInv, RoleTypes
<1>5. /\ role' \in [Rol!Ids -> Rol!Role \union {NoRole}] /\ role'[new] = row
      /\ \A i \in Rol!Ids \ {new} : role'[i] = role[i]
  BY <1>4
<1>6. roles' \in 0..MaxRoles /\ roles <= roles'
  BY <1>1, RoleBounds DEF RoleInv, RoleTypes
<1>7. \A i \in Rol!Ids : i > roles' => role'[i] = NoRole
  <2>1. ASSUME NEW i \in Rol!Ids, i > roles' PROVE i # new /\ i > roles
    BY <1>1, <1>3, <2>1, RoleBounds DEF RoleInv, RoleTypes, Rol!Ids
  <2> QED  BY <1>5, <2>1 DEF RoleInv, RowsStay
<1>8. Rol!Stored' = Rol!Stored \union {new}
  BY <1>5, RoleBounds DEF Rol!Stored
<1>9. \A i \in Rol!Stored : role[i] # row
  <2>1. row = [scope |-> row.scope, key |-> row.key]
    BY DEF Rol!Role
  <2>2. Rol!With(row.scope, row.key) = {}
    BY <1>1, <1>2
  <2> QED  BY <2>1, <2>2 DEF Rol!With
<1>10. \A i, j \in Rol!Stored' : role'[i] = role'[j] => i = j
  <2>1. \A i, j \in Rol!Stored : role[i] = role[j] => i = j
    BY DEF RoleInv, RowsStay
  <2>2. \A i \in Rol!Stored : i \in Rol!Ids \ {new} /\ role'[i] = role[i]
    BY <1>3, <1>5 DEF Rol!Stored
  <2> QED  BY <1>5, <1>8, <1>9, <2>1, <2>2
<1>11. ASSUME NEW d \in Callers \ {c}, admin[d].op = "change" PROVE role'[admin[d].id] \in {NoRole, admin[d].row}
  <2>1. admin[d].id \in Rol!Ids /\ admin[d].id <= roles /\ role[admin[d].id] \in {NoRole, admin[d].row}
    BY <1>11, CallParts DEF RoleInv, RoleTypes, RowsStay
  <2>2. admin[d].id # new
    BY <1>3, <2>1, RoleBounds DEF RoleInv, RoleTypes, Rol!Ids
  <2> QED  BY <1>5, <2>1, <2>2
<1>12. \A i \in Rol!Held : i \in Rol!Stored
  BY DEF RoleInv, GrantsStand, Rol!Held
<1>13. ASSUME apart, NEW i \in Rol!Held PROVE Answers(i)'
  <2>1. Due(admin[c]) /\ Answers(i) /\ i \in Rol!Stored
    BY <1>1, <1>13, OneUnderWay
  <2>2. role'[i] = role[i] /\ role[i] \in Rol!Role
    BY <1>3, <1>5, <2>1 DEF RoleInv, RoleTypes, Rol!Stored
  <2>3. ASSUME role[i].scope = "system", row = [scope |-> "tenant", key |-> role[i].key] PROVE FALSE
    <3>1. Rol!With("system", role[i].key) = {}
      BY <1>1, <1>2, <2>1, <2>3 DEF Due
    <3>2. role[i] = [scope |-> "system", key |-> role[i].key]
      BY <2>2, <2>3 DEF Rol!Role
    <3> QED  BY <2>1, <3>1, <3>2 DEF Rol!With
  <2>4. ASSUME role[i].scope = "system" PROVE Rol!With("tenant", role[i].key)' = {}
    <3>1. Rol!With("tenant", role[i].key) = {}
      BY <2>1, <2>4 DEF Answers
    <3>2. \A j \in Rol!Stored : j # new /\ role'[j] = role[j]
      BY <1>3, <1>5 DEF Rol!Stored
    <3> QED  BY <1>5, <1>8, <2>2, <2>3, <2>4, <3>1, <3>2 DEF Rol!With
  <2> QED  BY <2>2, <2>4 DEF Answers
<1> QED  BY <1>1, <1>5, <1>6, <1>7, <1>8, <1>10, <1>11, <1>12, <1>13, RoleIsWritten

\* updateTenantRole() saves the row it read.
LEMMA RoleIsSaved == ASSUME RoleInv, NEW c \in Callers, Rol!SaveChange(c) PROVE RoleInv'
<1>1. /\ admin[c].op = "change"
      /\ admin[c].id \in Rol!Stored \/ Rol!With(admin[c].row.scope, admin[c].row.key) = {}
      /\ role' = [role EXCEPT ![admin[c].id] = admin[c].row]
      /\ Rol!Goes(c, Rol!Idle) /\ apart' = apart
      /\ UNCHANGED <<member, granted, roles, members, given>>
  BY DEF Rol!SaveChange, Rol!At, Rol!Ends, Rol!Insertable, RoleInv, RoleTypes
<1>2. PICK row \in Rol!Role : row = admin[c].row
  BY <1>1, CallParts DEF RoleInv, RoleTypes
<1>3. PICK old \in Rol!Ids : old = admin[c].id
  BY <1>1, CallParts DEF RoleInv, RoleTypes
<1>4. /\ role \in [Rol!Ids -> Rol!Role \union {NoRole}] /\ role' = [role EXCEPT ![old] = row]
  BY <1>1, <1>2, <1>3 DEF RoleInv, RoleTypes
<1>5. /\ role' \in [Rol!Ids -> Rol!Role \union {NoRole}] /\ role'[old] = row
      /\ \A i \in Rol!Ids \ {old} : role'[i] = role[i]
  BY <1>4
<1>6. /\ old <= roles /\ role[old] \in {NoRole, row}
      /\ \A d \in Callers : admin[d].op = "change" /\ admin[d].id = old => admin[d].row = row
  BY <1>1, <1>2, <1>3 DEF RoleInv, RowsStay
<1>7. roles' \in 0..MaxRoles /\ roles <= roles'
  BY <1>1, RoleBounds DEF RoleInv, RoleTypes
<1>8. \A i \in Rol!Ids : i > roles' => role'[i] = NoRole
  <2>1. ASSUME NEW i \in Rol!Ids, i > roles' PROVE i # old /\ i > roles
    BY <1>1, <1>6, <2>1, RoleBounds DEF RoleInv, RoleTypes, Rol!Ids
  <2> QED  BY <1>5, <2>1 DEF RoleInv, RowsStay
<1>9. Rol!Stored' = Rol!Stored \union {old}
  BY <1>5, RoleBounds DEF Rol!Stored
<1>10. \A i \in Rol!Stored : role[i] = row => i = old
  <2>1. CASE old \in Rol!Stored
    BY <1>6, <2>1 DEF RoleInv, RowsStay, Rol!Stored
  <2>2. CASE old \notin Rol!Stored
    <3>1. row = [scope |-> row.scope, key |-> row.key]
      BY DEF Rol!Role
    <3>2. Rol!With(row.scope, row.key) = {}
      BY <1>1, <1>2, <1>3, <2>2
    <3> QED  BY <3>1, <3>2 DEF Rol!With
  <2> QED  BY <2>1, <2>2
<1>11. \A i, j \in Rol!Stored' : role'[i] = role'[j] => i = j
  <2>1. \A i, j \in Rol!Stored : role[i] = role[j] => i = j
    BY DEF RoleInv, RowsStay
  <2>2. \A i \in Rol!Stored \ {old} : i \in Rol!Ids \ {old} /\ role'[i] = role[i]
    BY <1>5 DEF Rol!Stored
  <2> QED  BY <1>5, <1>9, <1>10, <2>1, <2>2
<1>12. ASSUME NEW d \in Callers \ {c}, admin[d].op = "change" PROVE role'[admin[d].id] \in {NoRole, admin[d].row}
  <2>1. admin[d].id \in Rol!Ids /\ role[admin[d].id] \in {NoRole, admin[d].row}
    BY <1>12, CallParts DEF RoleInv, RoleTypes, RowsStay
  <2> QED  BY <1>5, <1>6, <1>12, <2>1
<1>13. \A i \in Rol!Held : i \in Rol!Stored'
  BY <1>9 DEF RoleInv, GrantsStand, Rol!Held
<1>14. ASSUME apart, NEW i \in Rol!Held PROVE Answers(i)'
  <2>1. Due(admin[c]) /\ Answers(i)
    BY <1>1, <1>14, OneUnderWay
  <2>2. old \in Rol!Stored
    BY <1>1, <1>3, <2>1 DEF Due
  <2>3. role[old] = row
    BY <1>6, <2>2 DEF Rol!Stored
  <2>4. role' = role
    BY <1>4, <2>3
  <2> QED  BY <2>1, <2>4 DEF Answers, Rol!With, Rol!Stored
<1> QED  BY <1>1, <1>5, <1>7, <1>8, <1>11, <1>12, <1>13, <1>14, RoleIsWritten

\* deleteTenantRole() deletes one that nobody holds.
LEMMA RoleIsDeleted == ASSUME RoleInv, NEW c \in Callers, Rol!Delete(c) PROVE RoleInv'
<1>1. /\ admin[c].op = "retire" /\ admin[c].id \notin Rol!Held
      /\ role' = [role EXCEPT ![admin[c].id] = NoRole]
      /\ Rol!Goes(c, Rol!Idle) /\ apart' = apart
      /\ UNCHANGED <<member, granted, roles, members, given>>
  BY DEF Rol!Delete, Rol!At, Rol!Ends, Rol!Deletable, RoleInv, RoleTypes
<1>2. PICK old \in Rol!Ids : old = admin[c].id
  BY <1>1, CallParts DEF RoleInv, RoleTypes
<1>3. /\ role \in [Rol!Ids -> Rol!Role \union {NoRole}] /\ role' = [role EXCEPT ![old] = NoRole]
  BY <1>1, <1>2 DEF RoleInv, RoleTypes
<1>4. /\ role' \in [Rol!Ids -> Rol!Role \union {NoRole}] /\ role'[old] = NoRole
      /\ \A i \in Rol!Ids \ {old} : role'[i] = role[i]
  BY <1>3
<1>5. roles' \in 0..MaxRoles /\ roles <= roles'
  BY <1>1, RoleBounds DEF RoleInv, RoleTypes
<1>6. \A i \in Rol!Ids : i > roles' => role'[i] = NoRole
  BY <1>1, <1>4 DEF RoleInv, RowsStay
<1>7. Rol!Stored' = Rol!Stored \ {old}
  BY <1>4 DEF Rol!Stored
<1>8. \A i, j \in Rol!Stored' : role'[i] = role'[j] => i = j
  BY <1>4, <1>7 DEF RoleInv, RowsStay, Rol!Stored
<1>9. ASSUME NEW d \in Callers \ {c}, admin[d].op = "change" PROVE role'[admin[d].id] \in {NoRole, admin[d].row}
  <2>1. admin[d].id \in Rol!Ids /\ role[admin[d].id] \in {NoRole, admin[d].row}
    BY <1>9, CallParts DEF RoleInv, RoleTypes, RowsStay
  <2> QED  BY <1>4, <2>1
<1>10. \A i \in Rol!Held : i \in Rol!Stored' /\ i # old
  BY <1>1, <1>2, <1>7 DEF RoleInv, GrantsStand, Rol!Held
<1>11. ASSUME apart, NEW i \in Rol!Held PROVE Answers(i)'
  <2>1. Answers(i) /\ i \in Rol!Ids
    BY <1>1, <1>11, OneUnderWay DEF Rol!Stored
  <2>2. role'[i] = role[i]
    BY <1>4, <1>10, <2>1
  <2>3. \A scope, key : Rol!With(scope, key)' \subseteq Rol!With(scope, key)
    BY <1>4, <1>7 DEF Rol!With, Rol!Stored
  <2> QED  BY <2>1, <2>2, <2>3 DEF Answers
<1> QED  BY <1>1, <1>4, <1>5, <1>6, <1>8, <1>9, <1>10, <1>11, RoleIsWritten

\* removeMembership() takes the grants with it.
LEMMA MemberIsRemoved == ASSUME RoleInv, Rol!Remove PROVE RoleInv'
<1>1. /\ member # NoMember /\ member' = NoMember
      /\ granted' = {g \in granted : g.member # member}
      /\ apart' = (apart /\ \A c \in Callers : admin[c] = Rol!Idle)
      /\ given' = {}
      /\ UNCHANGED <<role, roles, members, admin>>
  BY DEF Rol!Remove, Rol!Means
<1>2. granted' = {}
  BY <1>1 DEF RoleInv, GrantsStand
<1>3. RoleTypes'
  BY <1>1, <1>2 DEF RoleInv, RoleTypes
<1>4. RowsStay'
  BY <1>1 DEF RoleInv, RowsStay, Rol!Stored
<1>5. GrantsStand'
  BY <1>2 DEF GrantsStand
<1>6. ASSUME apart' PROVE InTurn'
  <2>1. \A c \in Callers : admin'[c] = Rol!Idle
    BY <1>1, <1>6
  <2>2. Rol!Held' = {}
    BY <1>2 DEF Rol!Held
  <2>3. \A c \in Callers : Due(admin[c])'
    BY <2>1 DEF Due, Rol!Idle
  <2>4. \A c \in Callers : ~Giving(admin'[c])
    BY <2>1, IdleIsDue
  <2> QED  BY <1>1, <2>1, <2>2, <2>3, <2>4 DEF InTurn, Giving
<1> QED  BY <1>3, <1>4, <1>5, <1>6 DEF RoleInv

\* Every step keeps what the calls rely on.
LEMMA RolesGoOn == ASSUME RoleInv, [Rol!Next]_(Rol!roleVars) PROVE RoleInv'
<1>1. CASE Rol!Remove
  BY <1>1, MemberIsRemoved
<1>2. ASSUME NEW c \in Callers,
             Rol!Stop(c) \/ Rol!Insert(c) \/ Rol!SaveChange(c) \/ Rol!Delete(c) \/ Rol!Join(c) \/ Rol!SaveMember(c)
             \/ Rol!Resolve(c) \/ Rol!Clear(c) \/ Rol!Give(c) \/ Rol!InsertGrant(c) \/ Rol!DeleteGrant(c)
      PROVE  RoleInv'
  BY <1>2, CallStops, RoleIsInserted, RoleIsSaved, RoleIsDeleted, MemberJoins, MemberIsSaved,
     RolesAreResolved, GrantsAreCleared, RolesAreGiven, GrantIsInserted, GrantIsDeleted
<1>3. ASSUME NEW c \in Callers, NEW i \in Rol!Ids, Rol!Change(c, i) \/ Rol!Retire(c, i) PROVE RoleInv'
  BY <1>3, RoleIsRead, RoleIsRetired
<1>4. ASSUME NEW c \in Callers, NEW key \in Keys,
             \/ Rol!Grant(c, key) \/ Rol!Revoke(c, key)
             \/ \E scope \in {"system", "tenant"} : Rol!Define(c, scope, key)
      PROVE  RoleInv'
  BY <1>4, GrantIsAsked, RevocationIsAsked, RoleIsDefined
<1>5. ASSUME NEW c \in Callers, NEW keys \in SUBSET Keys,
             Rol!SetRoles(c, keys) \/ \E status \in BOOLEAN : Rol!Add(c, keys, status)
      PROVE  RoleInv'
  BY <1>5, RolesAreSet, MemberIsAdded
<1>6. CASE UNCHANGED Rol!roleVars
  <2>1. UNCHANGED <<role, member, granted, roles, members, admin, given>>
    BY <1>6 DEF Rol!roleVars
  <2>2. apart' = apart
    BY <1>6 DEF Rol!roleVars
  <2>3. RoleTypes'
    BY <2>1, <2>2 DEF RoleInv, RoleTypes
  <2>4. RowsStay' /\ GrantsStand'
    BY <2>1 DEF RoleInv, RowsStay, GrantsStand, Rol!Stored
  <2>5. Rol!Held' = Rol!Held /\ \A i : Answers(i)' <=> Answers(i)
    BY <2>1 DEF Rol!Held, Answers, Rol!With, Rol!Stored
  <2>6. \A c \in Callers : Due(admin[c]) => Due(admin[c])'
    BY <2>1, <2>5 DEF Due, Rol!FindByKey, Rol!With, Rol!Stored
  <2>7. InTurn => InTurn'
    BY <2>1, <2>5, <2>6 DEF InTurn, Giving
  <2> QED  BY <2>2, <2>3, <2>4, <2>7 DEF RoleInv
<1>7. Rol!Next \/ UNCHANGED Rol!roleVars
  OBVIOUS
<1> QED  BY <1>1, <1>2, <1>3, <1>4, <1>5, <1>6, <1>7 DEF Rol!Next

\* role.service.ts and user.service.ts: the roles held are of the member there
\* is, and there; no key names two of a scope; and they are those given, where
\* calls follow one another, for any number of roles, keys, members and calls.
THEOREM GrantsAreMeantAlways == Rol!Spec => []Rol!GrantsAreMeant
<1>1. RoleInv => Rol!GrantsAreMeant
  <2>1. ASSUME RoleInv, apart, \A c \in Callers : admin[c] = Rol!Idle PROVE Rol!Held = given
    BY <2>1, IdleIsDue DEF RoleInv, InTurn
  <2>2. ASSUME RoleInv PROVE /\ \A g \in granted : g.member = member /\ g.role \in Rol!Stored
                             /\ \A i, j \in Rol!Stored : role[i] = role[j] => i = j
    BY <2>2 DEF RoleInv, GrantsStand, RowsStay
  <2> QED  BY <2>1, <2>2 DEF Rol!GrantsAreMeant
<1> QED  BY <1>1, RolesGoOn, RolesBegin, PTL DEF Rol!Spec

----------------------------------------------------------------------------
(* Tenants *)

\* A scope, and a stack of them: no entry but of a change that stands or falls
\* with it.
IsScope(s) == s = [writes |-> s.writes, changes |-> s.changes, entries |-> s.entries] /\ s.entries \subseteq s.changes
Layers(q) == {q[i] : i \in 1..Len(q)}
IsStack(q) == q \in Seq(Layers(q)) /\ \A i \in 1..Len(q) : IsScope(q[i])

\* No connection that is free is bound.
FreeIsUnbound == \A c \in Connections : Ten!Free(c) => setting[c] = NoTenant

\* What the last statement touched was its tenant's, and passed the policies.
Touching ==
  /\ db.policy # {} => Ten!Applies
  /\ last.op \in {"find", "update", "delete"} => last.touched \subseteq {last.as}
  /\ Ten!Applies => last.touched \subseteq {last.setting} /\ (last.touched = {} \/ last.setting # NoTenant)
  /\ Ten!Applies /\ last.op = "save" => last.touched \subseteq {last.as}

\* A change that is owed is in the scope that is open, or committed, as the
\* context says.
Uppermost(q) == q[Len(q)]
Owing ==
  \A f \in Callers : owed[f] # Ten!NoChange =>
    /\ stage[f] # "none"
    /\ owed[f] = [n |-> owed[f].n, tenant |-> context[f].tenant, correlation |-> context[f].correlation]
    /\ owed[f] \in (IF levels[f] = <<>> THEN lasting ELSE Uppermost(levels[f]).changes)

FlowTypes ==
  /\ setting = [c \in Connections |-> setting[c]]
  /\ stage = [f \in Callers |-> stage[f]] /\ context = [f \in Callers |-> context[f]]
  /\ held \in [Callers -> Connections \union {NoConnection}]
  /\ levels = [f \in Callers |-> levels[f]] /\ owed = [f \in Callers |-> owed[f]]
  /\ \A f \in Callers : IsStack(levels[f]) /\ (levels[f] # <<>> => held[f] \in Connections)

TenantInv == FlowTypes /\ FreeIsUnbound /\ Touching /\ Owing /\ trail \subseteq lasting

\* What the constants are.
LEMMA FlowBounds == NoConnection \notin Connections
BY RowsAssumption

\* A stack of nothing.
LEMMA StackEmpty == IsStack(<<>>)
BY DEF IsStack, Layers

\* What is put upon a stack is uppermost.
LEMMA StackPush ==
  ASSUME NEW q, IsStack(q), NEW s, IsScope(s)
  PROVE  IsStack(Append(q, s)) /\ Append(q, s) # <<>> /\ Uppermost(Append(q, s)) = s
<1>1. PICK S : S = Layers(q) \union {s}
  OBVIOUS
<1>2. q \in Seq(S) /\ s \in S /\ Layers(q) \subseteq S
  BY <1>1 DEF IsStack
<1>3. /\ Append(q, s) \in Seq(S) /\ Len(Append(q, s)) = Len(q) + 1 /\ Len(q) \in Nat
      /\ Append(q, s)[Len(q) + 1] = s
      /\ \A i \in 1..Len(q) : Append(q, s)[i] = q[i]
  BY <1>2, AppendProperties, LenProperties
<1>4. \A i \in 1..(Len(q) + 1) : i \in 1..Len(q) \/ i = Len(q) + 1
  BY <1>3
<1>5. \A i \in 1..Len(Append(q, s)) : IsScope(Append(q, s)[i])
  BY <1>3, <1>4 DEF IsStack
<1>6. Append(q, s) \in Seq(Layers(Append(q, s)))
  <2>1. PICK p : p = Append(q, s)
    OBVIOUS
  <2>2. p \in Seq(S)
    BY <1>3, <2>1
  <2>3. Len(p) \in Nat /\ p \in [1..Len(p) -> S]
    BY <2>2, LenProperties
  <2>4. p \in [1..Len(p) -> Layers(p)]
    BY <2>3 DEF Layers
  <2>5. p \in Seq(Layers(p))
    BY <2>3, <2>4, SeqDef
  <2> QED  BY <2>1, <2>5
<1>7. Append(q, s) # <<>>
  BY <1>3
<1> QED  BY <1>3, <1>5, <1>6, <1>7 DEF IsStack, Uppermost

\* A stack without its last.
LEMMA StackPop ==
  ASSUME NEW q, IsStack(q), q # <<>>
  PROVE  IsStack(Ten!Front(q)) /\ Ten!Last(q) = Uppermost(q) /\ IsScope(Uppermost(q))
<1>1. PICK S : S = Layers(q)
  OBVIOUS
<1>2. q \in Seq(S)
  BY <1>1 DEF IsStack
<1>3. Len(q) \in Nat \ {0} /\ q \in [1..Len(q) -> S]
  BY <1>2, EmptySeq, LenProperties
<1>4. IsScope(Uppermost(q)) /\ Ten!Last(q) = Uppermost(q)
  BY <1>3 DEF IsStack, Uppermost, Ten!Last
<1>5. PICK p : p = SubSeq(q, 1, Len(q) - 1)
  OBVIOUS
<1>6. 1 \in 1..(Len(q) + 1) /\ Len(q) - 1 \in 0..Len(q) /\ \A i \in 1..(Len(q) - 1) : i \in 1..Len(q)
  BY <1>3
<1>7. p \in Seq(S) /\ Len(p) = Len(q) - 1 /\ \A i \in 1..(Len(q) - 1) : p[i] = q[i]
  <2>1. \A i \in 1..(Len(q) - 1) : q[i] \in S
    BY <1>3, <1>6
  <2>2. p = [i \in 1..(Len(q) - 1) |-> q[i]]
    BY <1>3, <1>5
  <2>3. p \in [1..(Len(q) - 1) -> S] /\ Len(q) - 1 \in Nat
    BY <1>3, <2>1, <2>2
  <2>4. p \in Seq(S)
    BY <2>3, SeqDef
  <2>5. Len(p) = Len(q) - 1
    BY <2>3, <2>4, LenProperties
  <2> QED  BY <2>2, <2>4, <2>5
<1>8. \A i \in 1..Len(p) : IsScope(p[i])
  BY <1>6, <1>7 DEF IsStack
<1>9. p \in Seq(Layers(p))
  <2>1. Len(p) \in Nat /\ p \in [1..Len(p) -> S]
    BY <1>7, LenProperties
  <2>2. p \in [1..Len(p) -> Layers(p)]
    BY <2>1 DEF Layers
  <2> QED  BY <2>1, <2>2, SeqDef
<1> QED  BY <1>4, <1>5, <1>8, <1>9 DEF IsStack, Ten!Front

\* Nobody is bound, and nothing is done, at first.
LEMMA FlowsBegin == Ten!Init => TenantInv
<1> SUFFICES ASSUME Ten!Init PROVE TenantInv
  OBVIOUS
<1>1. /\ stage = [f \in Callers |-> "none"]
      /\ context = [f \in Callers |-> [tenant |-> NoTenant, correlation |-> f]]
      /\ held = [f \in Callers |-> NoConnection] /\ levels = [f \in Callers |-> <<>>]
      /\ setting = [c \in Connections |-> NoTenant]
      /\ trail = {} /\ owed = [f \in Callers |-> Ten!NoChange]
      /\ last = [op |-> "none", as |-> NoTenant, setting |-> NoTenant, touched |-> {}]
  BY DEF Ten!Init, Ten!Nothing
<1>2. db.policy # {} => Ten!Applies
  <2>1. db.policy \in {{}, Ten!EnableRls} /\ ~db.role.superuser /\ ~db.role.bypassRls
    <3>1. db \in [role : [superuser : BOOLEAN, bypassRls : BOOLEAN, owner : {TRUE}], policy : {{}, Ten!EnableRls}]
      BY DEF Ten!Init
    <3>2. db.policy \in {{}, Ten!EnableRls}
      BY <3>1
    <3>3. ~db.role.superuser /\ ~db.role.bypassRls
      BY DEF Ten!Init, Ten!RlsEffective
    <3> QED  BY <3>2, <3>3
  <2>2. db.policy # {} => "enabled" \in db.policy /\ "forced" \in db.policy
    BY <2>1 DEF Ten!EnableRls
  <2> QED  BY <2>1, <2>2 DEF Ten!Applies, Ten!Bypasses
<1>3. Touching
  BY <1>1, <1>2 DEF Touching
<1>4. FlowTypes
  BY <1>1, StackEmpty DEF FlowTypes
<1>5. FreeIsUnbound
  BY <1>1 DEF FreeIsUnbound
<1>6. Owing
  BY <1>1 DEF Owing
<1> QED  BY <1>1, <1>3, <1>4, <1>5, <1>6 DEF TenantInv

\* What the role may do is as it was.
LEMMA PolicyStands == ASSUME db' = db PROVE Ten!Applies' <=> Ten!Applies
BY DEF Ten!Applies, Ten!Bypasses

\* What is not a statement touches nothing.
LEMMA TouchingStands == ASSUME Touching, db' = db, last' = last PROVE Touching'
BY PolicyStands DEF Touching

\* A request comes: it is owed nothing.
LEMMA RequestComes ==
  ASSUME TenantInv, NEW f \in Callers, NEW answers, NEW allow, Ten!Request(f, answers, allow)
  PROVE  TenantInv'
<1>1. /\ stage[f] = "none"
      /\ UNCHANGED <<db, held, levels, setting, notes, trail, lasting, owed, statements, last>>
  BY DEF Ten!Request
<1>2. PICK to : stage' = [stage EXCEPT ![f] = to]
  BY DEF Ten!Request
<1>3. \/ context' = context
      \/ \E tenant : context' = [context EXCEPT ![f].tenant = tenant]
  BY DEF Ten!Request
<1>4. /\ stage' = [g \in Callers |-> stage'[g]] /\ context' = [g \in Callers |-> context'[g]]
      /\ \A g \in Callers \ {f} : stage'[g] = stage[g] /\ context'[g] = context[g]
  BY <1>2, <1>3 DEF TenantInv, FlowTypes
<1>5. owed[f] = Ten!NoChange
  BY <1>1 DEF TenantInv, Owing
<1>6. FlowTypes'
  BY <1>1, <1>4 DEF TenantInv, FlowTypes
<1>7. Owing'
  BY <1>1, <1>4, <1>5 DEF TenantInv, Owing, Ten!NoChange
<1>8. FreeIsUnbound'
  BY <1>1 DEF TenantInv, FreeIsUnbound, Ten!Free
<1>9. Touching'
  BY <1>1, TouchingStands DEF TenantInv
<1> QED  BY <1>1, <1>6, <1>7, <1>8, <1>9 DEF TenantInv

\* runInChildContext(): nor is a flow that begins so.
LEMMA ChildComes ==
  ASSUME TenantInv, NEW f \in Callers, NEW child \in Callers, Ten!RunInChildContext(f, child)
  PROVE  TenantInv'
<1>1. /\ stage[child] = "none" /\ stage' = [stage EXCEPT ![child] = "working"]
      /\ context' = [context EXCEPT ![child] = context[f]]
      /\ UNCHANGED <<db, held, levels, setting, notes, trail, lasting, owed, statements, last>>
  BY DEF Ten!RunInChildContext
<1>2. /\ stage' = [g \in Callers |-> stage'[g]] /\ context' = [g \in Callers |-> context'[g]]
      /\ \A g \in Callers \ {child} : stage'[g] = stage[g] /\ context'[g] = context[g]
  BY <1>1 DEF TenantInv, FlowTypes
<1>3. owed[child] = Ten!NoChange
  BY <1>1 DEF TenantInv, Owing
<1>4. FlowTypes'
  BY <1>1, <1>2 DEF TenantInv, FlowTypes
<1>5. Owing'
  BY <1>1, <1>2, <1>3 DEF TenantInv, Owing, Ten!NoChange
<1>6. FreeIsUnbound'
  BY <1>1 DEF TenantInv, FreeIsUnbound, Ten!Free
<1>7. Touching'
  BY <1>1, TouchingStands DEF TenantInv
<1> QED  BY <1>1, <1>4, <1>5, <1>6, <1>7 DEF TenantInv

\* A scope opens: of a new transaction, on a connection nobody else has, or
\* inside one.
LEMMA ScopeOpens ==
  ASSUME TenantInv, NEW f \in Callers, NEW bound, NEW named, Ten!Begin(f, bound, named)
  PROVE  TenantInv'
<1>1. /\ owed[f] = Ten!NoChange
      /\ levels' = [levels EXCEPT ![f] = Append(levels[f], Ten!Scope)]
      /\ UNCHANGED <<db, stage, context, notes, trail, lasting, owed, statements, last>>
  BY DEF Ten!Begin
<1>2. IsStack(levels[f])
  BY DEF TenantInv, FlowTypes
<1>3. IsScope(Ten!Scope)
  BY DEF IsScope, Ten!Scope
<1>4. IsStack(Append(levels[f], Ten!Scope))
  BY <1>2, <1>3, StackPush
<1>5. /\ levels' = [g \in Callers |-> levels'[g]] /\ \A g \in Callers : IsStack(levels'[g])
      /\ \A g \in Callers \ {f} : levels'[g] = levels[g]
  BY <1>1, <1>4 DEF TenantInv, FlowTypes
<1>6. /\ held' \in [Callers -> Connections \union {NoConnection}] /\ held'[f] \in Connections
      /\ \A g \in Callers \ {f} : held'[g] = held[g]
      /\ setting' = [c \in Connections |-> setting'[c]]
      /\ \A c \in Connections : Ten!Free(c)' => setting'[c] = NoTenant
  <2>1. CASE held[f] # NoConnection /\ UNCHANGED <<held, setting>>
    BY <2>1 DEF TenantInv, FlowTypes, FreeIsUnbound, Ten!Free
  <2>2. ASSUME held[f] = NoConnection, NEW c \in Connections, held' = [held EXCEPT ![f] = c],
               \/ setting' = setting
               \/ \E tenant : setting' = [setting EXCEPT ![c] = tenant]
        PROVE  /\ held' \in [Callers -> Connections \union {NoConnection}] /\ held'[f] \in Connections
               /\ \A g \in Callers \ {f} : held'[g] = held[g]
               /\ setting' = [d \in Connections |-> setting'[d]]
               /\ \A d \in Connections : Ten!Free(d)' => setting'[d] = NoTenant
    <3>1. /\ held' \in [Callers -> Connections \union {NoConnection}] /\ held'[f] = c
          /\ \A g \in Callers \ {f} : held'[g] = held[g]
      BY <2>2 DEF TenantInv, FlowTypes
    <3>2. setting' = [d \in Connections |-> setting'[d]] /\ \A d \in Connections \ {c} : setting'[d] = setting[d]
      BY <2>2 DEF TenantInv, FlowTypes
    <3>3. ASSUME NEW d \in Connections, Ten!Free(d)' PROVE setting'[d] = NoTenant
      <4>1. d # c
        BY <3>1, <3>3 DEF Ten!Free
      <4>2. Ten!Free(d)
        BY <2>2, <3>1, <3>3, FlowBounds DEF Ten!Free
      <4> QED  BY <3>2, <4>1, <4>2 DEF TenantInv, FreeIsUnbound
    <3> QED  BY <2>2, <3>1, <3>2, <3>3
  <2>3. \/ held[f] # NoConnection /\ UNCHANGED <<held, setting>>
        \/ /\ held[f] = NoConnection
           /\ \E c \in Connections :
                /\ held' = [held EXCEPT ![f] = c]
                /\ \/ setting' = setting
                   \/ \E tenant : setting' = [setting EXCEPT ![c] = tenant]
    BY DEF Ten!Begin, Ten!Bind
  <2> QED  BY <2>1, <2>2, <2>3
<1>7. FlowTypes'
  BY <1>1, <1>5, <1>6 DEF TenantInv, FlowTypes
<1>8. Owing'
  BY <1>1, <1>5 DEF TenantInv, Owing, Ten!NoChange
<1>9. FreeIsUnbound'
  BY <1>6 DEF FreeIsUnbound
<1>10. Touching'
  BY <1>1, TouchingStands DEF TenantInv
<1> QED  BY <1>1, <1>7, <1>8, <1>9, <1>10 DEF TenantInv

\* A scope ends: what it changed and what it says of that go the same way.
LEMMA ScopeEnds == ASSUME TenantInv, NEW f \in Callers, NEW succeeds, Ten!End(f, succeeds) PROVE TenantInv'
<1>1. /\ levels[f] # <<>> /\ owed' = [owed EXCEPT ![f] = Ten!NoChange]
      /\ UNCHANGED <<db, stage, context, statements, last>>
  BY DEF Ten!End
<1>2. IsStack(levels[f]) /\ held[f] \in Connections
  BY <1>1 DEF TenantInv, FlowTypes
<1>3. PICK inner : inner = Ten!Last(levels[f]) /\ IsScope(inner)
  BY <1>1, <1>2, StackPop
<1>4. PICK outer : outer = Ten!Front(levels[f]) /\ IsStack(outer)
  BY <1>1, <1>2, StackPop
<1>5. CASE outer = <<>>
  <2>1. /\ held' = [held EXCEPT ![f] = NoConnection]
        /\ setting' = [setting EXCEPT ![held[f]] = NoTenant]
        /\ levels' = [levels EXCEPT ![f] = <<>>]
        /\ lasting' = (IF succeeds THEN lasting \union inner.changes ELSE lasting)
        /\ trail' = (IF succeeds THEN trail \union inner.entries ELSE trail)
    BY <1>3, <1>4, <1>5 DEF Ten!End, Ten!Unbound
  <2>2. /\ levels' = [g \in Callers |-> levels'[g]] /\ levels'[f] = <<>>
        /\ \A g \in Callers \ {f} : levels'[g] = levels[g]
        /\ owed' = [g \in Callers |-> owed'[g]] /\ owed'[f] = Ten!NoChange
        /\ \A g \in Callers \ {f} : owed'[g] = owed[g]
    BY <1>1, <2>1 DEF TenantInv, FlowTypes
  <2>3. /\ held' \in [Callers -> Connections \union {NoConnection}] /\ held'[f] = NoConnection
        /\ \A g \in Callers \ {f} : held'[g] = held[g]
    BY <2>1 DEF TenantInv, FlowTypes
  <2>4. /\ setting' = [c \in Connections |-> setting'[c]] /\ setting'[held[f]] = NoTenant
        /\ \A c \in Connections \ {held[f]} : setting'[c] = setting[c]
    BY <1>2, <2>1 DEF TenantInv, FlowTypes
  <2>5. FlowTypes'
    BY <1>1, <2>2, <2>3, <2>4, StackEmpty DEF TenantInv, FlowTypes
  <2>6. FreeIsUnbound'
    <3>1. ASSUME NEW c \in Connections, Ten!Free(c)', c # held[f] PROVE Ten!Free(c)
      BY <2>3, <3>1 DEF Ten!Free
    <3> QED  BY <2>4, <3>1 DEF TenantInv, FreeIsUnbound
  <2>7. lasting \subseteq lasting'
    BY <2>1
  <2>8. Owing'
    BY <1>1, <2>2, <2>7 DEF TenantInv, Owing, Ten!NoChange
  <2>9. trail' \subseteq lasting'
    BY <1>3, <2>1 DEF TenantInv, IsScope
  <2>10. Touching'
    BY <1>1, TouchingStands DEF TenantInv
  <2> QED  BY <2>5, <2>6, <2>8, <2>9, <2>10 DEF TenantInv
<1>6. CASE outer # <<>>
  <2>1. PICK rest : rest = Ten!Front(outer) /\ IsStack(rest)
    BY <1>4, <1>6, StackPop
  <2>2. PICK under : under = Ten!Last(outer) /\ IsScope(under)
    BY <1>4, <1>6, StackPop
  <2>3. /\ UNCHANGED <<held, setting, notes, lasting, trail>>
        /\ \/ levels' = [levels EXCEPT ![f] = outer]
           \/ \E writes : levels' = [levels EXCEPT ![f] =
                Append(rest, [writes |-> writes, changes |-> inner.changes \union under.changes,
                              entries |-> inner.entries \union under.entries])]
    BY <1>3, <1>4, <1>6, <2>1, <2>2 DEF Ten!End
  <2>4. PICK after : levels' = [levels EXCEPT ![f] = after] /\ IsStack(after)
    <3>1. CASE levels' = [levels EXCEPT ![f] = outer]
      BY <1>4, <3>1
    <3>2. ASSUME NEW writes,
                 levels' = [levels EXCEPT ![f] =
                   Append(rest, [writes |-> writes, changes |-> inner.changes \union under.changes,
                                 entries |-> inner.entries \union under.entries])]
          PROVE  \E after : levels' = [levels EXCEPT ![f] = after] /\ IsStack(after)
      <4>1. PICK scope : scope = [writes |-> writes, changes |-> inner.changes \union under.changes,
                                  entries |-> inner.entries \union under.entries]
        OBVIOUS
      <4>2. IsScope(scope)
        BY <1>3, <2>2, <4>1 DEF IsScope
      <4>3. IsStack(Append(rest, scope))
        BY <2>1, <4>2, StackPush
      <4> QED  BY <3>2, <4>1, <4>3
    <3> QED  BY <2>3, <3>1, <3>2
  <2>5. /\ levels' = [g \in Callers |-> levels'[g]] /\ levels'[f] = after
        /\ \A g \in Callers \ {f} : levels'[g] = levels[g]
        /\ owed' = [g \in Callers |-> owed'[g]] /\ owed'[f] = Ten!NoChange
        /\ \A g \in Callers \ {f} : owed'[g] = owed[g]
    BY <1>1, <2>4 DEF TenantInv, FlowTypes
  <2>6. FlowTypes'
    BY <1>1, <1>2, <2>3, <2>4, <2>5 DEF TenantInv, FlowTypes
  <2>7. Owing'
    BY <1>1, <2>3, <2>5 DEF TenantInv, Owing, Ten!NoChange
  <2>8. FreeIsUnbound'
    BY <2>3 DEF TenantInv, FreeIsUnbound, Ten!Free
  <2>9. Touching'
    BY <1>1, TouchingStands DEF TenantInv
  <2> QED  BY <2>3, <2>6, <2>7, <2>8, <2>9 DEF TenantInv
<1> QED  BY <1>5, <1>6

\* The scope that is open gets more: what it changed and what it says are still
\* of a piece.
LEMMA ScopeGrows ==
  ASSUME FlowTypes, NEW f \in Callers, levels[f] # <<>>, NEW scope, IsScope(scope), Ten!Reopened(f, scope)
  PROVE  /\ levels' = [g \in Callers |-> levels'[g]] /\ IsStack(levels'[f])
         /\ levels'[f] # <<>> /\ Uppermost(levels'[f]) = scope
         /\ \A g \in Callers \ {f} : levels'[g] = levels[g]
<1>1. IsStack(levels[f])
  BY DEF FlowTypes
<1>2. IsStack(Ten!Front(levels[f]))
  BY <1>1, StackPop
<1>3. PICK after : after = Append(Ten!Front(levels[f]), scope)
  OBVIOUS
<1>4. IsStack(after) /\ after # <<>> /\ Uppermost(after) = scope
  BY <1>2, <1>3, StackPush
<1>5. levels' = [levels EXCEPT ![f] = after]
  BY <1>3 DEF Ten!Reopened
<1>6. levels' = [g \in Callers |-> levels'[g]] /\ levels'[f] = after /\ \A g \in Callers \ {f} : levels'[g] = levels[g]
  BY <1>5 DEF FlowTypes
<1> QED  BY <1>4, <1>6

\* The scope that is open.
LEMMA ScopeIsOpen ==
  ASSUME FlowTypes, NEW f \in Callers, levels[f] # <<>>
  PROVE  Ten!Open(f) = Uppermost(levels[f]) /\ IsScope(Ten!Open(f))
BY StackPop DEF FlowTypes, Ten!Open

\* A row is written: the change is owed its entry, where it is.
LEMMA RowIsWritten ==
  ASSUME TenantInv, NEW f \in Callers, NEW id, NEW tenant, Ten!Write(f, id, tenant), stage[f] = "working",
         UNCHANGED <<db, stage, context, held, setting>>
  PROVE  FlowTypes' /\ FreeIsUnbound' /\ Owing' /\ trail' \subseteq lasting'
<1>1. PICK change : change = [n |-> statements + 1, tenant |-> context[f].tenant, correlation |-> context[f].correlation]
  OBVIOUS
<1>2. change = [n |-> change.n, tenant |-> context[f].tenant, correlation |-> context[f].correlation]
  BY <1>1
<1>3. owed' = [owed EXCEPT ![f] = change] /\ trail' = trail
  BY <1>1 DEF Ten!Write
<1>4. owed' = [g \in Callers |-> owed'[g]] /\ owed'[f] = change /\ \A g \in Callers \ {f} : owed'[g] = owed[g]
  BY <1>3 DEF TenantInv, FlowTypes
<1>5. FreeIsUnbound'
  BY DEF TenantInv, FreeIsUnbound, Ten!Free
<1>6. CASE levels[f] = <<>>
  <2>1. lasting' = lasting \union {change} /\ levels' = levels
    BY <1>1, <1>6 DEF Ten!Write
  <2>2. FlowTypes'
    BY <1>4, <2>1 DEF TenantInv, FlowTypes
  <2>3. Owing'
    BY <1>2, <1>4, <1>6, <2>1 DEF TenantInv, Owing, Ten!NoChange
  <2> QED  BY <1>3, <1>5, <2>1, <2>2, <2>3 DEF TenantInv
<1>7. CASE levels[f] # <<>>
  <2>1. PICK scope : /\ Ten!Reopened(f, scope) /\ IsScope(scope) /\ change \in scope.changes
    <3>1. PICK writes :
            Ten!Reopened(f, [writes |-> writes, changes |-> Ten!Open(f).changes \union {change}, entries |-> Ten!Open(f).entries])
      BY <1>1, <1>7 DEF Ten!Write
    <3>2. PICK scope : scope = [writes |-> writes, changes |-> Ten!Open(f).changes \union {change}, entries |-> Ten!Open(f).entries]
      OBVIOUS
    <3>3. IsScope(scope) /\ change \in scope.changes
      BY <1>7, <3>2, ScopeIsOpen DEF IsScope, TenantInv
    <3> QED  BY <3>1, <3>2, <3>3
  <2>2. /\ levels' = [g \in Callers |-> levels'[g]] /\ IsStack(levels'[f])
        /\ levels'[f] # <<>> /\ Uppermost(levels'[f]) = scope
        /\ \A g \in Callers \ {f} : levels'[g] = levels[g]
    BY <1>7, <2>1, ScopeGrows DEF TenantInv
  <2>3. lasting' = lasting
    BY <1>7 DEF Ten!Write
  <2>4. FlowTypes'
    BY <1>4, <1>7, <2>2 DEF TenantInv, FlowTypes
  <2>5. Owing'
    BY <1>2, <1>4, <2>1, <2>2, <2>3 DEF TenantInv, Owing, Ten!NoChange
  <2> QED  BY <1>3, <1>5, <2>3, <2>4, <2>5 DEF TenantInv
<1> QED  BY <1>6, <1>7

\* The change that is owed its entry gets it, where it is.
LEMMA EntryIsWritten == ASSUME TenantInv, NEW f \in Callers, Ten!Record(f) PROVE TenantInv'
<1>1. /\ owed[f] # Ten!NoChange /\ owed' = [owed EXCEPT ![f] = Ten!NoChange]
      /\ Ten!Trailed(f, [n |-> owed[f].n, tenant |-> context[f].tenant, correlation |-> context[f].correlation])
      /\ UNCHANGED <<db, stage, context, held, setting, notes, lasting, statements, last>>
  BY DEF Ten!Record
<1>2. /\ owed[f] = [n |-> owed[f].n, tenant |-> context[f].tenant, correlation |-> context[f].correlation]
      /\ owed[f] \in (IF levels[f] = <<>> THEN lasting ELSE Uppermost(levels[f]).changes)
  BY <1>1 DEF TenantInv, Owing
<1>3. PICK entry : entry = owed[f]
  OBVIOUS
<1>4. Ten!Trailed(f, entry)
  BY <1>1, <1>2, <1>3
<1>5. owed' = [g \in Callers |-> owed'[g]] /\ owed'[f] = Ten!NoChange /\ \A g \in Callers \ {f} : owed'[g] = owed[g]
  BY <1>1 DEF TenantInv, FlowTypes
<1>6. FreeIsUnbound'
  BY <1>1 DEF TenantInv, FreeIsUnbound, Ten!Free
<1>7. Touching'
  BY <1>1, TouchingStands DEF TenantInv
<1>8. CASE levels[f] = <<>>
  <2>1. trail' = trail \union {entry} /\ levels' = levels
    BY <1>4, <1>8 DEF Ten!Trailed
  <2>2. FlowTypes'
    BY <1>1, <1>5, <2>1 DEF TenantInv, FlowTypes
  <2>3. Owing'
    BY <1>1, <1>5, <2>1 DEF TenantInv, Owing, Ten!NoChange
  <2> QED  BY <1>1, <1>2, <1>3, <1>6, <1>7, <1>8, <2>1, <2>2, <2>3 DEF TenantInv
<1>9. CASE levels[f] # <<>>
  <2>1. PICK scope : Ten!Reopened(f, scope) /\ IsScope(scope)
    <3>1. PICK scope : scope = [writes |-> Ten!Open(f).writes, changes |-> Ten!Open(f).changes,
                                entries |-> Ten!Open(f).entries \union {entry}]
      OBVIOUS
    <3>2. Ten!Reopened(f, scope)
      BY <1>4, <1>9, <3>1 DEF Ten!Trailed
    <3>3. entry \in Ten!Open(f).changes
      BY <1>2, <1>3, <1>9, ScopeIsOpen DEF TenantInv
    <3>4. IsScope(scope)
      BY <1>9, <3>1, <3>3, ScopeIsOpen DEF IsScope, TenantInv
    <3> QED  BY <3>2, <3>4
  <2>2. /\ levels' = [g \in Callers |-> levels'[g]] /\ IsStack(levels'[f])
        /\ levels'[f] # <<>>
        /\ \A g \in Callers \ {f} : levels'[g] = levels[g]
    BY <1>9, <2>1, ScopeGrows DEF TenantInv
  <2>3. trail' = trail
    BY <1>4, <1>9 DEF Ten!Trailed
  <2>4. FlowTypes'
    BY <1>1, <1>5, <1>9, <2>2 DEF TenantInv, FlowTypes
  <2>5. Owing'
    BY <1>1, <1>5, <2>2 DEF TenantInv, Owing, Ten!NoChange
  <2> QED  BY <1>1, <1>6, <1>7, <2>3, <2>4, <2>5 DEF TenantInv
<1> QED  BY <1>8, <1>9

\* What a statement sees, the policies let it.
LEMMA SeenIsBound ==
  ASSUME NEW f, NEW c, NEW id \in Ten!Visible(f, c), Ten!Applies
  PROVE  Ten!View(f)[id] = setting[c] /\ setting[c] # NoTenant
BY DEF Ten!Visible, Ten!Passes

\* A statement touches what it sees; through a repository, what is its
\* tenant's.
LEMMA StatementTouches ==
  ASSUME TenantInv, NEW f, NEW c, NEW op, NEW touched, Ten!Stating(f, op, c, touched),
         op \in {"find", "update", "delete"} => touched \subseteq {context[f].tenant},
         Ten!Applies => touched \subseteq {setting[c]} /\ (touched = {} \/ setting[c] # NoTenant),
         Ten!Applies /\ op = "save" => touched \subseteq {context[f].tenant}
  PROVE  Touching' /\ UNCHANGED <<db, stage, context, held, setting>>
<1>1. /\ last' = [op |-> op, as |-> context[f].tenant, setting |-> setting[c], touched |-> touched]
      /\ UNCHANGED <<db, stage, context, held, setting>>
  BY DEF Ten!Stating
<1>2. last'.op = op /\ last'.as = context[f].tenant /\ last'.setting = setting[c] /\ last'.touched = touched
  BY <1>1
<1>3. Ten!Applies' <=> Ten!Applies
  BY <1>1, PolicyStands
<1>4. db'.policy # {} => Ten!Applies'
  BY <1>1, <1>3 DEF TenantInv, Touching
<1> QED  BY <1>1, <1>2, <1>3, <1>4 DEF Touching

\* What reads, and writes nothing.
LEMMA FlowReads ==
  ASSUME TenantInv, UNCHANGED <<db, stage, context, held, setting, levels, notes, trail, lasting, owed>>, Touching'
  PROVE  TenantInv'
<1>1. FlowTypes'
  BY DEF TenantInv, FlowTypes
<1>2. FreeIsUnbound'
  BY DEF TenantInv, FreeIsUnbound, Ten!Free
<1>3. Owing'
  BY DEF TenantInv, Owing, Ten!NoChange
<1> QED  BY <1>1, <1>2, <1>3 DEF TenantInv

\* find(): the rows of its tenant, of those it sees.
LEMMA RowsAreFound ==
  ASSUME TenantInv, NEW f \in Callers, NEW c \in Connections, NEW asked, Ten!Find(f, c, asked)
  PROVE  TenantInv'
<1>1. PICK touched : touched = {Ten!View(f)[id] : id \in Ten!Owned(f, c, asked)}
  OBVIOUS
<1>2. Ten!Stating(f, "find", c, touched) /\ UNCHANGED <<levels, notes, trail, lasting, owed>>
  BY <1>1 DEF Ten!Find
<1>3. \A id \in Ten!Owned(f, c, asked) : id \in Ten!Visible(f, c) /\ Ten!View(f)[id] = context[f].tenant
  BY DEF Ten!Owned, Ten!ScopedWhere
<1>4. touched \subseteq {context[f].tenant}
  BY <1>1, <1>3
<1>5. Ten!Applies => touched \subseteq {setting[c]} /\ (touched = {} \/ setting[c] # NoTenant)
  BY <1>1, <1>3, SeenIsBound
<1>6. Touching' /\ UNCHANGED <<db, stage, context, held, setting>>
  BY <1>2, <1>4, <1>5, StatementTouches
<1> QED  BY <1>2, <1>6, FlowReads

\* Whatever goes round the repository: what it sees.
LEMMA RowsAreRead ==
  ASSUME TenantInv, NEW f \in Callers, NEW c \in Connections, Ten!Raw(f, c)
  PROVE  TenantInv'
<1>1. PICK touched : touched = {Ten!View(f)[id] : id \in Ten!Visible(f, c)}
  OBVIOUS
<1>2. Ten!Stating(f, "raw", c, touched) /\ UNCHANGED <<levels, notes, trail, lasting, owed>>
  BY <1>1 DEF Ten!Raw
<1>3. Ten!Applies => touched \subseteq {setting[c]} /\ (touched = {} \/ setting[c] # NoTenant)
  BY <1>1, SeenIsBound
<1>4. Touching' /\ UNCHANGED <<db, stage, context, held, setting>>
  BY <1>2, <1>3, StatementTouches
<1> QED  BY <1>2, <1>4, FlowReads

\* save(): the row it finds, which the policies must pass as its tenant's too.
LEMMA RowIsSaved ==
  ASSUME TenantInv, NEW f \in Callers, NEW c \in Connections, NEW id, stage[f] = "working", Ten!Save(f, c, id)
  PROVE  TenantInv'
<1>1. PICK touched : touched = IF id \in Ten!Visible(f, c) THEN {Ten!View(f)[id]} ELSE {}
  OBVIOUS
<1>2. /\ Ten!Passes(context[f].tenant, setting[c]) /\ Ten!Stating(f, "save", c, touched)
      /\ Ten!Write(f, id, context[f].tenant)
  BY <1>1 DEF Ten!Save
<1>3. Ten!Applies => context[f].tenant = setting[c]
  BY <1>2 DEF Ten!Passes
<1>4. Ten!Applies => touched \subseteq {setting[c]} /\ (touched = {} \/ setting[c] # NoTenant)
  BY <1>1, SeenIsBound
<1>5. Touching' /\ UNCHANGED <<db, stage, context, held, setting>>
  BY <1>2, <1>3, <1>4, StatementTouches
<1> QED  BY <1>2, <1>5, RowIsWritten DEF TenantInv

\* update() and delete(): a row of its tenant, of those it sees.
LEMMA RowIsChanged ==
  ASSUME TenantInv, NEW f \in Callers, NEW c \in Connections, NEW id, NEW asked, stage[f] = "working",
         Ten!Update(f, c, id, asked) \/ Ten!Delete(f, c, id, asked)
  PROVE  TenantInv'
<1>1. PICK op \in {"update", "delete"} : \E tenant :
        Ten!Stating(f, op, c, {Ten!View(f)[id]}) /\ Ten!Write(f, id, tenant)
  BY DEF Ten!Update, Ten!Delete
<1>2. id \in Ten!Owned(f, c, asked)
  BY DEF Ten!Update, Ten!Delete
<1>3. id \in Ten!Visible(f, c) /\ Ten!View(f)[id] = context[f].tenant
  BY <1>2 DEF Ten!Owned, Ten!ScopedWhere
<1>4. Ten!Applies => {Ten!View(f)[id]} \subseteq {setting[c]} /\ setting[c] # NoTenant
  BY <1>3, SeenIsBound
<1>5. PICK touched : touched = {Ten!View(f)[id]}
  OBVIOUS
<1>6. Touching' /\ UNCHANGED <<db, stage, context, held, setting>>
  BY <1>1, <1>3, <1>4, <1>5, StatementTouches
<1> QED  BY <1>1, <1>6, RowIsWritten DEF TenantInv

\* Every step keeps tenants apart.
LEMMA FlowsGoOn == ASSUME TenantInv, [Ten!Next]_(Ten!tenancyVars) PROVE TenantInv'
<1>1. ASSUME NEW f \in Callers,
             \/ Ten!Record(f)
             \/ \E answers, allow : Ten!Request(f, answers, allow)
             \/ \E child \in Callers : Ten!RunInChildContext(f, child)
             \/ \E bound, named : Ten!Begin(f, bound, named)
             \/ \E succeeds : Ten!End(f, succeeds)
      PROVE  TenantInv'
  BY <1>1, EntryIsWritten, RequestComes, ChildComes, ScopeOpens, ScopeEnds
<1>2. ASSUME NEW f \in Callers, NEW c \in Connections, stage[f] = "working",
             \/ Ten!Raw(f, c) \/ \E id : Ten!Save(f, c, id)
             \/ \E asked : Ten!Find(f, c, asked) \/ \E id : Ten!Update(f, c, id, asked) \/ Ten!Delete(f, c, id, asked)
      PROVE  TenantInv'
  BY <1>2, RowsAreRead, RowIsSaved, RowsAreFound, RowIsChanged
<1>3. CASE UNCHANGED Ten!tenancyVars
  <2>1. UNCHANGED <<db, stage, context, held, setting, levels, notes, trail, lasting, owed, last>>
    BY <1>3 DEF Ten!tenancyVars
  <2>2. Touching'
    BY <2>1, TouchingStands DEF TenantInv
  <2> QED  BY <2>1, <2>2, FlowReads
<1> QED  BY <1>1, <1>2, <1>3 DEF Ten!Next

\* rls.ts and repository.ts: whatever goes through a repository touches its
\* tenant's rows, and whatever goes round it the rows of the tenant that is
\* bound; no connection comes back bound; and the trail is of what was committed:
\* for any number of flows, tenants, connections, rows and statements.
THEOREM TenantsApartAlways == Ten!Spec => []Ten!TenantsApart
<1>1. TenantInv => Ten!TenantsApart
  <2>1. ASSUME TenantInv PROVE trail \subseteq lasting /\ \A c \in Connections : Ten!Free(c) => setting[c] = NoTenant
    BY <2>1 DEF TenantInv, FreeIsUnbound
  <2>2. ASSUME TenantInv
        PROVE  /\ last.op \in {"find", "update", "delete"} => last.touched \subseteq {last.as}
               /\ Ten!Applies => last.touched \subseteq {last.setting}
               /\ db.policy # {} => last.touched = {} \/ last.setting # NoTenant
               /\ db.policy # {} /\ last.op = "save" => last.touched \subseteq {last.as}
    BY <2>2 DEF TenantInv, Touching
  <2> QED  BY <2>1, <2>2 DEF Ten!TenantsApart
<1> QED  BY <1>1, FlowsBegin, FlowsGoOn, PTL DEF Ten!Spec

----------------------------------------------------------------------------
(* Who is let in to what *)

\* What a part does among the others it does by itself: what mailed tokens do.
LEMMA MailPart == PartsSpec => Tok!MailSpec
<1>1. PartsInit => Tok!MailInit
  BY DEF PartsInit
<1>2. [PartsNext]_partsVars => [Tok!MailNext]_Tok!mailVars
  BY DEF PartsNext, partsVars, FlowNext, FilesNext, FactorNext, SessionsNext, MailNext, CalendarNext, LinksNext,
     LifeNext, AccountNext, RolesNext, TenantsNext, mailVars, Tok!mailVars
<1> QED  BY <1>1, <1>2, PTL DEF PartsSpec, Tok!MailSpec

\* ... and sessions.
LEMMA SessionsPart == PartsSpec => Tok!Spec
<1>1. PartsInit => Tok!Init
  BY DEF PartsInit
<1>2. [PartsNext]_partsVars => [Tok!Next]_Tok!sessionVars
  BY DEF PartsNext, partsVars, FlowNext, FilesNext, FactorNext, SessionsNext, MailNext, CalendarNext, LinksNext,
     LifeNext, AccountNext, RolesNext, TenantsNext, sessionVars, Tok!sessionVars
<1> QED  BY <1>1, <1>2, PTL DEF PartsSpec, Tok!Spec

\* ... and a second factor.
LEMMA FactorPart == PartsSpec => Fac!Spec
<1>1. PartsInit => Fac!Init
  BY DEF PartsInit
<1>2. [PartsNext]_partsVars => [Fac!Next]_Fac!factorVars
  BY DEF PartsNext, partsVars, FlowNext, FilesNext, FactorNext, SessionsNext, MailNext, CalendarNext, LinksNext,
     LifeNext, AccountNext, RolesNext, TenantsNext, factorVars, Fac!factorVars
<1> QED  BY <1>1, <1>2, PTL DEF PartsSpec, Fac!Spec

\* ... and accounts.
LEMMA AccountPart == PartsSpec => Acc!Spec
<1>1. PartsInit => Acc!Init
  BY DEF PartsInit
<1>2. [PartsNext]_partsVars => [Acc!Next]_Acc!accountVars
  BY DEF PartsNext, partsVars, FlowNext, FilesNext, FactorNext, SessionsNext, MailNext, CalendarNext, LinksNext,
     LifeNext, AccountNext, RolesNext, TenantsNext, accountVars, Acc!accountVars
<1> QED  BY <1>1, <1>2, PTL DEF PartsSpec, Acc!Spec

\* ... and roles.
LEMMA RolesPart == PartsSpec => Rol!Spec
<1>1. PartsInit => Rol!Init
  BY DEF PartsInit
<1>2. [PartsNext]_partsVars => [Rol!Next]_Rol!roleVars
  BY DEF PartsNext, partsVars, FlowNext, FilesNext, FactorNext, SessionsNext, MailNext, CalendarNext, LinksNext,
     LifeNext, AccountNext, RolesNext, TenantsNext, roleVars, Rol!roleVars
<1> QED  BY <1>1, <1>2, PTL DEF PartsSpec, Rol!Spec

\* ... and tenants.
LEMMA TenantsPart == PartsSpec => Ten!Spec
<1>1. PartsInit => Ten!Init
  BY DEF PartsInit
<1>2. [PartsNext]_partsVars => [Ten!Next]_Ten!tenancyVars
  BY DEF PartsNext, partsVars, FlowNext, FilesNext, FactorNext, SessionsNext, MailNext, CalendarNext, LinksNext,
     LifeNext, AccountNext, RolesNext, TenantsNext, tenantVars, Ten!tenancyVars
<1> QED  BY <1>1, <1>2, PTL DEF PartsSpec, Ten!Spec

\* Nobody is let in to what was not last said to be theirs, in any part: the run's
\* property, for any number of callers, and of what each part has of its rows.
THEOREM AccessIsKeptAlways == PartsSpec => []AccessIsKept
<1>1. Fac!CodesOnceAndCounted /\ Tok!EndedStaysEnded /\ Tok!SpentOnce /\ Acc!LoginsKeepTheAccount
      /\ Rol!GrantsAreMeant /\ Ten!TenantsApart => AccessIsKept
  BY DEF AccessIsKept
<1> QED  BY <1>1, MailPart, SpentOnceAlways, SessionsPart, EndedStaysEndedAlways, FactorPart, CodesOnceAndCountedAlways,
     AccountPart, LoginsKeepTheAccountAlways, RolesPart, GrantsAreMeantAlways, TenantsPart, TenantsApartAlways, PTL
=============================================================================
