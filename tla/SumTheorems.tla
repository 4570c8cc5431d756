----------------------------- MODULE SumTheorems -----------------------------
(***************************************************************************)
(* What the sums of the ledgers obey: the values of a function added up    *)
(* over a finite set of its arguments, in whatever order (SumFunctionOnSet *)
(* of the community's Functions).  The sum is a recursive function, so     *)
(* each fact about all sets is had from the smallest it could fail of.     *)
(***************************************************************************)
EXTENDS Integers, FiniteSets, Functions, FiniteSetTheorems, WellFoundedInduction, TLAPS

\* Among sets of parts of a finite set one is smallest: what fails of some part
\* fails of one whose own parts it holds of.
LEMMA SmallestPart ==
    ASSUME NEW S, IsFiniteSet(S), NEW X, X \subseteq SUBSET S, X # {}
    PROVE  \E T \in X : \A U \in X : U \subseteq T => U = T
<1>1. IsWellFoundedOn(StrictSubsetOrdering(S), SUBSET S)
  BY FS_StrictSubsetOrderingWellFounded, FS_FiniteSubsetsOfFinite
<1>2. PICK T \in X : \A U \in X : <<U, T>> \notin StrictSubsetOrdering(S)
  BY <1>1, WFMin
<1>3. ASSUME NEW U \in X, U \subseteq T
      PROVE  U = T
  BY <1>2, <1>3 DEF StrictSubsetOrdering
<1>. QED
  BY <1>3

\* The next argument added, and the equation of the sums of a set's parts.
Pick(S) == CHOOSE x \in S : TRUE
Sums(f, S, g) ==
    g = [s \in SUBSET S |-> IF s = {} THEN 0 ELSE f[Pick(s)] + g[s \ {Pick(s)}]]

\* The sum, as the community modules choose the function that computes it.
LEMMA SumIsOfSums ==
    ASSUME NEW f, NEW S
    PROVE  SumFunctionOnSet(f, S) = (CHOOSE g : Sums(f, S, g))[S]
BY DEF SumFunctionOnSet, FoldFunctionOnSet, MapThenFoldSet, Sums, Pick

\* The equation has one solution on a part, whatever set it was written for.
LEMMA SumsAgree ==
    ASSUME NEW f, NEW S, NEW T, IsFiniteSet(S), NEW g, NEW h,
           Sums(f, S, g), Sums(f, T, h), NEW s, s \subseteq S, s \subseteq T
    PROVE  g[s] = h[s]
<1> SUFFICES ASSUME g[s] # h[s] PROVE FALSE
  OBVIOUS
<1>1. PICK X : X = {u \in SUBSET S : u \subseteq T /\ g[u] # h[u]}
  OBVIOUS
<1>2. s \in X /\ X \subseteq SUBSET S
  BY <1>1
<1>3. PICK u \in X : \A v \in X : v \subseteq u => v = u
  BY <1>2, SmallestPart
<1>4. u \in SUBSET S /\ u \in SUBSET T /\ g[u] # h[u]
  BY <1>1
<1>5. g[u] = IF u = {} THEN 0 ELSE f[Pick(u)] + g[u \ {Pick(u)}]
  BY <1>4 DEF Sums
<1>6. h[u] = IF u = {} THEN 0 ELSE f[Pick(u)] + h[u \ {Pick(u)}]
  BY <1>4 DEF Sums
<1>7. u # {} /\ Pick(u) \in u
  BY <1>4, <1>5, <1>6 DEF Pick
<1>8. u \ {Pick(u)} \notin X
  BY <1>3, <1>7
<1>9. g[u \ {Pick(u)}] = h[u \ {Pick(u)}]
  BY <1>1, <1>4, <1>8
<1>. QED
  BY <1>4, <1>5, <1>6, <1>9

\* And it has one.
LEMMA SumsExist ==
    ASSUME NEW f, NEW S, IsFiniteSet(S)
    PROVE  \E g : Sums(f, S, g)
<1> SUFFICES ASSUME ~\E g : Sums(f, S, g) PROVE FALSE
  OBVIOUS
<1>1. PICK X : X = {T \in SUBSET S : ~\E g : Sums(f, T, g)}
  OBVIOUS
<1>2. S \in X /\ X \subseteq SUBSET S
  BY <1>1
<1>3. PICK T \in X : \A U \in X : U \subseteq T => U = T
  BY <1>2, SmallestPart
<1>4. T \in SUBSET S /\ ~\E g : Sums(f, T, g)
  BY <1>1
<1> DEFINE V(s) == (CHOOSE g : Sums(f, s, g))[s]
<1>5. ASSUME NEW s \in SUBSET T, s # T
      PROVE  /\ V(s) = IF s = {} THEN 0 ELSE f[Pick(s)] + V(s \ {Pick(s)})
  <2>1. s \notin X
    BY <1>3, <1>5
  <2>2. \E g : Sums(f, s, g)
    BY <1>1, <1>4, <2>1
  <2>3. PICK g : g = CHOOSE k : Sums(f, s, k)
    OBVIOUS
  <2>4. Sums(f, s, g)
    BY <2>2, <2>3
  <2>5. g[s] = IF s = {} THEN 0 ELSE f[Pick(s)] + g[s \ {Pick(s)}]
    <3>1. s \in SUBSET s
      OBVIOUS
    <3>. QED
      BY <2>4, <3>1 DEF Sums
  <2>6. CASE s = {}
    BY <2>3, <2>5, <2>6
  <2>7. CASE s # {}
    <3>1. PICK r : r = s \ {Pick(s)}
      OBVIOUS
    <3>2. r \in SUBSET T /\ r # T /\ r \subseteq s
      BY <2>7, <3>1 DEF Pick
    <3>3. r \notin X
      BY <1>3, <3>2
    <3>4. \E k : Sums(f, r, k)
      BY <1>1, <1>4, <3>2, <3>3
    <3>5. PICK h : h = CHOOSE k : Sums(f, r, k)
      OBVIOUS
    <3>6. Sums(f, r, h)
      BY <3>4, <3>5
    <3>7. IsFiniteSet(s)
      BY <1>4, FS_Subset
    <3>8. g[r] = h[r]
      BY <2>4, <3>2, <3>6, <3>7, SumsAgree
    <3>. QED
      BY <2>3, <2>5, <2>7, <3>1, <3>5, <3>8
  <2>. QED
    BY <2>6, <2>7
<1>6. PICK g : g = [s \in SUBSET T |-> IF s # T THEN V(s)
                                      ELSE IF T = {} THEN 0
                                      ELSE f[Pick(T)] + V(T \ {Pick(T)})]
  OBVIOUS
<1> HIDE DEF V
<1>7. ASSUME NEW s \in SUBSET T
      PROVE  g[s] = IF s = {} THEN 0 ELSE f[Pick(s)] + g[s \ {Pick(s)}]
  <2>1. CASE s = {}
    <3>1. CASE T = {}
      BY <1>6, <2>1, <3>1
    <3>2. CASE T # {}
      BY <1>5, <1>6, <2>1, <3>2
    <3>. QED
      BY <3>1, <3>2
  <2>2. CASE s # {}
    <3>1. PICK r : r = s \ {Pick(s)}
      OBVIOUS
    <3>2. r \in SUBSET T /\ r # T
      BY <2>2, <3>1 DEF Pick
    <3>3. g[r] = V(r)
      BY <1>6, <3>2
    <3>4. CASE s = T
      BY <1>6, <2>2, <3>1, <3>3, <3>4
    <3>5. CASE s # T
      BY <1>5, <1>6, <2>2, <3>1, <3>3, <3>5
    <3>. QED
      BY <3>4, <3>5
  <2>. QED
    BY <2>1, <2>2
<1>8. Sums(f, T, g)
  <2>1. g = [s \in SUBSET T |-> g[s]]
    BY <1>6
  <2>. QED
    BY <1>7, <2>1 DEF Sums
<1>. QED
  BY <1>4, <1>8

\* The sum's own equation: nothing of nothing, and else one value and the rest.
THEOREM SumUnfolds ==
    ASSUME NEW f, NEW S, IsFiniteSet(S)
    PROVE  SumFunctionOnSet(f, S) =
             IF S = {} THEN 0 ELSE f[Pick(S)] + SumFunctionOnSet(f, S \ {Pick(S)})
<1>1. PICK g : g = CHOOSE k : Sums(f, S, k)
  OBVIOUS
<1>2. Sums(f, S, g)
  BY <1>1, SumsExist
<1>3. SumFunctionOnSet(f, S) = g[S]
  BY <1>1, SumIsOfSums
<1>4. S \in SUBSET S
  OBVIOUS
<1>5. g[S] = IF S = {} THEN 0 ELSE f[Pick(S)] + g[S \ {Pick(S)}]
  BY <1>2, <1>4 DEF Sums
<1>6. CASE S # {}
  <2>1. PICK r : r = S \ {Pick(S)}
    OBVIOUS
  <2>2. IsFiniteSet(r) /\ r \subseteq S
    BY <2>1, FS_Subset
  <2>3. PICK h : h = CHOOSE k : Sums(f, r, k)
    OBVIOUS
  <2>4. Sums(f, r, h)
    BY <2>2, <2>3, SumsExist
  <2>5. g[r] = h[r]
    BY <1>2, <2>2, <2>4, SumsAgree
  <2>6. SumFunctionOnSet(f, r) = h[r]
    BY <2>3, SumIsOfSums
  <2>. QED
    BY <1>3, <1>5, <1>6, <2>1, <2>5, <2>6
<1>. QED
  BY <1>3, <1>5, <1>6

\* Nothing adds up to nothing.
LEMMA SumOfNone == ASSUME NEW f PROVE SumFunctionOnSet(f, {}) = 0
BY SumUnfolds, FS_EmptySet

\* Sums of integers are integers.
THEOREM SumIsInt ==
    ASSUME NEW f, NEW S, IsFiniteSet(S), \A x \in S : f[x] \in Int
    PROVE  SumFunctionOnSet(f, S) \in Int
<1> SUFFICES ASSUME SumFunctionOnSet(f, S) \notin Int PROVE FALSE
  OBVIOUS
<1>1. PICK X : X = {T \in SUBSET S : SumFunctionOnSet(f, T) \notin Int}
  OBVIOUS
<1>2. S \in X /\ X \subseteq SUBSET S
  BY <1>1
<1>3. PICK T \in X : \A U \in X : U \subseteq T => U = T
  BY <1>2, SmallestPart
<1>4. T \in SUBSET S /\ IsFiniteSet(T) /\ SumFunctionOnSet(f, T) \notin Int
  BY <1>1, FS_Subset
<1>5. T # {} /\ SumFunctionOnSet(f, T) = f[Pick(T)] + SumFunctionOnSet(f, T \ {Pick(T)})
  <2>1. SumFunctionOnSet(f, T) = IF T = {} THEN 0
          ELSE f[Pick(T)] + SumFunctionOnSet(f, T \ {Pick(T)})
    BY <1>4, SumUnfolds
  <2>. QED
    BY <1>4, <2>1
<1>6. Pick(T) \in T
  BY <1>5 DEF Pick
<1>7. T \ {Pick(T)} \notin X
  BY <1>3, <1>6
<1>8. SumFunctionOnSet(f, T \ {Pick(T)}) \in Int
  BY <1>1, <1>4, <1>7
<1>. QED
  BY <1>4, <1>5, <1>6, <1>8

\* Functions that agree on a set have one sum over it.
THEOREM SumOfEqual ==
    ASSUME NEW f, NEW g, NEW S, IsFiniteSet(S), \A x \in S : f[x] = g[x]
    PROVE  SumFunctionOnSet(f, S) = SumFunctionOnSet(g, S)
<1> SUFFICES ASSUME SumFunctionOnSet(f, S) # SumFunctionOnSet(g, S) PROVE FALSE
  OBVIOUS
<1>1. PICK X : X = {T \in SUBSET S : SumFunctionOnSet(f, T) # SumFunctionOnSet(g, T)}
  OBVIOUS
<1>2. S \in X /\ X \subseteq SUBSET S
  BY <1>1
<1>3. PICK T \in X : \A U \in X : U \subseteq T => U = T
  BY <1>2, SmallestPart
<1>4. T \in SUBSET S /\ IsFiniteSet(T) /\ SumFunctionOnSet(f, T) # SumFunctionOnSet(g, T)
  BY <1>1, FS_Subset
<1>5. /\ SumFunctionOnSet(f, T) = IF T = {} THEN 0
           ELSE f[Pick(T)] + SumFunctionOnSet(f, T \ {Pick(T)})
      /\ SumFunctionOnSet(g, T) = IF T = {} THEN 0
           ELSE g[Pick(T)] + SumFunctionOnSet(g, T \ {Pick(T)})
  BY <1>4, SumUnfolds
<1>6. T # {} /\ Pick(T) \in T
  BY <1>4, <1>5 DEF Pick
<1>7. T \ {Pick(T)} \notin X
  BY <1>3, <1>6
<1>8. SumFunctionOnSet(f, T \ {Pick(T)}) = SumFunctionOnSet(g, T \ {Pick(T)})
  BY <1>1, <1>4, <1>7
<1>. QED
  BY <1>4, <1>5, <1>6, <1>8

\* Any argument may be taken out first: the order does not matter.
THEOREM SumWithout ==
    ASSUME NEW f, NEW S, IsFiniteSet(S), \A x \in S : f[x] \in Int, NEW x \in S
    PROVE  SumFunctionOnSet(f, S) = f[x] + SumFunctionOnSet(f, S \ {x})
<1> SUFFICES ASSUME SumFunctionOnSet(f, S) # f[x] + SumFunctionOnSet(f, S \ {x}) PROVE FALSE
  OBVIOUS
<1>1. PICK X : X = {T \in SUBSET S : \E y \in T : SumFunctionOnSet(f, T)
                                                    # f[y] + SumFunctionOnSet(f, T \ {y})}
  OBVIOUS
<1>2. S \in X /\ X \subseteq SUBSET S
  BY <1>1
<1>3. PICK T \in X : \A U \in X : U \subseteq T => U = T
  BY <1>2, SmallestPart
<1>4. T \in SUBSET S /\ IsFiniteSet(T)
  BY <1>1, FS_Subset
<1>5. PICK y \in T : SumFunctionOnSet(f, T) # f[y] + SumFunctionOnSet(f, T \ {y})
  BY <1>1
<1>6. PICK p : p = Pick(T)
  OBVIOUS
<1>7. p \in T /\ SumFunctionOnSet(f, T) = f[p] + SumFunctionOnSet(f, T \ {p})
  BY <1>4, <1>5, <1>6, SumUnfolds DEF Pick
<1>8. p # y
  BY <1>5, <1>7
<1>9. PICK R : R = T \ {p}
  OBVIOUS
<1>10. PICK W : W = T \ {y}
  OBVIOUS
<1>11. R \in SUBSET S /\ y \in R /\ R \notin X /\ W \in SUBSET S /\ p \in W /\ W \notin X
  BY <1>3, <1>4, <1>5, <1>7, <1>8, <1>9, <1>10
<1>12. /\ SumFunctionOnSet(f, R) = f[y] + SumFunctionOnSet(f, R \ {y})
       /\ SumFunctionOnSet(f, W) = f[p] + SumFunctionOnSet(f, W \ {p})
  BY <1>1, <1>11
<1>13. PICK Q : Q = T \ {p, y}
  OBVIOUS
<1>14. R \ {y} = Q /\ W \ {p} = Q /\ IsFiniteSet(Q) /\ Q \subseteq S
  BY <1>4, <1>9, <1>10, <1>13, FS_Subset
<1>15. SumFunctionOnSet(f, Q) \in Int /\ f[y] \in Int /\ f[p] \in Int
  BY <1>4, <1>5, <1>7, <1>14, SumIsInt
<1>16. SumFunctionOnSet(f, T) = f[p] + (f[y] + SumFunctionOnSet(f, Q))
  BY <1>7, <1>9, <1>12, <1>14
<1>17. SumFunctionOnSet(f, T \ {y}) = f[p] + SumFunctionOnSet(f, Q)
  BY <1>10, <1>12, <1>14
<1>. QED
  BY <1>5, <1>15, <1>16, <1>17

\* One argument more.
THEOREM SumWith ==
    ASSUME NEW f, NEW S, IsFiniteSet(S), NEW x, x \notin S, \A y \in S \union {x} : f[y] \in Int
    PROVE  SumFunctionOnSet(f, S \union {x}) = SumFunctionOnSet(f, S) + f[x]
<1>1. PICK T : T = S \union {x}
  OBVIOUS
<1>2. IsFiniteSet(T) /\ x \in T /\ T \ {x} = S /\ \A y \in T : f[y] \in Int
  BY <1>1, FS_AddElement
<1>3. SumFunctionOnSet(f, T) = f[x] + SumFunctionOnSet(f, S)
  BY <1>2, SumWithout
<1>4. SumFunctionOnSet(f, S) \in Int /\ f[x] \in Int
  BY <1>2, SumIsInt
<1>. QED
  BY <1>1, <1>3, <1>4

\* The sum over two sets with nothing in common is the sum of both.
THEOREM SumOfBoth ==
    ASSUME NEW f, NEW S, NEW T, IsFiniteSet(S), IsFiniteSet(T), S \intersect T = {},
           \A x \in S \union T : f[x] \in Int
    PROVE  SumFunctionOnSet(f, S \union T) = SumFunctionOnSet(f, S) + SumFunctionOnSet(f, T)
<1> SUFFICES ASSUME SumFunctionOnSet(f, S \union T)
                      # SumFunctionOnSet(f, S) + SumFunctionOnSet(f, T)
             PROVE  FALSE
  OBVIOUS
<1>1. PICK X : X = {U \in SUBSET T : SumFunctionOnSet(f, S \union U)
                                       # SumFunctionOnSet(f, S) + SumFunctionOnSet(f, U)}
  OBVIOUS
<1>2. T \in X /\ X \subseteq SUBSET T
  BY <1>1
<1>3. PICK U \in X : \A V \in X : V \subseteq U => V = U
  BY <1>2, SmallestPart
<1>4. /\ U \in SUBSET T /\ IsFiniteSet(U) /\ IsFiniteSet(S \union U)
      /\ SumFunctionOnSet(f, S \union U) # SumFunctionOnSet(f, S) + SumFunctionOnSet(f, U)
  BY <1>1, FS_Subset, FS_Union
<1>5. SumFunctionOnSet(f, S) \in Int
  BY SumIsInt
<1>6. PICK x : x \in U
  <2>1. CASE U = {}
    <3>1. S \union U = S
      BY <2>1
    <3>2. SumFunctionOnSet(f, S \union U) = SumFunctionOnSet(f, S)
      BY <3>1
    <3>3. SumFunctionOnSet(f, U) = 0
      BY <2>1, SumOfNone
    <3>. QED
      BY <1>4, <1>5, <3>2, <3>3
  <2>. QED
    BY <2>1
<1>7. PICK V : V = U \ {x}
  OBVIOUS
<1>8. V \in SUBSET T /\ V \notin X /\ IsFiniteSet(V)
  BY <1>3, <1>4, <1>6, <1>7, FS_Subset
<1>9. SumFunctionOnSet(f, S \union V) = SumFunctionOnSet(f, S) + SumFunctionOnSet(f, V)
  BY <1>1, <1>8
<1>10. SumFunctionOnSet(f, U) = f[x] + SumFunctionOnSet(f, V)
  BY <1>4, <1>6, <1>7, SumWithout
<1>11. SumFunctionOnSet(f, S \union U) = f[x] + SumFunctionOnSet(f, S \union V)
  <2>1. PICK W : W = S \union U
    OBVIOUS
  <2>2. W \ {x} = S \union V /\ x \in W /\ IsFiniteSet(W) /\ \A y \in W : f[y] \in Int
    BY <1>4, <1>6, <1>7, <2>1
  <2>3. SumFunctionOnSet(f, W) = f[x] + SumFunctionOnSet(f, W \ {x})
    BY <2>2, SumWithout
  <2>. QED
    BY <2>1, <2>2, <2>3
<1>12. SumFunctionOnSet(f, V) \in Int /\ f[x] \in Int
  BY <1>4, <1>6, <1>8, SumIsInt
<1>. QED
  BY <1>4, <1>5, <1>9, <1>10, <1>11, <1>12

\* What is nowhere larger has no larger sum.
THEOREM SumIsMonotone ==
    ASSUME NEW f, NEW g, NEW S, IsFiniteSet(S),
           \A x \in S : f[x] \in Int /\ g[x] \in Int /\ f[x] <= g[x]
    PROVE  SumFunctionOnSet(f, S) <= SumFunctionOnSet(g, S)
<1> SUFFICES ASSUME ~(SumFunctionOnSet(f, S) <= SumFunctionOnSet(g, S)) PROVE FALSE
  OBVIOUS
<1>1. PICK X : X = {T \in SUBSET S : ~(SumFunctionOnSet(f, T) <= SumFunctionOnSet(g, T))}
  OBVIOUS
<1>2. S \in X /\ X \subseteq SUBSET S
  BY <1>1
<1>3. PICK T \in X : \A U \in X : U \subseteq T => U = T
  BY <1>2, SmallestPart
<1>4. T \in SUBSET S /\ IsFiniteSet(T) /\ ~(SumFunctionOnSet(f, T) <= SumFunctionOnSet(g, T))
  BY <1>1, FS_Subset
<1>5. /\ SumFunctionOnSet(f, T) = IF T = {} THEN 0
           ELSE f[Pick(T)] + SumFunctionOnSet(f, T \ {Pick(T)})
      /\ SumFunctionOnSet(g, T) = IF T = {} THEN 0
           ELSE g[Pick(T)] + SumFunctionOnSet(g, T \ {Pick(T)})
  BY <1>4, SumUnfolds
<1>6. PICK p : p = Pick(T)
  OBVIOUS
<1>7. PICK R : R = T \ {p}
  OBVIOUS
<1>8. T # {}
  BY <1>4, <1>5
<1>9. p \in T
  BY <1>6, <1>8 DEF Pick
<1>10. R \in SUBSET S /\ R \notin X /\ IsFiniteSet(R)
  BY <1>3, <1>4, <1>7, <1>9, FS_Subset
<1>11. SumFunctionOnSet(f, R) <= SumFunctionOnSet(g, R)
  BY <1>1, <1>10
<1>12. /\ SumFunctionOnSet(f, R) \in Int /\ SumFunctionOnSet(g, R) \in Int
       /\ f[p] \in Int /\ g[p] \in Int /\ f[p] <= g[p]
  BY <1>4, <1>9, <1>10, SumIsInt
<1>13. /\ SumFunctionOnSet(f, T) = f[p] + SumFunctionOnSet(f, R)
       /\ SumFunctionOnSet(g, T) = g[p] + SumFunctionOnSet(g, R)
  BY <1>5, <1>6, <1>7, <1>8
<1>. QED
  BY <1>4, <1>11, <1>12, <1>13

\* Two functions may be added up together or each on its own.
THEOREM SumAdds ==
    ASSUME NEW f, NEW g, NEW h, NEW S, IsFiniteSet(S),
           \A x \in S : f[x] \in Int /\ g[x] \in Int /\ h[x] = f[x] + g[x]
    PROVE  SumFunctionOnSet(h, S) = SumFunctionOnSet(f, S) + SumFunctionOnSet(g, S)
<1> SUFFICES ASSUME SumFunctionOnSet(h, S) # SumFunctionOnSet(f, S) + SumFunctionOnSet(g, S)
             PROVE  FALSE
  OBVIOUS
<1>1. PICK X : X = {T \in SUBSET S : SumFunctionOnSet(h, T)
                                       # SumFunctionOnSet(f, T) + SumFunctionOnSet(g, T)}
  OBVIOUS
<1>2. S \in X /\ X \subseteq SUBSET S
  BY <1>1
<1>3. PICK T \in X : \A U \in X : U \subseteq T => U = T
  BY <1>2, SmallestPart
<1>4. /\ T \in SUBSET S /\ IsFiniteSet(T)
      /\ SumFunctionOnSet(h, T) # SumFunctionOnSet(f, T) + SumFunctionOnSet(g, T)
  BY <1>1, FS_Subset
<1>5. PICK x : x \in T
  <2>1. CASE T = {}
    <3>1. SumFunctionOnSet(h, T) = 0 /\ SumFunctionOnSet(f, T) = 0 /\ SumFunctionOnSet(g, T) = 0
      BY <2>1, SumOfNone
    <3>. QED
      BY <1>4, <3>1
  <2>. QED
    BY <2>1
<1>6. PICK R : R = T \ {x}
  OBVIOUS
<1>7. R \in SUBSET S /\ R \notin X /\ IsFiniteSet(R)
  BY <1>3, <1>4, <1>5, <1>6, FS_Subset
<1>8. SumFunctionOnSet(h, R) = SumFunctionOnSet(f, R) + SumFunctionOnSet(g, R)
  BY <1>1, <1>7
<1>9. \A y \in T : f[y] \in Int /\ g[y] \in Int /\ h[y] \in Int /\ h[y] = f[y] + g[y]
  BY <1>4
<1>10. SumFunctionOnSet(h, T) = h[x] + SumFunctionOnSet(h, R)
  BY <1>4, <1>5, <1>6, <1>9, SumWithout
<1>11. SumFunctionOnSet(f, T) = f[x] + SumFunctionOnSet(f, R)
  BY <1>4, <1>5, <1>6, <1>9, SumWithout
<1>12. SumFunctionOnSet(g, T) = g[x] + SumFunctionOnSet(g, R)
  BY <1>4, <1>5, <1>6, <1>9, SumWithout
<1>13. SumFunctionOnSet(f, R) \in Int /\ SumFunctionOnSet(g, R) \in Int
  BY <1>4, <1>6, <1>7, <1>9, SumIsInt
<1>. QED
  BY <1>4, <1>5, <1>8, <1>9, <1>10, <1>11, <1>12, <1>13

\* Arguments that count for nothing may be left out.
THEOREM SumOfZeros ==
    ASSUME NEW f, NEW S, IsFiniteSet(S), \A x \in S : f[x] = 0
    PROVE  SumFunctionOnSet(f, S) = 0
<1>1. \A x \in S : f[x] \in Int /\ f[x] = f[x] + f[x]
  OBVIOUS
<1>2. SumFunctionOnSet(f, S) = SumFunctionOnSet(f, S) + SumFunctionOnSet(f, S)
  BY <1>1, SumAdds
<1>3. SumFunctionOnSet(f, S) \in Int
  BY <1>1, SumIsInt
<1>4. PICK v : v = SumFunctionOnSet(f, S)
  OBVIOUS
<1>5. v \in Int /\ v = v + v
  BY <1>2, <1>3, <1>4
<1>6. v = 0
  BY <1>5
<1>. QED
  BY <1>4, <1>6

\* What is taken away is as much as what was there.
THEOREM SumOfNegated ==
    ASSUME NEW f, NEW g, NEW S, IsFiniteSet(S), \A x \in S : f[x] \in Int /\ g[x] = -f[x]
    PROVE  SumFunctionOnSet(g, S) = -SumFunctionOnSet(f, S)
<1>1. PICK h : h = [x \in S |-> 0]
  OBVIOUS
<1>2. \A x \in S : f[x] \in Int /\ g[x] \in Int /\ h[x] = f[x] + g[x] /\ h[x] = 0
  BY <1>1
<1>3. SumFunctionOnSet(h, S) = SumFunctionOnSet(f, S) + SumFunctionOnSet(g, S)
  BY <1>2, SumAdds
<1>4. SumFunctionOnSet(h, S) = 0
  BY <1>2, SumOfZeros
<1>5. SumFunctionOnSet(f, S) \in Int /\ SumFunctionOnSet(g, S) \in Int
  BY <1>2, SumIsInt
<1>. QED
  BY <1>3, <1>4, <1>5

\* Sums of naturals are naturals.
THEOREM SumIsNat ==
    ASSUME NEW f, NEW S, IsFiniteSet(S), \A x \in S : f[x] \in Nat
    PROVE  SumFunctionOnSet(f, S) \in Nat
<1>1. PICK z : z = [x \in S |-> 0]
  OBVIOUS
<1>2. \A x \in S : z[x] = 0 /\ z[x] \in Int /\ f[x] \in Int /\ z[x] <= f[x]
  BY <1>1
<1>3. SumFunctionOnSet(z, S) = 0 /\ SumFunctionOnSet(f, S) \in Int
  BY <1>2, SumOfZeros, SumIsInt
<1>4. SumFunctionOnSet(z, S) <= SumFunctionOnSet(f, S)
  BY <1>2, SumIsMonotone
<1>. QED
  BY <1>3, <1>4
\* Arguments renamed, each to one of its own.
THEOREM SumRenamed ==
    ASSUME NEW f, NEW g, NEW h, NEW S, IsFiniteSet(S),
           \A x \in S : f[x] \in Int /\ g[h[x]] = f[x],
           \A x, y \in S : h[x] = h[y] => x = y
    PROVE  SumFunctionOnSet(g, {h[x] : x \in S}) = SumFunctionOnSet(f, S)
<1> DEFINE Image(T) == {h[x] : x \in T}
           Right(T) == SumFunctionOnSet(g, Image(T)) = SumFunctionOnSet(f, T)
           X == {T \in SUBSET S : ~Right(T)}
<1>1. SUFFICES ASSUME X # {} PROVE FALSE
  <2>1. S \notin X
    BY <1>1
  <2>. QED
    BY <2>1
<1>2. PICK T \in X : \A U \in X : U \subseteq T => U = T
  <2>1. X \subseteq SUBSET S
    OBVIOUS
  <2> HIDE DEF X
  <2>. QED
    BY <1>1, <2>1, SmallestPart
<1>3. T \subseteq S /\ IsFiniteSet(T)
  BY <1>2, FS_Subset
<1>4. T # {}
  <2>1. CASE T = {}
    <3>1. Image({}) = {} /\ SumFunctionOnSet(g, {}) = 0 /\ SumFunctionOnSet(f, {}) = 0
      BY SumOfNone
    <3>2. Right(T)
      BY <2>1, <3>1
    <3>. QED
      BY <1>2, <3>2
  <2>. QED
    BY <2>1
<1>5. PICK x \in T : TRUE
  BY <1>4
<1>6. Right(T \ {x})
  BY <1>2, <1>3, <1>5
<1>7. Image(T) \ {h[x]} = Image(T \ {x}) /\ h[x] \in Image(T)
  BY <1>3, <1>5
<1>8. IsFiniteSet(Image(T))
  <2>1. [y \in T |-> h[y]] \in Surjection(T, Image(T))
    BY DEF Surjection
  <2>. QED
    BY <1>3, <2>1, FS_Surjection
<1>9. \A y \in Image(T) : g[y] \in Int
  BY <1>3
<1>10. SumFunctionOnSet(g, Image(T)) = g[h[x]] + SumFunctionOnSet(g, Image(T \ {x}))
  <2>1. PICK I : I = Image(T)
    OBVIOUS
  <2> HIDE DEF Image
  <2>2. IsFiniteSet(I) /\ h[x] \in I /\ (\A y \in I : g[y] \in Int) /\ I \ {h[x]} = Image(T \ {x})
    BY <1>7, <1>8, <1>9, <2>1
  <2>3. SumFunctionOnSet(g, I) = g[h[x]] + SumFunctionOnSet(g, I \ {h[x]})
    BY <2>2, SumWithout
  <2>. QED
    BY <2>1, <2>2, <2>3
<1>11. SumFunctionOnSet(f, T) = f[x] + SumFunctionOnSet(f, T \ {x})
  BY <1>3, <1>5, SumWithout
<1>12. g[h[x]] = f[x]
  BY <1>3, <1>5
<1>13. Right(T)
  BY <1>6, <1>10, <1>11, <1>12
<1>. QED
  BY <1>2, <1>13

\* What adds up to nothing, and counts for something each, is nothing.
THEOREM SumOfPositives ==
    ASSUME NEW f, NEW S, IsFiniteSet(S), \A x \in S : f[x] \in Nat \ {0}, SumFunctionOnSet(f, S) = 0
    PROVE  S = {}
<1> SUFFICES ASSUME NEW x \in S PROVE FALSE
  OBVIOUS
<1>1. SumFunctionOnSet(f, S) = f[x] + SumFunctionOnSet(f, S \ {x})
  <2>1. \A y \in S : f[y] \in Int
    OBVIOUS
  <2>. QED
    BY <2>1, SumWithout
<1>2. SumFunctionOnSet(f, S \ {x}) \in Nat
  <2>1. IsFiniteSet(S \ {x}) /\ \A y \in S \ {x} : f[y] \in Nat
    BY FS_Subset
  <2>. QED
    BY <2>1, SumIsNat
<1>. QED
  BY <1>1, <1>2
\* The sum of one.
LEMMA SumOfOne ==
    ASSUME NEW f, NEW x, f[x] \in Int
    PROVE  SumFunctionOnSet(f, {x}) = f[x]
<1>1. {x} \ {x} = {} /\ x \in {x} /\ IsFiniteSet({x}) /\ \A y \in {x} : f[y] \in Int
  BY FS_Singleton
<1>2. PICK S : S = {x}
  OBVIOUS
<1>3. SumFunctionOnSet(f, S) = f[x] + SumFunctionOnSet(f, S \ {x})
  BY <1>1, <1>2, SumWithout
<1>. QED
  BY <1>1, <1>2, <1>3, SumOfNone
=============================================================================
