----------------------------- MODULE FoldProofs -----------------------------
(* Facts about the recursive functions the models compute with: sums of the    *)
(* contracts' books over finite sets, and the loops of the circuit, written as *)
(* folds over sequences or as functions of the turn.  That such a function     *)
(* exists, has a type and adds up is shown by taking a smallest set, or a      *)
(* first turn, for which it would not.                                         *)
EXTENDS Integers, FiniteSetsExt, Functions, FiniteSetTheorems,
        WellFoundedInduction, TLAPS

\* The set of subsets of S on which a property holds is all of them, if adding one
\* element to a smaller set never loses it.
LEMMA SubsetInduction ==
    ASSUME NEW S, IsFiniteSet(S), NEW Good,
           \A T \in SUBSET S : (\A x \in T : T \ {x} \in Good) => T \in Good
    PROVE  \A T \in SUBSET S : T \in Good
<1> DEFINE Bad == {T \in SUBSET S : T \notin Good}
<1> SUFFICES ASSUME Bad # {} PROVE FALSE
  OBVIOUS
<1>1. Bad \subseteq FiniteSubsetsOf(S)
  BY FS_FiniteSubsetsOfFinite
<1>2. PICK T \in Bad : \A U \in Bad : ~(<<U, T>> \in StrictSubsetOrdering(S))
  BY <1>1, FS_StrictSubsetOrderingWellFounded, WFMin
<1>3. \A x \in T : T \ {x} \in Good
  <2> SUFFICES ASSUME NEW x \in T, T \ {x} \notin Good PROVE FALSE
    OBVIOUS
  <2>1. <<T \ {x}, T>> \in StrictSubsetOrdering(S)
    BY DEF StrictSubsetOrdering
  <2> QED BY <1>2, <2>1
<1> QED BY <1>3

\* The table of a fold over S: c[s] is the element it takes out of s, g[c[s]] what
\* it does with it.
Table(S, D, c, e, g, t) ==
    /\ t \in [S -> D]
    /\ \A s \in S : t[s] = IF s = {} THEN e ELSE g[c[s]][t[s \ {c[s]}]]
UpTo(S, n) == {s \in SUBSET S : Cardinality(s) <= n}

\* A fold with typed steps has a table.
LEMMA TableExists ==
    ASSUME NEW S, IsFiniteSet(S), NEW D, NEW e \in D, NEW g \in [S -> [D -> D]],
           NEW c, \A s \in SUBSET S : s # {} => c[s] \in s
    PROVE  \E t : Table(SUBSET S, D, c, e, g, t)
<1> DEFINE Good == {T \in SUBSET S : \E t : Table(UpTo(S, Cardinality(T)), D, c, e, g, t)}
<1>1. \A s \in SUBSET S : IsFiniteSet(s) /\ Cardinality(s) \in Nat /\ (Cardinality(s) = 0 <=> s = {})
  BY FS_Subset, FS_CardinalityType, FS_EmptySet
<1>2. ASSUME NEW T \in SUBSET S, \A x \in T : T \ {x} \in Good
      PROVE  T \in Good
  <2>1. CASE T = {}
    <3> DEFINE E == UpTo(S, Cardinality(T))
    <3>1. E = {{}}
      BY <1>1, <2>1 DEF UpTo
    <3>2. Table(E, D, c, e, g, [s \in E |-> e])
      BY <3>1 DEF Table
    <3> QED BY <3>2
  <2>2. CASE T # {}
    <3>1. PICK x \in T : T \ {x} \in Good
      BY <1>2, <2>2
    <3> DEFINE B == UpTo(S, Cardinality(T \ {x}))
               E == UpTo(S, Cardinality(T))
    <3>2. PICK t : Table(B, D, c, e, g, t)
      BY <3>1
    <3> DEFINE Grown(s) == IF s = {} THEN e ELSE g[c[s]][t[s \ {c[s]}]]
               u == [s \in E |-> Grown(s)]
    <3>3. Cardinality(T \ {x}) = Cardinality(T) - 1
      BY <1>1, FS_RemoveElement
    <3>4. B \subseteq E
      BY <1>1, <3>3 DEF UpTo
    <3>5. \A s \in B : u[s] = t[s]
      BY <3>2, <3>4 DEF Table
    <3>6. ASSUME NEW s \in E, s # {}
          PROVE  s \ {c[s]} \in B /\ c[s] \in S
      <4>1. s \in SUBSET S /\ c[s] \in s
        BY <3>6 DEF UpTo
      <4>2. Cardinality(s \ {c[s]}) = Cardinality(s) - 1
        BY <1>1, <4>1, FS_RemoveElement
      <4>3. /\ Cardinality(s) <= Cardinality(T)
            /\ Cardinality(s) \in Nat /\ Cardinality(T) \in Nat
        BY <1>1, <3>6 DEF UpTo
      <4>4. Cardinality(s \ {c[s]}) <= Cardinality(T \ {x})
        BY <3>3, <4>2, <4>3
      <4> QED BY <4>1, <4>4 DEF UpTo
    <3>7. \A s \in E : u[s] = IF s = {} THEN e ELSE g[c[s]][u[s \ {c[s]}]]
      BY <3>5, <3>6
    <3>8. ASSUME NEW s \in E
          PROVE  Grown(s) \in D
      <4>1. CASE s # {}
        <5>1. c[s] \in S /\ t[s \ {c[s]}] \in D
          BY <3>2, <3>6, <4>1 DEF Table
        <5> QED BY <4>1, <5>1
      <4> QED BY <4>1
    <3>9. u \in [E -> D]
      BY <3>8
    <3> HIDE DEF u
    <3>10. Table(E, D, c, e, g, u)
      BY <3>7, <3>9 DEF Table
    <3> QED BY <3>10, Zenon
  <2> QED BY <2>1, <2>2
<1> HIDE DEF Good
<1>3. S \in Good
  <2>1. \A T \in SUBSET S : T \in Good
    BY <1>2, SubsetInduction
  <2> QED BY <2>1
<1>4. UpTo(S, Cardinality(S)) = SUBSET S
  BY FS_Subset DEF UpTo
<1>5. \E t : Table(UpTo(S, Cardinality(S)), D, c, e, g, t)
  BY <1>3 DEF Good
<1> QED BY <1>4, <1>5

\* The element a sum takes out of s, and the recursion it then follows on the
\* family D of sets.
Pick(s) == CHOOSE x \in s : TRUE
Totals(g, D, t) ==
    t = [s \in D |-> IF s = {} THEN 0 ELSE g[Pick(s)] + t[s \ {Pick(s)}]]

LEMMA PickOne ==
    ASSUME NEW s, s # {}
    PROVE  Pick(s) \in s
BY DEF Pick

\* The recursion has a solution on the subsets of a finite set.
LEMMA TotalsExist ==
    ASSUME NEW S, IsFiniteSet(S), NEW g \in [S -> Nat]
    PROVE  \E t : Totals(g, SUBSET S, t)
<1> DEFINE step == [x \in S |-> [v \in Nat |-> g[x] + v]]
           c == [s \in SUBSET S |-> Pick(s)]
<1>1. step \in [S -> [Nat -> Nat]] /\ 0 \in Nat
  OBVIOUS
<1>2. \A s \in SUBSET S : s # {} => c[s] \in s
  BY PickOne
<1>3. \A s \in SUBSET S : c[s] = Pick(s)
  OBVIOUS
<1>4. \A x \in S, v \in Nat : step[x][v] = g[x] + v
  OBVIOUS
<1> HIDE DEF step, c
<1>5. PICK t : Table(SUBSET S, Nat, c, 0, step, t)
  BY <1>1, <1>2, TableExists
<1>6. ASSUME NEW s \in SUBSET S, s # {}
      PROVE  t[s] = g[Pick(s)] + t[s \ {Pick(s)}]
  <2>1. Pick(s) \in S /\ s \ {Pick(s)} \in SUBSET S
    BY <1>6, PickOne
  <2>2. t[s] = step[Pick(s)][t[s \ {Pick(s)}]] /\ t[s \ {Pick(s)}] \in Nat
    BY <1>3, <1>5, <1>6, <2>1 DEF Table
  <2> QED BY <1>4, <2>1, <2>2
<1>7. \A s \in SUBSET S : t[s] = IF s = {} THEN 0 ELSE g[Pick(s)] + t[s \ {Pick(s)}]
  BY <1>5, <1>6 DEF Table
<1>8. t = [s \in SUBSET S |-> t[s]]
  BY <1>5 DEF Table
<1> QED BY <1>7, <1>8 DEF Totals

\* The fold over the subsets of S.
Total(g, S) == CHOOSE t : Totals(g, SUBSET S, t)

LEMMA SumIsTotal ==
    ASSUME NEW S, NEW g, S = DOMAIN g
    PROVE  SumFunction(g) = Total(g, S)[S]
BY DEF SumFunction, SumFunctionOnSet, FoldFunctionOnSet, MapThenFoldSet, Total,
   Totals, Pick

LEMMA TotalRecursion ==
    ASSUME NEW S, IsFiniteSet(S), NEW g \in [S -> Nat], NEW T \in SUBSET S
    PROVE  Total(g, S)[T] = IF T = {} THEN 0
                            ELSE g[Pick(T)] + Total(g, S)[T \ {Pick(T)}]
<1>1. Totals(g, SUBSET S, Total(g, S))
  BY TotalsExist DEF Total
<1> HIDE DEF Total
<1> QED BY <1>1 DEF Totals

LEMMA EmptyTotal ==
    ASSUME NEW S, IsFiniteSet(S), NEW g \in [S -> Nat]
    PROVE  Total(g, S)[{}] = 0
BY TotalRecursion

\* A sum of naturals is a natural.
LEMMA SumType ==
    ASSUME NEW S, IsFiniteSet(S), NEW g \in [S -> Nat]
    PROVE  SumFunction(g) \in Nat
<1> DEFINE t == Total(g, S)
           Good == {T \in SUBSET S : t[T] \in Nat}
<1>1. ASSUME NEW T \in SUBSET S, \A x \in T : T \ {x} \in Good
      PROVE  T \in Good
  <2>1. CASE T = {}
    BY <2>1, EmptyTotal
  <2>2. CASE T # {}
    <3>1. Pick(T) \in T /\ t[T] = g[Pick(T)] + t[T \ {Pick(T)}]
      BY <2>2, PickOne, TotalRecursion
    <3>2. g[Pick(T)] \in Nat /\ t[T \ {Pick(T)}] \in Nat
      BY <1>1, <3>1
    <3> QED BY <3>1, <3>2
  <2> QED BY <2>1, <2>2
<1> HIDE DEF Good
<1>2. S \in Good
  <2>1. \A T \in SUBSET S : T \in Good
    BY <1>1, SubsetInduction
  <2> QED BY <2>1
<1> QED BY <1>2, SumIsTotal DEF Good

\* Changing the entry of x changes the sum by as much, whatever order the fold takes.
LEMMA SumChange ==
    ASSUME NEW S, IsFiniteSet(S), NEW g \in [S -> Nat], NEW x \in S, NEW v \in Nat
    PROVE  SumFunction([g EXCEPT ![x] = v]) = (SumFunction(g) - g[x]) + v
<1> DEFINE h == [g EXCEPT ![x] = v]
           t == Total(g, S)
           u == Total(h, S)
           Shift(T) == IF x \in T THEN v - g[x] ELSE 0
           Good == {T \in SUBSET S : t[T] \in Int /\ u[T] = t[T] + Shift(T)}
<1>1. /\ h \in [S -> Nat] /\ h[x] = v /\ g[x] \in Nat
      /\ \A y \in S \ {x} : h[y] = g[y]
  OBVIOUS
<1> HIDE DEF h
<1>2. ASSUME NEW T \in SUBSET S, \A y \in T : T \ {y} \in Good
      PROVE  T \in Good
  <2>1. CASE T = {}
    BY <1>1, <2>1, EmptyTotal
  <2>2. CASE T # {}
    <3> DEFINE p == Pick(T)
               R == T \ {p}
    <3>1. /\ p \in T /\ p \in S /\ R \in SUBSET S
          /\ t[T] = g[p] + t[R] /\ u[T] = h[p] + u[R]
      <4>1. p \in T /\ p \in S /\ R \in SUBSET S
        BY <2>2, PickOne
      <4>2. t[T] = g[p] + t[R]
        BY <2>2, TotalRecursion
      <4>3. u[T] = h[p] + u[R]
        BY <1>1, <2>2, TotalRecursion
      <4> QED BY <4>1, <4>2, <4>3
    <3>2. t[R] \in Int /\ u[R] = t[R] + Shift(R) /\ g[p] \in Nat /\ h[p] \in Nat
      BY <1>1, <1>2, <3>1
    <3> HIDE DEF t, u
    <3>3. CASE p = x
      <4>1. Shift(R) = 0 /\ Shift(T) = v - g[x] /\ h[p] = v /\ g[p] = g[x]
        BY <1>1, <3>1, <3>3
      <4> QED BY <1>1, <3>1, <3>2, <4>1
    <3>4. CASE p # x
      <4>1. Shift(R) = Shift(T) /\ h[p] = g[p] /\ Shift(R) \in Int
        BY <1>1, <3>1, <3>4
      <4> QED BY <1>1, <3>1, <3>2, <4>1
    <3> QED BY <3>3, <3>4
  <2> QED BY <2>1, <2>2
<1> HIDE DEF Good
<1>3. S \in Good
  <2>1. \A T \in SUBSET S : T \in Good
    BY <1>2, SubsetInduction
  <2> QED BY <2>1
<1>4. SumFunction(g) = t[S] /\ SumFunction(h) = u[S]
  BY <1>1, SumIsTotal
<1>5. SumFunction(g) \in Nat
  BY SumType
<1> HIDE DEF t, u
<1>6. SumFunction(h) = SumFunction(g) + (v - g[x])
  BY <1>3, <1>4 DEF Good
<1>7. SumFunction(h) = (SumFunction(g) - g[x]) + v
  BY <1>1, <1>5, <1>6
<1> QED BY <1>7 DEF h

\* A sum of zeros is zero.
LEMMA SumOfZeros ==
    ASSUME NEW S, IsFiniteSet(S)
    PROVE  SumFunction([x \in S |-> 0]) = 0
<1> DEFINE g == [x \in S |-> 0]
           Good == {T \in SUBSET S : Total(g, S)[T] = 0}
<1>1. S = DOMAIN g /\ g \in [S -> Nat] /\ \A x \in S : g[x] = 0
  OBVIOUS
<1> HIDE DEF g
<1>2. ASSUME NEW T \in SUBSET S, \A x \in T : T \ {x} \in Good
      PROVE  T \in Good
  <2>1. CASE T = {}
    BY <1>1, <2>1, EmptyTotal
  <2>2. CASE T # {}
    <3>1. /\ Pick(T) \in T
          /\ Total(g, S)[T] = g[Pick(T)] + Total(g, S)[T \ {Pick(T)}]
      BY <1>1, <2>2, PickOne, TotalRecursion
    <3>2. g[Pick(T)] = 0 /\ Total(g, S)[T \ {Pick(T)}] = 0
      BY <1>1, <1>2, <3>1
    <3> QED BY <3>1, <3>2
  <2> QED BY <2>1, <2>2
<1> HIDE DEF Good
<1>3. S \in Good
  <2>1. \A T \in SUBSET S : T \in Good
    BY <1>2, SubsetInduction
  <2> QED BY <2>1
<1>4. Total(g, S)[S] = 0
  BY <1>3 DEF Good
<1>5. SumFunction(g) = Total(g, S)[S]
  BY <1>1, SumIsTotal
<1> QED BY <1>4, <1>5 DEF g

\* Clearing an entry takes it out of the sum; none is more than the sum.
LEMMA SumClear ==
    ASSUME NEW S, IsFiniteSet(S), NEW g \in [S -> Nat], NEW x \in S
    PROVE  /\ SumFunction([g EXCEPT ![x] = 0]) = SumFunction(g) - g[x]
           /\ g[x] <= SumFunction(g)
<1> DEFINE h == [g EXCEPT ![x] = 0]
<1>1. 0 \in Nat
  OBVIOUS
<1>2. h \in [S -> Nat] /\ g[x] \in Nat
  OBVIOUS
<1>3. SumFunction(h) = (SumFunction(g) - g[x]) + 0
  BY <1>1, SumChange, Zenon
<1> HIDE DEF h
<1>4. SumFunction(h) \in Nat /\ SumFunction(g) \in Nat
  BY <1>2, SumType
<1>5. SumFunction(h) = SumFunction(g) - g[x] /\ g[x] <= SumFunction(g)
  BY <1>2, <1>3, <1>4
<1> QED BY <1>5 DEF h

----------------------------------------------------------------------------
(* Loops *)

\* What holds at turn 0 and from turn to turn holds at every turn.
LEMMA TurnInduction ==
    ASSUME NEW n \in Nat, NEW Good, 0 \in Good,
           \A k \in 1 .. n : k - 1 \in Good => k \in Good
    PROVE  \A k \in 0 .. n : k \in Good
<1> SUFFICES ASSUME NEW b \in 0 .. n, b \notin Good PROVE FALSE
  OBVIOUS
<1> DEFINE Bad == {k \in 0 .. n : k \notin Good}
<1>1. Bad \subseteq Nat /\ Bad # {}
  OBVIOUS
<1>2. PICK k \in Bad : \A j \in Bad : ~ (<<j, k>> \in OpToRel(<, Nat))
  BY <1>1, NatLessThanWellFounded, WFMin
<1>3. k \in 1 .. n /\ k - 1 \in 0 .. n
  OBVIOUS
<1>4. <<k - 1, k>> \in OpToRel(<, Nat)
  <2>1. <<k - 1, k>> \in Nat \X Nat /\ k - 1 < k
    BY <1>3
  <2> QED BY <2>1 DEF OpToRel
<1>5. k - 1 \notin Bad
  BY <1>2, <1>4
<1> QED BY <1>3, <1>5

\* The value a loop leaves after n turns, starting from e; turn k is g[k].
Loop(g, e, n) ==
    LET value[k \in 0 .. n] == IF k = 0 THEN e ELSE g[k][value[k - 1]]
    IN  value[n]

Turns(g, e, n, f) == f = [k \in 0 .. n |-> IF k = 0 THEN e ELSE g[k][f[k - 1]]]

LEMMA TurnsExist ==
    ASSUME NEW n \in Nat, NEW g, NEW e
    PROVE  \E f : Turns(g, e, n, f)
<1> DEFINE Good == {m \in 0 .. n : \E f : Turns(g, e, m, f)}
<1>1. 0 \in Good
  <2>1. Turns(g, e, 0, [k \in 0 .. 0 |-> e])
    BY DEF Turns
  <2> QED BY <2>1
<1>2. ASSUME NEW m \in 1 .. n, m - 1 \in Good
      PROVE  m \in Good
  <2>1. PICK f : Turns(g, e, m - 1, f)
    BY <1>2
  <2> DEFINE u == [k \in 0 .. m |-> IF k = 0 THEN e ELSE g[k][f[k - 1]]]
  <2>2. \A k \in 0 .. (m - 1) : f[k] = IF k = 0 THEN e ELSE g[k][f[k - 1]]
    BY <2>1 DEF Turns
  <2>3. \A k \in 0 .. (m - 1) : u[k] = f[k]
    BY <2>2
  <2>4. \A k \in 0 .. m : k = 0 \/ k - 1 \in 0 .. (m - 1)
    OBVIOUS
  <2>5. \A k \in 0 .. m : u[k] = IF k = 0 THEN e ELSE g[k][f[k - 1]]
    OBVIOUS
  <2> HIDE DEF u
  <2>7. \A k \in 0 .. m : u[k] = IF k = 0 THEN e ELSE g[k][u[k - 1]]
    BY <2>3, <2>4, <2>5
  <2>6. Turns(g, e, m, u)
    BY <2>7, <2>5 DEF Turns, u
  <2> QED BY <2>6
<1> HIDE DEF Good
<1>3. n \in Good
  BY <1>1, <1>2, TurnInduction
<1> QED BY <1>3 DEF Good

\* Two runs of the same loop agree.
LEMMA TurnsAgree ==
    ASSUME NEW n \in Nat, NEW m \in Nat, NEW g, NEW e, NEW f, NEW h,
           Turns(g, e, n, f), Turns(g, e, m, h), n <= m
    PROVE  \A k \in 0 .. n : f[k] = h[k]
<1> DEFINE Good == {k \in 0 .. n : f[k] = h[k]}
<1>1. /\ \A k \in 0 .. n : f[k] = IF k = 0 THEN e ELSE g[k][f[k - 1]]
      /\ \A k \in 0 .. m : h[k] = IF k = 0 THEN e ELSE g[k][h[k - 1]]
  BY DEF Turns
<1>2. 0 \in Good
  BY <1>1
<1>3. ASSUME NEW k \in 1 .. n, k - 1 \in Good
      PROVE  k \in Good
  BY <1>1, <1>3
<1> HIDE DEF Good
<1>4. \A k \in 0 .. n : k \in Good
  BY <1>2, <1>3, TurnInduction
<1> QED BY <1>4 DEF Good

LEMMA LoopIsTurns ==
    ASSUME NEW n \in Nat, NEW g, NEW e, NEW f, Turns(g, e, n, f)
    PROVE  Loop(g, e, n) = f[n]
<1> DEFINE v == CHOOSE v : Turns(g, e, n, v)
<1>1. Loop(g, e, n) = v[n]
  BY DEF Loop, Turns
<1>2. Turns(g, e, n, v)
  OBVIOUS
<1> HIDE DEF v
<1> QED BY <1>1, <1>2, TurnsAgree

\* A loop starts from e, and its turns follow each other.
LEMMA LoopTurns ==
    ASSUME NEW g, NEW e
    PROVE  /\ Loop(g, e, 0) = e
           /\ \A n \in Nat \ {0} : Loop(g, e, n) = g[n][Loop(g, e, n - 1)]
<1>1. Loop(g, e, 0) = e
  <2>0. 0 \in Nat /\ 0 \in 0 .. 0
    OBVIOUS
  <2>1. PICK f : Turns(g, e, 0, f)
    BY <2>0, TurnsExist
  <2>2. Loop(g, e, 0) = f[0]
    BY <2>0, <2>1, LoopIsTurns
  <2> QED BY <2>0, <2>1, <2>2 DEF Turns
<1>2. ASSUME NEW n \in Nat \ {0}
      PROVE  Loop(g, e, n) = g[n][Loop(g, e, n - 1)]
  <2>1. n - 1 \in Nat
    OBVIOUS
  <2>2. PICK f : Turns(g, e, n, f)
    BY TurnsExist
  <2>3. PICK h : Turns(g, e, n - 1, h)
    BY <2>1, TurnsExist
  <2>4. h[n - 1] = f[n - 1]
    BY <2>1, <2>2, <2>3, TurnsAgree
  <2>5. Loop(g, e, n) = f[n] /\ Loop(g, e, n - 1) = h[n - 1]
    BY <2>1, <2>2, <2>3, LoopIsTurns
  <2>6. f[n] = g[n][f[n - 1]]
    BY <2>2 DEF Turns
  <2> QED BY <2>4, <2>5, <2>6
<1> QED BY <1>1, <1>2

LEMMA LoopNext ==
    ASSUME NEW g, NEW e, NEW n \in Nat \ {0}
    PROVE  Loop(g, e, n) = g[n][Loop(g, e, n - 1)]
BY LoopTurns

\* A loop whose turns are functions on D, and a function that follows them while
\* its values are in D.
Looping(n, D, e, g) == n \in Nat /\ e \in D /\ g \in [1 .. n -> [D -> D]]

Follows(n, D, e, g, h) ==
    h[0] = e /\ \A k \in 1 .. n : h[k - 1] \in D => h[k] = g[k][h[k - 1]]

\* A loop whose turns keep a type ends with a value of that type.
LEMMA LoopType ==
    ASSUME NEW n, NEW D, NEW e, NEW g, Looping(n, D, e, g)
    PROVE  \A k \in 0 .. n : Loop(g, e, k) \in D
<1> DEFINE Good == {k \in 0 .. n : Loop(g, e, k) \in D}
<1>1. n \in Nat /\ e \in D /\ g \in [1 .. n -> [D -> D]]
  BY DEF Looping
<1>2. 0 \in Good
  BY <1>1, LoopTurns
<1>3. ASSUME NEW k \in 1 .. n, k - 1 \in Good
      PROVE  k \in Good
  <2>0. k \in Nat \ {0}
    BY <1>1
  <2>1. Loop(g, e, k) = g[k][Loop(g, e, k - 1)]
    BY ONLY <2>0, LoopNext
  <2> QED BY <1>1, <1>3, <2>1
<1> HIDE DEF Good
<1>4. \A k \in 0 .. n : k \in Good
  BY <1>1, <1>2, <1>3, TurnInduction
<1> QED BY <1>4 DEF Good

\* The values a loop goes through.
Values(n, D, e, g, f) ==
    /\ f \in [0 .. n -> D]
    /\ f[0] = e /\ \A k \in 1 .. n : f[k] = g[k][f[k - 1]]

LEMMA LoopExists ==
    ASSUME NEW n, NEW D, NEW e, NEW g, Looping(n, D, e, g)
    PROVE  \E f : Values(n, D, e, g, f)
<1> DEFINE f == [k \in 0 .. n |-> Loop(g, e, k)]
<1>1. n \in Nat
  BY DEF Looping
<1>2. f \in [0 .. n -> D]
  BY LoopType
<1>3. f[0] = e
  BY <1>1, LoopTurns
<1>4. ASSUME NEW k \in 1 .. n
      PROVE  f[k] = g[k][f[k - 1]]
  <2>1. k \in Nat \ {0} /\ k \in 0 .. n /\ k - 1 \in 0 .. n
    BY <1>1
  <2>2. f[k] = Loop(g, e, k) /\ f[k - 1] = Loop(g, e, k - 1)
    BY <2>1
  <2>3. Loop(g, e, k) = g[k][Loop(g, e, k - 1)]
    BY ONLY <2>1, LoopNext
  <2> QED BY <2>2, <2>3
<1> HIDE DEF f
<1> QED BY <1>2, <1>3, <1>4 DEF Values

\* What follows the turns of a loop has its values.
LEMMA LoopFollowed ==
    ASSUME NEW n, NEW D, NEW e, NEW g, NEW h, Looping(n, D, e, g), Follows(n, D, e, g, h)
    PROVE  \A k \in 0 .. n : h[k] = Loop(g, e, k) /\ h[k] \in D
<1> DEFINE Good == {k \in 0 .. n : h[k] = Loop(g, e, k)}
<1>1. n \in Nat /\ e \in D
  BY DEF Looping
<1>2. 0 \in Good
  BY <1>1, LoopTurns DEF Follows
<1>3. \A k \in 0 .. n : Loop(g, e, k) \in D
  BY LoopType
<1>4. ASSUME NEW k \in 1 .. n, k - 1 \in Good
      PROVE  k \in Good
  <2>0. k \in Nat \ {0} /\ k \in 0 .. n /\ k - 1 \in 0 .. n
    BY <1>1
  <2>1. Loop(g, e, k) = g[k][Loop(g, e, k - 1)]
    BY ONLY <2>0, LoopNext
  <2>2. Loop(g, e, k - 1) \in D
    BY <1>3, <2>0
  <2>3. h[k - 1] = Loop(g, e, k - 1)
    BY <1>4
  <2>4. h[k] = g[k][h[k - 1]]
    BY <2>2, <2>3 DEF Follows
  <2> QED BY <2>0, <2>1, <2>3, <2>4
<1> HIDE DEF Good
<1>5. \A k \in 0 .. n : k \in Good
  BY <1>1, <1>2, <1>4, TurnInduction
<1> QED BY <1>5, <1>3 DEF Good

----------------------------------------------------------------------------
(* Folds over sequences *)

LEMMA Extremes ==
    ASSUME NEW n \in Nat, NEW s \in SUBSET (1 .. n), s # {}
    PROVE  /\ Max(s) \in s /\ \A y \in s : y <= Max(s)
           /\ Min(s) \in s /\ \A y \in s : Min(s) <= y
<1>1. \E x \in s : \A y \in s : x <= y
  <2>1. s \subseteq Nat
    OBVIOUS
  <2>2. PICK x \in s : \A y \in s : ~ (<<y, x>> \in OpToRel(<, Nat))
    BY <2>1, NatLessThanWellFounded, WFMin
  <2>3. \A y \in s : ~ (y < x)
    BY <2>1, <2>2 DEF OpToRel
  <2> QED BY <2>1, <2>3
<1>2. \E x \in s : \A y \in s : x >= y
  <2> DEFINE T == {n - x : x \in s}
  <2>0. \A x \in s : x \in Int /\ n - x \in Nat
    OBVIOUS
  <2>7. T \subseteq Nat
    BY <2>0, Zenon
  <2>1. T \subseteq Nat /\ T # {}
    BY <2>7, Zenon
  <2>2. PICK d \in T : \A y \in T : ~ (<<y, d>> \in OpToRel(<, Nat))
    BY <2>1, NatLessThanWellFounded, WFMin
  <2>3. \A y \in T : ~ (y < d)
    BY <2>1, <2>2 DEF OpToRel
  <2>4. PICK x \in s : d = n - x
    OBVIOUS
  <2>5. \A y \in s : n - y \in T
    OBVIOUS
  <2>6. \A y \in s : x >= y
    BY <2>3, <2>4, <2>5
  <2> QED BY <2>6
<1>3. Min(s) \in s /\ \A y \in s : Min(s) <= y
  BY <1>1 DEF Min
<1>4. Max(s) \in s /\ \A y \in s : Max(s) >= y
  BY <1>2 DEF Max
<1>5. s \subseteq Int
  OBVIOUS
<1> QED BY <1>3, <1>4, <1>5

\* A fold from the left (FoldLeft) takes the largest index out, and is a loop.
FromLeft(n, D, e, g, t) ==
    /\ t \in [SUBSET (1 .. n) -> D]
    /\ \A s \in SUBSET (1 .. n) :
         t[s] = IF s = {} THEN e ELSE g[Max(s)][t[s \ {Max(s)}]]

LEMMA LeftTable ==
    ASSUME NEW n, NEW D, NEW e, NEW g, Looping(n, D, e, g)
    PROVE  \E t : FromLeft(n, D, e, g, t)
<1> n \in Nat /\ e \in D /\ g \in [1 .. n -> [D -> D]]
  BY DEF Looping
<1> DEFINE c == [s \in SUBSET (1 .. n) |-> Max(s)]
<1>1. \A s \in SUBSET (1 .. n) : c[s] = Max(s) /\ (s # {} => c[s] \in s)
  BY Extremes
<1>2. IsFiniteSet(1 .. n)
  BY FS_Interval
<1> HIDE DEF c
<1>3. PICK t : Table(SUBSET (1 .. n), D, c, e, g, t)
  BY <1>1, <1>2, TableExists
<1>4. t \in [SUBSET (1 .. n) -> D]
  BY <1>3 DEF Table
<1>5. \A s \in SUBSET (1 .. n) : t[s] = IF s = {} THEN e ELSE g[Max(s)][t[s \ {Max(s)}]]
  BY <1>1, <1>3 DEF Table
<1> QED BY <1>4, <1>5 DEF FromLeft

FoldsLeft(n, D, e, g, t) ==
    /\ t[{}] = e
    /\ \A s \in SUBSET (1 .. n) : s # {} /\ t[s \ {Max(s)}] \in D =>
         t[s] = g[Max(s)][t[s \ {Max(s)}]]

LEMMA LeftFold ==
    ASSUME NEW n, NEW D, NEW e, NEW g, Looping(n, D, e, g),
           NEW t, FoldsLeft(n, D, e, g, t)
    PROVE  t[1 .. n] = Loop(g, e, n)
<1> n \in Nat /\ e \in D /\ g \in [1 .. n -> [D -> D]]
  BY DEF Looping
<1>1. /\ t[{}] = e
      /\ \A s \in SUBSET (1 .. n) : s # {} /\ t[s \ {Max(s)}] \in D =>
           t[s] = g[Max(s)][t[s \ {Max(s)}]]
  BY DEF FoldsLeft
<1> DEFINE h == [k \in 0 .. n |-> t[1 .. k]]
<1>2. 1 .. 0 = {}
  OBVIOUS
<1>3. h[0] = e
  BY <1>1, <1>2
<1>4. ASSUME NEW k \in 1 .. n, h[k - 1] \in D
      PROVE  h[k] = g[k][h[k - 1]]
  <2>1. /\ 1 .. k \in SUBSET (1 .. n) /\ k \in 1 .. k
        /\ k - 1 \in 0 .. n /\ k \in 0 .. n /\ k \in Nat
    OBVIOUS
  <2>6. 1 .. k # {}
    BY <2>1
  <2>2. Max(1 .. k) \in 1 .. k /\ \A y \in 1 .. k : y <= Max(1 .. k)
    BY <2>1, <2>6, Extremes
  <2>3. Max(1 .. k) = k
    BY <2>1, <2>2
  <2>4. (1 .. k) \ {k} = 1 .. (k - 1)
    OBVIOUS
  <2>5. h[k] = t[1 .. k] /\ h[k - 1] = t[1 .. (k - 1)]
    BY <2>1
  <2> HIDE DEF h
  <2>7. (1 .. k) \ {Max(1 .. k)} = 1 .. (k - 1)
    BY <2>3, <2>4
  <2>8. t[1 .. k] = g[k][t[(1 .. k) \ {Max(1 .. k)}]]
    BY <1>1, <1>4, <2>1, <2>3, <2>5, <2>6, <2>7
  <2> QED BY <2>5, <2>7, <2>8
<1> HIDE DEF h
<1>5. h[n] = Loop(g, e, n)
  <2>0. \A k \in 1 .. n : h[k - 1] \in D => h[k] = g[k][h[k - 1]]
    BY <1>4
  <2>1. Follows(n, D, e, g, h)
    BY <1>3, <2>0 DEF Follows
  <2>2. \A k \in 0 .. n : h[k] = Loop(g, e, k)
    BY <2>1, LoopFollowed
  <2> QED BY <2>2
<1> QED BY <1>5 DEF h

\* A fold from the right (FoldRight) takes the smallest out, and is a loop that
\* comes to the last index first.
FromRight(n, D, e, g, t) ==
    /\ t \in [SUBSET (1 .. n) -> D]
    /\ \A s \in SUBSET (1 .. n) :
         t[s] = IF s = {} THEN e ELSE g[n + 1 - Min(s)][t[s \ {Min(s)}]]

LEMMA RightTable ==
    ASSUME NEW n, NEW D, NEW e, NEW g, Looping(n, D, e, g)
    PROVE  \E t : FromRight(n, D, e, g, t)
<1> n \in Nat /\ e \in D /\ g \in [1 .. n -> [D -> D]]
  BY DEF Looping
<1> DEFINE c == [s \in SUBSET (1 .. n) |-> Min(s)]
           r == [k \in 1 .. n |-> g[n + 1 - k]]
<1>1. \A s \in SUBSET (1 .. n) : c[s] = Min(s) /\ (s # {} => c[s] \in s)
  BY Extremes
<1>2. IsFiniteSet(1 .. n)
  BY FS_Interval
<1>3. r \in [1 .. n -> [D -> D]] /\ \A k \in 1 .. n : r[k] = g[n + 1 - k]
  OBVIOUS
<1> HIDE DEF c, r
<1>4. PICK t : Table(SUBSET (1 .. n), D, c, e, r, t)
  BY <1>1, <1>2, <1>3, TableExists
<1>5. t \in [SUBSET (1 .. n) -> D]
  BY <1>4 DEF Table
<1>6. ASSUME NEW s \in SUBSET (1 .. n)
      PROVE  t[s] = IF s = {} THEN e ELSE g[n + 1 - Min(s)][t[s \ {Min(s)}]]
  <2>1. CASE s # {}
    <3>1. c[s] \in 1 .. n /\ c[s] = Min(s)
      BY <1>1, <2>1
    <3>2. r[c[s]] = g[n + 1 - c[s]]
      BY <1>3, <3>1
    <3> QED BY <1>4, <2>1, <3>1, <3>2 DEF Table
  <2> QED BY <1>4, <2>1 DEF Table
<1> QED BY <1>5, <1>6 DEF FromRight

FoldsRight(n, D, e, g, t) ==
    /\ t[{}] = e
    /\ \A s \in SUBSET (1 .. n) : s # {} /\ t[s \ {Min(s)}] \in D =>
         t[s] = g[n + 1 - Min(s)][t[s \ {Min(s)}]]

LEMMA RightFold ==
    ASSUME NEW n, NEW D, NEW e, NEW g, Looping(n, D, e, g),
           NEW t, FoldsRight(n, D, e, g, t)
    PROVE  t[1 .. n] = Loop(g, e, n)
<1> n \in Nat /\ e \in D /\ g \in [1 .. n -> [D -> D]]
  BY DEF Looping
<1>1. /\ t[{}] = e
      /\ \A s \in SUBSET (1 .. n) : s # {} /\ t[s \ {Min(s)}] \in D =>
           t[s] = g[n + 1 - Min(s)][t[s \ {Min(s)}]]
  BY DEF FoldsRight
<1> DEFINE h == [k \in 0 .. n |-> t[(n + 1 - k) .. n]]
<1>2. (n + 1 - 0) .. n = {} /\ (n + 1 - n) .. n = 1 .. n
  OBVIOUS
<1>3. h[0] = e /\ h[n] = t[1 .. n]
  BY <1>1, <1>2
<1>4. ASSUME NEW k \in 1 .. n, h[k - 1] \in D
      PROVE  h[k] = g[k][h[k - 1]]
  <2> DEFINE s == (n + 1 - k) .. n
  <2>1. /\ s \in SUBSET (1 .. n) /\ n + 1 - k \in s
        /\ k - 1 \in 0 .. n /\ k \in 0 .. n /\ k \in Nat
    OBVIOUS
  <2>7. s # {} /\ n + 1 - k \in Nat /\ s \subseteq Nat
    <3>1. n + 1 - k \in Nat /\ 1 .. n \subseteq Nat
      OBVIOUS
    <3> HIDE DEF s
    <3> QED BY <2>1, <3>1
  <2>2. h[k] = t[s] /\ h[k - 1] = t[(n + 1 - (k - 1)) .. n]
    BY <2>1
  <2>3. s \ {n + 1 - k} = (n + 1 - (k - 1)) .. n
    OBVIOUS
  <2>4. \A y \in s : n + 1 - k <= y
    OBVIOUS
  <2> HIDE DEF s, h
  <2>5. Min(s) \in s /\ \A y \in s : Min(s) <= y
    BY <2>1, <2>7, Extremes
  <2>8. Min(s) \in Nat
    BY <2>5, <2>7
  <2>6. Min(s) = n + 1 - k
    BY <2>1, <2>4, <2>5, <2>7, <2>8
  <2>9. n + 1 - Min(s) = k
    BY <2>1, <2>6
  <2>10. s \ {Min(s)} = (n + 1 - (k - 1)) .. n
    BY <2>3, <2>6
  <2>11. t[s] = g[k][t[s \ {Min(s)}]]
    BY <1>1, <1>4, <2>1, <2>2, <2>7, <2>9, <2>10
  <2> QED BY <2>2, <2>10, <2>11
<1> HIDE DEF h
<1>5. h[n] = Loop(g, e, n)
  <2>0. \A k \in 1 .. n : h[k - 1] \in D => h[k] = g[k][h[k - 1]]
    BY <1>4
  <2>1. Follows(n, D, e, g, h)
    BY <1>3, <2>0 DEF Follows
  <2>2. \A k \in 0 .. n : h[k] = Loop(g, e, k)
    BY <2>1, LoopFollowed
  <2> QED BY <2>2
<1> QED BY <1>3, <1>5
=============================================================================
