----------------------------- MODULE DataLemmas ----------------------------
(***************************************************************************)
(* Facts about induction and recursion, for the proofs about what loops    *)
(* over sequences, maps and counters compute.  Everything is about sets    *)
(* and functions: to show P(k) for every k, take the set of those k.       *)
(***************************************************************************)
EXTENDS Integers, SequencesExt, FiniteSetTheorems, SequenceTheorems, TLAPS

(***************************************************************************)
(* Induction                                                               *)
(***************************************************************************)

\* Every set of natural numbers that is not empty has a least element.
LEMMA Least ==
  ASSUME NEW T \in SUBSET Nat, T # {}
  PROVE  \E m \in T : \A k \in T : m <= k
<1> DEFINE R == {ss \in Nat \X Nat : ss[1] < ss[2]}
<1>1. IsWellFoundedOn(R, Nat)
  BY NatLessThanWellFounded DEF OpToRel
<1>2. PICK m \in T : \A y \in T : ~(<<y, m>> \in R)
  <2> HIDE DEF R
  <2> QED BY <1>1, WFMin, Zenon
<1>3. \A k \in T : ~(k < m)
  BY <1>2
<1> QED
  BY <1>3

\* A set of naturals up to n that has 0 and with each number its successor is all of them.
LEMMA UpTo ==
  ASSUME NEW n \in Nat, NEW T, 0 \in T,
         \A k \in 0..(n - 1) : k \in T => k + 1 \in T
  PROVE  \A k \in 0..n : k \in T
<1> DEFINE Missing == {k \in 0..n : k \notin T}
<1> SUFFICES ASSUME Missing # {} PROVE FALSE
  OBVIOUS
<1>1. PICK m \in Missing : \A k \in Missing : m <= k
  <2> Missing \in SUBSET Nat
    OBVIOUS
  <2> HIDE DEF Missing
  <2> QED BY Least
<1>2. m \in 1..n /\ m - 1 \in 0..(n - 1) /\ m - 1 \notin Missing
  BY <1>1
<1>3. m - 1 \in T /\ (m - 1) + 1 = m
  BY <1>2
<1> QED
  BY <1>1, <1>2, <1>3

(***************************************************************************)
(* Loops                                                                   *)
(***************************************************************************)
\* The values f after each of n rounds of a loop.
Loop(f, n, start, step) == f[0] = start /\ \A k \in 1..n : f[k] = step[k][f[k - 1]]

\* A loop has values, of the type its step keeps.
LEMMA LoopExists ==
  ASSUME NEW S, NEW start \in S, NEW n \in Nat, NEW step \in [1..n -> [S -> S]]
  PROVE  \E f \in [0..n -> S] : Loop(f, n, start, step)
<1> DEFINE T == {m \in 0..n : \E f \in [0..m -> S] : Loop(f, m, start, step)}
<1>1. 0 \in T
  <2> DEFINE g == [k \in 0..0 |-> start]
  <2>1. g \in [0..0 -> S] /\ Loop(g, 0, start, step)
    BY DEF Loop
  <2> HIDE DEF g
  <2> QED BY <2>1
<1>2. ASSUME NEW m \in 0..(n - 1), m \in T PROVE m + 1 \in T
  <2>1. PICK f \in [0..m -> S] : Loop(f, m, start, step)
    BY <1>2
  <2> DEFINE last == step[m + 1][f[m]]
             g == [k \in 0..(m + 1) |-> IF k = m + 1 THEN last ELSE f[k]]
  <2>2. last \in S
    <3> m + 1 \in 1..n /\ m \in 0..m
      OBVIOUS
    <3>1. step[m + 1] \in [S -> S] /\ f[m] \in S
      OBVIOUS
    <3> QED BY <3>1
  <2>3. g \in [0..(m + 1) -> S]
    <3> HIDE DEF last
    <3> QED BY <2>2
  <2>4. g[0] = start
    BY <2>1 DEF Loop
  <2>5. ASSUME NEW k \in 1..(m + 1) PROVE g[k] = step[k][g[k - 1]]
    <3>1. CASE k = m + 1
      <4> g[k] = last /\ g[k - 1] = f[m]
        BY <3>1
      <4> QED BY <3>1
    <3>2. CASE k # m + 1
      <4> k \in 1..m /\ g[k] = f[k] /\ g[k - 1] = f[k - 1]
        BY <3>2
      <4> QED BY <2>1 DEF Loop
    <3> QED BY <3>1, <3>2
  <2>6. m + 1 \in 0..n
    OBVIOUS
  <2> HIDE DEF g
  <2>7. Loop(g, m + 1, start, step)
    BY <2>4, <2>5 DEF Loop
  <2> QED BY <2>3, <2>6, <2>7
<1>3. n \in T
  <2> HIDE DEF T
  <2>1. \A m \in 0..(n - 1) : m \in T => m + 1 \in T
    BY <1>2
  <2>2. \A m \in 0..n : m \in T
    BY <1>1, <2>1, UpTo, Zenon
  <2> QED BY <2>2
<1> QED
  BY <1>3

\* Two runs of a loop agree as far as both go.
LEMMA LoopUnique ==
  ASSUME NEW start, NEW step, NEW m \in Nat, NEW n \in Nat, m <= n,
         NEW f, Loop(f, m, start, step), NEW g, Loop(g, n, start, step)
  PROVE  \A k \in 0..m : f[k] = g[k]
<1> DEFINE T == {k \in 0..m : f[k] = g[k]}
<1>1. 0 \in T
  BY DEF Loop
<1>2. ASSUME NEW k \in 0..(m - 1), k \in T PROVE k + 1 \in T
  <2>1. k + 1 \in 1..m /\ k + 1 \in 1..n /\ (k + 1) - 1 = k
    OBVIOUS
  <2>2. f[k + 1] = step[k + 1][f[k]] /\ g[k + 1] = step[k + 1][g[k]]
    BY <2>1 DEF Loop
  <2> QED BY <1>2, <2>1, <2>2
<1>3. \A k \in 0..m : k \in T
  <2> HIDE DEF T
  <2>1. \A k \in 0..(m - 1) : k \in T => k + 1 \in T
    BY <1>2
  <2> QED BY <1>1, <2>1, UpTo, Zenon
<1> QED
  BY <1>3

\* The values after each round of a loop without end.
Endless(f, start, step) == f[0] = start /\ \A n \in Nat : f[n + 1] = step[n + 1][f[n]]

\* A loop without end has values, too: those of its finite parts.
LEMMA EndlessLoopExists ==
  ASSUME NEW S, NEW start \in S, NEW step \in [Nat -> [S -> S]]
  PROVE  \E f \in [Nat -> S] : Endless(f, start, step)
<1> DEFINE run(n) == CHOOSE f \in [0..n -> S] : Loop(f, n, start, step)
           h == [n \in Nat |-> run(n)[n]]
<1>1. ASSUME NEW n \in Nat PROVE run(n) \in [0..n -> S] /\ Loop(run(n), n, start, step)
  <2> DEFINE part == [k \in 1..n |-> step[k]]
  <2>1. part \in [1..n -> [S -> S]]
    OBVIOUS
  <2>2. \E f \in [0..n -> S] : Loop(f, n, start, part)
    <3> HIDE DEF part
    <3> QED BY <2>1, LoopExists
  <2>3. \E f \in [0..n -> S] : Loop(f, n, start, step)
    BY <2>2 DEF Loop
  <2> QED BY <2>3
<1>2. ASSUME NEW n \in Nat PROVE run(n)[n] \in S
  BY <1>1
<1>3. h \in [Nat -> S]
  <2> HIDE DEF run
  <2> QED BY <1>2
<1>4. h[0] = start
  <2>1. run(0)[0] = start
    BY <1>1 DEF Loop
  <2> QED BY <2>1
<1>5. ASSUME NEW n \in Nat PROVE h[n + 1] = step[n + 1][h[n]]
  <2> DEFINE f == run(n)
             g == run(n + 1)
  <2>1. Loop(f, n, start, step) /\ Loop(g, n + 1, start, step)
    BY <1>1
  <2>2. h[n] = f[n] /\ h[n + 1] = g[n + 1]
    OBVIOUS
  <2> HIDE DEF f, g, h
  <2>3. \A k \in 0..n : f[k] = g[k]
    BY <2>1, LoopUnique
  <2>4. g[n] = f[n]
    BY <2>3
  <2>5. g[n + 1] = step[n + 1][g[n]]
    <3> n + 1 \in 1..(n + 1) /\ (n + 1) - 1 = n
      OBVIOUS
    <3> QED BY <2>1 DEF Loop
  <2> QED BY <2>2, <2>4, <2>5
<1> HIDE DEF h
<1> QED
  BY <1>3, <1>4, <1>5 DEF Endless

(***************************************************************************)
(* Folds: FoldLeft recurs over sets of places and takes the largest first  *)
(***************************************************************************)
\* A fold over the places 1..n, as a function of the set of places.
Folds(it, n, start, step) ==
  \A s \in SUBSET (1..n) :
    it[s] = IF s = {} THEN start ELSE step[Max(s)][it[s \ {Max(s)}]]

\* The largest of a set of places.
LEMMA MaxOfPlaces ==
  ASSUME NEW n \in Nat, NEW s \in SUBSET (1..n), s # {}
  PROVE  Max(s) \in s /\ \A x \in s : Max(s) >= x
<1> DEFINE T == {n - x : x \in s}
<1>1. T \in SUBSET Nat /\ T # {}
  <2>1. \A x \in s : n - x \in Nat
    OBVIOUS
  <2> QED BY <2>1
<1>2. PICK m \in T : \A k \in T : m <= k
  <2> HIDE DEF T
  <2> QED BY <1>1, Least
<1>3. PICK x \in s : m = n - x
  BY <1>2
<1>4. \A y \in s : x >= y
  <2> SUFFICES ASSUME NEW y \in s PROVE x >= y
    OBVIOUS
  <2>1. n - y \in T
    OBVIOUS
  <2>2. n - x <= n - y
    BY <1>2, <1>3, <2>1
  <2> QED BY <2>2
<1>5. \E z \in s : \A y \in s : z >= y
  BY <1>4
<1> QED
  BY <1>5 DEF Max

LEMMA MaxIs ==
  ASSUME NEW n \in Nat, NEW s \in SUBSET (1..n), NEW m \in s, \A x \in s : x <= m
  PROVE  Max(s) = m
<1>1. Max(s) \in s /\ \A x \in s : Max(s) >= x
  BY MaxOfPlaces
<1>2. \A x \in s : x \in Nat
  OBVIOUS
<1>3. Max(s) \in Nat /\ m \in Nat /\ Max(s) <= m /\ Max(s) >= m
  BY <1>1, <1>2
<1> QED
  BY <1>3

LEMMA FoldExists ==
  ASSUME NEW S, NEW start \in S, NEW n \in Nat, NEW step \in [1..n -> [S -> S]]
  PROVE  \E it \in [SUBSET (1..n) -> S] : Folds(it, n, start, step)
<1> DEFINE P(m) == \E it \in [SUBSET (1..m) -> S] : Folds(it, m, start, step)
           T == {m \in 0..n : P(m)}
<1>1. 0 \in T
  <2> DEFINE g == [s \in SUBSET (1..0) |-> start]
  <2>1. g \in [SUBSET (1..0) -> S]
    OBVIOUS
  <2>2. Folds(g, 0, start, step)
    <3>1. \A s \in SUBSET (1..0) : s = {}
      OBVIOUS
    <3> QED BY <3>1 DEF Folds
  <2>3. P(0)
    <3> HIDE DEF g
    <3> QED BY <2>1, <2>2
  <2> HIDE DEF P
  <2> QED BY <2>3
<1>2. ASSUME NEW m \in 0..(n - 1), m \in T PROVE m + 1 \in T
  <2>1. PICK f \in [SUBSET (1..m) -> S] : Folds(f, m, start, step)
    BY <1>2
  <2> DEFINE M == m + 1
             g == [s \in SUBSET (1..M) |-> IF M \in s THEN step[M][f[s \ {M}]] ELSE f[s]]
  <2>2. \A s \in SUBSET (1..M) : s \ {M} \in SUBSET (1..m) /\ (M \notin s => s \in SUBSET (1..m))
    OBVIOUS
  <2>3. g \in [SUBSET (1..M) -> S]
    <3>1. ASSUME NEW s \in SUBSET (1..M), M \in s PROVE step[M][f[s \ {M}]] \in S
      <4>1. f[s \ {M}] \in S
        BY <2>2
      <4>2. step[M] \in [S -> S]
        OBVIOUS
      <4> HIDE DEF M
      <4> QED BY <4>1, <4>2
    <3>2. ASSUME NEW s \in SUBSET (1..M), M \notin s PROVE f[s] \in S
      BY <2>2, <3>2
    <3> HIDE DEF M
    <3> QED BY <3>1, <3>2
  <2>4. ASSUME NEW s \in SUBSET (1..M)
        PROVE  g[s] = IF s = {} THEN start ELSE step[Max(s)][g[s \ {Max(s)}]]
    <3>1. CASE M \in s
      <4>1. M \in Nat /\ \A x \in s : x <= M
        OBVIOUS
      <4>2. Max(s) = M
        <5> HIDE DEF M
        <5> QED BY <3>1, <4>1, MaxIs
      <4>3. g[s \ {M}] = f[s \ {M}]
        <5>1. s \ {M} \in SUBSET (1..M) /\ M \notin s \ {M}
          OBVIOUS
        <5> QED BY <5>1
      <4>4. g[s] = step[M][f[s \ {M}]]
        BY <3>1
      <4> HIDE DEF g, M
      <4> QED BY <3>1, <4>2, <4>3, <4>4
    <3>2. CASE M \notin s
      <4>1. s \in SUBSET (1..m)
        BY <2>2, <3>2
      <4>2. g[s] = f[s] /\ g[s \ {Max(s)}] = f[s \ {Max(s)}]
        <5>1. s \ {Max(s)} \in SUBSET (1..M) /\ M \notin s \ {Max(s)}
          BY <3>2
        <5> QED BY <3>2, <5>1
      <4> HIDE DEF g, M
      <4> QED BY <2>1, <4>1, <4>2 DEF Folds
    <3> QED BY <3>1, <3>2
  <2>5. M \in 0..n
    OBVIOUS
  <2> HIDE DEF g, M
  <2>6. Folds(g, M, start, step)
    BY <2>4 DEF Folds
  <2>7. M \in T
    BY <2>3, <2>5, <2>6
  <2> QED BY <2>7 DEF M
<1>3. n \in T
  <2> HIDE DEF T
  <2>1. \A m \in 0..(n - 1) : m \in T => m + 1 \in T
    BY <1>2
  <2>2. \A m \in 0..n : m \in T
    BY <1>1, <2>1, UpTo, Zenon
  <2> QED BY <2>2
<1> QED
  BY <1>3

\* How a fold goes from the first places to one more.
LEMMA FirstPlaces ==
  ASSUME NEW n \in Nat
  PROVE  /\ 1..0 = {} /\ 1..0 \in SUBSET (1..n)
         /\ \A k \in 1..n : /\ 1..k \in SUBSET (1..n) /\ 1..k # {}
                            /\ Max(1..k) = k /\ (1..k) \ {k} = 1..(k - 1)
<1>1. 1..0 = {} /\ 1..0 \in SUBSET (1..n)
  OBVIOUS
<1>2. ASSUME NEW k \in 1..n
      PROVE  /\ 1..k \in SUBSET (1..n) /\ 1..k # {}
             /\ Max(1..k) = k /\ (1..k) \ {k} = 1..(k - 1)
  <2>1. 1..k \in SUBSET (1..n) /\ 1..k # {} /\ (1..k) \ {k} = 1..(k - 1)
    OBVIOUS
  <2>2. k \in 1..k /\ \A x \in 1..k : x <= k
    OBVIOUS
  <2>3. Max(1..k) = k
    BY <2>1, <2>2, MaxIs
  <2> QED BY <2>1, <2>3
<1> QED
  BY <1>1, <1>2

(***************************************************************************)
(* Sequences                                                               *)
(***************************************************************************)
LEMMA FunctionIsSeq ==
  ASSUME NEW S, NEW n \in Nat, NEW f \in [1..n -> S]
  PROVE  f \in Seq(S) /\ Len(f) = n
OBVIOUS

\* The sequences after each of n pieces.
Pieces(f, n, p) == f[0] = << >> /\ \A k \in 1..n : f[k] = f[k - 1] \o p[k]

LEMMA SamePieces ==
  ASSUME NEW n \in Nat, NEW p, NEW f, Pieces(f, n, p), NEW g, Pieces(g, n, p)
  PROVE  \A k \in 0..n : f[k] = g[k]
<1> DEFINE T == {k \in 0..n : f[k] = g[k]}
<1>1. 0 \in T
  BY DEF Pieces
<1>2. ASSUME NEW k \in 0..(n - 1), k \in T PROVE k + 1 \in T
  <2>1. k + 1 \in 1..n /\ (k + 1) - 1 = k /\ k + 1 \in 0..n
    OBVIOUS
  <2>2. f[k + 1] = f[k] \o p[k + 1] /\ g[k + 1] = g[k] \o p[k + 1]
    BY <2>1 DEF Pieces
  <2>3. f[k] = g[k]
    BY <1>2
  <2>4. f[k + 1] = g[k + 1]
    BY <2>2, <2>3
  <2> QED BY <2>1, <2>4
<1> HIDE DEF T
<1>3. \A k \in 0..(n - 1) : k \in T => k + 1 \in T
  BY <1>2
<1>4. \A k \in 0..n : k \in T
  BY <1>1, <1>3, UpTo, Zenon
<1> QED
  BY <1>4 DEF T

\* FlattenSeq joins the pieces one by one.
LEMMA FlattenSeqIs ==
  ASSUME NEW S, NEW n \in Nat, NEW p \in [1..n -> Seq(S)]
  PROVE  \E f \in [0..n -> Seq(S)] : Pieces(f, n, p) /\ FlattenSeq(p) = f[n]
<1> DEFINE Q == Seq(S)
           step == [k \in 1..n |-> [s \in Q |-> s \o p[k]]]
<1>1. << >> \in Q
  BY EmptySeq
<1>2. step \in [1..n -> [Q -> Q]]
  <2>1. ASSUME NEW k \in 1..n, NEW s \in Q PROVE s \o p[k] \in Q
    <3>1. s \in Seq(S) /\ p[k] \in Seq(S) OBVIOUS
    <3>2. s \o p[k] \in Seq(S) BY <3>1, ConcatProperties, Zenon
    <3> QED BY <3>2
  <2> HIDE DEF Q
  <2> QED BY <2>1
<1>3. PICK f \in [0..n -> Q] : Loop(f, n, << >>, step)
  <2> HIDE DEF Q, step
  <2> QED BY <1>1, <1>2, LoopExists
<1>4. f[0] = << >> /\ \A k \in 1..n : f[k] = f[k - 1] \o p[k]
  <2>1. f[0] = << >> BY <1>3 DEF Loop
  <2>2. ASSUME NEW k \in 1..n PROVE f[k] = f[k - 1] \o p[k]
    <3>1. f[k] = step[k][f[k - 1]] BY <1>3 DEF Loop
    <3>2. k - 1 \in 0..n OBVIOUS
    <3>3. f[k - 1] \in Q
      <4> HIDE DEF Q
      <4> QED BY <3>2
    <3> QED BY <3>1, <3>3
  <2> QED BY <2>1, <2>2
<1>5. Pieces(f, n, p)
  BY <1>4 DEF Pieces
<1>6. Len(p) = n
  BY FunctionIsSeq
<1>7. CASE n = 0
  <2>1. FlattenSeq(p) = p BY <1>6, <1>7 DEF FlattenSeq
  <2>2. p = << >> BY <1>7
  <2> QED BY <1>4, <1>5, <1>7, <2>1, <2>2
<1>8. CASE n # 0
  <2> DEFINE Def(h) == h = [i \in 1..n |-> IF i = 1 THEN p[i] ELSE h[i - 1] \o p[i]]
             flat == CHOOSE h : Def(h)
             g == [i \in 1..n |-> f[i]]
  <2>1. FlattenSeq(p) = flat[n]
    <3>1. FlattenSeq(p) = (CHOOSE h : h = [i \in 1..Len(p) |->
                             IF i = 1 THEN p[i] ELSE h[i - 1] \o p[i]])[Len(p)]
      <4> Len(p) # 0 BY <1>6, <1>8
      <4> QED BY Zenon DEF FlattenSeq
    <3> QED BY <1>6, <3>1, Zenon
  <2>2. f[1] = p[1]
    <3>1. 1 \in 1..n /\ 1 - 1 = 0 BY <1>8
    <3>2. f[1] = << >> \o p[1] BY <1>4, <3>1
    <3>3. p[1] \in Seq(S) BY <3>1
    <3> HIDE DEF Q, step
    <3> QED BY <3>2, <3>3, ConcatEmptySeq
  <2>3. Def(g)
    <3>1. ASSUME NEW i \in 1..n PROVE g[i] = IF i = 1 THEN p[i] ELSE g[i - 1] \o p[i]
      <4>1. CASE i = 1
        <5>1. g[i] = f[1] BY <4>1
        <5> QED BY <2>2, <4>1, <5>1
      <4>2. CASE i # 1
        <5>1. i - 1 \in 1..n BY <4>2
        <5>2. g[i] = f[i] /\ g[i - 1] = f[i - 1] BY <5>1
        <5> HIDE DEF g
        <5> QED BY <1>4, <4>2, <5>2
      <4> QED BY <4>1, <4>2
    <3>2. g = [i \in 1..n |-> g[i]] OBVIOUS
    <3> HIDE DEF g
    <3>3. g = [i \in 1..n |-> IF i = 1 THEN p[i] ELSE g[i - 1] \o p[i]] BY <3>1, <3>2
    <3> QED BY <3>3
  <2>4. Def(flat)
    <3> HIDE DEF Def, g
    <3> QED BY <2>3
  <2> DEFINE part == [k \in 0..n |-> IF k = 0 THEN << >> ELSE flat[k]]
  <2> HIDE DEF flat
  <2>5. Pieces(part, n, p)
    <3>1. part[0] = << >> OBVIOUS
    <3>2. ASSUME NEW k \in 1..n PROVE part[k] = part[k - 1] \o p[k]
      <4>1. flat[k] = IF k = 1 THEN p[k] ELSE flat[k - 1] \o p[k] BY <2>4
      <4>2. part[k] = flat[k] /\ k - 1 \in 0..n
            /\ part[k - 1] = IF k = 1 THEN << >> ELSE flat[k - 1]
        OBVIOUS
      <4>3. CASE k = 1
        <5>1. p[k] \in Seq(S) OBVIOUS
        <5>2. << >> \o p[k] = p[k]
          <6> HIDE DEF part, Q, step
          <6> QED BY <5>1, ConcatEmptySeq
        <5> HIDE DEF part
        <5> QED BY <4>1, <4>2, <4>3, <5>2
      <4>4. CASE k # 1
        <5> HIDE DEF part
        <5> QED BY <4>1, <4>2, <4>4
      <4> QED BY <4>3, <4>4
    <3> HIDE DEF part
    <3> QED BY <3>1, <3>2 DEF Pieces
  <2>6. part[n] = flat[n] BY <1>8
  <2> HIDE DEF part, Q, step
  <2>7. f[n] = part[n]
    <3>1. \A k \in 0..n : f[k] = part[k] BY <1>5, <2>5, SamePieces
    <3> QED BY <3>1
  <2> QED BY <1>5, <2>1, <2>6, <2>7 DEF Q
<1> QED
  BY <1>7, <1>8

(***************************************************************************)
(* The elements of a set as a sequence                                     *)
(***************************************************************************)
\* SetToSeq lists every element once.
LEMMA SetToSeqLists ==
  ASSUME NEW S, IsFiniteSet(S)
  PROVE  /\ Cardinality(S) \in Nat
         /\ SetToSeq(S) \in [1..Cardinality(S) -> S]
         /\ \A i, j \in 1..Cardinality(S) : SetToSeq(S)[i] = SetToSeq(S)[j] => i = j
         /\ \A x \in S : \E i \in 1..Cardinality(S) : SetToSeq(S)[i] = x
<1> DEFINE n == Cardinality(S)
           f == SetToSeq(S)
<1>1. n \in Nat /\ ExistsBijection(1..n, S)
  BY FS_CardinalityType
<1>2. \E g \in [1..n -> S] : IsInjective(g)
  BY <1>1 DEF ExistsBijection, Bijection, Injection
<1>3. f \in [1..n -> S] /\ IsInjective(f)
  <2> HIDE DEF n
  <2> f = CHOOSE g \in [1..n -> S] : IsInjective(g)
    BY Zenon DEF SetToSeq, n
  <2> HIDE DEF f
  <2> QED BY <1>2
<1>4. f \in Surjection(1..n, S)
  <2> HIDE DEF f
  <2>1. f \in Injection(1..n, S) BY <1>3 DEF Injection
  <2>2. IsFiniteSet(1..n) /\ Cardinality(1..n) = n BY <1>1, FS_Interval
  <2> QED BY <2>1, <2>2, FS_Injection
<1> HIDE DEF f, n
<1>5. \A x \in S : \E i \in 1..n : f[i] = x
  BY <1>3, <1>4 DEF Surjection
<1>6. \A i, j \in 1..n : f[i] = f[j] => i = j
  BY <1>3 DEF IsInjective
<1> QED BY <1>1, <1>3, <1>5, <1>6 DEF f, n

(***************************************************************************)
(* One element more                                                        *)
(***************************************************************************)
LEMMA AppendIs ==
    ASSUME NEW S, NEW s \in Seq(S), NEW c \in S
    PROVE  /\ Append(s, c) \in Seq(S) /\ Len(s) \in Nat /\ DOMAIN s = 1..Len(s)
           /\ DOMAIN Append(s, c) = 1..(Len(s) + 1) /\ Len(Append(s, c)) = Len(s) + 1
           /\ Append(s, c)[Len(s) + 1] = c
           /\ \A i \in 1..Len(s) : Append(s, c)[i] = s[i]
OBVIOUS

LEMMA ConcatIs ==
    ASSUME NEW S, NEW s \in Seq(S), NEW c \in S, NEW d \in S
    PROVE  /\ s \o << >> = s /\ s \o <<c>> = Append(s, c)
           /\ s \o <<c, d>> = Append(Append(s, c), d)
OBVIOUS

LEMMA FirstTwo ==
    ASSUME NEW S, NEW v \in Seq(S), 2 <= Len(v)
    PROVE  SubSeq(v, 1, 2) = <<v[1], v[2]>>
<1> DEFINE w == SubSeq(v, 1, 2)
<1>1. Len(v) \in Nat /\ \A i \in 1..Len(v) : v[i] \in S BY LenProperties, ElementOfSeq
<1>2. \A i \in 1..2 : v[i] \in S BY <1>1
<1>3. w \in Seq(S) /\ Len(w) = 2 /\ \A i \in 1..2 : w[i] = v[i]
  BY <1>2, SubSeqProperties
<1> HIDE DEF w
<1>4. w[1] = v[1] /\ w[2] = v[2] /\ v[1] \in S /\ v[2] \in S BY <1>2, <1>3
<1>5. <<v[1], v[2]>> \in Seq(S) /\ Len(<<v[1], v[2]>>) = 2 BY <1>4
<1>6. w = <<v[1], v[2]>> BY <1>3, <1>4, <1>5
<1> QED BY <1>6 DEF w

\* One more element, or none.
LEMMA OneMore ==
    ASSUME NEW E, NEW F, NEW x, IsFiniteSet(E), x \notin E, NEW yes \in BOOLEAN,
           F = IF yes THEN E \union {x} ELSE E
    PROVE  IsFiniteSet(F) /\ Cardinality(E) \in Nat
           /\ Cardinality(F) = Cardinality(E) + (IF yes THEN 1 ELSE 0)
<1>1. Cardinality(E) \in Nat BY FS_CardinalityType, Zenon
<1>2. IsFiniteSet(E \union {x}) /\ Cardinality(E \union {x}) = Cardinality(E) + 1
  BY FS_AddElement, Zenon
<1>3. CASE yes
  <2>1. F = E \union {x} BY <1>3
  <2> QED BY <1>1, <1>2, <1>3, <2>1
<1>4. CASE ~yes
  <2>1. F = E BY <1>4
  <2>2. Cardinality(E) = Cardinality(E) + 0 BY <1>1
  <2> QED BY <1>1, <1>4, <2>1, <2>2
<1> QED BY <1>3, <1>4

\* The part of a set of places up to the next place.
LEMMA CountOneMore ==
    ASSUME NEW n \in Nat, NEW E \in SUBSET (1..n), NEW k \in 0..(n - 1)
    PROVE  /\ Cardinality(E \intersect (1..k)) \in Nat
           /\ Cardinality(E \intersect (1..(k + 1)))
                = Cardinality(E \intersect (1..k)) + (IF k + 1 \in E THEN 1 ELSE 0)
<1> DEFINE old == E \intersect (1..k)
           new == E \intersect (1..(k + 1))
           yes == k + 1 \in E
<1>1. new = IF yes THEN old \union {k + 1} ELSE old
  OBVIOUS
<1>2. old \in SUBSET (1..k) /\ k + 1 \notin old /\ k \in Nat OBVIOUS
<1>3. yes \in BOOLEAN OBVIOUS
<1> HIDE DEF old, new, yes
<1>4. IsFiniteSet(old)
  <2>1. IsFiniteSet(1..k) BY <1>2, FS_Interval
  <2> QED BY <1>2, <2>1, FS_Subset, Zenon
<1>5. Cardinality(old) \in Nat /\ Cardinality(new) = Cardinality(old) + (IF yes THEN 1 ELSE 0)
  BY <1>1, <1>2, <1>3, <1>4, OneMore, Zenon
<1> QED BY <1>5 DEF old, new, yes
=============================================================================
