--------------------------- MODULE SetupProofs ----------------------------
(***************************************************************************)
(* Proofs about Routing, for every set of receivers and every slice they   *)
(* are built from, and about Templates, for every list of options and      *)
(* every set of function maps.                                             *)
(***************************************************************************)
EXTENDS Routing, Templates, DataLemmas

(***************************************************************************)
(* The loop over the IDs of a notification                                 *)
(***************************************************************************)
\* The receivers resolved after the first k IDs.
NamedUpTo(rs, ids, out) ==
    /\ out[0] = << >>
    /\ \A k \in DOMAIN ids :
         out[k] = IF ids[k] \in DOMAIN rs /\ ~Contains(out[k - 1], ids[k])
                  THEN Append(out[k - 1], ids[k]) ELSE out[k - 1]

LEMMA NamedIsALoop ==
    ASSUME NEW rs, NEW n \in Nat, NEW ids, DOMAIN ids = 1..n
    PROVE  \E out : NamedUpTo(rs, ids, out) /\ Named(rs, ids) = out[n]
<1> DEFINE S == Seq(DOMAIN rs)
           next(k, out) == IF ids[k] \in DOMAIN rs /\ ~Contains(out, ids[k])
                           THEN Append(out, ids[k]) ELSE out
           step == [k \in 1..n |-> [out \in S |-> next(k, out)]]
           Def(it) == it = [s \in SUBSET DOMAIN ids |->
                              IF s = {} THEN << >> ELSE next(Max(s), it[s \ {Max(s)}])]
           fold == CHOOSE it : Def(it)
<1>1. Named(rs, ids) = fold[DOMAIN ids]
  BY Zenon DEF Named, FoldLeft, MapThenFoldSet
<1>2. Def(fold)
  <2>1. step \in [1..n -> [S -> S]]
    <3>1. ASSUME NEW k \in 1..n, NEW out \in S PROVE next(k, out) \in S
      BY AppendProperties
    <3> HIDE DEF next, S
    <3> QED BY <3>1
  <2>2. PICK it \in [SUBSET (1..n) -> S] : Folds(it, n, << >>, step)
    <3>1. << >> \in S BY EmptySeq
    <3> HIDE DEF S, step
    <3> QED BY <2>1, <3>1, FoldExists
  <2>3. ASSUME NEW s \in SUBSET (1..n)
        PROVE  it[s] = IF s = {} THEN << >> ELSE next(Max(s), it[s \ {Max(s)}])
    <3>1. CASE s = {} BY <2>2, <3>1 DEF Folds
    <3>2. CASE s # {}
      <4>1. Max(s) \in 1..n BY <3>2, MaxOfPlaces
      <4>2. it[s \ {Max(s)}] \in S OBVIOUS
      <4>3. it[s] = step[Max(s)][it[s \ {Max(s)}]]
        <5> HIDE DEF step
        <5> QED BY <2>2, <3>2 DEF Folds
      <4> HIDE DEF S, next
      <4> QED BY <3>2, <4>1, <4>2, <4>3
    <3> QED BY <3>1, <3>2
  <2>4. Def(it)
    <3> HIDE DEF next
    <3> QED BY <2>3
  <2> HIDE DEF Def
  <2> QED BY <2>4
<1> HIDE DEF fold
<1> DEFINE out == [k \in 0..n |-> fold[1..k]]
<1>3. out[0] = << >>
  <2> HIDE DEF next
  <2> QED BY <1>2, FirstPlaces
<1>4. ASSUME NEW k \in 1..n PROVE out[k] = next(k, out[k - 1])
  <2>1. fold[1..k] = next(k, fold[1..(k - 1)])
    <3> HIDE DEF next
    <3>1. /\ 1..k \in SUBSET DOMAIN ids /\ 1..k # {}
          /\ Max(1..k) = k /\ (1..k) \ {k} = 1..(k - 1)
      BY FirstPlaces
    <3> QED BY <1>2, <3>1
  <2>2. out[k] = fold[1..k] /\ out[k - 1] = fold[1..(k - 1)] OBVIOUS
  <2> HIDE DEF next, out
  <2> QED BY <2>1, <2>2
<1>5. out[n] = fold[DOMAIN ids] OBVIOUS
<1> HIDE DEF out
<1>6. NamedUpTo(rs, ids, out)
  BY <1>3, <1>4 DEF NamedUpTo
<1> QED BY <1>1, <1>5, <1>6

\* The place at which an ID is first named.
First(ids, id) == CHOOSE i \in DOMAIN ids : ids[i] = id /\ \A j \in 1..(i - 1) : ids[j] # id

LEMMA FirstIs ==
    ASSUME NEW n \in Nat, NEW ids, DOMAIN ids = 1..n,
           NEW i \in 1..n, \A j \in 1..(i - 1) : ids[j] # ids[i]
    PROVE  First(ids, ids[i]) = i
<1> DEFINE P(k) == ids[k] = ids[i] /\ \A j \in 1..(k - 1) : ids[j] # ids[i]
<1>1. P(i) OBVIOUS
<1>2. ASSUME NEW k \in 1..n, P(k) PROVE k = i
  <2>1. ~(k < i) BY <1>2
  <2>2. ~(i < k) BY <1>2
  <2> QED BY <2>1, <2>2
<1>3. First(ids, ids[i]) = CHOOSE k \in 1..n : P(k)
  BY Zenon DEF First
<1> HIDE DEF P
<1> QED BY <1>1, <1>2, <1>3

\* Each known ID that is named, once, in the order in which they are first named.
LEMMA NamedIsRight ==
    ASSUME NEW rs, NEW n \in Nat, NEW ids, DOMAIN ids = 1..n,
           NEW res, res = Named(rs, ids)
    PROVE  /\ res \in Seq(DOMAIN rs)
           /\ Range(res) = Range(ids) \intersect DOMAIN rs
           /\ \A i, j \in DOMAIN res : i < j => First(ids, res[i]) < First(ids, res[j])
<1>1. PICK out : NamedUpTo(rs, ids, out) /\ Named(rs, ids) = out[n]
  BY NamedIsALoop
<1> DEFINE Known(k) == {ids[i] : i \in 1..k} \intersect DOMAIN rs
           Right(k) == /\ out[k] \in Seq(DOMAIN rs)
                       /\ Range(out[k]) = Known(k)
                       /\ \A i \in DOMAIN out[k] : First(ids, out[k][i]) \in 1..k
                       /\ \A i, j \in DOMAIN out[k] :
                            i < j => First(ids, out[k][i]) < First(ids, out[k][j])
           T == {k \in 0..n : Right(k)}
<1>2. 0 \in T
  <2>1. out[0] = << >> BY <1>1 DEF NamedUpTo
  <2>2. Range(<< >>) = {} BY DEF Range
  <2>3. Known(0) = {} OBVIOUS
  <2>4. << >> \in Seq(DOMAIN rs) /\ DOMAIN << >> = {} BY EmptySeq
  <2>5. Right(0)
    <3> HIDE DEF Known
    <3> QED BY <2>1, <2>2, <2>3, <2>4
  <2> HIDE DEF Right
  <2> QED BY <2>5
<1>3. ASSUME NEW k \in 0..(n - 1), k \in T PROVE k + 1 \in T
  <2> DEFINE K == k + 1
             id == ids[K]
  <2>1. K \in 1..n /\ K - 1 = k /\ K \in Nat /\ k \in Nat OBVIOUS
  <2>2. Right(k) BY <1>3
  <2>3. out[K] = IF id \in DOMAIN rs /\ ~Contains(out[k], id) THEN Append(out[k], id) ELSE out[k]
    <3> HIDE DEF K
    <3> QED BY <1>1, <2>1 DEF NamedUpTo
  <2>4. Known(K) = IF id \in DOMAIN rs THEN Known(k) \union {id} ELSE Known(k)
    OBVIOUS
  <2>5. Contains(out[k], id) <=> id \in Range(out[k])
    <3>1. out[k] \in Seq(DOMAIN rs) BY <2>2
    <3>2. DOMAIN out[k] = 1..Len(out[k]) BY <3>1, LenProperties
    <3> QED BY <3>2 DEF Contains, Range
  <2>6. CASE id \in DOMAIN rs /\ ~Contains(out[k], id)
    <3> DEFINE old == out[k]
    <3>1. /\ old \in Seq(DOMAIN rs) /\ Range(old) = Known(k)
          /\ \A i \in DOMAIN old : First(ids, old[i]) \in 1..k
          /\ \A i, j \in DOMAIN old : i < j => First(ids, old[i]) < First(ids, old[j])
      BY <2>2
    <3>2. out[K] = Append(old, id) BY <2>3, <2>6
    <3>3. First(ids, id) = K
      <4>1. \A j \in 1..(K - 1) : ids[j] # id
        <5> SUFFICES ASSUME NEW j \in 1..k, ids[j] = id PROVE FALSE BY <2>1
        <5>1. id \in Known(k) BY <2>6
        <5> QED BY <2>5, <2>6, <3>1, <5>1
      <4> HIDE DEF K
      <4> QED BY <2>1, <4>1, FirstIs
    <3> HIDE DEF old, Known, K, id
    <3>4. /\ Append(old, id) \in Seq(DOMAIN rs) /\ Len(old) \in Nat
          /\ DOMAIN old = 1..Len(old)
          /\ DOMAIN Append(old, id) = 1..(Len(old) + 1)
          /\ Append(old, id)[Len(old) + 1] = id
          /\ \A i \in 1..Len(old) : Append(old, id)[i] = old[i]
      BY <2>6, <3>1, AppendProperties, LenProperties
    <3>5. Range(Append(old, id)) = Range(old) \union {id}
      <4>1. \A i \in DOMAIN Append(old, id) : i \in 1..Len(old) \/ i = Len(old) + 1 BY <3>4
      <4>2. Len(old) + 1 \in DOMAIN Append(old, id)
            /\ \A i \in 1..Len(old) : i \in DOMAIN Append(old, id) BY <3>4
      <4> QED BY <3>4, <4>1, <4>2 DEF Range
    <3>6. \A i \in DOMAIN Append(old, id) : First(ids, Append(old, id)[i]) \in 1..K
      <4> SUFFICES ASSUME NEW i \in DOMAIN Append(old, id)
                   PROVE  First(ids, Append(old, id)[i]) \in 1..K
        OBVIOUS
      <4>1. CASE i \in 1..Len(old)
        <5>1. First(ids, old[i]) \in 1..k BY <3>1, <3>4, <4>1
        <5> QED BY <2>1, <3>4, <4>1, <5>1
      <4>2. CASE i = Len(old) + 1 BY <2>1, <3>3, <3>4, <4>2
      <4> QED BY <3>4, <4>1, <4>2
    <3>7. ASSUME NEW i \in DOMAIN Append(old, id), NEW j \in DOMAIN Append(old, id), i < j
          PROVE  First(ids, Append(old, id)[i]) < First(ids, Append(old, id)[j])
      <4>1. i \in 1..Len(old) /\ First(ids, Append(old, id)[i]) = First(ids, old[i])
        BY <3>4, <3>7
      <4>2. CASE j \in 1..Len(old)
        <5>1. First(ids, old[i]) < First(ids, old[j]) BY <3>1, <3>4, <3>7, <4>1, <4>2
        <5> QED BY <3>4, <4>1, <4>2, <5>1
      <4>3. CASE j = Len(old) + 1
        <5>1. First(ids, old[i]) \in 1..k BY <3>1, <3>4, <4>1
        <5>2. First(ids, Append(old, id)[j]) = K BY <3>3, <3>4, <4>3
        <5> QED BY <2>1, <4>1, <5>1, <5>2
      <4> QED BY <3>4, <4>2, <4>3
    <3>8. Right(K) BY <2>4, <2>6, <3>1, <3>2, <3>4, <3>5, <3>6, <3>7
    <3> HIDE DEF Right
    <3>9. K \in T BY <2>1, <3>8
    <3> QED BY <3>9 DEF K
  <2>7. CASE ~(id \in DOMAIN rs /\ ~Contains(out[k], id))
    <3>1. out[K] = out[k] BY <2>3, <2>7
    <3>2. Known(K) = Known(k)
      <4> HIDE DEF K, id
      <4>1. id \in DOMAIN rs => id \in Known(k)
        BY <2>2, <2>5, <2>7
      <4> QED BY <2>4, <4>1
    <3>3. Right(K)
      <4> HIDE DEF Known, K, id
      <4>1. \A i \in DOMAIN out[k] : First(ids, out[k][i]) \in 1..K
        BY <2>1, <2>2
      <4> QED BY <2>2, <3>1, <3>2, <4>1
    <3> HIDE DEF Right
    <3> QED BY <2>1, <3>3
  <2> QED BY <2>6, <2>7
<1>4. n \in T
  <2> HIDE DEF T
  <2>1. \A k \in 0..(n - 1) : k \in T => k + 1 \in T BY <1>3
  <2>2. \A k \in 0..n : k \in T BY <1>2, <2>1, UpTo, Zenon
  <2> QED BY <2>2
<1>5. Known(n) = Range(ids) \intersect DOMAIN rs
  BY DEF Range
<1> HIDE DEF Known
<1> QED BY <1>1, <1>4, <1>5

(***************************************************************************)
(* Everybody, ordered by ID                                                *)
(***************************************************************************)
LEMMA BroadcastIsRight ==
    ASSUME NEW rs, IsFiniteSet(DOMAIN rs), NEW keys \in Broadcasts(rs)
    PROVE  /\ Range(keys) = DOMAIN rs /\ IsInjective(keys)
           /\ \A i, j \in DOMAIN keys : i < j => rs[keys[i]].id <= rs[keys[j]].id
<1> DEFINE n == Cardinality(DOMAIN rs)
<1>1. n \in Nat BY FS_CardinalityType
<1>2. /\ keys \in [1..n -> DOMAIN rs]
      /\ \A i, j \in 1..n : i # j => keys[i] # keys[j]
      /\ \A i, j \in DOMAIN keys : i < j => rs[keys[i]].id <= rs[keys[j]].id
  BY DEF Broadcasts, SetToSeqs
<1>3. IsInjective(keys) BY <1>2 DEF IsInjective
<1>4. keys \in Surjection(1..n, DOMAIN rs)
  <2>1. keys \in Injection(1..n, DOMAIN rs) BY <1>2, <1>3 DEF Injection
  <2>2. IsFiniteSet(1..n) /\ Cardinality(1..n) = n BY <1>1, FS_Interval
  <2> QED BY <2>1, <2>2, FS_Injection
<1>5. Range(keys) = DOMAIN rs
  <2> HIDE DEF n
  <2>1. \A y \in DOMAIN rs : \E x \in 1..n : keys[x] = y BY <1>4 DEF Surjection
  <2>2. DOMAIN keys = 1..n /\ \A x \in 1..n : keys[x] \in DOMAIN rs BY <1>2
  <2> QED BY <2>1, <2>2 DEF Range
<1> QED BY <1>2, <1>3, <1>5

(***************************************************************************)
(* Slices and arrays                                                       *)
(***************************************************************************)
Elems == Targets \union {Nil}
Heaps == Seq(Seq(Elems))

\* A slice lies within its array.
Within(arrs, s) ==
    /\ s.array \in Nat /\ s.len \in Nat
    /\ s.len > 0 => s.array \in 1..Len(arrs) /\ s.len <= Len(arrs[s.array])

LEMMA ReadFacts ==
    ASSUME NEW arrs \in Heaps, NEW s, Within(arrs, s)
    PROVE  /\ Read(arrs, s) \in Seq(Elems) /\ Len(Read(arrs, s)) = s.len
           /\ \A i \in 1..s.len : Read(arrs, s)[i] = arrs[s.array][i]
<1>1. CASE s.len = 0
  BY <1>1, EmptySeq DEF Read
<1>2. CASE s.len # 0
  <2>1. s.array \in 1..Len(arrs) /\ s.len \in 1..Len(arrs[s.array])
    BY <1>2 DEF Within
  <2>2. arrs[s.array] \in Seq(Elems)
    BY <2>1, ElementOfSeq DEF Heaps
  <2> DEFINE a == arrs[s.array]
             l == s.len
  <2>3. Read(arrs, s) = SubSeq(a, 1, l) BY <1>2 DEF Read
  <2>4. /\ \A i \in 1..l : a[i] \in Elems
        /\ l \in Int /\ 1 <= l
    BY <2>1, <2>2, ElementOfSeq, LenProperties
  <2> HIDE DEF a, l
  <2>5. /\ SubSeq(a, 1, l) \in Seq(Elems) /\ Len(SubSeq(a, 1, l)) = l
        /\ \A i \in 1..l : SubSeq(a, 1, l)[i] = a[i]
    <3>1. /\ SubSeq(a, 1, l) \in Seq(Elems)
          /\ Len(SubSeq(a, 1, l)) = IF 1 <= l THEN l - 1 + 1 ELSE 0
          /\ \A i \in 1..(l - 1 + 1) : SubSeq(a, 1, l)[i] = a[1 + i - 1]
      BY <2>4, SubSeqProperties
    <3>2. \A i \in 1..l : 1 + i - 1 = i /\ i \in 1..(l - 1 + 1) BY <2>4
    <3> QED BY <2>4, <3>1, <3>2
  <2> QED BY <2>3, <2>5 DEF a, l
<1> QED BY <1>1, <1>2

\* Where two heaps agree on the array of a slice, they agree on what it holds.
LEMMA ReadSame ==
    ASSUME NEW arrs, NEW next, NEW s, s.len > 0 => next[s.array] = arrs[s.array],
           s.len \in Nat
    PROVE  Read(next, s) = Read(arrs, s)
BY DEF Read

\* normalizeReceivers: new arrays only, one for each receiver, with its targets.
LEMMA NormalizeFacts ==
    ASSUME NEW arrs \in Heaps, NEW rs, IsFiniteSet(DOMAIN rs),
           \A k \in DOMAIN rs : Within(arrs, rs[k].targets),
           NEW n, n = normalizeReceivers(arrs, rs)
    PROVE  /\ n.arrays \in Heaps /\ Len(n.arrays) >= Len(arrs)
           /\ \A a \in 1..Len(arrs) : n.arrays[a] = arrs[a]
           /\ DOMAIN n.receivers = DOMAIN rs
           /\ \A k \in DOMAIN rs :
                /\ n.receivers[k].targets.array \in (Len(arrs) + 1)..Len(n.arrays)
                /\ n.receivers[k].targets.len = Len(n.arrays[n.receivers[k].targets.array])
<1> DEFINE keys  == SetToSeq(DOMAIN rs)
           m == Cardinality(DOMAIN rs)
           clone == [i \in DOMAIN keys |-> Read(arrs, rs[keys[i]].targets)]
           place(k) == CHOOSE j \in DOMAIN keys : keys[j] = k
<1>1. /\ m \in Nat /\ keys \in [1..m -> DOMAIN rs]
      /\ \A x \in DOMAIN rs : \E i \in 1..m : keys[i] = x
  BY SetToSeqLists
<1>2. /\ n.arrays = arrs \o clone
      /\ n.receivers = [k \in DOMAIN rs |->
            [id |-> IF rs[k].id = 0 THEN k ELSE rs[k].id,
             targets |-> Slice(Len(arrs) + place(k), Len(clone[place(k)]))]]
  <2>1. n = [arrays |-> arrs \o clone,
             receivers |-> [k \in DOMAIN rs |->
                [id |-> IF rs[k].id = 0 THEN k ELSE rs[k].id,
                 targets |-> Slice(Len(arrs) + place(k), Len(clone[place(k)]))]]]
    BY Zenon DEF normalizeReceivers
  <2> HIDE DEF clone, place, keys
  <2> QED BY <2>1
<1> HIDE DEF keys, m
<1>3. /\ DOMAIN clone = 1..m
      /\ \A i \in 1..m : clone[i] \in Seq(Elems)
  BY <1>1, ReadFacts
<1> HIDE DEF clone
<1>4. clone \in Heaps /\ Len(clone) = m
  <2>1. clone \in [1..m -> Seq(Elems)]
    <3>1. \E f : clone = f /\ f = [i \in DOMAIN keys |-> Read(arrs, rs[keys[i]].targets)]
      BY DEF clone
    <3> QED BY <1>1, <1>3, <3>1
  <2> QED BY <1>1, <2>1, FunctionIsSeq DEF Heaps
<1>5. /\ n.arrays \in Heaps /\ Len(n.arrays) = Len(arrs) + m /\ Len(arrs) \in Nat
      /\ \A i \in 1..(Len(arrs) + m) :
           n.arrays[i] = IF i <= Len(arrs) THEN arrs[i] ELSE clone[i - Len(arrs)]
  <2> DEFINE E == Seq(Elems)
  <2>1. arrs \in Seq(E) /\ clone \in Seq(E) /\ Len(clone) = m /\ Heaps = Seq(E)
    BY <1>4 DEF Heaps
  <2> HIDE DEF E
  <2>2. /\ arrs \o clone \in Seq(E) /\ Len(arrs \o clone) = Len(arrs) + m /\ Len(arrs) \in Nat
        /\ \A i \in 1..(Len(arrs) + m) :
             (arrs \o clone)[i] = IF i <= Len(arrs) THEN arrs[i] ELSE clone[i - Len(arrs)]
    BY <2>1, ConcatProperties, LenProperties
  <2> QED BY <1>2, <2>1, <2>2
<1>6. \A a \in 1..Len(arrs) : n.arrays[a] = arrs[a] BY <1>1, <1>5
<1>7. ASSUME NEW k \in DOMAIN rs
      PROVE  /\ n.receivers[k].targets.array \in (Len(arrs) + 1)..Len(n.arrays)
             /\ n.receivers[k].targets.len = Len(n.arrays[n.receivers[k].targets.array])
  <2>1. place(k) \in 1..m BY <1>1
  <2> HIDE DEF place
  <2>2. n.receivers[k].targets = Slice(Len(arrs) + place(k), Len(clone[place(k)]))
    BY <1>2
  <2>3. n.arrays[Len(arrs) + place(k)] = clone[place(k)]
    <3>1. /\ Len(arrs) + place(k) \in 1..(Len(arrs) + m) /\ ~(Len(arrs) + place(k) <= Len(arrs))
          /\ (Len(arrs) + place(k)) - Len(arrs) = place(k)
      BY <1>1, <1>5, <2>1
    <3> QED BY <1>5, <3>1
  <2>4. Len(arrs) + place(k) \in (Len(arrs) + 1)..Len(n.arrays) BY <1>1, <1>5, <2>1
  <2>5. /\ n.receivers[k].targets.array = Len(arrs) + place(k)
        /\ n.receivers[k].targets.len = Len(clone[place(k)])
    BY <2>2 DEF Slice
  <2> QED BY <2>3, <2>4, <2>5
<1>8. DOMAIN n.receivers = DOMAIN rs BY <1>2
<1> QED BY <1>1, <1>5, <1>6, <1>7, <1>8

(***************************************************************************)
(* The invariant: nobody else has an array of the manager's                *)
(***************************************************************************)
HeapInv ==
    /\ arrays \in Heaps /\ Len(arrays) >= 1 /\ Len(arrays[1]) = Len(Base)
    /\ built \in Seq([id : Ids, targets : [array : Nat, len : Nat]])
    /\ \A r \in DOMAIN built : Within(arrays, built[r].targets)

PhaseInv ==
    /\ phase \in {"building", "ready", "rejected"}
    /\ phase # "ready" => /\ config = NoReceivers /\ snapshot = NoReceivers
                          /\ asked = << >> /\ resolved = << >>

\* A write through s does not reach t.
Apart(s, t) == s.len > 0 => s.array # t.array

OwnInv ==
    /\ IsFiniteSet(DOMAIN config)
    /\ \A k \in DOMAIN config :
         /\ config[k].targets.array \in 1..Len(arrays)
         /\ config[k].targets.len = Len(arrays[config[k].targets.array])
         /\ \A r \in DOMAIN built : Apart(built[r].targets, config[k].targets)
         /\ \A j \in DOMAIN snapshot : Apart(snapshot[j].targets, config[k].targets)
    /\ \A j \in DOMAIN snapshot : Within(arrays, snapshot[j].targets)

RoutingInv == HeapInv /\ PhaseInv /\ OwnInv /\ RoutedAsDocumented

\* A write through a slice changes one array, and no length.
Written(arrs, a, i, e) == [arrs EXCEPT ![a][i] = e]

LEMMA HeapWritten ==
    ASSUME NEW arrs \in Heaps, NEW a \in 1..Len(arrs), NEW i \in 1..Len(arrs[a]), NEW e \in Elems
    PROVE  /\ Written(arrs, a, i, e) \in Heaps /\ Len(Written(arrs, a, i, e)) = Len(arrs)
           /\ \A b \in 1..Len(arrs) : /\ Len(Written(arrs, a, i, e)[b]) = Len(arrs[b])
                                      /\ b # a => Written(arrs, a, i, e)[b] = arrs[b]
<1> DEFINE E == Seq(Elems)
           row == [arrs[a] EXCEPT ![i] = e]
           next == Written(arrs, a, i, e)
<1>1. arrs \in Seq(E) /\ arrs[a] \in E
  BY ElementOfSeq DEF Heaps
<1>2. row \in E /\ Len(row) = Len(arrs[a])
  BY <1>1, ExceptSeq
<1>3. next = [arrs EXCEPT ![a] = row]
  BY DEF Written
<1> HIDE DEF E, row, next
<1>4. /\ next \in Seq(E) /\ Len(next) = Len(arrs)
      /\ \A b \in 1..Len(arrs) : next[b] = IF b = a THEN row ELSE arrs[b]
  <2>1. /\ [arrs EXCEPT ![a] = row] \in Seq(E) /\ Len([arrs EXCEPT ![a] = row]) = Len(arrs)
        /\ \A b \in 1..Len(arrs) : [arrs EXCEPT ![a] = row][b] = IF b = a THEN row ELSE arrs[b]
    BY <1>1, <1>2, ExceptSeq
  <2> QED BY <1>3, <2>1
<1>5. /\ next \in Heaps /\ Len(next) = Len(arrs)
      /\ \A b \in 1..Len(arrs) : /\ Len(next[b]) = Len(arrs[b])
                                 /\ b # a => next[b] = arrs[b]
  BY <1>2, <1>4 DEF Heaps, E
<1> QED BY <1>5 DEF next

\* A new array changes none of the others.
LEMMA HeapGrown ==
    ASSUME NEW arrs \in Heaps, NEW row \in Seq(Elems)
    PROVE  /\ Append(arrs, row) \in Heaps /\ Len(Append(arrs, row)) = Len(arrs) + 1
           /\ Append(arrs, row)[Len(arrs) + 1] = row
           /\ \A b \in 1..Len(arrs) : Append(arrs, row)[b] = arrs[b]
<1> DEFINE E == Seq(Elems)
<1>1. arrs \in Seq(E) /\ row \in E BY DEF Heaps
<1> HIDE DEF E
<1>2. /\ Append(arrs, row) \in Seq(E) /\ Len(Append(arrs, row)) = Len(arrs) + 1
      /\ Append(arrs, row)[Len(arrs) + 1] = row
      /\ \A b \in 1..Len(arrs) : Append(arrs, row)[b] = arrs[b]
  BY <1>1, AppendProperties, LenProperties
<1> QED BY <1>2 DEF Heaps, E

\* A slice stays within its array while arrays keep their lengths.
LEMMA WithinKept ==
    ASSUME NEW arrs \in Heaps, NEW next \in Heaps, Len(next) >= Len(arrs),
           \A b \in 1..Len(arrs) : Len(next[b]) = Len(arrs[b]),
           NEW s, Within(arrs, s)
    PROVE  Within(next, s)
<1>1. Len(arrs) \in Nat /\ Len(next) \in Nat BY LenProperties DEF Heaps
<1> QED BY <1>1 DEF Within

Slices == [array : Nat, len : Nat]
Entries == [id : Ids, targets : Slices]

\* What is built from entries that fit the arrays fits it.
LEMMA EntryFacts ==
    ASSUME HeapInv
    PROVE  /\ Len(built) \in Nat /\ DOMAIN built = 1..Len(built)
           /\ \A r \in DOMAIN built : /\ built[r] \in Entries /\ built[r].targets \in Slices
                                      /\ built[r].id \in Ids
                                      /\ Within(arrays, built[r].targets)
<1>1. built \in Seq(Entries) BY DEF HeapInv, Entries, Slices
<1>2. Len(built) \in Nat /\ DOMAIN built = 1..Len(built) BY <1>1, LenProperties
<1>3. \A r \in DOMAIN built : built[r] \in Entries BY <1>1, <1>2, ElementOfSeq
<1> QED BY <1>2, <1>3 DEF HeapInv, Entries

LEMMA BaseFits == BaseLen \in Nat /\ BaseLen <= Len(Base) /\ Len(Base) \in Nat
<1> DEFINE S == {i \in DOMAIN Base : Base[i] # Nil}
           n == Len(Base)
<1>1. n \in Nat /\ DOMAIN Base = 1..n BY BaseAssumption, LenProperties
<1>2. IsFiniteSet(1..n) /\ Cardinality(1..n) = n
  <2> HIDE DEF n
  <2> QED BY <1>1, FS_Interval
<1>3. S \in SUBSET (1..n) BY <1>1
<1>4. IsFiniteSet(S) /\ Cardinality(S) <= n
  <2> HIDE DEF S, n
  <2> QED BY <1>2, <1>3, FS_Subset
<1>5. Cardinality(S) \in Nat
  <2> HIDE DEF S
  <2> QED BY <1>4, FS_CardinalityType
<1> QED BY <1>1, <1>4, <1>5 DEF BaseLen

LEMMA RoutingInit == Init => RoutingInv
<1> SUFFICES ASSUME Init PROVE RoutingInv OBVIOUS
<1>1. arrays \in Heaps
  <2> Base \in Seq(Elems) BY BaseAssumption DEF Elems
  <2> QED BY DEF Init, Heaps
<1>2. HeapInv
  <2> Len(arrays) = 1 /\ arrays[1] = Base BY DEF Init
  <2> QED BY <1>1, EmptySeq DEF Init, HeapInv
<1>3. PhaseInv BY DEF Init, PhaseInv
<1>4. DOMAIN config = {} /\ DOMAIN snapshot = {} BY DEF Init, NoReceivers
<1>5. OwnInv BY <1>4, FS_EmptySet DEF OwnInv
<1>6. RoutedAsDocumented
  BY <1>4 DEF Init, RoutedAsDocumented, OnlyUsableReceivers, NamedOnceInOrder, BroadcastInIDOrder
<1> QED BY <1>2, <1>3, <1>5, <1>6 DEF RoutingInv

(***************************************************************************)
(* Building                                                                *)
(***************************************************************************)
\* While receivers are built there is no manager yet.
LEMMA BuildingKeeps ==
    ASSUME RoutingInv, phase = "building", HeapInv',
           UNCHANGED <<config, snapshot, phase, asked, resolved>>
    PROVE  RoutingInv'
<1>1. PhaseInv' BY DEF RoutingInv, PhaseInv
<1>2. DOMAIN config' = {} /\ DOMAIN snapshot' = {} BY DEF RoutingInv, PhaseInv, NoReceivers
<1>3. OwnInv' BY <1>2, FS_EmptySet DEF OwnInv
<1>4. asked' = << >> /\ resolved' = << >> BY DEF RoutingInv, PhaseInv
<1>5. RoutedAsDocumented'
  BY <1>2, <1>4 DEF RoutedAsDocumented, OnlyUsableReceivers, NamedOnceInOrder, BroadcastInIDOrder
<1> QED BY <1>1, <1>3, <1>5 DEF RoutingInv

LEMMA NewReceiverKeeps == RoutingInv /\ NewReceiver => RoutingInv'
<1> SUFFICES ASSUME RoutingInv, NewReceiver PROVE RoutingInv' OBVIOUS
<1>1. HeapInv BY DEF RoutingInv
<1>2. PICK id \in Ids, s \in {NilSlice, Slice(1, BaseLen)} :
        built' = Append(built, [id |-> id, targets |-> s])
  BY DEF NewReceiver
<1>3. arrays' = arrays BY DEF NewReceiver
<1>4. s \in Slices /\ Within(arrays, s)
  <2>1. CASE s = NilSlice BY <2>1 DEF NilSlice, Slice, Slices, Within
  <2>2. CASE s = Slice(1, BaseLen)
    <3>1. s.array = 1 /\ s.len = BaseLen /\ s \in Slices BY <2>2, BaseFits DEF Slice, Slices
    <3>2. 1 \in 1..Len(arrays) /\ Len(arrays[1]) >= BaseLen
      <4> Len(arrays) \in Nat BY <1>1, LenProperties DEF HeapInv, Heaps
      <4> QED BY <1>1, BaseFits DEF HeapInv
    <3> QED BY <3>1, <3>2, BaseFits DEF Within
  <2> QED BY <2>1, <2>2
<1>5. HeapInv'
  <2> DEFINE e == [id |-> id, targets |-> s]
  <2>1. e \in Entries BY <1>4 DEF Entries
  <2>2. built \in Seq(Entries) BY <1>1 DEF HeapInv, Entries, Slices
  <2> HIDE DEF e
  <2>3. /\ built' \in Seq(Entries) /\ DOMAIN built' = 1..(Len(built) + 1) /\ Len(built) \in Nat
        /\ built'[Len(built) + 1] = e /\ \A r \in 1..Len(built) : built'[r] = built[r]
    BY <1>2, <2>1, <2>2, AppendProperties, LenProperties DEF e
  <2>4. ASSUME NEW r \in DOMAIN built' PROVE Within(arrays, built'[r].targets)
    <3>1. CASE r \in 1..Len(built)
      BY <1>1, <2>3, <3>1, EntryFacts
    <3>2. CASE r = Len(built) + 1
      <4> built'[r].targets = s BY <2>3, <3>2 DEF e
      <4> QED BY <1>4
    <3> QED BY <2>3, <3>1, <3>2
  <2> QED BY <1>1, <1>3, <2>3, <2>4 DEF HeapInv, Entries, Slices
<1> QED BY <1>5, BuildingKeeps DEF NewReceiver

\* append in place or to a copy: every slice still fits its array.
LEMMA WithTargetsKeeps == RoutingInv /\ WithTargets => RoutingInv'
<1> SUFFICES ASSUME RoutingInv, WithTargets PROVE RoutingInv' OBVIOUS
<1>1. HeapInv BY DEF RoutingInv
<1>2. PICK r \in DOMAIN built, t \in Targets \union {Nil}, spare \in {<< >>, <<Nil>>} :
        LET s == built[r].targets IN
         /\ arrays' = IF Room(s) THEN [arrays EXCEPT ![s.array][s.len + 1] = t]
                      ELSE Append(arrays, Read(arrays, s) \o <<t>> \o spare)
         /\ built' = [built EXCEPT ![r].targets =
                         Slice(IF Room(s) THEN s.array ELSE Len(arrays) + 1, s.len + 1)]
  BY DEF WithTargets
<1> DEFINE s == built[r].targets
           new == Slice(IF Room(s) THEN s.array ELSE Len(arrays) + 1, s.len + 1)
<1>3. /\ s \in Slices /\ Within(arrays, s) /\ s.len \in Nat /\ s.array \in Nat
      /\ t \in Elems /\ arrays \in Heaps /\ Len(arrays) \in Nat
  BY <1>1, EntryFacts, LenProperties DEF Elems, HeapInv, Heaps, Slices
<1>4. /\ arrays' \in Heaps /\ Len(arrays') >= Len(arrays)
      /\ \A b \in 1..Len(arrays) : Len(arrays'[b]) = Len(arrays[b])
      /\ new \in Slices /\ Within(arrays', new)
  <2> DEFINE next == arrays'
  <2>1. CASE Room(s)
    <3> DEFINE a == s.array
               i == s.len + 1
    <3>1. a \in 1..Len(arrays) /\ i \in 1..Len(arrays[a])
      <4>1. s.len > 0 /\ s.len < Len(arrays[s.array]) BY <2>1 DEF Room
      <4>2. s.array \in 1..Len(arrays) BY <1>3, <4>1 DEF Within
      <4>3. Len(arrays[s.array]) \in Nat
        BY <1>3, <4>2, ElementOfSeq, LenProperties DEF Heaps
      <4> QED BY <1>3, <4>1, <4>2, <4>3
    <3>2. next = [arrays EXCEPT ![a][i] = t] BY <1>2, <2>1
    <3>3. new = Slice(a, i) BY <2>1
    <3>5. a \in Nat /\ i \in Nat BY <1>3
    <3> HIDE DEF s, new, a, i, next
    <3> DEFINE arrs == arrays
    <3>8. arrs \in Heaps /\ t \in Elems BY <1>3
    <3>9. a \in 1..Len(arrs) /\ i \in 1..Len(arrs[a]) /\ next = Written(arrs, a, i, t)
      BY <3>1, <3>2 DEF Written
    <3> HIDE DEF arrs
    <3>4. /\ next \in Heaps /\ Len(next) = Len(arrs)
          /\ \A b \in 1..Len(arrs) : Len(next[b]) = Len(arrs[b])
      <4>1. /\ Written(arrs, a, i, t) \in Heaps /\ Len(Written(arrs, a, i, t)) = Len(arrs)
            /\ \A b \in 1..Len(arrs) : Len(Written(arrs, a, i, t)[b]) = Len(arrs[b])
        BY <3>8, <3>9, HeapWritten, Zenon
      <4> QED BY <3>9, <4>1
    <3>6. new.array = a /\ new.len = i /\ new \in Slices BY <3>3, <3>5 DEF Slice, Slices
    <3>7. Within(next, new) BY <1>3, <3>4, <3>5, <3>6, <3>9 DEF Within
    <3> QED BY <1>3, <3>4, <3>6, <3>7 DEF next, arrs
  <2>2. CASE ~Room(s)
    <3> DEFINE row == Read(arrays, s) \o <<t>> \o spare
               m == Len(arrays) + 1
               l == s.len + 1
    <3>1. row \in Seq(Elems) /\ Len(row) \in Nat /\ Len(row) >= l
      <4> DEFINE old == Read(arrays, s)
                 one == <<t>>
                 more == old \o one
      <4>1. old \in Seq(Elems) /\ Len(old) = s.len
        <5> HIDE DEF s
        <5> QED BY <1>3, ReadFacts
      <4>2. one \in Seq(Elems) /\ Len(one) = 1 BY <1>3
      <4>3. spare \in Seq(Elems) /\ Len(spare) \in Nat
        <5>1. Nil \in Elems BY DEF Elems
        <5>2. CASE spare = << >> BY <5>2, EmptySeq
        <5>3. CASE spare = <<Nil>> BY <5>1, <5>3
        <5> QED BY <5>2, <5>3
      <4> HIDE DEF old, one, s
      <4>4. more \in Seq(Elems) /\ Len(more) = l
        <5>1. more \in Seq(Elems) /\ Len(more) = Len(old) + Len(one)
          BY <4>1, <4>2, ConcatProperties, Zenon
        <5> QED BY <4>1, <4>2, <5>1
      <4> HIDE DEF more, l
      <4>5. more \o spare \in Seq(Elems) /\ Len(more \o spare) = l + Len(spare)
        <5>1. more \o spare \in Seq(Elems) /\ Len(more \o spare) = Len(more) + Len(spare)
          BY <4>3, <4>4, ConcatProperties, Zenon
        <5> QED BY <4>4, <5>1
      <4>6. l \in Nat BY <1>3 DEF l
      <4>7. row = more \o spare BY DEF more, old, one
      <4> HIDE DEF row
      <4> QED BY <4>3, <4>5, <4>6, <4>7
    <3>2. next = Append(arrays, row) BY <1>2, <2>2
    <3>3. new = Slice(m, l) BY <2>2
    <3>5. m \in Nat /\ l \in Nat BY <1>3
    <3> HIDE DEF row, s, new, next, l
    <3>4. /\ next \in Heaps /\ Len(next) = m /\ next[m] = row
          /\ \A b \in 1..Len(arrays) : next[b] = arrays[b]
      <4> DEFINE arrs == arrays
      <4>1. arrs \in Heaps /\ row \in Seq(Elems) /\ next = Append(arrs, row)
        BY <1>3, <3>1, <3>2
      <4> HIDE DEF arrs
      <4>2. /\ next \in Heaps /\ Len(next) = Len(arrs) + 1 /\ next[Len(arrs) + 1] = row
            /\ \A b \in 1..Len(arrs) : next[b] = arrs[b]
        <5>1. /\ Append(arrs, row) \in Heaps /\ Len(Append(arrs, row)) = Len(arrs) + 1
              /\ Append(arrs, row)[Len(arrs) + 1] = row
              /\ \A b \in 1..Len(arrs) : Append(arrs, row)[b] = arrs[b]
          BY <4>1, HeapGrown, Zenon
        <5> QED BY <4>1, <5>1
      <4> QED BY <4>2 DEF arrs
    <3> HIDE DEF m
    <3>6. new.array = m /\ new.len = l /\ new \in Slices BY <3>3, <3>5 DEF Slice, Slices
    <3>7. Within(next, new) BY <3>1, <3>4, <3>5, <3>6 DEF Within, m
    <3> QED BY <1>3, <3>4, <3>6, <3>7 DEF next, m
  <2> QED BY <2>1, <2>2
<1>5. built' = [built EXCEPT ![r].targets = new] BY <1>2
<1> HIDE DEF s, new
<1>6. HeapInv'
  <2>1. built \in Seq(Entries) BY <1>1 DEF HeapInv, Entries, Slices
  <2> DEFINE e == [built[r] EXCEPT !.targets = new]
  <2>2. e \in Entries /\ e.targets = new
    BY <1>1, <1>4, EntryFacts DEF Entries
  <2>3. built' = [built EXCEPT ![r] = e] BY <1>5
  <2> HIDE DEF e
  <2>4. /\ built' \in Seq(Entries) /\ DOMAIN built' = DOMAIN built
        /\ \A q \in DOMAIN built : built'[q] = IF q = r THEN e ELSE built[q]
    <3>1. r \in 1..Len(built) /\ DOMAIN built = 1..Len(built) BY <1>1, EntryFacts
    <3>2. /\ [built EXCEPT ![r] = e] \in Seq(Entries)
          /\ Len([built EXCEPT ![r] = e]) = Len(built)
          /\ \A q \in 1..Len(built) : [built EXCEPT ![r] = e][q] = IF q = r THEN e ELSE built[q]
      BY <2>1, <2>2, <3>1, ExceptSeq
    <3> QED BY <2>3, <3>1, <3>2, LenProperties
  <2>5. ASSUME NEW q \in DOMAIN built' PROVE Within(arrays', built'[q].targets)
    <3>1. CASE q = r BY <1>4, <2>2, <2>4, <3>1
    <3>2. CASE q # r
      <4>1. built'[q] = built[q] /\ Within(arrays, built[q].targets)
        BY <1>1, <2>4, <3>2, EntryFacts
      <4> QED BY <1>3, <1>4, <4>1, WithinKept
    <3> QED BY <3>1, <3>2
  <2>6. Len(arrays') >= 1 /\ Len(arrays'[1]) = Len(Base)
    <3>1. 1 \in 1..Len(arrays) /\ Len(arrays[1]) = Len(Base) BY <1>1, <1>3 DEF HeapInv
    <3>2. Len(arrays') \in Nat BY <1>4, LenProperties DEF Heaps
    <3> QED BY <1>3, <1>4, <3>1, <3>2
  <2> QED BY <1>4, <2>4, <2>5, <2>6 DEF HeapInv, Entries, Slices
<1> QED BY <1>6, BuildingKeeps DEF WithTargets

(***************************************************************************)
(* Writing                                                                 *)
(***************************************************************************)
\* What the manager's receivers hold, while their arrays and themselves stay.
LEMMA TargetsSame ==
    ASSUME NEW arrs, NEW next, NEW rs,
           \A k \in DOMAIN rs : /\ rs[k].targets.len \in Nat
                                /\ next[rs[k].targets.array] = arrs[rs[k].targets.array]
    PROVE  TargetsOf(next, rs) = TargetsOf(arrs, rs)
<1>1. \A k \in DOMAIN rs : Read(next, rs[k].targets) = Read(arrs, rs[k].targets)
  BY ReadSame
<1> QED BY <1>1 DEF TargetsOf

\* A write through a slice that is apart from the manager's.
LEMMA WriteKeeps ==
    ASSUME RoutingInv, NEW s, Within(arrays, s),
           \A k \in DOMAIN config : Apart(s, config[k].targets), Write(s)
    PROVE  RoutingInv' /\ TargetsOf(arrays', config') = TargetsOf(arrays, config)
<1> DEFINE arrs == arrays
           next == arrays'
           a == s.array
           i == s.len
<1>1. HeapInv /\ PhaseInv /\ OwnInv /\ RoutedAsDocumented BY DEF RoutingInv
<1>2. /\ arrs \in Heaps /\ a \in 1..Len(arrs) /\ i \in 1..Len(arrs[a]) /\ Nil \in Elems
      /\ next = Written(arrs, a, i, Nil) /\ Len(arrs) \in Nat
  <2>1. s.len > 0 /\ arrays' = [arrays EXCEPT ![s.array][s.len] = Nil] BY DEF Write
  <2>2. arrays \in Heaps /\ Len(arrays) \in Nat BY <1>1, LenProperties DEF HeapInv, Heaps
  <2>3. a \in 1..Len(arrs) /\ i \in Nat /\ i <= Len(arrs[a]) BY <2>1 DEF Within
  <2>4. Len(arrs[a]) \in Nat BY <2>2, <2>3, ElementOfSeq, LenProperties DEF Heaps
  <2> QED BY <2>1, <2>2, <2>3, <2>4 DEF Written, Elems
<1>3. /\ next \in Heaps /\ Len(next) = Len(arrs)
      /\ \A b \in 1..Len(arrs) : /\ Len(next[b]) = Len(arrs[b])
                                 /\ b # a => next[b] = arrs[b]
  <2> HIDE DEF arrs, next, a, i
  <2>1. /\ Written(arrs, a, i, Nil) \in Heaps /\ Len(Written(arrs, a, i, Nil)) = Len(arrs)
        /\ \A b \in 1..Len(arrs) : /\ Len(Written(arrs, a, i, Nil)[b]) = Len(arrs[b])
                                   /\ b # a => Written(arrs, a, i, Nil)[b] = arrs[b]
    BY <1>2, HeapWritten, Zenon
  <2> QED BY <1>2, <2>1
<1>4. \A k \in DOMAIN config : a # config[k].targets.array
  BY DEF Apart, Write
<1>5. UNCHANGED <<built, config, snapshot, phase, asked, resolved>> BY DEF Write
<1>6. \A t : Within(arrays, t) => Within(arrays', t)
  <2> HIDE DEF arrs, next
  <2>1. Len(next) >= Len(arrs) BY <1>2, <1>3
  <2>2. \A t : Within(arrs, t) => Within(next, t) BY <1>2, <1>3, <2>1, WithinKept
  <2> QED BY <2>2 DEF arrs, next
<1> HIDE DEF a, i
<1>7. HeapInv'
  <2>1. 1 \in 1..Len(arrs) BY <1>1, <1>2 DEF HeapInv
  <2> QED BY <1>1, <1>3, <1>5, <1>6, <2>1 DEF HeapInv
<1>8. PhaseInv' BY <1>1, <1>5 DEF PhaseInv
<1>9. OwnInv' BY <1>1, <1>3, <1>5, <1>6 DEF OwnInv, Apart
<1>10. TargetsOf(arrays', config') = TargetsOf(arrays, config)
  <2>1. \A k \in DOMAIN config : /\ config[k].targets.len \in Nat
                                 /\ next[config[k].targets.array] = arrs[config[k].targets.array]
    <3> SUFFICES ASSUME NEW k \in DOMAIN config
                 PROVE  /\ config[k].targets.len \in Nat
                        /\ next[config[k].targets.array] = arrs[config[k].targets.array]
      OBVIOUS
    <3>1. config[k].targets.array \in 1..Len(arrs) BY <1>1 DEF OwnInv
    <3>2. arrs[config[k].targets.array] \in Seq(Elems) BY <1>2, <3>1, ElementOfSeq DEF Heaps
    <3>3. config[k].targets.len \in Nat BY <1>1, <3>2, LenProperties DEF OwnInv
    <3> QED BY <1>3, <1>4, <3>1, <3>3
  <2> HIDE DEF arrs, next
  <2>2. TargetsOf(next, config) = TargetsOf(arrs, config) BY <2>1, TargetsSame
  <2> QED BY <1>5, <2>2 DEF arrs, next
<1>11. RoutedAsDocumented'
  <2> DEFINE ts == TargetsOf(arrays, config)
             tsNext == TargetsOf(arrays', config')
  <2>1. \A k \in DOMAIN config : ts[k] # << >> /\ ~Contains(ts[k], Nil)
    BY <1>1 DEF RoutedAsDocumented, OnlyUsableReceivers
  <2>2. ts = tsNext BY <1>10
  <2> HIDE DEF ts, tsNext
  <2>3. \A k \in DOMAIN config' : tsNext[k] # << >> /\ ~Contains(tsNext[k], Nil)
    BY <1>5, <2>1, <2>2
  <2>4. OnlyUsableReceivers' BY <2>3 DEF OnlyUsableReceivers, tsNext
  <2>5. NamedOnceInOrder' /\ BroadcastInIDOrder'
    BY <1>1, <1>5 DEF RoutedAsDocumented, NamedOnceInOrder, BroadcastInIDOrder, FirstNamed
  <2> QED BY <2>4, <2>5 DEF RoutedAsDocumented
<1> QED BY <1>7, <1>8, <1>9, <1>10, <1>11 DEF RoutingInv

LEMMA ApplicationWritesKeeps ==
    RoutingInv /\ ApplicationWrites =>
        RoutingInv' /\ TargetsOf(arrays', config') = TargetsOf(arrays, config)
<1> SUFFICES ASSUME RoutingInv, ApplicationWrites
             PROVE  RoutingInv' /\ TargetsOf(arrays', config') = TargetsOf(arrays, config)
  OBVIOUS
<1>1. PICK r \in DOMAIN built : Write(built[r].targets) BY DEF ApplicationWrites
<1> DEFINE s == built[r].targets
<1>2. Within(arrays, s) /\ \A k \in DOMAIN config : Apart(s, config[k].targets)
  BY DEF RoutingInv, HeapInv, OwnInv
<1>3. Write(s) BY <1>1
<1> HIDE DEF s
<1> QED BY <1>2, <1>3, WriteKeeps

LEMMA SnapshotWrittenKeeps ==
    RoutingInv /\ SnapshotWritten =>
        RoutingInv' /\ TargetsOf(arrays', config') = TargetsOf(arrays, config)
<1> SUFFICES ASSUME RoutingInv, SnapshotWritten
             PROVE  RoutingInv' /\ TargetsOf(arrays', config') = TargetsOf(arrays, config)
  OBVIOUS
<1>1. PICK k \in DOMAIN snapshot : Write(snapshot[k].targets) BY DEF SnapshotWritten
<1> DEFINE s == snapshot[k].targets
<1>2. Within(arrays, s) /\ \A j \in DOMAIN config : Apart(s, config[j].targets)
  BY DEF RoutingInv, OwnInv
<1>3. Write(s) BY <1>1
<1> HIDE DEF s
<1> QED BY <1>2, <1>3, WriteKeeps

(***************************************************************************)
(* Normalizing                                                             *)
(***************************************************************************)
\* normalizeReceivers leaves every slice there is where it was, and its own, which
\* fit, in arrays there were not.
LEMMA NormalizeKeeps ==
    ASSUME NEW arrs \in Heaps, NEW rs, IsFiniteSet(DOMAIN rs),
           \A k \in DOMAIN rs : Within(arrs, rs[k].targets),
           NEW n, n = normalizeReceivers(arrs, rs), NEW next, next = n.arrays
    PROVE  /\ \A s : Within(arrs, s) => Within(next, s)
           /\ \A k \in DOMAIN n.receivers :
                /\ Within(next, n.receivers[k].targets)
                /\ \A s : Within(arrs, s) => Apart(s, n.receivers[k].targets)
                /\ \A s : Within(arrs, s) => Apart(n.receivers[k].targets, s) \/ s.len = 0
<1>1. /\ next \in Heaps /\ Len(next) >= Len(arrs)
      /\ \A a \in 1..Len(arrs) : next[a] = arrs[a]
      /\ DOMAIN n.receivers = DOMAIN rs
      /\ \A k \in DOMAIN rs :
           /\ n.receivers[k].targets.array \in (Len(arrs) + 1)..Len(next)
           /\ n.receivers[k].targets.len = Len(next[n.receivers[k].targets.array])
  BY NormalizeFacts
<1>2. Len(arrs) \in Nat /\ Len(next) \in Nat BY <1>1, LenProperties DEF Heaps
<1>3. ASSUME NEW s, Within(arrs, s) PROVE Within(next, s)
  BY <1>1, <1>3, WithinKept
<1>4. ASSUME NEW k \in DOMAIN n.receivers
      PROVE  /\ Within(next, n.receivers[k].targets)
             /\ \A s : Within(arrs, s) => Apart(s, n.receivers[k].targets)
             /\ \A s : Within(arrs, s) => Apart(n.receivers[k].targets, s) \/ s.len = 0
  <2> DEFINE t == n.receivers[k].targets
  <2>1. t.array \in (Len(arrs) + 1)..Len(next) /\ t.len = Len(next[t.array]) BY <1>1
  <2> HIDE DEF t
  <2>2. t.array \in 1..Len(next) /\ t.array > Len(arrs) /\ t.array \in Nat BY <1>2, <2>1
  <2>3. next[t.array] \in Seq(Elems) BY <1>1, <2>2, ElementOfSeq DEF Heaps
  <2>4. t.len \in Nat BY <2>1, <2>3, LenProperties
  <2>5. Within(next, t) BY <2>1, <2>2, <2>4 DEF Within
  <2>6. ASSUME NEW s, Within(arrs, s) PROVE Apart(s, t) /\ (Apart(t, s) \/ s.len = 0)
    BY <1>2, <2>2, <2>6 DEF Apart, Within
  <2> QED BY <2>5, <2>6 DEF t
<1> QED BY <1>3, <1>4

\* What NewReceivers, or a map literal, makes of the receivers built.
LEMMA GivenFacts ==
    ASSUME HeapInv, NEW rs \in {NewReceivers(built)} \union [DOMAIN built -> Range(built)]
    PROVE  IsFiniteSet(DOMAIN rs) /\ \A k \in DOMAIN rs : Within(arrays, rs[k].targets)
<1> DEFINE n == Len(built)
<1>1. /\ n \in Nat /\ DOMAIN built = 1..n
      /\ \A r \in 1..n : Within(arrays, built[r].targets)
  BY EntryFacts
<1> HIDE DEF n
<1>2. IsFiniteSet(1..n) BY <1>1, FS_Interval
<1>3. CASE rs = NewReceivers(built)
  <2> DEFINE idOf == [r \in 1..n |-> built[r].id]
             ids == {built[r].id : r \in 1..n}
             LastOf(id, r) == built[r].id = id /\ \A q \in 1..n : built[q].id = id => q <= r
  <2>1. rs = [id \in ids |-> built[CHOOSE r \in 1..n : LastOf(id, r)]]
    BY <1>1, <1>3 DEF NewReceivers
  <2>2. IsFiniteSet(ids)
    <3>1. idOf \in Surjection(1..n, ids) BY DEF Surjection
    <3> HIDE DEF idOf, ids
    <3> QED BY <1>2, <3>1, FS_Surjection
  <2>3. ASSUME NEW id \in ids PROVE \E r \in 1..n : LastOf(id, r)
    <3> DEFINE same == {r \in 1..n : built[r].id = id}
    <3>1. same \in SUBSET (1..n) /\ same # {} BY <2>3
    <3>2. \A x \in same : x \in 1..n /\ built[x].id = id OBVIOUS
    <3>3. \A q \in 1..n : built[q].id = id => q \in same OBVIOUS
    <3> HIDE DEF same
    <3>4. Max(same) \in same /\ \A x \in same : Max(same) >= x BY <1>1, <3>1, MaxOfPlaces
    <3>5. Max(same) \in 1..n /\ built[Max(same)].id = id BY <3>2, <3>4
    <3>6. \A q \in 1..n : built[q].id = id => q <= Max(same)
      <4> SUFFICES ASSUME NEW q \in 1..n, built[q].id = id PROVE q <= Max(same) OBVIOUS
      <4>1. Max(same) >= q BY <3>3, <3>4
      <4> QED BY <1>1, <3>5, <4>1
    <3> QED BY <3>5, <3>6
  <2>4. ASSUME NEW id \in ids PROVE Within(arrays, rs[id].targets)
    <3> DEFINE last == CHOOSE r \in 1..n : LastOf(id, r)
    <3>1. last \in 1..n
      <4> HIDE DEF Last
      <4> QED BY <2>3
    <3>2. rs[id] = built[last] BY <2>1
    <3> HIDE DEF last
    <3> QED BY <1>1, <3>1, <3>2
  <2>5. DOMAIN rs = ids BY <2>1
  <2> HIDE DEF ids
  <2> QED BY <2>2, <2>4, <2>5
<1>4. CASE rs \in [DOMAIN built -> Range(built)]
  <2>1. \A k \in 1..n : \E r \in 1..n : rs[k] = built[r] BY <1>1, <1>4 DEF Range
  <2>2. DOMAIN rs = 1..n BY <1>1, <1>4
  <2> QED BY <1>1, <1>2, <2>1, <2>2
<1> QED BY <1>3, <1>4

\* A manager starts with usable receivers only, in arrays nobody else has.
LEMMA NewManagerKeeps == RoutingInv /\ NewManager => RoutingInv'
<1> SUFFICES ASSUME RoutingInv, NewManager PROVE RoutingInv' OBVIOUS
<1>1. /\ HeapInv /\ PhaseInv /\ OwnInv /\ arrays \in Heaps /\ Len(arrays) \in Nat
  BY LenProperties DEF RoutingInv, HeapInv, Heaps
<1>2. phase = "building" /\ UNCHANGED <<built, snapshot, asked, resolved>> BY DEF NewManager
<1>3. /\ config = NoReceivers /\ snapshot = NoReceivers /\ asked = << >> /\ resolved = << >>
  BY <1>1, <1>2 DEF PhaseInv
<1>4. DOMAIN config = {} /\ DOMAIN snapshot' = {} BY <1>2, <1>3 DEF NoReceivers
<1> DEFINE Made(n) == IF validateReceivers(n.arrays, n.receivers)
                      THEN arrays' = n.arrays /\ config' = n.receivers /\ phase' = "ready"
                      ELSE phase' = "rejected" /\ UNCHANGED <<arrays, config>>
<1>11. PICK rs \in {NewReceivers(built)} \union [DOMAIN built -> Range(built)] :
        Made(normalizeReceivers(arrays, rs))
  BY Zenon DEF NewManager
<1> DEFINE n == normalizeReceivers(arrays, rs)
<1>5. /\ rs \in {NewReceivers(built)} \union [DOMAIN built -> Range(built)]
      /\ IF validateReceivers(n.arrays, n.receivers)
         THEN arrays' = n.arrays /\ config' = n.receivers /\ phase' = "ready"
         ELSE phase' = "rejected" /\ UNCHANGED <<arrays, config>>
  BY <1>11
<1>6. IsFiniteSet(DOMAIN rs) /\ \A k \in DOMAIN rs : Within(arrays, rs[k].targets)
  BY <1>1, <1>5, GivenFacts
<1>7. n = normalizeReceivers(arrays, rs) OBVIOUS
<1> HIDE DEF n
<1>8. CASE validateReceivers(n.arrays, n.receivers)
  <2>1. arrays' = n.arrays /\ config' = n.receivers /\ phase' = "ready" BY <1>5, <1>8
  <2> DEFINE arrs == arrays
             next == n.arrays
             new == n.receivers
  <2>2. /\ next \in Heaps /\ Len(next) >= Len(arrs)
        /\ \A a \in 1..Len(arrs) : next[a] = arrs[a]
        /\ DOMAIN new = DOMAIN rs
        /\ \A k \in DOMAIN rs :
             /\ new[k].targets.array \in (Len(arrs) + 1)..Len(next)
             /\ new[k].targets.len = Len(next[new[k].targets.array])
    <3>1. /\ arrs \in Heaps /\ IsFiniteSet(DOMAIN rs)
          /\ \A k \in DOMAIN rs : Within(arrs, rs[k].targets)
          /\ n = normalizeReceivers(arrs, rs)
      BY <1>1, <1>6, <1>7
    <3> HIDE DEF arrs
    <3> QED BY <3>1, NormalizeFacts
  <2>3. /\ \A s : Within(arrs, s) => Within(next, s)
        /\ \A k \in DOMAIN new : /\ Within(next, new[k].targets)
                                 /\ \A s : Within(arrs, s) => Apart(s, new[k].targets)
    BY <1>1, <1>6, <1>7, NormalizeKeeps
  <2>4. /\ next = arrays' /\ new = config' /\ Len(arrs) \in Nat /\ arrs = arrays
        /\ Len(next) \in Nat
    BY <1>1, <2>1, <2>2, LenProperties DEF Heaps
  <2>5. validateReceivers(next, new) BY <1>8
  <2> HIDE DEF next, new, arrs
  <2>6. HeapInv'
    <3>1. 1 \in 1..Len(arrs) /\ Len(arrs[1]) = Len(Base) BY <1>1, <2>4 DEF HeapInv
    <3>2. Len(next) >= 1 /\ Len(next[1]) = Len(Base) BY <2>2, <2>4, <3>1
    <3>3. \A r \in DOMAIN built : Within(arrs, built[r].targets) BY <1>1, <2>4 DEF HeapInv
    <3> QED BY <1>1, <1>2, <2>2, <2>3, <2>4, <3>2, <3>3 DEF HeapInv
  <2>7. PhaseInv' BY <2>1 DEF PhaseInv
  <2>8. OwnInv'
    <3>1. ASSUME NEW k \in DOMAIN new
          PROVE  /\ new[k].targets.array \in 1..Len(next)
                 /\ new[k].targets.len = Len(next[new[k].targets.array])
                 /\ \A r \in DOMAIN built : Apart(built[r].targets, new[k].targets)
      <4>1. \A r \in DOMAIN built : Within(arrs, built[r].targets) BY <1>1, <2>4 DEF HeapInv
      <4> QED BY <2>2, <2>3, <2>4, <4>1
    <3> QED BY <1>2, <1>4, <1>6, <2>2, <2>4, <3>1 DEF OwnInv
  <2>9. OnlyUsableReceivers'
    <3> DEFINE ts == TargetsOf(next, new)
    <3>1. ASSUME NEW k \in DOMAIN new PROVE ts[k] # << >> /\ ~Contains(ts[k], Nil)
      <4> DEFINE s == new[k].targets
      <4>1. s.len > 0 /\ ~Contains(Read(next, s), Nil) BY <2>5 DEF validateReceivers
      <4>2. Len(Read(next, s)) = s.len
        <5> HIDE DEF s
        <5> QED BY <2>2, <2>3, ReadFacts DEF s
      <4>3. Read(next, s) # << >>
        <5> Len(<< >>) = 0 OBVIOUS
        <5> HIDE DEF s
        <5> QED BY <4>1, <4>2
      <4>4. ts[k] = Read(next, s) BY DEF TargetsOf
      <4> QED BY <4>1, <4>3, <4>4
    <3> HIDE DEF ts
    <3> QED BY <2>4, <3>1 DEF OnlyUsableReceivers, ts
  <2>10. NamedOnceInOrder' /\ BroadcastInIDOrder'
    BY <1>2, <1>3 DEF NamedOnceInOrder, BroadcastInIDOrder
  <2> QED BY <2>6, <2>7, <2>8, <2>9, <2>10 DEF RoutingInv, RoutedAsDocumented
<1>9. CASE ~validateReceivers(n.arrays, n.receivers)
  <2>1. phase' = "rejected" /\ UNCHANGED <<arrays, config>> BY <1>5, <1>9
  <2>2. HeapInv' BY <1>1, <1>2, <2>1 DEF HeapInv
  <2>3. PhaseInv' BY <1>2, <1>3, <2>1 DEF PhaseInv
  <2>4. OwnInv' BY <1>4, <2>1, FS_EmptySet DEF OwnInv
  <2>5. RoutedAsDocumented'
    BY <1>2, <1>3, <1>4, <2>1
       DEF RoutedAsDocumented, OnlyUsableReceivers, NamedOnceInOrder, BroadcastInIDOrder
  <2> QED BY <2>2, <2>3, <2>4, <2>5 DEF RoutingInv
<1> QED BY <1>8, <1>9

\* The manager's receivers are slices that fill their arrays.
LEMMA ConfigWithin ==
    ASSUME RoutingInv
    PROVE  /\ arrays \in Heaps /\ Len(arrays) \in Nat
           /\ \A k \in DOMAIN config :
                /\ Within(arrays, config[k].targets) /\ config[k].targets.len \in Nat
                /\ config[k].targets.array \in 1..Len(arrays)
<1>1. arrays \in Heaps /\ Len(arrays) \in Nat /\ OwnInv
  BY LenProperties DEF RoutingInv, HeapInv, Heaps
<1>2. ASSUME NEW k \in DOMAIN config
      PROVE  /\ Within(arrays, config[k].targets) /\ config[k].targets.len \in Nat
             /\ config[k].targets.array \in 1..Len(arrays)
  <2>1. config[k].targets.array \in 1..Len(arrays) BY <1>1 DEF OwnInv
  <2>2. arrays[config[k].targets.array] \in Seq(Elems) BY <1>1, <2>1, ElementOfSeq DEF Heaps
  <2>3. /\ config[k].targets.len \in Nat
        /\ config[k].targets.len = Len(arrays[config[k].targets.array])
    BY <1>1, <2>2, LenProperties DEF OwnInv
  <2> QED BY <1>1, <2>1, <2>3 DEF Within
<1> QED BY <1>1, <1>2

\* A snapshot has arrays of its own.
LEMMA ReceiversKeeps ==
    RoutingInv /\ Receivers =>
        RoutingInv' /\ TargetsOf(arrays', config') = TargetsOf(arrays, config)
<1> SUFFICES ASSUME RoutingInv, Receivers
             PROVE  RoutingInv' /\ TargetsOf(arrays', config') = TargetsOf(arrays, config)
  OBVIOUS
<1> DEFINE arrs == arrays
           n == normalizeReceivers(arrays, config)
           next == n.arrays
           new == n.receivers
<1>1. /\ HeapInv /\ PhaseInv /\ OwnInv /\ RoutedAsDocumented /\ IsFiniteSet(DOMAIN config)
  BY DEF RoutingInv, OwnInv
<1>2. /\ next = arrays' /\ new = snapshot' /\ arrs = arrays /\ phase = "ready"
      /\ UNCHANGED <<built, config, phase, asked, resolved>>
  BY DEF Receivers
<1>3. /\ arrs \in Heaps /\ Len(arrs) \in Nat
      /\ \A k \in DOMAIN config :
           /\ Within(arrs, config[k].targets) /\ config[k].targets.len \in Nat
           /\ config[k].targets.array \in 1..Len(arrs)
  BY ConfigWithin
<1>4. n = normalizeReceivers(arrs, config) OBVIOUS
<1> HIDE DEF n, arrs
<1>5. /\ next \in Heaps /\ Len(next) >= Len(arrs)
      /\ \A a \in 1..Len(arrs) : next[a] = arrs[a]
      /\ DOMAIN new = DOMAIN config
  BY <1>1, <1>3, <1>4, NormalizeFacts
<1>6. /\ \A s : Within(arrs, s) => Within(next, s)
      /\ \A k \in DOMAIN new :
           /\ Within(next, new[k].targets)
           /\ \A s : Within(arrs, s) => Apart(new[k].targets, s) \/ s.len = 0
  BY <1>1, <1>3, <1>4, NormalizeKeeps
<1>7. Len(next) \in Nat BY <1>5, LenProperties DEF Heaps
<1> HIDE DEF next, new
<1>8. HeapInv'
  <2>1. 1 \in 1..Len(arrs) /\ Len(arrs[1]) = Len(Base) BY <1>1, <1>2, <1>3 DEF HeapInv
  <2>2. Len(next) >= 1 /\ Len(next[1]) = Len(Base) BY <1>3, <1>5, <1>7, <2>1
  <2>3. \A r \in DOMAIN built : Within(arrs, built[r].targets) BY <1>1, <1>2 DEF HeapInv
  <2> QED BY <1>1, <1>2, <1>5, <1>6, <2>2, <2>3 DEF HeapInv
<1>9. PhaseInv' BY <1>1, <1>2 DEF PhaseInv
<1>10. \A k \in DOMAIN config : config[k].targets.len # 0
  <2> SUFFICES ASSUME NEW k \in DOMAIN config, config[k].targets.len = 0 PROVE FALSE OBVIOUS
  <2>1. TargetsOf(arrays, config)[k] = << >> BY DEF TargetsOf, Read
  <2> QED BY <1>1, <2>1 DEF RoutedAsDocumented, OnlyUsableReceivers
<1>11. OwnInv'
  <2>1. ASSUME NEW k \in DOMAIN config
        PROVE  /\ config[k].targets.array \in 1..Len(next)
               /\ config[k].targets.len = Len(next[config[k].targets.array])
               /\ \A r \in DOMAIN built : Apart(built[r].targets, config[k].targets)
               /\ \A j \in DOMAIN new : Apart(new[j].targets, config[k].targets)
    <3>1. config[k].targets.array \in 1..Len(arrs) BY <1>3
    <3>2. config[k].targets.len = Len(arrs[config[k].targets.array])
      BY <1>1, <1>2 DEF OwnInv
    <3>3. \A r \in DOMAIN built : Apart(built[r].targets, config[k].targets)
      BY <1>1 DEF OwnInv
    <3> QED BY <1>3, <1>5, <1>6, <1>7, <1>10, <3>1, <3>2, <3>3
  <2> QED BY <1>1, <1>2, <1>6, <2>1 DEF OwnInv
<1>12. TargetsOf(next, config) = TargetsOf(arrs, config)
  BY <1>3, <1>5, TargetsSame
<1>13. RoutedAsDocumented'
  <2> DEFINE ts == TargetsOf(arrs, config)
             tsNext == TargetsOf(next, config)
  <2>1. \A k \in DOMAIN config : ts[k] # << >> /\ ~Contains(ts[k], Nil)
    BY <1>1, <1>2 DEF RoutedAsDocumented, OnlyUsableReceivers
  <2>2. ts = tsNext BY <1>12
  <2> HIDE DEF ts, tsNext
  <2>3. \A k \in DOMAIN config : tsNext[k] # << >> /\ ~Contains(tsNext[k], Nil) BY <2>1, <2>2
  <2>4. OnlyUsableReceivers' BY <1>2, <2>3 DEF OnlyUsableReceivers, tsNext
  <2>5. NamedOnceInOrder' /\ BroadcastInIDOrder'
    BY <1>1, <1>2 DEF RoutedAsDocumented, NamedOnceInOrder, BroadcastInIDOrder, FirstNamed
  <2> QED BY <2>4, <2>5 DEF RoutedAsDocumented
<1> QED BY <1>2, <1>8, <1>9, <1>11, <1>12, <1>13 DEF RoutingInv

(***************************************************************************)
(* Routing                                                                 *)
(***************************************************************************)
LEMMA RouteKeeps == RoutingInv /\ Route => RoutingInv'
<1> SUFFICES ASSUME RoutingInv, Route PROVE RoutingInv' OBVIOUS
<1>1. /\ HeapInv /\ PhaseInv /\ OwnInv /\ OnlyUsableReceivers /\ IsFiniteSet(DOMAIN config)
  BY DEF RoutingInv, RoutedAsDocumented, OwnInv
<1>2. UNCHANGED <<arrays, built, config, snapshot, phase>> /\ phase = "ready" BY DEF Route
<1> DEFINE ids == asked'
           res == resolved'
<1>3. PICK n \in Nat : ids \in [1..n -> Ids]
  BY BoundsAssumption DEF Route, SeqOf
<1>4. res \in resolveReceivers(config, ids) BY DEF Route
<1>5. HeapInv' /\ PhaseInv' /\ OwnInv' BY <1>1, <1>2 DEF HeapInv, PhaseInv, OwnInv
<1>6. OnlyUsableReceivers' BY <1>1, <1>2 DEF OnlyUsableReceivers
<1>7. NamedOnceInOrder'
  <2> SUFFICES ASSUME ids # << >>
               PROVE  /\ Range(res) = Range(ids) \intersect DOMAIN config
                      /\ \A i, j \in DOMAIN res :
                           i < j => First(ids, res[i]) < First(ids, res[j])
    BY <1>2 DEF NamedOnceInOrder, FirstNamed, First
  <2>1. res = Named(config, ids) BY <1>4 DEF resolveReceivers
  <2>2. DOMAIN ids = 1..n BY <1>3
  <2> HIDE DEF ids, res
  <2> QED BY <2>1, <2>2, NamedIsRight
<1>8. BroadcastInIDOrder'
  <2> SUFFICES ASSUME ids = << >>
               PROVE  /\ Range(res) = DOMAIN config /\ IsInjective(res)
                      /\ \A i, j \in DOMAIN res : i < j => config[res[i]].id <= config[res[j]].id
    BY <1>2 DEF BroadcastInIDOrder
  <2>1. res \in Broadcasts(config) BY <1>4 DEF resolveReceivers
  <2> HIDE DEF ids, res
  <2> QED BY <1>1, <2>1, BroadcastIsRight
<1> QED BY <1>5, <1>6, <1>7, <1>8 DEF RoutingInv, RoutedAsDocumented

(***************************************************************************)
(* The theorems                                                            *)
(***************************************************************************)
LEMMA BuildingHasNoConfig ==
    ASSUME RoutingInv, phase = "building"
    PROVE  config = NoReceivers
BY DEF RoutingInv, PhaseInv

\* Every step keeps the invariant and what a manager's receivers deliver to.
LEMMA RoutingStep ==
    RoutingInv /\ [Next]_vars =>
        /\ RoutingInv'
        /\ config # NoReceivers => TargetsOf(arrays', config') = TargetsOf(arrays, config)
<1> SUFFICES ASSUME RoutingInv, [Next]_vars
             PROVE  /\ RoutingInv'
                    /\ config # NoReceivers =>
                         TargetsOf(arrays', config') = TargetsOf(arrays, config)
  OBVIOUS
<1>1. CASE NewReceiver
  <2>1. phase = "building" BY <1>1 DEF NewReceiver
  <2> QED BY <1>1, <2>1, NewReceiverKeeps, BuildingHasNoConfig
<1>2. CASE WithTargets
  <2>1. phase = "building" BY <1>2 DEF WithTargets
  <2> QED BY <1>2, <2>1, WithTargetsKeeps, BuildingHasNoConfig
<1>3. CASE ApplicationWrites BY <1>3, ApplicationWritesKeeps
<1>4. CASE SnapshotWritten BY <1>4, SnapshotWrittenKeeps
<1>5. CASE NewManager
  <2>1. phase = "building" BY <1>5 DEF NewManager
  <2> QED BY <1>5, <2>1, NewManagerKeeps, BuildingHasNoConfig
<1>6. CASE Receivers BY <1>6, ReceiversKeeps
<1>7. CASE Route
  <2>1. UNCHANGED <<arrays, config>> BY <1>7 DEF Route
  <2> QED BY <1>7, <2>1, RouteKeeps
<1>8. CASE Rejected \/ UNCHANGED vars
  <2>1. UNCHANGED vars BY <1>8 DEF Rejected
  <2>2. UNCHANGED <<arrays, built, config, snapshot, phase, asked, resolved>>
    BY <2>1 DEF vars
  <2>3. HeapInv' /\ PhaseInv' /\ OwnInv'
    BY <2>2 DEF RoutingInv, HeapInv, PhaseInv, OwnInv
  <2>4. RoutedAsDocumented'
    BY <2>2 DEF RoutingInv, RoutedAsDocumented, OnlyUsableReceivers, NamedOnceInOrder,
                BroadcastInIDOrder, FirstNamed
  <2> QED BY <2>2, <2>3, <2>4 DEF RoutingInv
<1> QED BY <1>1, <1>2, <1>3, <1>4, <1>5, <1>6, <1>7, <1>8 DEF Next

\* send.go:68-116.  For every set of receivers, by whatever sequence of calls they are
\* built, a manager has usable receivers only, and a notification goes to the known
\* ones it names, once each in the order named, or to all in ID order.
THEOREM RoutesAsDocumented == Spec => []RoutedAsDocumented
<1>1. Spec => []RoutingInv BY RoutingInit, RoutingStep, PTL DEF Spec
<1> QED BY <1>1, PTL DEF RoutingInv

\* send.go:51-66, manager.go:182-199.  Nothing an application does to its receivers, to
\* the arrays behind them or to a snapshot changes where a manager delivers.
THEOREM ConfigIsFrozen == Spec => ConfigFrozen
<1>1. Spec => []RoutingInv BY RoutingInit, RoutingStep, PTL DEF Spec
<1> QED BY <1>1, RoutingStep, PTL DEF Spec, ConfigFrozen

-----------------------------------------------------------------------------
(***************************************************************************)
(* Options                                                                 *)
(***************************************************************************)
Policies == {"", "default", "zero", "error", "bad"}
Cfgs == [missingKey : Policies, funcs : {Absent, Own}, useDefaultFuncs : BOOLEAN,
         heap : [Maps \union {Own} -> MapValues]]

\* The functions that the options have gathered.
Gathered(cfg) == IF cfg.funcs = Absent THEN NoFn ELSE cfg.heap[cfg.funcs]

\* A function map is a function from some names.
LEMMA MapValuesAre ==
    ASSUME NEW f
    PROVE  f \in MapValues <=> \E S \in SUBSET Names : f \in [S -> Fns]
BY DEF MapValues

LEMMA NoFnIs == NoFn \in MapValues /\ DOMAIN NoFn = {}
BY DEF MapValues, NoFn

LEMMA CopyIs ==
    ASSUME NEW dst \in MapValues, NEW src \in MapValues
    PROVE  /\ MapsCopy(dst, src) \in MapValues
           /\ DOMAIN MapsCopy(dst, src) = DOMAIN dst \union DOMAIN src
           /\ \A n \in DOMAIN dst \union DOMAIN src :
                MapsCopy(dst, src)[n] = IF n \in DOMAIN src THEN src[n] ELSE dst[n]
<1>1. PICK D \in SUBSET Names : dst \in [D -> Fns] BY MapValuesAre
<1>2. PICK S \in SUBSET Names : src \in [S -> Fns] BY MapValuesAre
<1> DEFINE copy == [n \in D \union S |-> IF n \in S THEN src[n] ELSE dst[n]]
<1>3. MapsCopy(dst, src) = copy BY <1>1, <1>2 DEF MapsCopy
<1>4. copy \in [D \union S -> Fns] /\ D \union S \in SUBSET Names BY <1>1, <1>2
<1>5. copy \in MapValues
  <2> HIDE DEF copy
  <2> QED BY <1>4, MapValuesAre
<1> QED BY <1>1, <1>2, <1>3, <1>5

\* A write to the map ref of a configuration.
Stored(c, ref, v) == [c EXCEPT !.heap[ref] = v]

LEMMA StoredIs ==
    ASSUME NEW c \in Cfgs, NEW ref \in Maps \union {Own}, NEW v \in MapValues
    PROVE  /\ Stored(c, ref, v) \in Cfgs
           /\ Stored(c, ref, v).missingKey = c.missingKey
           /\ Stored(c, ref, v).funcs = c.funcs
           /\ Stored(c, ref, v).useDefaultFuncs = c.useDefaultFuncs
           /\ Stored(c, ref, v).heap[ref] = v
           /\ \A m \in (Maps \union {Own}) \ {ref} : Stored(c, ref, v).heap[m] = c.heap[m]
BY DEF Cfgs, Stored

\* A map of its own is made once, empty.
LEMMA MakeOwnIs ==
    ASSUME NEW c \in Cfgs, NEW d, d = MakeOwn(c)
    PROVE  /\ d \in Cfgs /\ d.missingKey = c.missingKey /\ d.useDefaultFuncs = c.useDefaultFuncs
           /\ d.funcs = Own
           /\ \A m \in Maps : d.heap[m] = c.heap[m]
           /\ d.heap[Own] = Gathered(c)
<1>1. CASE c.funcs # Absent
  BY <1>1, TemplatesAssumption DEF MakeOwn, Gathered, Cfgs
<1>2. CASE c.funcs = Absent
  <2> DEFINE e == [c EXCEPT !.funcs = Own]
  <2>1. d = Stored(e, Own, NoFn)
    <3>1. d = [c EXCEPT !.funcs = Own, !.heap[Own] = NoFn]
      BY <1>2 DEF MakeOwn
    <3> QED BY <3>1, Zenon DEF Stored
  <2>2. /\ e \in Cfgs /\ e.missingKey = c.missingKey /\ e.heap = c.heap
        /\ e.useDefaultFuncs = c.useDefaultFuncs /\ e.funcs = Own
    BY DEF Cfgs
  <2> HIDE DEF e
  <2>3. /\ d \in Cfgs /\ d.missingKey = e.missingKey /\ d.funcs = e.funcs
        /\ d.useDefaultFuncs = e.useDefaultFuncs
        /\ d.heap[Own] = NoFn
        /\ \A m \in (Maps \union {Own}) \ {Own} : d.heap[m] = e.heap[m]
    BY <2>1, <2>2, NoFnIs, StoredIs
  <2>4. \A m \in Maps : d.heap[m] = e.heap[m] BY <2>3, TemplatesAssumption
  <2> QED BY <1>2, <2>2, <2>3, <2>4 DEF Gathered
<1> QED BY <1>1, <1>2

\* Functions are added to those gathered, in a map of its own.
Added(c, src) == [MakeOwn(c) EXCEPT !.heap[MakeOwn(c).funcs] = MapsCopy(@, src)]

LEMMA FunctionsAdded ==
    ASSUME NEW c \in Cfgs, NEW src \in MapValues
    PROVE  /\ Added(c, src) \in Cfgs
           /\ Added(c, src).missingKey = c.missingKey
           /\ Added(c, src).useDefaultFuncs = c.useDefaultFuncs
           /\ \A m \in Maps : Added(c, src).heap[m] = c.heap[m]
           /\ Gathered(Added(c, src)) \in MapValues
           /\ DOMAIN Gathered(Added(c, src)) = DOMAIN Gathered(c) \union DOMAIN src
           /\ \A n \in DOMAIN Gathered(c) \union DOMAIN src :
                Gathered(Added(c, src))[n] = IF n \in DOMAIN src THEN src[n] ELSE Gathered(c)[n]
<1> DEFINE d == Added(c, src)
           o == MakeOwn(c)
           v == MapsCopy(o.heap[Own], src)
<1>1. /\ o \in Cfgs /\ o.missingKey = c.missingKey /\ o.useDefaultFuncs = c.useDefaultFuncs
      /\ o.funcs = Own
      /\ \A m \in Maps : o.heap[m] = c.heap[m]
      /\ o.heap[Own] = Gathered(c)
  <2> HIDE DEF o
  <2> QED BY MakeOwnIs DEF o
<1>2. d = [o EXCEPT !.heap[o.funcs] = MapsCopy(o.heap[o.funcs], src)]
  BY Zenon DEF Added
<1> HIDE DEF o, d
<1>3. o.heap[Own] \in MapValues BY <1>1 DEF Cfgs
<1>4. v \in MapValues /\ d = Stored(o, Own, v)
  BY <1>1, <1>2, <1>3, CopyIs DEF Stored
<1> HIDE DEF v
<1>5. /\ d \in Cfgs /\ d.missingKey = o.missingKey /\ d.funcs = o.funcs
      /\ d.useDefaultFuncs = o.useDefaultFuncs
      /\ d.heap[Own] = v
      /\ \A m \in (Maps \union {Own}) \ {Own} : d.heap[m] = o.heap[m]
  <2>1. /\ Stored(o, Own, v) \in Cfgs
        /\ Stored(o, Own, v).missingKey = o.missingKey
        /\ Stored(o, Own, v).funcs = o.funcs
        /\ Stored(o, Own, v).useDefaultFuncs = o.useDefaultFuncs
        /\ Stored(o, Own, v).heap[Own] = v
        /\ \A m \in (Maps \union {Own}) \ {Own} : Stored(o, Own, v).heap[m] = o.heap[m]
    BY <1>1, <1>4, StoredIs
  <2> QED BY <1>4, <2>1, Zenon
<1>6. Gathered(d) = v BY <1>1, <1>5, TemplatesAssumption DEF Gathered
<1>7. \A m \in Maps : d.heap[m] = c.heap[m] BY <1>1, <1>5, TemplatesAssumption
<1>8. /\ v \in MapValues /\ DOMAIN v = DOMAIN Gathered(c) \union DOMAIN src
      /\ \A n \in DOMAIN Gathered(c) \union DOMAIN src :
           v[n] = IF n \in DOMAIN src THEN src[n] ELSE Gathered(c)[n]
  <2> DEFINE g == o.heap[Own]
  <2>1. g \in MapValues /\ g = Gathered(c) /\ v = MapsCopy(g, src) BY <1>1, <1>3 DEF v
  <2> HIDE DEF g
  <2>2. /\ MapsCopy(g, src) \in MapValues
        /\ DOMAIN MapsCopy(g, src) = DOMAIN g \union DOMAIN src
        /\ \A n \in DOMAIN g \union DOMAIN src :
             MapsCopy(g, src)[n] = IF n \in DOMAIN src THEN src[n] ELSE g[n]
    BY <2>1, CopyIs, Zenon
  <2> QED BY <2>1, <2>2
<1> QED BY <1>1, <1>5, <1>6, <1>7, <1>8 DEF d

LEMMA OptionKinds ==
    ASSUME NEW opt \in Options
    PROVE  /\ opt.kind \in {"nil", "defaultFuncs", "missingKey", "func", "funcs"}
           /\ opt.kind = "missingKey" => opt.policy \in Policies
           /\ opt.kind = "func" => opt.name \in Names /\ opt.fn \in Fns
           /\ opt.kind = "funcs" => opt.map \in Maps
BY TemplatesAssumption DEF Policies

\* An option says something of a function.
SaysOf(opt, maps, n) ==
    \/ opt.kind = "func" /\ opt.name = n
    \/ opt.kind = "funcs" /\ n \in DOMAIN maps[opt.map]

\* What one option changes of a configuration.
Changed(c, d, opt, maps) ==
    /\ d \in Cfgs
    /\ \A m \in Maps : d.heap[m] = c.heap[m]
    /\ d.missingKey = IF opt.kind = "missingKey" THEN opt.policy ELSE c.missingKey
    /\ d.useDefaultFuncs <=> (c.useDefaultFuncs \/ opt.kind = "defaultFuncs")
    /\ \A n : IF SaysOf(opt, maps, n)
              THEN n \in DOMAIN Gathered(d) /\ Gathered(d)[n] = Said(opt, maps, n)
              ELSE /\ n \in DOMAIN Gathered(d) <=> n \in DOMAIN Gathered(c)
                   /\ n \in DOMAIN Gathered(c) => Gathered(d)[n] = Gathered(c)[n]

LEMMA OptionApplied ==
    ASSUME NEW c \in Cfgs, NEW opt \in Options, NEW maps, \A m \in Maps : maps[m] = c.heap[m]
    PROVE  Changed(c, apply(c, opt), opt, maps)
<1> DEFINE d == apply(c, opt)
<1>1. CASE opt.kind = "nil"
  <2>1. d = c BY <1>1 DEF apply
  <2>2. \A n : ~SaysOf(opt, maps, n) BY <1>1 DEF SaysOf
  <2> HIDE DEF d
  <2> QED BY <1>1, <2>1, <2>2 DEF Changed, d
<1>2. CASE opt.kind = "defaultFuncs"
  <2>1. d = [c EXCEPT !.useDefaultFuncs = TRUE] BY <1>2 DEF apply
  <2>2. \A n : ~SaysOf(opt, maps, n) BY <1>2 DEF SaysOf
  <2> HIDE DEF d
  <2>3. /\ d \in Cfgs /\ d.heap = c.heap /\ d.missingKey = c.missingKey
        /\ d.useDefaultFuncs = TRUE /\ d.funcs = c.funcs
    BY <2>1 DEF Cfgs
  <2>4. Gathered(d) = Gathered(c) BY <2>3 DEF Gathered
  <2> QED BY <1>2, <2>2, <2>3, <2>4 DEF Changed, d
<1>3. CASE opt.kind = "missingKey"
  <2>1. d = [c EXCEPT !.missingKey = opt.policy] BY <1>3 DEF apply
  <2>2. \A n : ~SaysOf(opt, maps, n) BY <1>3 DEF SaysOf
  <2>3. opt.policy \in Policies BY <1>3, OptionKinds
  <2> HIDE DEF d
  <2>4. /\ d \in Cfgs /\ d.heap = c.heap /\ d.missingKey = opt.policy
        /\ d.useDefaultFuncs = c.useDefaultFuncs /\ d.funcs = c.funcs
    BY <2>1, <2>3 DEF Cfgs
  <2>5. Gathered(d) = Gathered(c) BY <2>4 DEF Gathered
  <2> QED BY <1>3, <2>2, <2>4, <2>5 DEF Changed, d
<1>4. CASE opt.kind = "func"
  <2> DEFINE src == [n \in {opt.name} |-> opt.fn]
  <2>1. d = Added(c, src) BY <1>4 DEF apply, Added
  <2>2. src \in MapValues /\ DOMAIN src = {opt.name} /\ src[opt.name] = opt.fn
    <3>1. {opt.name} \in SUBSET Names /\ opt.fn \in Fns BY <1>4, OptionKinds
    <3>2. src \in [{opt.name} -> Fns] BY <3>1
    <3> HIDE DEF src
    <3>3. src \in MapValues BY <3>1, <3>2, MapValuesAre
    <3> QED BY <3>3 DEF src
  <2>3. \A n : /\ SaysOf(opt, maps, n) <=> n = opt.name
               /\ Said(opt, maps, n) = opt.fn
    BY <1>4 DEF SaysOf, Said
  <2> HIDE DEF d, src
  <2>4. /\ d \in Cfgs /\ d.missingKey = c.missingKey
        /\ d.useDefaultFuncs = c.useDefaultFuncs
        /\ \A m \in Maps : d.heap[m] = c.heap[m]
        /\ DOMAIN Gathered(d) = DOMAIN Gathered(c) \union DOMAIN src
        /\ \A n \in DOMAIN Gathered(c) \union DOMAIN src :
             Gathered(d)[n] = IF n \in DOMAIN src THEN src[n] ELSE Gathered(c)[n]
    BY <2>1, <2>2, FunctionsAdded
  <2> QED BY <1>4, <2>2, <2>3, <2>4 DEF Changed, d
<1>5. CASE opt.kind = "funcs"
  <2> DEFINE src == c.heap[opt.map]
  <2>1. d = CopyFuncs(c, opt.map) BY <1>5 DEF apply
  <2>2. src \in MapValues /\ src = maps[opt.map]
    BY <1>5, OptionKinds DEF Cfgs
  <2>3. \A n : /\ SaysOf(opt, maps, n) <=> n \in DOMAIN src
               /\ Said(opt, maps, n) = src[n]
    BY <1>5, <2>2 DEF SaysOf, Said
  <2> HIDE DEF d
  <2>4. CASE DOMAIN src = {}
    <3>1. d = c BY <2>1, <2>4 DEF CopyFuncs
    <3> QED BY <1>5, <2>3, <2>4, <3>1 DEF Changed, d
  <2>5. CASE DOMAIN src # {}
    <3>1. d = Added(c, src) BY <2>1, <2>5 DEF CopyFuncs, Added
    <3>3. src \in MapValues BY <2>2
    <3> HIDE DEF src
    <3>2. /\ d \in Cfgs /\ d.missingKey = c.missingKey
          /\ d.useDefaultFuncs = c.useDefaultFuncs
          /\ \A m \in Maps : d.heap[m] = c.heap[m]
          /\ DOMAIN Gathered(d) = DOMAIN Gathered(c) \union DOMAIN src
          /\ \A n \in DOMAIN Gathered(c) \union DOMAIN src :
               Gathered(d)[n] = IF n \in DOMAIN src THEN src[n] ELSE Gathered(c)[n]
      BY <3>1, <3>3, FunctionsAdded
    <3> QED BY <1>5, <2>3, <3>2 DEF Changed, d
  <2> QED BY <2>4, <2>5
<1> QED BY <1>1, <1>2, <1>3, <1>4, <1>5, OptionKinds

(***************************************************************************)
(* A list of options                                                       *)
(***************************************************************************)
\* The configurations after the first k options.
Applied(cfgs, start, opts) ==
    /\ cfgs[0] = start
    /\ \A k \in DOMAIN opts : cfgs[k] = apply(cfgs[k - 1], opts[k])

LEMMA OptionsAreALoop ==
    ASSUME NEW start \in Cfgs, NEW k \in Nat, NEW opts \in [1..k -> Options]
    PROVE  \E cfgs : Applied(cfgs, start, opts) /\ FoldLeft(apply, start, opts) = cfgs[k]
<1> DEFINE step == [i \in 1..k |-> [c \in Cfgs |-> apply(c, opts[i])]]
           Def(it) == it = [s \in SUBSET DOMAIN opts |->
                              IF s = {} THEN start ELSE apply(it[s \ {Max(s)}], opts[Max(s)])]
           fold == CHOOSE it : Def(it)
<1>1. FoldLeft(apply, start, opts) = fold[DOMAIN opts]
  BY Zenon DEF FoldLeft, MapThenFoldSet
<1>2. Def(fold)
  <2>1. step \in [1..k -> [Cfgs -> Cfgs]]
    <3>1. ASSUME NEW i \in 1..k, NEW c \in Cfgs PROVE apply(c, opts[i]) \in Cfgs
      <4>1. Changed(c, apply(c, opts[i]), opts[i], c.heap)
        <5>1. opts[i] \in Options /\ \A m \in Maps : c.heap[m] = c.heap[m] OBVIOUS
        <5> QED BY <5>1, OptionApplied
      <4> QED BY <4>1 DEF Changed
    <3> QED BY <3>1
  <2>2. PICK it \in [SUBSET (1..k) -> Cfgs] : Folds(it, k, start, step)
    <3> HIDE DEF step
    <3> QED BY <2>1, FoldExists
  <2>3. ASSUME NEW s \in SUBSET (1..k)
        PROVE  it[s] = IF s = {} THEN start ELSE apply(it[s \ {Max(s)}], opts[Max(s)])
    <3>1. CASE s = {} BY <2>2, <3>1 DEF Folds
    <3>2. CASE s # {}
      <4>1. Max(s) \in 1..k BY <3>2, MaxOfPlaces
      <4>2. it[s \ {Max(s)}] \in Cfgs OBVIOUS
      <4>3. it[s] = step[Max(s)][it[s \ {Max(s)}]]
        <5> HIDE DEF step
        <5> QED BY <2>2, <3>2 DEF Folds
      <4> QED BY <3>2, <4>1, <4>2, <4>3
    <3> QED BY <3>1, <3>2
  <2>4. Def(it) BY <2>3
  <2> HIDE DEF Def
  <2> QED BY <2>4
<1> HIDE DEF fold
<1> DEFINE cfgs == [i \in 0..k |-> fold[1..i]]
<1>3. cfgs[0] = start BY <1>2, FirstPlaces
<1>4. ASSUME NEW i \in 1..k PROVE cfgs[i] = apply(cfgs[i - 1], opts[i])
  <2>1. fold[1..i] = apply(fold[1..(i - 1)], opts[i])
    <3>1. /\ 1..i \in SUBSET DOMAIN opts /\ 1..i # {}
          /\ Max(1..i) = i /\ (1..i) \ {i} = 1..(i - 1)
      BY FirstPlaces
    <3> QED BY <1>2, <3>1
  <2>2. cfgs[i] = fold[1..i] /\ cfgs[i - 1] = fold[1..(i - 1)] OBVIOUS
  <2> HIDE DEF cfgs
  <2> QED BY <2>1, <2>2
<1>5. cfgs[k] = fold[DOMAIN opts] OBVIOUS
<1> HIDE DEF cfgs
<1>6. Applied(cfgs, start, opts) BY <1>3, <1>4 DEF Applied
<1> QED BY <1>1, <1>5, <1>6

\* What a configuration is after the first k options, in terms of the list.
Reflects(c, opts, maps, k) ==
    /\ c \in Cfgs
    /\ \A m \in Maps : c.heap[m] = maps[m]
    /\ \A i \in 1..k : opts[i].kind = "missingKey"
                         /\ (\A j \in (i + 1)..k : opts[j].kind # "missingKey")
                       => c.missingKey = opts[i].policy
    /\ (\A i \in 1..k : opts[i].kind # "missingKey") => c.missingKey = "error"
    /\ c.useDefaultFuncs <=> \E i \in 1..k : opts[i].kind = "defaultFuncs"
    /\ \A n : /\ n \in DOMAIN Gathered(c) <=> \E i \in 1..k : SaysOf(opts[i], maps, n)
              /\ \A i \in 1..k : SaysOf(opts[i], maps, n)
                                   /\ (\A j \in (i + 1)..k : ~SaysOf(opts[j], maps, n))
                                 => Gathered(c)[n] = Said(opts[i], maps, n)

LEMMA OneMoreOption ==
    ASSUME NEW len \in Nat, NEW opts \in [1..len -> Options], NEW maps,
           NEW k \in 0..(len - 1), NEW c, Reflects(c, opts, maps, k)
    PROVE  Reflects(apply(c, opts[k + 1]), opts, maps, k + 1)
<1> DEFINE K == k + 1
           opt == opts[K]
           d == apply(c, opt)
<1>1. K \in 1..len /\ k \in Nat /\ opt \in Options
      /\ \A i \in 1..K : i \in 1..k \/ i = K
  OBVIOUS
<1>2. K \in 1..K /\ (\A i \in 1..k : i \in 1..K) /\ (\A j \in (K + 1)..K : FALSE)
      /\ \A i \in 1..k : /\ K \in (i + 1)..K
                         /\ \A j \in (i + 1)..K : j \in (i + 1)..k \/ j = K
                         /\ \A j \in (i + 1)..k : j \in (i + 1)..K
  OBVIOUS
<1>3. c \in Cfgs /\ \A m \in Maps : c.heap[m] = maps[m] BY DEF Reflects
<1>4. Changed(c, d, opt, maps)
  <2> HIDE DEF opt
  <2> QED BY <1>1, <1>3, OptionApplied
<1> HIDE DEF d
<1>5. \A i \in 1..K : opts[i].kind = "missingKey"
                        /\ (\A j \in (i + 1)..K : opts[j].kind # "missingKey")
                      => d.missingKey = opts[i].policy
  <2> SUFFICES ASSUME NEW i \in 1..K, opts[i].kind = "missingKey",
                      \A j \in (i + 1)..K : opts[j].kind # "missingKey"
               PROVE  d.missingKey = opts[i].policy
    OBVIOUS
  <2>1. CASE i = K BY <1>4, <2>1 DEF Changed
  <2>2. CASE i \in 1..k
    <3> HIDE DEF K
    <3>1. opts[K].kind # "missingKey" BY <1>2, <2>2
    <3>2. \A j \in (i + 1)..k : opts[j].kind # "missingKey" BY <1>2, <2>2
    <3>3. c.missingKey = opts[i].policy BY <2>2, <3>2 DEF Reflects
    <3> QED BY <1>4, <3>1, <3>3 DEF Changed
  <2> QED BY <1>1, <2>1, <2>2
<1> HIDE DEF K
<1>6. (\A i \in 1..K : opts[i].kind # "missingKey") => d.missingKey = "error"
  BY <1>2, <1>4 DEF Reflects, Changed
<1>7. d.useDefaultFuncs <=> \E i \in 1..K : opts[i].kind = "defaultFuncs"
  <2>1. (\E i \in 1..K : opts[i].kind = "defaultFuncs")
          <=> ((\E i \in 1..k : opts[i].kind = "defaultFuncs") \/ opts[K].kind = "defaultFuncs")
    BY <1>1, <1>2
  <2> QED BY <1>4, <2>1 DEF Reflects, Changed
<1>8. ASSUME NEW n
      PROVE  /\ n \in DOMAIN Gathered(d) <=> \E i \in 1..K : SaysOf(opts[i], maps, n)
             /\ \A i \in 1..K : SaysOf(opts[i], maps, n)
                                  /\ (\A j \in (i + 1)..K : ~SaysOf(opts[j], maps, n))
                                => Gathered(d)[n] = Said(opts[i], maps, n)
  <2>1. (\E i \in 1..K : SaysOf(opts[i], maps, n))
          <=> ((\E i \in 1..k : SaysOf(opts[i], maps, n)) \/ SaysOf(opts[K], maps, n))
    BY <1>1, <1>2
  <2>2. IF SaysOf(opt, maps, n)
        THEN n \in DOMAIN Gathered(d) /\ Gathered(d)[n] = Said(opt, maps, n)
        ELSE /\ n \in DOMAIN Gathered(d) <=> n \in DOMAIN Gathered(c)
             /\ n \in DOMAIN Gathered(c) => Gathered(d)[n] = Gathered(c)[n]
    BY <1>4 DEF Changed
  <2>3. /\ n \in DOMAIN Gathered(c) <=> \E i \in 1..k : SaysOf(opts[i], maps, n)
        /\ \A i \in 1..k : SaysOf(opts[i], maps, n)
                             /\ (\A j \in (i + 1)..k : ~SaysOf(opts[j], maps, n))
                           => Gathered(c)[n] = Said(opts[i], maps, n)
    BY DEF Reflects
  <2>4. n \in DOMAIN Gathered(d) <=> \E i \in 1..K : SaysOf(opts[i], maps, n)
    BY <2>1, <2>2, <2>3
  <2>5. ASSUME NEW i \in 1..K, SaysOf(opts[i], maps, n),
               \A j \in (i + 1)..K : ~SaysOf(opts[j], maps, n)
        PROVE  Gathered(d)[n] = Said(opts[i], maps, n)
    <3>1. CASE i = K BY <2>2, <2>5, <3>1
    <3>2. CASE i \in 1..k
      <4>1. ~SaysOf(opt, maps, n) BY <1>2, <2>5, <3>2
      <4>2. \A j \in (i + 1)..k : ~SaysOf(opts[j], maps, n) BY <1>2, <2>5, <3>2
      <4>3. Gathered(c)[n] = Said(opts[i], maps, n) BY <2>3, <2>5, <3>2, <4>2
      <4> QED BY <2>2, <2>3, <2>5, <3>2, <4>1, <4>3
    <3> QED BY <1>1, <3>1, <3>2
  <2> QED BY <2>4, <2>5
<1>9. d \in Cfgs /\ \A m \in Maps : d.heap[m] = maps[m]
  BY <1>3, <1>4 DEF Changed
<1>10. Reflects(d, opts, maps, K)
  BY <1>5, <1>6, <1>7, <1>8, <1>9 DEF Reflects
<1> QED BY <1>10 DEF d, K

\* What a list of options amounts to.
LEMMA OptionsReflected ==
    ASSUME NEW k \in Nat, NEW opts \in [1..k -> Options],
           heap \in [Maps \union {Own} -> MapValues]
    PROVE  Reflects(FoldLeft(apply, NoOptions, opts), opts, heap, k)
<1>1. NoOptions \in Cfgs BY DEF NoOptions, Cfgs, Policies
<1>2. PICK cfgs : Applied(cfgs, NoOptions, opts) /\ FoldLeft(apply, NoOptions, opts) = cfgs[k]
  BY <1>1, OptionsAreALoop
<1> DEFINE T == {i \in 0..k : Reflects(cfgs[i], opts, heap, i)}
<1>3. 0 \in T
  <2>1. Gathered(NoOptions) = NoFn BY DEF Gathered, NoOptions
  <2>2. cfgs[0] = NoOptions BY <1>2 DEF Applied
  <2>3. /\ NoOptions.heap = heap /\ NoOptions.missingKey = "error"
        /\ NoOptions.useDefaultFuncs = FALSE
    BY DEF NoOptions
  <2>4. Reflects(cfgs[0], opts, heap, 0)
    BY <1>1, <2>1, <2>2, <2>3, NoFnIs DEF Reflects
  <2> QED BY <2>4
<1>4. ASSUME NEW i \in 0..(k - 1), i \in T PROVE i + 1 \in T
  <2>1. i + 1 \in 1..k /\ (i + 1) - 1 = i OBVIOUS
  <2>2. cfgs[i + 1] = apply(cfgs[i], opts[i + 1])
    BY <1>2, <2>1 DEF Applied
  <2>3. Reflects(cfgs[i], opts, heap, i) BY <1>4
  <2>4. Reflects(apply(cfgs[i], opts[i + 1]), opts, heap, i + 1) BY <2>3, OneMoreOption
  <2> QED BY <2>1, <2>2, <2>4
<1> HIDE DEF T
<1>5. \A i \in 0..k : i \in T
  <2>1. \A i \in 0..(k - 1) : i \in T => i + 1 \in T BY <1>4
  <2> QED BY <1>3, <2>1, UpTo, Zenon
<1>6. Reflects(cfgs[k], opts, heap, k) BY <1>5 DEF T
<1> QED BY <1>2, <1>6

(***************************************************************************)
(* Parsing                                                                 *)
(***************************************************************************)
HeapTyped == heap \in [Maps \union {Own} -> MapValues]

\* What became of the last template is as documented, and the maps are the
\* application's.
LEMMA ParseIsRight ==
    ASSUME HeapTyped, NEW opts \in Lists, NEW uses \in SUBSET Names, Parse(opts, uses)
    PROVE  HeapTyped' /\ OptionsAsDocumented' /\ \A m \in Maps : heap'[m] = heap[m]
<1>1. PICK k \in Nat : opts \in [1..k -> Options]
  <2>1. MaxOptions \in Nat BY TemplatesAssumption
  <2>2. PICK k \in 0..MaxOptions : opts \in [1..k -> Options] BY DEF Lists
  <2> QED BY <2>1, <2>2
<1> DEFINE c == FoldLeft(apply, NoOptions, opts)
           cfg == parseOptions(opts)
           funcs == templateFuncs(cfg)
           maps == heap
           t == tmpl'
<1>2. Reflects(c, opts, maps, k) BY <1>1, OptionsReflected DEF HeapTyped
<1>3. /\ heap' = [cfg.heap EXCEPT ![Own] = NoFn]
      /\ t = [opts |-> opts, given |-> maps, uses |-> uses,
              parsed |-> IF validateMissingKey(cfg.missingKey) /\ uses \subseteq DOMAIN funcs
                         THEN [missingKey |-> cfg.missingKey, calls |-> [n \in uses |-> funcs[n]]]
                         ELSE Absent]
  BY DEF Parse
<1>4. cfg = [c EXCEPT !.missingKey = IF @ = "" THEN "error" ELSE @]
  BY Zenon DEF parseOptions
<1> HIDE DEF c, cfg, maps
<1>5. /\ cfg.heap = c.heap /\ cfg.funcs = c.funcs /\ cfg.useDefaultFuncs = c.useDefaultFuncs
      /\ cfg.missingKey = IF c.missingKey = "" THEN "error" ELSE c.missingKey
      /\ c.heap \in [Maps \union {Own} -> MapValues] /\ c.missingKey \in Policies
  BY <1>2, <1>4 DEF Reflects, Cfgs
<1>6. funcs = MapsCopy(IF c.useDefaultFuncs THEN DefaultFuncs ELSE NoFn, Gathered(c))
  BY <1>5 DEF templateFuncs, Gathered
<1> HIDE DEF funcs
<1>7. HeapTyped' /\ \A m \in Maps : heap'[m] = heap[m]
  <2>1. HeapTyped' BY <1>3, <1>5, NoFnIs DEF HeapTyped
  <2>2. \A m \in Maps : heap'[m] = c.heap[m] BY <1>3, <1>5, TemplatesAssumption
  <2> QED BY <1>2, <2>1, <2>2 DEF Reflects, maps
<1> HIDE DEF t
<1>8. t.opts = opts /\ t.given = maps /\ t.uses = uses BY <1>3
<1>9. ASSUME t.parsed # Absent
      PROVE  /\ validateMissingKey(cfg.missingKey) /\ uses \subseteq DOMAIN funcs
             /\ t.parsed.missingKey = cfg.missingKey
             /\ \A n \in uses : t.parsed.calls[n] = funcs[n]
  BY <1>3, <1>9
<1>10. LastFunctionWins'
  <2> SUFFICES ASSUME t.parsed # Absent, NEW n \in uses
               PROVE  IF Says(opts, maps, n) = {}
                      THEN Enabled(opts) /\ t.parsed.calls[n] = "helper"
                      ELSE t.parsed.calls[n] = Said(opts[Max(Says(opts, maps, n))], maps, n)
    BY <1>8 DEF LastFunctionWins, t
  <2> DEFINE places == Says(opts, maps, n)
             helpers == IF c.useDefaultFuncs THEN DefaultFuncs ELSE NoFn
  <2>1. places = {i \in 1..k : SaysOf(opts[i], maps, n)}
    BY <1>1 DEF Says, SaysOf
  <2>2. n \in DOMAIN funcs /\ t.parsed.calls[n] = funcs[n] BY <1>9
  <2>3. /\ DOMAIN funcs = DOMAIN helpers \union DOMAIN Gathered(c)
        /\ funcs[n] = IF n \in DOMAIN Gathered(c) THEN Gathered(c)[n] ELSE helpers[n]
    <3> HIDE DEF helpers
    <3> QED BY <1>6, <2>2 DEF MapsCopy, helpers
  <2>4. /\ n \in DOMAIN Gathered(c) <=> \E i \in 1..k : SaysOf(opts[i], maps, n)
        /\ \A i \in 1..k : SaysOf(opts[i], maps, n)
                             /\ (\A j \in (i + 1)..k : ~SaysOf(opts[j], maps, n))
                           => Gathered(c)[n] = Said(opts[i], maps, n)
    BY <1>2 DEF Reflects
  <2> HIDE DEF places, helpers
  <2>5. CASE places = {}
    <3>1. n \notin DOMAIN Gathered(c) BY <2>1, <2>4, <2>5
    <3>2. n \in DOMAIN helpers BY <2>2, <2>3, <3>1
    <3>3. c.useDefaultFuncs /\ helpers[n] = "helper"
      BY <3>2, NoFnIs DEF helpers, DefaultFuncs
    <3>4. Enabled(opts) BY <1>1, <1>2, <3>3 DEF Enabled, Reflects
    <3> QED BY <2>2, <2>3, <2>5, <3>1, <3>3, <3>4 DEF places
  <2>6. CASE places # {}
    <3> DEFINE last == Max(places)
    <3>1. last \in places /\ \A x \in places : last >= x
      <4> places \in SUBSET (1..k) BY <2>1
      <4> QED BY <2>6, MaxOfPlaces
    <3> HIDE DEF last
    <3>2. last \in 1..k /\ SaysOf(opts[last], maps, n) BY <2>1, <3>1
    <3>3. \A j \in (last + 1)..k : ~SaysOf(opts[j], maps, n)
      <4> SUFFICES ASSUME NEW j \in (last + 1)..k, SaysOf(opts[j], maps, n) PROVE FALSE
        OBVIOUS
      <4>1. j \in 1..k /\ j > last BY <3>2
      <4>2. j \in places BY <2>1, <4>1
      <4> QED BY <3>1, <3>2, <4>1, <4>2
    <3>4. n \in DOMAIN Gathered(c) /\ Gathered(c)[n] = Said(opts[last], maps, n)
      BY <2>4, <3>2, <3>3
    <3> QED BY <2>2, <2>3, <2>6, <3>4 DEF places, last
  <2> QED BY <2>5, <2>6 DEF places
<1>11. StrictByDefault'
  <2> DEFINE asks == {i \in DOMAIN opts : opts[i].kind = "missingKey"}
             last == IF asks = {} THEN "" ELSE opts[Max(asks)].policy
  <2> SUFFICES ASSUME t.parsed # Absent
               PROVE  /\ last # "bad"
                      /\ t.parsed.missingKey = IF last = "" THEN "error" ELSE last
    BY <1>8 DEF StrictByDefault, t
  <2>1. /\ cfg.missingKey \in {"default", "zero", "error"}
        /\ t.parsed.missingKey = cfg.missingKey
    BY <1>9 DEF validateMissingKey
  <2>2. asks \in SUBSET (1..k) /\ \A i \in 1..k : i \in asks <=> opts[i].kind = "missingKey"
    BY <1>1
  <2>3. CASE asks # {}
    <3> DEFINE m == Max(asks)
    <3>1. m \in asks /\ \A x \in asks : m >= x
      <4> HIDE DEF asks
      <4> QED BY <2>2, <2>3, MaxOfPlaces
    <3>2. last = opts[m].policy BY <2>3
    <3> HIDE DEF m, asks, last
    <3>3. m \in 1..k /\ opts[m].kind = "missingKey" BY <2>2, <3>1
    <3>4. \A j \in (m + 1)..k : opts[j].kind # "missingKey"
      <4> SUFFICES ASSUME NEW j \in (m + 1)..k, opts[j].kind = "missingKey" PROVE FALSE
        OBVIOUS
      <4>1. j \in 1..k /\ j > m BY <3>3
      <4>2. j \in asks BY <2>2, <4>1
      <4> QED BY <3>1, <3>3, <4>1, <4>2
    <3>5. c.missingKey = last BY <1>2, <3>2, <3>3, <3>4 DEF Reflects
    <3> QED BY <1>5, <2>1, <3>5
  <2>4. CASE asks = {}
    <3>1. \A i \in 1..k : opts[i].kind # "missingKey" BY <2>2, <2>4
    <3>2. c.missingKey = "error" BY <1>2, <3>1 DEF Reflects
    <3>3. last = "" BY <2>4
    <3> HIDE DEF last
    <3> QED BY <1>5, <2>1, <3>2, <3>3
  <2> QED BY <2>3, <2>4
<1> QED BY <1>7, <1>10, <1>11 DEF OptionsAsDocumented

(***************************************************************************)
(* The theorems                                                            *)
(***************************************************************************)
TemplatesInv == HeapTyped /\ OptionsAsDocumented

LEMMA ParseInitOK == ParseInit => TemplatesInv
BY DEF ParseInit, TemplatesInv, HeapTyped, OptionsAsDocumented, LastFunctionWins, StrictByDefault

LEMMA ParseStep ==
    TemplatesInv /\ [ParseNext]_parseVars =>
        TemplatesInv' /\ (tmpl' # Absent => \A m \in Maps : heap'[m] = heap[m])
<1> SUFFICES ASSUME TemplatesInv, [ParseNext]_parseVars
             PROVE  TemplatesInv' /\ (tmpl' # Absent => \A m \in Maps : heap'[m] = heap[m])
  OBVIOUS
<1>1. CASE ChangeMap
  <2>1. tmpl' = Absent BY <1>1 DEF ChangeMap
  <2>2. OptionsAsDocumented'
    BY <2>1 DEF OptionsAsDocumented, LastFunctionWins, StrictByDefault
  <2>3. HeapTyped' BY <1>1 DEF ChangeMap, TemplatesInv, HeapTyped
  <2> QED BY <2>1, <2>2, <2>3 DEF TemplatesInv
<1>2. CASE GoOn
  <2>1. tmpl' = Absent BY <1>2 DEF GoOn
  <2>2. OptionsAsDocumented'
    BY <2>1 DEF OptionsAsDocumented, LastFunctionWins, StrictByDefault
  <2>3. HeapTyped' BY <1>2 DEF GoOn, TemplatesInv, HeapTyped
  <2> QED BY <2>1, <2>2, <2>3 DEF TemplatesInv
<1>3. ASSUME NEW opts \in Lists, NEW uses \in SUBSET Names, Parse(opts, uses)
      PROVE  TemplatesInv' /\ \A m \in Maps : heap'[m] = heap[m]
  BY <1>3, ParseIsRight DEF TemplatesInv
<1>4. CASE UNCHANGED parseVars
  <2>1. heap' = heap /\ tmpl' = tmpl BY <1>4 DEF parseVars
  <2>2. OptionsAsDocumented'
    BY <2>1 DEF TemplatesInv, OptionsAsDocumented, LastFunctionWins, StrictByDefault
  <2> QED BY <2>1, <2>2 DEF TemplatesInv, HeapTyped
<1> QED BY <1>1, <1>2, <1>3, <1>4 DEF ParseNext

\* templates.go:24-75, 354-362.  For every list of options: a template calls the last
\* function given under a name, or a helper that was asked for, and missing keys fail
\* unless the last policy, a valid one, says otherwise.
THEOREM OptionsDecide == ParseSpec => []OptionsAsDocumented
<1>1. ParseSpec => []TemplatesInv BY ParseInitOK, ParseStep, PTL DEF ParseSpec
<1> QED BY <1>1, PTL DEF TemplatesInv

\* templates.go:63-73.  However options are combined, parsing writes to no map of the
\* application.
THEOREM MapsStayUntouched == ParseSpec => MapsUntouched
<1>1. ParseSpec => []TemplatesInv BY ParseInitOK, ParseStep, PTL DEF ParseSpec
<1> QED BY <1>1, ParseStep, PTL DEF ParseSpec, MapsUntouched
=============================================================================
