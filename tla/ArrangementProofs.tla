-------------------------- MODULE ArrangementProofs --------------------------
(***************************************************************************)
(* Lists that are sorted and filtered.  An order puts the elements of a    *)
(* finite set in places: the place of an element is the number of those    *)
(* before it, places are different, and so every place is taken.           *)
(* Then the two algorithms on graphs: the topological sort and the search. *)
(***************************************************************************)
EXTENDS TopologicalOrder, GraphSearch, FunctionTheorems, FiniteSetTheorems, TLAPS

IsOrder(K, R) ==
  /\ \A k \in K : <<k, k>> \notin R
  /\ \A j, k \in K : j # k => <<j, k>> \in R \/ <<k, j>> \in R
  /\ \A i, j, k \in K : <<i, j>> \in R /\ <<j, k>> \in R => <<i, k>> \in R

\* Every element of K has one place, and places go with the order.
LEMMA ArrangedOrder ==
  ASSUME NEW K, IsFiniteSet(K), NEW R, IsOrder(K, R)
  PROVE  /\ Arranged(K, R) \in [1 .. Cardinality(K) -> K]
         /\ \A k \in K : \E n \in 1 .. Cardinality(K) : Arranged(K, R)[n] = k
         /\ \A m, n \in 1 .. Cardinality(K) :
              m < n => <<Arranged(K, R)[m], Arranged(K, R)[n]>> \in R
<1> DEFINE Before(k) == {j \in K : <<j, k>> \in R}
           place == [k \in K |-> Cardinality(Before(k)) + 1]
           N == Cardinality(K)
           A == Arranged(K, R)
<1>1. N \in Nat
  BY FS_CardinalityType
<1>2. \A k \in K : /\ IsFiniteSet(Before(k)) /\ Cardinality(Before(k)) \in Nat
                   /\ Cardinality(Before(k)) <= N - 1
  <2> SUFFICES ASSUME NEW k \in K
               PROVE  /\ IsFiniteSet(Before(k)) /\ Cardinality(Before(k)) \in Nat
                      /\ Cardinality(Before(k)) <= N - 1
    OBVIOUS
  <2>1. IsFiniteSet(K \ {k}) /\ Cardinality(K \ {k}) = N - 1
    BY FS_RemoveElement
  <2>2. Before(k) \in SUBSET (K \ {k})
    BY DEF IsOrder
  <2>3. IsFiniteSet(Before(k)) /\ Cardinality(Before(k)) <= Cardinality(K \ {k})
    BY <2>1, <2>2, FS_Subset
  <2>. QED  BY <2>1, <2>3, FS_CardinalityType
<1>3. \A j, k \in K : <<j, k>> \in R => /\ j \notin Before(j)
                                         /\ Before(j) \cup {j} \in SUBSET Before(k)
  BY DEF IsOrder
<1>4. \A n \in 1 .. N : A[n] = CHOOSE k \in K : Cardinality(Before(k)) = n - 1
  BY DEF Arranged
<1>5. A = [n \in 1 .. N |-> CHOOSE k \in K : Cardinality(Before(k)) = n - 1]
  BY DEF Arranged
<1>. HIDE DEF Before, A
<1>6. \A k \in K : Cardinality(Before(k)) + 1 \in 1 .. N
  BY <1>1, <1>2
<1>7. place \in [K -> 1 .. N]
  BY <1>6
<1>8. \A k \in K : place[k] = Cardinality(Before(k)) + 1
  OBVIOUS
<1>. HIDE DEF place
<1>9. ASSUME NEW j \in K, NEW k \in K, <<j, k>> \in R
      PROVE  place[j] < place[k]
  <2>1. /\ IsFiniteSet(Before(j) \cup {j})
        /\ Cardinality(Before(j) \cup {j}) = Cardinality(Before(j)) + 1
    BY <1>2, <1>3, <1>9, FS_AddElement
  <2>2. Cardinality(Before(j)) + 1 <= Cardinality(Before(k))
    BY <1>2, <1>3, <1>9, <2>1, FS_Subset
  <2>. QED  BY <1>2, <1>8, <2>2
<1>10. \A j, k \in K : place[j] = place[k] => j = k
  <2> SUFFICES ASSUME NEW j \in K, NEW k \in K, j # k
               PROVE  place[j] # place[k]
    OBVIOUS
  <2>1. <<j, k>> \in R \/ <<k, j>> \in R
    BY DEF IsOrder
  <2>2. place[j] \in Nat /\ place[k] \in Nat
    BY <1>7
  <2>. QED  BY <1>9, <2>1, <2>2
<1>11. \A n \in 1 .. N : \E k \in K : place[k] = n
  <2>1. place \in Injection(K, 1 .. N)
    BY <1>7, <1>10, Fun_IsInj
  <2>2. IsFiniteSet(1 .. N) /\ Cardinality(1 .. N) = N
    BY <1>1, FS_Interval
  <2>3. place \in Surjection(K, 1 .. N)
    BY <2>1, <2>2, FS_Injection
  <2>. QED  BY <2>3, Fun_SurjectionProperties
<1>12. \A n \in 1 .. N : A[n] \in K /\ place[A[n]] = n
  <2> SUFFICES ASSUME NEW n \in 1 .. N
               PROVE  A[n] \in K /\ place[A[n]] = n
    OBVIOUS
  <2>1. \E k \in K : Cardinality(Before(k)) = n - 1
    <3>1. PICK k \in K : place[k] = n
      BY <1>11
    <3>. QED  BY <1>2, <1>8, <3>1
  <2>2. A[n] \in K /\ Cardinality(Before(A[n])) = n - 1
    BY <1>4, <2>1
  <2>. QED  BY <1>8, <2>2
<1>13. A \in [1 .. N -> K]
  BY <1>12, <1>5
<1>14. \A k \in K : \E n \in 1 .. N : A[n] = k
  <2> SUFFICES ASSUME NEW k \in K
               PROVE  \E n \in 1 .. N : A[n] = k
    OBVIOUS
  <2>1. place[k] \in 1 .. N
    BY <1>7
  <2>. QED  BY <1>10, <1>12, <2>1
<1>15. ASSUME NEW m \in 1 .. N, NEW n \in 1 .. N, m < n
       PROVE  <<A[m], A[n]>> \in R
  <2>1. /\ A[m] \in K /\ A[n] \in K
        /\ place[A[m]] = m /\ place[A[n]] = n
    BY <1>12
  <2>2. A[m] # A[n]
    BY <1>15, <2>1
  <2>3. <<A[n], A[m]>> \notin R
    <3>1. ASSUME <<A[n], A[m]>> \in R PROVE FALSE
      <4>1. n < m
        BY <1>9, <2>1, <3>1
      <4>. QED  BY <1>15, <4>1
    <3>. QED  BY <3>1
  <2>. QED  BY <2>1, <2>2, <2>3 DEF IsOrder
<1>. QED  BY <1>13, <1>14, <1>15 DEF A

\* Positions ascend.
LEMMA AscendingIsOrder ==
  ASSUME NEW K \in SUBSET Nat
  PROVE  IsOrder(K, Ascending(K))
BY DEF IsOrder, Ascending

LEMMA PositionsFinite ==
  ASSUME NEW S, NEW s \in Seq(S), NEW K \in SUBSET DOMAIN s
  PROVE  IsFiniteSet(K) /\ K \in SUBSET Nat /\ Cardinality(K) \in Nat
<1>1. DOMAIN s = 1 .. Len(s) /\ Len(s) \in Nat
  OBVIOUS
<1>2. IsFiniteSet(1 .. Len(s))
  BY <1>1, FS_Interval
<1>. QED  BY <1>1, <1>2, FS_Subset, FS_CardinalityType

LEMMA LeastPosition ==
  ASSUME NEW K \in SUBSET Nat, IsFiniteSet(K), K # {}
  PROVE  \E k \in K : \A j \in K : k <= j
<1> DEFINE A == Arranged(K, Ascending(K))
           N == Cardinality(K)
<1>1. /\ A \in [1 .. N -> K]
      /\ \A k \in K : \E n \in 1 .. N : A[n] = k
      /\ \A m, n \in 1 .. N : m < n => <<A[m], A[n]>> \in Ascending(K)
  BY AscendingIsOrder, ArrangedOrder
<1>2. N \in Nat
  BY FS_CardinalityType
<1>. HIDE DEF A, N
<1>3. 1 \in 1 .. N
  <2>1. PICK k \in K : TRUE
    OBVIOUS
  <2>2. PICK n \in 1 .. N : A[n] = k
    BY <1>1
  <2>. QED  BY <1>2, <2>2
<1>4. ASSUME NEW j \in K PROVE A[1] <= j
  <2>1. PICK n \in 1 .. N : A[n] = j
    BY <1>1
  <2>2. n = 1 \/ 1 < n
    BY <1>2
  <2>3. 1 < n => A[1] < A[n]
    BY <1>1, <1>3 DEF Ascending
  <2>4. A[1] \in Nat /\ j \in Nat
    BY <1>1, <1>3
  <2>. QED  BY <2>1, <2>2, <2>3, <2>4
<1>. QED  BY <1>1, <1>3, <1>4

\* What is left of a list: its elements at the positions that are kept, in
\* the order they had.
LEMMA KeptProperties ==
  ASSUME NEW S, NEW s \in Seq(S), NEW K \in SUBSET DOMAIN s
  PROVE  /\ Kept(s, K) \in Seq(S)
         /\ Len(Kept(s, K)) = Cardinality(K)
         /\ \A k \in K : \E n \in DOMAIN Kept(s, K) : Kept(s, K)[n] = s[k]
         /\ \E f \in [DOMAIN Kept(s, K) -> K] :
              /\ \A n \in DOMAIN Kept(s, K) : Kept(s, K)[n] = s[f[n]]
              /\ \A m, n \in DOMAIN Kept(s, K) : m < n => f[m] < f[n]
<1> DEFINE A == Arranged(K, Ascending(K))
           N == Cardinality(K)
<1>1. IsFiniteSet(K) /\ K \in SUBSET Nat /\ N \in Nat
  BY PositionsFinite
<1>2. /\ A \in [1 .. N -> K]
      /\ \A k \in K : \E n \in 1 .. N : A[n] = k
      /\ \A m, n \in 1 .. N : m < n => <<A[m], A[n]>> \in Ascending(K)
  BY <1>1, AscendingIsOrder, ArrangedOrder
<1>3. Kept(s, K) = [n \in 1 .. N |-> s[A[n]]]
  BY DEF Kept, ArrangedBy
<1>4. \A k \in K : s[k] \in S
  OBVIOUS
<1>5. Kept(s, K) \in [1 .. N -> S]
  BY <1>2, <1>3, <1>4
<1>6. Kept(s, K) \in Seq(S) /\ Len(Kept(s, K)) = N /\ DOMAIN Kept(s, K) = 1 .. N
  BY <1>1, <1>5
<1>7. \A k \in K : \E n \in 1 .. N : Kept(s, K)[n] = s[k]
  BY <1>2, <1>3
<1>8. \A m, n \in 1 .. N : m < n => A[m] < A[n]
  BY <1>2 DEF Ascending
<1>. QED  BY <1>2, <1>3, <1>6, <1>7, <1>8

\* A list that loses nothing stays as it is.
LEMMA KeptAll ==
  ASSUME NEW S, NEW s \in Seq(S)
  PROVE  Kept(s, DOMAIN s) = s
<1> DEFINE K == DOMAIN s
           N == Len(s)
           A == Arranged(K, Ascending(K))
           Before(k) == {j \in K : <<j, k>> \in Ascending(K)}
<1>1. K = 1 .. N /\ N \in Nat
  OBVIOUS
<1>2. IsFiniteSet(K) /\ Cardinality(K) = N
  BY <1>1, FS_Interval
<1>3. \A k \in K : Cardinality(Before(k)) = k - 1
  <2> SUFFICES ASSUME NEW k \in K
               PROVE  Cardinality(Before(k)) = k - 1
    OBVIOUS
  <2>1. Before(k) = 1 .. (k - 1)
    BY <1>1 DEF Ascending
  <2>2. k \in Nat /\ k >= 1 /\ k - 1 \in Int /\ 1 \in Int
    BY <1>1
  <2>3. Cardinality(1 .. (k - 1)) = k - 1
    <3>1. Cardinality(1 .. (k - 1)) = IF 1 > k - 1 THEN 0 ELSE (k - 1) - 1 + 1
      <4> DEFINE b == k - 1
      <4>1. b \in Int
        BY <2>2
      <4> HIDE DEF b
      <4>. QED  BY <2>2, <4>1, FS_Interval DEF b
    <3>. QED  BY <2>2, <3>1
  <2>. QED  BY <2>1, <2>3
<1>4. \A n \in 1 .. N : A[n] = CHOOSE k \in K : Cardinality(Before(k)) = n - 1
  BY <1>2 DEF Arranged
<1>5. Kept(s, K) = [n \in 1 .. N |-> s[A[n]]]
  BY <1>2 DEF Kept, ArrangedBy
<1>. HIDE DEF Before, A
<1>6. \A n \in 1 .. N : A[n] = n
  BY <1>1, <1>3, <1>4
<1>. QED  BY <1>1, <1>5, <1>6

-----------------------------------------------------------------------------
(* Lists without repetition. *)

Distinct(s) == \A m, n \in DOMAIN s : s[m] = s[n] => m = n

\* What is kept of a list, as a set; and nothing is kept twice.
LEMMA KeptElements ==
  ASSUME NEW S, NEW s \in Seq(S), NEW K \in SUBSET DOMAIN s
  PROVE  /\ Kept(s, K) \in Seq(S)
         /\ ToSet(Kept(s, K)) = {s[k] : k \in K}
         /\ (\A j, k \in K : s[j] = s[k] => j = k) => Distinct(Kept(s, K))
<1> DEFINE t == Kept(s, K)
<1>1. /\ t \in Seq(S) /\ DOMAIN t \in SUBSET Nat
      /\ \A k \in K : \E n \in DOMAIN t : t[n] = s[k]
  BY KeptProperties
<1>2. PICK f \in [DOMAIN t -> K] :
        /\ \A n \in DOMAIN t : t[n] = s[f[n]]
        /\ \A m, n \in DOMAIN t : m < n => f[m] < f[n]
  BY KeptProperties
<1>. HIDE DEF t
<1>3. ToSet(t) = {s[k] : k \in K}
  BY <1>1, <1>2 DEF ToSet
<1>4. ASSUME \A j, k \in K : s[j] = s[k] => j = k
      PROVE  Distinct(t)
  <2> SUFFICES ASSUME NEW m \in DOMAIN t, NEW n \in DOMAIN t, t[m] = t[n]
               PROVE  m = n
    BY DEF Distinct
  <2>1. f[m] = f[n] /\ f[m] \in Nat
    <3>1. DOMAIN s \in SUBSET Nat
      OBVIOUS
    <3>. QED  BY <1>2, <1>4, <3>1
  <2>2. ~(m < n) /\ ~(n < m)
    BY <1>2, <2>1
  <2>. QED  BY <1>1, <2>2
<1>. QED  BY <1>1, <1>3, <1>4 DEF t

\* A list without repetition is as long as its set of elements is large.
LEMMA DistinctCount ==
  ASSUME NEW S, NEW s \in Seq(S), Distinct(s)
  PROVE  IsFiniteSet(ToSet(s)) /\ Cardinality(ToSet(s)) = Len(s)
<1>1. DOMAIN s = 1 .. Len(s) /\ Len(s) \in Nat
  OBVIOUS
<1>2. IsFiniteSet(1 .. Len(s)) /\ Cardinality(1 .. Len(s)) = Len(s)
  BY <1>1, FS_Interval
<1>3. s \in [1 .. Len(s) -> ToSet(s)]
  BY <1>1 DEF ToSet
<1>4. s \in Injection(1 .. Len(s), ToSet(s))
  BY <1>1, <1>3, Fun_IsInj DEF Distinct
<1>5. s \in Surjection(1 .. Len(s), ToSet(s))
  BY <1>1, <1>3, Fun_IsSurj DEF ToSet
<1>. QED  BY <1>2, <1>4, <1>5, FS_Surjection

LEMMA AppendElements ==
  ASSUME NEW S, NEW s \in Seq(S), NEW x \in S
  PROVE  /\ Append(s, x) \in Seq(S)
         /\ ToSet(Append(s, x)) = ToSet(s) \cup {x}
         /\ Distinct(s) /\ x \notin ToSet(s) => Distinct(Append(s, x))
<1>1. DOMAIN s = 1 .. Len(s) /\ Len(s) \in Nat
  OBVIOUS
<1>2. /\ DOMAIN Append(s, x) = 1 .. Len(s) + 1
      /\ \A n \in DOMAIN s : Append(s, x)[n] = s[n]
      /\ Append(s, x)[Len(s) + 1] = x
      /\ Append(s, x) \in Seq(S)
  OBVIOUS
<1>3. \A n \in DOMAIN Append(s, x) : n \in DOMAIN s \/ n = Len(s) + 1
  BY <1>1, <1>2
<1>4. DOMAIN s \subseteq DOMAIN Append(s, x) /\ Len(s) + 1 \in DOMAIN Append(s, x)
  BY <1>1, <1>2
<1>5. ToSet(Append(s, x)) = ToSet(s) \cup {x}
  BY <1>2, <1>3, <1>4 DEF ToSet
<1>6. Distinct(s) /\ x \notin ToSet(s) => Distinct(Append(s, x))
  BY <1>2, <1>3 DEF Distinct, ToSet
<1>. QED  BY <1>2, <1>5, <1>6

-----------------------------------------------------------------------------
(* Lists of things that carry ids. *)

\* What is left of a list without the entries of a plugin.
LEMMA OthersProperties ==
  ASSUME NEW S, NEW s \in Seq(S), NEW id, NEW ids
  PROVE  /\ Others(s, id, ids) \in Seq(S)
         /\ ToSet(Others(s, id, ids)) = {q \in ToSet(s) : ids[q] # id}
         /\ Distinct(s) => Distinct(Others(s, id, ids))
<1> DEFINE K == {k \in DOMAIN s : ids[s[k]] # id}
<1>1. {s[k] : k \in K} = {q \in ToSet(s) : ids[q] # id}
  BY DEF ToSet
<1>2. Distinct(s) => \A j, k \in K : s[j] = s[k] => j = k
  BY DEF Distinct
<1>3. Others(s, id, ids) = Kept(s, K) /\ K \in SUBSET DOMAIN s
  BY DEF Others
<1>. HIDE DEF K
<1>. QED  BY <1>1, <1>2, <1>3, KeptElements

\* The new version is put in the place of the plugin's first entry.
LEMMA FirstEntry ==
  ASSUME NEW S, NEW s \in Seq(S), NEW new \in S, NEW id, NEW ids,
         \E k \in DOMAIN s : ids[s[k]] = id
  PROVE  \E first \in DOMAIN s :
           /\ ids[s[first]] = id
           /\ Rebound(s, new, id, ids) = Replaced(s, first, new, id, ids)
<1> DEFINE T == {n \in DOMAIN s : ids[s[n]] = id}
           First(n) == ids[s[n]] = id /\ \A m \in 1..(n - 1) : ids[s[m]] # id
<1>1. DOMAIN s = 1 .. Len(s) /\ Len(s) \in Nat
  OBVIOUS
<1>2. PICK n \in T : \A m \in T : n <= m
  <2>1. T \in SUBSET DOMAIN s /\ T # {}
    OBVIOUS
  <2> HIDE DEF T
  <2>2. T \in SUBSET Nat /\ IsFiniteSet(T)
    BY <2>1, PositionsFinite
  <2>. QED  BY <2>1, <2>2, LeastPosition
<1>3. First(n)
  <2>1. ASSUME NEW m \in 1..(n - 1), ids[s[m]] = id PROVE FALSE
    <3>1. m \in T /\ m < n
      BY <1>1, <2>1
    <3>. QED  BY <1>1, <1>2, <3>1
  <2>. QED  BY <2>1
<1>4. \E m \in DOMAIN s : First(m) /\ Rebound(s, new, id, ids) = Replaced(s, m, new, id, ids)
  BY <1>3 DEF Rebound
<1>. QED  BY <1>4

LEMMA ReboundProperties ==
  ASSUME NEW S, NEW s \in Seq(S), NEW new \in S, NEW id, NEW ids, ids[new] = id
  PROVE  /\ Rebound(s, new, id, ids) \in Seq(S)
         /\ ToSet(Rebound(s, new, id, ids)) = {q \in ToSet(s) : ids[q] # id} \cup {new}
         /\ Distinct(s) => Distinct(Rebound(s, new, id, ids))
<1>1. ASSUME NEW k \in DOMAIN s, ids[s[k]] = id
      PROVE  /\ Rebound(s, new, id, ids) \in Seq(S)
             /\ ToSet(Rebound(s, new, id, ids)) = {q \in ToSet(s) : ids[q] # id} \cup {new}
             /\ Distinct(s) => Distinct(Rebound(s, new, id, ids))
  <2>1. PICK first \in DOMAIN s :
          /\ ids[s[first]] = id
          /\ Rebound(s, new, id, ids) = Replaced(s, first, new, id, ids)
    <3>1. \E n \in DOMAIN s : ids[s[n]] = id
      BY <1>1
    <3>. QED  BY <3>1, FirstEntry
  <2> DEFINE t == [s EXCEPT ![first] = new]
             K == {n \in DOMAIN s : n = first \/ ids[s[n]] # id}
  <2>2. t \in Seq(S) /\ DOMAIN t = DOMAIN s /\ K \in SUBSET DOMAIN t
    OBVIOUS
  <2>3. t[first] = new /\ \A n \in K : n # first => t[n] = s[n] /\ ids[s[n]] # id
    OBVIOUS
  <2>4. first \in K /\ \A n \in DOMAIN s : ids[s[n]] # id => n \in K /\ n # first
    BY <2>1
  <2>5. Rebound(s, new, id, ids) = Kept(t, K)
    BY <2>1 DEF Replaced
  <2>6. K \subseteq DOMAIN s
    OBVIOUS
  <2> HIDE DEF t, K
  <2>7. {t[n] : n \in K} = {q \in ToSet(s) : ids[q] # id} \cup {new}
    BY <2>3, <2>4, <2>6 DEF ToSet
  <2>8. Distinct(s) => \A j, m \in K : t[j] = t[m] => j = m
    BY <2>3, <2>6 DEF Distinct
  <2>. QED  BY <2>2, <2>5, <2>7, <2>8, KeptElements
<1>2. ASSUME \A k \in DOMAIN s : ids[s[k]] # id
      PROVE  /\ Rebound(s, new, id, ids) \in Seq(S)
             /\ ToSet(Rebound(s, new, id, ids)) = {q \in ToSet(s) : ids[q] # id} \cup {new}
             /\ Distinct(s) => Distinct(Rebound(s, new, id, ids))
  <2>1. Rebound(s, new, id, ids) = Append(s, new)
    BY <1>2 DEF Rebound
  <2>2. ToSet(s) = {q \in ToSet(s) : ids[q] # id} /\ new \notin ToSet(s)
    BY <1>2 DEF ToSet
  <2>3. /\ Append(s, new) \in Seq(S)
        /\ ToSet(Append(s, new)) = ToSet(s) \cup {new}
        /\ Distinct(s) => Distinct(Append(s, new))
    BY <2>2, AppendElements
  <2>. QED  BY <2>1, <2>2, <2>3
<1>. QED  BY <1>1, <1>2

-----------------------------------------------------------------------------
(* Induction up to a number, over a set in place of a predicate, and what  *)
(* a recursive function is that is defined along it.                       *)

LEMMA UpTo ==
  ASSUME NEW n \in Nat, NEW T, 0 \in T, \A k \in 1 .. n : k - 1 \in T => k \in T
  PROVE  \A k \in 0 .. n : k \in T
<1> DEFINE K == {k \in 0 .. n : k \notin T}
<1>1. SUFFICES ASSUME K # {} PROVE FALSE
  OBVIOUS
<1>2. IsFiniteSet(0 .. n)
  BY FS_Interval
<1>3. K \in SUBSET Nat /\ IsFiniteSet(K)
  BY <1>2, FS_Subset
<1>4. PICK k \in K : \A j \in K : k <= j
  BY <1>1, <1>3, LeastPosition
<1>5. k \in 1 .. n /\ k - 1 \in 0 .. n /\ ~(k <= k - 1)
  BY <1>4
<1>6. k - 1 \in T
  BY <1>4, <1>5
<1>. QED  BY <1>4, <1>5, <1>6

\* n turns of a loop, the states between them.
IsLoop(f, n, init, step) == f[0] = init /\ \A k \in 1 .. n : f[k] = step[k][f[k - 1]]

LEMMA LoopRuns ==
  ASSUME NEW S, NEW n \in Nat, NEW init \in S, NEW step \in [1 .. n -> [S -> S]]
  PROVE  \E f \in [0 .. n -> S] : IsLoop(f, n, init, step)
<1> DEFINE Runs(f, m) == IsLoop(f, m, init, step)
           T == {m \in 0 .. n : \E f \in [0 .. m -> S] : Runs(f, m)}
<1>1. 0 \in T
  <2>1. [k \in 0 .. 0 |-> init] \in [0 .. 0 -> S] /\ Runs([k \in 0 .. 0 |-> init], 0)
    BY DEF IsLoop
  <2> HIDE DEF Runs
  <2>2. \E f \in [0 .. 0 -> S] : Runs(f, 0)
    BY <2>1
  <2>. QED  BY <2>2
<1>2. ASSUME NEW m \in 1 .. n, m - 1 \in T
      PROVE  m \in T
  <2>1. PICK f \in [0 .. m - 1 -> S] : Runs(f, m - 1)
    BY <1>2
  <2> DEFINE g == [k \in 0 .. m |-> IF k = m THEN step[m][f[m - 1]] ELSE f[k]]
  <2>2. m - 1 \in 0 .. m - 1 /\ \A k \in 0 .. m : k # m => k \in 0 .. m - 1
    OBVIOUS
  <2>3. step[m][f[m - 1]] \in S
    BY <2>2
  <2>4. g \in [0 .. m -> S]
    BY <2>2, <2>3
  <2>5. g[m] = step[m][f[m - 1]] /\ \A k \in 0 .. m - 1 : g[k] = f[k]
    OBVIOUS
  <2> HIDE DEF g
  <2>6. Runs(g, m)
    <3>1. g[0] = init
      BY <2>1, <2>5 DEF IsLoop
    <3>2. ASSUME NEW k \in 1 .. m PROVE g[k] = step[k][g[k - 1]]
      <4>1. k - 1 \in 0 .. m - 1
        OBVIOUS
      <4>2. CASE k = m
        BY <2>5, <4>1, <4>2
      <4>3. CASE k \in 1 .. m - 1
        BY <2>1, <2>5, <4>1, <4>3 DEF IsLoop
      <4>. QED  BY <4>2, <4>3
    <3>. QED  BY <3>1, <3>2 DEF IsLoop
  <2> HIDE DEF Runs
  <2>7. \E h \in [0 .. m -> S] : Runs(h, m)
    BY <2>4, <2>6
  <2>. QED  BY <2>7
<1> HIDE DEF T
<1>3. n \in T
  <2>1. \A k \in 0 .. n : k \in T
    BY <1>1, <1>2, UpTo
  <2>. QED  BY <2>1
<1>. QED  BY <1>3 DEF T

-----------------------------------------------------------------------------
(* The topological sort.                                                   *)

LEMMA JoinedElements ==
  ASSUME NEW S, NEW s \in Seq(S), NEW t \in Seq(S)
  PROVE  /\ s \o t \in Seq(S)
         /\ ToSet(s \o t) = ToSet(s) \cup ToSet(t)
         /\ Distinct(s) /\ Distinct(t) /\ ToSet(s) \cap ToSet(t) = {} => Distinct(s \o t)
<1>1. /\ DOMAIN s = 1 .. Len(s) /\ Len(s) \in Nat
      /\ DOMAIN t = 1 .. Len(t) /\ Len(t) \in Nat
  OBVIOUS
<1>2. /\ s \o t \in Seq(S)
      /\ DOMAIN (s \o t) = 1 .. Len(s) + Len(t)
      /\ \A n \in 1 .. Len(s) + Len(t) :
           (s \o t)[n] = IF n <= Len(s) THEN s[n] ELSE t[n - Len(s)]
  OBVIOUS
<1> DEFINE u == s \o t
<1>3. \A n \in DOMAIN u : \/ n \in DOMAIN s /\ u[n] = s[n]
                          \/ n - Len(s) \in DOMAIN t /\ u[n] = t[n - Len(s)]
  BY <1>1, <1>2
<1>4. /\ \A n \in DOMAIN s : n \in DOMAIN u /\ u[n] = s[n]
      /\ \A n \in DOMAIN t : n + Len(s) \in DOMAIN u /\ u[n + Len(s)] = t[n]
  BY <1>1, <1>2
<1>5. DOMAIN u \subseteq Nat
  BY <1>1, <1>2
<1> HIDE DEF u
<1>6. ToSet(u) = ToSet(s) \cup ToSet(t)
  BY <1>3, <1>4 DEF ToSet
<1>7. ASSUME Distinct(s), Distinct(t), ToSet(s) \cap ToSet(t) = {}
      PROVE  Distinct(u)
  <2> SUFFICES ASSUME NEW m \in DOMAIN u, NEW n \in DOMAIN u, u[m] = u[n]
               PROVE  m = n
    BY DEF Distinct
  <2>1. CASE m \in DOMAIN s /\ u[m] = s[m] /\ n \in DOMAIN s /\ u[n] = s[n]
    BY <1>7, <2>1 DEF Distinct
  <2>2. CASE /\ m - Len(s) \in DOMAIN t /\ u[m] = t[m - Len(s)]
             /\ n - Len(s) \in DOMAIN t /\ u[n] = t[n - Len(s)]
    <3>1. m - Len(s) = n - Len(s)
      BY <1>7, <2>2 DEF Distinct
    <3>. QED  BY <1>1, <1>5, <3>1
  <2>3. ASSUME NEW j \in DOMAIN s, NEW k \in DOMAIN t, s[j] = t[k] PROVE FALSE
    BY <1>7, <2>3 DEF ToSet
  <2>. QED  BY <1>3, <2>1, <2>2, <2>3
<1>. QED  BY <1>2, <1>6, <1>7 DEF u

\* Taking the first element of a list.
LEMMA HeadAndTail ==
  ASSUME NEW S, NEW s \in Seq(S), s # <<>>
  PROVE  /\ Head(s) \in ToSet(s) /\ Head(s) \in S
         /\ Tail(s) \in Seq(S)
         /\ Len(Tail(s)) = Len(s) - 1 /\ Len(s) \in Nat \ {0}
         /\ \A n \in DOMAIN Tail(s) : n + 1 \in DOMAIN s /\ Tail(s)[n] = s[n + 1]
         /\ ToSet(s) = {Head(s)} \cup ToSet(Tail(s))
         /\ Distinct(s) => Distinct(Tail(s)) /\ Head(s) \notin ToSet(Tail(s))
<1>1. /\ DOMAIN s = 1 .. Len(s) /\ Len(s) \in Nat \ {0} /\ 1 \in DOMAIN s /\ Head(s) = s[1]
      /\ Tail(s) \in Seq(S) /\ Len(Tail(s)) = Len(s) - 1 /\ DOMAIN Tail(s) = 1 .. Len(s) - 1
      /\ \A n \in DOMAIN Tail(s) : Tail(s)[n] = s[n + 1]
  OBVIOUS
<1>2. \A n \in DOMAIN Tail(s) : n + 1 \in DOMAIN s /\ n + 1 # 1 /\ n \in Nat
  BY <1>1
<1>3. \A n \in DOMAIN s : n # 1 => n - 1 \in DOMAIN Tail(s) /\ Tail(s)[n - 1] = s[n]
  BY <1>1
<1>4. ToSet(s) = {Head(s)} \cup ToSet(Tail(s))
  BY <1>1, <1>2, <1>3 DEF ToSet
<1>5. Distinct(s) => Distinct(Tail(s)) /\ Head(s) \notin ToSet(Tail(s))
  <2> SUFFICES ASSUME Distinct(s) PROVE Distinct(Tail(s)) /\ Head(s) \notin ToSet(Tail(s))
    OBVIOUS
  <2>1. ASSUME NEW m \in DOMAIN Tail(s), NEW n \in DOMAIN Tail(s), Tail(s)[m] = Tail(s)[n]
        PROVE  m = n
    <3>1. m + 1 = n + 1
      BY <1>1, <1>2, <2>1 DEF Distinct
    <3>. QED  BY <1>2, <3>1
  <2>2. Head(s) \notin ToSet(Tail(s))
    BY <1>1, <1>2 DEF Distinct, ToSet
  <2>. QED  BY <2>1, <2>2 DEF Distinct
<1>. QED  BY <1>1, <1>2, <1>4, <1>5 DEF ToSet

\* After k turns: what is placed and what waits for its turn are together
\* the nodes all of whose dependencies are placed.
Sorting(nodes, deps, k, s) ==
  LET V == ToSet(nodes)
  IN  /\ s = [ordered |-> s.ordered, queue |-> s.queue]
      /\ s.ordered \in Seq(V) /\ Distinct(s.ordered)
      /\ s.queue \in Seq(V) /\ Distinct(s.queue)
      /\ ToSet(s.ordered) \cap ToSet(s.queue) = {}
      /\ \A v \in V : WaitsFor(nodes, deps, v) \subseteq ToSet(s.ordered)
                        <=> v \in ToSet(s.ordered) \cup ToSet(s.queue)
      /\ \A m \in DOMAIN s.ordered : \A v \in WaitsFor(nodes, deps, s.ordered[m]) :
           \E n \in DOMAIN s.ordered : n < m /\ s.ordered[n] = v
      /\ s.queue = <<>> \/ Len(s.ordered) = k

\* Any of the nodes that are distinct, in the order of the input.
LEMMA KeptNodes ==
  ASSUME NEW S, NEW nodes \in Seq(S), Distinct(nodes), NEW K \in SUBSET DOMAIN nodes
  PROVE  /\ Kept(nodes, K) \in Seq(ToSet(nodes)) /\ Distinct(Kept(nodes, K))
         /\ \A k \in DOMAIN nodes : nodes[k] \in ToSet(Kept(nodes, K)) <=> k \in K
<1>1. nodes \in Seq(ToSet(nodes))
  BY DEF ToSet
<1>2. /\ Kept(nodes, K) \in Seq(ToSet(nodes))
      /\ ToSet(Kept(nodes, K)) = {nodes[k] : k \in K}
      /\ (\A j, k \in K : nodes[j] = nodes[k] => j = k) => Distinct(Kept(nodes, K))
  BY <1>1, KeptElements
<1>. QED  BY <1>2 DEF Distinct

LEMMA SortingBegins ==
  ASSUME NEW S, NEW nodes \in Seq(S), Distinct(nodes), NEW deps
  PROVE  LET free == {k \in DOMAIN nodes : WaitsFor(nodes, deps, nodes[k]) = {}}
         IN  Sorting(nodes, deps, 0, [ordered |-> <<>>, queue |-> Kept(nodes, free)])
<1> DEFINE free == {k \in DOMAIN nodes : WaitsFor(nodes, deps, nodes[k]) = {}}
           s == [ordered |-> <<>>, queue |-> Kept(nodes, free)]
<1>1. /\ Kept(nodes, free) \in Seq(ToSet(nodes)) /\ Distinct(Kept(nodes, free))
      /\ \A k \in DOMAIN nodes : nodes[k] \in ToSet(Kept(nodes, free)) <=> k \in free
  BY KeptNodes
<1>2. \A v \in ToSet(nodes) : WaitsFor(nodes, deps, v) \subseteq {} <=> v \in ToSet(Kept(nodes, free))
  BY <1>1 DEF ToSet
<1>3. s.ordered = <<>> /\ s.queue = Kept(nodes, free)
  OBVIOUS
<1>4. ToSet(<<>>) = {} /\ Distinct(<<>>) /\ DOMAIN <<>> = {} /\ Len(<<>>) = 0
      /\ <<>> \in Seq(ToSet(nodes))
  BY DEF ToSet, Distinct
<1>5. s = [ordered |-> s.ordered, queue |-> s.queue]
  OBVIOUS
<1> HIDE DEF s, free
<1>6. Sorting(nodes, deps, 0, s)
  BY <1>1, <1>2, <1>3, <1>4, <1>5 DEF Sorting
<1>. QED  BY <1>6 DEF s, free

LEMMA SortingProceeds ==
  ASSUME NEW S, NEW nodes \in Seq(S), Distinct(nodes), NEW deps, NEW k \in Nat \ {0},
         NEW s, Sorting(nodes, deps, k - 1, s)
  PROVE  Sorting(nodes, deps, k, TakeTurn(nodes, deps, s))
<1> DEFINE V == ToSet(nodes)
<1>1. CASE s.queue = <<>>
  BY <1>1 DEF TakeTurn, Sorting
<1>2. CASE s.queue # <<>>
  <2> DEFINE n == Head(s.queue)
             placed == Append(s.ordered, n)
             K == {j \in DOMAIN nodes : /\ n \in WaitsFor(nodes, deps, nodes[j])
                                        /\ WaitsFor(nodes, deps, nodes[j]) \subseteq ToSet(placed)}
             freed == Kept(nodes, K)
             rest == Tail(s.queue)
             queue == rest \o freed
             t == [ordered |-> placed, queue |-> queue]
  <2>1. TakeTurn(nodes, deps, s) = t
    BY <1>2 DEF TakeTurn, Freed
  <2>2. /\ n \in ToSet(s.queue) /\ n \in V
        /\ rest \in Seq(V) /\ Distinct(rest)
        /\ n \notin ToSet(rest)
        /\ ToSet(s.queue) = {n} \cup ToSet(rest)
    BY <1>2, HeadAndTail DEF Sorting
  <2>3. /\ placed \in Seq(V) /\ Distinct(placed)
        /\ ToSet(placed) = ToSet(s.ordered) \cup {n}
        /\ n \notin ToSet(s.ordered)
    BY <2>2, AppendElements DEF Sorting
  <2>4. /\ freed \in Seq(V) /\ Distinct(freed)
        /\ \A j \in DOMAIN nodes : nodes[j] \in ToSet(freed) <=> j \in K
    <3>1. K \in SUBSET DOMAIN nodes
      OBVIOUS
    <3> HIDE DEF K
    <3>. QED  BY <3>1, KeptNodes
  <2> HIDE DEF n, placed, freed, rest
  <2>5. \A v \in V : v \in ToSet(freed) <=> /\ n \in WaitsFor(nodes, deps, v)
                                            /\ WaitsFor(nodes, deps, v) \subseteq ToSet(placed)
    BY <2>4 DEF ToSet
  <2> HIDE DEF K
  <2>6. ToSet(freed) \subseteq V
    BY <2>4 DEF ToSet
  <2>7. \A v \in V : WaitsFor(nodes, deps, v) \subseteq ToSet(s.ordered)
                       <=> v \in ToSet(s.ordered) \cup ToSet(s.queue)
    BY DEF Sorting
  <2>8. ToSet(freed) \cap (ToSet(s.ordered) \cup ToSet(s.queue)) = {}
    BY <2>3, <2>5, <2>6, <2>7
  <2>9. /\ queue \in Seq(V) /\ Distinct(queue)
        /\ ToSet(queue) = ToSet(rest) \cup ToSet(freed)
    <3>1. ToSet(rest) \cap ToSet(freed) = {}
      BY <2>2, <2>8
    <3>. QED  BY <2>2, <2>4, <3>1, JoinedElements
  <2> HIDE DEF queue
  <2>10. ToSet(placed) \cap ToSet(queue) = {}
    BY <2>2, <2>3, <2>8, <2>9 DEF Sorting
  <2>11. ASSUME NEW v \in V
         PROVE  WaitsFor(nodes, deps, v) \subseteq ToSet(placed)
                  <=> v \in ToSet(placed) \cup ToSet(queue)
    BY <2>2, <2>3, <2>5, <2>7, <2>9
  <2>12. /\ DOMAIN placed = 1 .. Len(s.ordered) + 1 /\ Len(s.ordered) \in Nat
         /\ DOMAIN s.ordered = 1 .. Len(s.ordered)
         /\ \A m \in DOMAIN s.ordered : m \in DOMAIN placed /\ placed[m] = s.ordered[m]
         /\ placed[Len(s.ordered) + 1] = n
         /\ Len(placed) = Len(s.ordered) + 1
    BY <2>2 DEF placed, Sorting
  <2>13. ASSUME NEW m \in DOMAIN placed, NEW v \in WaitsFor(nodes, deps, placed[m])
         PROVE  \E j \in DOMAIN placed : j < m /\ placed[j] = v
    <3>1. CASE m \in DOMAIN s.ordered
      <4>1. PICK j \in DOMAIN s.ordered : j < m /\ s.ordered[j] = v
        BY <2>12, <2>13, <3>1 DEF Sorting
      <4>. QED  BY <2>12, <4>1
    <3>2. CASE m = Len(s.ordered) + 1
      <4>1. v \in ToSet(s.ordered)
        BY <2>2, <2>7, <2>12, <2>13, <3>2
      <4>2. PICK j \in DOMAIN s.ordered : s.ordered[j] = v
        BY <4>1 DEF ToSet
      <4>. QED  BY <2>12, <3>2, <4>2
    <3>. QED  BY <2>12, <3>1, <3>2
  <2>14. Len(placed) = k
    BY <1>2, <2>12 DEF Sorting
  <2>15. t.ordered = placed /\ t.queue = queue /\ t = [ordered |-> t.ordered, queue |-> t.queue]
    OBVIOUS
  <2> HIDE DEF t
  <2>16. Sorting(nodes, deps, k, t)
    <3>1. /\ t = [ordered |-> t.ordered, queue |-> t.queue]
          /\ t.ordered \in Seq(V) /\ Distinct(t.ordered)
          /\ t.queue \in Seq(V) /\ Distinct(t.queue)
          /\ ToSet(t.ordered) \cap ToSet(t.queue) = {}
          /\ t.queue = <<>> \/ Len(t.ordered) = k
      BY <2>3, <2>9, <2>10, <2>14, <2>15
    <3>2. \A v \in V : WaitsFor(nodes, deps, v) \subseteq ToSet(t.ordered)
                         <=> v \in ToSet(t.ordered) \cup ToSet(t.queue)
      BY <2>11, <2>15
    <3>3. \A m \in DOMAIN t.ordered : \A v \in WaitsFor(nodes, deps, t.ordered[m]) :
            \E j \in DOMAIN t.ordered : j < m /\ t.ordered[j] = v
      BY <2>13, <2>15
    <3>. QED  BY <3>1, <3>2, <3>3 DEF Sorting
  <2>. QED  BY <2>1, <2>16
<1>. QED  BY <1>1, <1>2

LEMMA TopoSortSorting ==
  ASSUME NEW S, NEW nodes \in Seq(S), Distinct(nodes), NEW deps
  PROVE  \E s : Sorting(nodes, deps, Len(nodes), s) /\ TopoSort(nodes, deps) = s.ordered
<1> DEFINE V == ToSet(nodes)
           N == Len(nodes)
           free == {k \in DOMAIN nodes : WaitsFor(nodes, deps, nodes[k]) = {}}
           init == [ordered |-> <<>>, queue |-> Kept(nodes, free)]
           States == {s \in [ordered : Seq(V), queue : Seq(V)] :
                        \E k \in Nat : Sorting(nodes, deps, k, s)}
           Turns(f) == f = [k \in 0 .. N |-> IF k = 0 THEN init ELSE TakeTurn(nodes, deps, f[k - 1])]
           turn == CHOOSE f : Turns(f)
<1>1. N \in Nat
  OBVIOUS
<1>2. Sorting(nodes, deps, 0, init)
  BY SortingBegins
<1> HIDE DEF init, V
<1>3. \A k \in Nat : \A s : Sorting(nodes, deps, k, s) =>
        s \in [ordered : Seq(V), queue : Seq(V)]
  BY DEF Sorting, V
<1>4. init \in States
  BY <1>2, <1>3
<1>5. ASSUME NEW s \in States
      PROVE  TakeTurn(nodes, deps, s) \in States
  <2>1. PICK k \in Nat : Sorting(nodes, deps, k, s)
    BY <1>5
  <2>2. k + 1 \in Nat \ {0} /\ (k + 1) - 1 = k
    OBVIOUS
  <2>3. Sorting(nodes, deps, k + 1, TakeTurn(nodes, deps, s))
    BY <2>1, <2>2, SortingProceeds
  <2>. QED  BY <1>3, <2>2, <2>3
<1> HIDE DEF States
<1> DEFINE step == [k \in 1 .. N |-> [s \in States |-> TakeTurn(nodes, deps, s)]]
<1>6. step \in [1 .. N -> [States -> States]]
  BY <1>5
<1>7. \A k \in 1 .. N : \A s \in States : step[k][s] = TakeTurn(nodes, deps, s)
  OBVIOUS
<1> HIDE DEF step
<1>8. PICK f \in [0 .. N -> States] : IsLoop(f, N, init, step)
  BY <1>1, <1>4, <1>6, LoopRuns
<1>9. Turns(f)
  <2>1. \A k \in 0 .. N : f[k] = IF k = 0 THEN init ELSE TakeTurn(nodes, deps, f[k - 1])
    <3> SUFFICES ASSUME NEW k \in 1 .. N
                 PROVE  f[k] = TakeTurn(nodes, deps, f[k - 1])
      BY <1>8 DEF IsLoop
    <3>1. k - 1 \in 0 .. N
      BY <1>1
    <3>. QED  BY <1>7, <1>8, <3>1 DEF IsLoop
  <2>. QED  BY <2>1
<1>10. Turns(turn)
  <2> HIDE DEF Turns
  <2>. QED  BY <1>9
<1>11. TopoSort(nodes, deps) = turn[N].ordered
  BY DEF TopoSort, init
<1> HIDE DEF turn
<1>12. turn[0] = init /\ \A k \in 1 .. N : turn[k] = TakeTurn(nodes, deps, turn[k - 1])
  BY <1>1, <1>10
<1> DEFINE T == {k \in 0 .. N : Sorting(nodes, deps, k, turn[k])}
<1>13. N \in T
  <2>1. 0 \in T
    BY <1>1, <1>2, <1>12
  <2>2. \A k \in 1 .. N : k - 1 \in T => k \in T
    BY <1>1, <1>12, SortingProceeds
  <2> HIDE DEF T
  <2>3. \A k \in 0 .. N : k \in T
    BY <1>1, <2>1, <2>2, UpTo
  <2>. QED  BY <1>1, <2>3
<1>. QED  BY <1>11, <1>13

\* What topo_sort returns, for any graph: nodes, each after those that it
\* depends on, and all but those that depend on one that is missing.
LEMMA TopoSortProperties ==
  ASSUME NEW S, NEW nodes \in Seq(S), Distinct(nodes), NEW deps
  PROVE  LET sorted == TopoSort(nodes, deps)
         IN  /\ sorted \in Seq(S) /\ Distinct(sorted)
             /\ ToSet(sorted) \subseteq ToSet(nodes)
             /\ \A m, n \in DOMAIN sorted : sorted[n] \in deps[sorted[m]] => n < m
             /\ \A v \in ToSet(nodes) :
                  deps[v] \cap ToSet(nodes) \subseteq ToSet(sorted) => v \in ToSet(sorted)
<1> DEFINE sorted == TopoSort(nodes, deps)
           V == ToSet(nodes)
<1>1. PICK s : Sorting(nodes, deps, Len(nodes), s) /\ sorted = s.ordered
  BY TopoSortSorting
<1> HIDE DEF sorted
<1>2. /\ sorted \in Seq(V) /\ Distinct(sorted)
      /\ s.queue \in Seq(V) /\ ToSet(sorted) \cap ToSet(s.queue) = {}
      /\ s.queue = <<>> \/ Len(sorted) = Len(nodes)
  BY <1>1 DEF Sorting
<1>3. sorted \in Seq(S) /\ ToSet(sorted) \subseteq V
  <2>1. V \subseteq S
    BY DEF ToSet
  <2> HIDE DEF V
  <2>. QED  BY <1>2, <2>1 DEF ToSet
<1> HIDE DEF V
<1>4. s.queue = <<>>
  <2> SUFFICES ASSUME s.queue # <<>> PROVE FALSE
    OBVIOUS
  <2>1. /\ IsFiniteSet(V) /\ Cardinality(V) = Len(nodes)
        /\ IsFiniteSet(ToSet(sorted)) /\ Cardinality(ToSet(sorted)) = Len(sorted)
    BY <1>2, <1>3, DistinctCount DEF V
  <2>2. ToSet(sorted) = V
    BY <1>2, <1>3, <2>1, FS_Subset
  <2>3. Head(s.queue) \in ToSet(s.queue) /\ Head(s.queue) \in V
    BY <1>2, HeadAndTail
  <2>. QED  BY <1>2, <2>2, <2>3
<1>5. ASSUME NEW m \in DOMAIN sorted, NEW n \in DOMAIN sorted, sorted[n] \in deps[sorted[m]]
      PROVE  n < m
  <2>1. sorted[n] \in WaitsFor(nodes, deps, sorted[m])
    BY <1>3, <1>5 DEF WaitsFor, ToSet, V
  <2>2. PICK j \in DOMAIN sorted : j < m /\ sorted[j] = sorted[n]
    BY <1>1, <2>1 DEF Sorting
  <2>. QED  BY <1>2, <2>2 DEF Distinct
<1>6. ASSUME NEW v \in V, deps[v] \cap V \subseteq ToSet(sorted)
      PROVE  v \in ToSet(sorted)
  <2>1. WaitsFor(nodes, deps, v) \subseteq ToSet(sorted)
    BY <1>6 DEF WaitsFor, V
  <2>2. v \in ToSet(sorted) \cup ToSet(s.queue)
    BY <1>1, <2>1 DEF Sorting, V
  <2>. QED  BY <1>4, <2>2 DEF ToSet
<1>. QED  BY <1>2, <1>3, <1>5, <1>6 DEF sorted, V

-----------------------------------------------------------------------------
(* Sets as lists. *)

\* A list without repetition, as long as the set is large, has all of it.
LEMMA SetListing ==
  ASSUME NEW S, IsFiniteSet(S), NEW s \in [1 .. Cardinality(S) -> S], Distinct(s)
  PROVE  s \in Seq(S) /\ Len(s) = Cardinality(S) /\ ToSet(s) = S
<1> DEFINE N == Cardinality(S)
<1>1. N \in Nat
  BY FS_CardinalityType
<1>2. s \in Injection(1 .. N, S)
  BY Fun_IsInj DEF Distinct
<1>3. Cardinality(1 .. N) = N
  BY <1>1, FS_Interval
<1>4. s \in Surjection(1 .. N, S)
  BY <1>2, <1>3, FS_Injection
<1>5. \A x \in S : \E n \in 1 .. N : s[n] = x
  BY <1>4 DEF Surjection
<1> HIDE DEF N
<1>6. s \in Seq(S) /\ Len(s) = N
  BY <1>1 DEF N
<1>7. ToSet(s) = S
  BY <1>5 DEF ToSet, N
<1>. QED  BY <1>6, <1>7 DEF N

LEMMA SetToSeqListing ==
  ASSUME NEW S, IsFiniteSet(S)
  PROVE  LET s == SetToSeq(S)
         IN  s \in Seq(S) /\ Distinct(s) /\ ToSet(s) = S /\ Len(s) = Cardinality(S)
<1> DEFINE N == Cardinality(S)
           Lists(f) == f \in [1 .. N -> S] /\ IsInjective(f)
<1>1. \E f : Lists(f)
  <2>1. ExistsBijection(1 .. N, S)
    BY FS_CardinalityType
  <2>2. PICK f : f \in Bijection(1 .. N, S)
    BY <2>1 DEF ExistsBijection
  <2>3. f \in [1 .. N -> S] /\ \A m, n \in 1 .. N : f[m] = f[n] => m = n
    BY <2>2, Fun_BijectionProperties
  <2>. QED  BY <2>3 DEF IsInjective
<1>2. SetToSeq(S) = CHOOSE f \in [1 .. N -> S] : IsInjective(f)
  BY DEF SetToSeq
<1>3. SetToSeq(S) \in [1 .. N -> S] /\ IsInjective(SetToSeq(S))
  BY <1>1, <1>2
<1>4. Distinct(SetToSeq(S))
  BY <1>3 DEF IsInjective, Distinct
<1>. QED  BY <1>3, <1>4, SetListing

LEMMA SetToSeqsListing ==
  ASSUME NEW S, IsFiniteSet(S), NEW s \in SetToSeqs(S)
  PROVE  s \in Seq(S) /\ Distinct(s) /\ ToSet(s) = S /\ Len(s) = Cardinality(S)
<1>1. s \in [1 .. Cardinality(S) -> S] /\ Distinct(s)
  BY DEF SetToSeqs, Distinct
<1>. QED  BY <1>1, SetListing


-----------------------------------------------------------------------------
(* The depth-first search.                                                 *)

LEMMA FrontAndLast ==
  ASSUME NEW S, NEW s \in Seq(S), s # <<>>
  PROVE  /\ Last(s) \in S /\ Front(s) \in Seq(S)
         /\ ToSet(s) = ToSet(Front(s)) \cup {Last(s)}
         /\ Len(Front(s)) = Len(s) - 1 /\ Len(s) \in Nat \ {0}
<1>1. DOMAIN s = 1 .. Len(s) /\ Len(s) \in Nat \ {0} /\ Len(s) \in DOMAIN s
  OBVIOUS
<1>2. /\ Front(s) \in Seq(S) /\ Len(Front(s)) = Len(s) - 1
      /\ DOMAIN Front(s) = 1 .. Len(s) - 1
      /\ \A n \in 1 .. Len(s) - 1 : Front(s)[n] = s[n]
  BY <1>1 DEF Front
<1>3. \A n \in DOMAIN s : n \in DOMAIN Front(s) \/ n = Len(s)
  BY <1>1, <1>2
<1>4. \A n \in DOMAIN Front(s) : n \in DOMAIN s
  BY <1>1, <1>2
<1>5. ToSet(s) = ToSet(Front(s)) \cup {Last(s)}
  BY <1>1, <1>2, <1>3, <1>4 DEF ToSet, Last
<1>. QED  BY <1>1, <1>2, <1>5 DEF Last

\* Finitely many finite sets have finitely many elements.
LEMMA FiniteUnion ==
  ASSUME NEW S, IsFiniteSet(S), NEW f, \A x \in S : IsFiniteSet(f[x])
  PROVE  IsFiniteSet(UNION {f[x] : x \in S})
<1> DEFINE s == SetToSeq(S)
           N == Len(s)
           U(n) == UNION {f[s[m]] : m \in 1 .. n}
           T == {n \in 0 .. N : IsFiniteSet(U(n))}
<1>1. s \in Seq(S) /\ ToSet(s) = S
  BY SetToSeqListing
<1> HIDE DEF s
<1>2. N \in Nat /\ DOMAIN s = 1 .. N
  BY <1>1
<1>3. 0 \in T
  <2>1. U(0) = {}
    OBVIOUS
  <2>. QED  BY <1>2, <2>1, FS_EmptySet
<1>4. ASSUME NEW n \in 1 .. N, n - 1 \in T PROVE n \in T
  <2>1. U(n) = U(n - 1) \cup f[s[n]]
    <3>1. \A m \in 1 .. n : m \in 1 .. n - 1 \/ m = n
      BY <1>2
    <3>2. n \in 1 .. n /\ \A m \in 1 .. n - 1 : m \in 1 .. n
      BY <1>2
    <3>. QED  BY <3>1, <3>2
  <2>2. IsFiniteSet(U(n - 1)) /\ IsFiniteSet(f[s[n]])
    BY <1>1, <1>2, <1>4
  <2> HIDE DEF U
  <2>3. IsFiniteSet(U(n))
    BY <2>1, <2>2, FS_Union
  <2>. QED  BY <1>2, <2>3
<1>5. N \in T
  <2> HIDE DEF T
  <2>1. \A n \in 0 .. N : n \in T
    BY <1>2, <1>3, <1>4, UpTo
  <2>. QED  BY <1>2, <2>1
<1>6. U(N) = UNION {f[x] : x \in S}
  BY <1>1, <1>2 DEF ToSet
<1>. QED  BY <1>5, <1>6

\* The edges that the search has still to follow.
Ahead(g, visited) == {e \in Edges(g) : e[1] \notin visited}

LEMMA AheadLess ==
  ASSUME NEW g, IsFiniteSet(Edges(g)), NEW visited, NEW node \in DOMAIN g, node \notin visited
  PROVE  /\ IsFiniteSet(g[node]) /\ IsFiniteSet(Ahead(g, visited))
         /\ Cardinality(Ahead(g, visited)) =
              Cardinality(g[node]) + Cardinality(Ahead(g, visited \cup {node}))
<1> DEFINE here == {node} \X g[node]
           rest == Ahead(g, visited \cup {node})
           f == [e \in here |-> e[2]]
<1>1. here \subseteq Edges(g)
  BY DEF Edges
<1>2. Ahead(g, visited) = here \cup rest /\ here \cap rest = {}
  <2>1. \A e \in Edges(g) : e[1] = node => e \in here
    BY DEF Edges
  <2>. QED  BY <1>1, <2>1 DEF Ahead
<1>3. IsFiniteSet(here) /\ IsFiniteSet(rest)
  <2>1. rest \subseteq Edges(g)
    BY DEF Ahead
  <2>. QED  BY <1>1, <2>1, FS_Subset
<1>4. IsFiniteSet(g[node])
  <2>1. f \in [here -> g[node]]
    OBVIOUS
  <2>2. \A d \in g[node] : \E e \in here : f[e] = d
    <3> SUFFICES ASSUME NEW d \in g[node] PROVE \E e \in here : f[e] = d
      OBVIOUS
    <3>1. <<node, d>> \in here /\ f[<<node, d>>] = d
      OBVIOUS
    <3>. QED  BY <3>1
  <2>3. f \in Surjection(here, g[node])
    BY <2>1, <2>2, Fun_IsSurj
  <2>. QED  BY <1>3, <2>3, FS_Surjection
<1>5. Cardinality(here) = Cardinality(g[node])
  <2>1. IsFiniteSet({node}) /\ Cardinality({node}) = 1
    BY FS_Singleton
  <2>2. Cardinality(here) = 1 * Cardinality(g[node])
    BY <1>4, <2>1, FS_Product
  <2>. QED  BY <1>4, <2>2, FS_CardinalityType
<1>6. Cardinality(here) \in Nat /\ Cardinality(rest) \in Nat
  BY <1>3, FS_CardinalityType
<1> HIDE DEF here, rest
<1>7. /\ IsFiniteSet(here \cup rest)
      /\ Cardinality(here \cup rest) = Cardinality(here) + Cardinality(rest)
  <2>1. Cardinality(here \cap rest) = 0
    BY <1>2, FS_EmptySet
  <2>2. /\ IsFiniteSet(here \cup rest)
        /\ Cardinality(here \cup rest)
             = Cardinality(here) + Cardinality(rest) - Cardinality(here \cap rest)
    BY ONLY <1>3, FS_Union
  <2>. QED  BY <1>6, <2>1, <2>2
<1>. QED  BY <1>2, <1>4, <1>5, <1>7 DEF rest


\* V holds what the search starts from and all that the edges lead to from V.
ClosedUnder(g, from, V) == from \subseteq V /\ \A n \in V : g[n] \subseteq V

\* After k turns of n: all that is reached has been visited or is on the
\* stack, and nothing else is; id has not been visited; and while the search
\* goes on the stack and the edges ahead are no more than the turns left.
Searching(g, id, from, n, k, s) ==
  /\ s = [stack |-> s.stack, visited |-> s.visited]
  /\ s.stack \in Seq(DOMAIN g) /\ s.visited \in SUBSET DOMAIN g
  /\ id \notin s.visited
  /\ from \subseteq s.visited \cup ToSet(s.stack)
  /\ \A v \in s.visited : g[v] \subseteq s.visited \cup ToSet(s.stack)
  /\ \A V \in SUBSET DOMAIN g :
       ClosedUnder(g, from, V) => s.visited \cup ToSet(s.stack) \subseteq V
  /\ \/ s.stack = <<>>
     \/ Last(s.stack) = id
     \/ Len(s.stack) + Cardinality(Ahead(g, s.visited)) <= n - k

TurnsNeeded(from, g) == Cardinality(from) + Cardinality(Edges(g))

LEMMA SearchingBegins ==
  ASSUME NEW D, NEW g \in [D -> SUBSET D], IsFiniteSet(Edges(g)),
         NEW id, NEW from \in SUBSET D, IsFiniteSet(from)
  PROVE  Searching(g, id, from, TurnsNeeded(from, g), 0, [stack |-> SetToSeq(from), visited |-> {}])
<1> DEFINE s == [stack |-> SetToSeq(from), visited |-> {}]
<1>1. /\ SetToSeq(from) \in Seq(D) /\ ToSet(SetToSeq(from)) = from
      /\ Len(SetToSeq(from)) = Cardinality(from)
  <2>1. /\ SetToSeq(from) \in Seq(from) /\ ToSet(SetToSeq(from)) = from
        /\ Len(SetToSeq(from)) = Cardinality(from)
    BY SetToSeqListing
  <2>. QED  BY <2>1
<1>2. Ahead(g, {}) = Edges(g)
  BY DEF Ahead
<1>3. Cardinality(from) \in Nat /\ Cardinality(Edges(g)) \in Nat
  BY FS_CardinalityType
<1>4. /\ s.stack = SetToSeq(from) /\ s.visited = {}
      /\ s = [stack |-> s.stack, visited |-> s.visited]
  OBVIOUS
<1>5. DOMAIN g = D
  OBVIOUS
<1> HIDE DEF s
<1>6. Len(s.stack) + Cardinality(Ahead(g, s.visited)) <= TurnsNeeded(from, g) - 0
  BY <1>1, <1>2, <1>3, <1>4 DEF TurnsNeeded
<1>7. Searching(g, id, from, TurnsNeeded(from, g), 0, s)
  BY <1>1, <1>4, <1>5, <1>6 DEF Searching, ClosedUnder
<1>. QED  BY <1>7 DEF s

LEMMA SearchingProceeds ==
  ASSUME NEW D, NEW g \in [D -> SUBSET D], IsFiniteSet(Edges(g)),
         NEW id, NEW from \in SUBSET D, NEW n \in Nat, NEW k \in Nat \ {0},
         NEW s, Searching(g, id, from, n, k - 1, s)
  PROVE  Searching(g, id, from, n, k, Visit(g, id, s))
<1>1. CASE s.stack = <<>> \/ Last(s.stack) = id
  BY <1>1 DEF Visit, Searching
<1>2. CASE s.stack # <<>> /\ Last(s.stack) # id
  <2> DEFINE node == Last(s.stack)
             rest == Front(s.stack)
  <2>1. DOMAIN g = D /\ s.stack \in Seq(D) /\ s.visited \in SUBSET D
    BY DEF Searching
  <2>2. /\ node \in D /\ rest \in Seq(D)
        /\ ToSet(s.stack) = ToSet(rest) \cup {node}
        /\ Len(rest) = Len(s.stack) - 1 /\ Len(s.stack) \in Nat
    BY <1>2, <2>1, FrontAndLast
  <2> DEFINE left == Cardinality(Ahead(g, s.visited))
  <2>3. left \in Nat
    <3>1. Ahead(g, s.visited) \subseteq Edges(g)
      BY DEF Ahead
    <3>. QED  BY <3>1, FS_Subset, FS_CardinalityType
  <2>4. Len(s.stack) + left <= n - (k - 1)
    BY <1>2 DEF Searching
  <2>5. node # id
    BY <1>2
  <2> HIDE DEF node, rest, left
  <2>6. CASE node \in s.visited
    <3> DEFINE t == [s EXCEPT !.stack = rest]
    <3>1. Visit(g, id, s) = t
      BY <1>2, <2>6 DEF Visit, node, rest
    <3>2. /\ t.stack = rest /\ t.visited = s.visited
          /\ t = [stack |-> t.stack, visited |-> t.visited]
      BY DEF Searching
    <3>3. t.visited \cup ToSet(t.stack) = s.visited \cup ToSet(s.stack)
      BY <2>2, <2>6, <3>2
    <3>4. Len(t.stack) + Cardinality(Ahead(g, t.visited)) <= n - k
      BY <2>2, <2>3, <2>4, <3>2 DEF left
    <3> HIDE DEF t
    <3>5. Searching(g, id, from, n, k, t)
      BY <2>1, <2>2, <3>2, <3>3, <3>4 DEF Searching
    <3>. QED  BY <3>1, <3>5
  <2>7. CASE node \notin s.visited
    <3> DEFINE pushed == Followed(g, node)
               stack == rest \o pushed
               visited == s.visited \cup {node}
               t == [stack |-> stack, visited |-> visited]
    <3>1. Visit(g, id, s) = t
      BY <1>2, <2>7 DEF Visit, node, rest
    <3>2. /\ IsFiniteSet(g[node])
          /\ left = Cardinality(g[node]) + Cardinality(Ahead(g, visited))
      BY <2>1, <2>2, <2>7, AheadLess DEF left
    <3>3. /\ pushed \in Seq(D) /\ ToSet(pushed) = g[node]
          /\ Len(pushed) = Cardinality(g[node])
      <4>1. /\ pushed \in Seq(g[node]) /\ ToSet(pushed) = g[node]
            /\ Len(pushed) = Cardinality(g[node])
        BY <3>2, SetToSeqListing DEF Followed
      <4>2. g[node] \subseteq D
        BY <2>2
      <4>. QED  BY <4>1, <4>2
    <3> HIDE DEF pushed
    <3>4. /\ stack \in Seq(D) /\ ToSet(stack) = ToSet(rest) \cup g[node]
          /\ Len(stack) = Len(rest) + Len(pushed)
      <4>1. stack \in Seq(D) /\ ToSet(stack) = ToSet(rest) \cup ToSet(pushed)
        BY <2>2, <3>3, JoinedElements
      <4>2. Len(stack) = Len(rest) + Len(pushed)
        BY <2>2, <3>3
      <4>. QED  BY <3>3, <4>1, <4>2
    <3>5. Cardinality(Ahead(g, visited)) \in Nat /\ Cardinality(g[node]) \in Nat
      <4>1. Ahead(g, visited) \subseteq Edges(g)
        BY DEF Ahead
      <4> HIDE DEF visited
      <4>. QED  BY <3>2, <4>1, FS_Subset, FS_CardinalityType
    <3>6. /\ t.stack = stack /\ t.visited = visited
          /\ t = [stack |-> t.stack, visited |-> t.visited]
      OBVIOUS
    <3> HIDE DEF stack, t
    <3>7. Len(t.stack) + Cardinality(Ahead(g, t.visited)) <= n - k
      <4>1. Len(stack) = Len(s.stack) - 1 + Cardinality(g[node])
        BY <2>2, <3>3, <3>4
      <4> DEFINE ahead == Cardinality(Ahead(g, visited))
                 more == Cardinality(g[node])
      <4>2. left = more + ahead /\ ahead \in Nat /\ more \in Nat
        BY <3>2, <3>5
      <4> HIDE DEF ahead, more
      <4>3. Len(stack) + ahead <= n - k
        BY <2>2, <2>4, <4>1, <4>2 DEF more
      <4>. QED  BY <3>6, <4>3 DEF ahead
    <3>8. t.visited \cup ToSet(t.stack) = s.visited \cup ToSet(s.stack) \cup g[node]
      BY <2>2, <3>4, <3>6
    <3>9. t.visited \in SUBSET D /\ id \notin t.visited
      BY <2>1, <2>2, <2>5, <3>6 DEF Searching
    <3>10. ASSUME NEW v \in t.visited
           PROVE  g[v] \subseteq t.visited \cup ToSet(t.stack)
      BY <3>6, <3>8 DEF Searching
    <3>11. ASSUME NEW V \in SUBSET D, ClosedUnder(g, from, V)
           PROVE  t.visited \cup ToSet(t.stack) \subseteq V
      <4>1. s.visited \cup ToSet(s.stack) \subseteq V
        BY <2>1, <3>11 DEF Searching
      <4>2. g[node] \subseteq V
        BY <2>2, <3>11, <4>1 DEF ClosedUnder
      <4>. QED  BY <3>8, <4>1, <4>2
    <3>12. from \subseteq t.visited \cup ToSet(t.stack)
      BY <3>8 DEF Searching
    <3> HIDE DEF visited
    <3>13. Searching(g, id, from, n, k, t)
      BY <2>1, <3>4, <3>6, <3>7, <3>9, <3>10, <3>11, <3>12 DEF Searching
    <3>. QED  BY <3>1, <3>13
  <2>. QED  BY <2>6, <2>7
<1>. QED  BY <1>1, <1>2


LEMMA ReachesSearching ==
  ASSUME NEW D, NEW g \in [D -> SUBSET D], IsFiniteSet(Edges(g)),
         NEW id, NEW from \in SUBSET D, IsFiniteSet(from)
  PROVE  \E s : /\ Searching(g, id, from, TurnsNeeded(from, g), TurnsNeeded(from, g), s)
                /\ Reaches(g, id, from) <=> s.stack # <<>>
<1> DEFINE N == TurnsNeeded(from, g)
           init == [stack |-> SetToSeq(from), visited |-> {}]
           States == {s \in [stack : Seq(D), visited : SUBSET D] :
                        \E k \in Nat : Searching(g, id, from, N, k, s)}
           Turns(f) == f = [k \in 0 .. N |-> IF k = 0 THEN init ELSE Visit(g, id, f[k - 1])]
           turn == CHOOSE f : Turns(f)
<1>1. N \in Nat
  BY FS_CardinalityType DEF TurnsNeeded
<1>2. Searching(g, id, from, N, 0, init)
  BY SearchingBegins
<1>3. Reaches(g, id, from) <=> turn[N].stack # <<>>
  BY DEF Reaches, TurnsNeeded
<1> HIDE DEF init, N
<1>4. \A k \in Nat : \A s : Searching(g, id, from, N, k, s) =>
        s \in [stack : Seq(D), visited : SUBSET D]
  BY DEF Searching
<1>5. init \in States
  BY <1>2, <1>4
<1>6. ASSUME NEW s \in States
      PROVE  Visit(g, id, s) \in States
  <2>1. PICK k \in Nat : Searching(g, id, from, N, k, s)
    BY <1>6
  <2>2. k + 1 \in Nat \ {0} /\ (k + 1) - 1 = k
    OBVIOUS
  <2>3. Searching(g, id, from, N, k + 1, Visit(g, id, s))
    BY <1>1, <2>1, <2>2, SearchingProceeds
  <2>. QED  BY <1>4, <2>2, <2>3
<1> HIDE DEF States
<1> DEFINE step == [k \in 1 .. N |-> [s \in States |-> Visit(g, id, s)]]
<1>7. step \in [1 .. N -> [States -> States]]
  BY <1>6
<1>8. \A k \in 1 .. N : \A s \in States : step[k][s] = Visit(g, id, s)
  OBVIOUS
<1> HIDE DEF step
<1>9. PICK f \in [0 .. N -> States] : IsLoop(f, N, init, step)
  BY <1>1, <1>5, <1>7, LoopRuns
<1>10. Turns(f)
  <2>1. \A k \in 0 .. N : f[k] = IF k = 0 THEN init ELSE Visit(g, id, f[k - 1])
    <3> SUFFICES ASSUME NEW k \in 1 .. N
                 PROVE  f[k] = Visit(g, id, f[k - 1])
      BY <1>9 DEF IsLoop
    <3>1. k - 1 \in 0 .. N
      BY <1>1
    <3>. QED  BY <1>8, <1>9, <3>1 DEF IsLoop
  <2>. QED  BY <2>1
<1>11. Turns(turn)
  <2> HIDE DEF Turns
  <2>. QED  BY <1>10
<1> HIDE DEF turn
<1>12. turn[0] = init /\ \A k \in 1 .. N : turn[k] = Visit(g, id, turn[k - 1])
  BY <1>1, <1>11
<1> DEFINE T == {k \in 0 .. N : Searching(g, id, from, N, k, turn[k])}
<1>13. N \in T
  <2>1. 0 \in T
    BY <1>1, <1>2, <1>12
  <2>2. \A k \in 1 .. N : k - 1 \in T => k \in T
    BY <1>1, <1>12, SearchingProceeds
  <2> HIDE DEF T
  <2>3. \A k \in 0 .. N : k \in T
    BY <1>1, <2>1, <2>2, UpTo
  <2>. QED  BY <1>1, <2>3
<1>14. Searching(g, id, from, N, N, turn[N])
  BY <1>13
<1>. QED  BY <1>3, <1>14 DEF N

\* The search finds id exactly when id is in every set that holds what the
\* search starts from and is closed under the edges.
LEMMA ReachesExactly ==
  ASSUME NEW D, NEW g \in [D -> SUBSET D], IsFiniteSet(Edges(g)),
         NEW id, NEW from \in SUBSET D, IsFiniteSet(from)
  PROVE  Reaches(g, id, from) <=> \A V \in SUBSET D : ClosedUnder(g, from, V) => id \in V
<1> DEFINE N == TurnsNeeded(from, g)
<1>1. PICK s : /\ Searching(g, id, from, N, N, s)
               /\ Reaches(g, id, from) <=> s.stack # <<>>
  BY ReachesSearching
<1>2. N \in Nat
  BY FS_CardinalityType DEF TurnsNeeded
<1>3. DOMAIN g = D /\ s.stack \in Seq(D) /\ s.visited \in SUBSET D
  BY <1>1 DEF Searching
<1> HIDE DEF N
<1>4. ASSUME s.stack # <<>>, NEW V \in SUBSET D, ClosedUnder(g, from, V)
      PROVE  id \in V
  <2>1. /\ ToSet(s.stack) = ToSet(Front(s.stack)) \cup {Last(s.stack)}
        /\ Len(s.stack) \in Nat \ {0}
    BY <1>3, <1>4, FrontAndLast
  <2>2. Cardinality(Ahead(g, s.visited)) \in Nat
    <3>1. Ahead(g, s.visited) \subseteq Edges(g)
      BY DEF Ahead
    <3>. QED  BY <3>1, FS_Subset, FS_CardinalityType
  <2>3. Last(s.stack) = id
    BY <1>1, <1>2, <1>4, <2>1, <2>2 DEF Searching
  <2>4. s.visited \cup ToSet(s.stack) \subseteq V
    BY <1>1, <1>3, <1>4 DEF Searching
  <2>. QED  BY <2>1, <2>3, <2>4
<1>5. ASSUME s.stack = <<>>
      PROVE  ClosedUnder(g, from, s.visited) /\ id \notin s.visited
  <2>1. ToSet(s.stack) = {}
    BY <1>5 DEF ToSet
  <2>. QED  BY <1>1, <2>1 DEF Searching, ClosedUnder
<1>. QED  BY <1>1, <1>3, <1>4, <1>5

\* The sort is complete when every set of nodes has one that leads to none of
\* them.
LEMMA AcyclicSorts ==
  ASSUME NEW D, NEW nodes \in Seq(D), Distinct(nodes), NEW g,
         \A W \in SUBSET D : W # {} => \E i \in W : g[i] \cap W = {}
  PROVE  Sorts(TopoSort(nodes, g), nodes, g)
<1> DEFINE sorted == TopoSort(nodes, g)
           W == ToSet(nodes) \ ToSet(sorted)
<1>1. /\ sorted \in Seq(D) /\ Distinct(sorted)
      /\ ToSet(sorted) \subseteq ToSet(nodes)
      /\ \A m, n \in DOMAIN sorted : sorted[n] \in g[sorted[m]] => n < m
      /\ \A v \in ToSet(nodes) :
           g[v] \cap ToSet(nodes) \subseteq ToSet(sorted) => v \in ToSet(sorted)
  BY TopoSortProperties
<1> HIDE DEF sorted
<1>2. W = {}
  <2> SUFFICES ASSUME W # {} PROVE FALSE
    OBVIOUS
  <2>1. W \in SUBSET D
    BY DEF ToSet
  <2>2. PICK i \in W : g[i] \cap W = {}
    BY <2>1
  <2>. QED  BY <1>1, <2>2
<1>3. ToSet(sorted) = ToSet(nodes)
  BY <1>1, <1>2
<1>4. Len(sorted) = Len(nodes)
  <2>1. Cardinality(ToSet(sorted)) = Len(sorted) /\ Cardinality(ToSet(nodes)) = Len(nodes)
    BY <1>1, DistinctCount
  <2>. QED  BY <1>3, <2>1
<1>. QED  BY <1>1, <1>3, <1>4 DEF Sorts, sorted

=============================================================================
