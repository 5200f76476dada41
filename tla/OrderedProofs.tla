------------------------------ MODULE OrderedProofs ------------------------------
(***************************************************************************)
(* What the proofs about lists keep needing: a set of numbers has a least  *)
(* one, and a finite set can be listed, in any order or in increasing      *)
(* order, each of its elements once.                                       *)
(***************************************************************************)
EXTENDS Ordered, SequencesExt, FiniteSetTheorems, TLAPS

\* A set of numbers has a least one.
LEMMA LeastOf ==
  ASSUME NEW S \in SUBSET Nat, S # {}
  PROVE  \E m \in S : \A j \in S : m <= j
<1>1. PICK m \in S : \A j \in S : <<j, m>> \notin OpToRel(<, Nat)
  BY NatLessThanWellFounded, WFMin
<1>2. \A j \in S : ~(j < m)
  BY <1>1 DEF OpToRel
<1> QED
  BY <1>2

\* SetToSeq lists the elements of a finite set, each once.
LEMMA SetToSeqLists ==
  ASSUME NEW S, IsFiniteSet(S)
  PROVE  /\ Cardinality(S) \in Nat
         /\ SetToSeq(S) \in [1 .. Cardinality(S) -> S]
         /\ IsInjective(SetToSeq(S))
         /\ \A x \in S : \E k \in 1 .. Cardinality(S) : SetToSeq(S)[k] = x
<1>1. /\ Cardinality(S) \in Nat
      /\ Bijection(1 .. Cardinality(S), S) # {}
  BY FS_CardinalityType DEF ExistsBijection
<1>2. PICK f \in [1 .. Cardinality(S) -> S] : IsInjective(f)
  BY <1>1 DEF Bijection, Injection
<1>3. /\ SetToSeq(S) \in [1 .. Cardinality(S) -> S]
      /\ IsInjective(SetToSeq(S))
  BY <1>2 DEF SetToSeq
<1>4. SetToSeq(S) \in Injection(1 .. Cardinality(S), S)
  BY <1>3 DEF Injection
<1>5. Cardinality(1 .. Cardinality(S)) = Cardinality(S)
  BY <1>1, FS_Interval
<1>6. SetToSeq(S) \in Surjection(1 .. Cardinality(S), S)
  BY <1>4, <1>5, FS_Injection
<1> QED
  BY <1>1, <1>3, <1>6 DEF Surjection

\* InOrder lists a finite set of numbers in order, each once.
LEMMA InOrderLists ==
  ASSUME NEW S \in SUBSET Nat, IsFiniteSet(S)
  PROVE  /\ Cardinality(S) \in Nat
         /\ InOrder(S) \in [1 .. Cardinality(S) -> S]
         /\ \A k, l \in 1 .. Cardinality(S) : k < l => InOrder(S)[k] < InOrder(S)[l]
         /\ \A x \in S : \E k \in 1 .. Cardinality(S) : InOrder(S)[k] = x
<1> DEFINE n == Cardinality(S)
           Upto(i) == {j \in S : j <= i}
           rank == [i \in S |-> Cardinality(Upto(i))]
<1>0. \A i \in S : i \in Nat
  OBVIOUS
<1>1. n \in Nat
  BY FS_CardinalityType
<1>2. IsFiniteSet(1 .. n) /\ Cardinality(1 .. n) = n
  BY <1>1, FS_Interval
<1>3. ASSUME NEW i \in S PROVE rank[i] \in 1 .. n /\ IsFiniteSet(Upto(i))
  <2>1. IsFiniteSet(Upto(i)) /\ Cardinality(Upto(i)) <= n
    BY FS_Subset
  <2>2. Cardinality(Upto(i)) \in Nat
    BY <2>1, FS_CardinalityType
  <2>3. i \in Upto(i)
    OBVIOUS
  <2>4. Cardinality(Upto(i)) # 0
    BY <2>1, <2>3, FS_EmptySet
  <2> QED
    BY <1>1, <2>1, <2>2, <2>4
<1>4. ASSUME NEW i \in S, NEW j \in S, i < j PROVE rank[i] < rank[j]
  <2>1. Upto(i) \in SUBSET Upto(j)
    <3>1. i \in Nat /\ j \in Nat
      BY <1>0
    <3>2. ASSUME NEW x \in S, x <= i PROVE x <= j
      <4>1. x \in Nat
        BY <1>0
      <4> QED
        BY <3>1, <3>2, <4>1, <1>4
    <3> QED
      BY <3>2
  <2>2. j \in Upto(j) /\ j \notin Upto(i)
    BY <1>4
  <2>3. /\ Cardinality(Upto(i)) <= Cardinality(Upto(j))
        /\ Cardinality(Upto(j)) = Cardinality(Upto(i)) => Upto(j) = Upto(i)
    BY <2>1, <1>3, FS_Subset
  <2> QED
    BY <2>2, <2>3, <1>3
<1> HIDE DEF n, rank
<1>5. rank \in [S -> 1 .. n]
  BY <1>3 DEF rank
<1>6. rank \in Injection(S, 1 .. n)
  <2>1. \A i, j \in S : rank[i] = rank[j] => i = j
    BY <1>4, <1>5, <1>1
  <2> QED
    BY <2>1, <1>5 DEF Injection, IsInjective
<1>7. \A k \in 1 .. n : \E i \in S : rank[i] = k
  <2>1. rank \in Surjection(S, 1 .. n)
    BY <1>6, <1>2, FS_Injection DEF n
  <2> QED
    BY <2>1 DEF Surjection
<1> DEFINE g == [k \in 1 .. n |-> CHOOSE i \in S : rank[i] = k]
<1>8. \A k \in 1 .. n : g[k] \in S /\ rank[g[k]] = k
  BY <1>7
<1> HIDE DEF g
<1>9. \A k, l \in 1 .. n : k < l => g[k] < g[l]
  <2> SUFFICES ASSUME NEW k \in 1 .. n, NEW l \in 1 .. n, k < l, ~(g[k] < g[l]) PROVE FALSE
    OBVIOUS
  <2>1. g[k] \in S /\ g[l] \in S /\ rank[g[k]] = k /\ rank[g[l]] = l
    BY <1>8
  <2>2. CASE g[l] < g[k]
    <3>1. rank[g[l]] < rank[g[k]]
      BY <2>1, <2>2, <1>4
    <3> QED
      BY <2>1, <3>1, <1>1
  <2>3. CASE g[l] = g[k]
    BY <2>1, <2>3, <1>1
  <2> QED
    <3>1. g[k] \in Nat /\ g[l] \in Nat
      BY <2>1, <1>0
    <3> QED
      BY <2>2, <2>3, <3>1
<1>10. g \in [1 .. n -> S]
  BY <1>8 DEF g
<1>11. \E f \in [1 .. n -> S] : \A k, l \in DOMAIN f : k < l => f[k] < f[l]
  BY <1>9, <1>10
<1>12. InOrder(S) \in [1 .. n -> S] /\ \A k, l \in 1 .. n : k < l => InOrder(S)[k] < InOrder(S)[l]
  BY <1>11 DEF InOrder, n
<1>13. InOrder(S) \in Injection(1 .. n, S)
  <2>1. \A k, l \in 1 .. n : InOrder(S)[k] = InOrder(S)[l] => k = l
    <3> SUFFICES ASSUME NEW k \in 1 .. n, NEW l \in 1 .. n, InOrder(S)[k] = InOrder(S)[l], k # l
                 PROVE  FALSE
      OBVIOUS
    <3>1. k < l \/ l < k
      BY <1>1
    <3>2. InOrder(S)[k] \in Nat
      BY <1>12
    <3> QED
      BY <3>1, <3>2, <1>12
  <2> QED
    BY <2>1, <1>12 DEF Injection, IsInjective
<1>14. InOrder(S) \in Surjection(1 .. n, S)
  BY <1>13, <1>2, FS_Injection DEF n
<1> QED
  BY <1>1, <1>12, <1>14 DEF Surjection, n

\* The k-th of a list in order has k elements up to it, and is the only one.
LEMMA RankInOrder ==
  ASSUME NEW S \in SUBSET Nat, IsFiniteSet(S), NEW k \in 1 .. Cardinality(S)
  PROVE  /\ Cardinality({j \in S : j <= InOrder(S)[k]}) = k
         /\ \A i \in S : Cardinality({j \in S : j <= i}) = k => i = InOrder(S)[k]
<1> DEFINE n == Cardinality(S)
           f == InOrder(S)
           T(l) == {j \in S : j <= f[l]}
<1>1. /\ n \in Nat /\ f \in [1 .. n -> S]
      /\ \A l, m \in 1 .. n : l < m => f[l] < f[m]
      /\ \A x \in S : \E l \in 1 .. n : f[l] = x
  BY InOrderLists
<1>2. ASSUME NEW x \in S PROVE x \in Nat
  OBVIOUS
<1> HIDE DEF n, f
<1>3. ASSUME NEW l \in 1 .. n PROVE Cardinality(T(l)) = l
  <2>1. l \in Nat /\ 1 .. l \subseteq 1 .. n
    BY <1>1
  <2> DEFINE g == [m \in 1 .. l |-> f[m]]
  <2>2. ASSUME NEW m \in 1 .. l PROVE f[m] \in T(l)
    <3>0. m \in 1 .. n /\ (m = l \/ m < l)
      BY <2>1
    <3>1. m \in 1 .. n /\ f[m] \in Nat /\ f[l] \in Nat /\ (m = l \/ m < l)
      BY <3>0, <1>1, <1>2
    <3>2. f[m] <= f[l]
      BY <3>1, <1>1
    <3> QED
      BY <3>1, <3>2, <1>1
  <2>3. ASSUME NEW x \in T(l) PROVE \E m \in 1 .. l : f[m] = x
    <3>1. PICK m \in 1 .. n : f[m] = x
      BY <1>1
    <3>2. ~(l < m)
      <4> SUFFICES ASSUME l < m PROVE FALSE
        OBVIOUS
      <4>1. f[l] < x /\ x <= f[l] /\ x \in Nat /\ f[l] \in Nat
        BY <3>1, <1>1, <1>2
      <4> QED
        BY <4>1
    <3> QED
      BY <3>1, <3>2, <2>1, <1>1
  <2>4. \A x, y \in 1 .. l : f[x] = f[y] => x = y
    <3> SUFFICES ASSUME NEW x \in 1 .. l, NEW y \in 1 .. l, f[x] = f[y], x # y PROVE FALSE
      OBVIOUS
    <3>1. x < y \/ y < x
      BY <2>1
    <3>2. x \in 1 .. n /\ y \in 1 .. n /\ f[x] \in Nat
      BY <2>1, <1>1, <1>2
    <3> QED
      BY <3>1, <3>2, <1>1
  <2>5. g \in Surjection(1 .. l, T(l)) /\ g \in Injection(1 .. l, T(l))
    <3> HIDE DEF T
    <3> QED
      BY <2>2, <2>3, <2>4 DEF Surjection, Injection, IsInjective
  <2>6. IsFiniteSet(1 .. l) /\ Cardinality(1 .. l) = l
    BY <2>1, FS_Interval
  <2>7. Cardinality(T(l)) = Cardinality(1 .. l)
    <3> HIDE DEF g, T
    <3> QED
      BY <2>5, <2>6, FS_Surjection
  <2> QED
    BY <2>6, <2>7
<1>4. ASSUME NEW i \in S, Cardinality({j \in S : j <= i}) = k PROVE i = f[k]
  <2>1. PICK l \in 1 .. n : f[l] = i
    BY <1>1
  <2>2. T(l) = {j \in S : j <= i}
    BY <2>1
  <2>3. l = k
    BY <1>3, <1>4, <2>2
  <2> QED
    BY <2>1, <2>3
<1> QED
  BY <1>3, <1>4 DEF n, f

\* The length of a list that is given place by place.
LEMMA LenOfList ==
  ASSUME NEW n \in Nat, NEW f, f = [i \in 1 .. n |-> f[i]]
  PROVE  Len(f) = n
<1> DEFINE S == {f[i] : i \in 1 .. n}
<1>1. f \in [1 .. n -> S]
  OBVIOUS
<1> QED
  BY <1>1

================================================================================
