------------------------------ MODULE ListLemmas ------------------------------
(* Facts about numbers, finite sets and lists that the proofs share: least and *)
(* greatest elements, lists of the elements of a set, sorted lists, and the    *)
(* first elements of a set.                                                    *)
EXTENDS Naturals, Sequences, FiniteSets, SequencesExt,
        FiniteSetTheorems, WellFoundedInduction, TLAPS

\* A set of natural numbers has a least one, and one that is bounded has a greatest.
LEMMA Least ==
    ASSUME NEW D, D \subseteq Nat, D # {}
    PROVE  \E d \in D : \A e \in D : ~(e < d)
<1> DEFINE R == OpToRel(<, Nat)
<1>1. \A d, e \in Nat : e < d => <<e, d>> \in R
  BY DEF OpToRel
<1>2. IsWellFoundedOn(R, Nat)
  BY NatLessThanWellFounded
<1> HIDE DEF R
<1>3. \E d \in D : \A e \in D : ~(<<e, d>> \in R)
  BY <1>2, WFMin
<1> QED
  BY <1>1, <1>3

LEMMA Greatest ==
    ASSUME NEW n \in Nat, NEW M \in SUBSET (1 .. n), M # {}
    PROVE  \E j \in M : \A k \in M : k <= j
<1> DEFINE D == {d \in Nat : \E j \in M : d = n - j}
<1>1. D \subseteq Nat /\ D # {}
  <2>1. PICK j \in M : TRUE
    OBVIOUS
  <2>2. n - j \in D
    BY <2>1
  <2> QED
    BY <2>2
<1>2. PICK d \in D : \A e \in D : ~(e < d)
  <2> HIDE DEF D
  <2> QED
    BY <1>1, Least
<1>3. PICK j \in M : d = n - j
  BY <1>2
<1>4. ASSUME NEW k \in M PROVE k <= j
  <2>1. n - k \in D
    OBVIOUS
  <2> QED
    BY <1>2, <1>3, <2>1
<1> QED
  BY <1>3, <1>4

LEMMA ElementType ==
    ASSUME NEW S, NEW Q \in Seq(S), NEW k \in 1 .. Len(Q)
    PROVE  Q[k] \in S
  OBVIOUS

-------------------------------------------------------------------------------
(* Lists *)

\* If neighbours are in a transitive relation, so are any two entries.
LEMMA NeighboursSuffice ==
    ASSUME NEW n \in Nat, NEW s, NEW R,
           \A k \in 1 .. n - 1 : <<s[k], s[k + 1]>> \in R,
           \A i, j, k \in 1 .. n :
             <<s[i], s[j]>> \in R /\ <<s[j], s[k]>> \in R => <<s[i], s[k]>> \in R,
           NEW a \in 1 .. n, NEW b \in 1 .. n, a < b
    PROVE  <<s[a], s[b]>> \in R
<1> DEFINE D == {d \in Nat : a < d /\ d <= n /\ <<s[a], s[d]>> \notin R}
<1> SUFFICES ASSUME D # {} PROVE FALSE
  BY DEF D
<1>1. PICK d \in D : \A e \in D : ~(e < d)
  <2>1. D \subseteq Nat
    OBVIOUS
  <2> HIDE DEF D
  <2> QED
    BY <2>1, Least
<1>2. d \in Nat /\ a < d /\ d <= n /\ <<s[a], s[d]>> \notin R
  OBVIOUS
<1>3. d # a + 1
  BY <1>2
<1>4. d - 1 \in 1 .. n /\ a < d - 1 /\ (d - 1) + 1 = d /\ d - 1 \in 1 .. n - 1
  BY <1>2, <1>3
<1>5. d - 1 \notin D
  BY <1>1, <1>2
<1>6. <<s[a], s[d - 1]>> \in R
  BY <1>4, <1>5
<1>7. <<s[d - 1], s[d]>> \in R
  BY <1>4
<1> QED
  BY <1>2, <1>4, <1>6, <1>7

\* A list of the elements of a finite set has each of them once.
LEMMA Enumeration ==
    ASSUME NEW S, IsFiniteSet(S), NEW s \in SetToSeqs(S)
    PROVE  /\ Cardinality(S) \in Nat /\ s \in Seq(S) /\ Len(s) = Cardinality(S)
           /\ DOMAIN s = 1 .. Len(s)
           /\ \A n \in DOMAIN s : s[n] \in S
           /\ \A m, n \in DOMAIN s : s[m] = s[n] => m = n
           /\ \A x \in S : \E n \in DOMAIN s : s[n] = x
           /\ S # {} => s # <<>>
<1>1. s \in [1 .. Cardinality(S) -> S] /\ Cardinality(S) \in Nat
  BY FS_CardinalityType DEF SetToSeqs
<1>2. s \in Seq(S) /\ Len(s) = Cardinality(S) /\ DOMAIN s = 1 .. Len(s)
  BY <1>1
<1>3. \A m, n \in DOMAIN s : s[m] = s[n] => m = n
  BY <1>1 DEF SetToSeqs
<1>4. s \in Injection(1 .. Cardinality(S), S)
  BY <1>1, <1>3 DEF Injection, IsInjective
<1>5. Cardinality(1 .. Cardinality(S)) = Cardinality(S)
  BY <1>1, FS_Interval
<1>6. s \in Surjection(1 .. Cardinality(S), S)
  BY <1>4, <1>5, FS_Injection
<1>7. \A x \in S : \E n \in DOMAIN s : s[n] = x
  BY <1>1, <1>6 DEF Surjection
<1>8. ASSUME S # {} PROVE s # <<>>
  BY <1>7, <1>8
<1> QED
  BY <1>1, <1>2, <1>3, <1>7, <1>8

\* What is made of the elements of a finite set are finitely many.
LEMMA ImageFinite ==
    ASSUME NEW S, IsFiniteSet(S), NEW T, NEW f \in [S -> T]
    PROVE  IsFiniteSet({f[x] : x \in S})
<1>1. f \in Surjection(S, {f[x] : x \in S})
  BY DEF Surjection
<1> QED
  BY <1>1, FS_Surjection

\* A relation orders a set: no two elements both ways round, and transitively.
Ordering(R, S) ==
    /\ \A x, y \in S : <<x, y>> \in R /\ <<y, x>> \in R => x = y
    /\ \A x, y, z \in S : <<x, y>> \in R /\ <<y, z>> \in R => <<x, z>> \in R
Along(R, u) == \A k \in 1 .. Len(u) - 1 : <<u[k], u[k + 1]>> \in R

\* The elements of a set can be listed along an order in one way only.
LEMMA OneArrangement ==
    ASSUME NEW S, IsFiniteSet(S), NEW R, Ordering(R, S),
           NEW s \in SetToSeqs(S), Along(R, s), NEW t \in SetToSeqs(S), Along(R, t)
    PROVE  s = t
<1> DEFINE n == Cardinality(S)
           Sorted(u) == \A a, b \in 1 .. n : a < b => <<u[a], u[b]>> \in R
           List(u) == /\ u \in [1 .. n -> S] /\ Len(u) = n /\ n \in Nat
                      /\ \A a \in 1 .. n : u[a] \in S
                      /\ \A a, b \in 1 .. n : u[a] = u[b] => a = b
                      /\ \A x \in S : \E a \in 1 .. n : u[a] = x
<1>1. ASSUME NEW u \in SetToSeqs(S), Along(R, u)
      PROVE  List(u) /\ Sorted(u)
  <2>1. List(u)
    <3>1. /\ n \in Nat /\ u \in Seq(S) /\ Len(u) = n /\ DOMAIN u = 1 .. Len(u)
          /\ \A a \in DOMAIN u : u[a] \in S
          /\ \A a, b \in DOMAIN u : u[a] = u[b] => a = b
          /\ \A x \in S : \E a \in DOMAIN u : u[a] = x
      BY Enumeration
    <3> HIDE DEF n
    <3>2. DOMAIN u = 1 .. n /\ u \in [1 .. n -> S]
      BY <3>1
    <3> QED
      BY <3>1, <3>2
  <2> HIDE DEF n
  <2>2. \A k \in 1 .. n - 1 : <<u[k], u[k + 1]>> \in R
    BY <1>1, <2>1 DEF Along
  <2>3. \A i, j, k \in 1 .. n :
          <<u[i], u[j]>> \in R /\ <<u[j], u[k]>> \in R => <<u[i], u[k]>> \in R
    BY <2>1 DEF Ordering
  <2>4. ASSUME NEW a \in 1 .. n, NEW b \in 1 .. n, a < b PROVE <<u[a], u[b]>> \in R
    BY <2>1, <2>2, <2>3, <2>4, NeighboursSuffice
  <2> QED
    BY <2>1, <2>4
<1>2. List(s) /\ Sorted(s) /\ List(t) /\ Sorted(t)
  BY <1>1
<1> HIDE DEF n
<1> DEFINE D == {d \in 1 .. n : s[d] # t[d]}
<1> SUFFICES ASSUME D # {} PROVE FALSE
  <2>1. s \in [1 .. n -> S] /\ t \in [1 .. n -> S]
    BY <1>2
  <2>2. D = {} => \A d \in 1 .. n : s[d] = t[d]
    OBVIOUS
  <2> HIDE DEF D
  <2>3. ASSUME \A d \in 1 .. n : s[d] = t[d] PROVE s = t
    <3>1. s = [d \in 1 .. n |-> s[d]] /\ t = [d \in 1 .. n |-> t[d]]
      BY <2>1, Zenon
    <3>2. [d \in 1 .. n |-> s[d]] = [d \in 1 .. n |-> t[d]]
      BY <2>3, Zenon
    <3> QED
      BY <3>1, <3>2, Zenon
  <2> QED
    BY <2>2, <2>3
<1>3. PICK d \in D : \A e \in D : ~(e < d)
  <2>1. D \subseteq Nat
    OBVIOUS
  <2> HIDE DEF D
  <2> QED
    BY <2>1, Least
\* What stands at the first place where the lists differ comes later in the other.
<1>4. ASSUME NEW u, NEW v, List(u), List(v), Sorted(v),
             \A e \in 1 .. n : e < d => u[e] = v[e], u[d] # v[d]
      PROVE  <<v[d], u[d]>> \in R
  <2>1. d \in 1 .. n /\ u[d] \in S
    BY <1>3, <1>4
  <2>2. PICK j \in 1 .. n : v[j] = u[d]
    BY <1>4, <2>1
  <2>3. ~(j < d)
    <3> SUFFICES ASSUME j < d PROVE FALSE
      OBVIOUS
    <3>1. u[j] = u[d]
      BY <1>4, <2>2
    <3>2. j = d
      BY <1>4, <2>1, <3>1
    <3> QED
      BY <2>1, <3>2
  <2>4. j # d
    BY <1>4, <2>2
  <2>5. d < j
    BY <2>1, <2>3, <2>4
  <2> QED
    BY <1>4, <2>1, <2>2, <2>5
<1>5. d \in 1 .. n /\ s[d] # t[d]
  BY <1>3
<1>6. \A e \in 1 .. n : e < d => s[e] = t[e]
  BY <1>3
<1> HIDE DEF D
<1>7. <<t[d], s[d]>> \in R /\ <<s[d], t[d]>> \in R
  <2> HIDE DEF List, Sorted
  <2> QED
    BY <1>2, <1>4, <1>5, <1>6
<1>8. t[d] \in S /\ s[d] \in S
  BY <1>2, <1>5
<1> QED
  BY <1>5, <1>7, <1>8 DEF Ordering

\* Elements with keys of their own can be sorted by their keys in one way only.
LEMMA SortedUnique ==
    ASSUME NEW S, IsFiniteSet(S), NEW key \in [S -> Nat],
           \A x, y \in S : key[x] = key[y] => x = y,
           NEW s \in SetToSeqs(S), \A k \in 1 .. Len(s) - 1 : key[s[k]] <= key[s[k + 1]],
           NEW t \in SetToSeqs(S), \A k \in 1 .. Len(t) - 1 : key[t[k]] <= key[t[k + 1]]
    PROVE  s = t
<1> DEFINE R == {p \in S \X S : key[p[1]] <= key[p[2]]}
<1>1. \A x, y \in S : /\ key[x] \in Nat /\ key[y] \in Nat
                      /\ <<x, y>> \in R <=> key[x] <= key[y]
  OBVIOUS
<1>2. ASSUME NEW u \in SetToSeqs(S), \A k \in 1 .. Len(u) - 1 : key[u[k]] <= key[u[k + 1]]
      PROVE  Along(R, u)
  <2>1. DOMAIN u = 1 .. Len(u) /\ Len(u) \in Nat /\ \A k \in DOMAIN u : u[k] \in S
    <3> HIDE DEF R
    <3> QED
      BY Enumeration
  <2>2. ASSUME NEW k \in 1 .. Len(u) - 1 PROVE <<u[k], u[k + 1]>> \in R
    <3>1. u[k] \in S /\ u[k + 1] \in S
      BY <2>1
    <3> QED
      BY <1>1, <1>2, <3>1
  <2> QED
    BY <2>2 DEF Along
<1> HIDE DEF R
<1>3. Ordering(R, S)
  <2>1. ASSUME NEW x \in S, NEW y \in S, <<x, y>> \in R, <<y, x>> \in R PROVE x = y
    <3>1. key[x] = key[y]
      BY <1>1, <2>1
    <3> QED
      BY <3>1
  <2>2. ASSUME NEW x \in S, NEW y \in S, NEW z \in S, <<x, y>> \in R, <<y, z>> \in R
        PROVE  <<x, z>> \in R
    BY <1>1, <2>2
  <2> QED
    BY <2>1, <2>2 DEF Ordering
<1> QED
  BY <1>2, <1>3, OneArrangement

\* Entries that differ are as many as their places.
LEMMA DistinctEntries ==
    ASSUME NEW K, IsFiniteSet(K), NEW s, \A j, k \in K : s[j] = s[k] => j = k,
           NEW I, I = {s[k] : k \in K}
    PROVE  IsFiniteSet(I) /\ Cardinality(I) = Cardinality(K)
<1> DEFINE f == [k \in K |-> s[k]]
<1>1. f \in Bijection(K, I)
  BY DEF Bijection, Injection, Surjection, IsInjective
<1>2. ExistsBijection(K, I)
  BY <1>1 DEF ExistsBijection
<1> QED
  BY <1>2, FS_Bijection

-------------------------------------------------------------------------------
(* The first elements of a set *)

\* Those with fewer than m others before them: the first m, or all.
FirstOf(S, m) == {k \in S : Cardinality({j \in S : j < k}) < m}

\* Has a name so that the provers find n.
Within(S, n) == S \subseteq 1 .. n

LEMMA FirstOnes ==
    ASSUME NEW n \in Nat, NEW S, Within(S, n), NEW m \in Nat,
           NEW F, F = FirstOf(S, m)
    PROVE  /\ F \subseteq S /\ IsFiniteSet(S) /\ IsFiniteSet(F)
           /\ \A k \in F, j \in S \ F : k < j
           /\ Cardinality(F) = IF Cardinality(S) < m THEN Cardinality(S) ELSE m
<1> DEFINE Before(k) == {j \in S : j < k}
<1> S \in SUBSET (1 .. n)
  BY DEF Within
<1>1. IsFiniteSet(S) /\ Cardinality(S) \in Nat
  <2>1. IsFiniteSet(1 .. n)
    <3>1. 1 \in Int /\ n \in Int
      OBVIOUS
    <3> QED
      BY <3>1, FS_Interval
  <2> QED
    BY <2>1, FS_Subset, FS_CardinalityType
<1>2. F \in SUBSET S /\ F \subseteq S
  BY DEF FirstOf
<1>3. IsFiniteSet(F) /\ Cardinality(F) \in Nat /\ Cardinality(F) <= Cardinality(S)
  BY <1>1, <1>2, FS_Subset, FS_CardinalityType
<1>4. \A k : IsFiniteSet(Before(k)) /\ Cardinality(Before(k)) \in Nat
  <2> SUFFICES ASSUME NEW k PROVE IsFiniteSet(Before(k)) /\ Cardinality(Before(k)) \in Nat
    OBVIOUS
  <2>1. Before(k) \in SUBSET S
    OBVIOUS
  <2> QED
    BY <1>1, <2>1, FS_Subset, FS_CardinalityType
<1>5. \A k \in S : k \in F <=> Cardinality(Before(k)) < m
  BY DEF FirstOf
<1>6. \A j, k : j \in Before(k) <=> j \in S /\ j < k
  OBVIOUS
<1>7. \A j \in S : j \in 1 .. n /\ j \in Int
  OBVIOUS
<1> HIDE DEF Before
<1> SUFFICES ASSUME TRUE
             PROVE  /\ \A k \in F, j \in S \ F : k < j
                    /\ Cardinality(F) = IF Cardinality(S) < m THEN Cardinality(S) ELSE m
  BY <1>1, <1>2, <1>3
<1>8. ASSUME NEW k \in F, NEW j \in S, j <= k PROVE j \in F
  <2>1. ASSUME NEW i \in Before(j) PROVE i \in Before(k)
    <3>1. i \in Int /\ j \in Int /\ k \in Int /\ i \in S /\ i < j
      BY <1>2, <1>6, <1>7, <2>1
    <3>2. i < k
      BY <1>8, <3>1
    <3> QED
      BY <1>6, <3>1, <3>2
  <2>2. Before(j) \in SUBSET Before(k)
    BY <2>1
  <2>3. Cardinality(Before(j)) <= Cardinality(Before(k))
    BY <1>4, <2>2, FS_Subset
  <2>4. Cardinality(Before(k)) < m
    BY <1>2, <1>5
  <2>5. Cardinality(Before(j)) < m
    BY <1>4, <2>3, <2>4
  <2> QED
    BY <1>5, <2>5
<1>9. ASSUME NEW k \in F, NEW j \in S \ F PROVE k < j
  <2>1. k \in Int /\ j \in Int
    BY <1>2, <1>7
  <2>2. ~(j <= k)
    BY <1>8
  <2> QED
    BY <2>1, <2>2
<1>10. Cardinality(F) <= m
  <2>1. CASE F = {}
    <3>1. Cardinality(F) = 0
      BY <2>1, FS_EmptySet
    <3> QED
      BY <3>1
  <2>2. CASE F # {}
    <3>1. PICK k \in F : \A j \in F : j <= k
      <4>1. F \in SUBSET (1 .. n)
        BY <1>2, <1>7
      <4> HIDE DEF Before
      <4> QED
        BY <2>2, <4>1, Greatest
    <3>2. \A j : j \in Before(k) <=> j \in F \ {k}
      <4>1. ASSUME NEW j \in Before(k) PROVE j \in F \ {k}
        <5>1. j \in S /\ j < k /\ j \in Int /\ k \in Int
          BY <1>2, <1>6, <1>7, <4>1
        <5>2. j <= k /\ j # k
          BY <5>1
        <5> QED
          BY <1>8, <5>1, <5>2
      <4>2. ASSUME NEW j \in F \ {k} PROVE j \in Before(k)
        <5>1. j \in S /\ j <= k /\ j # k /\ j \in Int /\ k \in Int
          BY <1>2, <1>7, <3>1, <4>2
        <5>2. j < k
          BY <5>1
        <5> QED
          BY <1>6, <5>1, <5>2
      <4> QED
        BY <4>1, <4>2
    <3>3. Before(k) = F \ {k}
      BY <3>2
    <3>4. Cardinality(F \ {k}) = Cardinality(F) - 1
      BY <1>3, <3>1, FS_RemoveElement
    <3>5. Cardinality(F) - 1 < m
      BY <1>2, <1>5, <3>1, <3>3, <3>4
    <3> QED
      BY <1>3, <3>5
  <2> QED
    BY <2>1, <2>2
<1>11. Cardinality(F) = IF Cardinality(S) < m THEN Cardinality(S) ELSE m
  <2>1. CASE F = S
    <3>1. Cardinality(F) = Cardinality(S)
      BY <2>1
    <3>2. ASSUME NEW a \in Nat, a <= m PROVE a = IF a < m THEN a ELSE m
      BY <3>2
    <3> QED
      BY <1>1, <1>10, <3>1, <3>2
  <2>2. CASE F # S
    <3>1. S \ F \subseteq Nat /\ S \ F # {}
      <4>1. S \ F # {}
        BY <1>2, <2>2, Zenon
      <4>2. ASSUME NEW j \in S \ F PROVE j \in Nat
        OBVIOUS
      <4> QED
        BY <4>1, <4>2, Zenon
    <3>2. PICK k \in S \ F : \A j \in S \ F : ~(j < k)
      BY <3>1, Least
    <3>3. \A j : j \in Before(k) <=> j \in F
      BY <1>2, <1>6, <1>9, <3>2
    <3>4. Before(k) = F
      BY <3>3
    <3>5. ~(Cardinality(F) < m)
      BY <1>5, <3>2, <3>4
    <3> QED
      BY <1>1, <1>3, <1>10, <3>5
  <2> QED
    BY <2>1, <2>2
<1> QED
  BY <1>9, <1>11
===============================================================================
