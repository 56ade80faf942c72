---------------------------- MODULE TargetsProofs ----------------------------
(* Proofs about Targets: the safety properties of the nodes that a load        *)
(* balancer serves, for any number of nodes, addresses and changes.            *)
(*                                                                             *)
(* The argument has two parts.  What getTargetsOfNodes computes is right, and  *)
(* sorted, whatever order the cache lists the nodes in.  And as long as the    *)
(* class is not queued, the reconciliation that runs has read the nodes as     *)
(* the cache has them, or the last one had.                                    *)
EXTENDS Targets, ListLemmas

NodeObject == [born : Nat, addrs : Seq(Address), taint : BOOLEAN, cond : Conditions]

TypeOK ==
    /\ node \in [Nodes -> NodeObject] /\ cNode \in [Nodes -> NodeObject]
    /\ rNodes \in [Nodes -> NodeObject] /\ seen \in [Nodes -> NodeObject]
    /\ class \in BOOLEAN /\ cClass \in BOOLEAN
    /\ queued \in BOOLEAN /\ blind \in BOOLEAN
    /\ now \in Nat /\ pc \in {"idle", "apply"}

\* The class is known, and every event on nodes since has been looked at.
Informed == class /\ cClass /\ ~queued /\ ~blind

ReadWhatIsCached ==
    Informed => /\ pc = "apply" => rNodes = cNode
                /\ pc = "idle" => Right(cNode)

\* The targets are what getTargetsOfNodes makes of the nodes of the last write.
WrittenFromSeen ==
    targets # NoALB => \E s \in NewestFirst(seen) : targets \in Chosen(seen, s)

IInv == TypeOK /\ (cClass => class) /\ ReadWhatIsCached /\ WrittenFromSeen

-------------------------------------------------------------------------------
(* Nodes and their addresses *)

LEMMA MinOfTwo ==
    ASSUME NEW a \in Nat, NEW b \in Nat
    PROVE  Min({a, b}) = IF b < a THEN b ELSE a
<1>1. \E x \in {a, b} : \A y \in {a, b} : x <= y
  OBVIOUS
<1>2. Min({a, b}) \in {a, b} /\ \A y \in {a, b} : Min({a, b}) <= y
  BY <1>1 DEF Min
<1> QED
  BY <1>2

LEMMA AddressType ==
    ASSUME NEW name, NEW n \in NodeObject, Internal(n) # {}
    PROVE  Target(name, n).ip \in Nat
<1>1. n.addrs \in Seq(Address)
  BY DEF NodeObject
<1>2. Internal(n) \subseteq 1 .. Len(n.addrs) /\ Internal(n) \subseteq Nat
  BY <1>1 DEF Internal
<1>3. \E x \in Internal(n) : \A y \in Internal(n) : ~(y < x)
  BY <1>2, Least
<1>4. \E x \in Internal(n) : \A y \in Internal(n) : x <= y
  BY <1>2, <1>3
<1>5. Min(Internal(n)) \in Internal(n)
  BY <1>4 DEF Min
<1>6. n.addrs[Min(Internal(n))] \in Address
  BY <1>1, <1>2, <1>5, ElementType
<1> QED
  BY <1>6 DEF Target, Address

\* The qualified nodes are finitely many, and so are the choices of the youngest.
LEMMA FinitelyManyNodes ==
    ASSUME NEW N \in [Nodes -> NodeObject]
    PROVE  /\ Qualified(N) \subseteq Nodes /\ IsFiniteSet(Qualified(N))
           /\ Cardinality(Qualified(N)) \in Nat
           /\ IsFiniteSet(Youngest(N))
<1>1. Qualified(N) \in SUBSET Nodes
  BY DEF Qualified
<1>2. IsFiniteSet(Qualified(N))
  BY <1>1, NodesFinite, FS_Subset
<1>3. IsFiniteSet(SUBSET Qualified(N))
  BY <1>2, FS_SUBSET
<1>4. Youngest(N) \in SUBSET (SUBSET Qualified(N))
  BY DEF Youngest
<1>5. IsFiniteSet(Youngest(N))
  BY <1>3, <1>4, FS_Subset
<1> QED
  BY <1>1, <1>2, <1>5, FS_CardinalityType

-------------------------------------------------------------------------------
(* getTargetsOfNodes *)

\* Whatever order the cache lists the nodes in, the youngest that qualify are taken.
LEMMA YoungestTaken ==
    ASSUME NEW N \in [Nodes -> NodeObject], NEW s \in NewestFirst(N)
    PROVE  Taken(N, s) \in Youngest(N) /\ IsFiniteSet(Taken(N, s))
<1> DEFINE E == {n \in DOMAIN N : Exists(N[n])}
           fit == {k \in DOMAIN s : ~Terminating(N[s[k]]) /\ Internal(N[s[k]]) # {}}
           F == FirstOf(fit, Limit)
           Q == Qualified(N)
           T == Taken(N, s)
<1>1. Limit \in Nat
  BY LimitAssumption
<1>2. E \in SUBSET Nodes
  OBVIOUS
<1>3. IsFiniteSet(E)
  BY <1>2, NodesFinite, FS_Subset
<1>4. s \in SetToSeqs(E) /\ \A k \in 1 .. Len(s) - 1 : N[s[k]].born >= N[s[k + 1]].born
  BY DEF NewestFirst
<1>5. \A q : q \in Q <=> q \in E /\ ~Terminating(N[q]) /\ Internal(N[q]) # {}
  BY DEF Qualified
<1>6. \A n \in E : N[n].born \in Nat
  BY DEF NodeObject
<1>7. IsFiniteSet(Q) /\ Cardinality(Q) \in Nat
  BY FinitelyManyNodes
<1> HIDE DEF E
<1>8. /\ Len(s) \in Nat /\ DOMAIN s = 1 .. Len(s)
      /\ \A n \in 1 .. Len(s) : s[n] \in E
      /\ \A m, n \in 1 .. Len(s) : s[m] = s[n] => m = n
      /\ \A x \in E : \E n \in 1 .. Len(s) : s[n] = x
  BY <1>3, <1>4, Enumeration
<1>9. T = {s[k] : k \in F}
  BY DEF Taken, FirstOf
<1>10. \A k : k \in fit <=> k \in 1 .. Len(s) /\ s[k] \in Q
  BY <1>5, <1>8
<1> HIDE DEF fit, Q, T
<1>11. fit \in SUBSET (1 .. Len(s))
  BY <1>10
<1>12. /\ F \subseteq fit /\ IsFiniteSet(fit) /\ IsFiniteSet(F)
       /\ \A k \in F, j \in fit \ F : k < j
       /\ Cardinality(F) = IF Cardinality(fit) < Limit THEN Cardinality(fit) ELSE Limit
  <2> HIDE DEF F
  <2>1. F = FirstOf(fit, Limit)
    BY DEF F
  <2>2. PICK n \in Nat : n = Len(s)
    BY <1>8
  <2>3. Within(fit, n)
    BY <1>11, <2>2 DEF Within
  <2>7. \A k \in F, j \in fit \ F : k < j
    BY <1>1, <2>1, <2>3, FirstOnes
  <2>8. Cardinality(F) = IF Cardinality(fit) < Limit THEN Cardinality(fit) ELSE Limit
    BY <1>1, <2>1, <2>3, FirstOnes
  <2>4. F \in SUBSET fit
    BY <2>1 DEF FirstOf
  <2>5. IsFiniteSet(1 .. Len(s))
    <3>1. 1 \in Int /\ Len(s) \in Int
      BY <1>8
    <3> QED
      BY <3>1, FS_Interval
  <2>6. IsFiniteSet(fit) /\ IsFiniteSet(F)
    BY <1>11, <2>4, <2>5, FS_Subset
  <2> QED
    BY <2>4, <2>6, <2>7, <2>8
<1> HIDE DEF F
<1>13. IsFiniteSet(T) /\ Cardinality(T) = Cardinality(F)
  <2>1. \A j, k \in F : s[j] = s[k] => j = k
    BY <1>8, <1>10, <1>12
  <2> QED
    BY <1>9, <1>12, <2>1, DistinctEntries
<1>14. Cardinality(Q) = Cardinality(fit)
  <2>1. \A j, k \in fit : s[j] = s[k] => j = k
    BY <1>8, <1>10
  <2>2. Q = {s[k] : k \in fit}
    BY <1>5, <1>8, <1>10
  <2> QED
    BY <1>12, <2>1, <2>2, DistinctEntries
<1>15. Cardinality(T) = Min({Limit, Cardinality(Q)})
  BY <1>1, <1>7, <1>12, <1>13, <1>14, MinOfTwo
<1>16. T \subseteq Q
  BY <1>9, <1>10, <1>12
<1>17. ASSUME NEW t \in T, NEW q \in Q \ T PROVE N[t].born >= N[q].born
  <2>1. PICK k \in F : s[k] = t
    BY <1>9
  <2>2. PICK j \in 1 .. Len(s) : s[j] = q
    BY <1>5, <1>8
  <2>3. j \in fit \ F
    BY <1>9, <1>10, <2>2
  <2>4. k < j /\ k \in 1 .. Len(s)
    BY <1>10, <1>12, <2>3
  <2> DEFINE R == {p \in E \X E : N[p[1]].born >= N[p[2]].born}
  <2>5. \A x, y \in E : <<x, y>> \in R <=> N[x].born >= N[y].born
    OBVIOUS
  <2> HIDE DEF R
  <2>6. \A i \in 1 .. Len(s) - 1 : <<s[i], s[i + 1]>> \in R
    <3> SUFFICES ASSUME NEW i \in 1 .. Len(s) - 1 PROVE <<s[i], s[i + 1]>> \in R
      OBVIOUS
    <3>1. i \in 1 .. Len(s) /\ i + 1 \in 1 .. Len(s)
      BY <1>8
    <3> QED
      BY <1>4, <1>8, <2>5, <3>1
  <2>7. \A a, b, c \in 1 .. Len(s) :
          <<s[a], s[b]>> \in R /\ <<s[b], s[c]>> \in R => <<s[a], s[c]>> \in R
    <3> SUFFICES ASSUME NEW a \in 1 .. Len(s), NEW b \in 1 .. Len(s), NEW c \in 1 .. Len(s),
                        <<s[a], s[b]>> \in R, <<s[b], s[c]>> \in R
                 PROVE  <<s[a], s[c]>> \in R
      OBVIOUS
    <3>1. s[a] \in E /\ s[b] \in E /\ s[c] \in E
      BY <1>8
    <3>2. /\ N[s[a]].born >= N[s[b]].born /\ N[s[b]].born >= N[s[c]].born
          /\ N[s[a]].born \in Nat /\ N[s[b]].born \in Nat /\ N[s[c]].born \in Nat
      BY <1>6, <2>5, <3>1
    <3>3. N[s[a]].born >= N[s[c]].born
      BY <3>2
    <3> QED
      BY <2>5, <3>1, <3>3
  <2>8. <<s[k], s[j]>> \in R
    BY <1>8, <2>4, <2>6, <2>7, NeighboursSuffice
  <2> QED
    BY <1>8, <2>1, <2>2, <2>4, <2>5, <2>8
<1> QED
  BY <1>13, <1>15, <1>16, <1>17 DEF Youngest, Q, T

\* There is a target for each of the nodes taken, and no other.
LEMMA TargetsOfTaken ==
    ASSUME NEW N \in [Nodes -> NodeObject], NEW s \in NewestFirst(N), NEW t \in Chosen(N, s),
           NEW S, S = {Target(n, N[n]) : n \in Taken(N, s)}
    PROVE  /\ IsFiniteSet(S) /\ t \in SetToSeqs(S)
           /\ {t[k] : k \in DOMAIN t} = S
           /\ \A k \in 1 .. Len(t) - 1 : t[k].ip <= t[k + 1].ip
<1> DEFINE T == Taken(N, s)
           f == [n \in T |-> Target(n, N[n])]
<1>1. t \in SetToSeqs(S) /\ \A k \in 1 .. Len(t) - 1 : t[k].ip <= t[k + 1].ip
  BY DEF Chosen
<1>2. IsFiniteSet(T)
  BY YoungestTaken
<1>3. f \in Surjection(T, S)
  BY DEF Surjection
<1> HIDE DEF T, f
<1>4. IsFiniteSet(S)
  BY <1>2, <1>3, FS_Surjection
<1>5. (\A n \in DOMAIN t : t[n] \in S) /\ (\A x \in S : \E n \in DOMAIN t : t[n] = x)
  BY <1>1, <1>4, Enumeration
<1> QED
  BY <1>1, <1>4, <1>5

LEMMA ChosenIsRight ==
    ASSUME NEW N \in [Nodes -> NodeObject], NEW s \in NewestFirst(N), targets \in Chosen(N, s)
    PROVE  Right(N)
<1>1. {targets[k] : k \in DOMAIN targets} = {Target(n, N[n]) : n \in Taken(N, s)}
  BY TargetsOfTaken
<1> QED
  BY <1>1, YoungestTaken DEF Right

\* Nodes that are the same in what matters are chosen from alike, if there is no
\* doubt about the youngest of them.
LEMMA SameNodesSameChoice ==
    ASSUME NEW M \in [Nodes -> NodeObject], NEW N \in [Nodes -> NodeObject],
           Relevant(M) = Relevant(N),
           ~(Cardinality(Youngest(N)) > 1),
           NEW r \in NewestFirst(M), NEW s \in NewestFirst(N)
    PROVE  /\ \A n \in Qualified(N) : Target(n, M[n]) = Target(n, N[n])
           /\ Taken(M, r) = Taken(N, s)
           /\ Taken(N, s) \subseteq Qualified(N)
<1> DEFINE Q == Qualified(N)
<1>1. Qualified(M) = Q
  <2>1. DOMAIN Relevant(M) = Qualified(M) /\ DOMAIN Relevant(N) = Q
    BY DEF Relevant
  <2> QED
    BY <2>1
<1>2. ASSUME NEW n \in Q
      PROVE  M[n].born = N[n].born /\ Target(n, M[n]).ip = Target(n, N[n]).ip
  <2>1. /\ Relevant(M)[n] = [born |-> M[n].born, ip |-> Target(n, M[n]).ip]
        /\ Relevant(N)[n] = [born |-> N[n].born, ip |-> Target(n, N[n]).ip]
    BY <1>1 DEF Relevant
  <2>2. /\ Relevant(M)[n].born = M[n].born /\ Relevant(M)[n].ip = Target(n, M[n]).ip
        /\ Relevant(N)[n].born = N[n].born /\ Relevant(N)[n].ip = Target(n, N[n]).ip
    BY <2>1
  <2> QED
    BY <2>2
<1>3. \A n \in Q : Target(n, M[n]) = Target(n, N[n])
  BY <1>2 DEF Target
<1>4. ASSUME NEW T \in Youngest(M) PROVE T \in Youngest(N)
  <2>1. /\ T \in SUBSET Qualified(M)
        /\ Cardinality(T) = Min({Limit, Cardinality(Qualified(M))})
        /\ \A t \in T, q \in Qualified(M) \ T : M[t].born >= M[q].born
    BY DEF Youngest
  <2>2. T \in SUBSET Q /\ Cardinality(T) = Min({Limit, Cardinality(Q)})
    BY <1>1, <2>1
  <2>3. \A t \in T, q \in Q \ T : N[t].born >= N[q].born
    BY <1>1, <1>2, <2>1, <2>2
  <2> QED
    BY <2>2, <2>3 DEF Youngest
<1>5. Taken(M, r) \in Youngest(N) /\ Taken(N, s) \in Youngest(N)
  BY <1>4, YoungestTaken
<1>6. Taken(M, r) = Taken(N, s)
  <2> DEFINE A == Taken(M, r)
             B == Taken(N, s)
             Y == Youngest(N)
  <2> SUFFICES ASSUME A # B PROVE FALSE
    OBVIOUS
  <2>1. IsFiniteSet(Y)
    BY FinitelyManyNodes
  <2>2. A \in Y /\ B \in Y /\ ~(Cardinality(Y) > 1)
    BY <1>5
  <2> HIDE DEF A, B, Y
  <2>3. {A} \union {B} \in SUBSET Y
    BY <2>2
  <2>4. IsFiniteSet({A}) /\ Cardinality({A}) = 1
    BY FS_Singleton
  <2>5. Cardinality({A} \union {B}) = 2
    <3>1. B \notin {A}
      OBVIOUS
    <3>2. Cardinality({A} \union {B})
            = IF B \in {A} THEN Cardinality({A}) ELSE Cardinality({A}) + 1
      <4> DEFINE Z == {A}
      <4>1. IsFiniteSet(Z)
        BY <2>4
      <4> HIDE DEF Z
      <4>2. Cardinality(Z \union {B}) = IF B \in Z THEN Cardinality(Z) ELSE Cardinality(Z) + 1
        BY <4>1, FS_AddElement
      <4> QED
        BY <4>2 DEF Z
    <3> QED
      BY <2>4, <3>1, <3>2
  <2>6. 2 <= Cardinality(Y) /\ Cardinality(Y) \in Nat
    BY <2>1, <2>3, <2>5, FS_Subset, FS_CardinalityType
  <2> QED
    BY <2>2, <2>6
<1>7. Taken(N, s) \subseteq Q
  BY <1>5 DEF Youngest
<1> QED
  BY <1>3, <1>6, <1>7

\* If no two of them have the same address, either, the targets are the same.
LEMMA SameNodesSameTargets ==
    ASSUME NEW M \in [Nodes -> NodeObject], NEW N \in [Nodes -> NodeObject],
           Relevant(M) = Relevant(N),
           ~(Cardinality(Youngest(N)) > 1), ~SharedAddress(N),
           NEW r \in NewestFirst(M), NEW s \in NewestFirst(N),
           NEW t \in Chosen(M, r), NEW u \in Chosen(N, s)
    PROVE  t = u
<1> DEFINE T == Taken(N, s)
           S == {Target(n, N[n]) : n \in T}
           key == [x \in S |-> x.ip]
<1>1. /\ \A n \in Qualified(N) : Target(n, M[n]) = Target(n, N[n])
      /\ Taken(M, r) = T /\ T \subseteq Qualified(N)
  BY SameNodesSameChoice
<1>2. S = {Target(n, M[n]) : n \in Taken(M, r)}
  <2>1. \A n \in T : Target(n, M[n]) = Target(n, N[n])
    BY <1>1
  <2>2. {Target(n, M[n]) : n \in Taken(M, r)} = {Target(n, M[n]) : n \in T}
    BY <1>1
  <2>3. {Target(n, M[n]) : n \in T} = S
    <3> HIDE DEF T
    <3> QED
      BY <2>1
  <2> QED
    BY <2>2, <2>3
<1>3. /\ IsFiniteSet(S) /\ t \in SetToSeqs(S)
      /\ \A k \in 1 .. Len(t) - 1 : t[k].ip <= t[k + 1].ip
  BY <1>2, TargetsOfTaken
<1>4. /\ u \in SetToSeqs(S)
      /\ \A k \in 1 .. Len(u) - 1 : u[k].ip <= u[k + 1].ip
  BY TargetsOfTaken
<1>5. \A n \in T : N[n] \in NodeObject /\ Internal(N[n]) # {}
  BY <1>1, FinitelyManyNodes DEF Qualified
<1> HIDE DEF T
<1>6. \A x \in S : \E n \in T : x = Target(n, N[n])
  OBVIOUS
<1>7. \A x \in S : x.ip \in Nat
  BY <1>5, <1>6, AddressType
<1>8. key \in [S -> Nat] /\ \A x \in S : key[x] = x.ip
  BY <1>7
<1>9. ASSUME NEW x \in S, NEW y \in S, key[x] = key[y] PROVE x = y
  <2>1. PICK m \in T : x = Target(m, N[m])
    BY <1>6
  <2>2. PICK n \in T : y = Target(n, N[n])
    BY <1>6
  <2>3. Target(m, N[m]).ip = Target(n, N[n]).ip
    BY <1>8, <1>9, <2>1, <2>2
  <2>4. m = n
    BY <1>1, <2>3 DEF SharedAddress
  <2> QED
    BY <2>1, <2>2, <2>4
<1> HIDE DEF S, key
<1>10. ASSUME NEW v \in SetToSeqs(S), \A k \in 1 .. Len(v) - 1 : v[k].ip <= v[k + 1].ip
       PROVE  \A k \in 1 .. Len(v) - 1 : key[v[k]] <= key[v[k + 1]]
  <2>1. Len(v) \in Nat /\ \A k \in 1 .. Len(v) : v[k] \in S
    BY <1>3, Enumeration
  <2> SUFFICES ASSUME NEW k \in 1 .. Len(v) - 1 PROVE key[v[k]] <= key[v[k + 1]]
    OBVIOUS
  <2>2. k \in 1 .. Len(v) /\ k + 1 \in 1 .. Len(v)
    BY <2>1
  <2>3. v[k] \in S /\ v[k + 1] \in S
    BY <2>1, <2>2
  <2> QED
    BY <1>8, <1>10, <2>3
<1>11. /\ \A k \in 1 .. Len(t) - 1 : key[t[k]] <= key[t[k + 1]]
       /\ \A k \in 1 .. Len(u) - 1 : key[u[k]] <= key[u[k + 1]]
  BY <1>3, <1>4, <1>10
<1>12. \A x, y \in S : key[x] = key[y] => x = y
  BY <1>9
<1>13. IsFiniteSet(S) /\ t \in SetToSeqs(S) /\ u \in SetToSeqs(S) /\ key \in [S -> Nat]
  BY <1>3, <1>4, <1>8
<1> QED
  BY <1>11, <1>12, <1>13, SortedUnique

-------------------------------------------------------------------------------
(* The invariant *)

\* Right, of any targets.
Serves(t, N) ==
    \E T \in Youngest(N) : {t[k] : k \in DOMAIN t} = {Target(n, N[n]) : n \in T}

LEMMA RightServes == \A N : Right(N) <=> Serves(targets, N)
  BY DEF Right, Serves

LEMMA ReadWhatIsCachedStays ==
    ASSUME ReadWhatIsCached,
           UNCHANGED <<class, cNode, cClass, queued, blind, pc, rNodes, targets>>
    PROVE  ReadWhatIsCached'
<1>1. (Right(cNode) <=> Serves(targets, cNode)) /\ (Right(cNode)' <=> Serves(targets', cNode'))
  BY DEF Right, Serves
<1>2. Serves(targets', cNode') <=> Serves(targets, cNode)
  OBVIOUS
<1> QED
  BY <1>1, <1>2 DEF ReadWhatIsCached, Informed

LEMMA WrittenFromSeenStays ==
    ASSUME WrittenFromSeen, UNCHANGED <<targets, seen>>
    PROVE  WrittenFromSeen'
  BY DEF WrittenFromSeen

LEMMA NoNodesTyped == NoNode \in NodeObject /\ NoNodes \in [Nodes -> NodeObject]
  BY DEF NewNode, NoNode, NoNodes, NodeObject, Conditions

LEMMA AddressListsTyped ==
    ASSUME NEW n \in Nodes, NEW a \in AddressLists[n]
    PROVE  a \in Seq(Address)
  BY AddressesTyped

LEMMA InitIInv == Init => IInv
<1> SUFFICES ASSUME Init PROVE IInv
  OBVIOUS
<1>1. MaxTime \in Nat
  BY BoundsAreNaturals
<1>2. now \in Nat /\ \A t \in 1 .. now : t \in Nat
  <2>1. now \in 0 .. MaxTime
    BY DEF Init
  <2>2. \A t \in 0 .. MaxTime : t \in Nat
    BY <1>1
  <2>3. now \in Nat
    BY <2>1, <2>2
  <2> QED
    BY <2>3
<1>3. \A a \in UNION Range(AddressLists) : a \in Seq(Address)
  <2> SUFFICES ASSUME NEW n \in DOMAIN AddressLists, NEW a \in AddressLists[n]
               PROVE  a \in Seq(Address)
    BY DEF Range
  <2> QED
    BY AddressesTyped
<1>4. ASSUME NEW t \in 1 .. now, NEW a \in UNION Range(AddressLists)
      PROVE  NewNode(t, a) \in NodeObject
  BY <1>2, <1>3 DEF NewNode, NoNode, NodeObject, Conditions
<1>5. node \in [Nodes -> NodeObject]
  <2> DEFINE R == {NoNode} \union UNION {NewNodes(t) : t \in 1 .. now}
  <2>1. node \in [Nodes -> R]
    BY DEF Init
  <2>2. ASSUME NEW r \in R PROVE r \in NodeObject
    BY <1>4, <2>2, NoNodesTyped DEF NewNodes
  <2> HIDE DEF R
  <2> QED
    BY <2>1, <2>2
<1>6. TypeOK
  BY <1>2, <1>5, NoNodesTyped DEF Init, TypeOK
<1> QED
  BY <1>6 DEF Init, IInv, ReadWhatIsCached, Informed, WrittenFromSeen

\* The nodes change, and the informer has not noticed.
LEMMA NodesStep ==
    ASSUME IInv, NEW n \in Nodes, CreateNode(n) \/ EditNode(n) \/ DeleteNode(n)
    PROVE  IInv'
<1> USE DEF IInv
<1>1. UNCHANGED <<class, cNode, cClass, queued, blind, pc, rNodes, targets, seen>>
  BY DEF CreateNode, EditNode, DeleteNode
<1>2. now' \in Nat
  <2>1. now \in Nat /\ MaxTime \in Nat
    BY BoundsAreNaturals DEF TypeOK
  <2>2. \A t \in now .. MaxTime + 1 : t \in Nat
    BY <2>1
  <2> QED
    BY <2>1, <2>2 DEF CreateNode, EditNode, DeleteNode
<1>3. node' \in [Nodes -> NodeObject]
  <2>1. node \in [Nodes -> NodeObject]
    BY DEF TypeOK
  <2>2. CASE CreateNode(n)
    <3>1. PICK a \in AddressLists[n] :
            node' = [node EXCEPT ![n] = NewNode(now', a)]
      BY <2>2 DEF CreateNode
    <3>2. a \in Seq(Address)
      BY AddressListsTyped
    <3>3. NewNode(now', a) \in NodeObject
      BY <1>2, <3>2 DEF NewNode, NoNode, NodeObject, Conditions
    <3> QED
      BY <2>1, <3>1, <3>3
  <2>3. CASE EditNode(n)
    <3>1. CASE \E a \in AddressLists[n] \ {node[n].addrs} : node' = [node EXCEPT ![n].addrs = a]
      <4>1. PICK a \in AddressLists[n] : node' = [node EXCEPT ![n].addrs = a]
        BY <3>1
      <4>2. a \in Seq(Address)
        BY AddressListsTyped
      <4>3. [node[n] EXCEPT !.addrs = a] \in NodeObject
        BY <2>1, <4>2 DEF NodeObject
      <4> QED
        BY <2>1, <4>1, <4>3
    <3>2. CASE node' = [node EXCEPT ![n].taint = ~@]
      <4>1. [node[n] EXCEPT !.taint = ~@] \in NodeObject
        BY <2>1 DEF NodeObject
      <4> QED
        BY <2>1, <3>2, <4>1
    <3>3. CASE \E c \in Conditions \ {node[n].cond} : node' = [node EXCEPT ![n].cond = c]
      <4>1. PICK c \in Conditions : node' = [node EXCEPT ![n].cond = c]
        BY <3>3
      <4>2. [node[n] EXCEPT !.cond = c] \in NodeObject
        BY <2>1 DEF NodeObject
      <4> QED
        BY <2>1, <4>1, <4>2
    <3> QED
      BY <2>3, <3>1, <3>2, <3>3 DEF EditNode
  <2>4. CASE DeleteNode(n)
    BY <2>1, <2>4, NoNodesTyped DEF DeleteNode
  <2> QED
    BY <2>2, <2>3, <2>4
<1>4. TypeOK'
  BY <1>1, <1>2, <1>3 DEF TypeOK
<1> QED
  BY <1>1, <1>4, ReadWhatIsCachedStays, WrittenFromSeenStays

\* The events of a node that changed queue the class, unless its addresses, its
\* taint and its condition are the same: then it is another node of that name.
LEMMA SyncNodeStep ==
    ASSUME IInv, NEW n \in Nodes, SyncNode(n)
    PROVE  IInv'
<1> USE DEF IInv
<1> DEFINE replaced == /\ Exists(cNode[n]) /\ Exists(node[n])
                       /\ cNode[n].born # node[n].born
<1>1. /\ cNode[n] # node[n] /\ cNode' = [cNode EXCEPT ![n] = node[n]]
      /\ UNCHANGED <<node, class, cClass, now, pc, rNodes, targets, seen, changes>>
  BY DEF SyncNode
<1>2. PICK update \in IF replaced THEN BOOLEAN ELSE {TRUE} :
        /\ queued' = (queued \/ (cClass /\ (~update \/ Passes(cNode[n], node[n]))))
        /\ blind' = (blind \/ (replaced /\ update))
  BY DEF SyncNode
<1>3. cNode[n] \in NodeObject /\ node[n] \in NodeObject
  BY DEF TypeOK
<1>4. Passes(cNode[n], node[n]) \/ replaced
  <2> SUFFICES ASSUME Exists(cNode[n]), Exists(node[n]), ~NodeChanged(cNode[n], node[n])
               PROVE  cNode[n].born # node[n].born
    BY DEF Passes
  <2>1. /\ cNode[n].addrs = node[n].addrs /\ cNode[n].taint = node[n].taint
        /\ cNode[n].cond = node[n].cond
    BY DEF NodeChanged
  <2> SUFFICES ASSUME cNode[n].born = node[n].born PROVE FALSE
    OBVIOUS
  <2>2. cNode[n] = node[n]
    BY <1>3, <2>1 DEF NodeObject
  <2> QED
    BY <1>1, <2>2
<1>5. cClass => queued' \/ blind'
  BY <1>2, <1>4
<1>6. ReadWhatIsCached'
  BY <1>1, <1>5 DEF ReadWhatIsCached, Informed
<1>7. cNode' \in [Nodes -> NodeObject]
  BY <1>1, <1>3 DEF TypeOK
<1>8. queued' \in BOOLEAN /\ blind' \in BOOLEAN
  BY <1>2 DEF TypeOK
<1>9. TypeOK'
  BY <1>1, <1>7, <1>8 DEF TypeOK
<1> QED
  BY <1>1, <1>6, <1>9, WrittenFromSeenStays

LEMMA ClassStep ==
    ASSUME IInv, CreateClass \/ SyncClass \/ Resync
    PROVE  IInv'
<1> USE DEF IInv
<1>1. UNCHANGED <<node, cNode, pc, rNodes, targets, seen, blind, now>>
  BY DEF CreateClass, SyncClass, Resync
<1>2. class' \in BOOLEAN /\ cClass' \in BOOLEAN /\ queued' \in BOOLEAN /\ (cClass' => class')
  BY DEF CreateClass, SyncClass, Resync, TypeOK
<1>3. TypeOK'
  BY <1>1, <1>2 DEF TypeOK
<1>4. ~cClass' \/ queued'
  BY DEF CreateClass, SyncClass, Resync
<1>5. ReadWhatIsCached'
  BY <1>4 DEF ReadWhatIsCached, Informed
<1> QED
  BY <1>1, <1>2, <1>3, <1>5, WrittenFromSeenStays

LEMMA BeginStep == ASSUME IInv, Begin PROVE IInv'
<1> USE DEF IInv
<1>1. TypeOK'
  BY DEF Begin, TypeOK
<1>2. ReadWhatIsCached'
  BY DEF Begin, ReadWhatIsCached, Informed
<1> QED
  BY <1>1, <1>2, WrittenFromSeenStays DEF Begin

LEMMA ApplyStep == ASSUME IInv, Apply PROVE IInv'
<1> USE DEF IInv
<1>1. /\ pc = "apply" /\ pc' = "idle" /\ rNodes' = NoNodes
      /\ UNCHANGED <<node, class, cNode, cClass, now, blind, queued, changes>>
  BY DEF Apply, Finish
<1>2. PICK s \in NewestFirst(rNodes) : \E new \in Chosen(rNodes, s) :
        IF targets = NoALB \/ TargetsChanged(targets, new)
        THEN targets' = new /\ seen' = rNodes
        ELSE UNCHANGED <<targets, seen>>
  BY DEF Apply
<1>3. PICK new \in Chosen(rNodes, s) :
        IF targets = NoALB \/ TargetsChanged(targets, new)
        THEN targets' = new /\ seen' = rNodes
        ELSE UNCHANGED <<targets, seen>>
  BY <1>2
<1>4. targets' = new
  BY <1>3 DEF TargetsChanged
<1>5. TypeOK'
  BY <1>1, <1>3, NoNodesTyped DEF TypeOK
<1>6. Serves(new, rNodes)
  <2> DEFINE S == {Target(n, rNodes[n]) : n \in Taken(rNodes, s)}
  <2>1. {new[k] : k \in DOMAIN new} = S
    <3>1. rNodes \in [Nodes -> NodeObject] /\ S = {Target(n, rNodes[n]) : n \in Taken(rNodes, s)}
      BY DEF TypeOK
    <3> HIDE DEF S
    <3> QED
      BY <1>3, <3>1, TargetsOfTaken
  <2>2. Taken(rNodes, s) \in Youngest(rNodes)
    BY YoungestTaken DEF TypeOK
  <2> QED
    BY <2>1, <2>2 DEF Serves
<1>7. ReadWhatIsCached'
  <2> SUFFICES ASSUME Informed' PROVE Right(cNode)'
    BY <1>1 DEF ReadWhatIsCached
  <2>1. rNodes = cNode
    BY <1>1 DEF ReadWhatIsCached, Informed
  <2>2. Right(cNode)' <=> Serves(targets', cNode')
    BY DEF Right, Serves
  <2> QED
    BY <1>1, <1>4, <1>6, <2>1, <2>2
<1>8. WrittenFromSeen'
  <2>1. CASE UNCHANGED <<targets, seen>>
    BY <2>1, WrittenFromSeenStays
  <2>2. CASE targets' = new /\ seen' = rNodes
    BY <2>2 DEF WrittenFromSeen
  <2> QED
    BY <1>3, <2>1, <2>2
<1> QED
  BY <1>1, <1>5, <1>7, <1>8

LEMMA ApplyFailsStep == ASSUME IInv, ApplyFails PROVE IInv'
<1> USE DEF IInv
<1>1. TypeOK'
  BY NoNodesTyped DEF ApplyFails, Finish, TypeOK
<1>2. ReadWhatIsCached'
  BY DEF ApplyFails, ReadWhatIsCached, Informed
<1> QED
  BY <1>1, <1>2, WrittenFromSeenStays DEF ApplyFails, Finish

LEMMA NextIInv == IInv /\ [Next]_vars => IInv'
<1> SUFFICES ASSUME IInv, [Next]_vars PROVE IInv'
  OBVIOUS
<1>1. CASE UNCHANGED vars
  <2>1. UNCHANGED <<node, class, cNode, cClass, now, queued, pc, rNodes, targets, seen, blind>>
    BY <1>1 DEF vars
  <2>2. TypeOK' /\ (cClass' => class')
    BY <2>1 DEF IInv, TypeOK
  <2> QED
    BY <2>1, <2>2, ReadWhatIsCachedStays, WrittenFromSeenStays DEF IInv
<1> QED
  BY <1>1, NodesStep, SyncNodeStep, ClassStep, BeginStep, ApplyStep, ApplyFailsStep DEF Next

THEOREM Invariance == Spec => []IInv
  BY InitIInv, NextIInv, PTL DEF Spec

-------------------------------------------------------------------------------
(* The properties *)

\* At rest the load balancer has the targets that getTargetsOfNodes would choose
\* now: of the events on nodes, nodePredicate holds back none that matters.
THEOREM TargetsSettle == Spec => []TargetsSettled
<1>1. IInv => TargetsSettled
  BY DEF IInv, ReadWhatIsCached, Informed, TargetsSettled
<1> QED
  BY <1>1, Invariance, PTL

\* UpdateNeeded finds the targets changed only if the nodes have changed in what
\* matters, or if the choice was open.
THEOREM NoNeedlessWrite == Spec => NoChurn
<1> DEFINE A == targets # NoALB /\ targets' # targets =>
                  \/ Relevant(rNodes) # Relevant(seen)
                  \/ Cardinality(Youngest(rNodes)) > 1
                  \/ SharedAddress(rNodes)
<1>1. IInv /\ [Next]_vars => A
  <2> SUFFICES ASSUME IInv, [Next]_vars, targets # NoALB, targets' # targets,
                      Relevant(rNodes) = Relevant(seen),
                      ~(Cardinality(Youngest(rNodes)) > 1), ~SharedAddress(rNodes)
               PROVE  FALSE
    OBVIOUS
  <2>1. Apply
    BY DEF Next, vars, CreateNode, EditNode, DeleteNode, SyncNode, CreateClass,
           SyncClass, Resync, Begin, ApplyFails
  <2>2. PICK s \in NewestFirst(rNodes) : \E new \in Chosen(rNodes, s) : targets' = new
    BY <2>1 DEF Apply, TargetsChanged
  <2>3. PICK r \in NewestFirst(seen) : targets \in Chosen(seen, r)
    BY DEF IInv, WrittenFromSeen
  <2>4. seen \in [Nodes -> NodeObject] /\ rNodes \in [Nodes -> NodeObject]
    BY DEF IInv, TypeOK
  <2>5. PICK new \in Chosen(rNodes, s) : targets' = new
    BY <2>2
  <2>6. targets = new
    BY <2>3, <2>4, SameNodesSameTargets
  <2> QED
    BY <2>5, <2>6
<1>2. IInv /\ [Next]_vars => [A]_vars
  BY <1>1
<1>3. NoChurn <=> [][A]_vars
  BY DEF NoChurn
<1> HIDE DEF A
<1> QED
  BY <1>2, <1>3, Invariance, PTL DEF Spec
===============================================================================
