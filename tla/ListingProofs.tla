---------------------------- MODULE ListingProofs ----------------------------
(* Proofs about CertificateListing: however many certificates there are, and   *)
(* whatever others create and delete between two pages, the reconciler learns  *)
(* of every certificate of its class, once.                                    *)
(*                                                                             *)
(* The argument: the pages come in the order of the IDs, and a certificate of  *)
(* the class neither comes nor goes while they are read; so what is listed is, *)
(* of the class, all there is up to the token, and beyond the token nothing.   *)
EXTENDS CertificateListing, ListLemmas

TypeOK ==
    /\ DOMAIN mine \subseteq Ids
    /\ mine \in [DOMAIN mine -> Fingerprints \union {Undescribed}]
    /\ others \subseteq Ids
    /\ nextPage \in 0 .. LastId
    /\ pages \in Nat
    /\ listed \in Seq(Ids)
    /\ pc \in {"list", "select", "done", "tooMany"}
    /\ seen \subseteq Ids
    /\ changes \in 0 .. MaxChanges

\* What is listed was there once, and is in the list once.
ListedSeen ==
    /\ IsInjective(listed)
    /\ Range(listed) \subseteq seen
    /\ Present \subseteq seen

\* While pages are read: full pages so far, up to the token, and all of the class.
ListedUpToToken ==
    pc = "list" =>
        /\ pages < MaxPages /\ Len(listed) = pages * PageSize
        /\ \A c \in Range(listed) : c <= nextPage
        /\ \A c \in DOMAIN mine : c <= nextPage => c \in Range(listed)

AllOfClassListed == pc \in {"select", "done"} => DOMAIN mine \subseteq Range(listed)

GivenUp ==
    pc = "tooMany" =>
        /\ Len(listed) = MaxPages * PageSize
        /\ \E c \in Present : c \notin Range(listed)

IInv ==
    /\ TypeOK /\ ListedSeen /\ ListedUpToToken
    /\ AllOfClassListed /\ GivenUp /\ KeptOrDoomed

-------------------------------------------------------------------------------
(* Lists *)

\* A list with each element once has as many elements as places.
LEMMA AsManyAsPlaces ==
    ASSUME NEW S, NEW s \in Seq(S), IsInjective(s)
    PROVE  IsFiniteSet(Range(s)) /\ Cardinality(Range(s)) = Len(s)
<1>1. Len(s) \in Nat /\ DOMAIN s = 1 .. Len(s)
  OBVIOUS
<1>2. s \in Bijection(1 .. Len(s), Range(s))
  BY <1>1 DEF Bijection, Injection, Surjection, IsInjective, Range
<1>3. ExistsBijection(1 .. Len(s), Range(s))
  BY <1>2 DEF ExistsBijection
<1>4. IsFiniteSet(Range(s))
  BY <1>1, <1>3, FS_NatBijection
<1> QED
  BY <1>1, <1>3, <1>4, FS_CountingElements

\* A list to which the elements of another set are appended, in some order.
LEMMA Appended ==
    ASSUME NEW S, NEW s \in Seq(S), NEW P \in SUBSET S, IsFiniteSet(P),
           NEW t \in SetToSeqs(P)
    PROVE  /\ s \o t \in Seq(S) /\ Len(s \o t) = Len(s) + Cardinality(P)
           /\ Range(s \o t) = Range(s) \union P
           /\ IsInjective(s) /\ Range(s) \intersect P = {} => IsInjective(s \o t)
<1> DEFINE u == s \o t
<1>1. /\ Cardinality(P) \in Nat /\ t \in Seq(P) /\ Len(t) = Cardinality(P)
      /\ \A n \in 1 .. Len(t) : t[n] \in P
      /\ \A m, n \in 1 .. Len(t) : t[m] = t[n] => m = n
      /\ \A x \in P : \E n \in 1 .. Len(t) : t[n] = x
  BY Enumeration
<1>2. t \in Seq(S)
  BY <1>1
<1>3. u \in Seq(S) /\ Len(u) = Len(s) + Len(t) /\ DOMAIN u = 1 .. Len(u)
  BY <1>2
<1>4. \A k \in 1 .. Len(u) :
        u[k] = IF k <= Len(s) THEN s[k] ELSE t[k - Len(s)]
  BY <1>2
<1>5. Len(s) \in Nat /\ Len(t) \in Nat /\ DOMAIN s = 1 .. Len(s)
  BY <1>1
<1> HIDE DEF u
<1>6. ASSUME NEW x \in Range(u) PROVE x \in Range(s) \union P
  <2>1. PICK k \in 1 .. Len(u) : u[k] = x
    BY <1>3, <1>6 DEF Range
  <2>2. CASE k <= Len(s)
    BY <1>4, <1>5, <2>1, <2>2 DEF Range
  <2>3. CASE ~(k <= Len(s))
    <3>1. k - Len(s) \in 1 .. Len(t)
      BY <1>3, <1>5, <2>3
    <3> QED
      BY <1>1, <1>4, <2>1, <2>3, <3>1
  <2> QED
    BY <2>2, <2>3
<1>7. ASSUME NEW x \in Range(s) PROVE x \in Range(u)
  <2>1. PICK k \in 1 .. Len(s) : s[k] = x
    BY <1>5, <1>7 DEF Range
  <2>2. k \in 1 .. Len(u) /\ u[k] = x
    BY <1>3, <1>4, <1>5, <2>1
  <2> QED
    BY <1>3, <2>2 DEF Range
<1>8. ASSUME NEW x \in P PROVE x \in Range(u)
  <2>1. PICK n \in 1 .. Len(t) : t[n] = x
    BY <1>1
  <2>2. /\ n + Len(s) \in 1 .. Len(u) /\ ~(n + Len(s) <= Len(s))
        /\ (n + Len(s)) - Len(s) = n
    BY <1>3, <1>5
  <2>3. u[n + Len(s)] = x
    BY <1>4, <2>1, <2>2
  <2> QED
    BY <1>3, <2>2, <2>3 DEF Range
<1>9. Range(u) = Range(s) \union P
  BY <1>6, <1>7, <1>8
<1>10. ASSUME IsInjective(s), Range(s) \intersect P = {} PROVE IsInjective(u)
  <2> SUFFICES ASSUME NEW a \in 1 .. Len(u), NEW b \in 1 .. Len(u), u[a] = u[b]
               PROVE  a = b
    BY <1>3 DEF IsInjective
  <2>1. \A k \in 1 .. Len(s) : s[k] \in Range(s)
    BY <1>5 DEF Range
  <2>2. \A k \in 1 .. Len(u) : ~(k <= Len(s)) => k - Len(s) \in 1 .. Len(t)
    BY <1>3, <1>5
  <2>3. \A k \in 1 .. Len(u) : k <= Len(s) => k \in 1 .. Len(s)
    BY <1>3, <1>5
  <2>4. CASE a <= Len(s) /\ b <= Len(s)
    BY <1>4, <1>5, <1>10, <2>3, <2>4 DEF IsInjective
  <2>5. CASE ~(a <= Len(s)) /\ ~(b <= Len(s))
    <3>1. t[a - Len(s)] = t[b - Len(s)]
      BY <1>4, <2>5
    <3>2. a - Len(s) = b - Len(s)
      BY <1>1, <2>2, <2>5, <3>1
    <3> QED
      BY <1>3, <1>5, <3>2
  <2>6. CASE a <= Len(s) /\ ~(b <= Len(s))
    <3>1. u[a] \in Range(s) /\ u[b] \in P
      BY <1>1, <1>4, <2>1, <2>2, <2>3, <2>6
    <3> QED
      BY <1>10, <3>1
  <2>7. CASE ~(a <= Len(s)) /\ b <= Len(s)
    <3>1. u[b] \in Range(s) /\ u[a] \in P
      BY <1>1, <1>4, <2>1, <2>2, <2>3, <2>7
    <3> QED
      BY <1>10, <3>1
  <2> QED
    BY <2>4, <2>5, <2>6, <2>7
<1> QED
  BY <1>1, <1>3, <1>9, <1>10 DEF u

-------------------------------------------------------------------------------
(* A page *)

\* The certificates of a page come before those of the pages after it; if there
\* are such, the page is full and its token is the last of its certificates.
LEMMA PageFacts ==
    ASSUME TypeOK, NEW token \in 0 .. LastId
    PROVE  /\ Page(token) \subseteq After(token) /\ After(token) \subseteq Present
           /\ After(token) \in SUBSET Ids /\ IsFiniteSet(Page(token))
           /\ \A c \in Page(token), d \in After(token) \ Page(token) : c < d
           /\ NextPageId(token) = 0 => Page(token) = After(token)
           /\ NextPageId(token) # 0 =>
                /\ NextPageId(token) \in Page(token) /\ Page(token) # After(token)
                /\ \A c \in Page(token) : c <= NextPageId(token)
                /\ Cardinality(Page(token)) = PageSize
<1> DEFINE S == After(token)
           F == Page(token)
<1>1. LastId \in Nat /\ PageSize \in Nat /\ PageSize # 0
  BY LastIdAssumption, SizesPositive
<1>2. S \in SUBSET (1 .. LastId) /\ S \subseteq Present
  BY DEF TypeOK, After, Present, Ids
<1>3. F = FirstOf(S, PageSize)
  BY DEF Page, FirstOf
<1>4. NextPageId(token) = IF F = S THEN 0 ELSE Max(F)
  BY DEF NextPageId
<1> HIDE DEF S, F
<1>5. /\ F \subseteq S /\ IsFiniteSet(S) /\ IsFiniteSet(F)
      /\ \A k \in F, j \in S \ F : k < j
      /\ Cardinality(F) = IF Cardinality(S) < PageSize THEN Cardinality(S) ELSE PageSize
  <2>1. F \subseteq S /\ IsFiniteSet(S) /\ IsFiniteSet(F)
    <3>1. F \subseteq S
      BY <1>3 DEF FirstOf
    <3>2. IsFiniteSet(S)
      <4>1. IsFiniteSet(1 .. LastId)
        BY <1>1, FS_Interval
      <4> QED
        BY <1>2, <4>1, FS_Subset
    <3>3. IsFiniteSet(F)
      BY <3>1, <3>2, FS_Subset
    <3> QED
      BY <3>1, <3>2, <3>3
  <2>2. Within(S, LastId)
    BY <1>2 DEF Within
  <2>3. \A k \in F, j \in S \ F : k < j
    BY <1>1, <1>3, <2>2, FirstOnes
  <2>4. Cardinality(F) = IF Cardinality(S) < PageSize THEN Cardinality(S) ELSE PageSize
    BY <1>1, <1>3, <2>2, FirstOnes
  <2> QED
    BY <2>1, <2>3, <2>4
<1>6. ASSUME F # S
      PROVE  /\ Cardinality(F) = PageSize
             /\ Max(F) \in F /\ \A c \in F : c <= Max(F)
  <2>1. Cardinality(S) \in Nat /\ F \in SUBSET S
    BY <1>5, FS_CardinalityType
  <2>2. Cardinality(S) # Cardinality(F)
    BY <1>5, <1>6, <2>1, FS_Subset
  <2>3. Cardinality(F) = PageSize
    BY <1>5, <2>2
  <2>4. F # {}
    <3>1. PageSize # 0
      BY <1>1
    <3> QED
      BY <2>3, <3>1, FS_EmptySet
  <2>5. F \in SUBSET (1 .. LastId)
    BY <1>2, <2>1
  <2>6. \E j \in F : \A k \in F : k <= j
    BY <1>1, <2>4, <2>5, Greatest
  <2>7. \A j, k \in F : k <= j <=> j >= k
    BY <2>5
  <2>8. \E j \in F : \A k \in F : j >= k
    BY <2>6, <2>7
  <2>9. Max(F) \in F /\ \A c \in F : Max(F) >= c
    BY <2>8 DEF Max
  <2> QED
    BY <2>3, <2>7, <2>9
<1>7. \A c \in F : c # 0
  BY <1>2, <1>5
<1>8. NextPageId(token) = 0 => F = S
  BY <1>4, <1>6, <1>7
<1>9. NextPageId(token) # 0 =>
        /\ NextPageId(token) \in F /\ F # S
        /\ \A c \in F : c <= NextPageId(token)
        /\ Cardinality(F) = PageSize
  BY <1>4, <1>6
<1>10. S \in SUBSET Ids
  BY <1>2 DEF Ids
<1> QED
  BY <1>2, <1>5, <1>8, <1>9, <1>10 DEF S, F

-------------------------------------------------------------------------------
(* The invariant *)

LEMMA InitIInv == Init => IInv
<1> SUFFICES ASSUME Init PROVE IInv
  OBVIOUS
<1>1. MaxPages \in Nat \ {0} /\ PageSize \in Nat \ {0} /\ LastId \in Nat /\ MaxChanges \in Nat
  BY LastIdAssumption, SizesPositive, BoundAssumption
<1>2. PICK M \in SUBSET Ids : /\ mine \in [M -> Fingerprints \union {Undescribed}]
                              /\ others \in SUBSET (Ids \ M)
  BY DEF Init
<1>3. DOMAIN mine = M
  BY <1>2
<1>4. listed \in Seq(Ids) /\ Range(listed) = {} /\ Len(listed) = 0 /\ IsInjective(listed)
  BY DEF Init, Range, IsInjective
<1>5. \A c \in Ids : ~(c <= 0)
  BY DEF Ids
<1>6. TypeOK
  BY <1>1, <1>2, <1>3, <1>4 DEF Init, TypeOK, Present
<1>7. ListedSeen
  BY <1>4 DEF Init, ListedSeen
<1>8. ListedUpToToken
  <2>1. 0 * PageSize = 0 /\ 0 < MaxPages
    BY <1>1
  <2> QED
    BY <1>2, <1>3, <1>4, <1>5, <2>1 DEF Init, ListedUpToToken
<1> QED
  BY <1>6, <1>7, <1>8 DEF Init, IInv, AllOfClassListed, GivenUp, KeptOrDoomed

LEMMA OthersChangeStep == IInv /\ OthersChange => IInv'
<1> SUFFICES ASSUME IInv, OthersChange PROVE IInv'
  OBVIOUS
<1> USE DEF IInv
<1>1. /\ pc = "list" /\ changes < MaxChanges /\ changes' = changes + 1
      /\ others' \subseteq Ids
      /\ seen' = seen \union others'
      /\ UNCHANGED <<mine, nextPage, pages, listed, pc, kept, doomed>>
  BY DEF OthersChange, Change, TypeOK
<1>2. changes' \in 0 .. MaxChanges
  BY <1>1, BoundAssumption DEF TypeOK
<1>3. TypeOK'
  BY <1>1, <1>2 DEF TypeOK
<1>4. ListedSeen'
  BY <1>1 DEF ListedSeen, Present
<1>5. ListedUpToToken'
  BY <1>1 DEF ListedUpToToken
<1> QED
  BY <1>1, <1>3, <1>4, <1>5 DEF AllOfClassListed, GivenUp, KeptOrDoomed

LEMMA RequestFailsStep == IInv /\ RequestFails => IInv'
<1> SUFFICES ASSUME IInv, RequestFails PROVE IInv'
  OBVIOUS
<1> USE DEF IInv
<1>1. /\ pc = "list" /\ changes < MaxChanges /\ changes' = changes + 1
      /\ nextPage' = 0 /\ pages' = 0 /\ listed' = <<>>
      /\ seen' = Present
      /\ UNCHANGED <<mine, others, pc, kept, doomed>>
  BY DEF RequestFails, Change
<1>2. MaxPages \in Nat \ {0} /\ PageSize \in Nat \ {0} /\ LastId \in Nat
  BY LastIdAssumption, SizesPositive
<1>3. changes' \in 0 .. MaxChanges
  BY <1>1, BoundAssumption DEF TypeOK
<1>4. listed' \in Seq(Ids) /\ Range(listed') = {} /\ Len(listed') = 0 /\ IsInjective(listed')
  BY <1>1 DEF Range, IsInjective
<1>5. Present \subseteq Ids /\ Present' = Present
  BY <1>1 DEF Present, TypeOK
<1>6. TypeOK'
  BY <1>1, <1>2, <1>3, <1>4, <1>5 DEF TypeOK
<1>7. ListedSeen'
  BY <1>1, <1>4, <1>5 DEF ListedSeen
<1>8. ListedUpToToken'
  <2>1. 0 * PageSize = 0 /\ 0 < MaxPages
    BY <1>2
  <2>2. \A c \in DOMAIN mine : ~(c <= 0)
    BY DEF TypeOK, Ids
  <2> QED
    BY <1>1, <1>4, <2>1, <2>2 DEF ListedUpToToken
<1> QED
  BY <1>1, <1>6, <1>7, <1>8 DEF AllOfClassListed, GivenUp, KeptOrDoomed

LEMMA ReadPageStep == IInv /\ ReadPage => IInv'
<1> SUFFICES ASSUME IInv, ReadPage PROVE IInv'
  OBVIOUS
<1> USE DEF IInv
<1> DEFINE P == Page(nextPage)
           A == After(nextPage)
           N == NextPageId(nextPage)
<1>1. /\ pc = "list"
      /\ UNCHANGED <<mine, others, kept, doomed, seen, changes>>
  BY DEF ReadPage
<1>2. PICK s \in SetToSeqs(P) : listed' = listed \o s
  BY DEF ReadPage
<1>3. \/ N = 0 /\ pc' = "select" /\ UNCHANGED <<nextPage, pages>>
      \/ /\ N # 0 /\ pages' = pages + 1 /\ nextPage' = N
         /\ pc' = IF pages' >= MaxPages THEN "tooMany" ELSE "list"
  BY DEF ReadPage
<1>4. MaxPages \in Nat /\ PageSize \in Nat /\ LastId \in Nat /\ pages \in Nat
  BY LastIdAssumption, SizesPositive DEF TypeOK
<1>5. /\ P \subseteq A /\ A \subseteq Present /\ A \in SUBSET Ids /\ IsFiniteSet(P)
      /\ \A c \in P, d \in A \ P : c < d
      /\ N = 0 => P = A
      /\ N # 0 => N \in P /\ P # A /\ (\A c \in P : c <= N) /\ Cardinality(P) = PageSize
  BY PageFacts DEF TypeOK
<1>6. \A c : c \in A <=> c \in Present /\ c > nextPage
  BY DEF After
<1> HIDE DEF P, A, N
<1>7. \A c \in Ids : c \in Nat /\ c <= LastId
  BY <1>4 DEF Ids
<1>8. nextPage \in Nat
  BY <1>4 DEF TypeOK
<1>9. Range(listed) \intersect P = {}
  <2> SUFFICES ASSUME NEW c \in Range(listed), c \in P PROVE FALSE
    OBVIOUS
  <2>1. c <= nextPage
    BY <1>1 DEF ListedUpToToken
  <2>2. c > nextPage /\ c \in Nat
    BY <1>5, <1>6, <1>7
  <2> QED
    BY <1>8, <2>1, <2>2
<1>10. /\ listed' \in Seq(Ids) /\ Len(listed') = Len(listed) + Cardinality(P)
       /\ Range(listed') = Range(listed) \union P
       /\ IsInjective(listed')
  <2>1. listed \in Seq(Ids) /\ P \in SUBSET Ids /\ IsInjective(listed)
    BY <1>5 DEF TypeOK, ListedSeen
  <2> QED
    BY <1>2, <1>5, <1>9, <2>1, Appended
<1>11. nextPage' \in 0 .. LastId /\ pages' \in Nat
       /\ pc' \in {"list", "select", "done", "tooMany"}
  BY <1>3, <1>4, <1>5, <1>7 DEF TypeOK
<1>12. TypeOK'
  BY <1>1, <1>10, <1>11 DEF TypeOK
<1>13. ListedSeen'
  BY <1>1, <1>5, <1>10 DEF ListedSeen, Present
<1>14. Present' = Present
  BY <1>1 DEF Present
<1>15. N # 0 => Len(listed') = pages' * PageSize
  <2> SUFFICES ASSUME N # 0 PROVE Len(listed') = pages' * PageSize
    OBVIOUS
  <2>1. Len(listed) = pages * PageSize
    BY <1>1 DEF ListedUpToToken
  <2>2. (pages + 1) * PageSize = pages * PageSize + PageSize
    BY <1>4
  <2> QED
    BY <1>3, <1>5, <1>10, <2>1, <2>2
\* Of the class, what was listed before is there still, and what comes up to the new token is on the page.
<1>16. \A c \in DOMAIN mine : c \in A \/ c \in Range(listed)
  <2> SUFFICES ASSUME NEW c \in DOMAIN mine, c \notin Range(listed) PROVE c \in A
    OBVIOUS
  <2>1. c \in Present /\ c \in Nat
    BY <1>7 DEF Present, TypeOK
  <2>2. ~(c <= nextPage)
    BY <1>1 DEF ListedUpToToken
  <2>3. c > nextPage
    BY <1>8, <2>1, <2>2
  <2> QED
    BY <1>6, <2>1, <2>3
<1>17. ListedUpToToken'
  <2> SUFFICES ASSUME pc' = "list"
               PROVE  /\ pages' < MaxPages /\ Len(listed') = pages' * PageSize
                      /\ \A c \in Range(listed') : c <= nextPage'
                      /\ \A c \in DOMAIN mine : c <= nextPage' => c \in Range(listed')
    BY <1>1 DEF ListedUpToToken
  <2>1. N # 0 /\ nextPage' = N /\ ~(pages' >= MaxPages)
    BY <1>3
  <2>2. N \in Nat /\ N > nextPage
    BY <1>5, <1>6, <1>7, <2>1
  <2>3. ASSUME NEW c \in Range(listed') PROVE c <= N
    <3>1. CASE c \in P
      BY <1>5, <2>1, <3>1
    <3>2. CASE c \in Range(listed)
      <4>1. c <= nextPage /\ c \in Ids
        BY <1>1, <3>2 DEF ListedUpToToken, ListedSeen, TypeOK
      <4> QED
        BY <1>7, <1>8, <2>2, <4>1
    <3> QED
      BY <1>10, <2>3, <3>1, <3>2
  <2>4. ASSUME NEW c \in DOMAIN mine, c <= N PROVE c \in Range(listed')
    <3>1. CASE c \in A /\ c \notin P
      <4>1. N < c /\ c \in Nat
        BY <1>5, <1>7, <2>1, <3>1
      <4> QED
        BY <2>2, <2>4, <4>1
    <3> QED
      BY <1>10, <1>16, <3>1
  <2>5. pages' < MaxPages
    BY <1>4, <1>11, <2>1
  <2> QED
    BY <1>15, <2>1, <2>3, <2>4, <2>5
<1>18. AllOfClassListed'
  <2> SUFFICES ASSUME pc' \in {"select", "done"} PROVE DOMAIN mine \subseteq Range(listed')
    BY <1>1 DEF AllOfClassListed
  <2>1. N = 0
    BY <1>3
  <2> QED
    BY <1>5, <1>10, <1>16, <2>1
<1>19. GivenUp'
  <2> SUFFICES ASSUME pc' = "tooMany"
               PROVE  /\ Len(listed') = MaxPages * PageSize
                      /\ \E c \in Present : c \notin Range(listed')
    BY <1>14 DEF GivenUp
  <2>1. N # 0 /\ pages' = pages + 1 /\ pages' >= MaxPages /\ pages < MaxPages
    BY <1>1, <1>3 DEF ListedUpToToken
  <2>2. pages' = MaxPages
    BY <1>4, <2>1
  <2>3. PICK c \in A : c \notin P
    BY <1>5, <2>1
  <2>4. c \notin Range(listed)
    <3>1. c > nextPage /\ c \in Nat
      BY <1>5, <1>6, <1>7
    <3>2. \A d \in Range(listed) : d <= nextPage
      BY <1>1 DEF ListedUpToToken
    <3> QED
      BY <1>8, <3>1, <3>2
  <2> QED
    BY <1>5, <1>10, <1>15, <2>1, <2>2, <2>3, <2>4
<1>20. pc' # "done"
  BY <1>3
<1> QED
  BY <1>12, <1>13, <1>17, <1>18, <1>19, <1>20 DEF KeptOrDoomed

LEMMA SelectCertsStep == IInv /\ SelectCerts => IInv'
<1> SUFFICES ASSUME IInv, SelectCerts PROVE IInv'
  OBVIOUS
<1> USE DEF IInv
<1>1. /\ pc = "select" /\ pc' = "done"
      /\ UNCHANGED <<mine, others, nextPage, pages, listed, seen, changes>>
  BY DEF SelectCerts
<1> DEFINE First == {o \in Own : Described(o) /\ ~Repeated(o)}
           Later == {o \in Own : Described(o) /\ Repeated(o)}
           D == {c \in DOMAIN mine : mine[c] # Undescribed}
<1>2. kept' = {listed[k] : k \in First} /\ doomed' = [k \in Later |-> listed[k]]
  BY DEF SelectCerts
<1>3. \A k : k \in Own <=> k \in DOMAIN listed /\ listed[k] \in DOMAIN mine
  BY DEF Own
<1>4. \A j, k \in DOMAIN listed : listed[j] = listed[k] => j = k
  BY DEF ListedSeen, IsInjective
<1>5. \A c \in DOMAIN mine : \E k \in Own : listed[k] = c
  BY <1>1, <1>3 DEF AllOfClassListed, Range
<1>6. \A k \in Own : Described(k) <=> listed[k] \in D
  BY <1>3 DEF Described
<1>7. Own \subseteq Nat
  BY <1>3 DEF TypeOK
<1>8. D = kept' \union Range(doomed')
  <2>1. Range(doomed') = {listed[k] : k \in Later}
    BY <1>2 DEF Range
  <2>2. \A k \in Own : Described(k) <=> k \in First \/ k \in Later
    OBVIOUS
  <2>3. First \subseteq Own /\ Later \subseteq Own
    OBVIOUS
  <2>4. D \subseteq DOMAIN mine
    OBVIOUS
  <2> HIDE DEF First, Later, D
  <2>5. ASSUME NEW c \in D PROVE c \in kept' \union Range(doomed')
    <3>1. PICK k \in Own : listed[k] = c
      BY <1>5, <2>4
    <3>2. k \in First \/ k \in Later
      BY <1>6, <2>2, <3>1
    <3> QED
      BY <1>2, <2>1, <3>1, <3>2
  <2>6. ASSUME NEW c \in kept' \union Range(doomed') PROVE c \in D
    <3>1. PICK k \in First \union Later : listed[k] = c
      BY <1>2, <2>1
    <3> QED
      BY <1>6, <2>2, <2>3, <3>1
  <2> QED
    BY <2>5, <2>6
<1>9. kept' \intersect Range(doomed') = {}
  <2> SUFFICES ASSUME NEW c \in kept', c \in Range(doomed') PROVE FALSE
    OBVIOUS
  <2>1. PICK j \in First : listed[j] = c
    BY <1>2
  <2>2. PICK k \in Later : listed[k] = c
    BY <1>2 DEF Range
  <2>3. j = k
    BY <1>3, <1>4, <2>1, <2>2
  <2> QED
    BY <2>3
<1>10. ASSUME NEW c \in D
       PROVE  Cardinality({x \in kept' : mine[x] = mine[c]}) = 1
  <2> DEFINE Same == {k \in Own : mine[listed[k]] = mine[c]}
  <2>1. Same \subseteq Nat /\ Same # {}
    BY <1>5, <1>7
  <2>2. PICK m \in Same : \A k \in Same : ~(k < m)
    <3> HIDE DEF Same
    <3> QED
      BY <2>1, Least
  <2>3. m \in First
    <3>1. Described(m)
      BY <2>2 DEF Described
    <3>2. ~Repeated(m)
      BY <2>2 DEF Repeated
    <3> QED
      BY <2>2, <3>1, <3>2
  <2>4. ASSUME NEW x \in kept', mine[x] = mine[c] PROVE x = listed[m]
    <3>1. PICK k \in First : listed[k] = x
      BY <1>2
    <3>2. k \in Same /\ ~Repeated(k)
      BY <2>4, <3>1
    <3>3. ~(m < k)
      BY <2>2, <3>2 DEF Repeated
    <3>4. k = m
      BY <1>7, <2>2, <3>2, <3>3
    <3> QED
      BY <3>1, <3>4
  <2>5. {x \in kept' : mine[x] = mine[c]} = {listed[m]}
    BY <1>2, <2>2, <2>3, <2>4
  <2> QED
    BY <2>5, FS_Singleton
<1>11. IsInjective(doomed')
  <2>1. Later \subseteq DOMAIN listed
    BY <1>3
  <2> HIDE DEF Later
  <2> QED
    BY <1>2, <1>4, <2>1 DEF IsInjective
<1>12. KeptOrDoomed'
  BY <1>1, <1>8, <1>9, <1>10, <1>11 DEF KeptOrDoomed
<1>13. TypeOK'
  BY <1>1 DEF TypeOK
<1>14. ListedSeen' /\ ListedUpToToken' /\ AllOfClassListed' /\ GivenUp'
  BY <1>1 DEF ListedSeen, Present, ListedUpToToken, AllOfClassListed, GivenUp
<1> QED
  BY <1>12, <1>13, <1>14

\* What holds of every state of the listing.
THEOREM Invariance == Spec => []IInv
<1>1. IInv /\ [Next]_vars => IInv'
  <2> SUFFICES ASSUME IInv, [Next]_vars PROVE IInv'
    OBVIOUS
  <2>1. CASE UNCHANGED vars
    BY <2>1 DEF vars, IInv, TypeOK, ListedSeen, Present, ListedUpToToken,
                AllOfClassListed, GivenUp, KeptOrDoomed
  <2> QED
    BY <2>1, OthersChangeStep, ReadPageStep, RequestFailsStep, SelectCertsStep DEF Next
<1> QED
  BY <1>1, InitIInv, PTL DEF Spec

-------------------------------------------------------------------------------
(* The properties *)

\* Whatever others create and delete between two pages, every certificate of the
\* class is in the list that getCertificatesForIngressClass goes through, once.
THEOREM EveryCertificateListedOnce == Spec => []ListedOnce
<1>1. IInv => ListedOnce
  <2> SUFFICES ASSUME IInv, pc \in {"select", "done"}, NEW c \in DOMAIN mine
               PROVE  Cardinality({k \in DOMAIN listed : listed[k] = c}) = 1
    BY DEF ListedOnce
  <2>1. PICK k \in DOMAIN listed : listed[k] = c
    BY DEF IInv, AllOfClassListed, Range
  <2>2. \A j \in DOMAIN listed : listed[j] = c => j = k
    BY <2>1 DEF IInv, ListedSeen, IsInjective
  <2>3. {j \in DOMAIN listed : listed[j] = c} = {k}
    BY <2>1, <2>2
  <2> QED
    BY <2>3, FS_Singleton
<1> QED
  BY <1>1, Invariance, PTL

\* Of the certificates with one fingerprint certIDMap keeps one, and
\* duplicateCerts has the others, and nothing else, once.
THEOREM EveryCertificateKeptOrDoomed == Spec => []KeptOrDoomed
<1>1. IInv => KeptOrDoomed
  BY DEF IInv
<1> QED
  BY <1>1, Invariance, PTL

\* ListCertificate fails for too many pages only if the project had more
\* certificates than fit into them.
THEOREM GivesUpBeyondLimit == Spec => []GivesUpOnlyBeyondLimit
<1>1. IInv => GivesUpOnlyBeyondLimit
  <2> SUFFICES ASSUME IInv, pc = "tooMany" PROVE Cardinality(seen) > MaxPages * PageSize
    BY DEF GivesUpOnlyBeyondLimit
  <2> DEFINE L == Range(listed)
  <2>1. IsFiniteSet(L) /\ Cardinality(L) = Len(listed) /\ Len(listed) = MaxPages * PageSize
    BY AsManyAsPlaces DEF IInv, TypeOK, ListedSeen, GivenUp
  <2>2. PICK c \in seen : c \notin L
    BY DEF IInv, ListedSeen, GivenUp
  <2>3. L \subseteq seen
    BY DEF IInv, ListedSeen
  <2>4. IsFiniteSet(seen)
    <3>1. 1 \in Int /\ LastId \in Int
      BY LastIdAssumption
    <3>2. IsFiniteSet(1 .. LastId)
      BY <3>1, FS_Interval
    <3>3. seen \in SUBSET (1 .. LastId)
      BY DEF IInv, TypeOK, Ids
    <3> QED
      BY <3>2, <3>3, FS_Subset
  <2> HIDE DEF L
  <2>5. /\ IsFiniteSet(L \union {c}) /\ Cardinality(L \union {c}) = Cardinality(L) + 1
        /\ Cardinality(L) \in Nat
    BY <2>1, <2>2, FS_AddElement, FS_CardinalityType
  <2>6. L \union {c} \in SUBSET seen
    BY <2>2, <2>3
  <2>7. Cardinality(L \union {c}) <= Cardinality(seen) /\ Cardinality(seen) \in Nat
    BY <2>4, <2>6, FS_Subset, FS_CardinalityType
  <2> QED
    BY <2>1, <2>5, <2>7
<1> QED
  BY <1>1, Invariance, PTL
===============================================================================
