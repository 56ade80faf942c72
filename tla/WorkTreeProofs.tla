---------------------------- MODULE WorkTreeProofs ----------------------------
(* Proofs about WorkTree, for every set of Ingresses, services and limits.     *)
EXTENDS WorkTree, ListLemmas

Protocols == {"HTTP", "HTTPS"}

LEMMA CardinalityOfIngresses == Cardinality(Ingresses) \in Nat
  BY IngressesFinite, FS_CardinalityType

-------------------------------------------------------------------------------
(* Data *)

LEMMA NodePortType ==
    ASSUME NEW p \in Path, ValidBackend(p)
    PROVE  NodePort(p) \in Nat
<1> DEFINE Q == Services[p.service].ports
           N == {j \in Matching(p) : Q[j].nodePort # 0}
<1>1. Q \in Seq([number : Nat, name : STRING, nodePort : Nat])
  BY ServicesTyped DEF ValidBackend, Exposed, Service
<1>2. Len(Q) \in Nat /\ DOMAIN Q = 1 .. Len(Q)
  BY <1>1
<1>3. \A k \in 1 .. Len(Q) : Q[k].nodePort \in Nat
  <2> HIDE DEF Q
  <2>1. \A k \in 1 .. Len(Q) : Q[k] \in [number : Nat, name : STRING, nodePort : Nat]
    BY <1>1, ElementType
  <2> QED
    BY <2>1
<1>4. N \in SUBSET (1 .. Len(Q))
  BY <1>2 DEF Matching
<1>5. N # {}
  BY DEF ValidBackend, NodePort
<1>6. \E j \in N : \A k \in N : k <= j
  <2> HIDE DEF N, Q
  <2> QED
    BY <1>2, <1>4, <1>5, Greatest
<1> DEFINE j == CHOOSE j \in N : \A k \in N : k <= j
<1>7. NodePort(p) = Q[j].nodePort
  BY <1>5 DEF NodePort
<1>8. j \in 1 .. Len(Q)
  <2>1. j \in N
    <3> HIDE DEF N, Q
    <3> QED
      BY <1>6
  <2> HIDE DEF j, N
  <2> QED
    BY <2>1, <1>4
<1> HIDE DEF j, Q
<1> QED
  BY <1>7, <1>8, <1>3

LEMMA SpecType ==
    ASSUME NEW s \in Specs
    PROVE  /\ s \in IngressSpec
           /\ s.paths \in Seq(Path) /\ Len(s.paths) \in Nat
           /\ DOMAIN s.paths = 1 .. Len(s.paths)
           /\ \A k \in 1 .. Len(s.paths) : s.paths[k] \in Path
<1>1. s \in IngressSpec
  BY SpecsTyped
<1>2. s.paths \in Seq(Path)
  BY <1>1 DEF IngressSpec
<1>3. Len(s.paths) \in Nat /\ DOMAIN s.paths = 1 .. Len(s.paths)
  BY <1>2
<1>4. \A k \in 1 .. Len(s.paths) : s.paths[k] \in Path
  <2> DEFINE Q == s.paths
  <2> HIDE DEF Q
  <2>1. \A k \in 1 .. Len(Q) : Q[k] \in Path
    BY <1>2, ElementType DEF Q
  <2> QED
    BY <2>1 DEF Q
<1> QED
  BY <1>1, <1>2, <1>3, <1>4

LEMMA OrderType ==
    ASSUME NEW o \in Orders
    PROVE  /\ o \in Seq(Ingresses) /\ Len(o) = Cardinality(Ingresses)
           /\ DOMAIN o = 1 .. Len(o)
           /\ \A n \in DOMAIN o : o[n] \in Ingresses
           /\ \A m, n \in DOMAIN o : o[m] = o[n] => m = n
           /\ \A i \in Ingresses : \E n \in DOMAIN o : o[n] = i
<1>1. o \in [1 .. Cardinality(Ingresses) -> Ingresses]
  BY DEF Orders
<1>2. o \in Seq(Ingresses) /\ Len(o) = Cardinality(Ingresses) /\ DOMAIN o = 1 .. Len(o)
  BY <1>1, CardinalityOfIngresses
<1>3. \A m, n \in DOMAIN o : o[m] = o[n] => m = n
  BY DEF Orders
<1>4. o \in Injection(1 .. Cardinality(Ingresses), Ingresses)
  BY <1>1, <1>3 DEF Injection, IsInjective
<1>5. Cardinality(1 .. Cardinality(Ingresses)) = Cardinality(Ingresses)
  BY CardinalityOfIngresses, FS_Interval
<1>6. o \in Surjection(1 .. Cardinality(Ingresses), Ingresses)
  BY <1>4, <1>5, IngressesFinite, FS_Injection
<1> QED
  BY <1>1, <1>2, <1>3, <1>6 DEF Surjection

-------------------------------------------------------------------------------
(* addPath *)

LEMMA AddedOne ==
    ASSUME NEW L \in [Ports -> Listener], NEW rule \in Rule, NEW port \in Ports,
           NEW protocol \in Protocols
    PROVE  LET M == Added(L, rule, port, protocol)
           IN /\ M \in [Ports -> Listener]
              /\ \A q \in Ports : q # port => M[q] = L[q]
              /\ Conflicts(L[port], rule, protocol) # {} => M = L
              /\ Conflicts(L[port], rule, protocol) = {} =>
                   /\ L[port].protocol \in {"none", protocol}
                   /\ M[port] = [protocol |-> protocol, rules |-> L[port].rules \union {rule}]
<1>1. With(L[port], rule, protocol) \in Listener
  BY DEF With, Listener, Protocols
<1>2. CASE Conflicts(L[port], rule, protocol) # {}
  BY <1>2 DEF Added
<1>3. CASE Conflicts(L[port], rule, protocol) = {}
  <2>1. L[port].protocol \in {"none", protocol}
    BY <1>3 DEF Conflicts
  <2>2. With(L[port], rule, protocol) =
          [protocol |-> protocol, rules |-> L[port].rules \union {rule}]
    BY <2>1 DEF With
  <2>3. Added(L, rule, port, protocol) = [L EXCEPT ![port] = With(@, rule, protocol)]
    BY <1>3 DEF Added
  <2> HIDE DEF With
  <2> QED
    BY <1>1, <1>3, <2>1, <2>2, <2>3
<1> QED
  BY <1>2, <1>3

\* A rule is on a listener, or has lost to one that is.
Serves(l, rule, protocol) == rule \in l.rules /\ l.protocol = protocol
Loses(l, rule, protocol) ==
    \E r \in l.rules : l.protocol # protocol \/ SameMatch(r, rule)

\* A listener without rules is not there.
Proper(L) == \A q \in Ports : L[q].protocol = "none" <=> L[q].rules = {}

\* M is L with the rule on some listeners: none loses a rule or changes its protocol.
Extends(L, M, rule) ==
    /\ M \in [Ports -> Listener] /\ Proper(M)
    /\ \A q \in Ports : M[q].rules \in {L[q].rules, L[q].rules \union {rule}}
    /\ \A q \in Ports : L[q].protocol # "none" => M[q].protocol = L[q].protocol

LEMMA AddedExtends ==
    ASSUME NEW L \in [Ports -> Listener], Proper(L), NEW rule \in Rule, NEW port \in Ports,
           NEW protocol \in Protocols
    PROVE  LET M == Added(L, rule, port, protocol)
           IN /\ Extends(L, M, rule)
              /\ Conflicts(L[port], rule, protocol) = {} => Serves(M[port], rule, protocol)
              /\ Conflicts(L[port], rule, protocol) # {} =>
                   M = L /\ Loses(M[port], rule, protocol)
              /\ \A q \in Ports : M[q] # L[q] => M[q].protocol = protocol
<1> DEFINE M == Added(L, rule, port, protocol)
           Effect == /\ Extends(L, M, rule)
                     /\ Conflicts(L[port], rule, protocol) = {} =>
                          Serves(M[port], rule, protocol)
                     /\ Conflicts(L[port], rule, protocol) # {} =>
                          M = L /\ Loses(M[port], rule, protocol)
                     /\ \A q \in Ports : M[q] # L[q] => M[q].protocol = protocol
<1> SUFFICES Effect
  OBVIOUS
<1>1. /\ M \in [Ports -> Listener]
      /\ \A q \in Ports : q # port => M[q] = L[q]
      /\ Conflicts(L[port], rule, protocol) # {} => M = L
      /\ Conflicts(L[port], rule, protocol) = {} =>
           /\ L[port].protocol \in {"none", protocol}
           /\ M[port] = [protocol |-> protocol, rules |-> L[port].rules \union {rule}]
  BY AddedOne
<1> HIDE DEF M
<1>2. CASE Conflicts(L[port], rule, protocol) # {}
  <2>1. \E r \in L[port].rules : L[port].protocol # protocol \/ SameMatch(r, rule)
    <3>1. CASE L[port].protocol \notin {"none", protocol}
      BY <3>1 DEF Proper
    <3>2. CASE L[port].protocol \in {"none", protocol}
      BY <1>2, <3>2 DEF Conflicts
    <3> QED
      BY <3>1, <3>2
  <2> QED
    BY <1>1, <1>2, <2>1 DEF Extends, Loses
<1>3. CASE Conflicts(L[port], rule, protocol) = {}
  <2>1. Serves(M[port], rule, protocol)
    BY <1>1, <1>3 DEF Serves
  <2>2. Proper(M)
    <3> SUFFICES ASSUME NEW q \in Ports
                 PROVE  M[q].protocol = "none" <=> M[q].rules = {}
      BY DEF Proper
    <3> QED
      BY <1>1, <1>3 DEF Proper, Protocols
  <2>3. ASSUME NEW q \in Ports
        PROVE  /\ M[q].rules \in {L[q].rules, L[q].rules \union {rule}}
               /\ L[q].protocol # "none" => M[q].protocol = L[q].protocol
               /\ M[q] # L[q] => M[q].protocol = protocol
    BY <1>1, <1>3
  <2> QED
    BY <1>1, <1>3, <2>1, <2>2, <2>3 DEF Extends
<1> QED
  BY <1>2, <1>3

LEMMA ExtendsTwice ==
    ASSUME NEW L, NEW M, NEW N, NEW rule, Extends(L, M, rule), Extends(M, N, rule)
    PROVE  Extends(L, N, rule)
  BY DEF Extends, Proper

\* What a listener serves it goes on serving, and who has lost on it has lost for good.
LEMMA OutcomeStays ==
    ASSUME NEW L, NEW M, NEW rule, NEW q \in Ports, Extends(L, M, rule), Proper(L),
           NEW other, NEW protocol \in Protocols
    PROVE  /\ Serves(L[q], other, protocol) => Serves(M[q], other, protocol)
           /\ Loses(L[q], other, protocol) => Loses(M[q], other, protocol)
<1>1. L[q].rules \subseteq M[q].rules
  BY DEF Extends
<1>2. L[q].rules # {} => M[q].protocol = L[q].protocol
  BY DEF Extends, Proper
<1> QED
  BY <1>1, <1>2 DEF Serves, Loses

\* The two calls of addPath for the path of an admitted Ingress.
Plain(L, s, rule) == IF s.httpsOnly THEN L ELSE Added(L, rule, s.http, "HTTP")
Secure(L, s, rule) ==
    IF s.tls = {} THEN Plain(L, s, rule) ELSE Added(Plain(L, s, rule), rule, s.https, "HTTPS")

LEMMA BothCalls ==
    ASSUME NEW L \in [Ports -> Listener], Proper(L), NEW rule \in Rule,
           NEW s \in IngressSpec, ~Rejected(s)
    PROVE  LET P == Plain(L, s, rule)
               M == Secure(L, s, rule)
           IN /\ P \in [Ports -> Listener] /\ Extends(L, M, rule)
              /\ \A q \in Ports : M[q] # L[q] /\ M[q].protocol = "HTTP" => ~s.httpsOnly
              /\ ~s.httpsOnly =>
                   /\ s.http \in Ports
                   /\ \/ Serves(M[s.http], rule, "HTTP")
                      \/ /\ Conflicts(L[s.http], rule, "HTTP") # {}
                         /\ Loses(M[s.http], rule, "HTTP")
              /\ s.tls # {} =>
                   /\ s.https \in Ports
                   /\ \/ Serves(M[s.https], rule, "HTTPS")
                      \/ /\ Conflicts(P[s.https], rule, "HTTPS") # {}
                         /\ Loses(M[s.https], rule, "HTTPS")
<1> DEFINE P == Plain(L, s, rule)
           M == Secure(L, s, rule)
<1>1. Extends(L, L, rule)
  BY DEF Extends
<1>2. /\ Extends(L, P, rule)
      /\ ~s.httpsOnly =>
           /\ s.http \in Ports
           /\ \/ Serves(P[s.http], rule, "HTTP")
              \/ Conflicts(L[s.http], rule, "HTTP") # {} /\ Loses(P[s.http], rule, "HTTP")
      /\ \A q \in Ports : P[q] # L[q] => ~s.httpsOnly
  <2>1. CASE s.httpsOnly
    BY <1>1, <2>1 DEF Plain
  <2>2. CASE ~s.httpsOnly
    <3>1. s.http \in Ports /\ "HTTP" \in Protocols
      BY <2>2 DEF Rejected, InRange, Protocols
    <3>2. P = Added(L, rule, s.http, "HTTP")
      BY <2>2 DEF Plain
    <3> HIDE DEF P
    <3> QED
      BY <2>2, <3>1, <3>2, AddedExtends
  <2> QED
    BY <2>1, <2>2
<1>3. P \in [Ports -> Listener] /\ Proper(P)
  BY <1>2 DEF Extends
<1>4. Extends(P, P, rule)
  BY <1>3 DEF Extends
<1>5. /\ Extends(P, M, rule)
      /\ s.tls # {} =>
           /\ s.https \in Ports
           /\ \/ Serves(M[s.https], rule, "HTTPS")
              \/ Conflicts(P[s.https], rule, "HTTPS") # {} /\ Loses(M[s.https], rule, "HTTPS")
      /\ \A q \in Ports : M[q] # P[q] => M[q].protocol = "HTTPS"
  <2>1. CASE s.tls = {}
    BY <1>4, <2>1 DEF Secure
  <2>2. CASE s.tls # {}
    <3>1. s.https \in Ports /\ "HTTPS" \in Protocols
      BY <2>2 DEF Rejected, InRange, Protocols
    <3>2. M = Added(P, rule, s.https, "HTTPS")
      BY <2>2 DEF Secure
    <3> HIDE DEF P, M
    <3> QED
      BY <1>3, <2>2, <3>1, <3>2, AddedExtends
  <2> QED
    BY <2>1, <2>2
<1> HIDE DEF P, M
<1>6. Extends(L, M, rule)
  BY <1>2, <1>5, ExtendsTwice
<1>7. "HTTP" \in Protocols
  BY DEF Protocols
<1>8. ~s.httpsOnly => /\ Serves(P[s.http], rule, "HTTP") => Serves(M[s.http], rule, "HTTP")
                      /\ Loses(P[s.http], rule, "HTTP") => Loses(M[s.http], rule, "HTTP")
  BY <1>2, <1>3, <1>5, <1>7, OutcomeStays
<1>9. ASSUME NEW q \in Ports, M[q] # L[q], M[q].protocol = "HTTP"
      PROVE  ~s.httpsOnly
  BY <1>2, <1>5, <1>9
<1>10. ~s.httpsOnly =>
         /\ s.http \in Ports
         /\ \/ Serves(M[s.http], rule, "HTTP")
            \/ Conflicts(L[s.http], rule, "HTTP") # {} /\ Loses(M[s.http], rule, "HTTP")
  BY <1>2, <1>8
<1> QED
  BY <1>3, <1>5, <1>6, <1>9, <1>10 DEF P, M

-------------------------------------------------------------------------------
(* The inductive invariant *)

\* The path that a reference names has been dealt with.
Seen(ref) == \E n \in DOMAIN order :
                /\ order[n] = ref[1]
                /\ n < at \/ (n = at /\ pc = "paths" /\ ref[2] < next)

\* Before the Ingresses are sorted there is nothing; then all of them are in order.
Sorted == IF pc = "sort" THEN order = <<>> /\ pools = {} /\ at = 1 ELSE order \in Orders

\* The paths of an Ingress are looked at only if it was not rejected.
InLoop == pc = "paths" => at \in DOMAIN order /\ ~Rejected(spec[order[at]])

\* Target pools are finitely many, and for paths that have been dealt with.
PoolsSeen == IsFiniteSet(pools) /\ \A p \in pools : Seen(p.ref)

WInv == /\ TypeOK /\ Sorted /\ InLoop /\ Proper(listeners) /\ PoolsSeen
        /\ RulesMatchPools /\ HTTPSOnlyHidden

LEMMA InitWInv == Init => WInv
<1> SUFFICES ASSUME Init PROVE WInv
  OBVIOUS
<1> USE DEF Init
<1>1. NoListener \in Listener
  BY DEF NoListener, Listener
<1>2. TypeOK
  BY <1>1 DEF TypeOK
<1>3. Proper(listeners)
  BY DEF Proper, NoListener
<1>4. Sorted /\ InLoop
  BY DEF Sorted, InLoop
<1>5. PoolsSeen
  BY FS_EmptySet DEF PoolsSeen
<1>6. RulesMatchPools
  <2>1. \A port \in Ports : listeners[port].rules = {}
    BY DEF NoListener
  <2>2. Cardinality(pools) <= LimitTargetPools
    BY FS_EmptySet, LimitsAreNaturals
  <2> QED
    BY <2>1, <2>2 DEF RulesMatchPools
<1>7. HTTPSOnlyHidden
  BY DEF HTTPSOnlyHidden, NoListener
<1> QED
  BY <1>2, <1>3, <1>4, <1>5, <1>6, <1>7 DEF WInv

\* What Seen holds of it goes on holding of.
LEMMA SeenStays ==
    ASSUME order' = order, at \in Nat, next \in Nat, DOMAIN order \subseteq Nat,
           \/ at' = at + 1
           \/ at' = at /\ (pc = "paths" => pc' = "paths" /\ next' \in Nat /\ next' >= next),
           NEW ref, ref[2] \in Nat, Seen(ref)
    PROVE  Seen(ref)'
  BY DEF Seen

LEMMA CurrentIngress ==
    ASSUME TypeOK, order \in Orders, at <= Len(order)
    PROVE  /\ at \in DOMAIN order /\ order[at] \in Ingresses
           /\ spec[order[at]] \in Specs
  BY OrderType DEF TypeOK

\* The steps that leave the listeners and the pools alone.
LEMMA TreeStays ==
    ASSUME WInv, TypeOK', Sorted', InLoop', UNCHANGED <<spec, listeners, pools>>,
           \A p \in pools : Seen(p.ref)'
    PROVE  WInv'
<1>1. Proper(listeners)' /\ HTTPSOnlyHidden'
  BY DEF WInv, Proper, HTTPSOnlyHidden
<1>2. RulesMatchPools'
  BY DEF WInv, RulesMatchPools
<1>3. PoolsSeen'
  BY DEF WInv, PoolsSeen
<1> QED
  BY <1>1, <1>2, <1>3 DEF WInv

LEMMA SortStep == ASSUME WInv, Sort PROVE WInv'
<1>1. pools = {} /\ order' \in Orders
  BY DEF WInv, Sorted, Sort
<1>2. TypeOK'
  BY <1>1 DEF WInv, TypeOK, Sort, tree
<1>3. Sorted' /\ InLoop'
  BY <1>1 DEF Sorted, InLoop, Sort, tree
<1> QED
  BY <1>1, <1>2, <1>3, TreeStays DEF Sort, tree

LEMMA PoolRefs == ASSUME WInv, NEW p \in pools PROVE p.ref \in Refs /\ p.ref[2] \in Nat /\ Seen(p.ref)
  BY DEF WInv, TypeOK, Refs, PoolsSeen

LEMMA Positions == ASSUME WInv PROVE DOMAIN order \subseteq Nat
<1>1. CASE pc = "sort"
  BY <1>1 DEF WInv, Sorted
<1>2. CASE pc # "sort"
  BY <1>2, OrderType, CardinalityOfIngresses DEF WInv, Sorted
<1> QED
  BY <1>1, <1>2

LEMMA SkipIngressStep == ASSUME WInv, SkipIngress PROVE WInv'
<1>1. order \in Orders /\ pc = "ingress" /\ at <= Len(order)
  BY DEF WInv, Sorted, SkipIngress
<1>2. order[at] \in Ingresses
  BY <1>1, CurrentIngress DEF WInv
<1>3. Event(order[at], 0, "ingress") \in ErrorEvent
  BY <1>2 DEF Event, ErrorEvent, Reasons
<1>4. TypeOK'
  BY <1>3 DEF WInv, TypeOK, SkipIngress
<1>5. Sorted' /\ InLoop'
  BY <1>1 DEF Sorted, InLoop, SkipIngress
<1>6. \A p \in pools : Seen(p.ref)'
  BY PoolRefs, Positions, SeenStays DEF WInv, TypeOK, SkipIngress
<1> QED
  BY <1>4, <1>5, <1>6, TreeStays DEF SkipIngress

LEMMA AdmitIngressStep == ASSUME WInv, AdmitIngress PROVE WInv'
<1> DEFINE s == spec[order[at]]
<1>1. order \in Orders /\ pc = "ingress" /\ at <= Len(order) /\ ~Rejected(s)
  BY DEF WInv, Sorted, AdmitIngress
<1>2. at \in DOMAIN order /\ order[at] \in Ingresses /\ s \in IngressSpec
  BY <1>1, CurrentIngress, SpecType DEF WInv
<1>3. Valid(s) \X {s.https} \subseteq Fingerprints \X Ports
  <2>1. Valid(s) \subseteq Fingerprints
    BY <1>2 DEF Valid, IngressSpec
  <2>2. Valid(s) # {} => s.https \in Ports
    BY <1>1 DEF Valid, Rejected, InRange
  <2> QED
    BY <2>1, <2>2
<1>4. TLSEvents(order[at]) \subseteq ErrorEvent
  BY <1>2 DEF TLSEvents, Event, ErrorEvent, Reasons
<1>5. TypeOK'
  <2>1. (certificates \subseteq Fingerprints \X Ports)'
    BY <1>3 DEF WInv, TypeOK, AdmitIngress
  <2>2. (errors \subseteq ErrorEvent)'
    BY <1>4 DEF WInv, TypeOK, AdmitIngress
  <2> QED
    BY <2>1, <2>2 DEF WInv, TypeOK, AdmitIngress
<1>6. Sorted' /\ InLoop'
  BY <1>1, <1>2 DEF Sorted, InLoop, AdmitIngress
<1>7. \A p \in pools : Seen(p.ref)'
  BY <1>1, PoolRefs, Positions, SeenStays DEF WInv, TypeOK, AdmitIngress
<1> QED
  BY <1>5, <1>6, <1>7, TreeStays DEF AdmitIngress

LEMMA FinishStep == ASSUME WInv, Finish PROVE WInv'
<1>1. TypeOK'
  BY DEF WInv, TypeOK, Finish, tree
<1>2. Sorted' /\ InLoop'
  BY DEF WInv, Sorted, InLoop, Finish, tree
<1>3. \A p \in pools : Seen(p.ref)'
  BY PoolRefs, Positions, SeenStays DEF WInv, TypeOK, Finish, tree
<1> QED
  BY <1>1, <1>2, <1>3, TreeStays DEF Finish, tree

LEMMA NextIngressStep == ASSUME WInv, NextIngress PROVE WInv'
<1>1. TypeOK'
  BY DEF WInv, TypeOK, NextIngress, tree
<1>2. Sorted' /\ InLoop'
  BY DEF WInv, Sorted, InLoop, NextIngress, tree
<1>3. \A p \in pools : Seen(p.ref)'
  BY PoolRefs, Positions, SeenStays DEF WInv, TypeOK, NextIngress, tree
<1> QED
  BY <1>1, <1>2, <1>3, TreeStays DEF NextIngress, tree

\* The Ingress and the path that the inner loop is at.
LEMMA CurrentPath ==
    ASSUME WInv, pc = "paths", next <= Len(spec[order[at]].paths)
    PROVE  /\ order \in Orders /\ at \in DOMAIN order /\ order[at] \in Ingresses
           /\ spec[order[at]] \in Specs /\ spec[order[at]] \in IngressSpec
           /\ ~Rejected(spec[order[at]])
           /\ next \in Nat \ {0} /\ next \in DOMAIN spec[order[at]].paths
           /\ spec[order[at]].paths[next] \in Path
           /\ <<order[at], next>> \in Refs
<1>1. order \in Orders /\ at \in DOMAIN order /\ ~Rejected(spec[order[at]])
  BY DEF WInv, Sorted, InLoop
<1>2. order[at] \in Ingresses /\ spec[order[at]] \in Specs
  BY <1>1, OrderType DEF WInv, TypeOK
<1>3. next \in Nat \ {0}
  BY DEF WInv, TypeOK
<1> DEFINE s == spec[order[at]]
<1> HIDE DEF s
<1>4. /\ s \in IngressSpec
      /\ s.paths \in Seq(Path) /\ Len(s.paths) \in Nat
      /\ DOMAIN s.paths = 1 .. Len(s.paths)
      /\ \A k \in 1 .. Len(s.paths) : s.paths[k] \in Path
  BY <1>2, SpecType DEF s
<1>5. next \in 1 .. Len(s.paths)
  BY <1>3, <1>4 DEF s
<1> QED
  BY <1>1, <1>2, <1>3, <1>4, <1>5 DEF s, Refs

LEMMA DropEventsType ==
    ASSUME NEW i \in Ingresses, NEW k \in Nat, NEW p
    PROVE  /\ DropEvents(i, k, p) \subseteq ErrorEvent
           /\ NodePortEvents(i, k, p) \subseteq ErrorEvent
  BY DEF DropEvents, NodePortEvents, Event, ErrorEvent, Reasons

LEMMA DropPathStep == ASSUME WInv, DropPath PROVE WInv'
<1>1. order[at] \in Ingresses /\ next \in Nat \ {0}
  BY CurrentPath DEF DropPath
<1>2. DropEvents(order[at], next, spec[order[at]].paths[next]) \subseteq ErrorEvent
  BY <1>1, DropEventsType
<1>3. TypeOK'
  BY <1>1, <1>2 DEF WInv, TypeOK, DropPath
<1>4. Sorted' /\ InLoop'
  BY DEF WInv, Sorted, InLoop, DropPath
<1>5. \A p \in pools : Seen(p.ref)'
  BY PoolRefs, Positions, SeenStays DEF WInv, TypeOK, DropPath
<1> QED
  BY <1>3, <1>4, <1>5, TreeStays DEF DropPath

\* The path that the loop is at, and the rule for it.
CurrentPathOf == spec[order[at]].paths[next]
CurrentRule == [host |-> CurrentPathOf.host, path |-> CurrentPathOf.path,
                type |-> CurrentPathOf.type, ref |-> <<order[at], next>>]

LEMMA RefsOfRules ==
    ASSUME WInv
    PROVE  /\ \A q \in Ports : \A r \in listeners[q].rules : \E p \in pools : p.ref = r.ref
           /\ \A p \in pools : \E q \in Ports : \E r \in listeners[q].rules : r.ref = p.ref
<1>1. {p.ref : p \in pools} = UNION {{r.ref : r \in listeners[port].rules} : port \in Ports}
  BY DEF WInv, RulesMatchPools
<1>2. ASSUME NEW q \in Ports, NEW r \in listeners[q].rules
      PROVE  \E p \in pools : p.ref = r.ref
  <2>1. r.ref \in {e.ref : e \in listeners[q].rules}
    OBVIOUS
  <2>2. {e.ref : e \in listeners[q].rules}
          \in {{e.ref : e \in listeners[port].rules} : port \in Ports}
    OBVIOUS
  <2>3. r.ref \in {p.ref : p \in pools}
    BY <1>1, <2>1, <2>2
  <2> QED
    BY <2>3
<1>3. ASSUME NEW p \in pools
      PROVE  \E q \in Ports : \E r \in listeners[q].rules : r.ref = p.ref
  <2>1. p.ref \in UNION {{r.ref : r \in listeners[port].rules} : port \in Ports}
    BY <1>1, <1>3
  <2> QED
    BY <2>1
<1> QED
  BY <1>2, <1>3

LEMMA AddPathFrame ==
    ASSUME AddPath
    PROVE  /\ pc = "paths" /\ next <= Len(spec[order[at]].paths) /\ next' = next + 1
           /\ ~LimitReached /\ ValidBackend(CurrentPathOf)
           /\ UNCHANGED <<spec, order, certificates, at, pc>>
  BY DEF AddPath, CurrentPathOf

LEMMA AddPathEffect ==
    ASSUME WInv, AddPath
    PROVE  /\ CurrentRule \in Rule
           /\ listeners' = Secure(listeners, spec[order[at]], CurrentRule)
           /\ pools' = IF listeners' = listeners THEN pools
                       ELSE pools \union {[ref |-> <<order[at], next>>,
                                           port |-> NodePort(CurrentPathOf)]}
           /\ NodePort(CurrentPathOf) \in Nat
           /\ \A p \in pools : p.ref # <<order[at], next>>
           /\ listeners \in [Ports -> Listener]
           /\ Extends(listeners, listeners', CurrentRule)
           /\ errors \subseteq errors' /\ errors' \subseteq ErrorEvent
<1>1. /\ order \in Orders /\ at \in DOMAIN order /\ order[at] \in Ingresses
      /\ spec[order[at]] \in IngressSpec /\ ~Rejected(spec[order[at]])
      /\ next \in Nat \ {0} /\ CurrentPathOf \in Path /\ <<order[at], next>> \in Refs
  BY CurrentPath DEF AddPath, CurrentPathOf
<1>2. CurrentRule \in Rule
  BY <1>1 DEF CurrentRule, Rule, Path
<1>3. listeners' = Secure(listeners, spec[order[at]], CurrentRule)
  BY DEF AddPath, Secure, Plain, CurrentRule, CurrentPathOf
<1>4. pools' = IF listeners' = listeners THEN pools
               ELSE pools \union {[ref |-> <<order[at], next>>,
                                   port |-> NodePort(CurrentPathOf)]}
  BY DEF AddPath, CurrentPathOf
<1>5. NodePort(CurrentPathOf) \in Nat
  BY <1>1, NodePortType DEF AddPath, CurrentPathOf
<1>6. ASSUME NEW p \in pools, p.ref = <<order[at], next>>
      PROVE  FALSE
  <2>1. PICK n \in DOMAIN order :
          order[n] = order[at] /\ (n < at \/ (n = at /\ pc = "paths" /\ next < next))
    BY <1>6, PoolRefs DEF Seen
  <2>2. n = at
    BY <1>1, <2>1, OrderType
  <2> QED
    BY <1>1, <2>1, <2>2, Positions
<1>7. listeners \in [Ports -> Listener] /\ Proper(listeners)
  BY DEF WInv, TypeOK
<1>8. Extends(listeners, listeners', CurrentRule)
  BY <1>1, <1>2, <1>3, <1>7, BothCalls
<1>9. errors \subseteq errors' /\ errors' \subseteq ErrorEvent
  <2>1. NodePortEvents(order[at], next, CurrentPathOf) \subseteq ErrorEvent
    BY <1>1, DropEventsType
  <2>2. \E C \in SUBSET {"protocol", "exists"} :
          errors' = errors \union {Event(order[at], next, why) : why \in C}
                           \union NodePortEvents(order[at], next, CurrentPathOf)
    BY DEF AddPath, CurrentPathOf, Conflicts
  <2>3. \A C \in SUBSET {"protocol", "exists"} :
          {Event(order[at], next, why) : why \in C} \subseteq ErrorEvent
    <3> SUFFICES ASSUME NEW C \in SUBSET {"protocol", "exists"}, NEW why \in C
                 PROVE  Event(order[at], next, why) \in ErrorEvent
      OBVIOUS
    <3> QED
      BY <1>1 DEF Event, ErrorEvent, Reasons
  <2>4. errors \subseteq ErrorEvent
    BY DEF WInv, TypeOK
  <2> QED
    BY <2>1, <2>2, <2>3, <2>4
<1> QED
  BY <1>2, <1>3, <1>4, <1>5, <1>6, <1>7, <1>8, <1>9

\* The listeners change by the rule, if at all.
LEMMA RuleIsThere ==
    ASSUME NEW L \in [Ports -> Listener], NEW M \in [Ports -> Listener], NEW rule,
           Proper(L), Extends(L, M, rule), L # M
    PROVE  \E q \in Ports : rule \in M[q].rules
<1>1. PICK q \in Ports : L[q] # M[q]
  OBVIOUS
<1>2. L[q].rules # M[q].rules
  <2> SUFFICES ASSUME L[q].rules = M[q].rules PROVE FALSE
    OBVIOUS
  <2>1. L[q].protocol = M[q].protocol
    BY DEF Extends, Proper
  <2> QED
    BY <1>1, <2>1 DEF Listener
<1> QED
  BY <1>2 DEF Extends

LEMMA AddPathStep == ASSUME WInv, AddPath PROVE WInv'
<1> DEFINE i == order[at]
           s == spec[i]
           pool == [ref |-> <<i, next>>, port |-> NodePort(CurrentPathOf)]
<1>1. /\ order \in Orders /\ at \in DOMAIN order /\ i \in Ingresses
      /\ s \in IngressSpec /\ ~Rejected(s)
      /\ next \in Nat \ {0} /\ <<i, next>> \in Refs /\ pc = "paths"
  BY AddPathFrame, CurrentPath
<1>2. /\ CurrentRule \in Rule /\ CurrentRule.ref = <<i, next>>
      /\ listeners' = Secure(listeners, s, CurrentRule)
      /\ pools' = IF listeners' = listeners THEN pools ELSE pools \union {pool}
      /\ pool.ref = <<i, next>> /\ pool.port \in Nat
      /\ \A p \in pools : p.ref # <<i, next>>
      /\ listeners \in [Ports -> Listener] /\ Proper(listeners)
      /\ Extends(listeners, listeners', CurrentRule)
      /\ errors' \subseteq ErrorEvent
  BY AddPathEffect DEF CurrentRule, WInv
<1> HIDE DEF pool
<1>3. TypeOK'
  <2>1. (listeners \in [Ports -> Listener])'
    BY <1>2 DEF Extends
  <2>2. (\A p \in pools : p.ref \in Refs /\ p.port \in Nat)'
    BY <1>1, <1>2 DEF WInv, TypeOK
  <2> QED
    BY <1>1, <1>2, <2>1, <2>2, AddPathFrame DEF WInv, TypeOK
<1>4. Sorted' /\ InLoop'
  <2>1. Sorted'
    BY <1>1, AddPathFrame DEF Sorted
  <2>2. InLoop'
    BY <1>1, AddPathFrame DEF InLoop
  <2> QED
    BY <2>1, <2>2
<1>5. Proper(listeners)'
  BY <1>2 DEF Extends, Proper
<1>6. PoolsSeen'
  <2>1. IsFiniteSet(pools')
    BY <1>2, FS_AddElement DEF WInv, PoolsSeen
  <2>2. \A p \in pools : Seen(p.ref)'
    <3>1. next' \in Nat /\ next' >= next /\ next \in Nat /\ at \in Nat
      BY <1>1, AddPathFrame DEF WInv, TypeOK
    <3> QED
      BY <3>1, AddPathFrame, PoolRefs, Positions, SeenStays
  <2>3. ASSUME NEW p, p = pool PROVE Seen(p.ref)'
    BY <1>1, <1>2, <2>3, AddPathFrame DEF Seen
  <2>4. ASSUME NEW p \in pools' PROVE Seen(p.ref)'
    <3>1. CASE p \in pools
      BY <2>2, <3>1
    <3>2. CASE p = pool
      BY <2>3, <3>2
    <3> QED
      BY <1>2, <3>1, <3>2
  <2> QED
    BY <2>1, <2>4 DEF PoolsSeen
<1>7. RulesMatchPools'
  <2>1. CASE listeners' = listeners
    <3>1. pools' = pools
      BY <1>2, <2>1
    <3> QED
      BY <2>1, <3>1 DEF WInv, RulesMatchPools
  <2>2. CASE listeners' # listeners
    <3>1. pools' = pools \union {pool}
      BY <1>2, <2>2
    <3>2. PICK port \in Ports : CurrentRule \in listeners'[port].rules
      BY <1>2, <2>2, RuleIsThere DEF Extends
    <3>3. {p.ref : p \in pools'}
            = UNION {{r.ref : r \in listeners'[q].rules} : q \in Ports}
      <4>1. ASSUME NEW p \in pools'
            PROVE  \E q \in Ports : \E r \in listeners'[q].rules : r.ref = p.ref
        <5>1. CASE p \in pools
          BY <1>2, <5>1, RefsOfRules DEF Extends
        <5>2. CASE p = pool
          BY <1>2, <3>2, <5>2
        <5> QED
          BY <3>1, <5>1, <5>2
      <4>2. ASSUME NEW q \in Ports, NEW r \in listeners'[q].rules
            PROVE  \E p \in pools' : p.ref = r.ref
        <5>1. CASE r \in listeners[q].rules
          BY <3>1, <5>1, RefsOfRules
        <5>2. CASE r = CurrentRule
          BY <1>2, <3>1, <5>2
        <5> QED
          BY <1>2, <5>1, <5>2 DEF Extends
      <4> QED
        BY <4>1, <4>2
    <3>4. \A p, q \in pools' : p.ref = q.ref => p = q
      BY <1>2, <3>1 DEF WInv, RulesMatchPools
    <3>5. Cardinality(pools') <= LimitTargetPools
      <4>9. IsFiniteSet(pools)
        BY DEF WInv, PoolsSeen
      <4>1. Cardinality(pools) \in Nat /\ Cardinality(pools') <= Cardinality(pools) + 1
        <5>1. Cardinality(pools) \in Nat
          BY <4>9, FS_CardinalityType
        <5>2. Cardinality(pools \union {pool})
                = IF pool \in pools THEN Cardinality(pools) ELSE Cardinality(pools) + 1
          BY <4>9, FS_AddElement
        <5> QED
          BY <3>1, <5>1, <5>2
      <4>2. Cardinality(pools') \in Nat
        BY <1>6, FS_CardinalityType DEF PoolsSeen
      <4>3. Cardinality(pools) < LimitTargetPools
        BY <4>1, LimitsAreNaturals, AddPathFrame DEF LimitReached
      <4> QED
        BY <4>1, <4>2, <4>3, LimitsAreNaturals
    <3> QED
      BY <3>3, <3>4, <3>5 DEF RulesMatchPools
  <2> QED
    BY <2>1, <2>2
<1>8. HTTPSOnlyHidden'
  <2> SUFFICES ASSUME NEW port \in Ports, listeners'[port].protocol = "HTTP",
                      NEW r \in listeners'[port].rules
               PROVE  ~spec[r.ref[1]].httpsOnly
    BY AddPathFrame DEF HTTPSOnlyHidden
  <2>1. CASE r \in listeners[port].rules
    <3>1. listeners[port].protocol = "HTTP"
      BY <1>2, <2>1 DEF Extends, Proper
    <3> QED
      BY <2>1, <3>1 DEF WInv, HTTPSOnlyHidden
  <2>2. CASE r \notin listeners[port].rules
    <3>1. r = CurrentRule /\ r.ref[1] = i
      BY <1>2, <2>2 DEF Extends
    <3>2. listeners'[port] # listeners[port]
      BY <2>2
    <3>3. ~s.httpsOnly
      BY <1>1, <1>2, <3>2, BothCalls
    <3> QED
      BY <3>1, <3>3
  <2> QED
    BY <2>1, <2>2
<1> QED
  BY <1>3, <1>4, <1>5, <1>6, <1>7, <1>8 DEF WInv

LEMMA Stutter == ASSUME WInv, UNCHANGED vars PROVE WInv'
<1>1. TypeOK' /\ Sorted' /\ InLoop' /\ (\A p \in pools : Seen(p.ref)')
  BY PoolRefs DEF WInv, TypeOK, Sorted, InLoop, Seen, vars, tree
<1> QED
  BY <1>1, TreeStays DEF vars, tree

LEMMA NextWInv == ASSUME WInv, [Next]_vars PROVE WInv'
  BY SortStep, SkipIngressStep, AdmitIngressStep, DropPathStep, AddPathStep,
     NextIngressStep, FinishStep, Stutter DEF Next

\* The invariant of the loops of BuildTree: each step of them, whatever it adds or drops,
\* leaves listeners, rules and target pools as the next one expects them.
THEOREM WInvHolds == Spec => []WInv
<1>1. WInv /\ [Next]_vars => WInv'
  BY NextWInv
<1> QED
  BY <1>1, InitWInv, PTL DEF Spec

-------------------------------------------------------------------------------
(* Precedence *)

LEMMA PathRefType ==
    ASSUME TypeOK, NEW r \in PathRefs
    PROVE  /\ r[1] \in Ingresses /\ r[2] \in Nat \ {0} /\ r = <<r[1], r[2]>>
           /\ spec[r[1]] \in Specs /\ r[2] <= Len(spec[r[1]].paths)
           /\ Len(spec[r[1]].paths) \in Nat
<1>1. PICK i \in Ingresses : r \in {i} \X DOMAIN spec[i].paths
  BY DEF PathRefs
<1>2. spec[i] \in Specs
  BY DEF TypeOK
<1>3. Len(spec[i].paths) \in Nat /\ DOMAIN spec[i].paths = 1 .. Len(spec[i].paths)
  BY <1>2, SpecType
<1>4. r[1] = i /\ r[2] \in 1 .. Len(spec[i].paths) /\ r = <<r[1], r[2]>>
  BY <1>1, <1>3
<1> QED
  BY <1>2, <1>3, <1>4

LEMMA PositionOf ==
    ASSUME order \in Orders
    PROVE  /\ \A i \in Ingresses : Position(i) \in DOMAIN order /\ order[Position(i)] = i
           /\ \A n \in DOMAIN order : Position(order[n]) = n
           /\ DOMAIN order \subseteq Nat \ {0}
<1>1. /\ DOMAIN order \subseteq Nat \ {0}
      /\ \A n \in DOMAIN order : order[n] \in Ingresses
      /\ \A m, n \in DOMAIN order : order[m] = order[n] => m = n
      /\ \A i \in Ingresses : \E n \in DOMAIN order : order[n] = i
  BY OrderType, CardinalityOfIngresses
<1>2. \A i \in Ingresses : Position(i) \in DOMAIN order /\ order[Position(i)] = i
  BY <1>1 DEF Position
<1> QED
  BY <1>1, <1>2

\* Whatever has been dealt with precedes the path that the loop is at.
LEMMA SeenBefore ==
    ASSUME WInv, pc = "paths", NEW ref, Seen(ref)
    PROVE  Before(ref, <<order[at], next>>)
<1>1. order \in Orders /\ at \in DOMAIN order
  BY DEF WInv, Sorted, InLoop
<1>2. PICK n \in DOMAIN order :
        order[n] = ref[1] /\ (n < at \/ (n = at /\ pc = "paths" /\ ref[2] < next))
  BY DEF Seen
<1>3. Position(ref[1]) = n /\ Position(order[at]) = at
  BY <1>1, <1>2, PositionOf
<1> QED
  BY <1>2, <1>3 DEF Before

\* Once the Ingresses are sorted, a step changes neither them nor their order, and the
\* tree only by AddPath.
LEMMA StepFrame ==
    ASSUME WInv, [Next]_vars, order # <<>>
    PROVE  /\ UNCHANGED <<spec, order>> /\ errors \subseteq errors'
           /\ \/ UNCHANGED <<listeners, pools>>
              \/ /\ ~LimitReached
                 /\ Extends(listeners, listeners', CurrentRule)
<1>1. pc # "sort"
  BY DEF WInv, Sorted
<1>2. CASE AddPath
  BY <1>2, AddPathFrame, AddPathEffect
<1>3. CASE DropPath
  BY <1>3 DEF DropPath
<1>4. CASE SkipIngress \/ AdmitIngress
  BY <1>4 DEF SkipIngress, AdmitIngress
<1>5. CASE NextIngress \/ Finish \/ UNCHANGED vars
  BY <1>5 DEF NextIngress, Finish, vars, tree
<1> QED
  BY <1>1, <1>2, <1>3, <1>4, <1>5 DEF Next, Sort

\* How a path gets dealt with.
LEMMA NewlyProcessed ==
    ASSUME WInv, [Next]_vars, NEW r \in PathRefs, ~Processed(r), Processed(r)'
    PROVE  \/ SkipIngress /\ r[1] = order[at]
           \/ (DropPath \/ AddPath) /\ r = <<order[at], next>>
<1>1. /\ r[1] \in Ingresses /\ r[2] \in Nat \ {0} /\ r = <<r[1], r[2]>>
      /\ r[2] <= Len(spec[r[1]].paths) /\ Len(spec[r[1]].paths) \in Nat
  BY PathRefType DEF WInv
<1>2. at \in Nat /\ next \in Nat /\ order' # <<>>
  BY DEF WInv, TypeOK, Processed
<1>3. CASE Sort
  <2>1. at = 1 /\ at' = 1 /\ pc' = "ingress" /\ order' \in Orders
    BY <1>3 DEF WInv, Sorted, Sort
  <2>2. /\ DOMAIN order' \subseteq Nat \ {0}
        /\ \E n \in DOMAIN order' : order'[n] = r[1]
    BY <1>1, <2>1, OrderType, CardinalityOfIngresses
  <2>3. Position(r[1])' \in Nat \ {0}
    BY <2>2 DEF Position
  <2> QED
    BY <2>1, <2>3 DEF Processed
<1>4. CASE ~Sort
  <2>1. order' = order
    BY <1>4, AddPathFrame DEF Next, vars, tree, SkipIngress, AdmitIngress, DropPath,
       NextIngress, Finish
  <2>2. order \in Orders /\ pc # "sort"
    BY <1>2, <2>1 DEF WInv, Sorted
  <2> DEFINE n == Position(r[1])
  <2>3. n \in DOMAIN order /\ order[n] = r[1] /\ n \in Nat \ {0}
    BY <1>1, <2>2, PositionOf
  <2>4. Position(r[1])' = n
    BY <2>1 DEF Position
  <2> HIDE DEF n
  <2>5. ~(n < at) /\ ~(pc = "paths" /\ n = at /\ r[2] < next)
    BY <1>2, <2>1 DEF Processed, n
  <2>6. n < at' \/ (pc' = "paths" /\ n = at' /\ r[2] < next')
    BY <2>4 DEF Processed
  <2>7. CASE SkipIngress
    BY <1>2, <2>3, <2>5, <2>6, <2>7 DEF SkipIngress
  <2>8. CASE AdmitIngress
    BY <1>1, <2>5, <2>6, <2>8 DEF AdmitIngress
  <2>9. CASE DropPath \/ AddPath
    <3>1. pc = "paths" /\ at' = at /\ pc' = pc /\ next' = next + 1
      BY <2>9, AddPathFrame DEF DropPath
    <3>2. n = at /\ r[2] = next
      BY <1>1, <1>2, <2>3, <2>5, <2>6, <3>1
    <3> QED
      BY <1>1, <2>3, <2>9, <3>2
  <2>10. CASE NextIngress
    <3>1. pc = "paths" /\ at' = at + 1 /\ pc' = "ingress" /\ next > Len(spec[order[at]].paths)
      BY <2>10 DEF NextIngress
    <3>2. n = at
      BY <1>2, <2>3, <2>5, <2>6, <3>1
    <3>3. r[2] < next
      BY <1>1, <1>2, <2>3, <3>1, <3>2
    <3> QED
      BY <2>5, <3>1, <3>2, <3>3
  <2>11. CASE Finish \/ UNCHANGED vars
    BY <2>5, <2>6, <2>11 DEF Finish, vars, tree
  <2> QED
    BY <1>4, <2>7, <2>8, <2>9, <2>10, <2>11 DEF Next
<1> QED
  BY <1>3, <1>4

\* A path has lost a port to those before it.
LostAt(r, port, protocol) ==
    \/ \E rule \in listeners[port].rules :
         /\ rule.ref = r \/ Before(rule.ref, r)
         /\ listeners[port].protocol # protocol \/ SameMatch(rule, PathAt(r))
    \/ /\ Cardinality(pools) = LimitTargetPools
       /\ \A p \in pools : Before(p.ref, r)

LEMMA RoutedStays ==
    ASSUME WInv, [Next]_vars, order # <<>>, NEW r, NEW port \in Ports,
           NEW protocol \in Protocols, Routed(r, port, protocol)
    PROVE  Routed(r, port, protocol)'
<1>1. spec' = spec
  BY StepFrame
<1>2. CASE UNCHANGED listeners
  BY <1>1, <1>2 DEF Routed, PathAt
<1>3. CASE Extends(listeners, listeners', CurrentRule)
  <2>1. listeners[port].rules \subseteq listeners'[port].rules
    BY <1>3 DEF Extends
  <2>2. listeners'[port].protocol = protocol
    BY <1>3 DEF Extends, Routed, Protocols
  <2> QED
    BY <1>1, <2>1, <2>2 DEF Routed, PathAt
<1> QED
  BY <1>2, <1>3, StepFrame

LEMMA LostStays ==
    ASSUME WInv, [Next]_vars, order # <<>>, NEW r, NEW port \in Ports,
           NEW protocol \in Protocols, LostAt(r, port, protocol)
    PROVE  LostAt(r, port, protocol)'
<1>1. spec' = spec /\ order' = order
  BY StepFrame
<1>2. \A q : Before(q, r)' <=> Before(q, r)
  BY <1>1 DEF Before, Position
<1>3. CASE UNCHANGED <<listeners, pools>>
  BY <1>1, <1>2, <1>3 DEF LostAt, PathAt
<1>4. CASE ~LimitReached /\ Extends(listeners, listeners', CurrentRule)
  <2>1. Cardinality(pools) # LimitTargetPools
    BY <1>4, LimitsAreNaturals DEF LimitReached
  <2>2. PICK rule \in listeners[port].rules :
          /\ rule.ref = r \/ Before(rule.ref, r)
          /\ listeners[port].protocol # protocol \/ SameMatch(rule, PathAt(r))
    BY <2>1 DEF LostAt
  <2>3. rule \in listeners'[port].rules /\ listeners'[port].protocol = listeners[port].protocol
    BY <1>4, <2>2 DEF Extends, WInv, Proper
  <2> QED
    BY <1>1, <1>2, <2>2, <2>3 DEF LostAt, PathAt
<1> QED
  BY <1>3, <1>4, StepFrame

\* The path of the loop gets on each port that it asks for what it asks for, or it
\* loses to one before it and is reported.
LEMMA AddPathOutcome ==
    ASSUME WInv, AddPath, NEW port \in Ports, NEW protocol \in Protocols,
           NEW r, r = <<order[at], next>>, Claims(r, port, protocol)
    PROVE  \/ Routed(r, port, protocol)'
           \/ /\ LostAt(r, port, protocol)'
              /\ \E e \in errors' : e.ing = r[1] /\ e.path = r[2]
<1> DEFINE s == spec[order[at]]
           P == Plain(listeners, s, CurrentRule)
<1>1. /\ s \in IngressSpec /\ ~Rejected(s) /\ next \in Nat \ {0} /\ order[at] \in Ingresses
      /\ order \in Orders /\ at \in DOMAIN order
  BY AddPathFrame, CurrentPath
<1>2. /\ CurrentRule \in Rule /\ CurrentRule.ref = r
      /\ listeners' = Secure(listeners, s, CurrentRule)
      /\ listeners \in [Ports -> Listener] /\ Proper(listeners)
      /\ Extends(listeners, listeners', CurrentRule)
  BY AddPathEffect DEF CurrentRule, WInv
<1>3. UNCHANGED <<spec, order, at, pc>> /\ pc = "paths"
  BY AddPathFrame
<1>4. PathAt(r) = CurrentPathOf /\ SameMatch(CurrentRule, PathAt(r))
  BY DEF SameMatch, CurrentRule, CurrentPathOf, PathAt
<1>5. PathAt(r)' = PathAt(r)
  BY <1>3 DEF PathAt
<1>6. \/ protocol = "HTTP" /\ ~s.httpsOnly /\ s.http = port
      \/ protocol = "HTTPS" /\ s.tls # {} /\ s.https = port
  BY DEF Claims
<1>7. \/ Serves(listeners'[port], CurrentRule, protocol)
      \/ /\ Loses(listeners'[port], CurrentRule, protocol)
         /\ \/ protocol = "HTTP" /\ Conflicts(listeners[s.http], CurrentRule, "HTTP") # {}
            \/ protocol = "HTTPS" /\ Conflicts(P[s.https], CurrentRule, "HTTPS") # {}
  BY <1>1, <1>2, <1>6, BothCalls
<1>8. ASSUME Serves(listeners'[port], CurrentRule, protocol)
      PROVE  Routed(r, port, protocol)'
  BY <1>2, <1>4, <1>5, <1>8 DEF Serves, Routed
<1>9. ASSUME Loses(listeners'[port], CurrentRule, protocol)
      PROVE  LostAt(r, port, protocol)'
  <2>1. PICK rule \in listeners'[port].rules :
          listeners'[port].protocol # protocol \/ SameMatch(rule, CurrentRule)
    BY <1>9 DEF Loses
  <2>2. rule.ref = r \/ Before(rule.ref, r)
    <3>1. CASE rule = CurrentRule
      BY <1>2, <3>1
    <3>2. CASE rule \in listeners[port].rules
      <4>1. Seen(rule.ref)
        BY <3>2, RefsOfRules, PoolRefs
      <4> QED
        BY <1>3, <4>1, SeenBefore
    <3> QED
      BY <1>2, <3>1, <3>2 DEF Extends
  <2>3. Before(rule.ref, r)' <=> Before(rule.ref, r)
    BY <1>3 DEF Before, Position
  <2>4. SameMatch(rule, CurrentRule) => SameMatch(rule, PathAt(r)')
    BY <1>4, <1>5 DEF SameMatch
  <2> QED
    BY <2>1, <2>2, <2>3, <2>4 DEF LostAt
<1>10. ASSUME \/ protocol = "HTTP" /\ Conflicts(listeners[s.http], CurrentRule, "HTTP") # {}
              \/ protocol = "HTTPS" /\ Conflicts(P[s.https], CurrentRule, "HTTPS") # {}
       PROVE  \E e \in errors' : e.ing = r[1] /\ e.path = r[2]
  <2> DEFINE conflicts ==
        (IF s.httpsOnly THEN {} ELSE Conflicts(listeners[s.http], CurrentRule, "HTTP")) \union
        (IF s.tls = {} THEN {} ELSE Conflicts(P[s.https], CurrentRule, "HTTPS"))
  <2>1. {Event(order[at], next, why) : why \in conflicts} \subseteq errors'
    BY DEF AddPath, Plain, CurrentRule, CurrentPathOf
  <2>2. conflicts # {}
    BY <1>6, <1>10
  <2> HIDE DEF conflicts
  <2>3. PICK why \in conflicts : TRUE
    BY <2>2
  <2>4. Event(order[at], next, why) \in errors'
    BY <2>1, <2>3
  <2> QED
    BY <2>4 DEF Event
<1> QED
  BY <1>7, <1>8, <1>9, <1>10

LEMMA DropPathOutcome ==
    ASSUME WInv, DropPath, NEW r, r = <<order[at], next>>
    PROVE  /\ \A port \in Ports, protocol \in Protocols :
                Claims(r, port, protocol) => LostAt(r, port, protocol)
           /\ \E e \in errors' : e.ing = r[1] /\ e.path = r[2]
<1>1. pc = "paths"
  BY DEF DropPath
<1>2. ASSUME NEW port, NEW protocol, Claims(r, port, protocol)
      PROVE  LostAt(r, port, protocol)
  <2>1. LimitReached
    BY <1>2 DEF DropPath, Claims, PathAt
  <2>2. Cardinality(pools) = LimitTargetPools
    <3>1. Cardinality(pools) \in Nat
      BY FS_CardinalityType DEF WInv, PoolsSeen
    <3> QED
      BY <2>1, <3>1, LimitsAreNaturals DEF LimitReached, WInv, RulesMatchPools
  <2>3. \A p \in pools : Before(p.ref, r)
    BY <1>1, PoolRefs, SeenBefore
  <2> QED
    BY <2>2, <2>3 DEF LostAt
<1>3. \E e \in errors' : e.ing = r[1] /\ e.path = r[2]
  <2> DEFINE p == spec[order[at]].paths[next]
  <2>1. \E why \in {"limit", "backend"} :
          Event(order[at], next, why) \in DropEvents(order[at], next, p)
    BY DEF DropEvents
  <2>2. DropEvents(order[at], next, p) \subseteq errors'
    BY DEF DropPath
  <2> QED
    BY <2>1, <2>2 DEF Event
<1> QED
  BY <1>2, <1>3

LEMMA LostStep ==
    ASSUME WInv, LostOnlyToPrecedence, [Next]_vars
    PROVE  LostOnlyToPrecedence'
<1> SUFFICES ASSUME NEW r \in PathRefs', NEW port \in Ports, NEW protocol \in Protocols,
                    Processed(r)', Claims(r, port, protocol)', ~Routed(r, port, protocol)'
             PROVE  LostAt(r, port, protocol)'
  BY DEF LostOnlyToPrecedence, LostAt, Protocols
<1>1. spec' = spec
  BY AddPathFrame DEF Next, vars, tree, Sort, SkipIngress, AdmitIngress, DropPath,
     NextIngress, Finish
<1>2. r \in PathRefs /\ Claims(r, port, protocol)
  BY <1>1 DEF PathRefs, Claims, PathAt
<1>3. CASE Processed(r)
  <2>1. order # <<>>
    BY <1>3 DEF Processed
  <2>2. ~Routed(r, port, protocol)
    BY <2>1, RoutedStays
  <2>3. LostAt(r, port, protocol)
    BY <1>2, <1>3, <2>2 DEF LostOnlyToPrecedence, LostAt, Protocols
  <2> QED
    BY <2>1, <2>3, LostStays
<1>4. CASE ~Processed(r)
  <2>1. \/ SkipIngress /\ r[1] = order[at]
        \/ (DropPath \/ AddPath) /\ r = <<order[at], next>>
    BY <1>2, <1>4, NewlyProcessed
  <2>2. CASE SkipIngress /\ r[1] = order[at]
    BY <1>2, <2>2 DEF Claims, SkipIngress
  <2>3. CASE DropPath /\ r = <<order[at], next>>
    <3>1. LostAt(r, port, protocol)
      BY <1>2, <2>3, DropPathOutcome
    <3>2. order # <<>>
      <4>1. at \in DOMAIN order
        BY <2>3 DEF WInv, InLoop, DropPath
      <4> QED
        BY <4>1
    <3> QED
      BY <3>1, <3>2, LostStays
  <2>4. CASE AddPath /\ r = <<order[at], next>>
    BY <1>2, <2>4, AddPathOutcome
  <2> QED
    BY <2>1, <2>2, <2>3, <2>4
<1> QED
  BY <1>3, <1>4

LEMMA ReportedStep ==
    ASSUME WInv, LossesReported, [Next]_vars
    PROVE  LossesReported'
<1> SUFFICES ASSUME NEW r \in PathRefs', Processed(r)',
                    \A e \in errors' : ~(e.ing = r[1] /\ e.path \in {0, r[2]})
             PROVE  /\ \E port \in Ports, protocol \in Protocols : Routed(r, port, protocol)'
                    /\ \A port \in Ports, protocol \in Protocols :
                         Claims(r, port, protocol)' => Routed(r, port, protocol)'
  BY DEF LossesReported, Protocols
<1>1. spec' = spec
  BY AddPathFrame DEF Next, vars, tree, Sort, SkipIngress, AdmitIngress, DropPath,
     NextIngress, Finish
<1>2. r \in PathRefs /\ \A port, protocol : Claims(r, port, protocol)' <=> Claims(r, port, protocol)
  BY <1>1 DEF PathRefs, Claims, PathAt
<1>3. CASE Processed(r)
  <2>1. order # <<>>
    BY <1>3 DEF Processed
  <2>2. \A e \in errors : ~(e.ing = r[1] /\ e.path \in {0, r[2]})
    BY <2>1, StepFrame
  <2>3. /\ \E port \in Ports, protocol \in Protocols : Routed(r, port, protocol)
        /\ \A port \in Ports, protocol \in Protocols :
             Claims(r, port, protocol) => Routed(r, port, protocol)
    BY <1>2, <1>3, <2>2 DEF LossesReported, Protocols
  <2> QED
    BY <1>2, <2>1, <2>3, RoutedStays
<1>4. CASE ~Processed(r)
  <2>1. \/ SkipIngress /\ r[1] = order[at]
        \/ (DropPath \/ AddPath) /\ r = <<order[at], next>>
    BY <1>2, <1>4, NewlyProcessed
  <2>2. CASE SkipIngress /\ r[1] = order[at]
    <3>1. Event(order[at], 0, "ingress") \in errors'
      BY <2>2 DEF SkipIngress
    <3> QED
      BY <2>2, <3>1 DEF Event
  <2>3. CASE DropPath /\ r = <<order[at], next>>
    BY <2>3, DropPathOutcome
  <2>4. CASE AddPath /\ r = <<order[at], next>>
    <3>1. \A port \in Ports, protocol \in Protocols :
            Claims(r, port, protocol) => Routed(r, port, protocol)'
      BY <2>4, AddPathOutcome
    <3>2. \E port \in Ports, protocol \in Protocols : Claims(r, port, protocol)
      <4> DEFINE s == spec[order[at]]
      <4>1. ~Rejected(s) /\ ValidBackend(PathAt(r)) /\ spec[r[1]] = s
        BY <2>4, AddPathFrame, CurrentPath DEF PathAt, CurrentPathOf
      <4>2. CASE ~s.httpsOnly
        BY <4>1, <4>2 DEF Claims, Rejected, InRange, Protocols
      <4>3. CASE s.httpsOnly
        BY <4>1, <4>3 DEF Claims, Rejected, InRange, Protocols
      <4> QED
        BY <4>2, <4>3
    <3> QED
      BY <1>2, <3>1, <3>2
  <2> QED
    BY <2>1, <2>2, <2>3, <2>4
<1> QED
  BY <1>3, <1>4

-------------------------------------------------------------------------------
(* What holds of every tree *)

\* Every variable has its type.
THEOREM TypeCorrect == Spec => []TypeOK
<1>1. WInv => TypeOK
  BY DEF WInv
<1> QED
  BY <1>1, WInvHolds, PTL

\* No rule is without its target pool, no pool without a rule, each path has one pool,
\* and the pools are never more than the API accepts.
THEOREM PoolsAndRules == Spec => []RulesMatchPools
<1>1. WInv => RulesMatchPools
  BY DEF WInv
<1> QED
  BY <1>1, WInvHolds, PTL

\* No HTTP listener has a rule of an HTTPS-only Ingress, whatever ports are used.
THEOREM NeverOverHTTP == Spec => []HTTPSOnlyHidden
<1>1. WInv => HTTPSOnlyHidden
  BY DEF WInv
<1> QED
  BY <1>1, WInvHolds, PTL

\* A path that is not routed where it asked to be has lost to paths of higher precedence,
\* however many Ingresses share the ports and the target pools.
THEOREM LostToPrecedence == Spec => []LostOnlyToPrecedence
<1>1. Init => LostOnlyToPrecedence
  BY DEF Init, LostOnlyToPrecedence, Processed
<1>2. WInv /\ LostOnlyToPrecedence /\ [Next]_vars => LostOnlyToPrecedence'
  BY LostStep
<1> QED
  BY <1>1, <1>2, WInvHolds, PTL DEF Spec

\* Whatever is not routed as it asked to be is reported on its Ingress.
THEOREM NoSilentLoss == Spec => []LossesReported
<1>1. Init => LossesReported
  BY DEF Init, LossesReported, Processed
<1>2. WInv /\ LossesReported /\ [Next]_vars => LossesReported'
  BY ReportedStep
<1> QED
  BY <1>1, <1>2, WInvHolds, PTL DEF Spec

-------------------------------------------------------------------------------
(* The order, if no difference of two priorities overflows *)

\* Finding 2 of the README is about priorities that do not satisfy this.
NoOverflow == \A s, t \in Specs : s.prio - t.prio \in -MaxInt .. MaxInt

Precedes(i, j) ==
    LET a == spec[i]
        b == spec[j]
    IN \/ a.prio > b.prio
       \/ a.prio = b.prio /\ a.created < b.created
       \/ a.prio = b.prio /\ a.created = b.created /\ Rank[i] < Rank[j]

LEMMA SmallerThanModulus ==
    ASSUME NEW y \in Nat, NEW m \in Nat, y < m
    PROVE  y % m = y
  OBVIOUS

LEMMA WrapIsIdentity ==
    ASSUME NEW x \in -MaxInt .. MaxInt
    PROVE  Wrap(x) = x
<1> DEFINE y == x + MaxInt + 1
           m == 2 * (MaxInt + 1)
<1>1. y \in Nat /\ m \in Nat /\ y < m /\ x \in Int
  BY LimitsAreNaturals
<1>2. Wrap(x) = (y % m) - (MaxInt + 1)
  BY DEF Wrap
<1> HIDE DEF m
<1>3. y % m = y
  BY <1>1, SmallerThanModulus
<1> QED
  BY <1>1, <1>2, <1>3, LimitsAreNaturals

\* The comparison function puts first what has precedence.
LEMMA CompareIsPrecedence ==
    ASSUME NoOverflow, TypeOK, NEW i \in Ingresses, NEW j \in Ingresses, i # j,
           Compare(i, j) <= 0
    PROVE  Precedes(i, j)
<1>1. spec[i] \in Specs /\ spec[j] \in Specs
  BY DEF TypeOK
<1>2. /\ spec[i].prio \in Int /\ spec[j].prio \in Int
      /\ spec[i].created \in Nat /\ spec[j].created \in Nat
  BY <1>1, SpecType DEF IngressSpec
<1>3. Rank[i] \in Nat /\ Rank[j] \in Nat /\ Rank[i] # Rank[j]
  BY RankOrdersNames
<1>4. Wrap(spec[j].prio - spec[i].prio) = spec[j].prio - spec[i].prio
  BY <1>1, WrapIsIdentity DEF NoOverflow
<1> QED
  BY <1>2, <1>3, <1>4 DEF Compare, Precedes

LEMMA PrecedesIsTransitive ==
    ASSUME TypeOK, NEW i \in Ingresses, NEW j \in Ingresses, NEW k \in Ingresses,
           Precedes(i, j), Precedes(j, k)
    PROVE  Precedes(i, k)
<1>1. \A x \in Ingresses : /\ spec[x].prio \in Int /\ spec[x].created \in Nat
                           /\ Rank[x] \in Nat
  <2> SUFFICES ASSUME NEW x \in Ingresses
               PROVE  spec[x].prio \in Int /\ spec[x].created \in Nat /\ Rank[x] \in Nat
    OBVIOUS
  <2>1. spec[x] \in Specs
    BY DEF TypeOK
  <2> QED
    BY <2>1, SpecType, RankOrdersNames DEF IngressSpec
<1> QED
  BY <1>1 DEF Precedes

\* If each one precedes the next, each one precedes all that follow: the first one that
\* it did not precede would come after one that it precedes.
LEMMA NeighboursAreEnough ==
    ASSUME TypeOK, NEW o \in Orders,
           \A n \in 1 .. Cardinality(Ingresses) - 1 : Precedes(o[n], o[n + 1]),
           NEW m \in DOMAIN o, NEW n \in DOMAIN o, m < n
    PROVE  Precedes(o[m], o[n])
<1> DEFINE Bad == {k \in Nat : k \in DOMAIN o /\ m < k /\ ~Precedes(o[m], o[k])}
<1>1. /\ Cardinality(Ingresses) \in Nat /\ DOMAIN o = 1 .. Cardinality(Ingresses)
      /\ \A k \in DOMAIN o : o[k] \in Ingresses
  BY OrderType, CardinalityOfIngresses
<1> SUFFICES ASSUME n \in Bad PROVE FALSE
  BY <1>1
<1>2. Bad \subseteq Nat /\ Bad # {}
  OBVIOUS
<1>3. PICK k \in Bad : \A e \in Bad : ~(e < k)
  <2> HIDE DEF Bad
  <2> QED
    BY <1>2, Least
<1>4. k \in DOMAIN o /\ m < k /\ ~Precedes(o[m], o[k]) /\ k \in Nat /\ m \in Nat
  BY <1>1, <1>3
<1>5. CASE k = m + 1
  BY <1>1, <1>4, <1>5
<1>6. CASE k # m + 1
  <2>1. k - 1 \in DOMAIN o /\ m < k - 1 /\ k - 1 \in Nat /\ k - 1 < k
    BY <1>1, <1>4, <1>6
  <2>2. k - 1 \notin Bad
    BY <1>3, <2>1
  <2>3. Precedes(o[m], o[k - 1])
    BY <2>1, <2>2
  <2>4. Precedes(o[k - 1], o[(k - 1) + 1]) /\ (k - 1) + 1 = k
    BY <1>1, <1>4, <2>1
  <2> QED
    BY <1>1, <1>4, <2>1, <2>3, <2>4, PrecedesIsTransitive
<1> QED
  BY <1>5, <1>6

\* The Ingresses come by priority, age and name if the priorities are so close together
\* that their differences do not overflow.
THEOREM SortedByPrecedence ==
    ASSUME NoOverflow
    PROVE  Spec => []OrderedByPrecedence
<1>1. Init => OrderedByPrecedence
  BY DEF Init, OrderedByPrecedence
<1>2. ASSUME WInv, OrderedByPrecedence, [Next]_vars
      PROVE  OrderedByPrecedence'
  <2>1. CASE Sort
    <3>1. PICK o \in Orders :
            /\ \A n \in 1 .. Cardinality(Ingresses) - 1 : Compare(o[n], o[n + 1]) <= 0
            /\ order' = o
      BY <2>1 DEF Sort
    <3>2. TypeOK /\ spec' = spec
      BY <1>2, <2>1 DEF WInv, Sort
    <3>3. ASSUME NEW n \in 1 .. Cardinality(Ingresses) - 1
          PROVE  Precedes(o[n], o[n + 1])
      <4>1. /\ n \in DOMAIN o /\ n + 1 \in DOMAIN o /\ n # n + 1
            /\ o[n] \in Ingresses /\ o[n + 1] \in Ingresses /\ o[n] # o[n + 1]
        BY OrderType, CardinalityOfIngresses
      <4> QED
        BY <3>1, <3>2, <4>1, CompareIsPrecedence
    <3>4. \A m, n \in DOMAIN o : m < n => Precedes(o[m], o[n])
      BY <3>2, <3>3, NeighboursAreEnough
    <3> QED
      BY <3>1, <3>2, <3>4 DEF OrderedByPrecedence, Precedes
  <2>2. CASE ~Sort
    <3>1. UNCHANGED <<spec, order>>
      BY <1>2, <2>2, AddPathFrame DEF Next, vars, tree, SkipIngress, AdmitIngress,
         DropPath, NextIngress, Finish
    <3> QED
      BY <1>2, <3>1 DEF OrderedByPrecedence
  <2> QED
    BY <2>1, <2>2
<1> QED
  BY <1>1, <1>2, WInvHolds, PTL DEF Spec
===============================================================================
