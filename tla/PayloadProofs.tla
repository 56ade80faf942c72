----------------------------- MODULE PayloadProofs -----------------------------
(* Proofs about WorkTreePayload: whatever order maps and unstable sorts leave, *)
(* what is sent is acceptable, routes by specificity, and serves certificates  *)
(* on their own ports, and is sent once only as long as nothing changes.  They *)
(* build on the invariant of WorkTreeProofs.                                   *)
EXTENDS WorkTreePayload, WorkTreeProofs

LEMMA PortsFinite == IsFiniteSet(Ports)
  BY FS_Interval, LimitsAreNaturals DEF Ports

-------------------------------------------------------------------------------
(* The tree that a payload is made of *)

\* Listeners have finitely many rules, and the lengths of their paths are known.
RulesCountable ==
    \A p \in Ports : /\ IsFiniteSet(listeners[p].rules)
                     /\ \A r \in listeners[p].rules : PathLen[r.path] \in Nat

\* A certificate is in the tree for the HTTPS port of an Ingress that brings it.
Brings(i, f, port) == /\ f \in Valid(spec[i]) /\ ~Rejected(spec[i])
                      /\ spec[i].https = port
Brought == \A x \in certificates : \E i \in Ingresses : Brings(i, x[1], x[2])

\* A target pool is a name and a node port.
Pool == [ref : Refs, port : Nat]

TreeInv == WInv /\ RulesCountable /\ Brought /\ pools \subseteq Pool

\* Which steps of BuildTree are about rules, and which about certificates.
LEMMA TreeFrame ==
    ASSUME [Next]_vars
    PROVE  /\ spec' = spec
           /\ listeners' = listeners \/ AddPath
           /\ certificates' = certificates \/ AdmitIngress
           /\ pools' = pools \/ AddPath
  BY DEF Next, Sort, SkipIngress, AdmitIngress, DropPath, AddPath, NextIngress, Finish,
     tree, vars

LEMMA TreeInvStep ==
    ASSUME TreeInv, [Next]_vars
    PROVE  TreeInv'
<1>1. WInv'
  BY NextWInv DEF TreeInv
<1>2. RulesCountable'
  <2>1. CASE listeners' = listeners
    BY <2>1 DEF TreeInv, RulesCountable
  <2>2. CASE AddPath
    <3>1. /\ Extends(listeners, listeners', CurrentRule)
          /\ PathLen[CurrentRule.path] \in Nat
      <4>1. /\ spec[order[at]] \in Specs /\ next \in DOMAIN spec[order[at]].paths
        BY <2>2, AddPathFrame, CurrentPath DEF TreeInv
      <4>2. CurrentRule.path = spec[order[at]].paths[next].path
        BY DEF CurrentRule, CurrentPathOf
      <4> QED
        BY <2>2, <4>1, <4>2, AddPathEffect, PathLenTyped DEF TreeInv
    <3>2. ASSUME NEW p \in Ports
          PROVE  /\ IsFiniteSet(listeners'[p].rules)
                 /\ \A r \in listeners'[p].rules : PathLen[r.path] \in Nat
      <4>1. /\ listeners'[p].rules \in {listeners[p].rules,
                                        listeners[p].rules \union {CurrentRule}}
        BY <3>1 DEF Extends
      <4>2. IsFiniteSet(listeners[p].rules \union {CurrentRule})
        BY FS_AddElement DEF TreeInv, RulesCountable
      <4> QED
        BY <3>1, <4>1, <4>2 DEF TreeInv, RulesCountable
    <3> QED
      BY <3>2 DEF RulesCountable
  <2> QED
    BY <2>1, <2>2, TreeFrame
<1>3. Brought'
  <2>1. \A i, f, port : Brings(i, f, port)' <=> Brings(i, f, port)
    BY TreeFrame DEF Brings, Valid, Rejected, InRange
  <2>2. CASE certificates' = certificates
    BY <2>1, <2>2 DEF TreeInv, Brought
  <2>3. CASE AdmitIngress
    <3>1. ASSUME NEW x \in certificates'
          PROVE  \E i \in Ingresses : Brings(i, x[1], x[2])
      <4>1. CASE x \in certificates
        BY <4>1 DEF TreeInv, Brought
      <4>2. CASE x \in Valid(spec[order[at]]) \X {spec[order[at]].https}
        <5>1. order[at] \in Ingresses
          BY <2>3, CurrentIngress DEF TreeInv, WInv, Sorted, AdmitIngress
        <5>2. Brings(order[at], x[1], x[2])
          BY <2>3, <4>2 DEF AdmitIngress, Brings
        <5> QED
          BY <5>1, <5>2
      <4> QED
        BY <2>3, <4>1, <4>2 DEF AdmitIngress
    <3> QED
      BY <2>1, <3>1 DEF Brought
  <2> QED
    BY <2>2, <2>3, TreeFrame
<1>4. pools' \subseteq Pool
  <2>1. CASE pools' = pools
    BY <2>1 DEF TreeInv
  <2>2. CASE AddPath
    <3>1. <<order[at], next>> \in Refs
      BY <2>2, AddPathEffect DEF TreeInv, CurrentRule, Rule
    <3> QED
      BY <2>2, <3>1, AddPathEffect DEF TreeInv, Pool
  <2> QED
    BY <2>1, <2>2, TreeFrame
<1> QED
  BY <1>1, <1>2, <1>3, <1>4 DEF TreeInv

\* An empty tree.
LEMMA TreeInvInit == Init => TreeInv
<1>1. ASSUME Init PROVE RulesCountable
  <2>1. \A p \in Ports : listeners[p].rules = {}
    BY <1>1 DEF Init, NoListener
  <2> QED
    BY <2>1, FS_EmptySet DEF RulesCountable
<1>2. Init => Brought /\ pools \subseteq Pool
  BY DEF Init, Brought
<1> QED
  BY <1>1, <1>2, InitWInv DEF TreeInv

-------------------------------------------------------------------------------
(* What a payload has in it *)

\* What a list has in it when it lists the elements of a finite set.
LEMMA Listed ==
    ASSUME NEW S, IsFiniteSet(S), NEW s \in SetToSeqs(S), NEW T, S \subseteq T
    PROVE  s \in Seq(T) /\ Entries(s) = S
<1>1. /\ s \in Seq(S) /\ \A n \in DOMAIN s : s[n] \in S
      /\ \A x \in S : \E n \in DOMAIN s : s[n] = x
  BY Enumeration
<1> QED
  BY <1>1 DEF Entries

\* A list that is made of another one.
LEMMA Mapped ==
    ASSUME NEW S, NEW s \in Seq(S), NEW T, NEW L, L = [n \in DOMAIN s |-> L[n]],
           \A n \in DOMAIN s : L[n] \in T
    PROVE  L \in Seq(T) /\ Len(L) = Len(s)
  OBVIOUS

\* What lists of rules, hosts, listeners and pools are made of.
Match       == [exact : BOOLEAN, path : Nat, pool : Refs]
HostRules   == [host : Nat, rules : Seq(Match)]
PayloadPort == [name : {"port", "dummy"}, port : Ports \union {DummyPort},
                protocol : {"HTTP", "HTTPS"}, hosts : Seq(HostRules), certs : Seq(Nat)]

RulesOf(port, host) == {r \in listeners[port].rules : r.host = host}
HostsOf(port)       == {r.host : r \in listeners[port].rules}

LEMMA PathOrder ==
    ASSUME NEW a \in Rule, NEW b \in Rule, PathLen[a.path] \in Nat, PathLen[b.path] \in Nat
    PROVE  ComparePaths(a, b) <= 0 <=>
             \/ pathTypeRank[a.type] < pathTypeRank[b.type]
             \/ /\ pathTypeRank[a.type] = pathTypeRank[b.type]
                /\ \/ PathLen[a.path] > PathLen[b.path]
                   \/ PathLen[a.path] = PathLen[b.path] /\ a.path <= b.path
<1>1. \A t \in PathTypes : pathTypeRank[t] \in Nat
  BY DEF pathTypeRank, PathTypes
<1>2. a.type \in PathTypes /\ b.type \in PathTypes /\ a.path \in Nat /\ b.path \in Nat
  BY DEF Rule
<1> DEFINE x == pathTypeRank[a.type]
           y == pathTypeRank[b.type]
           k == PathLen[a.path]
           l == PathLen[b.path]
<1>3. x \in Nat /\ y \in Nat /\ k \in Nat /\ l \in Nat
  BY <1>1, <1>2
<1>4. ComparePaths(a, b) = IF x - y # 0 THEN x - y
                           ELSE IF l - k # 0 THEN l - k ELSE a.path - b.path
  BY DEF ComparePaths
<1> HIDE DEF x, y, k, l
<1>5. ComparePaths(a, b) <= 0 <=>
        x < y \/ (x = y /\ (k > l \/ (k = l /\ a.path <= b.path)))
  BY <1>2, <1>3, <1>4
<1> QED
  BY <1>5 DEF x, y, k, l

\* The rules of a host: all of them, the most specific ones first.
LEMMA RuleList ==
    ASSUME TreeInv, NEW port \in Ports, NEW host, NEW L \in RuleLists(port, host)
    PROVE  /\ L \in Seq(Match)
           /\ Entries(L) = {Matcher(r) : r \in RulesOf(port, host)}
           /\ \A m, n \in DOMAIN L : m < n =>
                /\ L[n].exact => L[m].exact
                /\ ~L[m].exact /\ ~L[n].exact => PathLen[L[m].path] >= PathLen[L[n].path]
<1> DEFINE S == RulesOf(port, host)
<1>1. PICK s \in SetToSeqs(S) :
         /\ L = [n \in DOMAIN s |-> Matcher(s[n])]
         /\ \A n \in 1 .. Len(s) - 1 : ComparePaths(s[n], s[n + 1]) <= 0
  BY DEF RuleLists, Arranged, RulesOf
<1>2. /\ S \subseteq listeners[port].rules /\ S \subseteq Rule
      /\ \A r \in S : PathLen[r.path] \in Nat
  BY DEF TreeInv, WInv, TypeOK, RulesCountable, RulesOf, Listener
<1>3. IsFiniteSet(S)
  BY <1>2, FS_Subset DEF TreeInv, RulesCountable
<1> HIDE DEF S
<1>4. s \in Seq(Rule) /\ Entries(s) = S
  BY <1>2, <1>3, Listed
<1>5. /\ Len(s) \in Nat /\ DOMAIN s = 1 .. Len(s) /\ \A n \in DOMAIN s : s[n] \in S
  BY <1>3, Enumeration
<1>6. \A r \in Rule : Matcher(r) \in Match
  BY DEF Rule, Match, Matcher
<1>7. L \in Seq(Match) /\ Len(L) = Len(s)
  <2>1. L = [n \in DOMAIN s |-> L[n]] /\ \A n \in DOMAIN s : L[n] \in Match
    BY <1>1, <1>2, <1>5, <1>6
  <2> QED
    BY <1>4, <2>1, Mapped
<1>8. Entries(L) = {Matcher(r) : r \in S}
  BY <1>1, <1>4 DEF Entries
<1>9. ASSUME NEW m \in DOMAIN L, NEW n \in DOMAIN L, m < n
       PROVE  ComparePaths(s[m], s[n]) <= 0
  <2> DEFINE R == {x \in S \X S : ComparePaths(x[1], x[2]) <= 0}
  <2>1. \A k \in 1 .. Len(s) - 1 : <<s[k], s[k + 1]>> \in R
    BY <1>1, <1>5
  <2>2. \A i, j, k \in 1 .. Len(s) :
          <<s[i], s[j]>> \in R /\ <<s[j], s[k]>> \in R => <<s[i], s[k]>> \in R
    <3> SUFFICES ASSUME NEW a \in S, NEW b \in S, NEW c \in S,
                        ComparePaths(a, b) <= 0, ComparePaths(b, c) <= 0
                 PROVE  ComparePaths(a, c) <= 0
      BY <1>5
    <3>1. \A r \in S : r \in Rule /\ PathLen[r.path] \in Nat /\ r.path \in Nat
      BY <1>2 DEF Rule
    <3>2. \A r \in S : pathTypeRank[r.type] \in Nat
      BY <1>2 DEF Rule, PathTypes, pathTypeRank
    <3> QED
      BY <3>1, <3>2, PathOrder
  <2>3. <<s[m], s[n]>> \in R
    <3>1. m \in 1 .. Len(s) /\ n \in 1 .. Len(s)
      BY <1>1, <1>5
    <3> HIDE DEF R
    <3> QED
      BY <1>5, <1>9, <2>1, <2>2, <3>1, NeighboursSuffice
  <2> QED
    BY <2>3
<1>10. ASSUME NEW m \in DOMAIN L, NEW n \in DOMAIN L, m < n
       PROVE  /\ L[n].exact => L[m].exact
              /\ ~L[m].exact /\ ~L[n].exact => PathLen[L[m].path] >= PathLen[L[n].path]
  <2> DEFINE a == s[m]
             b == s[n]
  <2>1. a \in Rule /\ b \in Rule /\ PathLen[a.path] \in Nat /\ PathLen[b.path] \in Nat
    BY <1>1, <1>2, <1>5
  <2>2. L[m] = Matcher(a) /\ L[n] = Matcher(b)
    BY <1>1
  <2>3. ComparePaths(a, b) <= 0
    BY <1>9, <1>10
  <2> HIDE DEF a, b
  <2>4. \/ pathTypeRank[a.type] < pathTypeRank[b.type]
        \/ /\ pathTypeRank[a.type] = pathTypeRank[b.type]
           /\ PathLen[a.path] >= PathLen[b.path]
    BY <2>1, <2>3, PathOrder
  <2>5. a.type \in PathTypes /\ b.type \in PathTypes
    BY <2>1 DEF Rule
  <2>6. /\ L[m].exact = (a.type # "Prefix") /\ L[m].path = a.path
        /\ L[n].exact = (b.type # "Prefix") /\ L[n].path = b.path
    BY <2>2 DEF Matcher
  <2>7. b.type # "Prefix" => a.type # "Prefix"
    BY <2>4, <2>5 DEF PathTypes, pathTypeRank
  <2>8. a.type = "Prefix" /\ b.type = "Prefix" => PathLen[a.path] >= PathLen[b.path]
    BY <2>4, <2>5 DEF pathTypeRank
  <2> QED
    BY <2>6, <2>7, <2>8
<1> QED
  BY <1>7, <1>8, <1>10 DEF S

LEMMA HostsFinite ==
    ASSUME NEW port, IsFiniteSet(listeners[port].rules)
    PROVE  IsFiniteSet(HostsOf(port))
<1> DEFINE S == listeners[port].rules
           T == HostsOf(port)
           g == [r \in S |-> r.host]
<1>1. g \in Surjection(S, T)
  BY DEF Surjection, HostsOf
<1> HIDE DEF g, S, T
<1>2. IsFiniteSet(T)
  BY <1>1, FS_Surjection DEF S
<1> QED
  BY <1>2 DEF T

\* The hosts of a listener, each of them once.
LEMMA HostList ==
    ASSUME TreeInv, NEW port \in Ports, NEW L \in HostLists(port)
    PROVE  /\ L \in Seq(HostRules)
           /\ \A h \in Entries(L) :
                h.host \in HostsOf(port) /\ h.rules \in RuleLists(port, h.host)
           /\ \A x \in HostsOf(port) : \E h \in Entries(L) : h.host = x
<1> DEFINE hosts == HostsOf(port)
           Rules == [x \in hosts |-> RuleLists(port, x)]
           Picks == {f \in [hosts -> UNION {Rules[x] : x \in hosts}] :
                       \A x \in hosts : f[x] \in Rules[x]}
           Made(s, f) == [n \in DOMAIN s |-> [host |-> s[n], rules |-> f[s[n]]]]
           Lists == {s \in SetToSeqs(hosts) :
                       \A n \in 1 .. Len(s) - 1 : CompareNumbers(s[n], s[n + 1]) <= 0}
<1>1. HostLists(port) = {Made(s, f) : s \in Lists, f \in Picks}
  BY DEF HostLists, Arranged, HostsOf
<1>2. PICK s \in Lists, f \in Picks : L = Made(s, f)
  <2> HIDE DEF Picks, Made, Lists
  <2> QED
    BY <1>1
<1>3. \A x \in hosts : f[x] \in RuleLists(port, x)
  OBVIOUS
<1>4. hosts \subseteq Nat
  BY DEF TreeInv, WInv, TypeOK, Listener, Rule, HostsOf
<1>5. IsFiniteSet(hosts)
  BY HostsFinite DEF TreeInv, RulesCountable
<1>6. s \in SetToSeqs(hosts)
  OBVIOUS
<1>7. /\ s \in Seq(Nat) /\ Entries(s) = hosts /\ DOMAIN s = 1 .. Len(s)
      /\ \A n \in DOMAIN s : s[n] \in hosts
  <2> HIDE DEF hosts, Lists
  <2>1. s \in Seq(Nat) /\ Entries(s) = hosts
    BY <1>4, <1>5, <1>6, Listed
  <2>2. DOMAIN s = 1 .. Len(s) /\ \A n \in DOMAIN s : s[n] \in hosts
    BY <1>5, <1>6, Enumeration
  <2> QED
    BY <2>1, <2>2
<1>8. \A n \in DOMAIN s : /\ L[n] \in HostRules
                          /\ L[n].host = s[n] /\ L[n].rules = f[s[n]]
  BY <1>2, <1>3, <1>4, <1>7, RuleList DEF HostRules
<1> HIDE DEF Picks, Made, Lists, Rules
<1>9. L \in Seq(HostRules)
  <2>1. L = [n \in DOMAIN s |-> L[n]]
    BY <1>2 DEF Made
  <2> QED
    BY <1>7, <1>8, <2>1, Mapped
<1>10. DOMAIN L = DOMAIN s
  BY <1>2 DEF Made
<1>11. ASSUME NEW h \in Entries(L)
       PROVE  h.host \in HostsOf(port) /\ h.rules \in RuleLists(port, h.host)
  <2>1. PICK n \in DOMAIN s : h = L[n]
    BY <1>10 DEF Entries
  <2>2. h.host = s[n] /\ h.rules = f[s[n]] /\ s[n] \in hosts
    BY <1>7, <1>8, <2>1
  <2> QED
    BY <1>3, <2>2
<1>12. ASSUME NEW x \in HostsOf(port) PROVE \E h \in Entries(L) : h.host = x
  BY <1>7, <1>8, <1>10 DEF Entries
<1> QED
  BY <1>9, <1>11, <1>12

LEMMA CertList ==
    ASSUME described \subseteq Fingerprints, NEW port, NEW c \in SetToSeqs(PortCerts(port))
    PROVE  c \in Seq(Nat) /\ Entries(c) = PortCerts(port) /\ (PortCerts(port) # {} => c # <<>>)
<1>1. PortCerts(port) \subseteq {CertIDs[f] : f \in Fingerprints}
  BY DEF PortCerts
<1>2. IsFiniteSet({CertIDs[f] : f \in Fingerprints})
  BY CertIDsTyped, ImageFinite
<1>3. IsFiniteSet(PortCerts(port))
  BY <1>1, <1>2, FS_Subset
<1>4. PortCerts(port) \subseteq Nat
  BY <1>1, CertIDsTyped
<1> QED
  BY <1>3, <1>4, Listed, Enumeration

\* What the listener of a port is made of.
LEMMA PortEntry ==
    ASSUME TreeInv, described \subseteq Fingerprints, NEW p \in SentPorts,
           NEW l \in PortListeners(p)
    PROVE  /\ l \in PayloadPort
           /\ l.name = "port" /\ l.port = p /\ l.protocol = listeners[p].protocol
           /\ l.hosts \in HostLists(p) /\ l.certs \in SetToSeqs(PortCerts(p))
<1>1. /\ l \in [name : {"port"}, port : {p}, protocol : {listeners[p].protocol},
                hosts : HostLists(p), certs : SetToSeqs(PortCerts(p))]
  BY DEF PortListeners, Arranged
<1>2. p \in Ports /\ listeners[p].protocol \in {"HTTP", "HTTPS"}
  BY DEF SentPorts
<1>3. l.hosts \in Seq(HostRules) /\ l.certs \in Seq(Nat)
  BY <1>1, <1>2, HostList, CertList
<1>4. l = [name |-> "port", port |-> p, protocol |-> listeners[p].protocol,
           hosts |-> l.hosts, certs |-> l.certs]
  BY <1>1
<1> QED
  BY <1>1, <1>2, <1>3, <1>4 DEF PayloadPort

\* A listener of a payload is the dummy or that of a port.
LEMMA ListenerEntry ==
    ASSUME NEW L \in ListenerLists
    PROVE  \/ SentPorts = {} /\ L = <<Dummy>>
           \/ /\ SentPorts # {}
              /\ \E f : /\ \A p \in SentPorts : f[p] \in PortListeners(p)
                        /\ L \in SetToSeqs({f[p] : p \in SentPorts})
                        /\ \A n \in 1 .. Len(L) - 1 : ComparePorts(L[n], L[n + 1]) <= 0
  BY DEF ListenerLists, Arranged

LEMMA SentPortsFinite == IsFiniteSet(SentPorts)
  BY PortsFinite, FS_Subset DEF SentPorts

\* The listeners of a payload, one for each port that is sent, in ascending order.
LEMMA Listeners ==
    ASSUME NEW L \in ListenerLists, SentPorts # {}
    PROVE  /\ L # <<>> /\ DOMAIN L = 1 .. Len(L) /\ Len(L) \in Nat
           /\ \A n \in DOMAIN L : L[n].port \in SentPorts /\ L[n] \in PortListeners(L[n].port)
           /\ \A m, n \in DOMAIN L : m < n => L[m].port < L[n].port
           /\ \A p \in SentPorts : \E n \in DOMAIN L : L[n].port = p
           /\ L = [n \in 1 .. Len(L) |-> L[n]]
<1>1. PICK f : /\ \A p \in SentPorts : f[p] \in PortListeners(p)
               /\ L \in SetToSeqs({f[p] : p \in SentPorts})
               /\ \A n \in 1 .. Len(L) - 1 : ComparePorts(L[n], L[n + 1]) <= 0
  BY ListenerEntry
<1> DEFINE S == {f[p] : p \in SentPorts}
           g == [p \in SentPorts |-> f[p]]
<1>2. IsFiniteSet(S) /\ S # {}
  <2>1. IsFiniteSet({g[p] : p \in SentPorts})
    <3>1. g \in [SentPorts -> S]
      OBVIOUS
    <3> HIDE DEF g, S
    <3> QED
      BY <3>1, SentPortsFinite, ImageFinite
  <2>2. {g[p] : p \in SentPorts} = S
    OBVIOUS
  <2> QED
    BY <2>1, <2>2
<1>3. /\ Len(L) \in Nat /\ DOMAIN L = 1 .. Len(L)
      /\ \A n \in DOMAIN L : L[n] \in S
      /\ \A m, n \in DOMAIN L : L[m] = L[n] => m = n
      /\ \A x \in S : \E n \in DOMAIN L : L[n] = x
      /\ L # <<>> /\ L = [n \in 1 .. Len(L) |-> L[n]]
  <2>1. L \in SetToSeqs(S)
    BY <1>1
  <2> HIDE DEF S
  <2>2. L \in Seq(S)
    BY <1>2, <2>1, Enumeration
  <2> QED
    BY <1>2, <2>1, <2>2, Enumeration
<1>4. \A p \in SentPorts : p \in Ports /\ f[p].port = p
  BY <1>1 DEF PortListeners, SentPorts
<1>5. \A n \in DOMAIN L : /\ L[n].port \in SentPorts /\ L[n].port \in Nat
                          /\ L[n] = f[L[n].port]
  BY <1>3, <1>4, LimitsAreNaturals DEF Ports
<1>6. ASSUME NEW m \in DOMAIN L, NEW n \in DOMAIN L, m < n
      PROVE  L[m].port < L[n].port
  <2> DEFINE R == {x \in S \X S : x[1].port < x[2].port}
  <2>1. ASSUME NEW k \in 1 .. Len(L) - 1 PROVE <<L[k], L[k + 1]>> \in R
    <3>1. k \in DOMAIN L /\ k + 1 \in DOMAIN L /\ k # k + 1
      BY <1>3
    <3>2. L[k].port # L[k + 1].port
      BY <1>3, <1>5, <3>1
    <3>3. L[k].port <= L[k + 1].port
      <4>1. ComparePorts(L[k], L[k + 1]) <= 0
        BY <1>1
      <4>2. L[k].port \in Nat /\ L[k + 1].port \in Nat
        BY <1>5, <3>1
      <4> QED
        BY <4>1, <4>2 DEF ComparePorts
    <3> QED
      BY <1>3, <1>5, <3>1, <3>2, <3>3
  <2>2. \A i, j, k \in 1 .. Len(L) :
          <<L[i], L[j]>> \in R /\ <<L[j], L[k]>> \in R => <<L[i], L[k]>> \in R
    BY <1>3, <1>5
  <2>3. <<L[m], L[n]>> \in R
    <3> HIDE DEF R, S
    <3> QED
      BY <1>3, <1>6, <2>1, <2>2, NeighboursSuffice
  <2> QED
    BY <2>3
<1>7. ASSUME NEW p \in SentPorts PROVE \E n \in DOMAIN L : L[n].port = p
  <2>1. PICK n \in DOMAIN L : L[n] = f[p]
    <3>1. f[p] \in S
      OBVIOUS
    <3> HIDE DEF S
    <3> QED
      BY <1>3, <3>1
  <2> QED
    BY <1>4, <2>1
<1>8. \A n \in DOMAIN L : L[n].port \in SentPorts /\ L[n] \in PortListeners(L[n].port)
  BY <1>1, <1>5
<1> QED
  BY <1>3, <1>6, <1>7, <1>8

\* The target pools, each of them once.
LEMMA PoolList ==
    ASSUME TreeInv, NEW a \in Payloads
    PROVE  a.pools \in Seq(Pool) /\ Entries(a.pools) = pools
<1>1. a.pools \in SetToSeqs(pools)
  BY DEF Payloads, Arranged
<1>2. IsFiniteSet(pools) /\ pools \subseteq Pool
  BY DEF TreeInv, WInv, PoolsSeen
<1> QED
  BY <1>1, <1>2, Listed

\* A payload has its listeners and its target pools, and nothing else.
PayloadType == [listeners : Seq(PayloadPort), pools : Seq(Pool)]

LEMMA PayloadTyped ==
    ASSUME TreeInv, described \subseteq Fingerprints, NEW a \in Payloads
    PROVE  a \in PayloadType
<1>1. a.listeners \in ListenerLists /\ a = [listeners |-> a.listeners, pools |-> a.pools]
  BY DEF Payloads
<1>2. a.listeners \in Seq(PayloadPort)
  <2>1. CASE SentPorts = {}
    <3>1. Dummy \in PayloadPort
      BY DEF Dummy, PayloadPort
    <3>2. a.listeners = <<Dummy>>
      BY <1>1, <2>1, ListenerEntry
    <3> QED
      BY <3>1, <3>2
  <2>2. CASE SentPorts # {}
    <3> DEFINE L == a.listeners
    <3> HIDE DEF L
    <3>1. L \in ListenerLists
      BY <1>1 DEF L
    <3>2. DOMAIN L = 1 .. Len(L) /\ Len(L) \in Nat /\ \A n \in DOMAIN L : L[n] \in PayloadPort
      BY <2>2, <3>1, Listeners, PortEntry
    <3>3. L = [n \in 1 .. Len(L) |-> L[n]]
      BY <3>1, <2>2, Listeners
    <3> QED
      BY <3>2, <3>3 DEF L
  <2> QED
    BY <2>1, <2>2
<1> QED
  BY <1>1, <1>2, PoolList DEF PayloadType

-------------------------------------------------------------------------------
(* UpdateNeeded tells any two payloads apart *)

LEMMA SameLists ==
    ASSUME NEW S, NEW c \in Seq(S), NEW d \in Seq(S), Len(c) = Len(d),
           \A n \in DOMAIN c : c[n] = d[n]
    PROVE  c = d
  OBVIOUS

LEMMA SameHosts ==
    ASSUME NEW c \in HostRules, NEW d \in HostRules, ~HostChanged(c, d)
    PROVE  c = d
<1>1. /\ c.host = d.host /\ c.rules \in Seq(Match) /\ d.rules \in Seq(Match)
      /\ Len(c.rules) = Len(d.rules)
      /\ \A n \in DOMAIN c.rules : ~RuleChanged(c.rules[n], d.rules[n])
  BY DEF HostChanged, Differ, HostRules
<1>2. c.rules = d.rules
  <2> DEFINE C == c.rules
             D == d.rules
  <2> HIDE DEF C, D
  <2>1. C \in Seq(Match) /\ D \in Seq(Match) /\ Len(C) = Len(D)
    BY <1>1 DEF C, D
  <2>2. ASSUME NEW n \in DOMAIN C PROVE C[n] = D[n]
    <3>1. C[n] \in Match /\ D[n] \in Match
      BY <2>1
    <3>2. ~RuleChanged(C[n], D[n])
      BY <1>1 DEF C, D
    <3> QED
      BY <3>1, <3>2 DEF Match, RuleChanged
  <2>3. C = D
    BY <2>1, <2>2, SameLists
  <2> QED
    BY <2>3 DEF C, D
<1> QED
  BY <1>1, <1>2 DEF HostRules

LEMMA SameListeners ==
    ASSUME NEW c \in PayloadPort, NEW d \in PayloadPort, ~ListenerChanged(c, d)
    PROVE  c = d
<1>1. /\ c.name = d.name /\ c.protocol = d.protocol /\ c.port = d.port /\ c.certs = d.certs
      /\ c.hosts \in Seq(HostRules) /\ d.hosts \in Seq(HostRules)
      /\ Len(c.hosts) = Len(d.hosts)
      /\ \A n \in DOMAIN c.hosts : ~HostChanged(c.hosts[n], d.hosts[n])
  BY DEF ListenerChanged, Differ, PayloadPort
<1>2. c.hosts = d.hosts
  <2> DEFINE C == c.hosts
             D == d.hosts
  <2> HIDE DEF C, D
  <2>1. C \in Seq(HostRules) /\ D \in Seq(HostRules) /\ Len(C) = Len(D)
    BY <1>1 DEF C, D
  <2>2. ASSUME NEW n \in DOMAIN C PROVE C[n] = D[n]
    <3>1. C[n] \in HostRules /\ D[n] \in HostRules
      BY <2>1
    <3>2. ~HostChanged(C[n], D[n])
      BY <1>1 DEF C, D
    <3> QED
      BY <3>1, <3>2, SameHosts
  <2>3. C = D
    BY <2>1, <2>2, SameLists
  <2> QED
    BY <2>3 DEF C, D
<1> QED
  BY <1>1, <1>2 DEF PayloadPort

\* Two payloads that need no update are the same.
LEMMA NoUpdateSame ==
    ASSUME NEW a \in PayloadType, NEW b \in PayloadType, ~UpdateNeeded(a, b)
    PROVE  a = b
<1> DEFINE A == a.listeners
           B == b.listeners
           P == a.pools
           Q == b.pools
<1>1. /\ Len(A) = Len(B) /\ \A n \in DOMAIN A : ~ListenerChanged(A[n], B[n])
      /\ Len(P) = Len(Q) /\ \A n \in DOMAIN P : ~PoolChanged(P[n], Q[n])
  BY DEF UpdateNeeded, Differ
<1>2. /\ A \in Seq(PayloadPort) /\ B \in Seq(PayloadPort) /\ P \in Seq(Pool) /\ Q \in Seq(Pool)
      /\ a = [listeners |-> A, pools |-> P] /\ b = [listeners |-> B, pools |-> Q]
  BY DEF PayloadType
<1> HIDE DEF A, B, P, Q
<1>3. A = B
  <2>1. ASSUME NEW n \in DOMAIN A PROVE A[n] = B[n]
    BY <1>1, <1>2, SameListeners
  <2> QED
    BY <1>1, <1>2, <2>1, SameLists
<1>4. P = Q
  <2>1. ASSUME NEW n \in DOMAIN P PROVE P[n] = Q[n]
    <3>1. P[n] \in Pool /\ Q[n] \in Pool
      BY <1>1, <1>2
    <3> QED
      BY <1>1, <3>1 DEF PoolChanged, Pool
  <2> QED
    BY <1>1, <1>2, <2>1, SameLists
<1> QED
  BY <1>2, <1>3, <1>4

-------------------------------------------------------------------------------
(* What is promised of a payload *)

\* Every listener of a payload is the dummy or that of a port.
LEMMA PayloadListener ==
    ASSUME TreeInv, described \subseteq Fingerprints, NEW a \in Payloads,
           NEW l \in Entries(a.listeners)
    PROVE  \/ l = Dummy
           \/ /\ l.port \in SentPorts /\ l.port \in Ports
              /\ l.name = "port" /\ l.protocol = listeners[l.port].protocol
              /\ l.hosts \in HostLists(l.port) /\ l.certs \in SetToSeqs(PortCerts(l.port))
<1>1. a.listeners \in ListenerLists
  BY DEF Payloads
<1>2. CASE SentPorts = {}
  <2>1. a.listeners = <<Dummy>>
    BY <1>1, <1>2, ListenerEntry
  <2> QED
    BY <2>1 DEF Entries
<1>3. CASE SentPorts # {}
  <2>1. l.port \in SentPorts /\ l \in PortListeners(l.port)
    BY <1>1, <1>3, Listeners DEF Entries
  <2> QED
    BY <2>1, PortEntry DEF SentPorts
<1> QED
  BY <1>2, <1>3

LEMMA DummyEmpty == /\ Entries(Dummy.hosts) = {} /\ Entries(Dummy.certs) = {}
                    /\ Dummy.name = "dummy" /\ Dummy.protocol = "HTTP"
  BY DEF Dummy, Entries

\* Rules that are sent name target pools that are sent.
LEMMA PayloadAcceptable ==
    ASSUME TreeInv, described \subseteq Fingerprints, NEW a \in Payloads
    PROVE  Acceptable(a)
<1>1. a.listeners \in ListenerLists
  BY DEF Payloads
<1>2. /\ a.listeners # <<>>
      /\ \A m, n \in DOMAIN a.listeners : m < n => a.listeners[m].port < a.listeners[n].port
  <2>1. CASE SentPorts = {}
    BY <1>1, <2>1, ListenerEntry
  <2>2. CASE SentPorts # {}
    BY <1>1, <2>2, Listeners
  <2> QED
    BY <2>1, <2>2
<1>3. ASSUME NEW l \in Entries(a.listeners)
      PROVE  /\ l.protocol = "HTTPS" => l.certs # <<>>
             /\ \A h \in Entries(l.hosts) : \A r \in Entries(h.rules) :
                  r.pool \in {p.ref : p \in Entries(a.pools)}
  <2>1. CASE l = Dummy
    BY <2>1, DummyEmpty
  <2>2. CASE l # Dummy
    <3>1. /\ l.port \in SentPorts /\ l.port \in Ports
          /\ l.protocol = listeners[l.port].protocol
          /\ l.hosts \in HostLists(l.port) /\ l.certs \in SetToSeqs(PortCerts(l.port))
      BY <2>2, PayloadListener
    <3>2. l.protocol = "HTTPS" => l.certs # <<>>
      BY <3>1, CertList DEF SentPorts
    <3>3. ASSUME NEW h \in Entries(l.hosts), NEW r \in Entries(h.rules)
          PROVE  r.pool \in {p.ref : p \in Entries(a.pools)}
      <4>1. h.rules \in RuleLists(l.port, h.host)
        BY <3>1, HostList
      <4>2. PICK q \in RulesOf(l.port, h.host) : r = Matcher(q)
        BY <3>1, <4>1, RuleList
      <4>3. q \in listeners[l.port].rules /\ r.pool = q.ref
        BY <4>2 DEF RulesOf, Matcher
      <4>4. q.ref \in {p.ref : p \in pools}
        BY <3>1, <4>3 DEF TreeInv, WInv, RulesMatchPools
      <4> QED
        BY <4>3, <4>4, PoolList
    <3> QED
      BY <3>2, <3>3
  <2> QED
    BY <2>1, <2>2
<1> QED
  BY <1>2, <1>3 DEF Acceptable

\* The order of the rules in every host of a.
Specific(a) ==
    \A l \in Entries(a.listeners) : \A h \in Entries(l.hosts) :
        \A m, n \in DOMAIN h.rules :
            m < n => /\ h.rules[n].exact => h.rules[m].exact
                     /\ ~h.rules[m].exact /\ ~h.rules[n].exact =>
                          PathLen[h.rules[m].path] >= PathLen[h.rules[n].path]

LEMMA PayloadSpecific ==
    ASSUME TreeInv, described \subseteq Fingerprints, NEW a \in Payloads
    PROVE  Specific(a)
<1>1. ASSUME NEW l \in Entries(a.listeners), NEW h \in Entries(l.hosts)
      PROVE  \A m, n \in DOMAIN h.rules :
               m < n => /\ h.rules[n].exact => h.rules[m].exact
                        /\ ~h.rules[m].exact /\ ~h.rules[n].exact =>
                             PathLen[h.rules[m].path] >= PathLen[h.rules[n].path]
  <2>1. l # Dummy
    BY DummyEmpty
  <2>2. l.port \in Ports /\ l.hosts \in HostLists(l.port)
    BY <2>1, PayloadListener
  <2>3. h.rules \in RuleLists(l.port, h.host)
    BY <2>2, HostList
  <2> QED
    BY <2>2, <2>3, RuleList
<1> QED
  BY <1>1 DEF Specific

\* What an Ingress asked for is what a certificate is sent for.
CertsBrought(a) ==
    \A l \in Entries(a.listeners) : \A id \in Entries(l.certs) :
        \E i \in Ingresses : \E f \in Valid(spec[i]) :
            ~Rejected(spec[i]) /\ spec[i].https = l.port /\ CertIDs[f] = id

LEMMA PayloadCerts ==
    ASSUME TreeInv, described \subseteq Fingerprints, NEW a \in Payloads
    PROVE  CertsBrought(a)
<1>1. ASSUME NEW l \in Entries(a.listeners), NEW id \in Entries(l.certs)
      PROVE  \E i \in Ingresses : \E f \in Valid(spec[i]) :
               ~Rejected(spec[i]) /\ spec[i].https = l.port /\ CertIDs[f] = id
  <2>1. l # Dummy
    BY DummyEmpty
  <2>2. id \in PortCerts(l.port)
    BY <2>1, PayloadListener, CertList
  <2>3. PICK f : <<f, l.port>> \in certificates /\ id = CertIDs[f]
    BY <2>2 DEF PortCerts
  <2>4. PICK i \in Ingresses : Brings(i, f, l.port)
    BY <2>3 DEF TreeInv, Brought
  <2> QED
    BY <2>3, <2>4 DEF Brings
<1> QED
  BY <1>1 DEF CertsBrought

\* The routes of a payload, and those of the tree.
Routes(a) ==
    UNION {{[port |-> l.port, host |-> h.host, rules |-> Entries(h.rules)] :
              h \in Entries(l.hosts)} : l \in Entries(a.listeners)}
TreeRoutes ==
    UNION {{[port |-> p, host |-> r.host,
             rules |-> {Matcher(q) : q \in {q \in listeners[p].rules : q.host = r.host}}] :
              r \in listeners[p].rules} : p \in SentPorts}

LEMMA PayloadRoutes ==
    ASSUME TreeInv, described \subseteq Fingerprints, NEW a \in Payloads
    PROVE  Routes(a) = TreeRoutes
<1> DEFINE Route(p, host) == [port |-> p, host |-> host,
                              rules |-> {Matcher(q) : q \in RulesOf(p, host)}]
<1>1. TreeRoutes = UNION {{Route(p, r.host) : r \in listeners[p].rules} : p \in SentPorts}
  BY DEF TreeRoutes, RulesOf
<1>2. ASSUME NEW p \in Ports, NEW H \in HostLists(p), NEW h \in Entries(H)
      PROVE  /\ [port |-> p, host |-> h.host, rules |-> Entries(h.rules)] = Route(p, h.host)
             /\ \E r \in listeners[p].rules : r.host = h.host
  <2>1. h.host \in HostsOf(p) /\ h.rules \in RuleLists(p, h.host)
    BY <1>2, HostList
  <2>2. Entries(h.rules) = {Matcher(q) : q \in RulesOf(p, h.host)}
    BY <2>1, RuleList
  <2> QED
    BY <2>1, <2>2 DEF HostsOf
<1> HIDE DEF Route
<1>3. ASSUME NEW x \in Routes(a) PROVE x \in TreeRoutes
  <2>1. PICK l \in Entries(a.listeners) :
          \E h \in Entries(l.hosts) :
            x = [port |-> l.port, host |-> h.host, rules |-> Entries(h.rules)]
    BY <1>3 DEF Routes
  <2>2. PICK h \in Entries(l.hosts) :
          x = [port |-> l.port, host |-> h.host, rules |-> Entries(h.rules)]
    BY <2>1
  <2>3. l.port \in SentPorts /\ l.port \in Ports /\ l.hosts \in HostLists(l.port)
    BY <2>2, DummyEmpty, PayloadListener
  <2>4. x = Route(l.port, h.host) /\ \E r \in listeners[l.port].rules : r.host = h.host
    BY <1>2, <2>2, <2>3
  <2> QED
    BY <1>1, <2>3, <2>4
<1>4. ASSUME NEW x \in TreeRoutes PROVE x \in Routes(a)
  <2>1. PICK p \in SentPorts : \E r \in listeners[p].rules : x = Route(p, r.host)
    BY <1>1, <1>4
  <2>2. PICK r \in listeners[p].rules : x = Route(p, r.host)
    BY <2>1
  <2>3. PICK l \in Entries(a.listeners) : l.port = p /\ l.hosts \in HostLists(p)
    <3>1. a.listeners \in ListenerLists /\ SentPorts # {}
      BY <2>2 DEF Payloads
    <3>2. PICK n \in DOMAIN a.listeners : a.listeners[n].port = p
      BY <2>2, <3>1, Listeners
    <3>3. a.listeners[n] \in PortListeners(p)
      BY <3>1, <3>2, Listeners
    <3> QED
      BY <3>2, <3>3, PortEntry DEF Entries
  <2>4. p \in Ports /\ r.host \in HostsOf(p)
    BY <2>2 DEF SentPorts, HostsOf
  <2>5. PICK h \in Entries(l.hosts) : h.host = r.host
    BY <2>3, <2>4, HostList
  <2>6. x = [port |-> l.port, host |-> h.host, rules |-> Entries(h.rules)]
    BY <1>2, <2>2, <2>3, <2>4, <2>5
  <2> QED
    BY <2>6 DEF Routes
<1> QED
  BY <1>3, <1>4

\* A load balancer that is up to date with the tree.
Current(a) ==
    /\ Routes(a) = TreeRoutes /\ CertsBrought(a)
    /\ \A l \in Entries(a.listeners) : l.name = "port" => Entries(l.certs) = PortCerts(l.port)
    /\ Entries(a.pools) = pools

LEMMA PayloadCurrent ==
    ASSUME TreeInv, described \subseteq Fingerprints, NEW a \in Payloads
    PROVE  Current(a)
<1>1. ASSUME NEW l \in Entries(a.listeners), l.name = "port"
      PROVE  Entries(l.certs) = PortCerts(l.port)
  <2>1. l # Dummy
    BY <1>1, DummyEmpty
  <2> QED
    BY <2>1, PayloadListener, CertList
<1> QED
  BY <1>1, PayloadRoutes, PayloadCerts, PoolList DEF Current

\* It stays so as long as nothing changes.
LEMMA CurrentStays ==
    ASSUME spec' = spec, listeners' = listeners, pools' = pools,
           certificates' = certificates, described' = described, Current(stored')
    PROVE  Current(stored)'
<1>1. \A p : PortCerts(p)' = PortCerts(p)
  BY DEF PortCerts
<1>2. SentPorts' = SentPorts
  BY <1>1 DEF SentPorts
<1>3. TreeRoutes' = TreeRoutes
  BY <1>2 DEF TreeRoutes
<1>4. Routes(stored)' = Routes(stored')
  BY DEF Routes
<1>5. CertsBrought(stored)'
  BY DEF Current, CertsBrought, Valid, Rejected, InRange
<1>6. (\A l \in Entries(stored.listeners) :
         l.name = "port" => Entries(l.certs) = PortCerts(l.port))'
  BY <1>1 DEF Current
<1>7. (Entries(stored.pools) = pools)'
  BY DEF Current
<1> QED
  BY <1>3, <1>4, <1>5, <1>6, <1>7 DEF Current

-------------------------------------------------------------------------------
(* The inductive invariant *)

\* While it is being built the tree has its invariant; what is stored was made of
\* such a tree, and after a reconciliation that nothing followed, of this one.
PInv ==
    /\ spec \in [Ingresses -> Specs] /\ described \subseteq Fingerprints
    /\ stored \in PayloadType
    /\ pc = "applied" \/ TreeInv
    /\ Specific(stored) /\ (stored # NoALB => Acceptable(stored))
    /\ pc = "applied" /\ ~changed => Current(stored)

LEMMA NoALBTyped == NoALB \in PayloadType /\ Specific(NoALB)
<1>1. <<>> \in Seq(PayloadPort) /\ <<>> \in Seq(Pool)
  OBVIOUS
<1>2. Entries(NoALB.listeners) = {}
  BY DEF Entries, NoALB
<1> QED
  BY <1>1, <1>2 DEF NoALB, PayloadType, Specific

LEMMA PInvInit == PayloadInit => PInv
<1> SUFFICES ASSUME PayloadInit PROVE PInv
  OBVIOUS
<1>1. Init /\ described \subseteq Fingerprints /\ stored = NoALB /\ changed = TRUE
  BY DEF PayloadInit
<1>2. spec \in [Ingresses -> Specs] /\ TreeInv
  BY <1>1, TreeInvInit DEF Init
<1> QED
  BY <1>1, <1>2, NoALBTyped DEF PInv

\* What is stored is up to date after every reconciliation, written or not.
LEMMA Applied ==
    ASSUME PInv, Apply
    PROVE  stored' \in Payloads /\ TreeInv /\ described \subseteq Fingerprints
<1>1. TreeInv /\ described \subseteq Fingerprints /\ stored \in PayloadType
  BY DEF PInv, Apply
<1>2. PICK a \in Payloads :
        IF stored = NoALB \/ UpdateNeeded(stored, a) THEN stored' = a ELSE stored' = stored
  BY DEF Apply
<1>3. CASE stored = NoALB \/ UpdateNeeded(stored, a)
  BY <1>1, <1>2, <1>3
<1>4. CASE ~(stored = NoALB \/ UpdateNeeded(stored, a))
  <2>1. stored = a
    BY <1>1, <1>4, PayloadTyped, NoUpdateSame
  <2> QED
    BY <1>1, <1>2, <1>4, <2>1
<1> QED
  BY <1>3, <1>4

\* The tree that the next reconciliation starts from.
LEMMA TreeInvAgain == (Init => TreeInv)'
  BY TreeInvInit, PTL

LEMMA PInvStep ==
    ASSUME PInv, [PayloadNext]_allVars
    PROVE  PInv'
<1>1. CASE BuildTree
  <2>1. Next /\ UNCHANGED payloadVars
    BY <1>1 DEF BuildTree
  <2>2. pc # "applied" /\ pc' # "applied"
    BY <2>1 DEF Next, Sort, SkipIngress, AdmitIngress, DropPath, AddPath, NextIngress, Finish
  <2>3. TreeInv' /\ spec' = spec
    BY <2>1, <2>2, TreeInvStep, TreeFrame DEF PInv
  <2>4. Specific(stored)' /\ (stored # NoALB => Acceptable(stored))'
    BY <2>1 DEF PInv, payloadVars, Specific
  <2> QED
    BY <2>1, <2>2, <2>3, <2>4 DEF PInv, payloadVars
<1>2. CASE Apply
  <2>1. stored' \in Payloads /\ TreeInv /\ described \subseteq Fingerprints
    BY <1>2, Applied
  <2>2. stored' \in PayloadType /\ Specific(stored') /\ Acceptable(stored') /\ Current(stored')
    BY <2>1, PayloadTyped, PayloadSpecific, PayloadAcceptable, PayloadCurrent
  <2>3. /\ spec' = spec /\ listeners' = listeners /\ pools' = pools
        /\ certificates' = certificates /\ described' = described /\ pc' = "applied"
    BY <1>2 DEF Apply, tree
  <2>4. Specific(stored)' /\ Acceptable(stored)' /\ (stored \in PayloadType)'
    BY <2>2 DEF Specific, Acceptable
  <2>5. Current(stored)'
    BY <2>2, <2>3, CurrentStays
  <2> QED
    BY <2>3, <2>4, <2>5 DEF PInv
<1>3. CASE ReconcileAgain
  <2>1. spec' \in [Ingresses -> Specs] /\ UNCHANGED payloadVars /\ pc' = "sort"
    BY <1>3 DEF ReconcileAgain, PInv
  <2>2. Init'
    BY <1>3, <2>1 DEF ReconcileAgain, Init
  <2>3. TreeInv'
    BY <2>2, TreeInvAgain
  <2>4. Specific(stored)' /\ (stored # NoALB => Acceptable(stored))'
    BY <2>1 DEF PInv, payloadVars, Specific
  <2> QED
    BY <2>1, <2>3, <2>4 DEF PInv, payloadVars
<1>4. CASE DescribeCert \/ \E i \in Ingresses : EditIngress(i)
  <2>1. /\ spec' \in [Ingresses -> Specs] /\ described' \subseteq Fingerprints
        /\ stored' = stored /\ pc = "applied" /\ pc' = pc /\ changed' = TRUE
    BY <1>4 DEF DescribeCert, EditIngress, PInv
  <2>2. Specific(stored)' /\ (stored # NoALB => Acceptable(stored))'
    BY <2>1 DEF PInv, Specific
  <2> QED
    BY <2>1, <2>2 DEF PInv
<1>5. CASE UNCHANGED allVars
  <2>1. UNCHANGED vars /\ UNCHANGED payloadVars
    BY <1>5 DEF allVars
  <2>2. TreeInv => TreeInv'
    BY <2>1, TreeInvStep
  <2>3. /\ spec' = spec /\ listeners' = listeners /\ pools' = pools /\ pc' = pc
        /\ certificates' = certificates /\ described' = described /\ stored' = stored
        /\ changed' = changed
    BY <2>1 DEF vars, tree, payloadVars
  <2>4. Specific(stored)' /\ (stored # NoALB => Acceptable(stored))'
    BY <2>3 DEF PInv, Specific
  <2>5. Current(stored) => Current(stored)'
    BY <2>3, CurrentStays
  <2> QED
    BY <2>2, <2>3, <2>4, <2>5 DEF PInv
<1> QED
  BY <1>1, <1>2, <1>3, <1>4, <1>5 DEF PayloadNext

-------------------------------------------------------------------------------
(* There is one payload of a tree *)

\* What a path matches is matched by no other rule of the listener.
MatchesUnique(L) == \A p \in Ports : \A r, s \in L[p].rules : SameMatch(r, s) => r = s

LEMMA UniqueStays ==
    ASSUME NEW L \in [Ports -> Listener], MatchesUnique(L), NEW rule \in Rule,
           NEW port \in Ports, NEW protocol \in Protocols
    PROVE  LET M == Added(L, rule, port, protocol)
           IN M \in [Ports -> Listener] /\ MatchesUnique(M)
<1> DEFINE M == Added(L, rule, port, protocol)
<1> SUFFICES M \in [Ports -> Listener] /\ MatchesUnique(M)
  OBVIOUS
<1>1. /\ M \in [Ports -> Listener]
      /\ \A q \in Ports : q # port => M[q] = L[q]
      /\ Conflicts(L[port], rule, protocol) # {} => M = L
      /\ Conflicts(L[port], rule, protocol) = {} =>
           /\ L[port].protocol \in {"none", protocol}
           /\ M[port] = [protocol |-> protocol, rules |-> L[port].rules \union {rule}]
  BY AddedOne DEF Added
<1> HIDE DEF M
<1>2. CASE Conflicts(L[port], rule, protocol) # {}
  BY <1>1, <1>2
<1>3. CASE Conflicts(L[port], rule, protocol) = {}
  <2>1. \A r \in L[port].rules : ~SameMatch(r, rule)
    BY <1>1, <1>3 DEF Conflicts
  <2>2. \A r \in L[port].rules : ~SameMatch(rule, r)
    BY <2>1 DEF SameMatch
  <2>3. M[port].rules = L[port].rules \union {rule}
    BY <1>1, <1>3
  <2>4. ASSUME NEW p \in Ports, NEW r \in M[p].rules, NEW s \in M[p].rules, SameMatch(r, s)
        PROVE  r = s
    <3>1. CASE p # port
      BY <1>1, <2>4, <3>1 DEF MatchesUnique
    <3>2. CASE p = port
      BY <2>1, <2>2, <2>3, <2>4, <3>2 DEF MatchesUnique
    <3> QED
      BY <3>1, <3>2
  <2> QED
    BY <1>1, <2>4 DEF MatchesUnique
<1> QED
  BY <1>2, <1>3

\* No step of BuildTree gives a listener two rules for the same match.
LEMMA UniqueStep ==
    ASSUME WInv, MatchesUnique(listeners), [Next]_vars
    PROVE  MatchesUnique(listeners')
<1>1. CASE listeners' = listeners
  BY <1>1
<1>2. CASE AddPath
  <2> DEFINE s == spec[order[at]]
             P == Plain(listeners, s, CurrentRule)
  <2>1. /\ CurrentRule \in Rule /\ listeners \in [Ports -> Listener]
        /\ listeners' = Secure(listeners, s, CurrentRule)
    BY <1>2, AddPathEffect
  <2>2. s \in IngressSpec /\ ~Rejected(s)
    BY <1>2, CurrentPath DEF AddPath
  <2>3. (~s.httpsOnly => s.http \in Ports) /\ (s.tls # {} => s.https \in Ports)
    BY <2>2 DEF Rejected, InRange
  <2> HIDE DEF s
  <2>4. P \in [Ports -> Listener] /\ MatchesUnique(P)
    BY <2>1, <2>3, UniqueStays DEF Plain, Protocols
  <2> HIDE DEF P
  <2>5. MatchesUnique(Secure(listeners, s, CurrentRule))
    BY <2>1, <2>3, <2>4, UniqueStays DEF Secure, P, Protocols
  <2> QED
    BY <2>1, <2>5
<1> QED
  BY <1>1, <1>2, TreeFrame

\* However maps are iterated, the rules of a host come in one order.
LEMMA OneRuleList ==
    ASSUME TreeInv, MatchesUnique(listeners), NEW port \in Ports, NEW host,
           NEW K \in RuleLists(port, host), NEW L \in RuleLists(port, host)
    PROVE  K = L
<1> DEFINE S == RulesOf(port, host)
           R == {x \in S \X S : ComparePaths(x[1], x[2]) <= 0}
<1>1. ASSUME NEW M \in RuleLists(port, host)
      PROVE  \E s \in SetToSeqs(S) :
               /\ M = [n \in DOMAIN s |-> Matcher(s[n])]
               /\ \A n \in 1 .. Len(s) - 1 : ComparePaths(s[n], s[n + 1]) <= 0
  BY DEF RuleLists, Arranged, RulesOf
<1>2. /\ \A r \in S : r \in Rule /\ PathLen[r.path] \in Nat /\ r.path \in Nat
      /\ \A r \in S : pathTypeRank[r.type] \in Nat
      /\ \A q, r \in S : q.host = r.host /\ (SameMatch(q, r) => q = r)
  <2>1. S \subseteq listeners[port].rules /\ \A r \in S : r.host = host
    BY DEF RulesOf
  <2>2. \A r \in S : r \in Rule /\ PathLen[r.path] \in Nat
    BY <2>1 DEF TreeInv, WInv, TypeOK, RulesCountable, Listener
  <2>3. \A r \in Rule : r.path \in Nat /\ pathTypeRank[r.type] \in Nat
    BY DEF Rule, PathTypes, pathTypeRank
  <2>4. \A q, r \in S : q.host = r.host /\ (SameMatch(q, r) => q = r)
    BY <2>1 DEF MatchesUnique
  <2> QED
    BY <2>2, <2>3, <2>4
<1>3. IsFiniteSet(S)
  <2>1. S \subseteq listeners[port].rules
    BY DEF RulesOf
  <2> QED
    BY <2>1, FS_Subset DEF TreeInv, RulesCountable
<1> HIDE DEF S
<1>4. Ordering(R, S)
  <2>1. ASSUME NEW x \in S, NEW y \in S, <<x, y>> \in R, <<y, x>> \in R PROVE x = y
    <3>1. ComparePaths(x, y) <= 0 /\ ComparePaths(y, x) <= 0
      BY <2>1
    <3>2. x.path = y.path /\ pathTypeRank[x.type] = pathTypeRank[y.type]
      BY <1>2, <3>1, PathOrder
    <3>3. x.type \in PathTypes /\ y.type \in PathTypes
      BY <1>2 DEF Rule
    <3>4. x.type = y.type
      BY <3>2, <3>3 DEF PathTypes, pathTypeRank
    <3>5. SameMatch(x, y)
      BY <1>2, <3>2, <3>4 DEF SameMatch
    <3> QED
      BY <1>2, <3>5
  <2>2. ASSUME NEW x \in S, NEW y \in S, NEW z \in S, <<x, y>> \in R, <<y, z>> \in R
        PROVE  <<x, z>> \in R
    <3>1. ComparePaths(x, y) <= 0 /\ ComparePaths(y, z) <= 0
      BY <2>2
    <3>2. ComparePaths(x, z) <= 0
      BY <1>2, <3>1, PathOrder
    <3> QED
      BY <3>2
  <2> QED
    BY <2>1, <2>2 DEF Ordering
<1>5. ASSUME NEW s \in SetToSeqs(S),
             \A n \in 1 .. Len(s) - 1 : ComparePaths(s[n], s[n + 1]) <= 0
      PROVE  Along(R, s)
  <2>1. DOMAIN s = 1 .. Len(s) /\ Len(s) \in Nat /\ \A n \in DOMAIN s : s[n] \in S
    <3> HIDE DEF R
    <3> QED
      BY <1>3, Enumeration
  <2> QED
    BY <1>5, <2>1 DEF Along
<1> HIDE DEF R
<1>6. PICK s \in SetToSeqs(S) :
        /\ K = [n \in DOMAIN s |-> Matcher(s[n])]
        /\ \A n \in 1 .. Len(s) - 1 : ComparePaths(s[n], s[n + 1]) <= 0
  BY <1>1
<1>7. PICK t \in SetToSeqs(S) :
        /\ L = [n \in DOMAIN t |-> Matcher(t[n])]
        /\ \A n \in 1 .. Len(t) - 1 : ComparePaths(t[n], t[n + 1]) <= 0
  BY <1>1
<1>8. s = t
  BY <1>3, <1>4, <1>5, <1>6, <1>7, OneArrangement
<1> QED
  BY <1>6, <1>7, <1>8

LEMMA OneNumberList ==
    ASSUME NEW S \in SUBSET Nat, IsFiniteSet(S),
           NEW s \in Arranged(S, CompareNumbers), NEW t \in Arranged(S, CompareNumbers)
    PROVE  s = t
<1> DEFINE key == [x \in S |-> x]
<1>1. key \in [S -> Nat] /\ \A x, y \in S : key[x] = key[y] => x = y
  OBVIOUS
<1>2. ASSUME NEW u \in Arranged(S, CompareNumbers)
      PROVE  u \in SetToSeqs(S) /\ \A k \in 1 .. Len(u) - 1 : key[u[k]] <= key[u[k + 1]]
  <2>1. u \in SetToSeqs(S) /\ \A k \in 1 .. Len(u) - 1 : CompareNumbers(u[k], u[k + 1]) <= 0
    BY DEF Arranged
  <2>2. DOMAIN u = 1 .. Len(u) /\ Len(u) \in Nat /\ \A k \in DOMAIN u : u[k] \in S
    <3> HIDE DEF key
    <3> QED
      BY <2>1, Enumeration
  <2>3. ASSUME NEW k \in 1 .. Len(u) - 1 PROVE key[u[k]] <= key[u[k + 1]]
    <3>1. k \in DOMAIN u /\ k + 1 \in DOMAIN u
      BY <2>2
    <3>2. u[k] \in S /\ u[k + 1] \in S /\ u[k] \in Nat /\ u[k + 1] \in Nat
      BY <2>2, <3>1
    <3>3. u[k] - u[k + 1] <= 0
      BY <2>1 DEF CompareNumbers
    <3> QED
      BY <3>2, <3>3
  <2> QED
    BY <2>1, <2>3
<1> HIDE DEF key
<1> QED
  BY <1>1, <1>2, SortedUnique

\* The hosts of a listener come in one order.
LEMMA OneHostList ==
    ASSUME TreeInv, MatchesUnique(listeners), NEW port \in Ports,
           NEW K \in HostLists(port), NEW L \in HostLists(port)
    PROVE  K = L
<1> DEFINE hosts == HostsOf(port)
           Rules == [x \in hosts |-> RuleLists(port, x)]
           Picks == {f \in [hosts -> UNION {Rules[x] : x \in hosts}] :
                       \A x \in hosts : f[x] \in Rules[x]}
           Made(s, f) == [n \in DOMAIN s |-> [host |-> s[n], rules |-> f[s[n]]]]
           Lists == Arranged(hosts, CompareNumbers)
<1>1. HostLists(port) = {Made(s, f) : s \in Lists, f \in Picks}
  BY DEF HostLists, HostsOf
<1>2. \A M \in HostLists(port) : \E s \in Lists : \E f \in Picks : M = Made(s, f)
  <2> HIDE DEF Picks, Made, Lists
  <2> QED
    BY <1>1
<1>3. \A f \in Picks : \A x \in hosts : f[x] \in RuleLists(port, x)
  OBVIOUS
<1> HIDE DEF Picks, Rules
<1>4. hosts \in SUBSET Nat /\ IsFiniteSet(hosts)
  <2>1. hosts \subseteq Nat
    BY DEF TreeInv, WInv, TypeOK, Listener, Rule, HostsOf
  <2>2. IsFiniteSet(hosts)
    BY HostsFinite DEF TreeInv, RulesCountable
  <2> QED
    BY <2>1, <2>2
<1> HIDE DEF hosts
<1>5. PICK s \in Lists, f \in Picks : K = Made(s, f)
  <2> HIDE DEF Lists, Made
  <2> QED
    BY <1>2
<1>6. PICK t \in Lists, g \in Picks : L = Made(t, g)
  <2> HIDE DEF Lists, Made
  <2> QED
    BY <1>2
<1>7. s = t
  BY <1>4, OneNumberList
<1>8. \A n \in DOMAIN s : s[n] \in hosts
  <2>1. s \in SetToSeqs(hosts)
    BY DEF Arranged
  <2> QED
    BY <1>4, <2>1, Enumeration
<1>9. \A n \in DOMAIN s : f[s[n]] = g[s[n]]
  BY <1>3, <1>8, OneRuleList
<1>10. K = [n \in DOMAIN s |-> [host |-> s[n], rules |-> f[s[n]]]]
  BY <1>5
<1>11. L = [n \in DOMAIN s |-> [host |-> s[n], rules |-> g[s[n]]]]
  BY <1>6, <1>7
<1> QED
  BY <1>9, <1>10, <1>11, Zenon

\* A port has one listener.
LEMMA OnePortListener ==
    ASSUME TreeInv, MatchesUnique(listeners), described \subseteq Fingerprints, NEW p \in SentPorts,
           NEW k \in PortListeners(p), NEW l \in PortListeners(p)
    PROVE  k = l
<1>1. p \in Ports
  BY DEF SentPorts
<1>2. PortCerts(p) \in SUBSET Nat /\ IsFiniteSet(PortCerts(p))
  <2>1. PortCerts(p) \subseteq {CertIDs[f] : f \in Fingerprints}
    BY DEF PortCerts
  <2>2. IsFiniteSet({CertIDs[f] : f \in Fingerprints})
    BY CertIDsTyped, ImageFinite
  <2> QED
    BY <2>1, <2>2, FS_Subset, CertIDsTyped
<1>3. ASSUME NEW m \in PortListeners(p)
      PROVE  /\ m = [name |-> "port", port |-> p, protocol |-> listeners[p].protocol,
                     hosts |-> m.hosts, certs |-> m.certs]
             /\ m.hosts \in HostLists(p)
             /\ m.certs \in Arranged(PortCerts(p), CompareNumbers)
  BY DEF PortListeners
<1>4. k.hosts = l.hosts
  BY <1>1, <1>3, OneHostList
<1>5. k.certs = l.certs
  BY <1>2, <1>3, OneNumberList
<1> QED
  BY <1>3, <1>4, <1>5

\* The listeners come in one order.
LEMMA OneListenerList ==
    ASSUME TreeInv, MatchesUnique(listeners), described \subseteq Fingerprints,
           NEW K \in ListenerLists, NEW L \in ListenerLists
    PROVE  K = L
<1>1. CASE SentPorts = {}
  BY <1>1, ListenerEntry
<1>2. CASE SentPorts # {}
  <2>1. PICK f : /\ \A p \in SentPorts : f[p] \in PortListeners(p)
                 /\ K \in SetToSeqs({f[p] : p \in SentPorts})
                 /\ \A n \in 1 .. Len(K) - 1 : ComparePorts(K[n], K[n + 1]) <= 0
    BY <1>2, ListenerEntry
  <2>2. PICK g : /\ \A p \in SentPorts : g[p] \in PortListeners(p)
                 /\ L \in SetToSeqs({g[p] : p \in SentPorts})
                 /\ \A n \in 1 .. Len(L) - 1 : ComparePorts(L[n], L[n + 1]) <= 0
    BY <1>2, ListenerEntry
  <2> DEFINE S == {f[p] : p \in SentPorts}
  <2>3. \A p \in SentPorts : f[p] = g[p]
    BY <2>1, <2>2, OnePortListener
  <2>4. S = {g[p] : p \in SentPorts}
    BY <2>3
  <2>5. K \in SetToSeqs(S) /\ L \in SetToSeqs(S)
    BY <2>1, <2>2, <2>4
  <2>6. IsFiniteSet(S)
    <3> DEFINE h == [p \in SentPorts |-> f[p]]
    <3>1. h \in [SentPorts -> S]
      OBVIOUS
    <3>2. {h[p] : p \in SentPorts} = S
      OBVIOUS
    <3> HIDE DEF h, S
    <3>3. IsFiniteSet({h[p] : p \in SentPorts})
      BY <3>1, SentPortsFinite, ImageFinite
    <3> QED
      BY <3>2, <3>3
  <2>7. \A p \in SentPorts : f[p].port = p /\ p \in Nat
    BY <2>1, LimitsAreNaturals DEF PortListeners, SentPorts, Ports
  <2> DEFINE key == [x \in S |-> x.port]
  <2>8. key \in [S -> Nat] /\ \A x \in S : key[x] = x.port /\ x.port \in Nat
    BY <2>7
  <2>9. \A x, y \in S : key[x] = key[y] => x = y
    BY <2>7
  <2> HIDE DEF S, key
  <2>10. ASSUME NEW u \in SetToSeqs(S),
                \A n \in 1 .. Len(u) - 1 : ComparePorts(u[n], u[n + 1]) <= 0
         PROVE  \A n \in 1 .. Len(u) - 1 : key[u[n]] <= key[u[n + 1]]
    <3>1. DOMAIN u = 1 .. Len(u) /\ Len(u) \in Nat /\ \A n \in DOMAIN u : u[n] \in S
      BY <2>6, Enumeration
    <3> SUFFICES ASSUME NEW n \in 1 .. Len(u) - 1 PROVE key[u[n]] <= key[u[n + 1]]
      OBVIOUS
    <3>2. n \in DOMAIN u /\ n + 1 \in DOMAIN u
      BY <3>1
    <3>3. u[n] \in S /\ u[n + 1] \in S
      BY <3>1, <3>2
    <3>4. u[n].port - u[n + 1].port <= 0
      BY <2>10 DEF ComparePorts
    <3> QED
      BY <2>8, <3>3, <3>4
  <2>11. /\ \A n \in 1 .. Len(K) - 1 : key[K[n]] <= key[K[n + 1]]
         /\ \A n \in 1 .. Len(L) - 1 : key[L[n]] <= key[L[n + 1]]
    BY <2>1, <2>2, <2>5, <2>10
  <2> QED
    BY <2>5, <2>6, <2>8, <2>9, <2>11, SortedUnique
<1> QED
  BY <1>1, <1>2

\* The target pools come in one order.
LEMMA OnePoolList ==
    ASSUME TreeInv,
           NEW s \in Arranged(pools, ComparePools), NEW t \in Arranged(pools, ComparePools)
    PROVE  s = t
<1> DEFINE R == {x \in pools \X pools : ComparePools(x[1], x[2]) <= 0}
<1>1. IsFiniteSet(pools) /\ pools \subseteq Pool
  BY DEF TreeInv, WInv, PoolsSeen
<1>2. \A p \in pools : /\ p.ref[1] \in Ingresses /\ p.ref[2] \in Nat
                       /\ p.ref = <<p.ref[1], p.ref[2]>>
                       /\ Rank[p.ref[1]] \in Nat
  BY <1>1, RankOrdersNames DEF Pool, Refs
<1>3. \A p, q \in pools : ComparePools(p, q) <= 0 <=>
        \/ Rank[p.ref[1]] < Rank[q.ref[1]]
        \/ Rank[p.ref[1]] = Rank[q.ref[1]] /\ p.ref[2] <= q.ref[2]
  <2> SUFFICES ASSUME NEW p \in pools, NEW q \in pools
               PROVE  ComparePools(p, q) <= 0 <=>
                        \/ Rank[p.ref[1]] < Rank[q.ref[1]]
                        \/ Rank[p.ref[1]] = Rank[q.ref[1]] /\ p.ref[2] <= q.ref[2]
    OBVIOUS
  <2> DEFINE i == Rank[p.ref[1]] - Rank[q.ref[1]]
  <2>1. ComparePools(p, q) = IF i # 0 THEN i ELSE p.ref[2] - q.ref[2]
    BY DEF ComparePools
  <2>2. /\ Rank[p.ref[1]] \in Nat /\ Rank[q.ref[1]] \in Nat
        /\ p.ref[2] \in Nat /\ q.ref[2] \in Nat
    BY <1>2
  <2> QED
    BY <2>1, <2>2
<1>4. \A x, y \in pools : <<x, y>> \in R <=>
        \/ Rank[x.ref[1]] < Rank[y.ref[1]]
        \/ Rank[x.ref[1]] = Rank[y.ref[1]] /\ x.ref[2] <= y.ref[2]
  BY <1>3
<1>5. Ordering(R, pools)
  <2> HIDE DEF R
  <2>1. ASSUME NEW x \in pools, NEW y \in pools, <<x, y>> \in R, <<y, x>> \in R PROVE x = y
    <3>1. Rank[x.ref[1]] = Rank[y.ref[1]] /\ x.ref[2] = y.ref[2]
      BY <1>2, <1>4, <2>1
    <3>2. x.ref[1] = y.ref[1]
      BY <1>2, <3>1, RankOrdersNames
    <3>3. x.ref = y.ref
      BY <1>2, <3>1, <3>2
    <3> QED
      BY <3>3 DEF TreeInv, WInv, RulesMatchPools
  <2>2. ASSUME NEW x \in pools, NEW y \in pools, NEW z \in pools,
               <<x, y>> \in R, <<y, z>> \in R
        PROVE  <<x, z>> \in R
    BY <1>2, <1>4, <2>2
  <2> QED
    BY <2>1, <2>2 DEF Ordering
<1>6. ASSUME NEW u \in Arranged(pools, ComparePools)
      PROVE  u \in SetToSeqs(pools) /\ Along(R, u)
  <2>1. u \in SetToSeqs(pools) /\ \A k \in 1 .. Len(u) - 1 : ComparePools(u[k], u[k + 1]) <= 0
    BY DEF Arranged
  <2>2. DOMAIN u = 1 .. Len(u) /\ Len(u) \in Nat /\ \A k \in DOMAIN u : u[k] \in pools
    <3> HIDE DEF R
    <3> QED
      BY <1>1, <2>1, Enumeration
  <2> QED
    BY <2>1, <2>2 DEF Along
<1> HIDE DEF R
<1> QED
  BY <1>1, <1>5, <1>6, OneArrangement

LEMMA OnePayload ==
    ASSUME TreeInv, MatchesUnique(listeners), described \subseteq Fingerprints,
           NEW a \in Payloads, NEW b \in Payloads
    PROVE  a = b
<1>1. /\ a = [listeners |-> a.listeners, pools |-> a.pools]
      /\ b = [listeners |-> b.listeners, pools |-> b.pools]
      /\ a.listeners \in ListenerLists /\ b.listeners \in ListenerLists
      /\ a.pools \in Arranged(pools, ComparePools)
      /\ b.pools \in Arranged(pools, ComparePools)
  BY DEF Payloads
<1> QED
  BY <1>1, OneListenerList, OnePoolList

-------------------------------------------------------------------------------
(* The tree is a function of the Ingresses *)

\* Where the construction of the tree is.
Moment(o, L, P, C, a, n, c) ==
    [order |-> o, listeners |-> L, pools |-> P, certificates |-> C,
     at |-> a, next |-> n, pc |-> c]
Now == Moment(order, listeners, pools, certificates, at, next, pc)
Start(o) == Moment(o, [p \in Ports |-> NoListener], {}, {}, 1, 1, "ingress")

\* What the loops of BuildTree make of a moment.
AfterIngress(o, L, P, C, a, n) ==
    LET s == spec[o[a]]
    IN IF a > Len(o) THEN Moment(o, L, P, C, a, n, "done")
       ELSE IF Rejected(s) THEN Moment(o, L, P, C, a + 1, n, "ingress")
       ELSE Moment(o, L, P, C \union (Valid(s) \X {s.https}), a, 1, "paths")

AfterPath(o, L, P, C, a, n) ==
    LET s == spec[o[a]]
        p == s.paths[n]
        M == Secure(L, s, [host |-> p.host, path |-> p.path, type |-> p.type,
                           ref |-> <<o[a], n>>])
        Q == IF M = L THEN P ELSE P \union {[ref |-> <<o[a], n>>, port |-> NodePort(p)]}
    IN IF n > Len(s.paths) THEN Moment(o, L, P, C, a + 1, n, "ingress")
       ELSE IF Cardinality(P) >= LimitTargetPools \/ ~ValidBackend(p)
       THEN Moment(o, L, P, C, a, n + 1, "paths")
       ELSE Moment(o, M, Q, C, a, n + 1, "paths")

After(m) ==
    IF m.pc = "ingress"
    THEN AfterIngress(m.order, m.listeners, m.pools, m.certificates, m.at, m.next)
    ELSE AfterPath(m.order, m.listeners, m.pools, m.certificates, m.at, m.next)

LEMMA AfterNow ==
    After(Now) = IF pc = "ingress"
                 THEN AfterIngress(order, listeners, pools, certificates, at, next)
                 ELSE AfterPath(order, listeners, pools, certificates, at, next)
  BY DEF After, Now, Moment

LEMMA NowNext ==
    Now' = Moment(order', listeners', pools', certificates', at', next', pc')
  BY DEF Now, Moment

\* Once the Ingresses are sorted, there is no choice.
LEMMA StepIsAfter ==
    ASSUME WInv, Next, pc # "sort"
    PROVE  /\ pc \in {"ingress", "paths"} /\ pc' \in {"ingress", "paths", "done"}
           /\ Now' = After(Now) /\ spec' = spec
<1>0. /\ order \in Orders /\ at \in Nat /\ next \in Nat /\ Len(order) \in Nat
      /\ pc = "paths" => Len(spec[order[at]].paths) \in Nat
  <2>1. order \in Orders /\ at \in Nat /\ next \in Nat
    BY DEF WInv, TypeOK, Sorted
  <2>2. Len(order) \in Nat
    BY <2>1, OrderType, CardinalityOfIngresses
  <2>3. pc = "paths" => spec[order[at]] \in Specs
    BY <2>1, OrderType DEF WInv, TypeOK, InLoop
  <2> QED
    BY <2>1, <2>2, <2>3, SpecType
<1>1. CASE SkipIngress
  <2>1. /\ pc = "ingress" /\ ~(at > Len(order)) /\ Rejected(spec[order[at]])
        /\ at' = at + 1
        /\ UNCHANGED <<spec, order, listeners, pools, certificates, next, pc>>
    BY <1>0, <1>1 DEF SkipIngress
  <2> QED
    BY <2>1, AfterNow, NowNext DEF AfterIngress
<1>2. CASE AdmitIngress
  <2>1. /\ pc = "ingress" /\ ~(at > Len(order)) /\ ~Rejected(spec[order[at]])
        /\ certificates' = certificates \union
                             (Valid(spec[order[at]]) \X {spec[order[at]].https})
        /\ next' = 1 /\ pc' = "paths"
        /\ UNCHANGED <<spec, order, listeners, pools, at>>
    BY <1>0, <1>2 DEF AdmitIngress
  <2> QED
    BY <2>1, AfterNow, NowNext DEF AfterIngress
<1>3. CASE Finish
  <2>1. /\ pc = "ingress" /\ at > Len(order) /\ pc' = "done"
        /\ UNCHANGED <<spec, order, listeners, pools, certificates, at, next>>
    BY <1>3 DEF Finish, tree
  <2> QED
    BY <2>1, AfterNow, NowNext DEF AfterIngress
<1>4. CASE NextIngress
  <2>1. /\ pc = "paths" /\ next > Len(spec[order[at]].paths)
        /\ at' = at + 1 /\ pc' = "ingress"
        /\ UNCHANGED <<spec, order, listeners, pools, certificates, next>>
    BY <1>4 DEF NextIngress, tree
  <2> QED
    BY <2>1, AfterNow, NowNext DEF AfterPath
<1>5. CASE DropPath
  <2>1. /\ pc = "paths" /\ ~(next > Len(spec[order[at]].paths))
        /\ Cardinality(pools) >= LimitTargetPools
             \/ ~ValidBackend(spec[order[at]].paths[next])
        /\ next' = next + 1
        /\ UNCHANGED <<spec, order, listeners, pools, certificates, at, pc>>
    BY <1>0, <1>5 DEF DropPath, LimitReached
  <2> QED
    BY <2>1, AfterNow, NowNext DEF AfterPath
<1>6. CASE AddPath
  <2> DEFINE L == Secure(listeners, spec[order[at]], CurrentRule)
  <2>1. /\ pc = "paths" /\ ~(next > Len(spec[order[at]].paths))
        /\ ~(Cardinality(pools) >= LimitTargetPools) /\ ValidBackend(CurrentPathOf)
        /\ listeners' = L
        /\ pools' = IF L = listeners THEN pools
                    ELSE pools \union {[ref |-> <<order[at], next>>,
                                        port |-> NodePort(CurrentPathOf)]}
        /\ next' = next + 1
        /\ UNCHANGED <<spec, order, certificates, at, pc>>
    <3>1. listeners' = L
      BY <1>6 DEF AddPath, Secure, Plain, CurrentRule, CurrentPathOf
    <3>2. pools' = IF listeners' = listeners THEN pools
                   ELSE pools \union {[ref |-> <<order[at], next>>,
                                       port |-> NodePort(CurrentPathOf)]}
      BY <1>6 DEF AddPath, CurrentPathOf
    <3> HIDE DEF L
    <3> QED
      BY <1>0, <1>6, <3>1, <3>2, AddPathFrame DEF LimitReached
  <2> QED
    BY <2>1, AfterNow, NowNext DEF AfterPath, CurrentPathOf, CurrentRule
<1>7. ~Sort
  BY DEF Sort
<1> QED
  BY <1>1, <1>2, <1>3, <1>4, <1>5, <1>6, <1>7
  DEF Next, SkipIngress, AdmitIngress, Finish, NextIngress, DropPath, AddPath

-------------------------------------------------------------------------------
(* From one reconciliation to the next *)

\* An order of the Ingresses that sorting may leave.
Orderly(o) == o \in Orders /\ \A n \in 1 .. Cardinality(Ingresses) - 1 :
                                Compare(o[n], o[n + 1]) <= 0

\* Sorting leaves the Ingresses in one order.
LEMMA OneOrder ==
    ASSUME NoOverflow, TypeOK, NEW o, Orderly(o), NEW q, Orderly(q)
    PROVE  o = q
<1> DEFINE R == {x \in Ingresses \X Ingresses : Precedes(x[1], x[2])}
<1>1. ASSUME NEW i \in Ingresses, NEW j \in Ingresses, Precedes(i, j), Precedes(j, i)
      PROVE  i = j
  <2>1. Precedes(i, i)
    BY <1>1, PrecedesIsTransitive
  <2>2. spec[i] \in Specs
    BY DEF TypeOK
  <2>3. spec[i].prio \in Int /\ spec[i].created \in Nat /\ Rank[i] \in Nat
    BY <2>2, SpecType, RankOrdersNames DEF IngressSpec
  <2> QED
    BY <2>1, <2>3 DEF Precedes
<1>2. Ordering(R, Ingresses)
  <2>1. \A i, j, k \in Ingresses : Precedes(i, j) /\ Precedes(j, k) => Precedes(i, k)
    BY PrecedesIsTransitive
  <2> QED
    BY <1>1, <2>1 DEF Ordering
<1>3. ASSUME NEW u, Orderly(u)
      PROVE  u \in SetToSeqs(Ingresses) /\ Along(R, u)
  <2>1. u \in Orders /\ \A n \in 1 .. Cardinality(Ingresses) - 1 : Compare(u[n], u[n + 1]) <= 0
    BY <1>3 DEF Orderly
  <2>2. /\ Len(u) = Cardinality(Ingresses) /\ Cardinality(Ingresses) \in Nat
        /\ DOMAIN u = 1 .. Len(u)
        /\ \A n \in DOMAIN u : u[n] \in Ingresses
        /\ \A m, n \in DOMAIN u : u[m] = u[n] => m = n
    BY <2>1, OrderType, CardinalityOfIngresses
  <2>3. u \in SetToSeqs(Ingresses)
    BY <2>1 DEF Orders, SetToSeqs
  <2>4. ASSUME NEW n \in 1 .. Len(u) - 1 PROVE <<u[n], u[n + 1]>> \in R
    <3>1. n \in DOMAIN u /\ n + 1 \in DOMAIN u /\ n # n + 1
      BY <2>2
    <3>2. u[n] \in Ingresses /\ u[n + 1] \in Ingresses /\ u[n] # u[n + 1]
      BY <2>2, <3>1
    <3>3. Compare(u[n], u[n + 1]) <= 0
      BY <2>1, <2>2
    <3>4. Precedes(u[n], u[n + 1])
      BY <3>2, <3>3, CompareIsPrecedence
    <3> QED
      BY <3>2, <3>4
  <2> HIDE DEF R
  <2> QED
    BY <2>3, <2>4 DEF Along
<1> HIDE DEF R
<1> QED
  BY <1>2, <1>3, IngressesFinite, OneArrangement

\* The payloads of any tree: Payloads, with the tree as arguments.
RuleListsOf(L, port, host) ==
    {[n \in DOMAIN s |-> Matcher(s[n])] :
        s \in Arranged({r \in L[port].rules : r.host = host}, ComparePaths)}

HostListsOf(L, port) ==
    LET hosts == {r.host : r \in L[port].rules}
        Rules == [h \in hosts |-> RuleListsOf(L, port, h)]
        Picks == {f \in [hosts -> UNION {Rules[h] : h \in hosts}] :
                    \A h \in hosts : f[h] \in Rules[h]}
    IN {[n \in DOMAIN s |-> [host |-> s[n], rules |-> f[s[n]]]] :
           s \in Arranged(hosts, CompareNumbers), f \in Picks}

CertsOf(L, C, port) ==
    IF L[port].protocol = "HTTP" THEN {}
    ELSE {CertIDs[f] : f \in {g \in described : <<g, port>> \in C}}

PortsOf(L, C) ==
    {port \in Ports : \/ L[port].protocol = "HTTP"
                      \/ L[port].protocol = "HTTPS" /\ CertsOf(L, C, port) # {}}

ListenersOf(L, C, port) ==
    [name : {"port"}, port : {port}, protocol : {L[port].protocol},
     hosts : HostListsOf(L, port), certs : Arranged(CertsOf(L, C, port), CompareNumbers)]

ListenerListsOf(L, C) ==
    IF PortsOf(L, C) = {} THEN {<<Dummy>>}
    ELSE UNION {Arranged({f[port] : port \in PortsOf(L, C)}, ComparePorts) :
                  f \in {g \in [PortsOf(L, C) -> UNION {ListenersOf(L, C, p) :
                                                          p \in PortsOf(L, C)}] :
                           \A p \in PortsOf(L, C) : g[p] \in ListenersOf(L, C, p)}}

PayloadsOf(L, P, C) ==
    [listeners : ListenerListsOf(L, C), pools : Arranged(P, ComparePools)]

\* S has the moments from the start of the loops, for the order o, up to m: all but m
\* go on to another one.
Run(S, o, m) ==
    /\ Start(o) \in S /\ m \in S
    /\ \A x \in S : x = m \/ (x.pc # "done" /\ After(x) \in S)

\* The loops of BuildTree have begun, and nothing has been applied yet.
Building == pc \notin {"sort", "applied"}

\* BuildTree has come here from its start.
OnItsWay == Building => Orderly(order) /\ \E S : Run(S, order, Now)

\* Unless something has changed, what is stored was made of a tree that BuildTree
\* will make again.
Rebuilt(S, o, m) ==
    /\ Orderly(o) /\ Run(S, o, m) /\ m.pc = "done"
    /\ stored \in PayloadsOf(m.listeners, m.pools, m.certificates)
    /\ Building => Now \in S
Repeats == ~changed => \E S, o, m : Rebuilt(S, o, m)

\* BuildTree starts with an empty tree.
Fresh == pc = "sort" => /\ listeners = [p \in Ports |-> NoListener] /\ pools = {}
                        /\ certificates = {} /\ at = 1 /\ next = 1

\* QInv is inductive and says why a second reconciliation ends where the first did.
QInv == /\ PInv /\ OnItsWay /\ Repeats /\ Fresh
        /\ pc \in {"sort", "ingress", "paths", "done", "applied"}
        /\ pc # "applied" => MatchesUnique(listeners)

LEMMA PayloadsNow == PayloadsOf(listeners, pools, certificates) = Payloads
  BY DEF PayloadsOf, Payloads, ListenerListsOf, ListenerLists, PortsOf, SentPorts,
     ListenersOf, PortListeners, CertsOf, PortCerts, HostListsOf, HostLists,
     RuleListsOf, RuleLists

\* Runs and payloads stay what they are as long as nothing changes.
LEMMA NothingChanged ==
    ASSUME spec' = spec, described' = described
    PROVE  /\ \A o : Orderly(o)' <=> Orderly(o)
           /\ \A S, o, m : Run(S, o, m)' <=> Run(S, o, m)
           /\ \A L, P, C : PayloadsOf(L, P, C)' = PayloadsOf(L, P, C)
<1>1. \A o : Orderly(o)' <=> Orderly(o)
  BY DEF Orderly, Compare
<1>2. ASSUME NEW m PROVE After(m)' = After(m)
  BY DEF After, AfterIngress, AfterPath
<1>3. \A S, o, m : Run(S, o, m)' <=> Run(S, o, m)
  BY <1>2 DEF Run
<1>4. \A L, P, C : PayloadsOf(L, P, C)' = PayloadsOf(L, P, C)
  BY DEF PayloadsOf, ListenerListsOf, PortsOf, ListenersOf, CertsOf, HostListsOf,
     RuleListsOf
<1> QED
  BY <1>1, <1>3, <1>4

LEMMA QInvInit == PayloadInit => QInv
<1> SUFFICES ASSUME PayloadInit PROVE QInv
  OBVIOUS
<1>1. /\ Init /\ changed = TRUE /\ pc = "sort" /\ listeners = [p \in Ports |-> NoListener]
      /\ pools = {} /\ certificates = {} /\ at = 1 /\ next = 1
  BY DEF PayloadInit, Init
<1>2. MatchesUnique(listeners)
  BY <1>1 DEF MatchesUnique, NoListener
<1> QED
  BY <1>1, <1>2, PInvInit DEF QInv, OnItsWay, Building, Repeats, Fresh

\* Sorting brings BuildTree to the start of its loops.
LEMMA SortStarts ==
    ASSUME NoOverflow, QInv, Sort, UNCHANGED payloadVars
    PROVE  OnItsWay' /\ Repeats'
<1>1. pc = "sort" /\ spec' = spec /\ pc' = "ingress" /\ PInv /\ OnItsWay /\ Repeats /\ Fresh
  BY DEF Sort, QInv
<1>2. /\ described' = described /\ changed' = changed /\ stored' = stored
      /\ listeners' = listeners /\ pools' = pools /\ certificates' = certificates
      /\ at' = at /\ next' = next
  BY DEF payloadVars, Sort, tree
<1>3. Now' = Start(order')
  BY <1>1, <1>2, NowNext DEF Fresh, Start
<1>4. Orderly(order')
  BY DEF Sort, Orderly
<1>5. TypeOK
  BY <1>1 DEF PInv, TreeInv, WInv
<1>6. OnItsWay'
  <2>1. Run({Start(order')}, order', Start(order'))
    BY DEF Run
  <2> QED
    BY <1>1, <1>2, <1>3, <1>4, <2>1, NothingChanged DEF OnItsWay
<1>7. Repeats'
  <2> SUFFICES ASSUME ~changed' PROVE \E S, o, m : Rebuilt(S, o, m)'
    BY DEF Repeats
  <2>1. PICK S, o, m : Rebuilt(S, o, m)
    BY <1>1, <1>2 DEF Repeats
  <2>2. o = order'
    BY <1>4, <1>5, <2>1, OneOrder DEF Rebuilt
  <2>3. Now' \in S
    BY <1>3, <2>1, <2>2 DEF Rebuilt, Run
  <2>4. Rebuilt(S, o, m)'
    BY <1>1, <1>2, <2>1, <2>3, NothingChanged DEF Rebuilt
  <2> QED
    BY <2>4
<1> QED
  BY <1>6, <1>7

\* Every further step leads on along the run.
LEMMA LoopGoesOn ==
    ASSUME QInv, Next, ~Sort, UNCHANGED payloadVars
    PROVE  OnItsWay' /\ Repeats'
<1>1. PInv /\ OnItsWay /\ Repeats /\ pc # "sort" /\ pc # "applied"
  BY DEF QInv, Next, Sort, SkipIngress, AdmitIngress, DropPath, AddPath, NextIngress, Finish
<1>2. described' = described /\ changed' = changed /\ stored' = stored
  BY DEF payloadVars
<1>3. order' = order
  BY AddPathFrame DEF Next, SkipIngress, AdmitIngress, DropPath, NextIngress, Finish
<1>4. /\ pc \in {"ingress", "paths"} /\ pc' \in {"ingress", "paths", "done"}
      /\ Now' = After(Now) /\ spec' = spec
  BY <1>1, StepIsAfter DEF PInv, TreeInv
<1>5. Building /\ Building' /\ Now.pc # "done"
  BY <1>4 DEF Building, Now, Moment
<1>6. OnItsWay'
  <2>1. PICK S : Orderly(order) /\ Run(S, order, Now)
    BY <1>1, <1>5 DEF OnItsWay
  <2> DEFINE T == S \union {After(Now)}
  <2>2. Run(T, order, After(Now))
    <3>1. Start(order) \in T /\ After(Now) \in T
      BY <2>1 DEF Run
    <3>2. ASSUME NEW x \in T, x # After(Now) PROVE x.pc # "done" /\ After(x) \in T
      BY <1>5, <2>1, <3>2 DEF Run
    <3> QED
      BY <3>1, <3>2 DEF Run
  <2> HIDE DEF T
  <2>3. Orderly(order') /\ Run(T, order', Now')
    BY <1>3, <1>4, <2>1, <2>2
  <2> QED
    BY <1>2, <1>4, <2>3, NothingChanged DEF OnItsWay
<1>7. Repeats'
  <2> SUFFICES ASSUME ~changed' PROVE \E S, o, m : Rebuilt(S, o, m)'
    BY DEF Repeats
  <2>1. PICK S, o, m : Rebuilt(S, o, m)
    BY <1>1, <1>2 DEF Repeats
  <2>2. Now \in S /\ Now # m /\ Run(S, o, m)
    BY <1>5, <2>1 DEF Rebuilt
  <2>3. Now' \in S
    BY <1>4, <2>2 DEF Run
  <2>4. Rebuilt(S, o, m)'
    BY <1>2, <1>4, <2>1, <2>3, NothingChanged DEF Rebuilt
  <2> QED
    BY <2>4
<1> QED
  BY <1>6, <1>7

LEMMA QInvStep ==
    ASSUME NoOverflow, QInv, [PayloadNext]_allVars
    PROVE  QInv'
<1>1. PInv'
  BY PInvStep DEF QInv
<1>2. CASE BuildTree
  <2>1. Next /\ UNCHANGED payloadVars
    BY <1>2 DEF BuildTree
  <2>2. OnItsWay' /\ Repeats'
    BY <2>1, SortStarts, LoopGoesOn
  <2>3. pc # "applied" /\ pc' \in {"ingress", "paths", "done"}
    BY <2>1 DEF Next, Sort, SkipIngress, AdmitIngress, DropPath, AddPath, NextIngress, Finish
  <2>4. MatchesUnique(listeners')
    BY <2>1, <2>3, UniqueStep DEF QInv, PInv, TreeInv
  <2> QED
    BY <1>1, <2>2, <2>3, <2>4 DEF QInv, Fresh, MatchesUnique
<1>3. CASE Apply
  <2>1. /\ pc = "done" /\ pc' = "applied" /\ changed' = FALSE
        /\ spec' = spec /\ described' = described
    BY <1>3 DEF Apply
  <2>2. stored' \in Payloads
    BY <1>3, Applied DEF QInv
  <2>3. PICK S : Orderly(order) /\ Run(S, order, Now)
    BY <2>1 DEF QInv, OnItsWay, Building
  <2>4. /\ Now.pc = "done" /\ Now.listeners = listeners /\ Now.pools = pools
        /\ Now.certificates = certificates
    BY <2>1 DEF Now, Moment
  <2> DEFINE o == order
             m == Now
  <2>5. \E q, n : /\ Orderly(q)' /\ Run(S, q, n)' /\ n.pc = "done"
                  /\ stored' \in PayloadsOf(n.listeners, n.pools, n.certificates)'
    BY <2>1, <2>2, <2>3, <2>4, PayloadsNow, NothingChanged
  <2>6. Repeats'
    BY <2>1, <2>5 DEF Repeats, Rebuilt, Building
  <2> QED
    BY <1>1, <2>1, <2>6 DEF QInv, OnItsWay, Building, Fresh
<1>4. CASE ReconcileAgain
  <2>1. /\ pc = "applied" /\ pc' = "sort" /\ changed' = changed /\ stored' = stored
        /\ spec' = spec /\ described' = described
        /\ listeners' = [p \in Ports |-> NoListener] /\ pools' = {} /\ certificates' = {}
        /\ at' = 1 /\ next' = 1
    BY <1>4 DEF ReconcileAgain, payloadVars
  <2>2. Repeats'
    BY <2>1, NothingChanged DEF QInv, Repeats, Rebuilt, Building
  <2>3. MatchesUnique(listeners)'
    BY <2>1 DEF MatchesUnique, NoListener
  <2> QED
    BY <1>1, <2>1, <2>2, <2>3 DEF QInv, OnItsWay, Building, Fresh
<1>5. CASE DescribeCert \/ \E i \in Ingresses : EditIngress(i)
  <2>1. pc' = "applied" /\ changed' = TRUE
    BY <1>5 DEF DescribeCert, EditIngress
  <2> QED
    BY <1>1, <2>1 DEF QInv, OnItsWay, Building, Fresh, Repeats
<1>6. CASE UNCHANGED allVars
  <2>1. /\ pc' = pc /\ changed' = changed /\ stored' = stored /\ order' = order
        /\ spec' = spec /\ described' = described /\ listeners' = listeners
        /\ pools' = pools /\ certificates' = certificates /\ at' = at /\ next' = next
    BY <1>6 DEF allVars, vars, tree, payloadVars
  <2>2. Now' = Now
    BY <2>1 DEF Now, Moment
  <2>3. OnItsWay'
    BY <2>1, <2>2, NothingChanged DEF QInv, OnItsWay, Building
  <2>4. Repeats'
    BY <2>1, <2>2, NothingChanged DEF QInv, Repeats, Rebuilt, Building
  <2> QED
    BY <1>1, <2>1, <2>3, <2>4 DEF QInv, Fresh, MatchesUnique
<1> QED
  BY <1>2, <1>3, <1>4, <1>5, <1>6 DEF PayloadNext

\* What UpdateNeeded compares with itself does not need an update.
LEMMA SameNeedsNoUpdate == ASSUME NEW a PROVE ~UpdateNeeded(a, a)
  BY DEF UpdateNeeded, Differ, ListenerChanged, HostChanged, RuleChanged, PoolChanged

-------------------------------------------------------------------------------
(* Theorems *)

\* PInv holds in every state, whatever the Ingresses, the certificates that are
\* described, and the orders in which maps are iterated: BuildTree, ToCreatePayload
\* and UpdateNeeded, over any number of reconciliations.
THEOREM PInvHolds == PayloadSpec => []PInv
<1>1. PInv /\ [PayloadNext]_allVars => PInv'
  BY PInvStep
<1> QED
  BY <1>1, PInvInit, PTL DEF PayloadSpec

\* UpdateNeeded misses nothing: after a reconciliation that nothing has followed, the
\* load balancer has the routes, certificates and target pools of the tree.
THEOREM UpToDate == PayloadSpec => []StoredMatchesTree
<1>1. PInv => StoredMatchesTree
  BY DEF PInv, StoredMatchesTree, Current, Routes, TreeRoutes
<1> QED
  BY <1>1, PInvHolds, PTL

\* Only load balancers that the API accepts are sent: ToCreatePayload leaves out what
\* lacks a certificate, keeps ports apart, and names no target pool that is not there.
THEOREM AcceptableSent == PayloadSpec => []OnlyAcceptableSent
<1>1. PInv => OnlyAcceptableSent
  BY DEF PInv, OnlyAcceptableSent
<1> QED
  BY <1>1, PInvHolds, PTL

\* sortPaths: within a host no rule comes after a less specific one, though its
\* comparison function only ever looks at two of them.
THEOREM SpecificFirst == PayloadSpec => []MostSpecificFirst
<1>1. PInv => MostSpecificFirst
  BY DEF PInv, MostSpecificFirst, Specific
<1> QED
  BY <1>1, PInvHolds, PTL

\* A certificate is served on a port only if an Ingress that uses the port for HTTPS
\* brings it.
THEOREM CertificatesSeparate == PayloadSpec => []CertificatesStayOnTheirPorts
<1>1. PInv => CertificatesStayOnTheirPorts
  BY DEF PInv, CertificatesStayOnTheirPorts, Current, CertsBrought
<1> QED
  BY <1>1, PInvHolds, PTL

\* A reconciliation that finds everything as the last one left it writes nothing: the
\* Ingresses can be sorted in one way, the loops of BuildTree make one tree of them and
\* ToCreatePayload one payload, however maps are iterated; so BuildTree comes back to
\* the tree that the stored load balancer was made of, and UpdateNeeded finds no change.
THEOREM Quiet ==
    ASSUME NoOverflow
    PROVE  PayloadSpec => QuietWhenUnchanged
<1>1. QInv /\ [PayloadNext]_allVars => QInv'
  BY QInvStep
<1>2. QInv /\ [PayloadNext]_allVars =>
        [pc = "done" /\ ~changed => writes' = writes]_allVars
  <2> SUFFICES ASSUME QInv, PayloadNext, pc = "done", ~changed
               PROVE  writes' = writes
    OBVIOUS
  <2>1. CASE Apply
    <3>1. PICK a \in Payloads :
            IF stored = NoALB \/ UpdateNeeded(stored, a)
            THEN writes' = writes + 1 ELSE writes' = writes
      BY <2>1 DEF Apply
    <3>2. TreeInv /\ described \subseteq Fingerprints /\ MatchesUnique(listeners)
      BY DEF QInv, PInv
    <3>3. PICK S, o, m : Rebuilt(S, o, m)
      BY DEF QInv, Repeats
    <3>4. Now = m
      BY <3>3 DEF Rebuilt, Run, Building, Now, Moment
    <3>5. stored \in Payloads
      BY <3>3, <3>4, PayloadsNow DEF Rebuilt, Now, Moment
    <3>6. stored = a
      BY <3>2, <3>5, OnePayload
    <3>7. stored # NoALB
      BY <3>2, <3>5, PayloadAcceptable DEF Acceptable, NoALB
    <3> QED
      BY <3>1, <3>6, <3>7, SameNeedsNoUpdate
  <2>2. CASE ~Apply
    BY <2>2 DEF PayloadNext, BuildTree, ReconcileAgain, DescribeCert, EditIngress, payloadVars
  <2> QED
    BY <2>1, <2>2
<1> QED
  BY <1>1, <1>2, QInvInit, PTL DEF PayloadSpec, QuietWhenUnchanged
===============================================================================
