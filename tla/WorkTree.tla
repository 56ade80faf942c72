------------------------------- MODULE WorkTree -------------------------------
(* BuildTree (src/pkg/controller/ingress/spec/worktree.go): the Ingresses of a *)
(* class are merged, one path after the other, into the listeners, target      *)
(* pools and certificates of one load balancer.                                *)
(*                                                                             *)
(* The paths of all rules of an Ingress are one sequence, so a pair <<i, k>>   *)
(* stands for an ingressPathReference.  A class that BuildTree rejects as a    *)
(* whole is in Reconciler; here its annotations are good.                      *)
EXTENDS Integers, Sequences, FiniteSets

CONSTANTS
    Ingresses,         \* the Ingresses of the class
    Rank,              \* the order of their names "namespace/name"
    Specs,             \* what an Ingress may say
    Services,          \* the services of the cluster, by name
    Fingerprints,      \* fingerprints of the valid TLS secrets
    BadSecret,         \* a TLS secret that is missing, mistyped or malformed
    MaxPort,           \* math.MaxUint16
    MaxInt,            \* the largest int
    LimitTargetPools   \* target pools of a load balancer

VARIABLES
    spec,          \* what each Ingress says
    order,         \* ingresses, once sorted
    listeners,     \* tree.listeners
    pools,         \* tree.targetPools
    certificates,  \* tree.certificates: which fingerprint is for which port
    errors,        \* the error events
    at,            \* the Ingress of the loop, an index of order
    next,          \* the path of the loop, an index of its paths
    pc

tree == <<listeners, pools, certificates, errors>>
vars == <<spec, order, tree, at, next, pc>>

-------------------------------------------------------------------------------
(* Data *)

PathTypes == {"Exact", "ImplementationSpecific", "Prefix"}

\* Hosts and paths are numbered in lexicographical order.  A backend names a
\* service and one of its ports, by number or (number 0) by name.
Path == [host : Nat, path : Nat, type : PathTypes,
         service : STRING, number : Nat, name : STRING]

\* ok: every annotation parses; created: the creation time; tls: the secrets.
IngressSpec == [ok : BOOLEAN, prio : Int, created : Nat, httpsOnly : BOOLEAN,
                http : Int, https : Int, tls : SUBSET (Fingerprints \union {BadSecret}),
                paths : Seq(Path)]

\* ok: the target pool annotations parse; local: externalTrafficPolicy=Local.
Service == [type : {"ClusterIP", "NodePort", "LoadBalancer"}, ok : BOOLEAN, local : BOOLEAN,
            ports : Seq([number : Nat, name : STRING, nodePort : Nat])]

ASSUME IngressesFinite == IsFiniteSet(Ingresses)
ASSUME RankOrdersNames == /\ Rank \in [Ingresses -> Nat]
                          /\ \A i, j \in Ingresses : Rank[i] = Rank[j] => i = j
ASSUME SpecsTyped == Specs \subseteq IngressSpec
ASSUME ServicesTyped == \A s \in DOMAIN Services : Services[s] \in Service
ASSUME LimitsAreNaturals == MaxPort \in Nat /\ MaxInt \in Nat /\ LimitTargetPools \in Nat
ASSUME BadSecretAssumption == BadSecret \notin Fingerprints

Ports == 1 .. MaxPort
Refs  == Ingresses \X (Nat \ {0})

\* A listener with protocol "none" does not exist; rule.ref names the target pool.
Rule == [host : Nat, path : Nat, type : PathTypes, ref : Refs]
Listener == [protocol : {"none", "HTTP", "HTTPS"}, rules : SUBSET Rule]
NoListener == [protocol |-> "none", rules |-> {}]

\* The path index is 0 if the event is about the whole Ingress.
Reasons == {"ingress", "tls", "limit", "noNodePort", "backend", "protocol", "exists"}
ErrorEvent == [ing : Ingresses, path : Nat, why : Reasons]
Event(i, k, why) == [ing |-> i, path |-> k, why |-> why]

Init ==
    /\ spec \in [Ingresses -> Specs]
    /\ order = <<>> /\ at = 1 /\ next = 1 /\ pc = "sort"
    /\ listeners = [p \in Ports |-> NoListener]
    /\ pools = {} /\ certificates = {} /\ errors = {}

-------------------------------------------------------------------------------
(* The order of the Ingresses *)

\* Two's complement: the difference of two ints wraps around.
Wrap(x) == ((x + MaxInt + 1) % (2 * (MaxInt + 1))) - (MaxInt + 1)

\* Mutant of Compare: the age of the Ingresses is not looked at.
CompareNoAge(i, j) ==
    LET diff == Wrap(spec[j].prio - spec[i].prio)
    IN IF diff # 0 THEN diff ELSE Rank[i] - Rank[j]

\* The comparison function: negative if i comes before j.
Compare(i, j) ==
    LET diff == Wrap(spec[j].prio - spec[i].prio)
        age  == spec[i].created - spec[j].created
    IN IF diff # 0 THEN diff ELSE IF age # 0 THEN age ELSE Rank[i] - Rank[j]

\* slices.SortFunc puts no element after one that it has to precede.
Orders == {o \in [1 .. Cardinality(Ingresses) -> Ingresses] :
             \A m, n \in DOMAIN o : o[m] = o[n] => m = n}

Sort ==
    /\ pc = "sort"
    /\ \E o \in Orders :
         /\ \A m \in 1 .. Cardinality(Ingresses) - 1 : Compare(o[m], o[m + 1]) <= 0
         /\ order' = o
    /\ pc' = "ingress"
    /\ UNCHANGED <<spec, tree, at, next>>

-------------------------------------------------------------------------------
(* The loop over the Ingresses *)

InRange(port) == port \in Ports

\* The Ingress is skipped: an annotation does not parse, a port that it needs is
\* out of range, or it is HTTPS-only without TLS.
Rejected(s) ==
    \/ ~s.ok
    \/ ~s.httpsOnly /\ ~InRange(s.http)
    \/ s.tls # {} /\ ~InRange(s.https)
    \/ s.tls = {} /\ s.httpsOnly

SkipIngress ==
    /\ pc = "ingress" /\ at <= Len(order) /\ Rejected(spec[order[at]])
    /\ errors' = errors \union {Event(order[at], 0, "ingress")}
    /\ at' = at + 1
    /\ UNCHANGED <<spec, order, listeners, pools, certificates, next, pc>>

\* What the TLS entries of an Ingress come to: a certificate for its HTTPS port, or
\* an event.
Valid(s)   == s.tls \ {BadSecret}
TLSEvents(i) == {Event(i, 0, "tls") : b \in spec[i].tls \intersect {BadSecret}}

\* Mutants of AdmitIngress: a certificate is for every port; a bad one is kept.
AdmitIngressAllPorts ==
    /\ pc = "ingress" /\ at <= Len(order) /\ ~Rejected(spec[order[at]])
    /\ certificates' = certificates \union (Valid(spec[order[at]]) \X Ports)
    /\ errors' = errors \union TLSEvents(order[at])
    /\ next' = 1 /\ pc' = "paths"
    /\ UNCHANGED <<spec, order, listeners, pools, at>>

AdmitIngressUnchecked ==
    /\ pc = "ingress" /\ at <= Len(order) /\ ~Rejected(spec[order[at]])
    /\ certificates' = certificates \union (spec[order[at]].tls \X {spec[order[at]].https})
    /\ errors' = errors \union TLSEvents(order[at])
    /\ next' = 1 /\ pc' = "paths"
    /\ UNCHANGED <<spec, order, listeners, pools, at>>

AdmitIngress ==
    /\ pc = "ingress" /\ at <= Len(order) /\ ~Rejected(spec[order[at]])
    /\ certificates' = certificates \union
                         (Valid(spec[order[at]]) \X {spec[order[at]].https})
    /\ errors' = errors \union TLSEvents(order[at])
    /\ next' = 1 /\ pc' = "paths"
    /\ UNCHANGED <<spec, order, listeners, pools, at>>

Finish ==
    /\ pc = "ingress" /\ at > Len(order)
    /\ pc' = "done"
    /\ UNCHANGED <<spec, order, tree, at, next>>

-------------------------------------------------------------------------------
(* buildTargetPool *)

\* The ports of a service that a backend can mean.
Matching(p) ==
    LET ports == Services[p.service].ports
    IN {j \in DOMAIN ports :
          \/ ports[j].number = p.number
          \/ ports[j].name # "" /\ ports[j].name = p.name}

\* The last one that has a node port is taken, 0 if there is none.
NodePort(p) ==
    LET ports == Services[p.service].ports
        M == {j \in Matching(p) : ports[j].nodePort # 0}
    IN IF M = {} THEN 0
       ELSE ports[CHOOSE j \in M : \A k \in M : k <= j].nodePort

\* Usable services; other backends are not in the domain of Services.
Exposed(p) == /\ p.service \in DOMAIN Services
              /\ Services[p.service].type \in {"NodePort", "LoadBalancer"}
ValidBackend(p) == /\ Exposed(p) /\ NodePort(p) # 0
                   /\ Services[p.service].ok /\ ~Services[p.service].local

\* A port that is meant but has no node port is reported, and passed over.
NodePortEvents(i, k, p) ==
    IF Exposed(p) /\ \E j \in Matching(p) : Services[p.service].ports[j].nodePort = 0
    THEN {Event(i, k, "noNodePort")} ELSE {}

\* Mutant of LimitReached: the pool that fills the limit up is counted too late.
LimitPassed == Cardinality(pools) > LimitTargetPools

LimitReached == Cardinality(pools) >= LimitTargetPools

\* Why a path gets no pool: the limit is looked at before the backend.
DropEvents(i, k, p) ==
    IF LimitReached THEN {Event(i, k, "limit")}
    ELSE {Event(i, k, "backend")} \union NodePortEvents(i, k, p)

\* Mutant of DropPath: a path beyond the limit is not reported.
DropPathSilently ==
    /\ pc = "paths" /\ next <= Len(spec[order[at]].paths)
    /\ LET p == spec[order[at]].paths[next]
       IN /\ LimitReached \/ ~ValidBackend(p)
          /\ errors' = errors \union
               (IF LimitReached THEN {} ELSE DropEvents(order[at], next, p))
    /\ next' = next + 1
    /\ UNCHANGED <<spec, order, listeners, pools, certificates, at, pc>>

\* No pool, no rules.
DropPath ==
    /\ pc = "paths" /\ next <= Len(spec[order[at]].paths)
    /\ LET p == spec[order[at]].paths[next]
       IN /\ LimitReached \/ ~ValidBackend(p)
          /\ errors' = errors \union DropEvents(order[at], next, p)
    /\ next' = next + 1
    /\ UNCHANGED <<spec, order, listeners, pools, certificates, at, pc>>

-------------------------------------------------------------------------------
(* addPath *)

SameMatch(r, s) == r.host = s.host /\ r.path = s.path /\ r.type = s.type

\* Mutant of Conflicts: the protocol of the listener is not looked at.
PathConflicts(l, rule, protocol) ==
    IF protocol # "none" /\ \E r \in l.rules : SameMatch(r, rule) THEN {"exists"} ELSE {}

\* Why a listener cannot take a rule: it has the other protocol, or the path is taken.
Conflicts(l, rule, protocol) ==
    IF l.protocol \notin {"none", protocol} THEN {"protocol"}
    ELSE IF \E r \in l.rules : SameMatch(r, rule) THEN {"exists"}
    ELSE {}

\* The listener with the rule; it is created with the protocol if it is not there.
With(l, rule, protocol) ==
    [protocol |-> IF l.protocol = "none" THEN protocol ELSE l.protocol,
     rules    |-> l.rules \union {rule}]

\* Mutant of Added: the last Ingress that asks for a path gets it.
AddedLastWins(L, rule, port, protocol) ==
    IF L[port].protocol \notin {"none", protocol} THEN L
    ELSE [L EXCEPT ![port] = With([@ EXCEPT !.rules = {r \in @ : ~SameMatch(r, rule)}],
                                  rule, protocol)]

\* The listeners after addPath.
Added(L, rule, port, protocol) ==
    IF Conflicts(L[port], rule, protocol) # {} THEN L
    ELSE [L EXCEPT ![port] = With(@, rule, protocol)]

\* The rule is added for HTTP, unless the Ingress is HTTPS-only, then for HTTPS if
\* it has TLS.  The pool is kept if one of them was accepted.
AddPath ==
    /\ pc = "paths" /\ next <= Len(spec[order[at]].paths)
    /\ LET i == order[at]
           s == spec[i]
           p == s.paths[next]
           rule == [host |-> p.host, path |-> p.path, type |-> p.type, ref |-> <<i, next>>]
           plain  == IF s.httpsOnly THEN listeners ELSE Added(listeners, rule, s.http, "HTTP")
           secure == IF s.tls = {} THEN plain ELSE Added(plain, rule, s.https, "HTTPS")
           conflicts ==
             (IF s.httpsOnly THEN {} ELSE Conflicts(listeners[s.http], rule, "HTTP")) \union
             (IF s.tls = {} THEN {} ELSE Conflicts(plain[s.https], rule, "HTTPS"))
       IN /\ ~LimitReached /\ ValidBackend(p)
          /\ listeners' = secure
          /\ pools' = IF secure = listeners THEN pools
                      ELSE pools \union {[ref |-> <<i, next>>, port |-> NodePort(p)]}
          /\ errors' = errors \union {Event(i, next, why) : why \in conflicts}
                              \union NodePortEvents(i, next, p)
    /\ next' = next + 1
    /\ UNCHANGED <<spec, order, certificates, at, pc>>

NextIngress ==
    /\ pc = "paths" /\ next > Len(spec[order[at]].paths)
    /\ at' = at + 1 /\ pc' = "ingress"
    /\ UNCHANGED <<spec, order, tree, next>>

-------------------------------------------------------------------------------
(* Specification *)

Next == \/ Sort \/ SkipIngress \/ AdmitIngress \/ DropPath \/ AddPath
        \/ NextIngress \/ Finish

Spec == Init /\ [][Next]_vars

-------------------------------------------------------------------------------
(* Properties *)

\* Every variable has its type.
TypeOK ==
    /\ spec \in [Ingresses -> Specs]
    /\ order \in Orders \union {<<>>} /\ at \in Nat \ {0} /\ next \in Nat \ {0}
    /\ listeners \in [Ports -> Listener]
    /\ \A p \in pools : p.ref \in Refs /\ p.port \in Nat
    /\ certificates \subseteq Fingerprints \X Ports
    /\ errors \subseteq ErrorEvent
    /\ pc \in {"sort", "ingress", "paths", "done"}

\* The Ingresses are admitted by priority, highest first, then by age and by name.
OrderedByPrecedence ==
    \A m, n \in DOMAIN order :
        LET a == spec[order[m]]
            b == spec[order[n]]
        IN m < n => \/ a.prio > b.prio
                    \/ a.prio = b.prio /\ a.created < b.created
                    \/ /\ a.prio = b.prio /\ a.created = b.created
                       /\ Rank[order[m]] < Rank[order[n]]

\* Paths in the order in which they are admitted: by Ingress, then top to bottom.
Position(i) == CHOOSE n \in DOMAIN order : order[n] = i
Before(r, s) == \/ Position(r[1]) < Position(s[1])
                \/ r[1] = s[1] /\ r[2] < s[2]

Processed(r) == /\ order # <<>>
                /\ \/ Position(r[1]) < at
                   \/ pc = "paths" /\ Position(r[1]) = at /\ r[2] < next

PathRefs == UNION {{i} \X DOMAIN spec[i].paths : i \in Ingresses}
PathAt(r) == spec[r[1]].paths[r[2]]

\* The path asks for a rule on this port with this protocol.
Claims(r, port, protocol) ==
    LET s == spec[r[1]]
    IN /\ ~Rejected(s) /\ ValidBackend(PathAt(r))
       /\ \/ protocol = "HTTP" /\ ~s.httpsOnly /\ s.http = port
          \/ protocol = "HTTPS" /\ s.tls # {} /\ s.https = port

Routed(r, port, protocol) ==
    /\ listeners[port].protocol = protocol
    /\ \E rule \in listeners[port].rules : rule.ref = r /\ SameMatch(rule, PathAt(r))

\* A path that is not routed on a port it asked for lost to a path of higher
\* precedence: one that has the same match or gave the port the other protocol, or
\* those that had used up the target pools.
LostOnlyToPrecedence ==
    \A r \in PathRefs, port \in Ports, protocol \in {"HTTP", "HTTPS"} :
        Processed(r) /\ Claims(r, port, protocol) /\ ~Routed(r, port, protocol) =>
            \/ \E rule \in listeners[port].rules :
                 /\ rule.ref = r \/ Before(rule.ref, r)
                 /\ listeners[port].protocol # protocol \/ SameMatch(rule, PathAt(r))
            \/ /\ Cardinality(pools) = LimitTargetPools
               /\ \A p \in pools : Before(p.ref, r)

\* A path that asked for a rule and got none, or was not served at all, is reported
\* to the user, on its Ingress.
LossesReported ==
    \A r \in PathRefs :
        Processed(r) =>
            \/ \E e \in errors : e.ing = r[1] /\ e.path \in {0, r[2]}
            \/ /\ \E port \in Ports, protocol \in {"HTTP", "HTTPS"} : Routed(r, port, protocol)
               /\ \A port \in Ports, protocol \in {"HTTP", "HTTPS"} :
                    Claims(r, port, protocol) => Routed(r, port, protocol)

\* Rules and target pools belong together: no rule without its pool, no pool without
\* a rule, one pool for each path, and never more than the API accepts.
RulesMatchPools ==
    /\ {p.ref : p \in pools} = UNION {{r.ref : r \in listeners[port].rules} : port \in Ports}
    /\ \A p, q \in pools : p.ref = q.ref => p = q
    /\ Cardinality(pools) <= LimitTargetPools

\* An HTTPS-only Ingress is never reachable over HTTP, whatever ports it and the
\* Ingresses before it use.
HTTPSOnlyHidden ==
    \A port \in Ports :
        listeners[port].protocol = "HTTP" =>
            \A r \in listeners[port].rules : ~spec[r.ref[1]].httpsOnly
===============================================================================
