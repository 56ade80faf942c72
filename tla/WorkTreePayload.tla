---------------------------- MODULE WorkTreePayload ----------------------------
(* From the work tree to the load balancer: ToCreatePayload, ToUpdatePayload   *)
(* (src/pkg/controller/ingress/spec/worktree.go) and UpdateNeeded              *)
(* (src/pkg/controller/ingress/diff/diff.go), over several reconciliations     *)
(* between which the Ingresses and the certificates may change.                *)
(*                                                                             *)
(* The tree holds maps, whose iteration order is random; the payload holds     *)
(* lists, sorted so that UpdateNeeded can compare them entry by entry.         *)
EXTENDS WorkTree, SequencesExt

CONSTANTS
    CertIDs,     \* the certificate ID of each fingerprint
    PathLen,     \* the length of each path
    DummyPort,   \* the port of the dummy listener (80)
    MaxEdits     \* bound: changes between reconciliations

ASSUME CertIDsTyped == IsFiniteSet(Fingerprints) /\ CertIDs \in [Fingerprints -> Nat]
ASSUME PathLenTyped ==
    \A s \in Specs : \A k \in DOMAIN s.paths : PathLen[s.paths[k].path] \in Nat

VARIABLES
    described,   \* the fingerprints in certificateIDMap
    stored,      \* the load balancer in the API
    writes,      \* creations and updates so far
    changed,     \* has anything changed since the last reconciliation?
    edits

payloadVars == <<described, stored, writes, changed, edits>>
allVars == <<vars, payloadVars>>

NoALB == [listeners |-> <<>>, pools |-> <<>>]

PayloadInit ==
    /\ Init
    /\ described \in SUBSET Fingerprints
    /\ stored = NoALB /\ writes = 0 /\ changed = TRUE /\ edits = 0

-------------------------------------------------------------------------------
(* ToCreatePayload *)

\* What sorting the elements of S, met in any order, may return.
Arranged(S, Compared(_, _)) ==
    {s \in SetToSeqs(S) : \A n \in 1 .. Len(s) - 1 : Compared(s[n], s[n + 1]) <= 0}

CompareNumbers(m, n) == m - n

pathTypeRank == [Exact |-> 1, ImplementationSpecific |-> 2, Prefix |-> 3]

\* Mutant of ComparePaths: the shortest path comes first.
ComparePathsShortFirst(a, b) ==
    LET rank   == pathTypeRank[a.type] - pathTypeRank[b.type]
        length == PathLen[a.path] - PathLen[b.path]
    IN IF rank # 0 THEN rank ELSE IF length # 0 THEN length ELSE a.path - b.path

\* sortPaths: by type, then longest first, then by text.
ComparePaths(a, b) ==
    LET rank   == pathTypeRank[a.type] - pathTypeRank[b.type]
        length == PathLen[b.path] - PathLen[a.path]
    IN IF rank # 0 THEN rank ELSE IF length # 0 THEN length ELSE a.path - b.path

\* Mutant of ComparePools: the pools of one Ingress are left in map order.
ComparePoolsByIngress(p, q) == Rank[p.ref[1]] - Rank[q.ref[1]]

\* sortTargetPools: the names, made from UID and indices, are unique.
ComparePools(p, q) ==
    LET i == Rank[p.ref[1]] - Rank[q.ref[1]]
    IN IF i # 0 THEN i ELSE p.ref[2] - q.ref[2]

\* ImplementationSpecific is sent as an exact match.
Matcher(r) == [exact |-> r.type # "Prefix", path |-> r.path, pool |-> r.ref]

RuleLists(port, host) ==
    {[n \in DOMAIN s |-> Matcher(s[n])] :
        s \in Arranged({r \in listeners[port].rules : r.host = host}, ComparePaths)}

HostLists(port) ==
    LET hosts == {r.host : r \in listeners[port].rules}
        Rules == [h \in hosts |-> RuleLists(port, h)]
        Picks == {f \in [hosts -> UNION {Rules[h] : h \in hosts}] :
                    \A h \in hosts : f[h] \in Rules[h]}
    IN {[n \in DOMAIN s |-> [host |-> s[n], rules |-> f[s[n]]]] :
           s \in Arranged(hosts, CompareNumbers), f \in Picks}

\* The certificates of the port; those not in certificateIDMap are left out.
PortCerts(port) ==
    IF listeners[port].protocol = "HTTP" THEN {}
    ELSE {CertIDs[f] : f \in {g \in described : <<g, port>> \in certificates}}

\* Mutant of SentPorts: an HTTPS listener needs no certificate.
AllPorts == {port \in Ports : listeners[port].protocol # "none"}

\* An HTTPS listener without certificates is dropped.
SentPorts == {port \in Ports : \/ listeners[port].protocol = "HTTP"
                               \/ listeners[port].protocol = "HTTPS" /\ PortCerts(port) # {}}

Dummy == [name |-> "dummy", port |-> DummyPort, protocol |-> "HTTP", hosts |-> <<>>,
          certs |-> <<>>]

PortListeners(port) ==
    [name : {"port"}, port : {port}, protocol : {listeners[port].protocol},
     hosts : HostLists(port), certs : Arranged(PortCerts(port), CompareNumbers)]

ComparePorts(l, m) == l.port - m.port

ListenerLists ==
    IF SentPorts = {} THEN {<<Dummy>>}
    ELSE UNION {Arranged({f[port] : port \in SentPorts}, ComparePorts) :
                  f \in {g \in [SentPorts -> UNION {PortListeners(p) : p \in SentPorts}] :
                           \A p \in SentPorts : g[p] \in PortListeners(p)}}

\* ToUpdatePayload sends the same lists.
Payloads == [listeners : ListenerLists, pools : Arranged(pools, ComparePools)]

-------------------------------------------------------------------------------
(* UpdateNeeded *)

Differ(c, d, EntryChanged(_, _)) ==
    \/ Len(c) # Len(d)
    \/ \E n \in DOMAIN c : EntryChanged(c[n], d[n])

\* Mutant of RuleChanged: the target pool of a rule is not compared.
PathChanged(c, d) == c.path # d.path \/ c.exact # d.exact

RuleChanged(c, d) == c.path # d.path \/ c.exact # d.exact \/ c.pool # d.pool
HostChanged(c, d) == c.host # d.host \/ Differ(c.rules, d.rules, RuleChanged)
ListenerChanged(c, d) ==
    \/ c.name # d.name \/ c.protocol # d.protocol \/ c.port # d.port
    \/ Differ(c.hosts, d.hosts, HostChanged)
    \/ c.certs # d.certs
PoolChanged(c, d) == c.ref # d.ref \/ c.port # d.port

UpdateNeeded(current, desired) ==
    \/ Differ(current.listeners, desired.listeners, ListenerChanged)
    \/ Differ(current.pools, desired.pools, PoolChanged)

-------------------------------------------------------------------------------
(* Reconciliations *)

BuildTree == Next /\ UNCHANGED payloadVars

\* The load balancer is created, or updated if needed.
Apply ==
    /\ pc = "done"
    /\ \E payload \in Payloads :
         IF stored = NoALB \/ UpdateNeeded(stored, payload)
         THEN stored' = payload /\ writes' = writes + 1
         ELSE UNCHANGED <<stored, writes>>
    /\ pc' = "applied" /\ changed' = FALSE
    /\ UNCHANGED <<spec, order, tree, at, next, described, edits>>

\* The next reconciliation starts from an empty tree.
ReconcileAgain ==
    /\ pc = "applied"
    /\ pc' = "sort" /\ order' = <<>> /\ at' = 1 /\ next' = 1
    /\ listeners' = [p \in Ports |-> NoListener]
    /\ pools' = {} /\ certificates' = {} /\ errors' = {}
    /\ UNCHANGED <<spec, payloadVars>>

EditIngress(i) ==
    /\ pc = "applied" /\ edits < MaxEdits
    /\ \E s \in Specs \ {spec[i]} : spec' = [spec EXCEPT ![i] = s]
    /\ changed' = TRUE /\ edits' = edits + 1
    /\ UNCHANGED <<order, tree, at, next, pc, described, stored, writes>>

\* The certificate API returns the fingerprint of a certificate at last.
DescribeCert ==
    /\ pc = "applied" /\ edits < MaxEdits
    /\ \E f \in Fingerprints \ described : described' = described \union {f}
    /\ changed' = TRUE /\ edits' = edits + 1
    /\ UNCHANGED <<spec, order, tree, at, next, pc, stored, writes>>

PayloadNext == \/ BuildTree \/ Apply \/ ReconcileAgain \/ DescribeCert
               \/ \E i \in Ingresses : EditIngress(i)

PayloadSpec == PayloadInit /\ [][PayloadNext]_allVars

-------------------------------------------------------------------------------
(* Properties *)

Entries(s) == {s[n] : n \in DOMAIN s}

\* A reconciliation that finds everything as the last one left it writes nothing,
\* in whatever order lists and maps are iterated: the sorting makes the payload
\* comparable, and the reconciler does not update the load balancer for ever.
QuietWhenUnchanged ==
    [][pc = "done" /\ ~changed => writes' = writes]_allVars

\* UpdateNeeded misses nothing: after a reconciliation the load balancer routes
\* each path of the tree that has a listener to its own pool and node port, with
\* the certificates of the port, and nothing else.
StoredMatchesTree ==
    pc = "applied" /\ ~changed =>
        /\ UNION {{[port |-> l.port, host |-> h.host, rules |-> Entries(h.rules)] :
                     h \in Entries(l.hosts)} : l \in Entries(stored.listeners)}
           = UNION {{[port |-> p, host |-> r.host,
                      rules |-> {Matcher(q) : q \in {q \in listeners[p].rules :
                                                       q.host = r.host}}] :
                       r \in listeners[p].rules} : p \in SentPorts}
        /\ \A l \in Entries(stored.listeners) :
             l.name = "port" => Entries(l.certs) = PortCerts(l.port)
        /\ Entries(stored.pools) = pools

\* What the API demands of a load balancer: a listener, one for each port, a
\* certificate on every HTTPS listener, and a target pool for every rule.
Acceptable(a) ==
    LET L == a.listeners
    IN /\ L # <<>>
       /\ \A m, n \in DOMAIN L : m < n => L[m].port < L[n].port
       /\ \A l \in Entries(L) :
            /\ l.protocol = "HTTPS" => l.certs # <<>>
            /\ \A h \in Entries(l.hosts) : \A r \in Entries(h.rules) :
                 r.pool \in {p.ref : p \in Entries(a.pools)}

OnlyAcceptableSent == stored # NoALB => Acceptable(stored)

\* A certificate is served on a port only if an Ingress that uses this port for
\* HTTPS brings it: SNI does not mix the certificates of separate ports.
CertificatesStayOnTheirPorts ==
    pc = "applied" /\ ~changed =>
        \A l \in Entries(stored.listeners) : \A id \in Entries(l.certs) :
            \E i \in Ingresses : \E f \in Valid(spec[i]) :
                ~Rejected(spec[i]) /\ spec[i].https = l.port /\ CertIDs[f] = id

\* Within a host no rule comes after one that is less specific: exact matches come
\* before prefixes, and longer prefixes before shorter ones.
MostSpecificFirst ==
    \A l \in Entries(stored.listeners) : \A h \in Entries(l.hosts) :
        \A m, n \in DOMAIN h.rules :
            m < n => LET a == h.rules[m]
                         b == h.rules[n]
                     IN /\ b.exact => a.exact
                        /\ ~a.exact /\ ~b.exact => PathLen[a.path] >= PathLen[b.path]
===============================================================================
