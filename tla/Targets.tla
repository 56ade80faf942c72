-------------------------------- MODULE Targets --------------------------------
(* The nodes that a load balancer sends its traffic to: getTargetsOfNodes      *)
(* (src/pkg/controller/ingress/spec/worktree.go) and the events on nodes that  *)
(* bring a reconciliation (nodePredicate and nodeEventHandler in setup.go).    *)
(*                                                                             *)
(* One class and one target pool: all pools get the same targets.  A           *)
(* reconciliation reads the nodes in one step and writes the load balancer in  *)
(* another; its other calls are in Reconciler.                                 *)
EXTENDS Naturals, Sequences, FiniteSets, SequencesExt, FiniteSetsExt

CONSTANTS
    Nodes,         \* the names of the nodes
    AddressLists,  \* the addresses that each node may have
    Limit,         \* LimitTargetsPerPool
    MaxTime,       \* bound: seconds in which nodes are created
    MaxChanges     \* bound: changes to nodes, and crashes

\* Addresses are numbered in lexicographical order.
Address == [type : {"InternalIP", "ExternalIP"}, ip : Nat]

ASSUME NodesFinite == IsFiniteSet(Nodes)
ASSUME AddressesTyped == AddressLists \in [Nodes -> SUBSET Seq(Address)]
ASSUME LimitAssumption == Limit \in Nat \ {0}
ASSUME BoundsAreNaturals == MaxTime \in Nat /\ MaxChanges \in Nat

VARIABLES
    node,     \* the Node objects
    class,    \* the IngressClass exists
    cNode, cClass,   \* the informer caches
    now,      \* the time, in seconds: the granularity of creation timestamps
    queued,   \* the class is in the workqueue
    pc, rNodes,      \* the reconciliation, and the nodes it has read
    targets,  \* the targets of the load balancer, NoALB before there is one
    seen,     \* history: the nodes behind the last write
    blind,    \* history: a node was replaced while the watch was down
    changes

vars == <<node, class, cNode, cClass, now, queued, pc, rNodes, targets,
          seen, blind, changes>>

-------------------------------------------------------------------------------
(* Nodes *)

\* taint: ToBeDeletedByClusterAutoscaler is there; cond: the Terminating condition.
Conditions == {"absent", "False", "True"}
NewNode(t, a) == [born |-> t, addrs |-> a, taint |-> FALSE, cond |-> "absent"]
NoNode == NewNode(0, <<>>)
NewNodes(t) == {NewNode(t, a) : a \in UNION Range(AddressLists)}
NoNodes == [n \in Nodes |-> NoNode]
Exists(n) == n.born # 0

NoALB == <<[name |-> "", ip |-> 0]>>

\* The controller starts in a cluster with any nodes.
Init ==
    /\ now \in 0 .. MaxTime
    /\ node \in [Nodes -> {NoNode} \union UNION {NewNodes(t) : t \in 1 .. now}]
    /\ \A n \in Nodes : Exists(node[n]) => node[n].addrs \in AddressLists[n]
    /\ cNode = node
    /\ class = FALSE /\ cClass = FALSE /\ queued = FALSE
    /\ pc = "idle" /\ rNodes = NoNodes
    /\ targets = NoALB /\ seen = NoNodes /\ blind = FALSE
    /\ changes = 0

Change == changes < MaxChanges /\ changes' = changes + 1

\* Two nodes may be born in the same second.
CreateNode(n) ==
    /\ Change /\ ~Exists(node[n])
    /\ now' \in now .. MaxTime + 1
    /\ now' > 0
    /\ \E a \in AddressLists[n] :
         node' = [node EXCEPT ![n] = NewNode(now', a)]
    /\ UNCHANGED <<class, cNode, cClass, queued, pc, rNodes, targets, seen, blind>>

EditNode(n) ==
    /\ Change /\ Exists(node[n])
    /\ \/ \E a \in AddressLists[n] \ {node[n].addrs} : node' = [node EXCEPT ![n].addrs = a]
       \/ node' = [node EXCEPT ![n].taint = ~@]
       \/ \E c \in Conditions \ {node[n].cond} : node' = [node EXCEPT ![n].cond = c]
    /\ UNCHANGED <<class, cNode, cClass, now, queued, pc, rNodes, targets, seen, blind>>

DeleteNode(n) ==
    /\ Change /\ Exists(node[n])
    /\ node' = [node EXCEPT ![n] = NoNode]
    /\ UNCHANGED <<class, cNode, cClass, now, queued, pc, rNodes, targets, seen, blind>>

CreateClass ==
    /\ ~class /\ class' = TRUE
    /\ UNCHANGED <<node, cNode, cClass, now, queued, pc, rNodes, targets, seen, blind, changes>>

-------------------------------------------------------------------------------
(* Events *)

\* Mutant of NodeChanged: the Terminating condition is not looked at.
NodeChangedTaint(old, new) == old.addrs # new.addrs \/ old.taint # new.taint

\* nodePredicate, for the update of a node.
NodeChanged(old, new) ==
    old.addrs # new.addrs \/ old.taint # new.taint \/ old.cond # new.cond

\* Creations and deletions pass the predicate.
Passes(old, new) == Exists(old) /\ Exists(new) => NodeChanged(old, new)

\* The cache catches up with a node.  A node that was deleted and created again is
\* two events, or a single update if the informer had to list again.
SyncNode(n) ==
    /\ cNode[n] # node[n]
    /\ cNode' = [cNode EXCEPT ![n] = node[n]]
    /\ LET replaced == /\ Exists(cNode[n]) /\ Exists(node[n])
                       /\ cNode[n].born # node[n].born
       IN \E update \in IF replaced THEN BOOLEAN ELSE {TRUE} :
            /\ queued' = (queued \/ (cClass /\ (~update \/ Passes(cNode[n], node[n]))))
            /\ blind' = (blind \/ (replaced /\ update))
    /\ UNCHANGED <<node, class, cClass, now, pc, rNodes, targets, seen, changes>>

SyncClass ==
    /\ cClass # class
    /\ cClass' = class /\ queued' = TRUE
    /\ UNCHANGED <<node, class, cNode, now, pc, rNodes, targets, seen, blind, changes>>

\* The periodic resync of the class informer delivers the class again.
Resync ==
    /\ cClass /\ ~queued /\ queued' = TRUE
    /\ UNCHANGED <<node, class, cNode, cClass, now, pc, rNodes, targets, seen, blind, changes>>

-------------------------------------------------------------------------------
(* getTargetsOfNodes *)

Terminating(n) == n.taint \/ n.cond = "True"
Internal(n) == {k \in DOMAIN n.addrs : n.addrs[k].type = "InternalIP"}
\* The first internal address.
Target(name, n) == [name |-> name, ip |-> n.addrs[Min(Internal(n))].ip]

\* The cache lists the nodes in any order, and the sort is not stable: any sequence
\* of the nodes in which no node is followed by a younger one.
NewestFirst(N) ==
    {s \in SetToSeqs({n \in DOMAIN N : Exists(N[n])}) :
        \A k \in 1 .. Len(s) - 1 : N[s[k]].born >= N[s[k + 1]].born}

\* The first Limit nodes of a list that qualify.
Taken(N, s) ==
    LET fit == {k \in DOMAIN s : ~Terminating(N[s[k]]) /\ Internal(N[s[k]]) # {}}
    IN {s[k] : k \in {f \in fit : Cardinality({j \in fit : j < f}) < Limit}}

\* Mutant of Chosen: the targets keep the order of the nodes, the youngest first.
ChosenUnsorted(N, s) ==
    {t \in SetToSeqs({Target(n, N[n]) : n \in Taken(N, s)}) :
        \A k \in 1 .. Len(t) - 1 : N[t[k].name].born >= N[t[k + 1].name].born}

\* The targets are sorted by their addresses.
Chosen(N, s) ==
    {t \in SetToSeqs({Target(n, N[n]) : n \in Taken(N, s)}) :
        \A k \in 1 .. Len(t) - 1 : t[k].ip <= t[k + 1].ip}

-------------------------------------------------------------------------------
(* Reconciliation *)

Begin ==
    /\ pc = "idle" /\ queued /\ cClass
    /\ queued' = FALSE /\ pc' = "apply"
    /\ rNodes' = cNode
    /\ blind' = FALSE
    /\ UNCHANGED <<node, class, cNode, cClass, now, targets, seen, changes>>

\* Mutant of TargetsChanged: as many targets as before count as the same.
FewerOrMore(c, d) == Len(c) # Len(d)

TargetsChanged(c, d) == c # d

Finish ==
    /\ pc' = "idle" /\ rNodes' = NoNodes
    /\ UNCHANGED <<node, class, cNode, cClass, now, blind>>

\* Create, update or leave the load balancer.
Apply ==
    /\ pc = "apply" /\ Finish
    /\ \E s \in NewestFirst(rNodes) : \E new \in Chosen(rNodes, s) :
         IF targets = NoALB \/ TargetsChanged(targets, new)
         THEN targets' = new /\ seen' = rNodes
         ELSE UNCHANGED <<targets, seen>>
    /\ UNCHANGED <<queued, changes>>

\* The call fails, and the class is put back into the queue.
ApplyFails ==
    /\ pc = "apply" /\ Finish /\ Change
    /\ queued' = TRUE
    /\ UNCHANGED <<targets, seen>>

Next ==
    \/ \E n \in Nodes : CreateNode(n) \/ EditNode(n) \/ DeleteNode(n) \/ SyncNode(n)
    \/ CreateClass \/ SyncClass \/ Resync \/ Begin \/ Apply \/ ApplyFails

\* Informers deliver and resync, the worker works; nodes and users owe nothing.
Spec == /\ Init /\ [][Next]_vars
        /\ WF_vars(SyncClass) /\ WF_vars(Resync) /\ WF_vars(Begin \/ Apply)
        /\ \A n \in Nodes : WF_vars(SyncNode(n))

-------------------------------------------------------------------------------
(* Properties *)

Qualified(N) == {n \in DOMAIN N : Exists(N[n]) /\ ~Terminating(N[n]) /\ Internal(N[n]) # {}}

\* The sets of the youngest Limit nodes among those that qualify.
Youngest(N) ==
    {T \in SUBSET Qualified(N) :
        /\ Cardinality(T) = Min({Limit, Cardinality(Qualified(N))})
        /\ \A t \in T, q \in Qualified(N) \ T : N[t].born >= N[q].born}

Right(N) ==
    \E T \in Youngest(N) :
        {targets[k] : k \in DOMAIN targets} = {Target(n, N[n]) : n \in T}

\* At rest the load balancer serves the youngest nodes that are not about to go,
\* whatever became of them in whatever order: no event that matters is dropped,
\* except that of a node replaced under its name while the watch was down.
TargetsSettled ==
    cNode = node /\ class /\ cClass /\ ~queued /\ pc = "idle" /\ ~blind => Right(node)

\* With the periodic resync the load balancer ends up with the right targets, even
\* if an event was missed.
TargetsFollow == <>[](class => targets # NoALB /\ Right(node))

\* The nodes as getTargetsOfNodes sees them, and the doubt that ties leave.
Relevant(N) == [n \in Qualified(N) |-> [born |-> N[n].born, ip |-> Target(n, N[n]).ip]]

SharedAddress(N) ==
    \E m, n \in Qualified(N) : m # n /\ Target(m, N[m]).ip = Target(n, N[n]).ip

\* The load balancer is written only if nodes that matter have changed since it was
\* last written, or if nodes of the same second compete for the last target, or if
\* nodes have the same address and may change places.
NoChurn ==
    [][targets # NoALB /\ targets' # targets =>
         \/ Relevant(rNodes) # Relevant(seen)
         \/ Cardinality(Youngest(rNodes)) > 1
         \/ SharedAddress(rNodes)]_vars
===============================================================================
