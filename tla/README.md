# Verification of the STACKIT application load balancer controller

TLA+ models of the controller under `src/`, the TLC runs that check them on small
instances, and TLAPS proofs about them. `PROJECT.json` lists every run, maps every
definition to the source lines it models, and lists the hazards the properties
are for.

The controller watches `IngressClass` objects and the `Ingress`es, `Secret`s,
`Service`s and `Node`s around them, and keeps one STACKIT application load
balancer (ALB) and a set of TLS certificates for each class. It stores nothing
itself: all it knows is in the Kubernetes API and in the two STACKIT APIs.

## Inventory

| Component | Source | State it keeps | Operations | Modelled in |
| --- | --- | --- | --- | --- |
| IngressClass reconciler | `pkg/controller/ingress/ingressclass_controller.go` | none between reconciliations; finalizer, ALB, certificates and status IPs through APIs | `Reconcile`, `reconcileALBResources`, `handleIngressClassDeletion`, `updateStatus`, `wipeIngressStatus` | `Reconciler` |
| Watches | `.../setup.go` | informer caches, workqueue | event handlers, indexes, predicates | `Reconciler`, `Targets` (nodes) |
| Work tree | `.../spec/worktree.go` | listeners, target pools, certificates, for one reconciliation | `BuildTree`, `addPath`, `buildTargetPool` | `WorkTree` |
| Payload | `.../spec/worktree.go` | none | `ToCreatePayload`, `ToUpdatePayload`, sorting | `WorkTreePayload`, `ClassOptions` |
| Change detection | `.../diff/diff.go` | none | `UpdateNeeded` | `WorkTreePayload`, `ClassOptions`, `Targets` |
| Targets of nodes | `.../spec/worktree.go` | none | `getTargetsOfNodes`, `isNodeTerminating`, `nodePredicate` | `Targets` |
| Name and labels | `.../spec/name.go`, `labels.go` | none | `LoadBalancerName`, `MergeExtraLabels` | labels in `ClassOptions` |
| Annotations | `.../spec/annotations.go` | none | `GetAnnotation` | `ClassOptions`; by its outcome in `WorkTree` |
| STACKIT clients | `pkg/stackit` | none | calls, NotFound, paging | each call one action of `Reconciler`; paging in `CertificateListing` |
| In-memory APIs of the tests | `pkg/stackit/fake` | ALBs, certificates | the APIs | the cloud's answers in `Reconciler` and `Handover` |
| Configuration | `pkg/stackit/config` | what the process has read | read and validate | `ClassOptions` |
| Manager | `cmd` | leader lease | start, leader election | restart in `Reconciler`, handover in `Handover` |
| Metrics, test helpers | `pkg/metrics`, `pkg/testutil` | counters | | no: nothing depends on them |

**Interaction.** Informers put the key of a class into the workqueue. One worker
takes it (the controller runs with the default of one concurrent reconciliation)
and reads the class, Ingresses, secrets and services *from caches*. It reads the ALB
and the certificates through REST, builds the work tree, creates missing
certificates, writes the ALB, deletes duplicate and unused certificates, and
patches the status of the Ingresses. A class being deleted goes the other way
round: status, ALB, certificates, finalizer.

**What is hard, and what makes each component correct**

- *Reconciler*: every call is a point where a user, an informer, the cloud or a
  crash can come in between, and every call can fail or succeed with its response
  lost. Correct means that no certificate in use is deleted, nothing billable
  outlives its class, nothing is created twice, no foreign change is undone, only a
  deletion takes the ALB out of service, an Ingress does not advertise a dead
  address, and things converge and come to rest once users and faults stop.
- *Work tree*: Ingresses of different teams compete for ports, protocols, paths and
  20 target pools. Correct means that precedence decides, what is lost is reported,
  rules and pools stay in step, and HTTPS-only is never served over HTTP.
- *Payload and change detection*: random map order against comparison position by
  position, and a comparison written field by field. Correct means that nothing is
  written when nothing changed, nothing is missed when something did, and what is
  sent is acceptable.
- *Watches*: an event must not get lost between the caches it consults.
- *Targets*: at most 250 nodes, chosen by age, with an unstable sort. Correct means
  no churn, and no node event missed that changes the choice.
- *Listing of certificates*: pages read while others change the list. Correct means
  that no certificate of the class is missed or seen twice.
- *Options*: three sources for one annotation, comparison field by field, a
  configuration that changes with a restart. Correct means that what is asked for is
  in force, and nothing opens that was closed.
- *Leader election*: a call may outlive its leader. Correct means that its late effect
  is set right and destroys nothing.

## Modules

| Module | Contents |
| --- | --- |
| `Reconciler` | state machine of the reconciler, informers, users and clouds; properties; the invariant `IInv` |
| `ResourceLifecycle` | abstract specification: what becomes of the load balancer and the certificates of a class; `Reconciler` implements it |
| `StatusHistory` | extends `Reconciler` with history variables: what the Ingress cache had not seen when a status was wiped |
| `Handover` | extends `Reconciler` with a change of leader and the late effect of the old leader's last call |
| `WorkTree` | `BuildTree` as a state machine: sort, then one step per Ingress and per path |
| `WorkTreePayload` | extends `WorkTree` with the payload, `UpdateNeeded` and further reconciliations |
| `CertificateListing` | `ListCertificate` page by page and what the reconciler makes of the list |
| `Targets` | nodes, their events, and the targets chosen from them |
| `ClassOptions` | annotations of the class, shared annotations and configuration, down to `UpdateNeeded` |
| `ReconcilerProofs` | proofs: types, the invariant `IInv`, and what follows from it |
| `RaceProofs` | proofs about interleavings: `Reconciler` implements `ResourceLifecycle`; certificates, status addresses, the version check; the late calls of an old leader |
| `WorkTreeProofs` | proofs about `BuildTree` |
| `PayloadProofs` | proofs about the payload and `UpdateNeeded`, over any number of reconciliations |
| `ListingProofs` | proofs about the listing of certificates |
| `TargetsProofs` | proofs about the choice of targets |
| `ClassOptionsProofs` | proofs about the options of the class |
| `ListLemmas` | lemmas on lists, sorted lists and finite sets that the proofs about data share |
| `MC...` | instances for TLC |

`StatusHistory`, `Handover` and `WorkTreePayload` compose by extension. The other modules stand beside
`Reconciler` and refine one of its steps, which takes their result as given:
`WorkTree` and `ClassOptions` the step `GetALB` (where the tree is built) and what
`UpdateNeeded` compares, `CertificateListing` the step `ListCerts`, `Targets` the
event `OtherEvent` and one field of the payload.

### Reconciler

One name of an `IngressClass` in up to `MaxUid` incarnations; classes share no
state, as ALBs are named and certificates labelled by UID. State is in four
layers: API server (`class`, `ing`, `secret`), caches (`cClass`, `cIng`,
`cSecret`, and `unseen`: events still to be delivered), clouds (`alb`, `certs`), and
the controller (`queued`, `timer`, `pc` and the local variables `r…`, named after
those of the source). `pc` names the call that comes next:

    Begin -> addFinalizer -> readCaches -> getALB -> listCerts -> createCerts
          -> apply -> deleteDuplicates -> deleteUnused -> checkStatus -> patchStatus
    Begin -> wipeList -> wipePatch -> delGetALB -> deleteALB
                                                -> delListCerts -> deleteCerts
                                                                -> removeFinalizer

Each call is one action, with a disjunct `Lost` in which it takes effect but the
worker sees an error; `CallFails` makes it fail without effect, `Crash` ends the
process at any point and starts another with fresh caches. Steps with local
computation only (selection of the certificates, the end of a loop) cannot fail.
Reads of caches that no REST call separates are one action.

Data is reduced to what the properties tell apart. An ALB is its status, version, the
certificates it references, the Ingresses it routes, whether its address is static, and
its log configuration. Each Ingress has one TLS secret (or a missing one, `NoCert`).
A class is `valid` if `BuildTree` accepts its annotations. `NoClass` stands for no class of
the name, and for one of another controller (`spec.controller` is immutable, and `Reconcile`,
`ingressClassPredicate` and the handlers all leave such a class alone). A `READY` ALB has an
address. Only edits come between reading an ALB and updating it, so versions are
counted modulo `VersionBound`, which tells apart as many of them as there can be.
Deleting an Ingress and moving it to another class are the same to the controller and are one action. An ALB goes through
`TERMINATING`, which the code waits for, although the in-memory API of the tests
removes it at once; a created ALB may be ready, pending or in error.

Constants that switch behaviours on: `SlowFingerprint` lets the certificate API
answer without the fingerprint at first (a case the code skips explicitly),
`LogEdits` lets the log configuration (and
with it the version) of an ALB change out of band, `StaticIPs` lets users set the
external address.

All caches lag in every run: an event is delivered by an action of its own.

### StatusHistory

`wipeIngressStatus` finds the Ingresses, and whether their status has to be patched, in the
cache, so it can miss one. `unread` is the set of Ingresses with events outstanding
when the running wipe listed them, `overlooked` the same for the last wipe of each
incarnation that went through. `Remember` sets both next to each step of
`Next` and restricts none. `DeadAddressOnlyOverlooked` says that an address of a load
balancer that is gone or going is left on no other Ingress.

### WorkTree and WorkTreePayload

`WorkTree` follows the loops of `BuildTree`: `Sort` (any order in which no
Ingress comes right after one it has to precede), then for each Ingress
`SkipIngress` or `AdmitIngress`, and for each path `DropPath` or `AddPath`. The
paths of all rules of an Ingress are one sequence, so `<<i, k>>` stands for an
`ingressPathReference`. Hosts and paths are numbers in lexicographical order;
annotations are already resolved, and `ok` says that all of them parse. `Wrap` is the
two's complement arithmetic of `int`, with `MaxInt` as parameter.

`WorkTreePayload` turns the maps of the tree into lists. As maps iterate in random
order and `slices.SortFunc` is unstable, a sorted list is *any* arrangement that the
comparison function allows (`Arranged`); that all of them are equal is what
`QuietWhenUnchanged` checks. `UpdateNeeded` compares entry by entry as in
`diff.go`. `Apply` stores the payload, `ReconcileAgain` starts over with an empty
tree, `EditIngress` and `DescribeCert` change the inputs in between.

### ResourceLifecycle

For each incarnation of the class: is it held by the finalizer or leaving, is its
load balancer up, on its way down or gone, which certificates are there and which
does the load balancer use. Eight actions say what may happen to them: a certificate
goes only if it is not in use, the load balancer goes down only for a class that is
leaving, the class is let go only when nothing is left. `ImplementsLifecycle` in
`Reconciler` maps the state (`OwnerOf`, `ServiceOf`, `Ids(CertsOf(u))`) and is checked
as a property and proved.

### Handover

`StepDown` is `Crash` with one call of the dead worker still under way, and `LateCall`
its effect at any later time, with the same conditions on the side of the API (a
name that is taken, a version that has moved on, an object that has changed) as when
the worker waits for it. Calls are collected from `pc` in `CertCalls`, `ALBCalls` and
`KubernetesCalls`. One call can be late, since a worker has one call under way. The
specification starts in a cluster with class, Ingresses and secrets present, as this
is where a new leader finds itself.

### CertificateListing

The certificates of the class do not change during a listing, since only the
reconciler, which waits for it, creates and deletes them; those of other classes and
clusters do. A certificate is a number from 1 to `LastId`, its place among all IDs
that there may be, in the order in which the pages follow each other; within a page the
certificates come in any order. A page token is taken to mean "after this
certificate", which is not in the repository. With a token that counts positions
`ListedOnce` would fail, and a certificate listed twice would be its own
duplicate (`ingressclass_controller.go:344-346`). `kept` is the set of the certificates
in `certIDMap`; `doomed` maps the places of duplicates in the list to the certificates.

### Targets

Creation timestamps have seconds, so two nodes may have the same (`born`), and the
sort leaves them in any order (`NewestFirst`); `Taken` is the loop that skips unfit nodes
and stops at the limit. The targets are sorted by address with the same unstable sort, so
two nodes with one address may change places (`Chosen` is a set of lists). `SyncNode` is one watch event, which passes
`nodePredicate` or not; a node that is deleted and created again while the watch is
down is a single update, which the predicate may drop (`blind`). A reconciliation
reads the nodes in one step and writes the targets in another.

### ClassOptions

One class, one Ingress, one service; a reconciliation is one step. The ranges of
`allowed-source-ranges` are lists with one element that does not parse; `tls` is the
annotation on service, Ingress and class, `ws` the one on Ingress and class. `Start` reads the configuration, which may
have a label with the key that the controller uses itself. `asked` is a history variable: the
annotations for address and network at the last write of the load balancer, as `UpdateNeeded`
does not compare what is made of them. The TLS flag and the
custom CA stand for the three shared annotations of a target pool.

## Runs

| Run | Question | Bounds | Result |
| --- | --- | --- | --- |
| `MCReconcilerFaults` | safety, `IInv` and the refinement under faults, stale caches, late fingerprints, edits | 1 Ingress, 1 key pair, 2 incarnations, 2 certificates, 5 edits, 1 fault | holds, 1.4 M states |
| `MCStatusHistory` | certificates again, with two Ingresses that may share one and duplicates; status IPs over deletion and re-creation | 2 Ingresses, 2 incarnations, 2 certificates, 4 edits, 1 fault | holds, 700 k states |
| `MCReconcilerLive` | convergence, completion of a deletion; `IInv` while key pairs rotate, no duplicate certificate and no foreign change lost on the way | 1 Ingress, 2 key pairs, 4 certificates, 4 edits (of the log configuration, too), 1 fault | holds, 480 k states |
| `MCHandover` | is a late call set right, and harmless, and does the new leader come to rest? | 1 Ingress, 1 key pair, 2 edits, 1 handover or fault | holds, 480 k states |
| `MCReconcilerExternalIP` | is a changed external address applied? | 1 Ingress, 3 edits | **violated** |
| `MCWorkTree` | precedence, conflicts, limits, reports | 3 Ingresses, 2 ports, 2 pools, the combinations of `MCSpecs` | holds, 270 k states |
| `MCWorkTreeExtreme` | precedence over the range of an int | 2 Ingresses, 3-bit int | **violated** |
| `MCWorkTreePayload` | payload and change detection over reconciliations | 2 Ingresses, 3 ports, 3 pools, 1 edit | holds, 600 k states |
| `MCCertificateListing` | is the list complete, and free of repetitions? | 5 certificates, pages of 2, at most 2 pages, 3 changes | holds, 179 k states |
| `MCTargets` | the right nodes, and no write without need | 3 nodes, room for 2, two of them with one address, births in 2 seconds and more, 2 changes | holds, 242 k states |
| `MCClassOptions` | options in force, access list, labels | 5 range lists, 4 edits | holds, 1.0 M states |
| `MCClassOptionsCustomCA` | does a custom CA enable TLS? | 2 edits | **violated** |

Why the bounds are enough: with five edits a class is created, an Ingress and its
secret appear, the class goes and comes back (`MCReconcilerFaults`); with four and two key
pairs a secret rotates while a certificate of the old key is in use (`MCReconcilerLive`). One fault at any call already separates every
pair of steps; the proofs cover any number of them. With two Ingresses there is a
winner and a loser; with three, priority, age and name are compared transitively. Two
target pools for up to six paths exhaust the limit within an Ingress, between
Ingresses and exactly. Five certificates need three pages, one more than may be read,
and end a page exactly; three nodes for two places leave one out, and two may be of
the same age. `MaxCerts` is never the reason why something holds: in the safety runs
a refused creation is one more failure, and in the liveness runs there are as many
certificates as edits and faults can ask for. What the bounds may hide is what the
proofs are for.

`CHECK_DEADLOCK FALSE` is set because the systems do stop: `BuildTree` and a listing
terminate, and a controller without events, once users have spent their edits, waits
for ever.

### Fairness

`Fairness` asks for what the runtime provides: the worker goroutine goes on with
what it has begun and takes queued keys, watches deliver, timers fire, a pending
or failed ALB becomes ready and a terminating one goes away in the end, and the
certificate API returns the fingerprint in the end. Users, crashes and failed
calls owe nothing; both are bounded, so they stop. Weak fairness on the whole worker
is enough, since there is one worker and all its steps disable each other.

`Handover` adds that the late call comes to an end (a request has a time limit), and
the periodic resync of the informers (`OtherEvent`), without which nothing tells the
new leader what the call has changed behind its back. `main.go:68` does not set a sync
period, so it is controller-runtime's default of ten hours: that is how long a
certificate that a late call has deleted can be missing. `Targets` has the resync for
the events that `nodePredicate` drops.

### Properties that hold under conditions

- `DeadAddressOnlyOverlooked` does not promise that no dead address is left: one is, in the
  runs too, where `wipeIngressStatus` skips an Ingress whose last change the cache
  has not seen. It says that there is no other way. It is stated for one leader at a
  time; a status patch of an old leader that arrives late is outside.
- `OptionsInForce` asks for the present annotations in what `UpdateNeeded` compares only. External
  address, ephemeral flag and private network may be older (finding 1); they are
  always those of one moment, the last write.
- `OrderedByPrecedence` holds in `MCWorkTree`, where differences of priorities fit into an
  int; `MCWorkTreeExtreme` (finding 2) is the only run that goes beyond.
- `WritesStop` has payloads of sets. That lists come out the same from random map
  order and unstable sorts is `QuietWhenUnchanged`.
- `Converges` is checked with fingerprints that come at once. A certificate listed
  without fingerprint is neither requeued nor reported, and its listener is missing
  until something else happens. `NoDanglingCert` and `NothingOrphaned` are checked with
  late fingerprints, too.
- `TargetsSettled` leaves out a node that was replaced under its name while the watch
  was down; `TargetsFollow` covers it by the resync.
- `NoChurn` leaves the choice open where the code does: nodes of the same second that
  compete for the last target, and nodes with the same address. In both cases the list
  may be another one each time, and each reconciliation may write it.
- `LiveALBSurvives` replaces `ALBSurvivesUnlessDeleted` for `Handover`: a late deletion
  takes down the ALB of a class that is gone, or going, and no other.

All of them are listed among the hazards.

## Findings

1. `ExternalIPPromoted`: the comment in `annotations.go:20-21` says that setting
   the external address after creation promotes the ephemeral IP. `UpdateNeeded`
   (`diff.go:13-19`) compares neither the external address nor the ephemeral flag, so
   nothing is sent until something else changes.
2. `OrderedByPrecedence` for extreme priorities: `prioB - prioA`
   (`worktree.go:171`) overflows, and a lower priority wins. `docs/user.md:87` says
   that higher values are evaluated first.
3. `CustomCAEnablesTLS`: the comments in `annotations.go:35` and `:39` say that a
   custom CA, and skipped validation, enable TLS bridging. `worktree.go:540-554` sets
   `Enabled` from `target-pool-tls-enabled` alone, so the CA is stored with TLS off.

## Proofs

Each proof is for every value of the constants that satisfies the `ASSUME`s of the
module: finitely many Ingresses and nodes, natural bounds, limits and page sizes that
are not zero, Boolean switches, typed addresses, labels and ranges, `NoCert` and
`Undescribed` not fingerprints; for `Handover` also that there is an incarnation at all
(`ClassThere`). As `MaxEdits`, `MaxFaults`, `MaxUid` and `MaxCerts` are arbitrary, so is
the number of crashes, lost responses and incarnations.

| Theorem | Statement | Hypothesis |
| --- | --- | --- |
| `ReconcilerProofs!TypeCorrect` | `Spec => []TypeOK` | |
| `ReconcilerProofs!Invariant` | `Spec => []IInv` | |
| `ReconcilerProofs!CertsOutliveTheirUse` | `Spec => []NoDanglingCert` | |
| `ReconcilerProofs!ResourcesOwned` | `Spec => []NothingOrphaned` | |
| `ReconcilerProofs!ALBSurvives` | `Spec => ALBSurvivesUnlessDeleted` | |
| `RaceProofs!Refinement` | `Spec => ImplementsLifecycle` | |
| `RaceProofs!CertificatesOnce` | `Spec => []NoDuplicateCert` | (in the property: fingerprints at once) |
| `RaceProofs!DeadAddressOverlooked` | `HistorySpec => []DeadAddressOnlyOverlooked` | |
| `RaceProofs!ForeignLogsKept` | `Spec => LogsKept` | |
| `WorkTreeProofs!TypeCorrect` | `Spec => []TypeOK` | |
| `WorkTreeProofs!PoolsAndRules` | `Spec => []RulesMatchPools` | |
| `WorkTreeProofs!NeverOverHTTP` | `Spec => []HTTPSOnlyHidden` | |
| `WorkTreeProofs!LostToPrecedence` | `Spec => []LostOnlyToPrecedence` | |
| `WorkTreeProofs!NoSilentLoss` | `Spec => []LossesReported` | |
| `WorkTreeProofs!SortedByPrecedence` | `Spec => []OrderedByPrecedence` | `NoOverflow` |
| `PayloadProofs!UpToDate` | `PayloadSpec => []StoredMatchesTree` | |
| `PayloadProofs!AcceptableSent` | `PayloadSpec => []OnlyAcceptableSent` | |
| `PayloadProofs!SpecificFirst` | `PayloadSpec => []MostSpecificFirst` | |
| `PayloadProofs!CertificatesSeparate` | `PayloadSpec => []CertificatesStayOnTheirPorts` | |
| `PayloadProofs!Quiet` | `PayloadSpec => QuietWhenUnchanged` | `NoOverflow` |
| `RaceProofs!LateCallsHarmless` | `SpecBoth => LiveALBSurvives` | |
| `ListingProofs!EveryCertificateListedOnce` | `Spec => []ListedOnce` | |
| `ListingProofs!EveryCertificateKeptOrDoomed` | `Spec => []KeptOrDoomed` | |
| `ListingProofs!GivesUpBeyondLimit` | `Spec => []GivesUpOnlyBeyondLimit` | |
| `TargetsProofs!TargetsSettle` | `Spec => []TargetsSettled` | |
| `TargetsProofs!NoNeedlessWrite` | `Spec => NoChurn` | |
| `ClassOptionsProofs!OptionsTakeEffect` | `Spec => []OptionsInForce` | |
| `ClassOptionsProofs!CertificateCreatedOnce` | `Spec => []CreatedOnce` | |
| `ClassOptionsProofs!AllowListStays` | `Spec => AllowListKept` | |

**`ReconcilerProofs`.** Neither `NoDanglingCert` nor `NothingOrphaned` is inductive.
`NothingOrphaned` says nothing about a worker that acts on a class it read long ago, so
`IInv` adds `Lineage`: the cached class and the class the worker holds are the stored
one or an earlier incarnation, a finalizer once seen on a live class stays as long as
the class lives, and a deletion is never taken back. With it a step that creates
something knows that the stored class is the one it read, and holds the finalizer.
`Teardown` is what makes the last step safe: past the `NotFound` answer there is no ALB,
and the list of certificates to delete is complete. `NoDanglingCert` needs to know
what the worker is *about* to delete: `CertsListed` says that what it has listed is
stored, and `Doomed` that what it will delete is disjoint from what the ALB references,
using that the ALB references no more than what was read of it before the update. The
proof goes `LineageStep` first, then one lemma for each group of actions, and combines
them in `InvStep`. TLC checks `IInv` in `MCReconcilerFaults` and `MCReconcilerLive`.

`ALBSurvives` is an action property. `WhoTouchesALBs` singles out the steps that change
a load balancer; of these only `DeleteALB` takes one out of service, and `Lineage` with
`NothingOrphaned` makes it the one of a class that is being deleted.

**`RaceProofs`, life cycle.** The step simulation needs two facts that `IInv` does not have. The
abstract load balancer never comes up again before it is gone, so a worker must not
write one that is `TERMINATING`: `Leaving` says that cache and worker already know of the
deletion then. And the abstract owner is held only while it is live: `Adding`. With `LInv`
(`IInv` and these two) there is one lemma for each abstract action (`HoldStep`,
`ServeStep`, ...) that names what a concrete step has to change, one for each group of
concrete actions that uses it, and `SeenFromAbove`: each step is an abstract step or a
stutter.

**`RaceProofs`, races.** This builds on `LInv`. `Fingerprinted`: what the worker lists as missing is
missing until it creates it, as nobody else creates certificates. `Serving`: from the read of
a load balancer to the last status patch it stays in service, since the worker that would
delete it is the same one. `Wiping`, for `HistorySpec`: an
Ingress without events outstanding is cached as it is; so one that advertises the load
balancer is either about to be patched or `unread` (`ListedOrUnread`), and past `wipePatch`
it is `overlooked` (`LeftOverlooked`). The address stays overlooked, since a load balancer that
is down is not served again and nobody publishes its address. `Versioned`: since the ALB was read
its version has moved by as many steps as there were edits, which are too few to come
round to the version it was read with; so an update that is accepted repeats what is
stored (`AcceptedRepeats`).

**`WorkTreeProofs`.** `WInv` says where the loops are (`Sorted`, `InLoop`), that a
listener exists if and only if it has rules (`Proper`), that pools are finite and for
paths already seen (`PoolsSeen`), and contains
`RulesMatchPools` and `HTTPSOnlyHidden`, which need each other's context to be inductive.
Each of the six actions has a lemma. Precedence (`LostOnlyToPrecedence`) and reports
(`LossesReported`) are then invariants relative to `WInv`: what a path lost to stays,
since rules and pools are never removed, and a path that is added comes after
all that were. `SortedByPrecedence` has to go from neighbours (all that `slices.SortFunc` is
modelled to give) to any two positions. This is an induction, done as a least
counterexample with `WFMin`. Its hypothesis `NoOverflow` is exactly what finding 2
violates.

**`PayloadProofs`** extends `WorkTreeProofs`. `TreeInv` adds to `WInv` what only lists need
(rules are finitely many, the lengths of their paths are known) and who brought each
certificate (`Brought`). From there one lemma for each kind of list says what it has in
it: `RuleList`, `HostList`, `CertList`, `Listeners`, `PoolList`. Those on order go from
neighbours to any two entries with `NeighboursSuffice` of `ListLemmas`. That `UpdateNeeded` looks at
everything is `NoUpdateSame`: two payloads it sees no difference in are equal. So after
`Apply` what is stored *is* a payload of the tree, written or not (`Applied`), and the
inductive invariant `PInv` only has to say that it was one, and still is while nothing
changed.

`Quiet` compares two reconciliations, between which the tree is thrown away. Two things
have to be shown. There is one payload of a tree (`OnePayload`): each comparison function
tells any two entries of its list apart, for rules because no two of a listener have the
same match (`MatchesUnique`, an invariant of `addPath`). And there is one tree of the
Ingresses: they can be sorted in one way (`OneOrder`; this is where `NoOverflow` is needed,
with overflow the comparison function is no order), and after that each step is
a function of where the loops are (`StepIsAfter`). The inductive invariant `QInv` has no
history variable; it says that there is a set of moments, closed under `After`, that leads
from the start to where BuildTree is (`OnItsWay`), and one that led to a tree that what is
stored was made of, on which BuildTree is again unless something has changed (`Repeats`).
`PayloadsOf` is `Payloads` with the tree as arguments (`PayloadsNow`), for a tree that is
no more.

**`RaceProofs`, change of leader.** `TypeOK` and `Lineage` survive a late call, but `NothingOrphaned` does
not: a creation that arrives late may leave something behind. So the theorem rests on
less than `ALBSurvives` does (`TakenDown`, without `NothingOrphaned`). `HInv` adds what the
call itself is about: a class whose deletion or finalizer removal was left behind is
`Dead`, gone or with a deletion timestamp and its UID not given again, and `Forgotten`,
as neither the cache nor the new leader takes it for a live one. `DeadStays` and
`ForgottenStays` show that no step of the new leader, the users or the informers undoes
this while the call is under way, so the late deletion finds no live class.

**`ListingProofs`.** `ListedOnce` is about the end of a listing; what makes it true is
said while pages are read (`ListedUpToToken`): the list goes up to the token and
not beyond, and of the class it has all there is up to the token. This is inductive
because only others come and go. Others may also be in the list although they are gone,
which is why `seen` is needed for the limit: a full page adds `PageSize` certificates
that were not listed before, so at `MaxPages` there are more than fit (`GivenUp`).
`KeptOrDoomed` does not follow from what is listed alone, but from each certificate being
listed once: of two places with one certificate the second would be doomed and the
first kept.

**`TargetsProofs`** has two halves. One is about lists: `YoungestTaken` shows that
the first `Limit` fit nodes of *any* list sorted by age are a set of youngest nodes,
`SameNodesSameTargets` that two lists that come from nodes equal in what matters are equal
unless the choice is open. The other is about events: as long as no event is
outstanding (`Informed`), the reconciliation that runs has read what is cached, or the
targets are right for it (`ReadWhatIsCached`). The step that needs an argument is
`SyncNodeStep`: an update that `nodePredicate` drops leaves the node as it was, or was a
replacement (`blind`). `NoNeedlessWrite` adds that the targets are a choice from the
nodes seen at the last write (`WrittenFromSeen`), also after writes that were left out.

**`ClassOptionsProofs`.** `Applied` says that since the last reconciliation
`UpdateNeeded` finds no difference between the load balancer and the payload of now; from
this `OptionsInForce` follows field by field, with `FirstDecides` for the precedence of the
objects that share an annotation. For the fields that it does not compare, `AsWritten` ties the
load balancer to `asked`. `CreatedOnce` rests on `UIDStays`: `MergeExtraLabels`
never replaces the label with the UID, so the certificate is found whatever the
configuration adds.

**`ListLemmas`** holds what these proofs share: a finite set of numbers has a least
element, the elements before a place, `NeighboursSuffice` (a list in which no two
neighbours are out of order is sorted), and `OneArrangement` (the elements of a set can be
listed along an order in one way only; `SortedUnique` is this for elements with keys). They need induction, which is done
as a least counterexample.

**Only model-checked.** `LogsKept` under `Handover`: versions are counted modulo a bound,
and how many updates the new leader makes while the late call is under way is not bounded
by an invariant, so nothing proved excludes that a version comes round. And all liveness
(`Converges`, `DeletionCompletes`, `WritesStop`, `TargetsFollow`), which is out of the
prover's reach; `Quiet` and `NoNeedlessWrite` are the safety half of `WritesStop`.

## Not modelled, and why

- Metrics, logging, flags, health probes and test helpers: no decision depends on them.
- Parsing of PEM, X.509, CIDR and ports is reduced to "valid or not": the libraries do
  it, and the code only branches on the error.
- Networks and listener names are constants or functions of the port. Health checks are
  compared by `UpdateNeeded` but never set.
- `LoadBalancerName` truncates the name of the class and keeps the whole UID. Uniqueness
  rests on the UID alone, so only that is modelled.
- A late creation of an old leader together with the deletion of the class: no call is
  conditional on the class, so a resource can be left behind (listed as a hazard).
  `Handover` keeps to one incarnation.
- Two classes: they share no state. Other clusters that use the same project are
  modelled in `CertificateListing`.

## Plan

Done: `Reconciler`, `WorkTree`, `WorkTreePayload`, `ResourceLifecycle` and the refinement,
`Targets`, `CertificateListing`, `ClassOptions`, `Handover`, and proofs of every safety
property that the runs check but one. Left:

1. A second incarnation of the class in `Handover`, to measure what a late creation
   leaves behind.
2. The truncation in `LoadBalancerName`, as sequences of characters; it is a pure function
   with a unit test of its own, so it comes last.
