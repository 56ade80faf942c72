------------------------------ MODULE Reconciler ------------------------------
(* The IngressClass reconciler of the STACKIT application load balancer        *)
(* controller (src/pkg/controller/ingress/ingressclass_controller.go): one     *)
(* workqueue key, one worker, the informer caches it reads, the Kubernetes     *)
(* objects and the STACKIT resources it writes.                                *)
(*                                                                             *)
(* One IngressClass name is modelled through MaxUid incarnations.  Each call   *)
(* to an API is an action of its own, so the users, the informers, the clouds  *)
(* and a crash can come between any two of them.  Reads of the local caches    *)
(* that nothing separates are one action.                                      *)
EXTENDS Naturals, FiniteSets

CONSTANTS
    Ingresses,        \* the Ingresses (names) that can reference the class
    Fingerprints,     \* SHA-256 fingerprints of the TLS certificates in use
    NoCert,           \* the TLS secret is absent or holds no valid key pair
    MaxUid,           \* bound: incarnations of the IngressClass
    MaxCerts,         \* bound: certificates ever created; more are refused
    MaxEdits,         \* bound: changes the users make
    MaxFaults,        \* bound: crashes, failed calls and lost responses
    SlowFingerprint,  \* may the certificate API answer without the fingerprint?
    LogEdits,         \* may the log configuration of an ALB change out of band?
    StaticIPs         \* the choices for the external-ip annotation: set or not

ASSUME IngressesFinite == IsFiniteSet(Ingresses)
ASSUME NoCertAssumption == NoCert \notin Fingerprints
ASSUME BoundsAreNaturals == /\ MaxUid \in Nat /\ MaxCerts \in Nat
                            /\ MaxEdits \in Nat /\ MaxFaults \in Nat
ASSUME SwitchesAreBoolean == /\ SlowFingerprint \in BOOLEAN /\ LogEdits \in BOOLEAN
                             /\ StaticIPs \subseteq BOOLEAN

VARIABLES
    \* --- Kubernetes API server
    class,      \* the IngressClass object
    lastUid,    \* incarnations created so far
    ing,        \* each Ingress: does it reference the class, and its status IP
    secret,     \* the certificate in each Ingress's TLS secret
    \* --- informer caches of the controller
    cClass, cIng, cSecret,
    unseen,     \* Ingresses with watch events still to be delivered
    \* --- STACKIT APIs
    alb,        \* the load balancer of each incarnation (its name has the UID)
    certs,      \* the certificates
    nextId,     \* the next certificate ID, never reused
    \* --- controller
    queued,     \* the class is in the workqueue
    timer,      \* a delayed requeue is pending (RequeueAfter or error backoff)
    pc,         \* the call the worker makes next
    rClass,     \* ingressClass
    rIngs,      \* ingresses
    rFps,       \* fingerprints of tree.certificates
    rALB,       \* existingALB, then alb
    rCerts,     \* ingressClassCertificates
    rMissing,   \* missingCertificates still to be created
    rKept,      \* values of certIDMap
    rDoomed,    \* certificates still to be deleted by the current loop
    rPatch,     \* Ingresses still to be patched by the current loop
    \* --- bounds
    edits, faults

apiVars   == <<class, lastUid, ing, secret>>
cacheVars == <<cClass, cIng, cSecret, unseen>>
cloudVars == <<alb, certs, nextId>>
localVars == <<rClass, rIngs, rFps, rALB, rCerts, rMissing, rKept, rDoomed, rPatch>>
budgets   == <<edits, faults>>
vars == <<apiVars, cacheVars, cloudVars, queued, timer, pc, localVars, budgets>>

-------------------------------------------------------------------------------
(* Data *)

Uids == 1 .. MaxUid

\* absent: there is no class, or it is one of another controller.  The two look the
\* same to Reconcile and to every event handler, and spec.controller never changes.
\* valid: BuildTree accepts the annotations; ext: the external-ip annotation is
\* set; fin: our finalizer is present.
NoClass == [phase |-> "absent", uid |-> 0, fin |-> FALSE,
            valid |-> FALSE, ext |-> FALSE]
ClassRecord == [phase : {"live", "deleting"}, uid : Uids, fin : BOOLEAN,
                valid : BOOLEAN, ext : BOOLEAN] \union {NoClass}

\* ip = 0: empty status; ip = u: the address of the ALB of incarnation u.
IngressRecord == [exists : BOOLEAN, ip : 0 .. MaxUid]
NoIngress == [exists |-> FALSE, ip |-> 0]

\* ver: the version the update must repeat; certs, routes, ext: what the
\* listeners reference, the Ingresses routed, a static address; logs: the log
\* configuration, edited out of band.
ALBStates == {"none", "PENDING", "READY", "ERROR", "TERMINATING"}
ALBRecord == [st : ALBStates, ver : Nat, certs : SUBSET Nat,
              routes : SUBSET Ingresses, ext : BOOLEAN, logs : BOOLEAN]
NoALB == [st |-> "none", ver |-> 0, certs |-> {}, routes |-> {},
          ext |-> FALSE, logs |-> FALSE]

\* known: the API returns the data block with the fingerprint.
CertRecord == [id : Nat, uid : 0 .. MaxUid, fp : Fingerprints, known : BOOLEAN]

Ids(C)     == {c.id : c \in C}
Described(C) == {c \in C : c.known}
CertsOf(u) == {c \in certs : c.uid = u}

Steps == {"idle", "addFinalizer", "readCaches", "getALB", "listCerts",
          "createCerts", "apply", "deleteDuplicates", "deleteUnused",
          "checkStatus", "patchStatus",
          "wipeList", "wipePatch", "delGetALB", "deleteALB", "delListCerts",
          "deleteCerts", "removeFinalizer"}

\* The steps that call an API and so may fail; the others are local.
CallSteps == {"addFinalizer", "getALB", "listCerts", "createCerts", "apply",
              "deleteDuplicates", "deleteUnused", "patchStatus", "wipePatch",
              "delGetALB", "deleteALB", "delListCerts", "deleteCerts",
              "removeFinalizer"}

Init ==
    /\ class = NoClass /\ lastUid = 0
    /\ ing = [i \in Ingresses |-> NoIngress]
    /\ secret = [i \in Ingresses |-> NoCert]
    /\ cClass = class /\ cIng = ing /\ cSecret = secret /\ unseen = {}
    /\ alb = [u \in Uids |-> NoALB] /\ certs = {} /\ nextId = 0
    /\ queued = FALSE /\ timer = FALSE /\ pc = "idle"
    /\ rClass = NoClass /\ rIngs = {} /\ rFps = {} /\ rALB = NoALB
    /\ rCerts = {} /\ rMissing = {} /\ rKept = {} /\ rDoomed = {} /\ rPatch = {}
    /\ edits = 0 /\ faults = 0

-------------------------------------------------------------------------------
(* How a reconciliation ends *)

\* Reconcile returns: its local variables are gone.
Return ==
    /\ pc' = "idle"
    /\ rClass' = NoClass /\ rIngs' = {} /\ rFps' = {} /\ rALB' = NoALB
    /\ rCerts' = {} /\ rMissing' = {} /\ rKept' = {} /\ rDoomed' = {} /\ rPatch' = {}

Done       == Return /\ timer' = timer
\* RequeueAfter, or the rate-limited requeue after an error.
RetryLater == Return /\ timer' = TRUE

\* A call of the worker: it goes on, or the response is lost and it sees an error.
Lost     == faults < MaxFaults /\ faults' = faults + 1 /\ RetryLater
GoTo(s)  == pc' = s /\ timer' = timer /\ faults' = faults

-------------------------------------------------------------------------------
(* Reconcile: a live class *)

\* Mutant of Begin: the resources are built before the finalizer is there.
BeginWithoutFinalizer ==
    /\ pc = "idle" /\ queued
    /\ queued' = FALSE
    /\ IF cClass.phase = "absent"
       THEN UNCHANGED <<pc, rClass>>
       ELSE /\ rClass' = cClass
            /\ pc' = IF cClass.phase = "deleting" THEN "wipeList" ELSE "readCaches"
    /\ UNCHANGED <<apiVars, cacheVars, cloudVars, timer, budgets, rIngs, rFps,
                   rALB, rCerts, rMissing, rKept, rDoomed, rPatch>>

\* The worker takes the key and reads the class from its cache; it does nothing for
\* one that is not there or has another controller.
Begin ==
    /\ pc = "idle" /\ queued
    /\ queued' = FALSE
    /\ IF cClass.phase = "absent"
       THEN UNCHANGED <<pc, rClass>>
       ELSE /\ rClass' = cClass
            /\ pc' = IF cClass.phase = "deleting" THEN "wipeList"
                     ELSE IF cClass.fin THEN "readCaches" ELSE "addFinalizer"
    /\ UNCHANGED <<apiVars, cacheVars, cloudVars, timer, budgets, rIngs, rFps,
                   rALB, rCerts, rMissing, rKept, rDoomed, rPatch>>

\* Update with the cached resource version: accepted only if nothing changed.
AddFinalizer ==
    /\ pc = "addFinalizer"
    /\ IF class = rClass
       THEN /\ class' = [class EXCEPT !.fin = TRUE]
            /\ \/ /\ GoTo("readCaches")
                  /\ rClass' = class'
                  /\ UNCHANGED <<rIngs, rFps, rALB, rCerts, rMissing, rKept,
                                 rDoomed, rPatch>>
               \/ Lost
       ELSE RetryLater /\ UNCHANGED <<class, faults>>
    /\ UNCHANGED <<lastUid, ing, secret, cacheVars, cloudVars, queued, edits>>

\* What the lister returns: the Ingresses of the class as the informer has them.
Listed == {i \in Ingresses : cIng[i].exists}

\* Ingresses of the class, then the secrets they reference.
ReadCaches ==
    /\ pc = "readCaches"
    /\ rIngs' = Listed
    /\ rFps' = {cSecret[i] : i \in Listed} \ {NoCert}
    /\ pc' = "getALB"
    /\ UNCHANGED <<apiVars, cacheVars, cloudVars, queued, timer, budgets, rClass,
                   rALB, rCerts, rMissing, rKept, rDoomed, rPatch>>

\* Mutant of GetALB: a class that BuildTree rejects is torn down.
GetALBOrTearDown ==
    /\ pc = "getALB"
    /\ rALB' = alb[rClass.uid]
    /\ pc' = IF rClass.valid THEN "listCerts" ELSE "deleteALB"
    /\ UNCHANGED <<apiVars, cacheVars, cloudVars, queued, timer, budgets, rClass,
                   rIngs, rFps, rCerts, rMissing, rKept, rDoomed, rPatch>>

\* GetLoadBalancer; then BuildTree, whose error ends the reconciliation for good.
GetALB ==
    /\ pc = "getALB"
    /\ IF rClass.valid
       THEN /\ rALB' = alb[rClass.uid]
            /\ pc' = "listCerts"
            /\ UNCHANGED <<timer, rClass, rIngs, rFps, rCerts, rMissing, rKept,
                           rDoomed, rPatch>>
       ELSE Done
    /\ UNCHANGED <<apiVars, cacheVars, cloudVars, queued, budgets>>

\* Mutant of ListCerts: every certificate in use counts as missing.
ListCertsAllMissing ==
    /\ pc = "listCerts"
    /\ rCerts' = CertsOf(rClass.uid)
    /\ rMissing' = rFps
    /\ pc' = "createCerts"
    /\ UNCHANGED <<apiVars, cacheVars, cloudVars, queued, timer, budgets, rClass,
                   rIngs, rFps, rALB, rKept, rDoomed, rPatch>>

\* The certificates labelled with the UID; GetMissingCertificates.
ListCerts ==
    /\ pc = "listCerts"
    /\ rCerts' = CertsOf(rClass.uid)
    /\ rMissing' = rFps \ {c.fp : c \in Described(CertsOf(rClass.uid))}
    /\ pc' = "createCerts"
    /\ UNCHANGED <<apiVars, cacheVars, cloudVars, queued, timer, budgets, rClass,
                   rIngs, rFps, rALB, rKept, rDoomed, rPatch>>

\* Whether the response to a creation carries the fingerprint.
Responses == IF SlowFingerprint THEN BOOLEAN ELSE {TRUE}

CreateCert ==
    /\ pc = "createCerts"
    /\ \E f \in rMissing, k \in Responses :
         LET new == [id |-> nextId, uid |-> rClass.uid, fp |-> f, known |-> k]
         IN IF nextId < MaxCerts
            THEN /\ certs' = certs \union {new}
                 /\ nextId' = nextId + 1
                 /\ \/ /\ GoTo("createCerts")
                       /\ rCerts' = rCerts \union {new}
                       /\ rMissing' = rMissing \ {f}
                       /\ UNCHANGED <<rClass, rIngs, rFps, rALB, rKept, rDoomed, rPatch>>
                    \/ Lost
            ELSE RetryLater /\ UNCHANGED <<certs, nextId, faults>>
    /\ UNCHANGED <<apiVars, cacheVars, alb, queued, edits>>

\* certIDMap keeps the first certificate of each fingerprint in list order,
\* which the API does not define; undescribed certificates are skipped.
OnePerFingerprint(C) ==
    {K \in SUBSET Described(C) :
        /\ \A c \in Described(C) : \E k \in K : k.fp = c.fp
        /\ \A k1, k2 \in K : k1.fp = k2.fp => k1 = k2}

SelectCerts ==
    /\ pc = "createCerts" /\ rMissing = {}
    /\ \E K \in OnePerFingerprint(rCerts) : rKept' = K
    /\ pc' = "apply"
    /\ UNCHANGED <<apiVars, cacheVars, cloudVars, queued, timer, budgets, rClass,
                   rIngs, rFps, rALB, rCerts, rMissing, rDoomed, rPatch>>

\* Mutant of PayloadCerts: the listeners reference fingerprints, not IDs.
PayloadFingerprints == {k.fp : k \in {r \in rKept : r.fp \in rFps}}

\* The certificates of certIDMap that the listeners of the payload reference.
PayloadCerts == Ids({k \in rKept : k.fp \in rFps})
\* Mutant of DuplicateCerts: duplicates are never cleaned up.
NoDuplicates == {}

DuplicateCerts == Ids(Described(rCerts) \ rKept)
\* GetUnusedCertificates
UnusedCerts == Ids({k \in rKept : k.fp \notin rFps})

CreatePayload == [st |-> "PENDING", ver |-> 0, certs |-> PayloadCerts,
                  routes |-> rIngs, ext |-> rClass.ext, logs |-> FALSE]
\* ToUpdatePayload takes version and log configuration from the ALB it read.
UpdatePayload == [CreatePayload EXCEPT !.ver = rALB.ver, !.logs = rALB.logs]

\* Mutants of UpdateNeeded: certificates are not compared; a load balancer without
\* routes, i.e. with the empty listener, never compares equal.
OnlyRoutesDiffer(current, desired) == current.routes # desired.routes
NeededWithoutRoutes(current, desired) ==
    \/ current.certs # desired.certs \/ current.routes # desired.routes
    \/ desired.routes = {}

\* diff.UpdateNeeded: neither the address nor the log configuration is compared.
UpdateNeeded(current, desired) ==
    current.certs # desired.certs \/ current.routes # desired.routes

\* Only edits come between a read of the ALB and its update, so versions that
\* differ are never mistaken for each other modulo this bound.
VersionBound == IF LogEdits THEN MaxEdits + 1 ELSE 1
NextVersion(v) == (v + 1) % VersionBound

\* What the API stores for an accepted update.
Updated(payload) == [payload EXCEPT !.ver = NextVersion(@)]

\* The ALB is stored; the worker continues with the response or loses it.
Stored(new) ==
    /\ alb' = [alb EXCEPT ![rClass.uid] = new]
    /\ \/ /\ GoTo("deleteDuplicates")
          /\ rALB' = new
          /\ rDoomed' = DuplicateCerts
          /\ UNCHANGED <<rClass, rIngs, rFps, rCerts, rMissing, rKept, rPatch>>
       \/ Lost

\* The ALB is written with a and the status the API gives it.
WriteALB(a) == \E st \in {"PENDING", "READY", "ERROR"} : Stored([a EXCEPT !.st = st])

Reject == RetryLater /\ UNCHANGED <<alb, faults>>

\* CreateLoadBalancer fails if the name is taken.
CreateALB ==
    /\ pc = "apply" /\ rALB.st = "none"
    /\ IF alb[rClass.uid].st = "none" THEN WriteALB(CreatePayload) ELSE Reject
    /\ UNCHANGED <<apiVars, cacheVars, certs, nextId, queued, edits>>

\* Mutant of UpdateALB: the update does not repeat the version it read.
UpdateALBUnchecked ==
    /\ pc = "apply" /\ rALB.st # "none" /\ UpdateNeeded(rALB, UpdatePayload)
    /\ IF alb[rClass.uid].st # "none" THEN WriteALB(Updated(UpdatePayload)) ELSE Reject
    /\ UNCHANGED <<apiVars, cacheVars, certs, nextId, queued, edits>>

\* UpdateLoadBalancer fails if the ALB is gone or its version has moved on.
UpdateALB ==
    /\ pc = "apply" /\ rALB.st # "none" /\ UpdateNeeded(rALB, UpdatePayload)
    /\ IF alb[rClass.uid].st # "none" /\ alb[rClass.uid].ver = UpdatePayload.ver
       THEN WriteALB(Updated(UpdatePayload))
       ELSE Reject
    /\ UNCHANGED <<apiVars, cacheVars, certs, nextId, queued, edits>>

SkipUpdate ==
    /\ pc = "apply" /\ rALB.st # "none" /\ ~UpdateNeeded(rALB, UpdatePayload)
    /\ rDoomed' = DuplicateCerts
    /\ pc' = "deleteDuplicates"
    /\ UNCHANGED <<apiVars, cacheVars, cloudVars, queued, timer, budgets, rClass,
                   rIngs, rFps, rALB, rCerts, rMissing, rKept, rPatch>>

\* One DeleteCertificate call of the loop at step s.
DeleteCertAt(s) ==
    /\ pc = s
    /\ \E d \in rDoomed :
         /\ certs' = {c \in certs : c.id # d}
         /\ \/ /\ GoTo(s)
               /\ rDoomed' = rDoomed \ {d}
               /\ UNCHANGED <<rClass, rIngs, rFps, rALB, rCerts, rMissing, rKept, rPatch>>
            \/ Lost
    /\ UNCHANGED <<apiVars, cacheVars, alb, nextId, queued, edits>>

DeleteDuplicate == DeleteCertAt("deleteDuplicates")
DeleteUnused    == DeleteCertAt("deleteUnused")

DuplicatesDeleted ==
    /\ pc = "deleteDuplicates" /\ rDoomed = {}
    /\ rDoomed' = UnusedCerts
    /\ pc' = "deleteUnused"
    /\ UNCHANGED <<apiVars, cacheVars, cloudVars, queued, timer, budgets, rClass,
                   rIngs, rFps, rALB, rCerts, rMissing, rKept, rPatch>>

UnusedDeleted ==
    /\ pc = "deleteUnused" /\ rDoomed = {}
    /\ pc' = "checkStatus"
    /\ UNCHANGED <<apiVars, cacheVars, cloudVars, queued, timer, budgets, localVars>>

\* Mutant of CheckStatus: nothing looks again at an ALB that is not READY.
CheckStatusOnce ==
    /\ pc = "checkStatus"
    /\ IF rALB.st = "READY"
       THEN /\ rPatch' = {i \in Listed : cIng[i].ip # rClass.uid}
            /\ pc' = "patchStatus"
            /\ UNCHANGED <<timer, rClass, rIngs, rFps, rALB, rCerts, rMissing,
                           rKept, rDoomed>>
       ELSE Done
    /\ UNCHANGED <<apiVars, cacheVars, cloudVars, queued, budgets>>

\* checkStatus; a READY load balancer's address goes to every listed Ingress
\* whose cached status differs.
CheckStatus ==
    /\ pc = "checkStatus"
    /\ IF rALB.st = "READY"
       THEN /\ rPatch' = {i \in Listed : cIng[i].ip # rClass.uid}
            /\ pc' = "patchStatus"
            /\ UNCHANGED <<timer, rClass, rIngs, rFps, rALB, rCerts, rMissing,
                           rKept, rDoomed>>
       ELSE RetryLater
    /\ UNCHANGED <<apiVars, cacheVars, cloudVars, queued, budgets>>

\* The API server stores an Ingress; a write that changes nothing causes no event.
WriteIngress(i, new) ==
    /\ ing' = [ing EXCEPT ![i] = new]
    /\ unseen' = IF new = ing[i] THEN unseen ELSE unseen \union {i}

\* One status patch of the loop at step s, which sets the address to ip.  A patch
\* carries no resource version; it fails only if the Ingress is gone.
PatchAt(s, ip) ==
    /\ pc = s
    /\ \E i \in rPatch :
         IF ing[i].exists
         THEN /\ WriteIngress(i, [ing[i] EXCEPT !.ip = ip])
              /\ \/ /\ GoTo(s)
                    /\ rPatch' = rPatch \ {i}
                    /\ UNCHANGED <<rClass, rIngs, rFps, rALB, rCerts, rMissing,
                                   rKept, rDoomed>>
                 \/ Lost
         ELSE RetryLater /\ UNCHANGED <<ing, unseen, faults>>
    /\ UNCHANGED <<class, lastUid, secret, cClass, cIng, cSecret, cloudVars,
                   queued, edits>>

PatchStatus == PatchAt("patchStatus", rClass.uid)

StatusPatched ==
    /\ pc = "patchStatus" /\ rPatch = {}
    /\ Done
    /\ UNCHANGED <<apiVars, cacheVars, cloudVars, queued, budgets>>

-------------------------------------------------------------------------------
(* handleIngressClassDeletion: a class with a deletion timestamp *)

WipeList ==
    /\ pc = "wipeList"
    /\ rPatch' = {i \in Listed : cIng[i].ip # 0}
    /\ pc' = "wipePatch"
    /\ UNCHANGED <<apiVars, cacheVars, cloudVars, queued, timer, budgets, rClass,
                   rIngs, rFps, rALB, rCerts, rMissing, rKept, rDoomed>>

WipePatch == PatchAt("wipePatch", 0)

\* Mutant of StatusWiped: the loop ends before the last Ingress is patched.
StatusWipedEarly ==
    /\ pc = "wipePatch"
    /\ pc' = "delGetALB"
    /\ UNCHANGED <<apiVars, cacheVars, cloudVars, queued, timer, budgets, localVars>>

StatusWiped ==
    /\ pc = "wipePatch" /\ rPatch = {}
    /\ pc' = "delGetALB"
    /\ UNCHANGED <<apiVars, cacheVars, cloudVars, queued, timer, budgets, localVars>>

\* Mutant of DelGetALB: a load balancer that is going counts as gone.
DelGetALBNoWait ==
    /\ pc = "delGetALB"
    /\ pc' = IF alb[rClass.uid].st \in {"none", "TERMINATING"}
             THEN "delListCerts" ELSE "deleteALB"
    /\ UNCHANGED <<apiVars, cacheVars, cloudVars, queued, timer, budgets, localVars>>

\* The certificates are only looked at once the ALB is NotFound.
DelGetALB ==
    /\ pc = "delGetALB"
    /\ CASE alb[rClass.uid].st = "none" ->
              pc' = "delListCerts" /\ UNCHANGED <<timer, localVars>>
         [] alb[rClass.uid].st = "TERMINATING" -> RetryLater
         [] OTHER -> pc' = "deleteALB" /\ UNCHANGED <<timer, localVars>>
    /\ UNCHANGED <<apiVars, cacheVars, cloudVars, queued, budgets>>

\* Answers 200 whether or not the ALB exists.
Terminate(a) == IF a.st = "none" THEN a ELSE [a EXCEPT !.st = "TERMINATING"]

\* Mutant of DeleteALB: nothing looks again after the deletion was asked for.
DeleteALBOnce ==
    /\ pc = "deleteALB"
    /\ alb' = [alb EXCEPT ![rClass.uid] = Terminate(@)]
    /\ Done
    /\ UNCHANGED <<apiVars, cacheVars, certs, nextId, queued, budgets>>

DeleteALB ==
    /\ pc = "deleteALB"
    /\ alb' = [alb EXCEPT ![rClass.uid] = Terminate(@)]
    /\ RetryLater
    /\ UNCHANGED <<apiVars, cacheVars, certs, nextId, queued, budgets>>

\* Mutant of DelListCerts: certificates without data are skipped, as on the live path.
DelListDescribed ==
    /\ pc = "delListCerts"
    /\ rDoomed' = Ids(Described(CertsOf(rClass.uid)))
    /\ pc' = "deleteCerts"
    /\ UNCHANGED <<apiVars, cacheVars, cloudVars, queued, timer, budgets, rClass,
                   rIngs, rFps, rALB, rCerts, rMissing, rKept, rPatch>>

DelListCerts ==
    /\ pc = "delListCerts"
    /\ rDoomed' = Ids(CertsOf(rClass.uid))
    /\ pc' = "deleteCerts"
    /\ UNCHANGED <<apiVars, cacheVars, cloudVars, queued, timer, budgets, rClass,
                   rIngs, rFps, rALB, rCerts, rMissing, rKept, rPatch>>

DeleteCert == DeleteCertAt("deleteCerts")

\* Mutant of CertsDeleted: the finalizer goes before the last certificate.
CertsDeletedEarly ==
    /\ pc = "deleteCerts"
    /\ IF rClass.fin
       THEN pc' = "removeFinalizer" /\ UNCHANGED <<timer, localVars>>
       ELSE Done
    /\ UNCHANGED <<apiVars, cacheVars, cloudVars, queued, budgets>>

CertsDeleted ==
    /\ pc = "deleteCerts" /\ rDoomed = {}
    /\ IF rClass.fin
       THEN pc' = "removeFinalizer" /\ UNCHANGED <<timer, localVars>>
       ELSE Done
    /\ UNCHANGED <<apiVars, cacheVars, cloudVars, queued, budgets>>

\* Without its last finalizer the API server removes the object.
RemoveFinalizer ==
    /\ pc = "removeFinalizer"
    /\ IF class = rClass
       THEN /\ class' = NoClass
            /\ \/ Done /\ faults' = faults
               \/ Lost
       ELSE RetryLater /\ UNCHANGED <<class, faults>>
    /\ UNCHANGED <<lastUid, ing, secret, cacheVars, cloudVars, queued, edits>>

-------------------------------------------------------------------------------
(* Failures *)

\* A call fails without effect.
CallFails ==
    /\ pc \in CallSteps /\ faults < MaxFaults
    /\ faults' = faults + 1
    /\ RetryLater
    /\ UNCHANGED <<apiVars, cacheVars, cloudVars, queued, edits>>

\* The process dies; its successor lists all objects, and the Create event of the
\* class puts it into the new queue.
Crash ==
    /\ faults < MaxFaults
    /\ faults' = faults + 1
    /\ Return
    /\ timer' = FALSE
    /\ cClass' = class /\ cIng' = ing /\ cSecret' = secret /\ unseen' = {}
    /\ queued' = (class.phase # "absent")
    /\ UNCHANGED <<apiVars, cloudVars, edits>>

-------------------------------------------------------------------------------
(* Informers: a cache catches up with the API server, and the handler in         *)
(* setup.go maps the event to a request.                                         *)

SyncClass ==
    /\ cClass # class
    /\ cClass' = class /\ queued' = TRUE
    /\ UNCHANGED <<apiVars, cIng, cSecret, unseen, cloudVars, timer, pc,
                   localVars, budgets>>

\* ingressEventHandler drops the event if the class is not in the cache.
SyncIngress(i) ==
    /\ i \in unseen
    /\ cIng' = [cIng EXCEPT ![i] = ing[i]] /\ unseen' = unseen \ {i}
    /\ queued' = (queued \/ cClass.phase # "absent")
    /\ UNCHANGED <<apiVars, cClass, cSecret, cloudVars, timer, pc,
                   localVars, budgets>>

\* Mutant of SyncSecret: events on secrets are not watched.
SyncSecretUnwatched(i) ==
    /\ cSecret[i] # secret[i]
    /\ cSecret' = [cSecret EXCEPT ![i] = secret[i]]
    /\ UNCHANGED <<apiVars, cClass, cIng, unseen, cloudVars, queued, timer, pc,
                   localVars, budgets>>

\* secretEventHandler finds the class through the cached Ingresses.
SyncSecret(i) ==
    /\ cSecret[i] # secret[i]
    /\ cSecret' = [cSecret EXCEPT ![i] = secret[i]]
    /\ queued' = (queued \/ (cIng[i].exists /\ cClass.phase # "absent"))
    /\ UNCHANGED <<apiVars, cClass, cIng, unseen, cloudVars, timer, pc,
                   localVars, budgets>>

\* An event on a Node or on a referenced Service, or the periodic resync of an
\* informer, which delivers every cached object again.
OtherEvent ==
    /\ cClass.phase # "absent" /\ ~queued
    /\ queued' = TRUE
    /\ UNCHANGED <<apiVars, cacheVars, cloudVars, timer, pc,
                   localVars, budgets>>

TimerFires ==
    /\ timer
    /\ timer' = FALSE /\ queued' = TRUE
    /\ UNCHANGED <<apiVars, cacheVars, cloudVars, pc, localVars, budgets>>

-------------------------------------------------------------------------------
(* Users *)

Edit == /\ edits < MaxEdits
        /\ edits' = edits + 1
        /\ UNCHANGED <<cClass, cIng, cSecret, queued, timer, pc, localVars, faults>>

CreateClass ==
    /\ Edit /\ class.phase = "absent" /\ lastUid < MaxUid
    /\ \E v \in BOOLEAN, x \in StaticIPs :
         class' = [phase |-> "live", uid |-> lastUid + 1, fin |-> FALSE,
                   valid |-> v, ext |-> x]
    /\ lastUid' = lastUid + 1
    /\ UNCHANGED <<ing, secret, unseen, cloudVars>>

\* The annotations change.
EditClass ==
    /\ Edit /\ class.phase = "live"
    /\ \/ class' = [class EXCEPT !.valid = ~@]
       \/ \E x \in StaticIPs \ {class.ext} : class' = [class EXCEPT !.ext = x]
    /\ UNCHANGED <<lastUid, ing, secret, unseen, cloudVars>>

\* An object with a finalizer stays, with a deletion timestamp.
DeleteClass ==
    /\ Edit /\ class.phase = "live"
    /\ class' = IF class.fin THEN [class EXCEPT !.phase = "deleting"] ELSE NoClass
    /\ UNCHANGED <<lastUid, ing, secret, unseen, cloudVars>>

ToggleIngress(i) ==
    /\ Edit
    /\ WriteIngress(i, [exists |-> ~ing[i].exists, ip |-> 0])
    /\ UNCHANGED <<class, lastUid, secret, cloudVars>>

RotateSecret(i) ==
    /\ Edit
    /\ \E f \in (Fingerprints \union {NoCert}) \ {secret[i]} :
         secret' = [secret EXCEPT ![i] = f]
    /\ UNCHANGED <<class, lastUid, ing, unseen, cloudVars>>

\* The log configuration of an ALB is changed out of band, and its version moves on.
OtherLogs(a) == [a EXCEPT !.logs = ~a.logs, !.ver = NextVersion(a.ver)]

EditLogs(u) ==
    /\ Edit /\ LogEdits /\ alb[u].st \notin {"none", "TERMINATING"}
    /\ alb' = [alb EXCEPT ![u] = OtherLogs(@)]
    /\ UNCHANGED <<apiVars, unseen, certs, nextId>>

-------------------------------------------------------------------------------
(* STACKIT *)

\* Provisioning ends, well or not; an ALB in error may recover.
Settle(u, st) ==
    /\ alb[u].st \in {"PENDING", "ERROR"} /\ alb[u].st # st
    /\ alb' = [alb EXCEPT ![u].st = st]
    /\ UNCHANGED <<apiVars, cacheVars, certs, nextId, queued, timer, pc,
                   localVars, budgets>>

ALBReady(u) == Settle(u, "READY")
ALBError(u) == Settle(u, "ERROR")

ALBGone(u) ==
    /\ alb[u].st = "TERMINATING"
    /\ alb' = [alb EXCEPT ![u] = NoALB]
    /\ UNCHANGED <<apiVars, cacheVars, certs, nextId, queued, timer, pc,
                   localVars, budgets>>

\* The fingerprint of a certificate becomes available.
DescribeCert ==
    /\ \E c \in certs :
         /\ ~c.known
         /\ certs' = (certs \ {c}) \union {[c EXCEPT !.known = TRUE]}
    /\ UNCHANGED <<apiVars, cacheVars, alb, nextId, queued, timer, pc,
                   localVars, budgets>>

-------------------------------------------------------------------------------
(* Specification *)

ReconcileLive ==
    \/ AddFinalizer \/ ReadCaches \/ GetALB \/ ListCerts \/ CreateCert
    \/ SelectCerts \/ CreateALB \/ UpdateALB \/ SkipUpdate \/ DeleteDuplicate
    \/ DuplicatesDeleted \/ DeleteUnused \/ UnusedDeleted \/ CheckStatus
    \/ PatchStatus \/ StatusPatched

ReconcileDeletion ==
    \/ WipeList \/ WipePatch \/ StatusWiped \/ DelGetALB \/ DeleteALB
    \/ DelListCerts \/ DeleteCert \/ CertsDeleted \/ RemoveFinalizer

Worker == Begin \/ ReconcileLive \/ ReconcileDeletion

Informers == \/ SyncClass \/ OtherEvent \/ TimerFires
             \/ \E i \in Ingresses : SyncIngress(i) \/ SyncSecret(i)

Users == \/ CreateClass \/ EditClass \/ DeleteClass
         \/ \E i \in Ingresses : ToggleIngress(i) \/ RotateSecret(i)
         \/ \E u \in Uids : EditLogs(u)

Cloud == \/ \E u \in Uids : ALBReady(u) \/ ALBError(u) \/ ALBGone(u)
         \/ DescribeCert

Next == Worker \/ CallFails \/ Crash \/ Informers \/ Users \/ Cloud

Spec == Init /\ [][Next]_vars

\* The worker runs while it has work, watches deliver, timers fire, and the cloud
\* finishes what it has begun.  Users and failures owe nothing.
Fairness ==
    /\ WF_vars(Worker)
    /\ WF_vars(SyncClass)
    /\ \A i \in Ingresses : WF_vars(SyncIngress(i)) /\ WF_vars(SyncSecret(i))
    /\ WF_vars(TimerFires)
    /\ \A u \in Uids : WF_vars(ALBReady(u)) /\ WF_vars(ALBGone(u))
    /\ WF_vars(DescribeCert)

FairSpec == Spec /\ Fairness

-------------------------------------------------------------------------------
(* Properties *)

ApiTypes ==
    /\ class \in ClassRecord /\ lastUid \in 0 .. MaxUid
    /\ ing \in [Ingresses -> IngressRecord]
    /\ secret \in [Ingresses -> Fingerprints \union {NoCert}]

CacheTypes ==
    /\ cClass \in ClassRecord /\ cIng \in [Ingresses -> IngressRecord]
    /\ cSecret \in [Ingresses -> Fingerprints \union {NoCert}]
    /\ unseen \subseteq Ingresses

CloudTypes ==
    /\ alb \in [Uids -> ALBRecord]
    /\ certs \subseteq CertRecord /\ nextId \in Nat

QueueTypes == queued \in BOOLEAN /\ timer \in BOOLEAN
BudgetTypes == edits \in Nat /\ faults \in Nat

\* A worker that is not idle has read a class.
WorkerTypes ==
    /\ pc \in Steps /\ rClass \in ClassRecord /\ (pc # "idle" => rClass # NoClass)
    /\ rIngs \subseteq Ingresses /\ rFps \subseteq Fingerprints
    /\ rALB \in ALBRecord /\ rCerts \subseteq CertRecord
    /\ rMissing \subseteq Fingerprints /\ rKept \subseteq CertRecord
    /\ rDoomed \subseteq Nat /\ rPatch \subseteq Ingresses

\* Every variable has its type.
TypeOK == /\ ApiTypes /\ CacheTypes /\ CloudTypes
          /\ QueueTypes /\ WorkerTypes /\ BudgetTypes

\* A load balancer never references a certificate that has been deleted, or one
\* of another incarnation: duplicates, unused certificates and the certificates
\* of a deleted class go only after the ALB has let go of them.
NoDanglingCert == \A u \in Uids : alb[u].certs \subseteq Ids(CertsOf(u))

\* Load balancers and certificates exist only while the class that owns them is
\* there and holds our finalizer: nothing billable outlives its IngressClass.
NothingOrphaned ==
    \A u \in Uids :
        alb[u].st # "none" \/ CertsOf(u) # {} =>
            class.uid = u /\ class.phase # "absent" /\ class.fin

\* Once every response carries the fingerprint, the reconciler never holds two
\* certificates for one key pair, however often it is interrupted.
NoDuplicateCert ==
    ~SlowFingerprint =>
        \A c, d \in certs : c.uid = d.uid /\ c.fp = d.fp => c = d

\* The external-ip annotation set on a live class is promoted: by the time the
\* reconciler publishes the address, the ALB of that class has a static one.
ExternalIPPromoted ==
    pc = "patchStatus" /\ rClass.ext => alb[rClass.uid].ext

\* Only a deletion of the class takes its load balancer out of service; an
\* invalid annotation, a fault or a race never does.
ALBSurvivesUnlessDeleted ==
    [][\A u \in Uids :
          /\ alb[u].st \in {"PENDING", "READY", "ERROR"}
          /\ alb'[u].st \in {"none", "TERMINATING"}
          => class.uid = u /\ class.phase = "deleting"]_vars

\* An out-of-band change of the log configuration is never undone by the
\* reconciler: as long as the ALB exists, only another edit changes it.
LogsKept ==
    [][\A u \in Uids :
          alb[u].st # "none" /\ alb'[u].st # "none" /\ alb'[u].logs # alb[u].logs
          => edits' # edits]_vars

-------------------------------------------------------------------------------
(* The resources of a class, as ResourceLifecycle sees them *)

OwnerOf(u) ==
    IF class.uid = u /\ class.fin
    THEN IF class.phase = "deleting" THEN "leaving" ELSE "held"
    ELSE "free"

ServiceOf(u) ==
    CASE alb[u].st = "none"        -> "none"
      [] alb[u].st = "TERMINATING" -> "down"
      [] OTHER                     -> "up"

Lifecycle == INSTANCE ResourceLifecycle
             WITH Owners  <- Uids,
                  owner   <- [u \in Uids |-> OwnerOf(u)],
                  service <- [u \in Uids |-> ServiceOf(u)],
                  owned   <- [u \in Uids |-> Ids(CertsOf(u))],
                  used    <- [u \in Uids |-> alb[u].certs]

\* With caches, retries, crashes and lost responses, the reconciler does to the
\* resources of a class only what ResourceLifecycle allows, in that order.
ImplementsLifecycle == Lifecycle!Spec

-------------------------------------------------------------------------------
(* Liveness *)

\* What the cloud looks like once the reconciler has done its work for a class.
Referenced == {i \in Ingresses : ing[i].exists}
WantedFps  == {secret[i] : i \in Referenced} \ {NoCert}

InSync ==
    class.phase = "live" /\ class.valid =>
        LET a == alb[class.uid] IN
        /\ class.fin
        /\ a.st = "READY" /\ a.routes = Referenced
        /\ {c.fp : c \in CertsOf(class.uid)} = WantedFps
        /\ Cardinality(CertsOf(class.uid)) = Cardinality(WantedFps)
        /\ a.certs = Ids(CertsOf(class.uid))
        /\ \A i \in Referenced : ing[i].ip = class.uid

\* When the users and the failures stop, the ALB, its certificates and the status
\* of the Ingresses come to agree with the Kubernetes objects, and stay so.
Converges == <>[]InSync

\* A deleted class goes away: its ALB, its certificates and then its finalizer.
DeletionCompletes ==
    \A u \in Uids : class.uid = u /\ class.phase = "deleting" ~> class.uid # u

\* The reconciler comes to rest: further events make it write nothing.
WritesStop == <>[][UNCHANGED <<class, ing, cloudVars>>]_vars

-------------------------------------------------------------------------------
(* The inductive invariant behind NothingOrphaned and NoDanglingCert *)

LiveSteps == {"readCaches", "getALB", "listCerts", "createCerts", "apply",
              "deleteDuplicates", "deleteUnused", "checkStatus", "patchStatus"}
DeletionSteps == {"wipeList", "wipePatch", "delGetALB", "deleteALB",
                  "delListCerts", "deleteCerts", "removeFinalizer"}

\* The class that is cached, or that the worker acts on, is the stored one or an
\* earlier incarnation of it, and a deletion or our finalizer is never taken back.
Lineage ==
    /\ class.uid <= lastUid /\ cClass.uid <= lastUid /\ rClass.uid <= lastUid
    /\ cClass.phase = "live" /\ cClass.fin => class.uid = cClass.uid /\ class.fin
    /\ cClass.phase = "deleting" /\ class.uid = cClass.uid => class.phase = "deleting"
    /\ pc \in LiveSteps => class.uid = rClass.uid /\ class.fin
    /\ pc \in DeletionSteps =>
         /\ rClass.phase = "deleting"
         /\ class.uid = rClass.uid => class.phase = "deleting"
         /\ cClass.uid = rClass.uid => cClass.phase = "deleting"

\* Past the check that the ALB is gone, the deletion path leaves nothing behind.
Teardown ==
    /\ pc \in {"delListCerts", "deleteCerts", "removeFinalizer"} =>
         alb[rClass.uid].st = "none"
    /\ pc = "deleteCerts" => Ids(CertsOf(rClass.uid)) \subseteq rDoomed
    /\ pc = "removeFinalizer" => CertsOf(rClass.uid) = {}

\* Certificate IDs are unique, and an ALB that is not there references nothing.
CloudSane ==
    /\ \A c \in certs : c.id < nextId
    /\ \A c, d \in certs : c.id = d.id => c = d
    /\ \A u \in Uids : alb[u].st = "none" => alb[u].certs = {}

\* What the worker has listed is stored, and it keeps one record for each ID.
CertsListed ==
    /\ pc \in {"createCerts", "apply"} =>
         /\ Ids(rCerts) \subseteq Ids(CertsOf(rClass.uid))
         /\ \A c, d \in rCerts : c.id = d.id => c = d
    /\ pc = "apply" => rKept \subseteq rCerts

\* What the worker is about to delete the ALB does not reference, or it belongs to
\* a class without ALB; what it read of the ALB covers what is stored until it
\* writes the ALB.
Doomed ==
    /\ pc \in {"listCerts", "createCerts", "apply"} =>
         alb[rClass.uid].certs \subseteq rALB.certs
    /\ pc \in {"deleteDuplicates", "deleteUnused"} =>
         rDoomed \intersect alb[rClass.uid].certs = {}
    /\ pc = "deleteDuplicates" => UnusedCerts \intersect alb[rClass.uid].certs = {}
    /\ pc = "deleteCerts" =>
         \A c \in certs : c.id \in rDoomed => c.uid = rClass.uid

IInv == /\ TypeOK /\ Lineage
        /\ Teardown /\ CloudSane /\ CertsListed /\ Doomed
        /\ NothingOrphaned /\ NoDanglingCert
===============================================================================
