-------------------------------- MODULE Handover --------------------------------
(* A change of leader (src/cmd/application-load-balancer-controller/main.go):  *)
(* the manager releases its lease when it is told to stop, and another replica *)
(* starts while the last call of the old leader may still be under way.  The   *)
(* call takes effect later, in the middle of what the new leader does.         *)
(*                                                                             *)
(* Everything else is Reconciler: its Crash stands for a leader whose calls    *)
(* have all come to an end.                                                    *)
EXTENDS Reconciler

\* The cluster has the class from the start.
ASSUME ClassThere == MaxUid # 0

VARIABLE late   \* the call that the old leader has left behind

NoCall == [call |-> "none"]
allVars == <<vars, late>>

\* The controller starts in a cluster that has the class, the Ingresses and
\* their secrets: it lists them, and the class is put into the queue.
InitBoth ==
    /\ class = [phase |-> "live", uid |-> 1, fin |-> FALSE, valid |-> TRUE, ext |-> FALSE]
    /\ lastUid = 1
    /\ ing = [i \in Ingresses |-> [exists |-> TRUE, ip |-> 0]]
    /\ secret \in [Ingresses -> Fingerprints]
    /\ cClass = class /\ cIng = ing /\ cSecret = secret /\ unseen = {}
    /\ alb = [u \in Uids |-> NoALB] /\ certs = {} /\ nextId = 0
    /\ queued = TRUE /\ timer = FALSE /\ pc = "idle"
    /\ rClass = NoClass /\ rIngs = {} /\ rFps = {} /\ rALB = NoALB
    /\ rCerts = {} /\ rMissing = {} /\ rKept = {} /\ rDoomed = {} /\ rPatch = {}
    /\ edits = 0 /\ faults = 0 /\ late = NoCall

-------------------------------------------------------------------------------
(* What the worker may have under way *)

If(cond, S) == IF cond THEN S ELSE {}

CertCalls ==
    If(pc = "createCerts", {[call |-> "createCert", uid |-> rClass.uid, fp |-> f] : f \in rMissing})
    \union If(pc \in {"deleteDuplicates", "deleteUnused", "deleteCerts"},
              {[call |-> "deleteCert", id |-> d] : d \in rDoomed})

ALBCalls ==
    If(pc = "apply" /\ rALB.st = "none",
       {[call |-> "createALB", uid |-> rClass.uid, alb |-> CreatePayload]})
    \union If(pc = "apply" /\ rALB.st # "none" /\ UpdateNeeded(rALB, UpdatePayload),
              {[call |-> "updateALB", uid |-> rClass.uid, alb |-> UpdatePayload]})
    \union If(pc = "deleteALB", {[call |-> "deleteALB", uid |-> rClass.uid]})

KubernetesCalls ==
    If(pc \in {"patchStatus", "wipePatch"},
       {[call |-> "patch", ing |-> i, ip |-> IF pc = "wipePatch" THEN 0 ELSE rClass.uid] :
          i \in rPatch})
    \union If(pc \in {"addFinalizer", "removeFinalizer"},
              {[call |-> pc, class |-> rClass]})

\* The lease goes to another replica, which starts like any new process.
StepDown ==
    /\ late = NoCall
    /\ late' \in CertCalls \union ALBCalls \union KubernetesCalls
    /\ Crash

-------------------------------------------------------------------------------
(* Its late effect, the same as if the worker were still waiting for it *)

CreateCertificate ==
    /\ late.call = "createCert" /\ nextId < MaxCerts
    /\ \E k \in Responses :
         certs' = certs \union {[id |-> nextId, uid |-> late.uid, fp |-> late.fp, known |-> k]}
    /\ nextId' = nextId + 1 /\ alb' = alb

DeleteCertificate ==
    /\ late.call = "deleteCert"
    /\ certs' = {c \in certs : c.id # late.id}
    /\ UNCHANGED <<nextId, alb>>

CreateLoadBalancer ==
    /\ late.call = "createALB" /\ alb[late.uid].st = "none"
    /\ \E st \in {"PENDING", "READY", "ERROR"} :
         alb' = [alb EXCEPT ![late.uid] = [late.alb EXCEPT !.st = st]]
    /\ UNCHANGED <<certs, nextId>>

\* Mutant of UpToDate: the late update does not repeat the version that it read.
StillThere(u, payload) == alb[u].st # "none" /\ payload.ver \in Nat

\* The load balancer that an update is for is still the one that it read.
UpToDate(u, payload) == alb[u].st # "none" /\ alb[u].ver = payload.ver

UpdateLoadBalancer ==
    /\ late.call = "updateALB" /\ UpToDate(late.uid, late.alb)
    /\ \E st \in {"PENDING", "READY", "ERROR"} :
         alb' = [alb EXCEPT ![late.uid] = [Updated(late.alb) EXCEPT !.st = st]]
    /\ UNCHANGED <<certs, nextId>>

DeleteLoadBalancer ==
    /\ late.call = "deleteALB"
    /\ alb' = [alb EXCEPT ![late.uid] = Terminate(@)]
    /\ UNCHANGED <<certs, nextId>>

LateSTACKIT ==
    /\ \/ CreateCertificate \/ DeleteCertificate
       \/ CreateLoadBalancer \/ UpdateLoadBalancer \/ DeleteLoadBalancer
    /\ UNCHANGED <<apiVars, unseen>>

LateKubernetes ==
    /\ \/ /\ late.call = "patch" /\ ing[late.ing].exists
          /\ WriteIngress(late.ing, [ing[late.ing] EXCEPT !.ip = late.ip])
          /\ UNCHANGED class
       \/ /\ late.call = "addFinalizer" /\ class = late.class
          /\ class' = [class EXCEPT !.fin = TRUE]
          /\ UNCHANGED <<ing, unseen>>
       \/ /\ late.call = "removeFinalizer" /\ class = late.class
          /\ class' = NoClass
          /\ UNCHANGED <<ing, unseen>>
    /\ UNCHANGED <<lastUid, secret, cloudVars>>

LateCall ==
    /\ LateSTACKIT \/ LateKubernetes
    /\ late' = NoCall
    /\ UNCHANGED <<cClass, cIng, cSecret, queued, timer, pc, localVars, budgets>>

\* The call fails, or never arrives.
LateCallFails ==
    /\ late # NoCall /\ late' = NoCall
    /\ UNCHANGED vars

NextBoth == (Next /\ UNCHANGED late) \/ StepDown \/ LateCall \/ LateCallFails

\* What is under way comes to an end, and the informers resync.
SpecBoth == /\ InitBoth /\ [][NextBoth]_allVars
            /\ Fairness /\ WF_vars(OtherEvent)
            /\ WF_allVars(LateCall \/ LateCallFails)

-------------------------------------------------------------------------------
(* Properties *)

\* Converges, LogsKept and WritesStop of Reconciler hold for SpecBoth, too: what a late
\* call has deleted, created or overwritten is set right, except what others have
\* edited since, and the new leader comes to rest while resync events go on.

\* No call, late or not, takes down the load balancer of a class that stays.
LiveALBSurvives ==
    [][\A u \in Uids :
          /\ alb[u].st \in {"PENDING", "READY", "ERROR"}
          /\ alb'[u].st \in {"none", "TERMINATING"}
          => class.uid # u \/ class.phase # "live"]_allVars
===============================================================================
