------------------------------ MODULE RaceProofs ------------------------------
(* Proofs about the reconciler among those who act beside it: it implements    *)
(* ResourceLifecycle; it holds no certificate twice, leaves the address of a   *)
(* load balancer that is going only where its cache is behind, and undoes no   *)
(* change made out of band; and no call of an old leader, however late, takes  *)
(* down the load balancer of a class that stays.  They build on the invariant  *)
(* of ReconcilerProofs.                                                        *)
EXTENDS Handover, StatusHistory, ReconcilerProofs

-------------------------------------------------------------------------------
(* ResourceLifecycle: the invariant *)

\* A load balancer that is going belongs to a class that is being deleted, and the
\* cache and the worker cannot take that class for a live one any more.
Leaving == \A u \in Uids : alb[u].st = "TERMINATING" =>
    /\ class.uid = u => class.phase = "deleting"
    /\ cClass.uid = u => cClass.phase = "deleting"
    /\ pc \in LiveSteps \union {"addFinalizer"} => rClass.uid # u

\* The finalizer is only added to a class that was read as live.
Adding == pc = "addFinalizer" => rClass.phase = "live"

LInv == IInv /\ Leaving /\ Adding

LEMMA LInvInit == Init => LInv
<1>1. Init => Leaving /\ Adding
  BY DEF Init, Leaving, Adding, NoALB
<1> QED
  BY <1>1, InvInit DEF LInv

LEMMA AddingStep == ASSUME TypeOK, Adding, [Next]_vars PROVE Adding'
<1> USE DEF Adding
<1>1. CASE Begin
  BY <1>1, ClassFields DEF Begin, TypeOK, CacheTypes
<1>2. CASE AddFinalizer \/ RemoveFinalizer \/ CallFails \/ Crash
  BY <1>2, ReturnEnds
     DEF AddFinalizer, RemoveFinalizer, CallFails, Crash, Return, GoTo, Ends
<1>3. CASE SyncClass \/ CreateClass \/ EditClass \/ DeleteClass
  BY <1>3 DEF SyncClass, CreateClass, EditClass, DeleteClass, Edit, localVars
<1>4. CASE Elsewhere
  BY <1>4, ElsewhereKeeps DEF localVars
<1>5. CASE (ReconcileLive /\ ~AddFinalizer) \/ (ReconcileDeletion /\ ~RemoveFinalizer)
  BY <1>5, MiddleSteps DEF Ends, GoesOn, LiveSteps, DeletionSteps
<1> QED
  BY <1>1, <1>2, <1>3, <1>4, <1>5, StepCases

\* A load balancer is told to go by DeleteALB only, so for a class being deleted.
LEMMA StartsLeaving ==
    ASSUME IInv, [Next]_vars, NEW u \in Uids,
           alb'[u].st = "TERMINATING", alb[u].st # "TERMINATING"
    PROVE  DeleteALB /\ rClass.uid = u
<1>1. alb \in [Uids -> ALBRecord] /\ CloudTypes
  BY DEF IInv, TypeOK, CloudTypes
<1>2. CASE CreateALB \/ UpdateALB
  <2>1. rClass.uid \in Uids
    BY <1>2, Running DEF IInv, CreateALB, UpdateALB
  <2>2. CreatePayload \in ALBRecord /\ Updated(UpdatePayload) \in ALBRecord
    BY PayloadTypes DEF IInv
  <2>3. ASSUME NEW a \in ALBRecord, WriteALB(a) PROVE alb'[u].st # "TERMINATING"
    <3>1. PICK st \in {"PENDING", "READY", "ERROR"} : Stored([a EXCEPT !.st = st])
      BY <2>3 DEF WriteALB
    <3>2. [a EXCEPT !.st = st].st = st
      BY DEF ALBRecord
    <3> QED
      BY <1>1, <2>1, <3>1, <3>2 DEF Stored
  <2> QED
    BY <1>2, <2>2, <2>3 DEF CreateALB, UpdateALB, Reject
<1>3. CASE DeleteALB
  BY <1>1, <1>3 DEF DeleteALB
<1>4. CASE \E v \in Uids : EditLogs(v)
  BY <1>1, <1>4 DEF EditLogs, OtherLogs, ALBRecord
<1>5. CASE \E v \in Uids : ALBReady(v) \/ ALBError(v)
  BY <1>1, <1>5 DEF ALBReady, ALBError, Settle, ALBRecord
<1>6. CASE \E v \in Uids : ALBGone(v)
  BY <1>1, <1>6 DEF ALBGone, NoALB
<1> QED
  BY <1>2, <1>3, <1>4, <1>5, <1>6, WhoTouchesALBs

\* What was leaving stays so, whatever is done to the classes.
LEMMA StaysLeaving ==
    ASSUME IInv, Leaving, Adding, [Next]_vars, NEW u \in Uids, alb[u].st = "TERMINATING"
    PROVE  /\ class'.uid = u => class'.phase = "deleting"
           /\ cClass'.uid = u => cClass'.phase = "deleting"
           /\ pc' \in LiveSteps \union {"addFinalizer"} => rClass'.uid # u
<1> USE DEF Leaving
<1>0. /\ class.uid = u /\ class \in ClassRecord /\ u # 0
      /\ cClass \in ClassRecord /\ NoClass.uid = 0
  BY DEF IInv, NothingOrphaned, TypeOK, ApiTypes, CacheTypes, Uids, NoClass
<1>1. CASE Begin
  BY <1>0, <1>1 DEF Begin, apiVars, cacheVars, LiveSteps
<1>2. CASE AddFinalizer
  BY <1>0, <1>2, ReturnEnds DEF AddFinalizer, Ends, GoTo, LiveSteps, cacheVars
<1>3. CASE RemoveFinalizer \/ CallFails \/ Crash
  BY <1>0, <1>3, ReturnEnds
     DEF RemoveFinalizer, CallFails, Crash, Return, Ends, apiVars, cacheVars, LiveSteps
<1>4. CASE SyncClass
  BY <1>0, <1>4 DEF SyncClass, apiVars, localVars
<1>5. CASE CreateClass \/ EditClass
  BY <1>0, <1>5 DEF CreateClass, EditClass
<1>6. CASE DeleteClass
  BY <1>0, <1>6 DEF DeleteClass
<1>7. CASE Elsewhere
  BY <1>7, ElsewhereKeeps DEF KeepsClasses, localVars
<1>8. CASE (ReconcileLive /\ ~AddFinalizer) \/ (ReconcileDeletion /\ ~RemoveFinalizer)
  BY <1>0, <1>8, MiddleSteps
     DEF KeepsClasses, Ends, GoesOn, LiveSteps, DeletionSteps
<1> QED
  BY <1>1, <1>2, <1>3, <1>4, <1>5, <1>6, <1>7, <1>8, StepCases

LEMMA LeavingStep == ASSUME LInv, [Next]_vars PROVE Leaving'
<1> SUFFICES ASSUME NEW u \in Uids, alb'[u].st = "TERMINATING"
             PROVE  /\ class'.uid = u => class'.phase = "deleting"
                    /\ cClass'.uid = u => cClass'.phase = "deleting"
                    /\ pc' \in LiveSteps \union {"addFinalizer"} => rClass'.uid # u
  BY DEF Leaving
<1>1. CASE alb[u].st = "TERMINATING"
  BY <1>1, StaysLeaving DEF LInv
<1>2. CASE alb[u].st # "TERMINATING"
  <2>1. DeleteALB /\ rClass.uid = u
    BY <1>2, StartsLeaving DEF LInv
  <2>2. /\ UNCHANGED <<class, cClass>> /\ pc' = "idle" /\ pc \in DeletionSteps
    BY <2>1, ReturnEnds DEF DeleteALB, Ends, apiVars, cacheVars, DeletionSteps
  <2> QED
    BY <2>1, <2>2 DEF LInv, IInv, Lineage, LiveSteps
<1> QED
  BY <1>1, <1>2

LEMMA LInvStep == LInv /\ [Next]_vars => LInv'
  BY InvStep, AddingStep, LeavingStep DEF LInv, IInv

-------------------------------------------------------------------------------
(* ResourceLifecycle: the abstract steps *)

\* Each step of the reconciler is seen as what it does to the four functions.
OwnersKept   == \A u \in Uids : OwnerOf(u)' = OwnerOf(u)
ServicesKept == \A u \in Uids : ServiceOf(u)' = ServiceOf(u)
OwnedKept    == \A u \in Uids : Ids(CertsOf(u))' = Ids(CertsOf(u))
UsedKept     == \A u \in Uids : alb'[u].certs = alb[u].certs

LEMMA Kept ==
    /\ class' = class => OwnersKept
    /\ alb' = alb => ServicesKept /\ UsedKept
    /\ certs' = certs => OwnedKept
  BY DEF OwnersKept, OwnerOf, ServicesKept, ServiceOf, UsedKept, OwnedKept, CertsOf, Ids

LEMMA Stutter ==
    OwnersKept /\ ServicesKept /\ OwnedKept /\ UsedKept => UNCHANGED Lifecycle!vars
  BY DEF OwnersKept, ServicesKept, OwnedKept, UsedKept, Lifecycle!vars

LEMMA HoldStep ==
    ASSUME NEW u \in Uids, ServicesKept, OwnedKept, UsedKept,
           OwnerOf(u) = "free", OwnerOf(u)' = "held",
           \A v \in Uids : v # u => OwnerOf(v)' = OwnerOf(v)
    PROVE  Lifecycle!Next
  BY DEF ServicesKept, OwnedKept, UsedKept, Lifecycle!Next, Lifecycle!Hold

LEMMA LeaveStep ==
    ASSUME NEW u \in Uids, ServicesKept, OwnedKept, UsedKept,
           OwnerOf(u) = "held", OwnerOf(u)' = "leaving",
           \A v \in Uids : v # u => OwnerOf(v)' = OwnerOf(v)
    PROVE  Lifecycle!Next
  BY DEF ServicesKept, OwnedKept, UsedKept, Lifecycle!Next, Lifecycle!Leave

LEMMA LetGoStep ==
    ASSUME NEW u \in Uids, ServicesKept, OwnedKept, UsedKept,
           OwnerOf(u) = "leaving", ServiceOf(u) = "none", Ids(CertsOf(u)) = {},
           OwnerOf(u)' = "free", \A v \in Uids : v # u => OwnerOf(v)' = OwnerOf(v)
    PROVE  Lifecycle!Next
  BY DEF ServicesKept, OwnedKept, UsedKept, Lifecycle!Next, Lifecycle!LetGo

LEMMA AddCertStep ==
    ASSUME NEW u \in Uids, OwnersKept, ServicesKept, UsedKept, OwnerOf(u) # "free",
           NEW c, Ids(CertsOf(u))' = Ids(CertsOf(u)) \union {c},
           \A v \in Uids : v # u => Ids(CertsOf(v))' = Ids(CertsOf(v))
    PROVE  Lifecycle!Next
<1>1. [v \in Uids |-> Ids(CertsOf(v))]' =
         [[v \in Uids |-> Ids(CertsOf(v))] EXCEPT ![u] = @ \union {c}]
  OBVIOUS
<1>2. c \in [v \in Uids |-> Ids(CertsOf(v))]'[u]
  OBVIOUS
<1>3. UNCHANGED <<[v \in Uids |-> OwnerOf(v)], [v \in Uids |-> ServiceOf(v)],
                  [v \in Uids |-> alb[v].certs]>>
  BY DEF OwnersKept, ServicesKept, UsedKept
<1>4. Lifecycle!AddCert(u)
  BY <1>1, <1>2, <1>3 DEF Lifecycle!AddCert
<1> QED
  BY <1>4 DEF Lifecycle!Next

LEMMA DropCertStep ==
    ASSUME NEW u \in Uids, OwnersKept, ServicesKept, UsedKept,
           NEW c \in Ids(CertsOf(u)) \ alb[u].certs,
           Ids(CertsOf(u))' = Ids(CertsOf(u)) \ {c},
           \A v \in Uids : v # u => Ids(CertsOf(v))' = Ids(CertsOf(v))
    PROVE  Lifecycle!Next
<1>1. [v \in Uids |-> Ids(CertsOf(v))]' =
         [[v \in Uids |-> Ids(CertsOf(v))] EXCEPT ![u] = @ \ {c}]
  OBVIOUS
<1>2. UNCHANGED <<[v \in Uids |-> OwnerOf(v)], [v \in Uids |-> ServiceOf(v)],
                  [v \in Uids |-> alb[v].certs]>>
  BY DEF OwnersKept, ServicesKept, UsedKept
<1>3. Lifecycle!DropCert(u)
  BY <1>1, <1>2 DEF Lifecycle!DropCert
<1> QED
  BY <1>3 DEF Lifecycle!Next

LEMMA ServeStep ==
    ASSUME NEW u \in Uids, OwnersKept, OwnedKept, OwnerOf(u) # "free",
           ServiceOf(u) # "down", ServiceOf(u)' = "up",
           alb'[u].certs \subseteq Ids(CertsOf(u)),
           \A v \in Uids : v # u => alb'[v] = alb[v]
    PROVE  Lifecycle!Next
<1>1. \A v \in Uids : v # u => ServiceOf(v)' = ServiceOf(v)
  BY DEF ServiceOf
<1>2. ServiceOf(u) \in {"none", "up"}
  BY DEF ServiceOf
<1> QED
  BY <1>1, <1>2 DEF OwnersKept, OwnedKept, Lifecycle!Next, Lifecycle!Serve

LEMMA TakeDownStep ==
    ASSUME NEW u \in Uids, OwnersKept, OwnedKept, UsedKept, OwnerOf(u) = "leaving",
           ServiceOf(u) = "up", ServiceOf(u)' = "down",
           \A v \in Uids : v # u => ServiceOf(v)' = ServiceOf(v)
    PROVE  Lifecycle!Next
  BY DEF OwnersKept, OwnedKept, UsedKept, Lifecycle!Next, Lifecycle!TakeDown

LEMMA VanishStep ==
    ASSUME NEW u \in Uids, OwnersKept, OwnedKept,
           ServiceOf(u) = "down", ServiceOf(u)' = "none", alb'[u].certs = {},
           \A v \in Uids : v # u => alb'[v] = alb[v]
    PROVE  Lifecycle!Next
<1>1. \A v \in Uids : v # u => ServiceOf(v)' = ServiceOf(v)
  BY DEF ServiceOf
<1> QED
  BY <1>1 DEF OwnersKept, OwnedKept, Lifecycle!Next, Lifecycle!Vanish

-------------------------------------------------------------------------------
(* ResourceLifecycle: the steps of the reconciler, one abstract step at a time *)

AbstractStep == Lifecycle!Next \/ UNCHANGED Lifecycle!vars

\* No incarnation but the stored one is owned.
LEMMA Owners == ASSUME NEW u \in Uids
    PROVE  /\ class.uid = u /\ class.fin => OwnerOf(u) # "free"
           /\ OwnerOf(u) = "leaving" <=>
                class.uid = u /\ class.fin /\ class.phase = "deleting"
           /\ OwnerOf(u) = "free" <=> ~(class.uid = u /\ class.fin)
  BY DEF OwnerOf

\* Steps that leave the class and the resources alone.
LEMMA Elsewheres == UNCHANGED <<class, alb, certs>> => AbstractStep
  BY Kept, Stutter DEF AbstractStep

\* The users and the finalizer.
LEMMA ClassSteps ==
    ASSUME LInv, CreateClass \/ EditClass \/ DeleteClass
    PROVE  AbstractStep
<1>1. UNCHANGED <<alb, certs>> /\ class \in ClassRecord
  BY DEF CreateClass, EditClass, DeleteClass, cloudVars, LInv, IInv, TypeOK, ApiTypes
<1>2. ServicesKept /\ OwnedKept /\ UsedKept
  BY <1>1, Kept
<1>3. CASE CreateClass
  <2>1. ~class.fin /\ ~class'.fin
    BY <1>1, <1>3, ClassFields DEF CreateClass, NoClass
  <2>2. OwnersKept
    BY <2>1 DEF OwnersKept, OwnerOf
  <2> QED
    BY <1>2, <2>2, Stutter DEF AbstractStep
<1>4. CASE EditClass
  <2>1. class'.uid = class.uid /\ class'.phase = class.phase /\ class'.fin = class.fin
    BY <1>1, <1>4, AnnotationEdited DEF EditClass
  <2>2. OwnersKept
    BY <2>1 DEF OwnersKept, OwnerOf
  <2> QED
    BY <1>2, <2>2, Stutter DEF AbstractStep
<1>5. CASE DeleteClass /\ class.fin
  <2>1. /\ class'.uid = class.uid /\ class'.fin /\ class'.phase = "deleting"
        /\ class.phase = "live" /\ class.uid \in Uids
    BY <1>1, <1>5, ClassFields DEF DeleteClass, ClassRecord, NoClass
  <2> QED
    BY <1>2, <1>5, <2>1, LeaveStep DEF AbstractStep, OwnerOf
<1>6. CASE DeleteClass /\ ~class.fin
  <2>1. OwnersKept
    BY <1>6 DEF DeleteClass, OwnersKept, OwnerOf, NoClass
  <2> QED
    BY <1>2, <2>1, Stutter DEF AbstractStep
<1> QED
  BY <1>3, <1>4, <1>5, <1>6

LEMMA FinalizerSteps ==
    ASSUME LInv, AddFinalizer \/ RemoveFinalizer
    PROVE  AbstractStep
<1>1. UNCHANGED <<alb, certs>> /\ class \in ClassRecord
  BY DEF AddFinalizer, RemoveFinalizer, cloudVars, LInv, IInv, TypeOK, ApiTypes
<1>2. ServicesKept /\ OwnedKept /\ UsedKept
  BY <1>1, Kept
<1>3. CASE class' = class
  BY <1>1, <1>3, Elsewheres
<1>4. CASE AddFinalizer /\ class' # class
  <2>1. class = rClass /\ class' = [class EXCEPT !.fin = TRUE] /\ class.phase = "live"
    BY <1>4 DEF AddFinalizer, LInv, Adding
  <2>2. class # NoClass /\ class.uid \in Uids
    BY <1>1, <2>1, ClassFields DEF NoClass
  <2>3. class'.uid = class.uid /\ class'.phase = "live" /\ class'.fin
    BY <1>1, <2>1, <2>2, FinalizerAdded
  <2>4. CASE class.fin
    <3>1. OwnersKept
      BY <2>1, <2>3, <2>4 DEF OwnersKept, OwnerOf
    <3> QED
      BY <1>2, <3>1, Stutter DEF AbstractStep
  <2>5. CASE ~class.fin
    BY <1>2, <2>1, <2>2, <2>3, <2>5, HoldStep DEF AbstractStep, OwnerOf
  <2> QED
    BY <2>4, <2>5
<1>5. CASE RemoveFinalizer /\ class' # class
  <2>1. class = rClass /\ class' = NoClass /\ pc = "removeFinalizer"
    BY <1>5 DEF RemoveFinalizer
  <2>2. /\ class.uid \in Uids /\ class.phase = "deleting"
        /\ alb[class.uid].st = "none" /\ CertsOf(class.uid) = {}
    BY <1>1, <2>1, Running DEF LInv, IInv, Lineage, DeletionSteps, Teardown
  <2>3. \A u \in Uids : OwnerOf(u)' = "free"
    BY <2>1 DEF OwnerOf, NoClass
  <2>4. \A u \in Uids : u # class.uid => OwnerOf(u) = "free"
    BY DEF OwnerOf
  <2>5. CASE class.fin
    <3>1. OwnerOf(class.uid) = "leaving"
      BY <2>2, <2>5, Owners
    <3>2. ServiceOf(class.uid) = "none" /\ Ids(CertsOf(class.uid)) = {}
      BY <2>2 DEF ServiceOf, Ids
    <3> QED
      BY <1>2, <2>2, <2>3, <2>4, <3>1, <3>2, LetGoStep DEF AbstractStep
  <2>6. CASE ~class.fin
    <3>1. OwnersKept
      BY <2>3, <2>6, Owners DEF OwnersKept
    <3> QED
      BY <1>2, <3>1, Stutter DEF AbstractStep
  <2> QED
    BY <2>5, <2>6
<1> QED
  BY <1>3, <1>4, <1>5

\* The certificates.
LEMMA CreateCertStep ==
    ASSUME LInv, CreateCert
    PROVE  AbstractStep
<1>1. UNCHANGED <<class, alb>>
  BY DEF CreateCert, apiVars
<1>2. CASE certs' = certs
  BY <1>1, <1>2, Elsewheres
<1>3. CASE certs' # certs
  <2>1. PICK new : certs' = certs \union {new} /\ new.id = nextId /\ new.uid = rClass.uid
    BY <1>3 DEF CreateCert
  <2>2. PICK u \in Uids : u = rClass.uid /\ OwnerOf(u) # "free"
    BY Running, Owners DEF LInv, IInv, CreateCert, LiveSteps
  <2>3. /\ Ids(CertsOf(u))' = Ids(CertsOf(u)) \union {nextId}
        /\ \A v \in Uids : v # u => Ids(CertsOf(v))' = Ids(CertsOf(v))
    BY <2>1, <2>2 DEF CertsOf, Ids
  <2> QED
    BY <1>1, <2>2, <2>3, Kept, AddCertStep DEF AbstractStep
<1> QED
  BY <1>2, <1>3

LEMMA DeleteCertSteps ==
    ASSUME LInv, DeleteDuplicate \/ DeleteUnused \/ DeleteCert
    PROVE  AbstractStep
<1>1. /\ UNCHANGED <<class, alb>>
      /\ pc \in {"deleteDuplicates", "deleteUnused", "deleteCerts"}
  BY DEF DeleteDuplicate, DeleteUnused, DeleteCert, DeleteCertAt, apiVars
<1>2. PICK d \in rDoomed : certs' = {c \in certs : c.id # d}
  BY DEF DeleteDuplicate, DeleteUnused, DeleteCert, DeleteCertAt
<1>3. PICK u \in Uids : u = rClass.uid
  BY <1>1, Running DEF LInv, IInv
<1>4. CASE \A c \in certs : c.id = d => c.uid \notin Uids
  <2>1. OwnedKept
    BY <1>2, <1>4 DEF OwnedKept, CertsOf, Ids
  <2> QED
    BY <1>1, <2>1, Kept, Stutter DEF AbstractStep
<1>5. ASSUME NEW c \in certs, c.id = d, c.uid \in Uids PROVE AbstractStep
  <2>1. c.uid = u
    <3>1. CASE pc = "deleteCerts"
      BY <1>3, <1>5, <3>1 DEF LInv, IInv, Doomed
    <3>2. CASE pc \in {"deleteDuplicates", "deleteUnused"}
      <4>1. CertsOf(c.uid) # {}
        BY DEF CertsOf
      <4> QED
        BY <1>3, <1>5, <3>2, <4>1, Running DEF LInv, IInv, NothingOrphaned, LiveSteps
    <3> QED
      BY <1>1, <3>1, <3>2
  <2>2. d \notin alb[u].certs
    BY <1>1, <1>3 DEF LInv, IInv, Doomed, Teardown, CloudSane
  <2>3. /\ d \in Ids(CertsOf(u))
        /\ Ids(CertsOf(u))' = Ids(CertsOf(u)) \ {d}
        /\ \A v \in Uids : v # u => Ids(CertsOf(v))' = Ids(CertsOf(v))
    BY <1>2, <1>5, <2>1 DEF LInv, IInv, CloudSane, CertsOf, Ids
  <2> QED
    BY <1>1, <1>3, <2>2, <2>3, Kept, DropCertStep DEF AbstractStep
<1> QED
  BY <1>4, <1>5

\* The load balancer.
LEMMA WriteSteps ==
    ASSUME LInv, CreateALB \/ UpdateALB
    PROVE  AbstractStep
<1>1. UNCHANGED <<class, certs>> /\ pc = "apply" /\ alb \in [Uids -> ALBRecord]
  BY DEF CreateALB, UpdateALB, apiVars, LInv, IInv, TypeOK, CloudTypes
<1>2. CASE alb' = alb
  BY <1>1, <1>2, Elsewheres
<1>3. ASSUME NEW a \in ALBRecord, WriteALB(a), a.certs = PayloadCerts
      PROVE  AbstractStep
  <2>1. PICK u \in Uids : u = rClass.uid /\ OwnerOf(u) # "free"
    BY <1>1, Running, Owners DEF LInv, IInv, LiveSteps
  <2>2. PICK st \in {"PENDING", "READY", "ERROR"} : Stored([a EXCEPT !.st = st])
    BY <1>3 DEF WriteALB
  <2>3. [a EXCEPT !.st = st].st = st /\ [a EXCEPT !.st = st].certs = PayloadCerts
    BY <1>3 DEF ALBRecord
  <2>4. /\ alb'[u].st = st /\ alb'[u].certs = PayloadCerts
        /\ \A v \in Uids : v # u => alb'[v] = alb[v]
    BY <1>1, <2>1, <2>2, <2>3 DEF Stored
  <2>5. ServiceOf(u) # "down" /\ ServiceOf(u)' = "up"
    BY <1>1, <2>1, <2>4 DEF LInv, Leaving, LiveSteps, ServiceOf
  <2>6. alb'[u].certs \subseteq Ids(CertsOf(u))
    BY <1>1, <2>1, <2>4, Selection DEF LInv, IInv
  <2> QED
    BY <1>1, <2>1, <2>4, <2>5, <2>6, Kept, ServeStep DEF AbstractStep
<1> QED
  BY <1>2, <1>3, PayloadTypes
     DEF CreateALB, UpdateALB, Reject, CreatePayload, UpdatePayload, Updated, LInv, IInv

LEMMA DeleteALBStep ==
    ASSUME LInv, DeleteALB
    PROVE  AbstractStep
<1>1. /\ UNCHANGED <<class, certs>> /\ pc = "deleteALB" /\ alb \in [Uids -> ALBRecord]
      /\ alb' = [alb EXCEPT ![rClass.uid] = Terminate(@)]
  BY DEF DeleteALB, apiVars, LInv, IInv, TypeOK, CloudTypes
<1>2. PICK u \in Uids : u = rClass.uid
  BY <1>1, Running DEF LInv, IInv
<1>3. CASE alb[u].st \in {"none", "TERMINATING"}
  <2>1. alb' = alb
    BY <1>1, <1>2, <1>3 DEF Terminate, ALBRecord
  <2> QED
    BY <1>1, <2>1, Elsewheres
<1>4. CASE alb[u].st \notin {"none", "TERMINATING"}
  <2>1. class.uid = u /\ class.fin /\ class.phase = "deleting"
    BY <1>1, <1>2, <1>4 DEF LInv, IInv, NothingOrphaned, Lineage, DeletionSteps
  <2>2. alb'[u] = [alb[u] EXCEPT !.st = "TERMINATING"]
    BY <1>1, <1>2, <1>4 DEF Terminate
  <2>3. alb'[u].st = "TERMINATING" /\ alb'[u].certs = alb[u].certs
    BY <1>1, <2>2 DEF ALBRecord
  <2>4. \A v \in Uids : v # u => alb'[v] = alb[v]
    BY <1>1, <1>2
  <2>5. ServiceOf(u) = "up" /\ ServiceOf(u)' = "down" /\ OwnerOf(u) = "leaving"
    BY <1>4, <2>1, <2>3 DEF ServiceOf, OwnerOf
  <2>6. UsedKept /\ \A v \in Uids : v # u => ServiceOf(v)' = ServiceOf(v)
    BY <2>3, <2>4 DEF UsedKept, ServiceOf
  <2> QED
    BY <1>1, <2>5, <2>6, Kept, TakeDownStep DEF AbstractStep
<1> QED
  BY <1>3, <1>4

LEMMA CloudSteps ==
    ASSUME LInv, Cloud \/ \E u \in Uids : EditLogs(u)
    PROVE  AbstractStep
<1>1. alb \in [Uids -> ALBRecord] /\ class' = class
  BY DEF Cloud, ALBReady, ALBError, Settle, ALBGone, DescribeCert, EditLogs, apiVars,
         LInv, IInv, TypeOK, CloudTypes
<1>2. ASSUME NEW u \in Uids, ALBReady(u) \/ ALBError(u) \/ EditLogs(u)
      PROVE  AbstractStep
  <2>1. /\ certs' = certs /\ alb[u].st \notin {"none", "TERMINATING"}
        /\ \A v \in Uids : v # u => alb'[v] = alb[v]
    BY <1>1, <1>2 DEF ALBReady, ALBError, Settle, EditLogs
  <2>2. alb'[u].certs = alb[u].certs /\ alb'[u].st \notin {"none", "TERMINATING"}
    <3>1. CASE ALBReady(u) \/ ALBError(u)
      BY <1>1, <3>1 DEF ALBReady, ALBError, Settle, ALBRecord
    <3>2. CASE EditLogs(u)
      BY <1>1, <2>1, <3>2 DEF EditLogs, OtherLogs, ALBRecord
    <3> QED
      BY <1>2, <3>1, <3>2
  <2>3. ServicesKept /\ UsedKept
    BY <2>1, <2>2 DEF ServicesKept, ServiceOf, UsedKept
  <2> QED
    BY <1>1, <2>1, <2>3, Kept, Stutter DEF AbstractStep
<1>3. ASSUME NEW u \in Uids, ALBGone(u)
      PROVE  AbstractStep
  <2>1. /\ certs' = certs /\ alb[u].st = "TERMINATING"
        /\ alb'[u].st = "none" /\ alb'[u].certs = {}
        /\ \A v \in Uids : v # u => alb'[v] = alb[v]
    BY <1>1, <1>3 DEF ALBGone, NoALB
  <2>2. ServiceOf(u) = "down" /\ ServiceOf(u)' = "none"
    BY <2>1 DEF ServiceOf
  <2> QED
    BY <1>1, <2>1, <2>2, Kept, VanishStep DEF AbstractStep
<1>4. ASSUME DescribeCert
      PROVE  AbstractStep
  <2>1. alb' = alb
    BY <1>4 DEF DescribeCert
  <2>2. PICK c \in certs : certs' = (certs \ {c}) \union {[c EXCEPT !.known = TRUE]}
    BY <1>4 DEF DescribeCert
  <2>3. [c EXCEPT !.known = TRUE].id = c.id /\ [c EXCEPT !.known = TRUE].uid = c.uid
    BY DEF LInv, IInv, TypeOK, CloudTypes, CertRecord
  <2>4. OwnedKept
    BY <2>2, <2>3 DEF OwnedKept, CertsOf, Ids
  <2> QED
    BY <1>1, <2>1, <2>4, Kept, Stutter DEF AbstractStep
<1> QED
  BY <1>2, <1>3, <1>4 DEF Cloud

\* Every step is one of these, or touches neither the class nor the resources.
LEMMA SeenFromAbove == ASSUME LInv, [Next]_vars PROVE AbstractStep
<1>1. CASE ReconcileLive
  <2>1. CASE \/ AddFinalizer \/ CreateCert \/ CreateALB \/ UpdateALB
             \/ DeleteDuplicate \/ DeleteUnused
    BY <2>1, FinalizerSteps, CreateCertStep, WriteSteps, DeleteCertSteps
  <2>2. CASE \/ ReadCaches \/ GetALB \/ ListCerts \/ SelectCerts \/ SkipUpdate
             \/ DuplicatesDeleted \/ UnusedDeleted \/ CheckStatus \/ PatchStatus
             \/ StatusPatched
    BY <2>2, Elsewheres
       DEF ReadCaches, GetALB, ListCerts, SelectCerts, SkipUpdate, DuplicatesDeleted,
           UnusedDeleted, CheckStatus, PatchStatus, PatchAt, StatusPatched,
           apiVars, cloudVars
  <2> QED
    BY <1>1, <2>1, <2>2 DEF ReconcileLive
<1>2. CASE ReconcileDeletion
  <2>1. CASE RemoveFinalizer \/ DeleteALB \/ DeleteCert
    BY <2>1, FinalizerSteps, DeleteALBStep, DeleteCertSteps
  <2>2. CASE \/ WipeList \/ WipePatch \/ StatusWiped \/ DelGetALB \/ DelListCerts
             \/ CertsDeleted
    BY <2>2, Elsewheres
       DEF WipeList, WipePatch, PatchAt, StatusWiped, DelGetALB, DelListCerts,
           CertsDeleted, apiVars, cloudVars
  <2> QED
    BY <1>2, <2>1, <2>2 DEF ReconcileDeletion
<1>3. CASE Begin \/ CallFails \/ Crash \/ Informers
  BY <1>3, Elsewheres
     DEF Begin, CallFails, Crash, Informers, SyncClass, OtherEvent, TimerFires,
         SyncIngress, SyncSecret, apiVars, cloudVars
<1>4. CASE Users
  <2>1. CASE \E i \in Ingresses : ToggleIngress(i) \/ RotateSecret(i)
    BY <2>1, Elsewheres DEF ToggleIngress, RotateSecret, cloudVars
  <2> QED
    BY <1>4, <2>1, ClassSteps, CloudSteps DEF Users
<1>5. CASE Cloud
  BY <1>5, CloudSteps
<1>6. CASE UNCHANGED vars
  BY <1>6, Elsewheres DEF vars, apiVars, cloudVars
<1> QED
  BY <1>1, <1>2, <1>3, <1>4, <1>5, <1>6 DEF Next, Worker

-------------------------------------------------------------------------------
(* ResourceLifecycle: the theorem *)

LEMMA AbstractInit == Init => Lifecycle!Init
<1> SUFFICES ASSUME Init PROVE Lifecycle!Init
  OBVIOUS
<1>1. \A u \in Uids : /\ OwnerOf(u) = "free" /\ ServiceOf(u) = "none"
                      /\ Ids(CertsOf(u)) = {} /\ alb[u].certs = {}
  BY DEF Init, OwnerOf, ServiceOf, CertsOf, Ids, NoClass, NoALB
<1> QED
  BY <1>1 DEF Lifecycle!Init

\* With its stale caches, retries, lost responses and restarts, Reconcile does to the
\* load balancer and the certificates of a class only what ResourceLifecycle allows:
\* they are created under our finalizer, a certificate goes while nothing uses it, the
\* load balancer goes down for a deletion only and never comes back, and the
\* finalizer goes last.
THEOREM Refinement == Spec => ImplementsLifecycle
<1>1. Spec => []LInv
  BY LInvInit, LInvStep, PTL DEF Spec
<1>2. LInv /\ [Next]_vars => [Lifecycle!Next]_(Lifecycle!vars)
  BY SeenFromAbove DEF AbstractStep
<1> QED
  BY <1>1, <1>2, AbstractInit, PTL DEF Spec, ImplementsLifecycle, Lifecycle!Spec

-------------------------------------------------------------------------------
(* One certificate for each key pair *)

\* Who writes certificates, and who says which are missing.
LEMMA WhoTouchesCerts ==
    ASSUME [Next]_vars
    PROVE  \/ /\ certs' = certs
              /\ pc' = "createCerts" => UNCHANGED <<pc, rClass, rMissing>>
           \/ ListCerts \/ CreateCert \/ DescribeCert
           \/ \E s \in Steps \ {"createCerts"} : DeleteCertAt(s)
<1>1. CASE Begin
  BY <1>1 DEF Begin, cloudVars
<1>2. CASE ReconcileLive
  <2>1. CASE DeleteDuplicate \/ DeleteUnused
    BY <2>1 DEF DeleteDuplicate, DeleteUnused, Steps
  <2>2. CASE AddFinalizer \/ ReadCaches \/ GetALB \/ SelectCerts
    BY <2>2 DEF AddFinalizer, ReadCaches, GetALB, SelectCerts, cloudVars, Done, RetryLater,
       Lost, Return, GoTo
  <2>3. CASE CreateALB \/ UpdateALB \/ SkipUpdate
    BY <2>3 DEF CreateALB, UpdateALB, WriteALB, Stored, Reject, SkipUpdate, cloudVars,
       RetryLater, Lost, Return, GoTo
  <2>4. CASE DuplicatesDeleted \/ UnusedDeleted \/ CheckStatus \/ PatchStatus \/ StatusPatched
    BY <2>4 DEF DuplicatesDeleted, UnusedDeleted, CheckStatus, PatchStatus, PatchAt,
       StatusPatched, cloudVars, localVars, Done, RetryLater, Lost, Return, GoTo
  <2> QED
    BY <1>2, <2>1, <2>2, <2>3, <2>4 DEF ReconcileLive
<1>3. CASE ReconcileDeletion
  <2>1. CASE DeleteCert
    BY <2>1 DEF DeleteCert, Steps
  <2>2. CASE ~DeleteCert
    BY <1>3, <2>2 DEF ReconcileDeletion, WipeList, WipePatch, PatchAt, StatusWiped,
       DelGetALB, DeleteALB, DelListCerts, CertsDeleted, RemoveFinalizer, cloudVars,
       localVars, Done, RetryLater, Lost, Return, GoTo
  <2> QED
    BY <2>1, <2>2
<1>4. CASE CallFails \/ Crash
  BY <1>4 DEF CallFails, Crash, RetryLater, Return, cloudVars
<1>5. CASE Informers
  BY <1>5 DEF Informers, SyncClass, OtherEvent, TimerFires, SyncIngress, SyncSecret,
     cloudVars, localVars
<1>6. CASE Users
  BY <1>6 DEF Users, CreateClass, EditClass, DeleteClass, ToggleIngress, RotateSecret,
     EditLogs, Edit, cloudVars, localVars
<1>7. CASE Cloud
  BY <1>7 DEF Cloud, ALBReady, ALBError, Settle, ALBGone, localVars
<1>8. CASE UNCHANGED vars
  BY <1>8 DEF vars, cloudVars, localVars
<1> QED
  BY <1>1, <1>2, <1>3, <1>4, <1>5, <1>6, <1>7, <1>8 DEF Next, Worker

\* Every certificate has its fingerprint, and what is missing is really missing.
Fingerprinted ==
    ~SlowFingerprint =>
        /\ \A c \in certs : c.known
        /\ pc = "createCerts" => \A c \in CertsOf(rClass.uid) : c.fp \notin rMissing

LEMMA FewerCerts ==
    ASSUME NEW s, DeleteCertAt(s), s # "createCerts"
    PROVE  certs' \subseteq certs /\ pc' # "createCerts"
  BY DEF DeleteCertAt, GoTo, Lost, RetryLater, Return

LEMMA DuplicateStep ==
    ASSUME TypeOK, NoDuplicateCert, Fingerprinted, [Next]_vars
    PROVE  NoDuplicateCert' /\ Fingerprinted'
<1> SUFFICES ASSUME ~SlowFingerprint
             PROVE  NoDuplicateCert' /\ Fingerprinted'
  BY DEF NoDuplicateCert, Fingerprinted
<1>1. /\ \A c \in certs : c.known
      /\ pc = "createCerts" => \A c \in CertsOf(rClass.uid) : c.fp \notin rMissing
      /\ \A c, d \in certs : c.uid = d.uid /\ c.fp = d.fp => c = d
  BY DEF NoDuplicateCert, Fingerprinted
<1>2. CASE certs' = certs /\ (pc' = "createCerts" => UNCHANGED <<pc, rClass, rMissing>>)
  BY <1>1, <1>2 DEF NoDuplicateCert, Fingerprinted, CertsOf
<1>3. CASE ListCerts
  BY <1>1, <1>3 DEF ListCerts, NoDuplicateCert, Fingerprinted, CertsOf, Described, cloudVars
<1>4. CASE CreateCert
  <2> PICK f \in rMissing, k \in Responses :
        LET new == [id |-> nextId, uid |-> rClass.uid, fp |-> f, known |-> k]
        IN \/ /\ certs' = certs \union {new}
              /\ \/ /\ GoTo("createCerts")
                    /\ rMissing' = rMissing \ {f}
                    /\ rClass' = rClass
                 \/ Lost
           \/ RetryLater /\ certs' = certs
    BY <1>4 DEF CreateCert
  <2> DEFINE new == [id |-> nextId, uid |-> rClass.uid, fp |-> f, known |-> k]
  <2>1. k /\ pc = "createCerts"
    BY <1>4 DEF Responses, CreateCert
  <2>2. CASE RetryLater /\ certs' = certs
    BY <1>1, <2>2 DEF NoDuplicateCert, Fingerprinted, RetryLater, Return
  <2>3. CASE certs' = certs \union {new}
    <3>1. new.uid = rClass.uid /\ new.fp = f /\ new.known
      BY <2>1
    <3>2. \A c \in certs : ~(c.uid = rClass.uid /\ c.fp = f)
      BY <1>1, <2>1 DEF CertsOf
    <3> HIDE DEF new
    <3>3. NoDuplicateCert'
      BY <1>1, <2>3, <3>1, <3>2 DEF NoDuplicateCert
    <3>4. \A c \in certs' : c.known
      BY <1>1, <2>3, <3>1
    <3>5. CASE pc' = "createCerts"
      <4>1. rMissing' = rMissing \ {f} /\ rClass' = rClass
        BY <3>5 DEF Lost, RetryLater, Return
      <4>2. ASSUME NEW c \in certs', c.uid = rClass.uid PROVE c.fp \notin rMissing \ {f}
        BY <1>1, <2>1, <2>3, <3>1, <4>2 DEF CertsOf
      <4> QED
        BY <3>3, <3>4, <4>1, <4>2 DEF Fingerprinted, CertsOf
    <3> QED
      BY <3>3, <3>4, <3>5 DEF Fingerprinted
  <2> QED
    BY <2>2, <2>3
<1>5. CASE DescribeCert
  BY <1>1, <1>5 DEF DescribeCert
<1>6. CASE \E s \in Steps \ {"createCerts"} : DeleteCertAt(s)
  <2>1. certs' \subseteq certs /\ pc' # "createCerts"
    BY <1>6, FewerCerts
  <2> QED
    BY <1>1, <2>1 DEF NoDuplicateCert, Fingerprinted
<1> QED
  BY <1>2, <1>3, <1>4, <1>5, <1>6, WhoTouchesCerts

\* The reconciler never holds two certificates for one key pair, however often it is
\* interrupted between CreateCertificate and its answer, if the API answers with the
\* fingerprint.
THEOREM CertificatesOnce == Spec => []NoDuplicateCert
<1>1. Init => NoDuplicateCert /\ Fingerprinted
  BY DEF Init, NoDuplicateCert, Fingerprinted
<1>2. TypeOK /\ NoDuplicateCert /\ Fingerprinted /\ [Next]_vars
        => NoDuplicateCert' /\ Fingerprinted'
  BY DuplicateStep
<1> QED
  BY <1>1, <1>2, TypeCorrect, PTL DEF Spec

-------------------------------------------------------------------------------
(* The status of the Ingresses *)

\* Only DeleteLoadBalancer takes a load balancer out of service.
LEMMA OnlyDeleteALB ==
    ASSUME TypeOK, [Next]_vars, NEW u \in Uids, InService(alb[u]), ~InService(alb'[u])
    PROVE  DeleteALB /\ rClass.uid = u
<1>1. alb \in [Uids -> ALBRecord] /\ CloudTypes
  BY DEF TypeOK, CloudTypes
<1>2. CASE alb' = alb
  BY <1>2
<1>3. CASE CreateALB \/ UpdateALB
  <2>1. rClass.uid \in Uids
    BY <1>3, ClassFields DEF CreateALB, UpdateALB, TypeOK, WorkerTypes
  <2>2. CreatePayload \in ALBRecord /\ Updated(UpdatePayload) \in ALBRecord
    BY PayloadTypes
  <2>3. WriteALB(CreatePayload) \/ WriteALB(Updated(UpdatePayload)) \/ alb' = alb
    BY <1>3 DEF CreateALB, UpdateALB, Reject
  <2> QED
    BY <1>1, <1>2, <2>1, <2>2, <2>3, WriteKeepsInService
<1>4. CASE DeleteALB
  BY <1>1, <1>4 DEF DeleteALB
<1>5. CASE \E v \in Uids : EditLogs(v)
  BY <1>1, <1>5 DEF EditLogs, OtherLogs, ALBRecord, InService
<1>6. CASE \E v \in Uids : ALBReady(v) \/ ALBError(v)
  BY <1>1, <1>6 DEF ALBReady, ALBError, Settle, ALBRecord, InService
<1>7. CASE \E v \in Uids : ALBGone(v)
  BY <1>1, <1>7 DEF ALBGone, InService
<1> QED
  BY <1>2, <1>3, <1>4, <1>5, <1>6, <1>7, WhoTouchesALBs

\* Who writes the Ingresses, and what the cache has of them.
LEMMA WhoTouchesIngresses ==
    ASSUME [Next]_vars
    PROVE  \/ UNCHANGED <<ing, cIng, unseen>>
           \/ PatchStatus \/ WipePatch
           \/ \E i \in Ingresses : ToggleIngress(i)
           \/ Crash \/ \E i \in Ingresses : SyncIngress(i)
<1>1. CASE ReconcileLive
  BY <1>1 DEF ReconcileLive, AddFinalizer, ReadCaches, GetALB, ListCerts, CreateCert,
     SelectCerts, CreateALB, UpdateALB, SkipUpdate, DeleteDuplicate, DuplicatesDeleted,
     DeleteUnused, DeleteCertAt, UnusedDeleted, CheckStatus, StatusPatched, apiVars,
     cacheVars
<1>2. CASE ReconcileDeletion
  BY <1>2 DEF ReconcileDeletion, WipeList, StatusWiped, DelGetALB, DeleteALB,
     DelListCerts, DeleteCert, DeleteCertAt, CertsDeleted, RemoveFinalizer, apiVars, cacheVars
<1>3. CASE Begin \/ CallFails \/ Crash \/ Informers \/ Cloud \/ UNCHANGED vars
  BY <1>3 DEF Begin, CallFails, Informers, SyncClass, OtherEvent, TimerFires,
     SyncSecret, Cloud, ALBReady, ALBError, Settle, ALBGone, DescribeCert,
     vars, apiVars, cacheVars
<1>4. CASE Users
  BY <1>4 DEF Users, CreateClass, EditClass, DeleteClass, RotateSecret, EditLogs, Edit,
     apiVars
<1> QED
  BY <1>1, <1>2, <1>3, <1>4 DEF Next, Worker

\* Where the worker comes from when it is at one of the steps that matter here.
LEMMA WhereFrom ==
    ASSUME [Next]_vars
    PROVE  /\ pc' \in {"listCerts", "createCerts", "apply"} =>
                \/ GetALB /\ rALB' = alb[rClass.uid] /\ rClass' = rClass
                \/ /\ pc \in {"listCerts", "createCerts", "apply"}
                   /\ UNCHANGED <<rClass, rALB>>
           /\ pc' \in {"deleteDuplicates", "deleteUnused", "checkStatus", "patchStatus"} =>
                \/ /\ CreateALB \/ UpdateALB \/ SkipUpdate
                   /\ rClass' = rClass
                \/ /\ pc \in {"deleteDuplicates", "deleteUnused", "checkStatus",
                              "patchStatus"}
                   /\ rClass' = rClass
           /\ pc' = "wipePatch" =>
                \/ WipeList
                \/ pc = "wipePatch" /\ rClass' = rClass /\ (WipePatch \/ rPatch' = rPatch)
           /\ pc' \in {"delGetALB", "deleteALB"} =>
                \/ StatusWiped
                \/ pc \in {"delGetALB", "deleteALB"} /\ rClass' = rClass
<1> USE DEF Done, RetryLater, Lost, Return, GoTo
<1>1. CASE Begin
  BY <1>1 DEF Begin
<1>2. CASE ReconcileLive
  <2>1. CASE AddFinalizer \/ ReadCaches \/ GetALB \/ ListCerts
    BY <2>1 DEF AddFinalizer, ReadCaches, GetALB, ListCerts
  <2>2. CASE CreateCert \/ SelectCerts
    BY <2>2 DEF CreateCert, SelectCerts
  <2>3. CASE CreateALB \/ UpdateALB \/ SkipUpdate
    BY <2>3 DEF CreateALB, UpdateALB, WriteALB, Stored, Reject, SkipUpdate
  <2>4. CASE DeleteDuplicate \/ DeleteUnused
    BY <2>4 DEF DeleteDuplicate, DeleteUnused, DeleteCertAt
  <2>5. CASE DuplicatesDeleted \/ UnusedDeleted \/ CheckStatus \/ PatchStatus \/ StatusPatched
    BY <2>5 DEF DuplicatesDeleted, UnusedDeleted, CheckStatus, PatchStatus, PatchAt,
       StatusPatched, localVars
  <2> QED
    BY <1>2, <2>1, <2>2, <2>3, <2>4, <2>5 DEF ReconcileLive
<1>3. CASE ReconcileDeletion
  <2>1. CASE WipeList \/ WipePatch \/ StatusWiped
    BY <2>1 DEF WipeList, WipePatch, PatchAt, StatusWiped, localVars
  <2>2. CASE DelGetALB \/ DeleteALB
    BY <2>2 DEF DelGetALB, DeleteALB, WipePatch, PatchAt, localVars
  <2>3. CASE DelListCerts \/ DeleteCert \/ CertsDeleted \/ RemoveFinalizer
    BY <2>3 DEF DelListCerts, DeleteCert, DeleteCertAt, CertsDeleted, RemoveFinalizer,
       localVars
  <2> QED
    BY <1>3, <2>1, <2>2, <2>3 DEF ReconcileDeletion
<1>4. CASE CallFails \/ Crash
  BY <1>4 DEF CallFails, Crash
<1>5. CASE Informers \/ Users \/ Cloud \/ UNCHANGED vars
  <2>1. UNCHANGED <<pc, localVars>>
    BY <1>5 DEF Informers, SyncClass, OtherEvent, TimerFires, SyncIngress, SyncSecret,
       Users, CreateClass, EditClass, DeleteClass, ToggleIngress, RotateSecret, EditLogs,
       Edit, Cloud, ALBReady, ALBError, Settle, ALBGone, DescribeCert, vars
  <2> QED
    BY <2>1 DEF localVars
<1> QED
  BY <1>1, <1>2, <1>3, <1>4, <1>5 DEF Next, Worker

\* From the read of a load balancer to the last status patch it stays in service, as
\* the worker that would delete it is busy.
Serving ==
    /\ pc \in {"listCerts", "createCerts", "apply"} /\ rALB.st # "none" =>
         InService(alb[rClass.uid])
    /\ pc \in {"deleteDuplicates", "deleteUnused", "checkStatus", "patchStatus"} =>
         InService(alb[rClass.uid])

\* An address of the class that is being deleted is still to be wiped, or its Ingress
\* was not seen when the Ingresses were listed, and so overlooked in the end.
Wiping ==
    /\ DeadAddressOnlyOverlooked
    /\ overlooked \in [Uids -> SUBSET Ingresses] /\ unread \subseteq Ingresses
    /\ \A i \in Ingresses : ~ing[i].exists => ing[i].ip = 0
    /\ \A i \in Ingresses : i \notin unseen => cIng[i] = ing[i]
    /\ pc = "wipePatch" => \A i \in Ingresses :
         ing[i].ip = rClass.uid => i \in rPatch \union unread
    /\ pc \in {"delGetALB", "deleteALB"} => \A i \in Ingresses :
         ing[i].ip = rClass.uid => i \in overlooked[rClass.uid]

\* A load balancer in service stays so while the class is reconciled as a live one.
LEMMA StaysInService ==
    ASSUME TypeOK, [Next]_vars, pc # "deleteALB", NEW u \in Uids, InService(alb[u])
    PROVE  InService(alb'[u])
  BY OnlyDeleteALB DEF DeleteALB

\* A write of the load balancer puts it into service.
LEMMA WrittenInService ==
    ASSUME TypeOK, CreateALB \/ UpdateALB, pc' # "idle", rClass' = rClass
    PROVE  InService(alb'[rClass.uid])
<1>1. rClass.uid \in Uids
  BY ClassFields DEF CreateALB, UpdateALB, TypeOK, WorkerTypes
<1>2. CreatePayload \in ALBRecord /\ Updated(UpdatePayload) \in ALBRecord
  BY PayloadTypes
<1>3. PICK a \in ALBRecord : WriteALB(a)
  BY <1>2 DEF CreateALB, UpdateALB, Reject, RetryLater, Return
<1>4. PICK st \in {"PENDING", "READY", "ERROR"} : Stored([a EXCEPT !.st = st])
  BY <1>3 DEF WriteALB
<1>5. alb' = [alb EXCEPT ![rClass.uid] = [a EXCEPT !.st = st]]
  BY <1>4 DEF Stored
<1>6. [a EXCEPT !.st = st].st = st
  BY DEF ALBRecord
<1> QED
  BY <1>1, <1>5, <1>6 DEF TypeOK, CloudTypes, InService

LEMMA ServingStep ==
    ASSUME LInv, Serving, [Next]_vars
    PROVE  Serving'
<1> USE DEF Serving
<1>1. TypeOK /\ alb \in [Uids -> ALBRecord] /\ alb' \in [Uids -> ALBRecord]
  BY TypeStep DEF LInv, IInv, TypeOK, CloudTypes
<1>2. \A u \in Uids : InService(alb[u]) <=> alb[u].st \notin {"none", "TERMINATING"}
  BY <1>1 DEF InService, ALBRecord, ALBStates
<1>3. pc # "idle" => rClass.uid \in Uids
  BY <1>1, ClassFields DEF TypeOK, WorkerTypes
<1>4. ASSUME pc' \in {"listCerts", "createCerts", "apply"}, rALB'.st # "none"
      PROVE  InService(alb'[rClass'.uid])
  <2>1. CASE GetALB /\ rALB' = alb[rClass.uid] /\ rClass' = rClass
    <3>1. alb' = alb /\ pc = "getALB"
      BY <2>1 DEF GetALB, cloudVars
    <3>2. alb[rClass.uid].st # "TERMINATING"
      BY <1>3, <3>1 DEF LInv, Leaving, LiveSteps
    <3> QED
      BY <1>2, <1>3, <1>4, <2>1, <3>1, <3>2
  <2>2. CASE pc \in {"listCerts", "createCerts", "apply"} /\ UNCHANGED <<rClass, rALB>>
    BY <1>1, <1>3, <1>4, <2>2, StaysInService
  <2> QED
    BY <1>4, <2>1, <2>2, WhereFrom
<1>5. ASSUME pc' \in {"deleteDuplicates", "deleteUnused", "checkStatus", "patchStatus"}
      PROVE  InService(alb'[rClass'.uid])
  <2>1. CASE (CreateALB \/ UpdateALB) /\ rClass' = rClass
    BY <1>1, <1>5, <2>1, WrittenInService
  <2>2. CASE SkipUpdate /\ rClass' = rClass
    BY <1>1, <1>3, <2>2, StaysInService DEF SkipUpdate
  <2>3. CASE /\ pc \in {"deleteDuplicates", "deleteUnused", "checkStatus", "patchStatus"}
             /\ rClass' = rClass
    BY <1>1, <1>3, <2>3, StaysInService
  <2> QED
    BY <1>5, <2>1, <2>2, <2>3, WhereFrom
<1> QED
  BY <1>4, <1>5

\* What a patch of a status does.
LEMMA Patched ==
    ASSUME TypeOK, NEW s, NEW ip \in Nat, PatchAt(s, ip)
    PROVE  /\ cIng' = cIng
           /\ \/ UNCHANGED <<ing, unseen>> /\ pc' = "idle"
              \/ \E j \in rPatch :
                   /\ j \in Ingresses /\ ing[j].exists
                   /\ WriteIngress(j, [ing[j] EXCEPT !.ip = ip])
                   /\ pc' = "idle" \/ (rPatch' = rPatch \ {j} /\ rClass' = rClass)
<1>1. rPatch \subseteq Ingresses
  BY DEF TypeOK, WorkerTypes
<1> QED
  BY <1>1 DEF PatchAt, GoTo, Lost, RetryLater, Return

\* What a step does to an Ingress: it gets the address of the class, or loses its own.
LEMMA OneIngress ==
    ASSUME TypeOK, [Next]_vars, NEW i \in Ingresses
    PROVE  \/ ing'[i] = ing[i]
           \/ PatchStatus /\ ing'[i].exists /\ ing'[i].ip = rClass.uid
           \/ ing'[i].ip = 0
<1>1. ing \in [Ingresses -> IngressRecord] /\ rClass.uid \in Nat /\ 0 \in Nat
  BY ClassFields, BoundsAreNaturals DEF TypeOK, ApiTypes, WorkerTypes
<1>2. ASSUME NEW j \in Ingresses, NEW ip \in Nat, ing[j].exists,
             WriteIngress(j, [ing[j] EXCEPT !.ip = ip])
      PROVE  ing'[i] = ing[i] \/ (ing'[i].exists /\ ing'[i].ip = ip)
  BY <1>1, <1>2 DEF WriteIngress, IngressRecord
<1>3. CASE PatchStatus
  BY <1>1, <1>2, <1>3, Patched DEF PatchStatus
<1>4. CASE WipePatch
  BY <1>1, <1>2, <1>4, Patched DEF WipePatch
<1>5. CASE \E j \in Ingresses : ToggleIngress(j)
  BY <1>1, <1>5 DEF ToggleIngress, WriteIngress
<1>6. CASE Crash \/ \E j \in Ingresses : SyncIngress(j)
  BY <1>6 DEF Crash, SyncIngress, apiVars
<1> QED
  BY <1>3, <1>4, <1>5, <1>6, WhoTouchesIngresses

\* An Ingress without outstanding events is in the cache as it is.
LEMMA CacheFollows ==
    ASSUME TypeOK, [Next]_vars, NEW i \in Ingresses, i \notin unseen => cIng[i] = ing[i]
    PROVE  i \notin unseen' => cIng'[i] = ing'[i]
<1>1. /\ ing \in [Ingresses -> IngressRecord] /\ cIng \in [Ingresses -> IngressRecord]
      /\ rClass.uid \in Nat /\ 0 \in Nat
  BY ClassFields, BoundsAreNaturals DEF TypeOK, ApiTypes, CacheTypes, WorkerTypes
<1>2. ASSUME NEW j \in Ingresses, NEW new, WriteIngress(j, new), cIng' = cIng
      PROVE  i \notin unseen' => cIng'[i] = ing'[i]
  BY <1>1, <1>2 DEF WriteIngress
<1>3. CASE PatchStatus \/ WipePatch
  BY <1>1, <1>2, <1>3, Patched DEF PatchStatus, WipePatch
<1>4. CASE \E j \in Ingresses : ToggleIngress(j)
  BY <1>2, <1>4 DEF ToggleIngress, Edit
<1>5. CASE \E j \in Ingresses : SyncIngress(j)
  BY <1>1, <1>5 DEF SyncIngress, apiVars
<1>6. CASE Crash
  BY <1>6 DEF Crash, apiVars
<1> QED
  BY <1>3, <1>4, <1>5, <1>6, WhoTouchesIngresses

\* The history variables keep their types, and change only where a wipe begins and ends.
LEMMA Remembered ==
    ASSUME Wiping, TypeOK, TypeOK', [Next]_vars, Remember
    PROVE  /\ overlooked' \in [Uids -> SUBSET Ingresses] /\ unread' \subseteq Ingresses
           /\ \A u \in Uids : overlooked'[u] = overlooked[u] \/ (StatusWiped /\ u = rClass.uid)
           /\ StatusWiped /\ rClass.uid \in Uids => overlooked'[rClass.uid] = unread
<1>1. unseen \subseteq Ingresses
  BY DEF TypeOK, CacheTypes
<1>2. pc = "wipePatch" /\ pc' = "delGetALB" => StatusWiped
  BY WhereFrom
<1>3. StatusWiped => pc = "wipePatch" /\ pc' = "delGetALB"
  BY DEF StatusWiped
<1> QED
  BY <1>1, <1>2, <1>3 DEF Wiping, Remember

\* While the worker wipes: what was seen when it listed is on its list until it is done.
LEMMA ListedOrUnread ==
    ASSUME TypeOK, TypeOK', Wiping, [Next]_vars, Remember,
           pc' = "wipePatch", NEW i \in Ingresses, ing'[i].ip = rClass'.uid
    PROVE  i \in rPatch' \union unread'
<1>1. /\ ing \in [Ingresses -> IngressRecord] /\ rClass'.uid \in Uids
      /\ ing'[i].ip # 0
  BY ClassFields, BoundsAreNaturals DEF TypeOK, ApiTypes, WorkerTypes, Uids
<1>2. CASE WipeList
  <2>1. ing' = ing /\ rClass' = rClass /\ rPatch' = {j \in Listed : cIng[j].ip # 0}
    BY <1>2 DEF WipeList, apiVars
  <2>2. unread' = unseen
    BY <1>2 DEF WipeList, Remember
  <2>3. ing[i].exists
    BY <1>1, <2>1 DEF Wiping
  <2> QED
    BY <1>1, <2>1, <2>2, <2>3 DEF Wiping, Listed
<1>3. CASE pc = "wipePatch" /\ rClass' = rClass /\ WipePatch
  <2>1. unread' = unread
    BY <1>3 DEF Remember
  <2>2. PICK j \in rPatch : /\ j \in Ingresses /\ rPatch' = rPatch \ {j}
                            /\ WriteIngress(j, [ing[j] EXCEPT !.ip = 0])
    BY <1>3, Patched DEF WipePatch
  <2>3. i # j /\ ing'[i] = ing[i]
    BY <1>1, <2>2 DEF WriteIngress, IngressRecord
  <2> QED
    BY <1>3, <2>1, <2>2, <2>3 DEF Wiping
<1>4. CASE pc = "wipePatch" /\ rClass' = rClass /\ ~WipePatch /\ rPatch' = rPatch
  <2>1. unread' = unread
    BY <1>4 DEF Remember
  <2>2. ing'[i] = ing[i]
    BY <1>1, <1>4, OneIngress DEF PatchStatus, PatchAt
  <2> QED
    BY <1>4, <2>1, <2>2 DEF Wiping
<1> QED
  BY <1>2, <1>3, <1>4, WhereFrom

\* Once it is done, the addresses that are left were overlooked.
LEMMA LeftOverlooked ==
    ASSUME TypeOK, TypeOK', Wiping, [Next]_vars, Remember,
           pc' \in {"delGetALB", "deleteALB"}, NEW i \in Ingresses, ing'[i].ip = rClass'.uid
    PROVE  i \in overlooked'[rClass'.uid]
<1>1. rClass'.uid \in Uids /\ ing'[i].ip # 0
  BY ClassFields, BoundsAreNaturals DEF TypeOK, WorkerTypes, Uids
<1>2. CASE StatusWiped
  <2>1. ing' = ing /\ rClass' = rClass /\ pc = "wipePatch" /\ rPatch = {}
    BY <1>2 DEF StatusWiped, apiVars, localVars
  <2> QED
    BY <1>1, <1>2, <2>1, Remembered DEF Wiping
<1>3. CASE pc \in {"delGetALB", "deleteALB"} /\ rClass' = rClass
  <2>1. ing'[i] = ing[i]
    BY <1>1, <1>3, OneIngress DEF PatchStatus, PatchAt
  <2>2. overlooked' = overlooked
    BY <1>3 DEF Remember
  <2> QED
    BY <1>3, <2>1, <2>2 DEF Wiping
<1> QED
  BY <1>2, <1>3, WhereFrom

\* An address whose load balancer is not in service was overlooked by the last wipe.
LEMMA DeadOverlooked ==
    ASSUME TypeOK, TypeOK', Serving, Wiping, [Next]_vars, Remember,
           NEW i \in Ingresses, ing'[i].ip # 0, GoneOrGoing(ing[i].ip)'
    PROVE  i \in overlooked'[ing'[i].ip]
<1> DEFINE u == ing'[i].ip
<1>1. /\ alb \in [Uids -> ALBRecord] /\ alb' \in [Uids -> ALBRecord]
      /\ u \in Uids
  BY BoundsAreNaturals DEF TypeOK, ApiTypes, CloudTypes, IngressRecord, Uids
<1> HIDE DEF u
<1>2. ~InService(alb'[u]) /\ (GoneOrGoing(u) <=> ~InService(alb[u]))
  BY <1>1 DEF GoneOrGoing, InService, ALBRecord, ALBStates, u
<1>3. CASE ing'[i] = ing[i] /\ GoneOrGoing(u)
  <2>1. i \in overlooked[u]
    BY <1>3 DEF Wiping, DeadAddressOnlyOverlooked, u
  <2>2. CASE StatusWiped /\ u = rClass.uid
    <3>1. i \in rPatch \union unread /\ rPatch = {}
      BY <1>3, <2>2 DEF StatusWiped, Wiping, u
    <3> QED
      BY <1>1, <2>2, <3>1, Remembered DEF u
  <2> QED
    BY <1>1, <2>1, <2>2, Remembered DEF u
<1>4. CASE ing'[i] = ing[i] /\ ~GoneOrGoing(u)
  <2>1. DeleteALB /\ rClass.uid = u
    BY <1>1, <1>2, <1>4, OnlyDeleteALB
  <2>2. i \in overlooked[u] /\ overlooked' = overlooked
    BY <1>4, <2>1 DEF DeleteALB, Wiping, Remember, u
  <2> QED
    BY <2>2 DEF u
<1>5. CASE PatchStatus /\ u = rClass.uid
  <2>1. pc = "patchStatus" /\ alb' = alb
    BY <1>5 DEF PatchStatus, PatchAt, cloudVars
  <2> QED
    BY <1>2, <1>5, <2>1 DEF Serving
<1> QED
  BY <1>3, <1>4, <1>5, OneIngress DEF u

LEMMA WipingStep ==
    ASSUME LInv, Serving, Wiping, [Next /\ Remember]_historyVars
    PROVE  Wiping'
<1>1. TypeOK /\ TypeOK' /\ [Next]_vars
  BY TypeStep DEF LInv, IInv, historyVars
<1>2. CASE UNCHANGED historyVars
  BY <1>2
     DEF historyVars, vars, apiVars, cacheVars, cloudVars, localVars, Wiping,
         DeadAddressOnlyOverlooked, GoneOrGoing
<1>3. CASE Next /\ Remember
  <2>1. DeadAddressOnlyOverlooked'
    BY <1>1, <1>3, DeadOverlooked DEF DeadAddressOnlyOverlooked
  <2>2. (\A i \in Ingresses : ~ing[i].exists => ing[i].ip = 0)'
    BY <1>1, OneIngress DEF Wiping
  <2>3. (\A i \in Ingresses : i \notin unseen => cIng[i] = ing[i])'
    BY <1>1, CacheFollows DEF Wiping
  <2>4. overlooked' \in [Uids -> SUBSET Ingresses] /\ unread' \subseteq Ingresses
    BY <1>1, <1>3, Remembered
  <2> QED
    BY <1>1, <1>3, <2>1, <2>2, <2>3, <2>4, ListedOrUnread, LeftOverlooked DEF Wiping
<1> QED
  BY <1>2, <1>3

\* An Ingress can advertise the address of a load balancer that is gone or going only if
\* the informer cache had not seen its latest change when the last complete wipe for that
\* class listed the Ingresses, however the caches lag, whatever fails, and whoever creates
\* or deletes Ingresses and classes in between.
THEOREM DeadAddressOverlooked == HistorySpec => []DeadAddressOnlyOverlooked
<1>1. HistoryInit => LInv /\ Serving /\ Wiping
  <2>1. HistoryInit => Init /\ Serving /\ Wiping
    BY DEF HistoryInit, Init, Serving, Wiping, DeadAddressOnlyOverlooked, NoIngress
  <2> QED
    BY <2>1, LInvInit
<1>2. LInv /\ Serving /\ Wiping /\ [Next /\ Remember]_historyVars
        => LInv' /\ Serving' /\ Wiping'
  <2>1. [Next /\ Remember]_historyVars => [Next]_vars
    BY DEF historyVars
  <2> QED
    BY <2>1, LInvStep, ServingStep, WipingStep
<1>3. Wiping => DeadAddressOnlyOverlooked
  BY DEF Wiping
<1> QED
  BY <1>1, <1>2, <1>3, PTL DEF HistorySpec

-------------------------------------------------------------------------------
(* The version check of UpdateLoadBalancer *)

LEMMA Remainder ==
    ASSUME NEW y \in Nat, NEW m \in Nat, y < m
    PROVE  y % m = y
  OBVIOUS

LEMMA RemainderOfModulus == ASSUME NEW m \in Nat \ {0} PROVE m % m = 0
  OBVIOUS

\* Versions count up and start again at their bound.
LEMMA VersionCounts ==
    ASSUME NEW v \in 0 .. VersionBound - 1
    PROVE  /\ VersionBound \in Nat \ {0} /\ v \in Nat
           /\ NextVersion(v) \in 0 .. VersionBound - 1
           /\ NextVersion(v) = IF v + 1 = VersionBound THEN 0 ELSE v + 1
<1>1. VersionBound \in Nat \ {0}
  BY BoundsAreNaturals DEF VersionBound
<1>2. CASE v + 1 = VersionBound
  <2>1. NextVersion(v) = 0
    BY <1>1, <1>2, RemainderOfModulus DEF NextVersion
  <2> QED
    BY <1>1, <1>2, <2>1
<1>3. CASE v + 1 < VersionBound
  <2>1. v + 1 \in Nat
    BY <1>1
  <2>2. NextVersion(v) = v + 1
    BY <1>1, <1>3, <2>1, Remainder DEF NextVersion
  <2> QED
    BY <1>1, <1>3, <2>2
<1> QED
  BY <1>1, <1>2, <1>3

\* Users spend their edits one by one.
LEMMA EditsGrow ==
    ASSUME [Next]_vars
    PROVE  edits' = edits \/ (edits < MaxEdits /\ edits' = edits + 1)
<1>1. CASE Begin \/ ReconcileDeletion
  BY <1>1 DEF Begin, ReconcileDeletion, WipeList, WipePatch, PatchAt, StatusWiped,
     DelGetALB, DeleteALB, DelListCerts, DeleteCert, DeleteCertAt, CertsDeleted,
     RemoveFinalizer, budgets
<1>2. CASE ReconcileLive
  BY <1>2 DEF ReconcileLive, AddFinalizer, ReadCaches, GetALB, ListCerts, CreateCert,
     SelectCerts, CreateALB, UpdateALB, SkipUpdate, DeleteDuplicate, DuplicatesDeleted,
     DeleteUnused, DeleteCertAt, UnusedDeleted, CheckStatus, PatchStatus, PatchAt,
     StatusPatched, budgets
<1>3. CASE CallFails \/ Crash \/ Informers \/ Cloud \/ UNCHANGED vars
  BY <1>3 DEF CallFails, Crash, Informers, SyncClass, OtherEvent, TimerFires,
     SyncIngress, SyncSecret, Cloud, ALBReady, ALBError, Settle, ALBGone, DescribeCert,
     budgets, vars
<1>4. CASE Users
  BY <1>4 DEF Users, CreateClass, EditClass, DeleteClass, ToggleIngress, RotateSecret,
     EditLogs, Edit
<1> QED
  BY <1>1, <1>2, <1>3, <1>4 DEF Next, Worker

SameLogs(a, b) == a.ver = b.ver /\ a.logs = b.logs

\* w is k versions after v.
Later(v, k, w) == w = v + k \/ w = v + k - VersionBound

\* A load balancer that was read has the version it was read with, or as many versions
\* more as there were edits since: too few to come back to that version.
Versioned ==
    /\ edits <= MaxEdits
    /\ \A u \in Uids : alb[u].ver \in 0 .. VersionBound - 1
    /\ ~LogEdits => \A u \in Uids : ~alb[u].logs
    /\ pc \in {"listCerts", "createCerts", "apply"} /\ rALB.st # "none" =>
         /\ rALB.ver \in 0 .. VersionBound - 1
         /\ \/ SameLogs(alb[rClass.uid], rALB)
            \/ /\ LogEdits
               /\ \E k \in 1 .. edits : Later(rALB.ver, k, alb[rClass.uid].ver)

\* The update that is accepted repeats what the load balancer has.
LEMMA AcceptedRepeats ==
    ASSUME LInv, Versioned, pc = "apply", rALB.st # "none",
           alb[rClass.uid].ver = rALB.ver
    PROVE  alb[rClass.uid].logs = rALB.logs
<1>1. edits \in Nat /\ MaxEdits \in Nat /\ rALB.ver \in Nat
  BY BoundsAreNaturals, VersionCounts DEF LInv, IInv, TypeOK, BudgetTypes, Versioned
<1>2. LogEdits => VersionBound = MaxEdits + 1
  BY DEF VersionBound
<1>3. CASE LogEdits /\ \E k \in 1 .. edits : Later(rALB.ver, k, rALB.ver)
  BY <1>1, <1>2, <1>3 DEF Later, Versioned
<1> QED
  BY <1>3 DEF Versioned, SameLogs

\* What a step does to the version and the log configuration of a load balancer.
LEMMA VersionMoves ==
    ASSUME LInv, Versioned, [Next]_vars, NEW u \in Uids
    PROVE  \/ SameLogs(alb'[u], alb[u])
           \/ alb'[u] = NoALB /\ alb[u].st = "TERMINATING"
           \/ /\ CreateALB \/ UpdateALB
              /\ alb'[u].ver \in 0 .. VersionBound - 1
              /\ (alb[u].st = "none" /\ ~alb'[u].logs) \/ alb'[u].logs = alb[u].logs
           \/ /\ LogEdits /\ edits' = edits + 1 /\ UNCHANGED <<pc, localVars>>
              /\ alb'[u].ver = NextVersion(alb[u].ver)
<1>1. alb \in [Uids -> ALBRecord] /\ rALB \in ALBRecord /\ TypeOK
  BY DEF LInv, IInv, TypeOK, CloudTypes, WorkerTypes
<1>2. CASE CreateALB \/ UpdateALB
  <2>1. rClass.uid \in Uids
    BY <1>1, <1>2, ClassFields DEF CreateALB, UpdateALB, TypeOK, WorkerTypes
  <2>2. CASE alb' = alb
    BY <2>2 DEF SameLogs
  <2>3. ASSUME NEW a \in ALBRecord, WriteALB(a), a.ver \in 0 .. VersionBound - 1,
               (alb[rClass.uid].st = "none" /\ ~a.logs) \/ a.logs = alb[rClass.uid].logs
        PROVE  \/ SameLogs(alb'[u], alb[u])
               \/ /\ alb'[u].ver \in 0 .. VersionBound - 1
                  /\ (alb[u].st = "none" /\ ~alb'[u].logs) \/ alb'[u].logs = alb[u].logs
    <3>1. PICK st \in {"PENDING", "READY", "ERROR"} : Stored([a EXCEPT !.st = st])
      BY <2>3 DEF WriteALB
    <3>2. alb' = [alb EXCEPT ![rClass.uid] = [a EXCEPT !.st = st]]
      BY <3>1 DEF Stored
    <3>3. SameLogs([a EXCEPT !.st = st], a)
      BY DEF ALBRecord, SameLogs
    <3> QED
      BY <1>1, <2>1, <2>3, <3>2, <3>3 DEF SameLogs
  <2>4. CASE CreateALB /\ alb' # alb
    <3>1. /\ CreatePayload \in ALBRecord /\ WriteALB(CreatePayload)
          /\ alb[rClass.uid].st = "none"
      BY <1>1, <2>4, PayloadTypes DEF CreateALB, Reject
    <3>2. CreatePayload.ver = 0 /\ ~CreatePayload.logs
      BY DEF CreatePayload
    <3>3. 0 \in 0 .. VersionBound - 1
      BY BoundsAreNaturals DEF VersionBound
    <3> QED
      BY <1>2, <2>3, <3>1, <3>2, <3>3
  <2>5. CASE UpdateALB /\ alb' # alb
    <3>1. /\ Updated(UpdatePayload) \in ALBRecord /\ WriteALB(Updated(UpdatePayload))
          /\ pc = "apply" /\ rALB.st # "none"
          /\ alb[rClass.uid].ver = UpdatePayload.ver
      BY <1>1, <2>5, PayloadTypes DEF UpdateALB, Reject
    <3>2. /\ UpdatePayload.ver = rALB.ver /\ Updated(UpdatePayload).logs = rALB.logs
          /\ Updated(UpdatePayload).ver = NextVersion(rALB.ver)
      BY DEF UpdatePayload, CreatePayload, Updated
    <3>3. rALB.ver \in 0 .. VersionBound - 1
      BY <3>1 DEF Versioned
    <3>4. alb[rClass.uid].logs = rALB.logs
      BY <3>1, <3>2, AcceptedRepeats
    <3>5. NextVersion(rALB.ver) \in 0 .. VersionBound - 1
      BY <3>3, VersionCounts
    <3> QED
      BY <1>2, <2>3, <3>1, <3>2, <3>4, <3>5
  <2> QED
    BY <1>2, <2>2, <2>4, <2>5
<1>3. CASE DeleteALB
  BY <1>1, <1>3 DEF DeleteALB, Terminate, ALBRecord, SameLogs
<1>4. CASE \E v \in Uids : EditLogs(v)
  BY <1>1, <1>4 DEF EditLogs, Edit, OtherLogs, ALBRecord, SameLogs
<1>5. CASE \E v \in Uids : ALBReady(v) \/ ALBError(v) \/ ALBGone(v)
  BY <1>1, <1>5 DEF ALBReady, ALBError, Settle, ALBGone, ALBRecord, SameLogs
<1>6. CASE alb' = alb
  BY <1>6 DEF SameLogs
<1> QED
  BY <1>2, <1>3, <1>4, <1>5, <1>6, WhoTouchesALBs

LEMMA VersionedStep ==
    ASSUME LInv, Serving, Versioned, [Next]_vars
    PROVE  Versioned'
<1>1. /\ edits \in Nat /\ MaxEdits \in Nat /\ VersionBound \in Nat \ {0} /\ TypeOK
      /\ alb \in [Uids -> ALBRecord]
  BY BoundsAreNaturals DEF LInv, IInv, TypeOK, BudgetTypes, CloudTypes, VersionBound
<1>2. edits' \in Nat /\ edits <= edits' /\ edits' <= MaxEdits
  BY <1>1, EditsGrow DEF Versioned
<1>3. ASSUME NEW u \in Uids PROVE alb'[u].ver \in 0 .. VersionBound - 1
  <2>1. NextVersion(alb[u].ver) \in 0 .. VersionBound - 1
    BY VersionCounts DEF Versioned
  <2>2. NoALB.ver = 0
    BY DEF NoALB
  <2> QED
    BY <1>1, <2>1, <2>2, VersionMoves DEF Versioned, SameLogs
<1>4. ASSUME ~LogEdits, NEW u \in Uids PROVE ~alb'[u].logs
  <2>1. ~NoALB.logs
    BY DEF NoALB
  <2> QED
    BY <1>4, <2>1, VersionMoves DEF Versioned, SameLogs
<1>5. ASSUME pc' \in {"listCerts", "createCerts", "apply"}, rALB'.st # "none"
      PROVE  /\ rALB'.ver \in 0 .. VersionBound - 1
             /\ \/ SameLogs(alb'[rClass'.uid], rALB')
                \/ /\ LogEdits
                   /\ \E k \in 1 .. edits' : Later(rALB'.ver, k, alb'[rClass'.uid].ver)
  <2>1. CASE GetALB /\ rALB' = alb[rClass.uid] /\ rClass' = rClass
    <3>1. alb' = alb /\ rClass.uid \in Uids
      BY <1>1, <2>1, ClassFields DEF GetALB, cloudVars, TypeOK, WorkerTypes
    <3> QED
      BY <2>1, <3>1 DEF Versioned, SameLogs
  <2>2. CASE pc \in {"listCerts", "createCerts", "apply"} /\ UNCHANGED <<rClass, rALB>>
    <3>1. PICK u \in Uids : u = rClass.uid
      BY <1>1, <2>2, ClassFields DEF TypeOK, WorkerTypes
    <3>2. rALB.ver \in 0 .. VersionBound - 1 /\ alb[u].st # "TERMINATING"
      BY <1>5, <2>2, <3>1 DEF Versioned, Serving, InService
    <3>3. CASE SameLogs(alb'[u], alb[u])
      BY <1>1, <1>2, <1>5, <2>2, <3>1, <3>2, <3>3 DEF Versioned, SameLogs
    <3>4. CASE CreateALB \/ UpdateALB
      <4>1. alb' = alb
        <5>1. ASSUME NEW a, WriteALB(a) PROVE FALSE
          BY <1>5, <5>1 DEF WriteALB, Stored, Lost, RetryLater, Return, GoTo
        <5> QED
          BY <3>4, <5>1 DEF CreateALB, UpdateALB, Reject
      <4> QED
        BY <3>3, <4>1 DEF SameLogs
    <3>5. CASE /\ LogEdits /\ edits' = edits + 1
               /\ alb'[u].ver = NextVersion(alb[u].ver)
      <4>1. alb[u].ver \in 0 .. VersionBound - 1
        BY DEF Versioned
      <4>2. \/ alb'[u].ver = alb[u].ver + 1
            \/ alb'[u].ver = alb[u].ver + 1 - VersionBound
        BY <1>1, <3>5, <4>1, VersionCounts
      <4>3. CASE SameLogs(alb[u], rALB)
        <5>1. Later(rALB.ver, 1, alb'[u].ver)
          BY <4>2, <4>3 DEF Later, SameLogs
        <5> QED
          BY <1>1, <2>2, <3>1, <3>2, <3>5, <5>1
      <4>4. ASSUME NEW k \in 1 .. edits, Later(rALB.ver, k, alb[u].ver)
            PROVE  Later(rALB.ver, k + 1, alb'[u].ver)
        <5>1. alb'[u].ver \in 0 .. VersionBound - 1
          BY <1>3
        <5>2. k < VersionBound
          BY <1>1, <3>5, <4>4 DEF Versioned, VersionBound
        <5> QED
          BY <1>1, <3>2, <4>1, <4>2, <4>4, <5>1, <5>2 DEF Later
      <4> QED
        BY <1>1, <1>5, <2>2, <3>1, <3>2, <3>5, <4>3, <4>4 DEF Versioned
    <3> QED
      BY <3>1, <3>2, <3>3, <3>4, <3>5, VersionMoves
  <2> QED
    BY <1>5, <2>1, <2>2, WhereFrom
<1> QED
  BY <1>2, <1>3, <1>4, <1>5 DEF Versioned, SameLogs, Later

\* ToUpdatePayload repeats the log configuration that was read, and with it the version:
\* the API refuses the update if anyone has changed the load balancer since, so a
\* change made out of band is never undone, whatever fails or restarts.
THEOREM ForeignLogsKept == Spec => LogsKept
<1> DEFINE LogsAlone == \A u \in Uids :
             alb[u].st # "none" /\ alb'[u].st # "none" /\ alb'[u].logs # alb[u].logs
             => edits' # edits
<1>1. Init => LInv /\ Serving /\ Versioned
  <2>1. 0 \in 0 .. VersionBound - 1 /\ 0 <= MaxEdits
    BY BoundsAreNaturals DEF VersionBound
  <2>2. Init => Serving /\ Versioned
    BY <2>1 DEF Init, Serving, Versioned, NoALB
  <2> QED
    BY <2>2, LInvInit
<1>2. LInv /\ Serving /\ Versioned /\ [Next]_vars => LInv' /\ Serving' /\ Versioned'
  BY LInvStep, ServingStep, VersionedStep
<1>3. ASSUME LInv, Versioned, [Next]_vars PROVE [LogsAlone]_vars
  <2>1. edits \in Nat /\ NoALB.st = "none"
    BY <1>3 DEF LInv, IInv, TypeOK, BudgetTypes, NoALB
  <2> QED
    BY <1>3, <2>1, VersionMoves DEF SameLogs
<1>4. LInv /\ Versioned /\ [Next]_vars => [LogsAlone]_vars
  BY <1>3
<1> QED
  BY <1>1, <1>2, <1>4, PTL DEF Spec, LogsKept

-------------------------------------------------------------------------------
(* Calls of an old leader: the invariant *)

\* What the call that was left behind is about.
LateTypes ==
    /\ late.call = "createCert" => late.uid \in Uids /\ late.fp \in Fingerprints
    /\ late.call \in {"createALB", "updateALB"} => late.uid \in Uids /\ late.alb \in ALBRecord
    /\ late.call = "deleteALB" => late.uid \in Uids
    /\ late.call = "patch" => late.ing \in Ingresses /\ late.ip \in 0 .. MaxUid
    /\ late.call \in {"addFinalizer", "removeFinalizer"} =>
         late.class \in ClassRecord /\ late.class # NoClass

\* The class is gone or has a deletion timestamp, and its UID is not given again.
Dead(u) == u <= lastUid /\ (class.uid = u => class.phase = "deleting")

\* Nobody still takes the class for a live one.
Forgotten(u) ==
    /\ cClass.uid = u => cClass.phase = "deleting"
    /\ ~(pc \in LiveSteps \union {"addFinalizer"} /\ rClass.uid = u)

\* A deletion that was left behind is about such a class.
LateDeletes ==
    /\ late.call = "deleteALB" => Dead(late.uid)
    /\ late.call = "removeFinalizer" =>
         Dead(late.class.uid) /\ Forgotten(late.class.uid)

HInv == TypeOK /\ Lineage /\ LateTypes /\ LateDeletes

\* What the types say of the classes, wherever they are kept.
LEMMA Classes ==
    ASSUME TypeOK
    PROVE  /\ class \in ClassRecord /\ cClass \in ClassRecord /\ rClass \in ClassRecord
           /\ lastUid \in Nat /\ (pc # "idle" => rClass # NoClass)
           /\ class.uid \in Nat /\ cClass.uid \in Nat /\ rClass.uid \in Nat
<1>1. /\ class \in ClassRecord /\ cClass \in ClassRecord /\ rClass \in ClassRecord
      /\ lastUid \in Nat /\ (pc # "idle" => rClass # NoClass)
  BY BoundsAreNaturals DEF TypeOK, ApiTypes, CacheTypes, WorkerTypes
<1>2. 0 .. MaxUid \subseteq Nat
  BY BoundsAreNaturals
<1>3. class.uid \in 0 .. MaxUid /\ cClass.uid \in 0 .. MaxUid /\ rClass.uid \in 0 .. MaxUid
  BY <1>1, ClassFields
<1> QED
  BY <1>1, <1>2, <1>3

LEMMA HInvInit == InitBoth => HInv
<1> SUFFICES ASSUME InitBoth PROVE HInv
  OBVIOUS
<1> USE DEF InitBoth
<1>1. class \in ClassRecord /\ 1 \in 0 .. MaxUid
  BY ClassThere, BoundsAreNaturals DEF ClassRecord, Uids
<1>2. ApiTypes /\ CacheTypes
  <2>1. [exists |-> TRUE, ip |-> 0] \in IngressRecord
    BY BoundsAreNaturals DEF IngressRecord
  <2>2. ing \in [Ingresses -> IngressRecord]
    BY <2>1
  <2>3. secret \in [Ingresses -> Fingerprints \union {NoCert}]
    OBVIOUS
  <2>4. cIng = ing /\ cSecret = secret /\ cClass = class /\ lastUid = 1 /\ unseen = {}
    OBVIOUS
  <2> QED
    BY <1>1, <2>2, <2>3, <2>4 DEF ApiTypes, CacheTypes
<1>3. CloudTypes /\ QueueTypes /\ BudgetTypes
  BY ConstantTypes DEF CloudTypes, QueueTypes, BudgetTypes
<1>4. WorkerTypes
  BY ConstantTypes DEF WorkerTypes, Steps
<1>5. Lineage
  BY DEF Lineage, LiveSteps, DeletionSteps, NoClass
<1>6. LateTypes /\ LateDeletes
  BY DEF LateTypes, LateDeletes, NoCall
<1> QED
  BY <1>2, <1>3, <1>4, <1>5, <1>6 DEF HInv, TypeOK

-------------------------------------------------------------------------------
(* Calls of an old leader: the steps *)

\* The leader that steps down leaves a call of the right kind behind.
LEMMA StepDownHInv ==
    ASSUME HInv, StepDown
    PROVE  HInv'
<1>1. [Next]_vars /\ Crash
  BY DEF StepDown, Next
<1>2. TypeOK' /\ Lineage'
  BY <1>1, TypeStep, LineageStep DEF HInv
<1>3. late' \in CertCalls \union ALBCalls \union KubernetesCalls
  BY DEF StepDown
<1>4. TypeOK /\ Lineage
  BY DEF HInv
<1>5. /\ class' = class /\ lastUid' = lastUid /\ cClass' = class
      /\ pc' = "idle"
  BY <1>1 DEF Crash, Return, apiVars
<1>6. CASE late' \in CertCalls
  <2>1. \/ late'.call = "createCert" /\ late'.uid = rClass.uid /\ late'.fp \in rMissing
           /\ pc = "createCerts"
        \/ late'.call = "deleteCert"
    BY <1>6 DEF CertCalls, If
  <2>2. late'.call = "createCert" => late'.uid \in Uids /\ late'.fp \in Fingerprints
    BY <1>4, <2>1, Running DEF TypeOK, WorkerTypes
  <2> QED
    BY <1>2, <2>1, <2>2 DEF HInv, LateTypes, LateDeletes
<1>7. CASE late' \in ALBCalls
  <2>1. \/ /\ late'.call \in {"createALB", "updateALB"} /\ late'.uid = rClass.uid
           /\ late'.alb \in {CreatePayload, UpdatePayload} /\ pc = "apply"
        \/ late'.call = "deleteALB" /\ late'.uid = rClass.uid /\ pc = "deleteALB"
    BY <1>7 DEF ALBCalls, If
  <2>2. rClass.uid \in Uids /\ CreatePayload \in ALBRecord /\ UpdatePayload \in ALBRecord
    BY <1>4, <2>1, Running, PayloadTypes
  <2>3. LateTypes'
    BY <2>1, <2>2 DEF LateTypes
  <2>4. LateDeletes'
    BY <1>4, <1>5, <2>1 DEF LateDeletes, Lineage, DeletionSteps, Dead
  <2> QED
    BY <1>2, <2>3, <2>4 DEF HInv
<1>8. CASE late' \in KubernetesCalls
  <2>1. \/ /\ late'.call = "patch" /\ late'.ing \in rPatch
           /\ late'.ip \in {0, rClass.uid}
        \/ /\ late'.call \in {"addFinalizer", "removeFinalizer"}
           /\ late'.call = pc /\ late'.class = rClass
    BY <1>8 DEF KubernetesCalls, If
  <2>2. rClass.uid \in 0 .. MaxUid /\ 0 \in 0 .. MaxUid /\ rPatch \subseteq Ingresses
    BY <1>4, Classes, ClassFields, BoundsAreNaturals DEF TypeOK, WorkerTypes
  <2>3. LateTypes'
    BY <1>4, <2>1, <2>2, Classes DEF LateTypes
  <2>4. LateDeletes'
    BY <1>4, <1>5, <2>1 DEF LateDeletes, Lineage, DeletionSteps, LiveSteps, Dead,
       Forgotten
  <2> QED
    BY <1>2, <2>3, <2>4 DEF HInv
<1> QED
  BY <1>3, <1>6, <1>7, <1>8

\* A class that is gone, or going, stays so.
LEMMA DeadStays ==
    ASSUME TypeOK, Lineage, [Next]_vars, NEW u \in Uids, Dead(u)
    PROVE  Dead(u)'
<1> USE DEF Dead
<1>0. u \in Nat /\ u # 0
  BY BoundsAreNaturals DEF Uids
<1>1. CASE UNCHANGED <<class, lastUid>>
  BY <1>1
<1>2. CASE AddFinalizer
  <2>1. CASE class = rClass /\ class # NoClass
    <3>1. class'.uid = class.uid /\ class'.phase = class.phase
      BY <1>2, <2>1, Classes, FinalizerAdded DEF AddFinalizer
    <3> QED
      BY <1>2, <3>1 DEF AddFinalizer
  <2> QED
    BY <1>1, <1>2, <2>1, Classes DEF AddFinalizer
<1>3. CASE RemoveFinalizer
  BY <1>0, <1>3 DEF RemoveFinalizer, NoClass
<1>4. CASE CreateClass
  BY <1>0, <1>4, Classes DEF CreateClass
<1>5. CASE EditClass
  <2>1. class'.uid = class.uid /\ class'.phase = class.phase
    BY <1>5, Classes, AnnotationEdited DEF EditClass
  <2> QED
    BY <1>5, <2>1 DEF EditClass
<1>6. CASE DeleteClass
  BY <1>0, <1>6 DEF DeleteClass, NoClass
<1>7. CASE Begin \/ CallFails \/ Crash \/ SyncClass
  BY <1>1, <1>7 DEF Begin, CallFails, Crash, SyncClass, apiVars
<1> QED
  BY <1>1, <1>2, <1>3, <1>4, <1>5, <1>6, <1>7, StepCases, ElsewhereKeeps, MiddleSteps
     DEF KeepsClasses

\* A class that nobody takes for a live one is not taken for one again.
LEMMA ForgottenStays ==
    ASSUME TypeOK, Lineage, [Next]_vars, NEW u \in Uids, Dead(u), Forgotten(u)
    PROVE  Forgotten(u)'
<1> USE DEF Forgotten
<1>0. u # 0
  BY BoundsAreNaturals DEF Uids
<1>1. CASE UNCHANGED <<cClass, pc, rClass>>
  BY <1>1
<1>2. CASE Ends /\ (cClass' = cClass \/ cClass' = class)
  BY <1>2 DEF Ends, Dead, LiveSteps
<1>3. CASE Begin
  BY <1>3 DEF Begin, cacheVars, LiveSteps
<1>4. CASE AddFinalizer
  <2>1. CASE Ends
    BY <1>2, <1>4, <2>1 DEF AddFinalizer, cacheVars
  <2>2. CASE ~Ends
    <3>1. class = rClass /\ class' = [class EXCEPT !.fin = TRUE] /\ rClass' = class'
          /\ pc = "addFinalizer" /\ cClass' = cClass
      BY <1>4, <2>2, ReturnEnds DEF AddFinalizer, cacheVars
    <3>2. rClass'.uid = rClass.uid
      BY <3>1, Classes, FinalizerAdded
    <3> QED
      BY <3>1, <3>2
  <2> QED
    BY <2>1, <2>2
<1>5. CASE RemoveFinalizer \/ CallFails \/ Crash
  <2>1. Ends
    BY <1>5, ReturnEnds DEF RemoveFinalizer, CallFails, Crash, Return, Ends
  <2> QED
    BY <1>2, <1>5, <2>1 DEF RemoveFinalizer, CallFails, Crash, cacheVars
<1>6. CASE SyncClass
  BY <1>6 DEF SyncClass, Dead, localVars
<1>7. CASE CreateClass \/ EditClass \/ DeleteClass
  BY <1>1, <1>7 DEF CreateClass, EditClass, DeleteClass, Edit, localVars
<1>8. CASE Elsewhere
  BY <1>1, <1>8, ElsewhereKeeps DEF KeepsClasses, localVars
<1>9. CASE \/ ReconcileLive /\ ~AddFinalizer
           \/ ReconcileDeletion /\ ~RemoveFinalizer
  BY <1>2, <1>9, MiddleSteps DEF KeepsClasses, GoesOn, LiveSteps, DeletionSteps
<1> QED
  BY <1>3, <1>4, <1>5, <1>6, <1>7, <1>8, <1>9, StepCases

\* While a call is under way everything else goes on.
LEMMA OthersHInv ==
    ASSUME HInv, [Next]_vars, late' = late
    PROVE  HInv'
<1>1. TypeOK' /\ Lineage' /\ TypeOK /\ Lineage
  BY TypeStep, LineageStep DEF HInv
<1>2. LateTypes'
  BY DEF HInv, LateTypes
<1>3. CASE late.call = "deleteALB"
  <2>1. late.uid \in Uids /\ Dead(late.uid)
    BY <1>3 DEF HInv, LateTypes, LateDeletes
  <2>2. late.uid <= lastUid' /\ (class'.uid = late.uid => class'.phase = "deleting")
    BY <1>1, <2>1, DeadStays DEF Dead
  <2> QED
    BY <1>1, <1>2, <1>3, <2>2 DEF HInv, LateDeletes, Dead
<1>4. CASE late.call = "removeFinalizer"
  <2>1. late.class.uid \in Uids /\ Dead(late.class.uid) /\ Forgotten(late.class.uid)
    BY <1>4, ClassFields DEF HInv, LateTypes, LateDeletes
  <2>2. /\ late.class.uid <= lastUid'
        /\ class'.uid = late.class.uid => class'.phase = "deleting"
    BY <1>1, <2>1, DeadStays DEF Dead
  <2>3. /\ cClass'.uid = late.class.uid => cClass'.phase = "deleting"
        /\ ~(pc' \in LiveSteps \union {"addFinalizer"} /\ rClass'.uid = late.class.uid)
    BY <1>1, <2>1, ForgottenStays DEF Forgotten
  <2> QED
    BY <1>1, <1>2, <1>4, <2>2, <2>3 DEF HInv, LateDeletes, Dead, Forgotten
<1> QED
  BY <1>1, <1>2, <1>3, <1>4 DEF HInv, LateDeletes

\* The late call takes effect.
LEMMA LateCallHInv ==
    ASSUME HInv, LateCall
    PROVE  HInv'
<1> USE DEF LateCall
<1>1. TypeOK /\ Lineage /\ LateTypes /\ LateDeletes
  BY DEF HInv
<1>2. LateTypes' /\ LateDeletes'
  BY DEF LateTypes, LateDeletes, NoCall
<1>3. QueueTypes' /\ BudgetTypes' /\ WorkerTypes'
  BY <1>1, WorkerUnchanged DEF TypeOK, QueueTypes, BudgetTypes, budgets
<1>4. CASE LateSTACKIT
  <2>1. ApiTypes' /\ CacheTypes' /\ Lineage'
    BY <1>1, <1>4
       DEF LateSTACKIT, TypeOK, ApiTypes, CacheTypes, Lineage, apiVars, localVars
  <2>2. alb' \in [Uids -> ALBRecord]
    <3>1. CASE CreateLoadBalancer
      BY <1>1, <3>1
         DEF CreateLoadBalancer, LateTypes, TypeOK, CloudTypes, ALBRecord, ALBStates
    <3>2. CASE UpdateLoadBalancer
      <4>1. late.alb \in ALBRecord
        BY <1>1, <3>2 DEF UpdateLoadBalancer, LateTypes
      <4>2. NextVersion(late.alb.ver) \in Nat
        BY <4>1, NextVersionType DEF ALBRecord
      <4>3. Updated(late.alb) \in ALBRecord
        BY <4>1, <4>2 DEF Updated, ALBRecord
      <4>4. \A st \in {"PENDING", "READY", "ERROR"} :
              [Updated(late.alb) EXCEPT !.st = st] \in ALBRecord
        BY <4>3 DEF ALBRecord, ALBStates
      <4> QED
        BY <1>1, <3>2, <4>4 DEF UpdateLoadBalancer, TypeOK, CloudTypes
    <3>3. CASE DeleteLoadBalancer
      <4>1. \A a \in ALBRecord : Terminate(a) \in ALBRecord
        BY DEF Terminate, ALBRecord, ALBStates
      <4> QED
        BY <1>1, <3>3, <4>1 DEF DeleteLoadBalancer, TypeOK, CloudTypes
    <3> QED
      BY <1>1, <1>4, <3>1, <3>2, <3>3
         DEF LateSTACKIT, CreateCertificate, DeleteCertificate, TypeOK, CloudTypes
  <2>3. certs' \subseteq CertRecord /\ nextId' \in Nat
    <3>1. CASE CreateCertificate
      <4>1. late.uid \in 0 .. MaxUid /\ late.fp \in Fingerprints /\ nextId \in Nat
        BY <1>1, <3>1, BoundsAreNaturals
           DEF CreateCertificate, LateTypes, Uids, TypeOK, CloudTypes
      <4>2. \A k \in Responses :
              [id |-> nextId, uid |-> late.uid, fp |-> late.fp, known |-> k] \in CertRecord
        BY <4>1 DEF CertRecord, Responses
      <4> QED
        BY <1>1, <3>1, <4>1, <4>2 DEF CreateCertificate, TypeOK, CloudTypes
    <3> QED
      BY <1>1, <1>4, <3>1
         DEF LateSTACKIT, DeleteCertificate, CreateLoadBalancer, UpdateLoadBalancer,
             DeleteLoadBalancer, TypeOK, CloudTypes
  <2> QED
    BY <1>2, <1>3, <2>1, <2>2, <2>3 DEF HInv, TypeOK, CloudTypes
<1>5. CASE LateKubernetes
  <2>1. CloudTypes'
    BY <1>1, <1>5, CloudUnchanged DEF LateKubernetes, TypeOK
  <2>2. /\ UNCHANGED <<cClass, pc, rClass, lastUid, secret>>
        /\ UNCHANGED <<cIng, cSecret>>
    BY <1>5 DEF LateKubernetes, localVars
  <2>3. ing' \in [Ingresses -> IngressRecord] /\ unseen' \subseteq Ingresses
    <3>1. CASE /\ late.call = "patch" /\ late.ing \in Ingresses
               /\ WriteIngress(late.ing, [ing[late.ing] EXCEPT !.ip = late.ip])
      <4>1. late.ip \in 0 .. MaxUid
        BY <1>1, <3>1 DEF LateTypes
      <4> QED
        BY <1>1, <3>1, <4>1
           DEF WriteIngress, TypeOK, ApiTypes, CacheTypes, IngressRecord
    <3> QED
      BY <1>1, <1>5, <3>1 DEF LateKubernetes, LateTypes, TypeOK, ApiTypes, CacheTypes
  <2>4. class' \in ClassRecord /\ Lineage'
    <3>1. CASE class' = class
      BY <1>1, <2>2, <3>1, Classes DEF Lineage
    <3>2. CASE late.call = "addFinalizer" /\ class = late.class
               /\ class' = [class EXCEPT !.fin = TRUE]
      <4>1. class # NoClass /\ class \in ClassRecord
        BY <1>1, <3>2 DEF LateTypes
      <4>2. class'.uid = class.uid /\ class'.phase = class.phase /\ class'.fin
        BY <3>2, <4>1, FinalizerAdded
      <4>3. class' \in ClassRecord
        BY <3>2, <4>1 DEF ClassRecord, NoClass
      <4> QED
        BY <1>1, <2>2, <4>2, <4>3 DEF Lineage
    <3>3. CASE late.call = "removeFinalizer" /\ class = late.class /\ class' = NoClass
      <4>1. class # NoClass /\ Dead(class.uid) /\ Forgotten(class.uid)
        BY <1>1, <3>3 DEF LateTypes, LateDeletes
      <4> QED
        BY <1>1, <2>2, <3>3, <4>1, Classes, ClassFields, ConstantTypes
           DEF Lineage, Dead, Forgotten, NoClass, LiveSteps, DeletionSteps
    <3> QED
      BY <1>5, <3>1, <3>2, <3>3 DEF LateKubernetes
  <2> QED
    BY <1>1, <1>2, <1>3, <2>1, <2>2, <2>3, <2>4
       DEF HInv, TypeOK, ApiTypes, CacheTypes
<1> QED
  BY <1>4, <1>5

LEMMA HInvStep == HInv /\ [NextBoth]_allVars => HInv'
<1> SUFFICES ASSUME HInv, [NextBoth]_allVars PROVE HInv'
  OBVIOUS
<1>1. CASE UNCHANGED allVars
  BY <1>1, OthersHInv DEF allVars
<1>2. CASE LateCallFails
  <2>1. TypeOK' /\ Lineage'
    BY <1>2, TypeStep, LineageStep DEF LateCallFails, HInv
  <2> QED
    BY <1>2, <2>1 DEF LateCallFails, HInv, LateTypes, LateDeletes, NoCall
<1> QED
  BY <1>1, <1>2, OthersHInv, StepDownHInv, LateCallHInv DEF NextBoth

-------------------------------------------------------------------------------
(* Calls of an old leader: the theorem *)

\* No step takes the load balancer of a live class out of service.
LEMMA TakenDownLate ==
    ASSUME HInv, [NextBoth]_allVars, NEW u \in Uids,
           InService(alb[u]), ~InService(alb'[u])
    PROVE  class.uid # u \/ class.phase # "live"
<1>1. TypeOK /\ Lineage /\ LateTypes /\ LateDeletes /\ alb \in [Uids -> ALBRecord]
  BY DEF HInv, TypeOK, CloudTypes
<1>2. CASE [Next]_vars
  BY <1>1, <1>2, TakenDown
<1>3. CASE LateCall /\ alb' # alb
  <2>1. CreateLoadBalancer \/ UpdateLoadBalancer \/ DeleteLoadBalancer
    BY <1>3 DEF LateCall, LateSTACKIT, LateKubernetes, CreateCertificate,
                DeleteCertificate, cloudVars
  <2>2. CASE CreateLoadBalancer
    BY <1>1, <2>2 DEF CreateLoadBalancer, InService
  <2>3. CASE UpdateLoadBalancer
    <3>1. late.alb \in ALBRecord
      BY <1>1, <2>3 DEF UpdateLoadBalancer, LateTypes
    <3>2. \A st \in {"PENDING", "READY", "ERROR"} :
            [Updated(late.alb) EXCEPT !.st = st].st = st
      BY <3>1 DEF Updated, ALBRecord
    <3> QED
      BY <1>1, <2>3, <3>2 DEF UpdateLoadBalancer, InService
  <2>4. CASE DeleteLoadBalancer
    BY <1>1, <2>4 DEF DeleteLoadBalancer, LateDeletes, Dead
  <2> QED
    BY <2>1, <2>2, <2>3, <2>4
<1>4. LateCall \/ [Next]_vars
  BY DEF NextBoth, StepDown, LateCallFails, Next, allVars
<1> QED
  BY <1>2, <1>3, <1>4

\* No call, late or not, takes down the load balancer of a class that stays: when the
\* lease changes hands, the old leader's DeleteLoadBalancer can only be one for a class
\* with a deletion timestamp, and its update only one that the API still accepts.
THEOREM LateCallsHarmless == SpecBoth => LiveALBSurvives
<1> DEFINE Survives == \A u \in Uids :
             /\ alb[u].st \in {"PENDING", "READY", "ERROR"}
             /\ alb'[u].st \in {"none", "TERMINATING"}
             => class.uid # u \/ class.phase # "live"
<1>1. HInv /\ [NextBoth]_allVars => [Survives]_allVars
  BY TakenDownLate DEF InService
<1> QED
  BY <1>1, HInvInit, HInvStep, PTL DEF SpecBoth, LiveALBSurvives
===============================================================================
