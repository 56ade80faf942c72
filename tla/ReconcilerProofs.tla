--------------------------- MODULE ReconcilerProofs ---------------------------
(* Proofs about the IngressClass reconciler, for every value of the constants. *)
EXTENDS Reconciler, TLAPS

-------------------------------------------------------------------------------
(* Data *)

LEMMA ConstantTypes ==
    /\ NoClass \in ClassRecord /\ NoIngress \in IngressRecord /\ NoALB \in ALBRecord
    /\ MaxEdits \in Nat /\ MaxUid \in Nat
  BY BoundsAreNaturals
     DEF ClassRecord, NoClass, IngressRecord, NoIngress, ALBRecord, ALBStates, NoALB

LEMMA NegationType == ASSUME NEW b \in BOOLEAN PROVE (~b) \in BOOLEAN
<1>1. CASE b = TRUE
  BY <1>1
<1>2. CASE b = FALSE
  BY <1>2
<1> QED
  BY <1>1, <1>2

\* The IDs of stored certificates are naturals.
LEMMA IdsAreNaturals == ASSUME NEW C \in SUBSET CertRecord PROVE Ids(C) \subseteq Nat
  BY DEF Ids, CertRecord

LEMMA NextVersionType == ASSUME NEW v \in Nat PROVE NextVersion(v) \in Nat
  BY BoundsAreNaturals, SwitchesAreBoolean DEF NextVersion, VersionBound

\* The fields of a class that is there.
LEMMA ClassFields ==
    ASSUME NEW c \in ClassRecord
    PROVE  /\ c.uid \in 0 .. MaxUid /\ c.fin \in BOOLEAN
           /\ c.valid \in BOOLEAN /\ c.ext \in BOOLEAN
           /\ c # NoClass => c.uid \in Uids /\ c.phase \in {"live", "deleting"}
           /\ c.phase = "absent" <=> c = NoClass
           /\ c.uid = 0 <=> c = NoClass
<1>1. CASE c = NoClass
  BY <1>1, BoundsAreNaturals DEF NoClass
<1>2. CASE c \in [phase : {"live", "deleting"}, uid : Uids, fin : BOOLEAN,
                  valid : BOOLEAN, ext : BOOLEAN]
  <2>1. c.uid \in 1 .. MaxUid /\ c.phase \in {"live", "deleting"}
    BY <1>2 DEF Uids
  <2>2. c # NoClass
    BY <2>1 DEF NoClass
  <2>3. c.fin \in BOOLEAN /\ c.valid \in BOOLEAN /\ c.ext \in BOOLEAN
    BY <1>2, Zenon
  <2> QED
    BY <2>1, <2>2, <2>3, BoundsAreNaturals DEF Uids
<1> QED
  BY <1>1, <1>2 DEF ClassRecord

\* What the worker sends to the API is a load balancer.
LEMMA PayloadTypes ==
    ASSUME TypeOK
    PROVE  /\ PayloadCerts \subseteq Nat /\ UnusedCerts \subseteq Nat
           /\ DuplicateCerts \subseteq Nat
           /\ CreatePayload \in ALBRecord
           /\ UpdatePayload \in ALBRecord
           /\ Updated(UpdatePayload) \in ALBRecord
<1> USE DEF TypeOK, WorkerTypes
<1>1. PayloadCerts \subseteq Nat /\ UnusedCerts \subseteq Nat
  BY DEF PayloadCerts, UnusedCerts, Ids, CertRecord
<1>2. DuplicateCerts \subseteq Nat
  BY DEF DuplicateCerts, Described, Ids, CertRecord
<1>3. CreatePayload \in ALBRecord
  BY <1>1, ClassFields DEF CreatePayload, ALBRecord, ALBStates
<1>4. UpdatePayload \in ALBRecord
  BY <1>3 DEF UpdatePayload, ALBRecord
<1>5. Updated(UpdatePayload) \in ALBRecord
  <2>1. NextVersion(UpdatePayload.ver) \in Nat
    BY <1>4, NextVersionType DEF ALBRecord
  <2> QED
    BY <1>4, <2>1 DEF Updated, ALBRecord
<1> QED
  BY <1>1, <1>2, <1>3, <1>4, <1>5

-------------------------------------------------------------------------------
(* Types *)

LEMMA TypeInit == Init => TypeOK
<1> SUFFICES ASSUME Init PROVE TypeOK
  OBVIOUS
<1>1. ApiTypes /\ CacheTypes
  BY ConstantTypes DEF Init, ApiTypes, CacheTypes
<1>2. CloudTypes /\ QueueTypes /\ BudgetTypes
  BY ConstantTypes DEF Init, CloudTypes, QueueTypes, BudgetTypes
<1>3. WorkerTypes
  BY ConstantTypes DEF Init, WorkerTypes, Steps
<1> QED
  BY <1>1, <1>2, <1>3 DEF TypeOK

\* The end of a reconciliation leaves the worker idle, with nothing.
LEMMA ReturnType == Return => WorkerTypes'
  BY ConstantTypes DEF Return, WorkerTypes, Steps

LEMMA EndTypes == Done \/ RetryLater \/ Lost => WorkerTypes'
  BY ReturnType DEF Done, RetryLater, Lost

LEMMA QueueAndBudgetTypes ==
    ASSUME TypeOK, queued' \in BOOLEAN,
           \/ Done /\ faults' = faults
           \/ RetryLater /\ faults' = faults
           \/ Lost
           \/ timer' = timer /\ faults' = faults,
           edits' = edits
    PROVE  QueueTypes' /\ BudgetTypes'
<1>1. timer' = timer \/ timer' = TRUE
  BY DEF Done, RetryLater, Lost
<1>2. QueueTypes'
  BY <1>1, Zenon DEF TypeOK, QueueTypes
<1>3. faults' = faults \/ faults' = faults + 1
  BY DEF Lost
<1> QED
  BY <1>2, <1>3 DEF TypeOK, BudgetTypes

LEMMA ApiUnchanged == ApiTypes /\ UNCHANGED apiVars => ApiTypes'
  BY DEF ApiTypes, apiVars
LEMMA CacheUnchanged == CacheTypes /\ UNCHANGED cacheVars => CacheTypes'
  BY DEF CacheTypes, cacheVars
LEMMA CloudUnchanged == CloudTypes /\ UNCHANGED cloudVars => CloudTypes'
  BY DEF CloudTypes, cloudVars
LEMMA WorkerUnchanged == WorkerTypes /\ UNCHANGED <<pc, localVars>> => WorkerTypes'
  BY DEF WorkerTypes, localVars

\* Writing a load balancer, whether or not the response arrives.
LEMMA WriteTypes ==
    ASSUME TypeOK, NEW a \in ALBRecord, WriteALB(a), pc = "apply",
           UNCHANGED <<certs, nextId, queued, edits>>
    PROVE  CloudTypes' /\ QueueTypes' /\ BudgetTypes' /\ WorkerTypes'
<1>1. PICK st \in {"PENDING", "READY", "ERROR"} : Stored([a EXCEPT !.st = st])
  BY DEF WriteALB
<1> DEFINE new == [a EXCEPT !.st = st]
<1>2. new \in ALBRecord
  BY DEF ALBRecord, ALBStates
<1>3. CloudTypes'
  BY <1>1, <1>2 DEF Stored, TypeOK, CloudTypes
<1>4. QueueTypes' /\ BudgetTypes'
  BY <1>1, QueueAndBudgetTypes DEF Stored, GoTo, TypeOK, QueueTypes
<1>5. CASE Lost
  BY <1>3, <1>4, <1>5, EndTypes
<1>6. CASE GoTo("deleteDuplicates")
  <2> SUFFICES ASSUME ~Lost PROVE WorkerTypes'
    BY <1>3, <1>4, <1>5
  <2>1. /\ rALB' = new /\ rDoomed' = DuplicateCerts
        /\ UNCHANGED <<rClass, rIngs, rFps, rCerts, rMissing, rKept, rPatch>>
    BY <1>1 DEF Stored
  <2>2. pc' = "deleteDuplicates" /\ rClass # NoClass
    BY <1>6 DEF GoTo, TypeOK, WorkerTypes
  <2> HIDE DEF new
  <2> QED
    BY <1>2, <2>1, <2>2, PayloadTypes DEF TypeOK, WorkerTypes, Steps
<1> QED
  BY <1>1, <1>5, <1>6 DEF Stored

LEMMA RejectTypes ==
    ASSUME TypeOK, Reject, UNCHANGED <<certs, nextId, queued, edits>>
    PROVE  CloudTypes' /\ QueueTypes' /\ BudgetTypes' /\ WorkerTypes'
<1>1. CloudTypes'
  BY DEF Reject, TypeOK, CloudTypes
<1>2. QueueTypes' /\ BudgetTypes' /\ WorkerTypes'
  BY QueueAndBudgetTypes, EndTypes DEF Reject, TypeOK, QueueTypes
<1> QED
  BY <1>1, <1>2

\* One call of a deletion loop.
LEMMA DeleteCertTypes ==
    ASSUME TypeOK, NEW s \in Steps, DeleteCertAt(s), s # "idle"
    PROVE  TypeOK'
<1>1. ApiTypes' /\ CacheTypes'
  BY ApiUnchanged, CacheUnchanged DEF DeleteCertAt, TypeOK
<1>2. CloudTypes'
  BY DEF DeleteCertAt, TypeOK, CloudTypes
<1>3. QueueTypes' /\ BudgetTypes'
  BY QueueAndBudgetTypes DEF DeleteCertAt, GoTo, TypeOK, QueueTypes
<1>4. WorkerTypes'
  BY EndTypes DEF DeleteCertAt, GoTo, TypeOK, WorkerTypes
<1> QED
  BY <1>1, <1>2, <1>3, <1>4 DEF TypeOK

\* One call of a patch loop.
LEMMA PatchTypes ==
    ASSUME TypeOK, NEW s \in Steps, NEW ip \in 0 .. MaxUid, PatchAt(s, ip), s # "idle"
    PROVE  TypeOK'
<1>1. CloudTypes'
  BY CloudUnchanged DEF PatchAt, TypeOK
<1>2. ApiTypes' /\ CacheTypes'
  BY DEF PatchAt, WriteIngress, TypeOK, ApiTypes, CacheTypes, WorkerTypes,
     IngressRecord
<1>3. QueueTypes' /\ BudgetTypes'
  BY QueueAndBudgetTypes DEF PatchAt, GoTo, TypeOK, QueueTypes
<1>4. WorkerTypes'
  BY EndTypes DEF PatchAt, GoTo, TypeOK, WorkerTypes
<1> QED
  BY <1>1, <1>2, <1>3, <1>4 DEF TypeOK

LEMMA TypeStep == TypeOK /\ [Next]_vars => TypeOK'
<1> SUFFICES ASSUME TypeOK, [Next]_vars PROVE TypeOK'
  OBVIOUS
<1> USE DEF TypeOK
<1>1. CASE Begin
  <2>1. ApiTypes' /\ CacheTypes' /\ CloudTypes'
    BY <1>1, ApiUnchanged, CacheUnchanged, CloudUnchanged DEF Begin
  <2>2. QueueTypes' /\ BudgetTypes'
    BY <1>1 DEF Begin, budgets, QueueTypes, BudgetTypes
  <2>3. WorkerTypes'
    BY <1>1, ClassFields DEF Begin, CacheTypes, WorkerTypes, Steps
  <2> QED
    BY <2>1, <2>2, <2>3
<1>2. CASE AddFinalizer
  <2>1. CacheTypes' /\ CloudTypes'
    BY <1>2, CacheUnchanged, CloudUnchanged DEF AddFinalizer
  <2>2. QueueTypes' /\ BudgetTypes'
    BY <1>2, QueueAndBudgetTypes DEF AddFinalizer, GoTo, QueueTypes
  <2>3. ApiTypes'
    BY <1>2 DEF AddFinalizer, ApiTypes, WorkerTypes, ClassRecord, NoClass
  <2>4. WorkerTypes'
    <3>1. CASE class = rClass /\ GoTo("readCaches")
      <4>1. class' # NoClass
        BY <1>2, <3>1 DEF AddFinalizer, WorkerTypes, ApiTypes, ClassRecord, NoClass
      <4>2. rClass' = class' \/ RetryLater \/ Lost
        BY <1>2 DEF AddFinalizer
      <4> QED
        BY <1>2, <2>3, <3>1, <4>1, EndTypes
           DEF AddFinalizer, ApiTypes, WorkerTypes, Steps, GoTo
    <3> QED
      BY <1>2, <3>1, EndTypes DEF AddFinalizer
  <2> QED
    BY <2>1, <2>2, <2>3, <2>4
<1>3. CASE ReadCaches
  <2>1. ApiTypes' /\ CacheTypes' /\ CloudTypes'
    BY <1>3, ApiUnchanged, CacheUnchanged, CloudUnchanged DEF ReadCaches
  <2>2. QueueTypes' /\ BudgetTypes'
    BY <1>3, QueueAndBudgetTypes DEF ReadCaches, budgets, QueueTypes
  <2>3. WorkerTypes'
    BY <1>3
       DEF ReadCaches, WorkerTypes, Steps, apiVars, cacheVars, ApiTypes, CacheTypes,
           Listed
  <2> QED
    BY <2>1, <2>2, <2>3
<1>4. CASE GetALB
  <2>1. ApiTypes' /\ CacheTypes' /\ CloudTypes'
    BY <1>4, ApiUnchanged, CacheUnchanged, CloudUnchanged DEF GetALB
  <2>2. QueueTypes' /\ BudgetTypes'
    BY <1>4, QueueAndBudgetTypes DEF GetALB, budgets, QueueTypes
  <2>3. WorkerTypes'
    BY <1>4, EndTypes, ClassFields DEF GetALB, WorkerTypes, Steps, CloudTypes
  <2> QED
    BY <2>1, <2>2, <2>3
<1>5. CASE ListCerts
  <2>1. ApiTypes' /\ CacheTypes' /\ CloudTypes'
    BY <1>5, ApiUnchanged, CacheUnchanged, CloudUnchanged DEF ListCerts
  <2>2. QueueTypes' /\ BudgetTypes'
    BY <1>5, QueueAndBudgetTypes DEF ListCerts, budgets, QueueTypes
  <2>3. WorkerTypes'
    BY <1>5
       DEF ListCerts, WorkerTypes, Steps, CloudTypes, CertsOf, Described, CertRecord
  <2> QED
    BY <2>1, <2>2, <2>3
<1>6. CASE CreateCert
  <2>1. ApiTypes' /\ CacheTypes'
    BY <1>6, ApiUnchanged, CacheUnchanged DEF CreateCert
  <2> PICK f \in rMissing, k \in Responses :
        LET new == [id |-> nextId, uid |-> rClass.uid, fp |-> f, known |-> k]
        IN \/ /\ certs' = certs \union {new}
              /\ nextId' = nextId + 1
              /\ \/ /\ GoTo("createCerts")
                    /\ rCerts' = rCerts \union {new}
                    /\ rMissing' = rMissing \ {f}
                    /\ UNCHANGED <<rClass, rIngs, rFps, rALB, rKept, rDoomed, rPatch>>
                 \/ Lost
           \/ RetryLater /\ UNCHANGED <<certs, nextId, faults>>
    BY <1>6 DEF CreateCert
  <2> DEFINE new == [id |-> nextId, uid |-> rClass.uid, fp |-> f, known |-> k]
  <2>2. new \in CertRecord
    BY ClassFields, SwitchesAreBoolean
       DEF CertRecord, Responses, CloudTypes, WorkerTypes
  <2>3. CloudTypes'
    BY <1>6, <2>2 DEF CreateCert, CloudTypes
  <2>4. QueueTypes' /\ BudgetTypes'
    BY <1>6, QueueAndBudgetTypes DEF CreateCert, GoTo, QueueTypes
  <2>5. WorkerTypes'
    BY <1>6, <2>2, EndTypes DEF CreateCert, GoTo, WorkerTypes, Steps
  <2> QED
    BY <2>1, <2>3, <2>4, <2>5
<1>7. CASE SelectCerts
  <2>1. ApiTypes' /\ CacheTypes' /\ CloudTypes'
    BY <1>7, ApiUnchanged, CacheUnchanged, CloudUnchanged DEF SelectCerts
  <2>2. QueueTypes' /\ BudgetTypes'
    BY <1>7, QueueAndBudgetTypes DEF SelectCerts, budgets, QueueTypes
  <2>3. WorkerTypes'
    BY <1>7 DEF SelectCerts, WorkerTypes, Steps, OnePerFingerprint, Described
  <2> QED
    BY <2>1, <2>2, <2>3
<1>8. CASE CreateALB
  <2>1. ApiTypes' /\ CacheTypes'
    BY <1>8, ApiUnchanged, CacheUnchanged DEF CreateALB
  <2>2. CloudTypes' /\ QueueTypes' /\ BudgetTypes' /\ WorkerTypes'
    BY <1>8, WriteTypes, RejectTypes, PayloadTypes DEF CreateALB
  <2> QED
    BY <2>1, <2>2
<1>9. CASE UpdateALB
  <2>1. ApiTypes' /\ CacheTypes'
    BY <1>9, ApiUnchanged, CacheUnchanged DEF UpdateALB
  <2>2. CloudTypes' /\ QueueTypes' /\ BudgetTypes' /\ WorkerTypes'
    BY <1>9, WriteTypes, RejectTypes, PayloadTypes DEF UpdateALB
  <2> QED
    BY <2>1, <2>2
<1>10. CASE SkipUpdate
  <2>1. ApiTypes' /\ CacheTypes' /\ CloudTypes'
    BY <1>10, ApiUnchanged, CacheUnchanged, CloudUnchanged DEF SkipUpdate
  <2>2. QueueTypes' /\ BudgetTypes'
    BY <1>10, QueueAndBudgetTypes DEF SkipUpdate, budgets, QueueTypes
  <2>3. WorkerTypes'
    BY <1>10, PayloadTypes DEF SkipUpdate, WorkerTypes, Steps
  <2> QED
    BY <2>1, <2>2, <2>3
<1>11. CASE DeleteDuplicate
  <2> PICK s \in Steps : DeleteCertAt(s) /\ s # "idle"
    BY <1>11 DEF DeleteDuplicate, Steps
  <2> QED
    BY DeleteCertTypes
<1>12. CASE DuplicatesDeleted
  <2>1. ApiTypes' /\ CacheTypes' /\ CloudTypes'
    BY <1>12, ApiUnchanged, CacheUnchanged, CloudUnchanged DEF DuplicatesDeleted
  <2>2. QueueTypes' /\ BudgetTypes'
    BY <1>12, QueueAndBudgetTypes DEF DuplicatesDeleted, budgets, QueueTypes
  <2>3. WorkerTypes'
    BY <1>12, PayloadTypes DEF DuplicatesDeleted, WorkerTypes, Steps
  <2> QED
    BY <2>1, <2>2, <2>3
<1>13. CASE DeleteUnused
  <2> PICK s \in Steps : DeleteCertAt(s) /\ s # "idle"
    BY <1>13 DEF DeleteUnused, Steps
  <2> QED
    BY DeleteCertTypes
<1>14. CASE UnusedDeleted
  <2>1. ApiTypes' /\ CacheTypes' /\ CloudTypes'
    BY <1>14, ApiUnchanged, CacheUnchanged, CloudUnchanged DEF UnusedDeleted
  <2>2. QueueTypes' /\ BudgetTypes'
    BY <1>14, QueueAndBudgetTypes DEF UnusedDeleted, budgets, QueueTypes
  <2>3. WorkerTypes'
    BY <1>14 DEF UnusedDeleted, WorkerTypes, Steps, localVars
  <2> QED
    BY <2>1, <2>2, <2>3
<1>15. CASE CheckStatus
  <2>1. ApiTypes' /\ CacheTypes' /\ CloudTypes'
    BY <1>15, ApiUnchanged, CacheUnchanged, CloudUnchanged DEF CheckStatus
  <2>2. QueueTypes' /\ BudgetTypes'
    BY <1>15, QueueAndBudgetTypes DEF CheckStatus, budgets, QueueTypes
  <2>3. WorkerTypes'
    BY <1>15, EndTypes DEF CheckStatus, WorkerTypes, Steps, Listed
  <2> QED
    BY <2>1, <2>2, <2>3
<1>16. CASE PatchStatus
  <2> PICK s \in Steps, ip \in 0 .. MaxUid : PatchAt(s, ip) /\ s # "idle"
    BY <1>16, ClassFields, BoundsAreNaturals DEF PatchStatus, Steps, WorkerTypes
  <2> QED
    BY PatchTypes
<1>17. CASE StatusPatched
  <2>1. ApiTypes' /\ CacheTypes' /\ CloudTypes'
    BY <1>17, ApiUnchanged, CacheUnchanged, CloudUnchanged DEF StatusPatched
  <2>2. QueueTypes' /\ BudgetTypes'
    BY <1>17, QueueAndBudgetTypes DEF StatusPatched, budgets, QueueTypes
  <2>3. WorkerTypes'
    BY <1>17, EndTypes DEF StatusPatched, WorkerTypes, Steps
  <2> QED
    BY <2>1, <2>2, <2>3
<1>18. CASE WipeList
  <2>1. ApiTypes' /\ CacheTypes' /\ CloudTypes'
    BY <1>18, ApiUnchanged, CacheUnchanged, CloudUnchanged DEF WipeList
  <2>2. QueueTypes' /\ BudgetTypes'
    BY <1>18, QueueAndBudgetTypes DEF WipeList, budgets, QueueTypes
  <2>3. WorkerTypes'
    BY <1>18 DEF WipeList, WorkerTypes, Steps, Listed
  <2> QED
    BY <2>1, <2>2, <2>3
<1>19. CASE WipePatch
  <2> PICK s \in Steps, ip \in 0 .. MaxUid : PatchAt(s, ip) /\ s # "idle"
    BY <1>19, ClassFields, BoundsAreNaturals DEF WipePatch, Steps, WorkerTypes
  <2> QED
    BY PatchTypes
<1>20. CASE StatusWiped
  <2>1. ApiTypes' /\ CacheTypes' /\ CloudTypes'
    BY <1>20, ApiUnchanged, CacheUnchanged, CloudUnchanged DEF StatusWiped
  <2>2. QueueTypes' /\ BudgetTypes'
    BY <1>20, QueueAndBudgetTypes DEF StatusWiped, budgets, QueueTypes
  <2>3. WorkerTypes'
    BY <1>20 DEF StatusWiped, WorkerTypes, Steps, localVars
  <2> QED
    BY <2>1, <2>2, <2>3
<1>21. CASE DelGetALB
  <2>1. ApiTypes' /\ CacheTypes' /\ CloudTypes'
    BY <1>21, ApiUnchanged, CacheUnchanged, CloudUnchanged DEF DelGetALB
  <2>2. QueueTypes' /\ BudgetTypes'
    BY <1>21, QueueAndBudgetTypes DEF DelGetALB, budgets, QueueTypes
  <2>3. WorkerTypes'
    BY <1>21, EndTypes DEF DelGetALB, WorkerTypes, Steps, localVars
  <2> QED
    BY <2>1, <2>2, <2>3
<1>22. CASE DeleteALB
  <2>1. ApiTypes' /\ CacheTypes'
    BY <1>22, ApiUnchanged, CacheUnchanged DEF DeleteALB
  <2>2. CloudTypes'
    <3>1. \A a \in ALBRecord : Terminate(a) \in ALBRecord
      BY DEF Terminate, ALBRecord, ALBStates
    <3> QED
      BY <1>22, <3>1 DEF DeleteALB, CloudTypes
  <2>3. QueueTypes' /\ BudgetTypes' /\ WorkerTypes'
    BY <1>22, QueueAndBudgetTypes, EndTypes DEF DeleteALB, budgets, QueueTypes
  <2> QED
    BY <2>1, <2>2, <2>3
<1>23. CASE DelListCerts
  <2>1. ApiTypes' /\ CacheTypes' /\ CloudTypes'
    BY <1>23, ApiUnchanged, CacheUnchanged, CloudUnchanged DEF DelListCerts
  <2>2. QueueTypes' /\ BudgetTypes'
    BY <1>23, QueueAndBudgetTypes DEF DelListCerts, budgets, QueueTypes
  <2>3. WorkerTypes'
    BY <1>23
       DEF DelListCerts, WorkerTypes, Steps, Ids, CertsOf, CloudTypes, CertRecord
  <2> QED
    BY <2>1, <2>2, <2>3
<1>24. CASE DeleteCert
  <2> PICK s \in Steps : DeleteCertAt(s) /\ s # "idle"
    BY <1>24 DEF DeleteCert, Steps
  <2> QED
    BY DeleteCertTypes
<1>25. CASE CertsDeleted
  <2>1. ApiTypes' /\ CacheTypes' /\ CloudTypes'
    BY <1>25, ApiUnchanged, CacheUnchanged, CloudUnchanged DEF CertsDeleted
  <2>2. QueueTypes' /\ BudgetTypes'
    BY <1>25, QueueAndBudgetTypes DEF CertsDeleted, budgets, QueueTypes
  <2>3. WorkerTypes'
    BY <1>25, EndTypes DEF CertsDeleted, WorkerTypes, Steps, localVars
  <2> QED
    BY <2>1, <2>2, <2>3
<1>26. CASE RemoveFinalizer
  <2>1. CacheTypes' /\ CloudTypes'
    BY <1>26, CacheUnchanged, CloudUnchanged DEF RemoveFinalizer
  <2>2. QueueTypes' /\ BudgetTypes' /\ WorkerTypes'
    BY <1>26, QueueAndBudgetTypes, EndTypes DEF RemoveFinalizer, QueueTypes
  <2>3. ApiTypes'
    BY <1>26, ConstantTypes DEF RemoveFinalizer, ApiTypes
  <2> QED
    BY <2>1, <2>2, <2>3
<1>27. CASE CallFails
  <2>1. ApiTypes' /\ CacheTypes' /\ CloudTypes'
    BY <1>27, ApiUnchanged, CacheUnchanged, CloudUnchanged DEF CallFails
  <2>2. QueueTypes' /\ BudgetTypes' /\ WorkerTypes'
    BY <1>27, EndTypes DEF CallFails, QueueTypes, BudgetTypes, RetryLater
  <2> QED
    BY <2>1, <2>2
<1>28. CASE Crash
  <2>1. ApiTypes' /\ CloudTypes' /\ CacheTypes'
    BY <1>28, ApiUnchanged, CloudUnchanged DEF Crash, CacheTypes, ApiTypes
  <2>2. QueueTypes' /\ BudgetTypes' /\ WorkerTypes'
    <3>1. QueueTypes'
      BY <1>28, Zenon DEF Crash, QueueTypes
    <3> QED
      BY <1>28, <3>1, ReturnType DEF Crash, BudgetTypes
  <2> QED
    BY <2>1, <2>2
<1>29. CASE SyncClass
  BY <1>29, WorkerUnchanged, ApiUnchanged, CloudUnchanged
     DEF SyncClass, QueueTypes, BudgetTypes, budgets, CacheTypes, ApiTypes
<1>30. CASE OtherEvent
  BY <1>30, WorkerUnchanged, ApiUnchanged, CacheUnchanged, CloudUnchanged
     DEF OtherEvent, QueueTypes, BudgetTypes, budgets, CacheTypes
<1>31. CASE TimerFires
  BY <1>31, WorkerUnchanged, ApiUnchanged, CacheUnchanged, CloudUnchanged
     DEF TimerFires, QueueTypes, BudgetTypes, budgets, CacheTypes
<1>32. CASE \E i \in Ingresses : SyncIngress(i)
  BY <1>32, WorkerUnchanged, ApiUnchanged, CloudUnchanged
     DEF SyncIngress, QueueTypes, BudgetTypes, budgets, CacheTypes, ApiTypes
<1>33. CASE \E i \in Ingresses : SyncSecret(i)
  BY <1>33, WorkerUnchanged, ApiUnchanged, CloudUnchanged
     DEF SyncSecret, QueueTypes, BudgetTypes, budgets, CacheTypes, ApiTypes
<1>34. CASE CreateClass
  BY <1>34, WorkerUnchanged, CloudUnchanged, SwitchesAreBoolean, BoundsAreNaturals
     DEF CreateClass, QueueTypes, BudgetTypes, budgets, Edit, ApiTypes, CacheTypes,
         ClassRecord, Uids
<1>35. CASE EditClass
  <2>1. class' \in ClassRecord
    <3>1. class # NoClass
      BY <1>35 DEF EditClass, NoClass
    <3>2. class \in [phase : {"live", "deleting"}, uid : Uids, fin : BOOLEAN,
                     valid : BOOLEAN, ext : BOOLEAN]
      BY <3>1 DEF ApiTypes, ClassRecord
    <3>3. \A x \in StaticIPs : x \in BOOLEAN
      BY SwitchesAreBoolean, Zenon
    <3>4. (~class.valid) \in BOOLEAN
      BY ClassFields, NegationType DEF ApiTypes
    <3> QED
      BY <1>35, <3>2, <3>3, <3>4 DEF EditClass, ClassRecord
  <2>2. ApiTypes'
    BY <1>35, <2>1 DEF EditClass, ApiTypes
  <2> QED
    BY <1>35, <2>2, WorkerUnchanged, CloudUnchanged
       DEF EditClass, Edit, QueueTypes, BudgetTypes, CacheTypes
<1>36. CASE DeleteClass
  BY <1>36, WorkerUnchanged, CloudUnchanged
     DEF DeleteClass, QueueTypes, BudgetTypes, budgets, Edit, ApiTypes, CacheTypes,
         ClassRecord, NoClass
<1>37. CASE \E i \in Ingresses : ToggleIngress(i)
  BY <1>37, WorkerUnchanged, CloudUnchanged, BoundsAreNaturals
     DEF ToggleIngress, QueueTypes, BudgetTypes, budgets, Edit, ApiTypes, CacheTypes,
         WriteIngress, IngressRecord
<1>38. CASE \E i \in Ingresses : RotateSecret(i)
  BY <1>38, WorkerUnchanged, CloudUnchanged
     DEF RotateSecret, QueueTypes, BudgetTypes, budgets, Edit, ApiTypes, CacheTypes
<1>39. CASE \E u \in Uids : EditLogs(u)
  <2> PICK u \in Uids : EditLogs(u)
    BY <1>39
  <2>1. OtherLogs(alb[u]) \in ALBRecord
    <3>1. alb[u] \in ALBRecord /\ NextVersion(alb[u].ver) \in Nat
      BY NextVersionType DEF CloudTypes, ALBRecord
    <3>2. (~alb[u].logs) \in BOOLEAN
      BY <3>1, NegationType DEF ALBRecord
    <3> QED
      BY <3>1, <3>2 DEF OtherLogs, ALBRecord
  <2>2. CloudTypes'
    BY <2>1 DEF EditLogs, CloudTypes
  <2> QED
    BY <2>2, WorkerUnchanged, ApiUnchanged
       DEF EditLogs, Edit, QueueTypes, BudgetTypes, CacheTypes
<1>40. CASE \E u \in Uids : ALBReady(u) \/ ALBError(u)
  BY <1>40, WorkerUnchanged, ApiUnchanged, CacheUnchanged
     DEF ALBReady, QueueTypes, BudgetTypes, budgets, Settle, CloudTypes, CacheTypes,
         ALBRecord, ALBStates, ALBError
<1>41. CASE \E u \in Uids : ALBGone(u)
  BY <1>41, WorkerUnchanged, ApiUnchanged, CacheUnchanged, ConstantTypes
     DEF ALBGone, QueueTypes, BudgetTypes, budgets, CloudTypes, CacheTypes
<1>42. CASE DescribeCert
  BY <1>42, WorkerUnchanged, ApiUnchanged, CacheUnchanged
     DEF DescribeCert, QueueTypes, BudgetTypes, budgets, CloudTypes, CertRecord
<1>43. CASE UNCHANGED vars
  BY <1>43, ApiUnchanged, CacheUnchanged, CloudUnchanged, WorkerUnchanged
     DEF vars, QueueTypes, BudgetTypes, budgets
<1> QED
  BY <1>1, <1>2, <1>3, <1>4, <1>5, <1>6, <1>7, <1>8, <1>9, <1>10, <1>11, <1>12, <1>13,
     <1>14, <1>15, <1>16, <1>17, <1>18, <1>19, <1>20, <1>21, <1>22, <1>23, <1>24,
     <1>25, <1>26, <1>27, <1>28, <1>29, <1>30, <1>31, <1>32, <1>33, <1>34, <1>35,
     <1>36, <1>37, <1>38, <1>39, <1>40, <1>41, <1>42, <1>43
     DEF Next, Worker, ReconcileLive, ReconcileDeletion, Informers, Users, Cloud

\* Every behaviour of the reconciler, for any number of Ingresses, incarnations,
\* certificates, edits and faults, keeps every variable in its type.
THEOREM TypeCorrect == Spec => []TypeOK
<1>1. Init => TypeOK
  BY TypeInit
<1>2. TypeOK /\ [Next]_vars => TypeOK'
  BY TypeStep
<1> QED
  BY <1>1, <1>2, PTL DEF Spec

-------------------------------------------------------------------------------
(* What the worker's steps leave alone *)

\* A reconciliation that ends, and one that goes on within its path.
Ends     == pc' = "idle" /\ rClass' = NoClass
GoesOn   == /\ rClass' = rClass
            /\ \/ pc \in LiveSteps /\ pc' \in LiveSteps
               \/ pc \in DeletionSteps /\ pc' \in DeletionSteps
KeepsClasses == UNCHANGED <<class, lastUid, cClass>>

LEMMA ReturnEnds == Done \/ RetryLater \/ Lost => Ends
  BY DEF Done, RetryLater, Lost, Return, Ends

\* Between its first and its last write of the class, the worker touches neither
\* the class nor what it believes about it.
LEMMA MiddleSteps ==
    ASSUME \/ ReconcileLive /\ ~AddFinalizer
           \/ ReconcileDeletion /\ ~RemoveFinalizer
    PROVE  KeepsClasses /\ (Ends \/ GoesOn)
<1>1. CASE ReadCaches
  BY <1>1, ReturnEnds
     DEF ReadCaches, KeepsClasses, GoesOn, GoTo,
         LiveSteps, DeletionSteps, apiVars, cacheVars, localVars
<1>2. CASE GetALB
  BY <1>2, ReturnEnds
     DEF GetALB, KeepsClasses, GoesOn, GoTo,
         LiveSteps, DeletionSteps, apiVars, cacheVars, localVars
<1>3. CASE ListCerts
  BY <1>3, ReturnEnds
     DEF ListCerts, KeepsClasses, GoesOn, GoTo,
         LiveSteps, DeletionSteps, apiVars, cacheVars, localVars
<1>4. CASE CreateCert
  BY <1>4, ReturnEnds
     DEF CreateCert, KeepsClasses, GoesOn, GoTo,
         LiveSteps, DeletionSteps, apiVars, cacheVars, localVars
<1>5. CASE SelectCerts
  BY <1>5, ReturnEnds
     DEF SelectCerts, KeepsClasses, GoesOn, GoTo,
         LiveSteps, DeletionSteps, apiVars, cacheVars, localVars
<1>6. CASE CreateALB
  BY <1>6, ReturnEnds
     DEF CreateALB, WriteALB, Stored, Reject, KeepsClasses, GoesOn, GoTo,
         LiveSteps, DeletionSteps, apiVars, cacheVars, localVars
<1>7. CASE UpdateALB
  BY <1>7, ReturnEnds
     DEF UpdateALB, WriteALB, Stored, Reject, KeepsClasses, GoesOn, GoTo,
         LiveSteps, DeletionSteps, apiVars, cacheVars, localVars
<1>8. CASE SkipUpdate
  BY <1>8, ReturnEnds
     DEF SkipUpdate, KeepsClasses, GoesOn, GoTo,
         LiveSteps, DeletionSteps, apiVars, cacheVars, localVars
<1>9. CASE DeleteDuplicate
  BY <1>9, ReturnEnds
     DEF DeleteDuplicate, DeleteCertAt, KeepsClasses, GoesOn, GoTo,
         LiveSteps, DeletionSteps, apiVars, cacheVars, localVars
<1>10. CASE DuplicatesDeleted
  BY <1>10, ReturnEnds
     DEF DuplicatesDeleted, KeepsClasses, GoesOn, GoTo,
         LiveSteps, DeletionSteps, apiVars, cacheVars, localVars
<1>11. CASE DeleteUnused
  BY <1>11, ReturnEnds
     DEF DeleteUnused, DeleteCertAt, KeepsClasses, GoesOn, GoTo,
         LiveSteps, DeletionSteps, apiVars, cacheVars, localVars
<1>12. CASE UnusedDeleted
  BY <1>12, ReturnEnds
     DEF UnusedDeleted, KeepsClasses, GoesOn, GoTo,
         LiveSteps, DeletionSteps, apiVars, cacheVars, localVars
<1>13. CASE CheckStatus
  BY <1>13, ReturnEnds
     DEF CheckStatus, KeepsClasses, GoesOn, GoTo,
         LiveSteps, DeletionSteps, apiVars, cacheVars, localVars
<1>14. CASE PatchStatus
  BY <1>14, ReturnEnds
     DEF PatchStatus, PatchAt, WriteIngress, KeepsClasses, GoesOn, GoTo,
         LiveSteps, DeletionSteps, apiVars, cacheVars, localVars
<1>15. CASE StatusPatched
  BY <1>15, ReturnEnds
     DEF StatusPatched, KeepsClasses, GoesOn, GoTo,
         LiveSteps, DeletionSteps, apiVars, cacheVars, localVars
<1>16. CASE WipeList
  BY <1>16, ReturnEnds
     DEF WipeList, KeepsClasses, GoesOn, GoTo,
         LiveSteps, DeletionSteps, apiVars, cacheVars, localVars
<1>17. CASE WipePatch
  BY <1>17, ReturnEnds
     DEF WipePatch, PatchAt, WriteIngress, KeepsClasses, GoesOn, GoTo,
         LiveSteps, DeletionSteps, apiVars, cacheVars, localVars
<1>18. CASE StatusWiped
  BY <1>18, ReturnEnds
     DEF StatusWiped, KeepsClasses, GoesOn, GoTo,
         LiveSteps, DeletionSteps, apiVars, cacheVars, localVars
<1>19. CASE DelGetALB
  BY <1>19, ReturnEnds
     DEF DelGetALB, KeepsClasses, GoesOn, GoTo,
         LiveSteps, DeletionSteps, apiVars, cacheVars, localVars
<1>20. CASE DeleteALB
  BY <1>20, ReturnEnds
     DEF DeleteALB, KeepsClasses, GoesOn, GoTo,
         LiveSteps, DeletionSteps, apiVars, cacheVars, localVars
<1>21. CASE DelListCerts
  BY <1>21, ReturnEnds
     DEF DelListCerts, KeepsClasses, GoesOn, GoTo,
         LiveSteps, DeletionSteps, apiVars, cacheVars, localVars
<1>22. CASE DeleteCert
  BY <1>22, ReturnEnds
     DEF DeleteCert, DeleteCertAt, KeepsClasses, GoesOn, GoTo,
         LiveSteps, DeletionSteps, apiVars, cacheVars, localVars
<1>23. CASE CertsDeleted
  BY <1>23, ReturnEnds
     DEF CertsDeleted, KeepsClasses, GoesOn, GoTo,
         LiveSteps, DeletionSteps, apiVars, cacheVars, localVars
<1> QED
  BY <1>1, <1>2, <1>3, <1>4, <1>5, <1>6, <1>7, <1>8, <1>9, <1>10, <1>11, <1>12, <1>13,
     <1>14, <1>15, <1>16, <1>17, <1>18, <1>19, <1>20, <1>21, <1>22, <1>23
     DEF ReconcileLive, ReconcileDeletion

\* The steps of the others that change no class and nothing the worker holds.
Elsewhere ==
    \/ OtherEvent \/ TimerFires \/ Cloud \/ UNCHANGED vars
    \/ \E i \in Ingresses : \/ SyncIngress(i) \/ SyncSecret(i)
                            \/ ToggleIngress(i) \/ RotateSecret(i)
    \/ \E u \in Uids : EditLogs(u)

LEMMA ElsewhereKeeps == Elsewhere => KeepsClasses /\ UNCHANGED <<pc, localVars>>
<1> SUFFICES ASSUME Elsewhere PROVE KeepsClasses /\ UNCHANGED <<pc, localVars>>
  OBVIOUS
<1> USE DEF KeepsClasses, apiVars, localVars
<1>1. CASE OtherEvent \/ TimerFires \/ UNCHANGED vars
  BY <1>1 DEF OtherEvent, TimerFires, vars, cacheVars
<1>2. CASE Cloud
  BY <1>2 DEF Cloud, ALBReady, ALBError, Settle, ALBGone, DescribeCert, cacheVars
<1>3. ASSUME NEW i \in Ingresses, SyncIngress(i) \/ SyncSecret(i)
      PROVE  KeepsClasses /\ UNCHANGED <<pc, localVars>>
  BY <1>3 DEF SyncIngress, SyncSecret
<1>4. ASSUME NEW i \in Ingresses, ToggleIngress(i) \/ RotateSecret(i)
      PROVE  KeepsClasses /\ UNCHANGED <<pc, localVars>>
  BY <1>4 DEF ToggleIngress, RotateSecret, Edit
<1>5. ASSUME NEW u \in Uids, EditLogs(u)
      PROVE  KeepsClasses /\ UNCHANGED <<pc, localVars>>
  BY <1>5 DEF EditLogs, Edit
<1> QED
  BY <1>1, <1>2, <1>3, <1>4, <1>5 DEF Elsewhere

\* Every step, sorted by what it does to the class.
LEMMA StepCases ==
    ASSUME [Next]_vars
    PROVE  \/ Begin \/ AddFinalizer \/ RemoveFinalizer \/ CallFails \/ Crash
           \/ SyncClass \/ CreateClass \/ EditClass \/ DeleteClass \/ Elsewhere
           \/ ReconcileLive /\ ~AddFinalizer
           \/ ReconcileDeletion /\ ~RemoveFinalizer
  BY DEF Next, Worker, Informers, Users, Elsewhere

-------------------------------------------------------------------------------
(* The lineage of the classes *)

\* A write of one field of a class leaves the others alone.
LEMMA FinalizerAdded ==
    ASSUME NEW c \in ClassRecord, c # NoClass
    PROVE  LET new == [c EXCEPT !.fin = TRUE]
           IN new.uid = c.uid /\ new.phase = c.phase /\ new.fin
  BY DEF ClassRecord

LEMMA AnnotationEdited ==
    ASSUME NEW c \in ClassRecord, c.phase = "live", NEW new,
           \/ new = [c EXCEPT !.valid = ~@]
           \/ \E x \in StaticIPs \ {c.ext} : new = [c EXCEPT !.ext = x]
    PROVE  new.uid = c.uid /\ new.phase = c.phase /\ new.fin = c.fin
  BY DEF ClassRecord, NoClass

LEMMA LineageStep ==
    ASSUME TypeOK, Lineage, [Next]_vars
    PROVE  Lineage'
<1> USE DEF Lineage
<1>0. /\ class \in ClassRecord /\ cClass \in ClassRecord /\ rClass \in ClassRecord
      /\ lastUid \in Nat /\ (pc # "idle" => rClass # NoClass)
  BY BoundsAreNaturals DEF TypeOK, ApiTypes, CacheTypes, WorkerTypes
<1>1. CASE Begin
  BY <1>0, <1>1, ClassFields DEF Begin, apiVars, cacheVars, LiveSteps, DeletionSteps
<1>2. CASE AddFinalizer
  <2>1. CASE class # rClass
    BY <1>0, <1>2, <2>1, ClassFields, ReturnEnds
       DEF AddFinalizer, Ends, cacheVars, LiveSteps, DeletionSteps, NoClass
  <2>2. CASE class = rClass
    <3>1. class'.uid = class.uid /\ class'.phase = class.phase /\ class'.fin
      BY <1>0, <1>2, <2>2, FinalizerAdded DEF AddFinalizer
    <3>2. (rClass' = class' /\ pc' = "readCaches") \/ Ends
      BY <1>2, <2>2, ReturnEnds DEF AddFinalizer, GoTo
    <3>3. lastUid' = lastUid /\ cClass' = cClass
      BY <1>2 DEF AddFinalizer, cacheVars
    <3> QED
      BY <1>0, <2>2, <3>1, <3>2, <3>3, ClassFields
         DEF Ends, LiveSteps, DeletionSteps, NoClass
  <2> QED
    BY <2>1, <2>2
<1>3. CASE RemoveFinalizer
  BY <1>0, <1>3, ClassFields, ReturnEnds
     DEF RemoveFinalizer, Ends, cacheVars, LiveSteps, DeletionSteps, NoClass
<1>4. CASE CallFails \/ Crash
  BY <1>0, <1>4, ClassFields, ReturnEnds
     DEF CallFails, Crash, Return, Ends, apiVars, cacheVars, LiveSteps, DeletionSteps, NoClass
<1>5. CASE SyncClass
  BY <1>0, <1>5, ClassFields
     DEF SyncClass, apiVars, localVars, LiveSteps, DeletionSteps
<1>6. CASE CreateClass
  BY <1>0, <1>6, ClassFields
     DEF CreateClass, Edit, localVars, LiveSteps, DeletionSteps
<1>7. CASE EditClass
  <2>1. class'.uid = class.uid /\ class'.phase = class.phase /\ class'.fin = class.fin
    BY <1>0, <1>7, AnnotationEdited DEF EditClass
  <2> QED
    BY <1>0, <1>7, <2>1, ClassFields DEF EditClass, Edit, localVars
<1>8. CASE DeleteClass
  BY <1>0, <1>8, ClassFields DEF DeleteClass, Edit, localVars, NoClass
<1>9. CASE Elsewhere
  BY <1>9, ElsewhereKeeps DEF KeepsClasses, localVars
<1>10. CASE \/ ReconcileLive /\ ~AddFinalizer
            \/ ReconcileDeletion /\ ~RemoveFinalizer
  BY <1>0, <1>10, MiddleSteps, ClassFields
     DEF KeepsClasses, Ends, GoesOn, LiveSteps, DeletionSteps, NoClass
<1> QED
  BY <1>1, <1>2, <1>3, <1>4, <1>5, <1>6, <1>7, <1>8, <1>9, <1>10, StepCases

-------------------------------------------------------------------------------
(* The resources *)

WorkerClaims == Teardown /\ CertsListed /\ Doomed
CloudClaims  == CloudSane /\ NothingOrphaned /\ NoDanglingCert

\* At these steps the worker claims nothing about the cloud.
LEMMA NoClaims ==
    pc' \in {"idle", "addFinalizer", "readCaches", "getALB", "checkStatus", "patchStatus",
             "wipeList", "wipePatch", "delGetALB", "deleteALB"} => WorkerClaims'
  BY DEF WorkerClaims, Teardown, CertsListed, Doomed

LEMMA EndsClaims == Ends => WorkerClaims'
  BY NoClaims DEF Ends

LEMMA CloudAndClassKept ==
    CloudClaims /\ UNCHANGED <<class, cloudVars>> => CloudClaims'
  BY DEF CloudClaims, cloudVars, CloudSane, NothingOrphaned, NoDanglingCert, CertsOf

\* The cloud moves by itself, or a user edits the logs: no ALB appears, none
\* references more, and the certificates stay the same up to their description.
CloudMoves ==
    /\ \A u \in Uids : /\ alb'[u].certs \subseteq alb[u].certs
                       /\ alb[u].st = "none" => alb'[u].st = "none"
                       /\ alb'[u].st = "none" => alb'[u].certs = {}
    /\ \A c \in certs' : \E d \in certs : d.id = c.id /\ d.uid = c.uid
    /\ \A d \in certs : \E c \in certs' : d.id = c.id /\ d.uid = c.uid
    /\ \A c, d \in certs' : c.id = d.id => c = d
    /\ nextId' = nextId /\ class' = class

LEMMA CloudMovesKeep ==
    ASSUME TypeOK, CloudClaims, CloudMoves
    PROVE  CloudClaims'
<1>1. CloudSane'
  BY DEF CloudClaims, CloudSane, CloudMoves
<1>2. \A u \in Uids : Ids(CertsOf(u))' = Ids(CertsOf(u))
  BY DEF CloudMoves, Ids, CertsOf
<1>3. NothingOrphaned'
  BY DEF CloudClaims, NothingOrphaned, CloudMoves, CertsOf
<1>4. NoDanglingCert'
  BY <1>2 DEF CloudClaims, NoDanglingCert, CloudMoves
<1> QED
  BY <1>1, <1>3, <1>4 DEF CloudClaims

LEMMA CloudMovesClaims ==
    ASSUME TypeOK, WorkerClaims, CloudMoves, UNCHANGED <<pc, localVars>>
    PROVE  WorkerClaims'
<1> USE DEF localVars
<1>1. CASE pc = "idle"
  BY <1>1, NoClaims
<1>2. CASE pc # "idle"
  <2>1. rClass.uid \in Uids
    BY <1>2, ClassFields DEF TypeOK, WorkerTypes
  <2>2. /\ alb'[rClass.uid].certs \subseteq alb[rClass.uid].certs
        /\ alb[rClass.uid].st = "none" => alb'[rClass.uid].st = "none"
        /\ Ids(CertsOf(rClass.uid))' = Ids(CertsOf(rClass.uid))
        /\ CertsOf(rClass.uid) = {} => CertsOf(rClass.uid)' = {}
    BY <2>1 DEF CloudMoves, Ids, CertsOf
  <2>3. Teardown'
    BY <2>2 DEF WorkerClaims, Teardown
  <2>4. CertsListed'
    BY <2>2 DEF WorkerClaims, CertsListed
  <2>5. UnusedCerts' = UnusedCerts
    BY DEF UnusedCerts, Ids
  <2>6. Doomed'
    BY <2>2, <2>5 DEF WorkerClaims, Doomed, CloudMoves
  <2> QED
    BY <2>3, <2>4, <2>6 DEF WorkerClaims
<1> QED
  BY <1>1, <1>2

\* The parts of Elsewhere that reach the cloud.
LEMMA ElsewhereCloud ==
    ASSUME TypeOK, CloudClaims, Elsewhere
    PROVE  CloudMoves
<1> USE DEF TypeOK, CloudTypes
<1>0. CASE UNCHANGED <<class, cloudVars>>
  BY <1>0 DEF CloudMoves, cloudVars, CloudClaims, CloudSane
<1>1. CASE OtherEvent \/ TimerFires \/ UNCHANGED vars
  BY <1>0, <1>1 DEF OtherEvent, TimerFires, vars, apiVars
<1>2. ASSUME NEW i \in Ingresses,
             SyncIngress(i) \/ SyncSecret(i) \/ ToggleIngress(i) \/ RotateSecret(i)
      PROVE  CloudMoves
  BY <1>0, <1>2 DEF SyncIngress, SyncSecret, ToggleIngress, RotateSecret, apiVars
<1>3. ASSUME NEW u \in Uids, EditLogs(u)
      PROVE  CloudMoves
  <2>1. OtherLogs(alb[u]).certs = alb[u].certs /\ OtherLogs(alb[u]).st = alb[u].st
    BY DEF OtherLogs, ALBRecord
  <2> QED
    BY <1>3, <2>1 DEF EditLogs, apiVars, CloudMoves, CloudClaims, CloudSane
<1>4. ASSUME NEW u \in Uids, ALBReady(u) \/ ALBError(u)
      PROVE  CloudMoves
  <2> PICK st \in {"READY", "ERROR"} : Settle(u, st)
    BY <1>4 DEF ALBReady, ALBError
  <2>1. [alb[u] EXCEPT !.st = st].certs = alb[u].certs
        /\ [alb[u] EXCEPT !.st = st].st = st
    BY DEF ALBRecord
  <2> QED
    BY <2>1 DEF Settle, apiVars, CloudMoves, CloudClaims, CloudSane
<1>5. ASSUME NEW u \in Uids, ALBGone(u)
      PROVE  CloudMoves
  BY <1>5 DEF ALBGone, NoALB, apiVars, CloudMoves, CloudClaims, CloudSane
<1>6. CASE DescribeCert
  <2> PICK c \in certs : certs' = (certs \ {c}) \union {[c EXCEPT !.known = TRUE]}
    BY <1>6 DEF DescribeCert
  <2> DEFINE new == [c EXCEPT !.known = TRUE]
  <2>1. new.id = c.id /\ new.uid = c.uid
    BY DEF CertRecord
  <2>2. certs' = (certs \ {c}) \union {new}
    OBVIOUS
  <2> HIDE DEF new
  <2>3. /\ \A d \in certs' : \E e \in certs : e.id = d.id /\ e.uid = d.uid
        /\ \A d \in certs : \E e \in certs' : d.id = e.id /\ d.uid = e.uid
    BY <2>1, <2>2
  <2>4. \A d, e \in certs' : d.id = e.id => d = e
    BY <2>1, <2>2 DEF CloudClaims, CloudSane
  <2> QED
    BY <1>6, <2>3, <2>4 DEF DescribeCert, apiVars, CloudMoves, CloudClaims, CloudSane
<1> QED
  BY <1>1, <1>2, <1>3, <1>4, <1>5, <1>6 DEF Elsewhere, Cloud

-------------------------------------------------------------------------------
(* The worker and the resources *)

Claims == WorkerClaims /\ CloudClaims

\* While a reconciliation runs, its class has a load balancer slot; on the live
\* path it is the stored class, which holds our finalizer.
LEMMA Running ==
    ASSUME TypeOK, Lineage, pc # "idle"
    PROVE  /\ rClass.uid \in Uids
           /\ pc \in LiveSteps =>
                class.uid = rClass.uid /\ class.phase # "absent" /\ class.fin
  BY ClassFields DEF TypeOK, WorkerTypes, ApiTypes, Lineage

\* The steps of the live path that only read.
LEMMA ReadsClaims ==
    ASSUME TypeOK, Lineage, Claims,
           \/ ReadCaches \/ GetALB \/ ListCerts \/ UnusedDeleted
           \/ CheckStatus \/ StatusPatched
    PROVE  Claims'
<1>1. UNCHANGED <<class, cloudVars>>
  BY DEF ReadCaches, GetALB, ListCerts, UnusedDeleted, CheckStatus, StatusPatched,
     apiVars
<1>2. CloudClaims'
  BY <1>1, CloudAndClassKept DEF Claims
<1>3. CASE ReadCaches \/ UnusedDeleted \/ CheckStatus \/ StatusPatched
  BY <1>2, <1>3, NoClaims, ReturnEnds, EndsClaims
     DEF Claims, ReadCaches, UnusedDeleted, CheckStatus, StatusPatched
<1>4. CASE GetALB
  <2>1. Ends \/ (pc' = "listCerts" /\ rALB' = alb[rClass.uid] /\ rClass' = rClass)
    <3>1. CASE rClass.valid
      BY <1>4, <3>1, Zenon DEF GetALB
    <3>2. CASE ~rClass.valid
      <4>1. Done
        BY <1>4, <3>2, Zenon DEF GetALB
      <4>2. Ends
        BY <4>1, ReturnEnds
      <4> QED
        BY <4>2
    <3> QED
      BY <3>1, <3>2
  <2> QED
    BY <1>1, <1>2, <2>1, EndsClaims
       DEF Claims, WorkerClaims, Teardown, CertsListed, Doomed, cloudVars
<1>5. CASE ListCerts
  <2>1. /\ pc = "listCerts" /\ pc' = "createCerts" /\ rCerts' = CertsOf(rClass.uid)
        /\ rClass' = rClass /\ rALB' = rALB
    BY <1>5 DEF ListCerts
  <2>2. CertsListed'
    BY <1>1, <2>1 DEF Claims, CloudClaims, CloudSane, CertsListed, CertsOf, cloudVars
  <2>3. Teardown' /\ Doomed'
    BY <1>1, <2>1 DEF Claims, WorkerClaims, Teardown, Doomed, cloudVars
  <2> QED
    BY <1>2, <2>2, <2>3 DEF Claims, WorkerClaims
<1> QED
  BY <1>3, <1>4, <1>5

\* A new certificate has an ID of its own and an owner that is there.
LEMMA CreateCertClaims ==
    ASSUME TypeOK, Lineage, Claims, CreateCert
    PROVE  Claims'
<1>1. rClass.uid \in Uids /\ class.uid = rClass.uid /\ class.phase # "absent" /\ class.fin
  BY Running DEF CreateCert, LiveSteps
<1>2. UNCHANGED <<class, alb>>
  BY DEF CreateCert, apiVars
<1>3. CASE UNCHANGED <<certs, nextId>> /\ Ends
  BY <1>2, <1>3, CloudAndClassKept, EndsClaims DEF Claims, cloudVars
<1>4. ASSUME NEW new, new.id = nextId, new.uid = rClass.uid,
             certs' = certs \union {new}, nextId' = nextId + 1,
             \/ Ends
             \/ /\ pc' = "createCerts" /\ rCerts' = rCerts \union {new}
                /\ UNCHANGED <<rClass, rALB>>
      PROVE  Claims'
  <2>1. \A c \in certs : c.id \in Nat /\ c.id < nextId
    BY DEF TypeOK, CloudTypes, CertRecord, Claims, CloudClaims, CloudSane
  <2>2. \A u \in Uids : Ids(CertsOf(u)) \subseteq Ids(CertsOf(u))'
    BY <1>4 DEF Ids, CertsOf
  <2>3. \A u \in Uids : u # rClass.uid => CertsOf(u)' = CertsOf(u)
    BY <1>4 DEF CertsOf
  <2>4. CloudSane'
    BY <1>2, <1>4, <2>1 DEF Claims, CloudClaims, CloudSane, TypeOK, CloudTypes
  <2>5. NothingOrphaned'
    BY <1>1, <1>2, <2>3 DEF Claims, CloudClaims, NothingOrphaned
  <2>6. NoDanglingCert'
    BY <1>2, <2>2 DEF Claims, CloudClaims, NoDanglingCert
  <2>7. CASE Ends
    BY <2>4, <2>5, <2>6, <2>7, EndsClaims DEF Claims, CloudClaims
  <2>8. CASE /\ pc' = "createCerts" /\ rCerts' = rCerts \union {new}
             /\ UNCHANGED <<rClass, rALB>>
    <3>1. new.id \in Ids(CertsOf(rClass.uid))'
      BY <1>4, <2>8 DEF Ids, CertsOf
    <3>2. \A c \in rCerts : c.id \in Nat /\ c.id < nextId
      BY <2>1 DEF CreateCert, Claims, WorkerClaims, CertsListed, Ids, CertsOf
    <3>3. /\ Ids(rCerts) \subseteq Ids(CertsOf(rClass.uid))
          /\ \A c, d \in rCerts : c.id = d.id => c = d
          /\ alb[rClass.uid].certs \subseteq rALB.certs
      BY DEF CreateCert, Claims, WorkerClaims, CertsListed, Doomed
    <3>4. CertsListed'
      <4>1. Ids(rCerts)' \subseteq Ids(CertsOf(rClass.uid))'
        BY <1>1, <2>2, <2>8, <3>1, <3>3 DEF Ids
      <4>2. \A c, d \in rCerts' : c.id = d.id => c = d
        BY <1>4, <2>8, <3>2, <3>3 DEF TypeOK, CloudTypes
      <4> QED
        BY <2>8, <4>1, <4>2 DEF CertsListed
    <3>5. Teardown' /\ Doomed'
      BY <1>2, <2>8, <3>3 DEF Teardown, Doomed
    <3> QED
      BY <2>4, <2>5, <2>6, <3>4, <3>5 DEF Claims, WorkerClaims, CloudClaims
  <2> QED
    BY <1>4, <2>7, <2>8
<1> QED
  <2> PICK f \in rMissing, k \in Responses :
        LET new == [id |-> nextId, uid |-> rClass.uid, fp |-> f, known |-> k]
        IN \/ /\ certs' = certs \union {new}
              /\ nextId' = nextId + 1
              /\ \/ /\ GoTo("createCerts")
                    /\ rCerts' = rCerts \union {new}
                    /\ UNCHANGED <<rClass, rALB>>
                 \/ Lost
           \/ RetryLater /\ UNCHANGED <<certs, nextId, faults>>
    BY DEF CreateCert
  <2> DEFINE new == [id |-> nextId, uid |-> rClass.uid, fp |-> f, known |-> k]
  <2>1. new.id = nextId /\ new.uid = rClass.uid
    OBVIOUS
  <2>2. \/ /\ certs' = certs \union {new} /\ nextId' = nextId + 1
           /\ \/ Ends
              \/ /\ pc' = "createCerts" /\ rCerts' = rCerts \union {new}
                 /\ UNCHANGED <<rClass, rALB>>
        \/ UNCHANGED <<certs, nextId>> /\ Ends
    BY ReturnEnds DEF GoTo
  <2> HIDE DEF new
  <2> QED
    BY <1>3, <1>4, <2>1, <2>2

LEMMA SelectCertsClaims ==
    ASSUME TypeOK, Claims, SelectCerts
    PROVE  Claims'
<1>1. /\ UNCHANGED <<class, cloudVars, rClass, rCerts, rALB>>
      /\ pc = "createCerts" /\ pc' = "apply"
  BY DEF SelectCerts, apiVars
<1>2. rKept' \subseteq rCerts
  BY DEF SelectCerts, OnePerFingerprint, Described
<1>3. CloudClaims'
  BY <1>1, CloudAndClassKept DEF Claims
<1>4. WorkerClaims'
  BY <1>1, <1>2
     DEF Claims, WorkerClaims, Teardown, CertsListed, Doomed, Ids, CertsOf, cloudVars
<1> QED
  BY <1>3, <1>4 DEF Claims

\* What the payload references, what is a duplicate and what is unused are
\* certificates of the class, and no certificate is two of them.
LEMMA Selection ==
    ASSUME CertsListed, pc = "apply"
    PROVE  /\ PayloadCerts \subseteq Ids(CertsOf(rClass.uid))
           /\ DuplicateCerts \intersect PayloadCerts = {}
           /\ UnusedCerts \intersect PayloadCerts = {}
<1>1. /\ rKept \subseteq rCerts
      /\ \A c, d \in rCerts : c.id = d.id => c = d
      /\ Ids(rCerts) \subseteq Ids(CertsOf(rClass.uid))
  BY DEF CertsListed
<1>2. PayloadCerts \subseteq Ids(rCerts)
  BY <1>1 DEF PayloadCerts, Ids
<1>3. DuplicateCerts \intersect PayloadCerts = {}
  BY <1>1 DEF DuplicateCerts, PayloadCerts, Described, Ids
<1>4. UnusedCerts \intersect PayloadCerts = {}
  BY <1>1 DEF UnusedCerts, PayloadCerts, Ids
<1> QED
  BY <1>1, <1>2, <1>3, <1>4

\* The ALB of the class is replaced by one with the certificates of the payload.
LEMMA WriteClaims ==
    ASSUME TypeOK, Lineage, Claims, pc = "apply",
           NEW a \in ALBRecord, WriteALB(a),
           a.certs = PayloadCerts,
           UNCHANGED <<class, certs, nextId>>
    PROVE  Claims'
<1>1. rClass.uid \in Uids /\ class.uid = rClass.uid /\ class.phase # "absent" /\ class.fin
  BY Running DEF LiveSteps
<1>2. PICK st \in {"PENDING", "READY", "ERROR"} : Stored([a EXCEPT !.st = st])
  BY DEF WriteALB
<1>3. /\ alb'[rClass.uid].certs = PayloadCerts /\ alb'[rClass.uid].st # "none"
      /\ \A u \in Uids : u # rClass.uid => alb'[u] = alb[u]
  BY <1>2, <1>1 DEF Stored, TypeOK, CloudTypes, ALBRecord
<1>4. /\ PayloadCerts \subseteq Ids(CertsOf(rClass.uid))
      /\ DuplicateCerts \intersect PayloadCerts = {}
      /\ UnusedCerts \intersect PayloadCerts = {}
  BY Selection DEF Claims, WorkerClaims
<1>5. \A u \in Uids : CertsOf(u)' = CertsOf(u) /\ Ids(CertsOf(u))' = Ids(CertsOf(u))
  BY DEF CertsOf, Ids
<1>6. CloudSane'
  BY <1>3 DEF Claims, CloudClaims, CloudSane
<1>7. NothingOrphaned'
  BY <1>1, <1>3, <1>5 DEF Claims, CloudClaims, NothingOrphaned
<1>8. NoDanglingCert'
  BY <1>3, <1>4, <1>5 DEF Claims, CloudClaims, NoDanglingCert
<1>9. WorkerClaims'
  <2>1. CASE Ends
    BY <2>1, EndsClaims
  <2>2. CASE /\ pc' = "deleteDuplicates" /\ rDoomed' = DuplicateCerts
             /\ UNCHANGED <<rClass, rKept, rFps>>
    <3>1. UnusedCerts' = UnusedCerts
      BY <2>2 DEF UnusedCerts, Ids
    <3> QED
      BY <1>3, <1>4, <2>2, <3>1 DEF WorkerClaims, Teardown, CertsListed, Doomed
  <2> QED
    BY <1>2, <2>1, <2>2, ReturnEnds DEF Stored, GoTo
<1> QED
  BY <1>6, <1>7, <1>8, <1>9 DEF Claims, CloudClaims

LEMMA ApplyClaims ==
    ASSUME TypeOK, Lineage, Claims, CreateALB \/ UpdateALB \/ SkipUpdate
    PROVE  Claims'
<1>1. UNCHANGED <<class, certs, nextId>> /\ pc = "apply"
  BY DEF CreateALB, UpdateALB, SkipUpdate, apiVars, cloudVars
<1>2. CASE Reject
  BY <1>1, <1>2, ReturnEnds, EndsClaims, CloudAndClassKept
     DEF Reject, Claims, cloudVars
<1>3. CASE CreateALB /\ ~Reject
  <2>1. WriteALB(CreatePayload)
    BY <1>3 DEF CreateALB
  <2>2. CreatePayload.certs = PayloadCerts
    BY DEF CreatePayload
  <2> QED
    BY <1>1, <2>1, <2>2, WriteClaims, PayloadTypes
<1>4. CASE UpdateALB /\ ~Reject
  <2>1. WriteALB(Updated(UpdatePayload))
    BY <1>4 DEF UpdateALB
  <2>2. Updated(UpdatePayload).certs = PayloadCerts
    BY DEF Updated, UpdatePayload, CreatePayload
  <2> QED
    BY <1>1, <2>1, <2>2, WriteClaims, PayloadTypes
<1>5. CASE SkipUpdate
  <2>1. /\ rALB.certs = PayloadCerts /\ pc' = "deleteDuplicates"
        /\ rDoomed' = DuplicateCerts
        /\ UNCHANGED <<class, cloudVars, rClass, rKept, rFps>>
    BY <1>5 DEF SkipUpdate, UpdateNeeded, UpdatePayload, CreatePayload, apiVars
  <2>2. alb[rClass.uid].certs \subseteq PayloadCerts
    BY <1>1, <2>1 DEF Claims, WorkerClaims, Doomed
  <2>3. /\ DuplicateCerts \intersect PayloadCerts = {}
        /\ UnusedCerts \intersect PayloadCerts = {}
    BY <1>1, Selection DEF Claims, WorkerClaims
  <2>4. UnusedCerts' = UnusedCerts
    BY <2>1 DEF UnusedCerts, Ids
  <2>5. WorkerClaims'
    BY <2>1, <2>2, <2>3, <2>4
       DEF WorkerClaims, Teardown, CertsListed, Doomed, cloudVars
  <2> QED
    BY <2>1, <2>5, CloudAndClassKept DEF Claims
<1> QED
  BY <1>2, <1>3, <1>4, <1>5

\* A deletion of a certificate that no load balancer references, and that belongs
\* to the class the worker acts on.
LEMMA DeleteCertKeeps ==
    ASSUME TypeOK, CloudClaims, UNCHANGED <<class, alb, nextId>>, NEW d \in rDoomed,
           certs' = {c \in certs : c.id # d},
           \A u \in Uids : d \notin alb[u].certs
    PROVE  CloudClaims'
<1>1. CloudSane'
  BY DEF CloudClaims, CloudSane
<1>2. NothingOrphaned'
  BY DEF CloudClaims, NothingOrphaned, CertsOf
<1>3. NoDanglingCert'
  <2>1. \A u \in Uids : \A x \in Ids(CertsOf(u)) : x # d => x \in Ids(CertsOf(u))'
    BY DEF Ids, CertsOf
  <2> QED
    BY <2>1 DEF CloudClaims, NoDanglingCert
<1> QED
  BY <1>1, <1>2, <1>3 DEF CloudClaims

\* Other incarnations have no load balancer while this one is live.
LEMMA OthersGone ==
    ASSUME TypeOK, Lineage, CloudClaims, pc \in LiveSteps,
           NEW u \in Uids, u # rClass.uid
    PROVE  alb[u].certs = {}
  BY Running DEF CloudClaims, NothingOrphaned, CloudSane, LiveSteps

LEMMA DeleteLiveClaims ==
    ASSUME TypeOK, Lineage, Claims, DeleteDuplicate \/ DeleteUnused
    PROVE  Claims'
<1> PICK s \in {"deleteDuplicates", "deleteUnused"} : DeleteCertAt(s)
  BY DEF DeleteDuplicate, DeleteUnused
<1>1. pc = s /\ UNCHANGED <<class, alb, nextId>>
  BY DEF DeleteCertAt, apiVars
<1> PICK d \in rDoomed : /\ certs' = {c \in certs : c.id # d}
                         /\ \/ /\ GoTo(s)
                               /\ rDoomed' = rDoomed \ {d}
                               /\ UNCHANGED <<rClass, rFps, rKept>>
                            \/ Lost
  BY DEF DeleteCertAt
<1>2. \A u \in Uids : d \notin alb[u].certs
  BY <1>1, OthersGone DEF Claims, WorkerClaims, Doomed, LiveSteps
<1>3. CloudClaims'
  BY <1>1, <1>2, DeleteCertKeeps DEF Claims
<1>4. CASE Ends
  BY <1>3, <1>4, EndsClaims DEF Claims
<1>5. CASE /\ pc' = s /\ rDoomed' = rDoomed \ {d}
           /\ UNCHANGED <<rClass, rFps, rKept>>
  <2>1. UnusedCerts' = UnusedCerts
    BY <1>5 DEF UnusedCerts, Ids
  <2>2. WorkerClaims'
    BY <1>1, <1>5, <2>1 DEF Claims, WorkerClaims, Teardown, CertsListed, Doomed
  <2> QED
    BY <1>3, <2>2 DEF Claims
<1> QED
  BY <1>4, <1>5, ReturnEnds DEF GoTo

LEMMA DuplicatesDeletedClaims ==
    ASSUME TypeOK, Claims, DuplicatesDeleted
    PROVE  Claims'
<1>1. /\ UNCHANGED <<class, cloudVars, rClass>> /\ rDoomed' = UnusedCerts
      /\ pc = "deleteDuplicates" /\ pc' = "deleteUnused"
  BY DEF DuplicatesDeleted, apiVars
<1>2. WorkerClaims'
  BY <1>1 DEF Claims, WorkerClaims, Teardown, CertsListed, Doomed, cloudVars
<1> QED
  BY <1>1, <1>2, CloudAndClassKept DEF Claims

\* A status patch touches neither the class nor the cloud.
LEMMA PatchClaims ==
    ASSUME TypeOK, Claims, PatchStatus \/ WipePatch
    PROVE  Claims'
<1>1. UNCHANGED <<class, cloudVars>>
  BY DEF PatchStatus, WipePatch, PatchAt
<1>2. pc' \in {"idle", "patchStatus", "wipePatch"}
  BY ReturnEnds DEF PatchStatus, WipePatch, PatchAt, GoTo, Ends
<1> QED
  BY <1>1, <1>2, NoClaims, CloudAndClassKept DEF Claims

\* The steps of the deletion path that only read.
LEMMA DeletionReadsClaims ==
    ASSUME TypeOK, Lineage, Claims,
           \/ WipeList \/ StatusWiped \/ DelGetALB \/ DelListCerts \/ CertsDeleted
    PROVE  Claims'
<1>1. UNCHANGED <<class, cloudVars>>
  BY DEF WipeList, StatusWiped, DelGetALB, DelListCerts, CertsDeleted, apiVars
<1>2. CloudClaims'
  BY <1>1, CloudAndClassKept DEF Claims
<1>3. CASE WipeList \/ StatusWiped
  BY <1>2, <1>3, NoClaims DEF Claims, WipeList, StatusWiped
<1>4. CASE DelGetALB
  <2>1. \/ pc' \in {"idle", "deleteALB"}
        \/ /\ pc' = "delListCerts" /\ alb[rClass.uid].st = "none" /\ rClass' = rClass
    BY <1>4, ReturnEnds DEF DelGetALB, Ends, localVars
  <2> QED
    BY <1>1, <1>2, <2>1, NoClaims
       DEF Claims, WorkerClaims, Teardown, CertsListed, Doomed, cloudVars
<1>5. CASE DelListCerts
  <2>1. /\ pc = "delListCerts" /\ pc' = "deleteCerts" /\ rClass' = rClass
        /\ rDoomed' = Ids(CertsOf(rClass.uid))
    BY <1>5 DEF DelListCerts
  <2>2. Doomed'
    BY <1>1, <2>1 DEF Doomed, Ids, CertsOf, Claims, CloudClaims, CloudSane, cloudVars
  <2>3. Teardown' /\ CertsListed'
    BY <1>1, <2>1
       DEF Claims, WorkerClaims, Teardown, CertsListed, Ids, CertsOf, cloudVars
  <2> QED
    BY <1>2, <2>2, <2>3 DEF Claims, WorkerClaims
<1>6. CASE CertsDeleted
  <2>1. /\ pc = "deleteCerts" /\ rDoomed = {}
        /\ Ends \/ (pc' = "removeFinalizer" /\ rClass' = rClass)
    <3>1. CASE rClass.fin
      BY <1>6, <3>1, Zenon DEF CertsDeleted, localVars
    <3>2. CASE ~rClass.fin
      <4>1. Done /\ pc = "deleteCerts" /\ rDoomed = {}
        BY <1>6, <3>2, Zenon DEF CertsDeleted
      <4>2. Ends
        BY <4>1, ReturnEnds
      <4> QED
        BY <4>1, <4>2
    <3> QED
      BY <3>1, <3>2
  <2>2. CertsOf(rClass.uid) = {}
    BY <2>1 DEF Claims, WorkerClaims, Teardown, Ids
  <2> QED
    BY <1>1, <1>2, <2>1, <2>2, EndsClaims
       DEF Claims, WorkerClaims, Teardown, CertsListed, Doomed, CertsOf, cloudVars
<1> QED
  BY <1>3, <1>4, <1>5, <1>6

LEMMA DeleteALBClaims ==
    ASSUME TypeOK, Lineage, Claims, DeleteALB
    PROVE  Claims'
<1>1. pc # "idle" /\ UNCHANGED <<class, certs, nextId>> /\ Ends
  BY ReturnEnds DEF DeleteALB, apiVars
<1>2. rClass.uid \in Uids
  BY <1>1, Running
<1>3. \A a \in ALBRecord : Terminate(a).certs = a.certs
                           /\ (Terminate(a).st = "none" <=> a.st = "none")
  BY DEF Terminate, ALBRecord
<1>4. \A u \in Uids : alb'[u].certs = alb[u].certs
                      /\ (alb'[u].st = "none" <=> alb[u].st = "none")
  BY <1>2, <1>3 DEF DeleteALB, TypeOK, CloudTypes
<1>5. CloudMoves
  BY <1>1, <1>4 DEF CloudMoves, Claims, CloudClaims, CloudSane
<1> QED
  BY <1>1, <1>5, CloudMovesKeep, EndsClaims DEF Claims

LEMMA DeleteCertClaims ==
    ASSUME TypeOK, Lineage, Claims, DeleteCert
    PROVE  Claims'
<1>1. pc = "deleteCerts" /\ UNCHANGED <<class, alb, nextId>>
  BY DEF DeleteCert, DeleteCertAt, apiVars
<1> PICK d \in rDoomed : /\ certs' = {c \in certs : c.id # d}
                         /\ \/ /\ GoTo("deleteCerts")
                               /\ rDoomed' = rDoomed \ {d}
                               /\ UNCHANGED rClass
                            \/ Lost
  BY DEF DeleteCert, DeleteCertAt
<1>2. rClass.uid \in Uids /\ alb[rClass.uid].certs = {}
  BY <1>1, Running DEF Claims, WorkerClaims, Teardown, CloudClaims, CloudSane
<1>3. \A u \in Uids : d \notin alb[u].certs
  <2> SUFFICES ASSUME NEW u \in Uids, d \in alb[u].certs PROVE FALSE
    OBVIOUS
  <2>1. PICK c \in certs : c.id = d /\ c.uid = u
    BY DEF Claims, CloudClaims, NoDanglingCert, Ids, CertsOf
  <2>2. u = rClass.uid
    BY <1>1, <2>1 DEF Claims, WorkerClaims, Doomed
  <2> QED
    BY <1>2, <2>2
<1>4. CloudClaims'
  BY <1>1, <1>3, DeleteCertKeeps DEF Claims
<1>5. CASE Ends
  BY <1>4, <1>5, EndsClaims DEF Claims
<1>6. CASE pc' = "deleteCerts" /\ rDoomed' = rDoomed \ {d} /\ rClass' = rClass
  <2>1. Ids(CertsOf(rClass.uid))' \subseteq rDoomed'
    BY <1>1, <1>6 DEF Claims, WorkerClaims, Teardown, Ids, CertsOf
  <2>2. WorkerClaims'
    BY <1>1, <1>6, <2>1 DEF Claims, WorkerClaims, Teardown, CertsListed, Doomed
  <2> QED
    BY <1>4, <2>2 DEF Claims
<1> QED
  BY <1>5, <1>6, ReturnEnds DEF GoTo

\* A write of the class: it keeps the finalizer, or nothing is left to own.
LEMMA ClassWriteClaims ==
    ASSUME TypeOK, Claims, UNCHANGED cloudVars,
           \A u \in Uids : alb[u].st # "none" \/ CertsOf(u) # {} =>
               class'.uid = u /\ class'.phase # "absent" /\ class'.fin
    PROVE  CloudClaims'
<1>1. CloudSane' /\ NoDanglingCert'
  BY DEF Claims, CloudClaims, CloudSane, NoDanglingCert, CertsOf, cloudVars
<1>2. NothingOrphaned'
  BY DEF NothingOrphaned, CertsOf, cloudVars
<1> QED
  BY <1>1, <1>2 DEF CloudClaims

LEMMA UserClassClaims ==
    ASSUME TypeOK, Claims, CreateClass \/ EditClass \/ DeleteClass
    PROVE  Claims'
<1>1. UNCHANGED <<cloudVars, pc, localVars>>
  BY DEF CreateClass, EditClass, DeleteClass, Edit
<1>2. class \in ClassRecord
  BY DEF TypeOK, ApiTypes
<1>3. \A u \in Uids : alb[u].st # "none" \/ CertsOf(u) # {} =>
          class'.uid = u /\ class'.phase # "absent" /\ class'.fin
  <2>1. CASE CreateClass
    BY <2>1 DEF CreateClass, Claims, CloudClaims, NothingOrphaned
  <2>2. CASE EditClass
    <3>1. class'.uid = class.uid /\ class'.phase = class.phase /\ class'.fin = class.fin
      BY <1>2, <2>2, AnnotationEdited DEF EditClass
    <3> QED
      BY <3>1 DEF Claims, CloudClaims, NothingOrphaned
  <2>3. CASE DeleteClass
    <3>1. class.fin => /\ class'.uid = class.uid /\ class'.phase = "deleting"
                       /\ class'.fin = class.fin
      BY <1>2, <2>3 DEF DeleteClass, ClassRecord, NoClass
    <3> QED
      BY <3>1 DEF Claims, CloudClaims, NothingOrphaned
  <2> QED
    BY <2>1, <2>2, <2>3
<1>4. CloudClaims'
  BY <1>1, <1>3, ClassWriteClaims
<1>5. WorkerClaims'
  BY <1>1 DEF Claims, WorkerClaims, Teardown, CertsListed, Doomed, UnusedCerts, Ids,
              CertsOf, cloudVars, localVars
<1> QED
  BY <1>4, <1>5 DEF Claims

LEMMA FinalizerClaims ==
    ASSUME TypeOK, Lineage, Claims, AddFinalizer \/ RemoveFinalizer
    PROVE  Claims'
<1>1. UNCHANGED cloudVars /\ class \in ClassRecord
  BY DEF AddFinalizer, RemoveFinalizer, TypeOK, ApiTypes
<1>2. CASE AddFinalizer
  <2>1. pc' \in {"idle", "readCaches"} /\ (pc # "idle" => rClass # NoClass)
    BY <1>2, ReturnEnds DEF AddFinalizer, GoTo, Ends, TypeOK, WorkerTypes
  <2>2. \/ class' = class
        \/ class'.uid = class.uid /\ class'.phase = class.phase /\ class'.fin
    <3>1. CASE class # rClass
      BY <1>2, <3>1 DEF AddFinalizer
    <3>2. CASE class = rClass
      <4>1. class # NoClass /\ class' = [class EXCEPT !.fin = TRUE]
        BY <1>2, <2>1, <3>2 DEF AddFinalizer
      <4> QED
        BY <1>1, <4>1, FinalizerAdded
    <3> QED
      BY <3>1, <3>2
  <2>3. CloudClaims'
    BY <1>1, <2>2, ClassWriteClaims DEF Claims, CloudClaims, NothingOrphaned
  <2> QED
    BY <2>1, <2>3, NoClaims DEF Claims
<1>3. CASE RemoveFinalizer
  <2>1. Ends /\ pc = "removeFinalizer" /\ (class' = class \/ class = rClass)
    BY <1>3, ReturnEnds DEF RemoveFinalizer
  <2>2. CASE class' = class
    BY <1>1, <2>1, <2>2, CloudAndClassKept, EndsClaims DEF Claims
  <2>3. CASE class = rClass
    <3>1. \A u \in Uids : alb[u].st = "none" /\ CertsOf(u) = {}
      BY <2>1, <2>3
         DEF Claims, WorkerClaims, Teardown, CloudClaims, NothingOrphaned
    <3> QED
      BY <1>1, <2>1, <3>1, ClassWriteClaims, EndsClaims DEF Claims
  <2> QED
    BY <2>1, <2>2, <2>3
<1> QED
  BY <1>2, <1>3

-------------------------------------------------------------------------------
(* The inductive invariant and the theorems *)

LEMMA ClaimsStep ==
    ASSUME TypeOK, Lineage, Claims, [Next]_vars
    PROVE  Claims'
<1>1. CASE Begin
  <2>1. pc' \in {"idle", "wipeList", "readCaches", "addFinalizer"}
    BY <1>1 DEF Begin
  <2> QED
    BY <1>1, <2>1, NoClaims, CloudAndClassKept DEF Begin, Claims, apiVars
<1>2. CASE CallFails \/ Crash
  BY <1>2, ReturnEnds, NoClaims, CloudAndClassKept
     DEF CallFails, Crash, Return, Ends, Claims, apiVars
<1>3. CASE SyncClass
  BY <1>3, CloudAndClassKept
     DEF SyncClass, Claims, WorkerClaims, Teardown, CertsListed, Doomed, UnusedCerts,
         Ids, CertsOf, apiVars, cloudVars, localVars
<1>4. CASE Elsewhere
  BY <1>4, ElsewhereCloud, ElsewhereKeeps, CloudMovesKeep, CloudMovesClaims DEF Claims
<1>5. CASE ReconcileLive /\ ~AddFinalizer
  BY <1>5, ReadsClaims, CreateCertClaims, SelectCertsClaims, ApplyClaims,
     DeleteLiveClaims, DuplicatesDeletedClaims, PatchClaims DEF ReconcileLive
<1>6. CASE ReconcileDeletion /\ ~RemoveFinalizer
  BY <1>6, DeletionReadsClaims, PatchClaims, DeleteALBClaims, DeleteCertClaims
     DEF ReconcileDeletion
<1> QED
  BY <1>1, <1>2, <1>3, <1>4, <1>5, <1>6, UserClassClaims, FinalizerClaims, StepCases

LEMMA InvInit == Init => IInv
<1> SUFFICES ASSUME Init PROVE IInv
  OBVIOUS
<1>1. TypeOK
  BY TypeInit
<1>2. Lineage /\ Teardown /\ CertsListed /\ Doomed
  BY DEF Init, Lineage, Teardown, CertsListed, Doomed, NoClass, LiveSteps,
     DeletionSteps
<1>3. CloudSane /\ NothingOrphaned /\ NoDanglingCert
  BY DEF Init, CloudSane, NothingOrphaned, NoDanglingCert, CertsOf, Ids, NoALB
<1> QED
  BY <1>1, <1>2, <1>3 DEF IInv

LEMMA InvStep == IInv /\ [Next]_vars => IInv'
  BY TypeStep, LineageStep, ClaimsStep DEF IInv, Claims, WorkerClaims, CloudClaims

\* In every reachable state of every instance, the cached class and the class the
\* worker acts on are the stored one or an earlier one, and what the worker is about
\* to delete is referenced by no load balancer: IInv, the invariant that the steps of
\* Reconcile preserve one by one.
THEOREM Invariant == Spec => []IInv
  BY InvInit, InvStep, PTL DEF Spec

\* A load balancer never references a certificate that has been deleted: Reconcile
\* deletes duplicate and unused certificates only after the ALB is written, and those
\* of a deleted class only after GetLoadBalancer has answered "not found".
THEOREM CertsOutliveTheirUse == Spec => []NoDanglingCert
<1>1. IInv => NoDanglingCert
  BY DEF IInv
<1> QED
  BY <1>1, Invariant, PTL

\* Nothing billable outlives its IngressClass: the finalizer is there before the first
\* resource is created and goes after the last one is gone, whatever calls fail and
\* whenever the controller restarts.
THEOREM ResourcesOwned == Spec => []NothingOrphaned
<1>1. IInv => NothingOrphaned
  BY DEF IInv
<1> QED
  BY <1>1, Invariant, PTL

-------------------------------------------------------------------------------
(* Which steps take a load balancer out of service *)

InService(a) == a.st \in {"PENDING", "READY", "ERROR"}

\* The steps that are not about load balancers leave all of them alone.
LEMMA WhoTouchesALBs ==
    ASSUME [Next]_vars
    PROVE  \/ alb' = alb
           \/ CreateALB \/ UpdateALB \/ DeleteALB
           \/ \E u \in Uids : EditLogs(u) \/ ALBReady(u) \/ ALBError(u) \/ ALBGone(u)
<1>1. CASE ReconcileLive
  <2>1. CASE CreateALB \/ UpdateALB
    BY <2>1
  <2> QED
    BY <1>1, <2>1
       DEF ReconcileLive, AddFinalizer, ReadCaches, GetALB, ListCerts, CreateCert,
           SelectCerts, SkipUpdate, DeleteDuplicate, DuplicatesDeleted, DeleteUnused,
           DeleteCertAt, UnusedDeleted, CheckStatus, PatchStatus, PatchAt,
           StatusPatched, cloudVars
<1>2. CASE ReconcileDeletion
  BY <1>2 DEF ReconcileDeletion, WipeList, WipePatch, PatchAt, StatusWiped, DelGetALB,
              DelListCerts, DeleteCert, DeleteCertAt, CertsDeleted, RemoveFinalizer,
              cloudVars
<1>3. CASE Begin \/ CallFails \/ Crash \/ Informers
  BY <1>3 DEF Begin, CallFails, Crash, Informers, SyncClass, OtherEvent, TimerFires,
              SyncIngress, SyncSecret, cloudVars
<1>4. CASE Users
  BY <1>4 DEF Users, CreateClass, EditClass, DeleteClass, ToggleIngress, RotateSecret,
              cloudVars
<1>5. CASE Cloud
  BY <1>5 DEF Cloud, DescribeCert
<1>6. CASE UNCHANGED vars
  BY <1>6 DEF vars, cloudVars
<1> QED
  BY <1>1, <1>2, <1>3, <1>4, <1>5, <1>6 DEF Next, Worker

\* A load balancer that is written is in service afterwards.
LEMMA WriteKeepsInService ==
    ASSUME CloudTypes, NEW a \in ALBRecord, WriteALB(a), rClass.uid \in Uids,
           NEW u \in Uids, InService(alb[u])
    PROVE  InService(alb'[u])
<1>1. PICK st \in {"PENDING", "READY", "ERROR"} : Stored([a EXCEPT !.st = st])
  BY DEF WriteALB
<1>2. [a EXCEPT !.st = st].st = st
  BY DEF ALBRecord
<1>3. alb' = [alb EXCEPT ![rClass.uid] = [a EXCEPT !.st = st]]
  BY <1>1 DEF Stored
<1> QED
  BY <1>2, <1>3 DEF CloudTypes, InService

\* No step takes the load balancer of a live class out of service.
LEMMA TakenDown ==
    ASSUME TypeOK, Lineage, [Next]_vars, NEW u \in Uids,
           InService(alb[u]), ~InService(alb'[u])
    PROVE  class.uid = u => class.phase = "deleting"
<1>1. alb \in [Uids -> ALBRecord] /\ CloudTypes
  BY DEF TypeOK, CloudTypes
<1>2. CASE alb' = alb
  BY <1>2
<1>3. CASE CreateALB \/ UpdateALB
  <2>1. rClass.uid \in Uids
    BY <1>3, Running DEF CreateALB, UpdateALB
  <2>2. CreatePayload \in ALBRecord /\ Updated(UpdatePayload) \in ALBRecord
    BY PayloadTypes
  <2>3. WriteALB(CreatePayload) \/ WriteALB(Updated(UpdatePayload)) \/ alb' = alb
    BY <1>3 DEF CreateALB, UpdateALB, Reject
  <2> QED
    BY <1>1, <1>2, <2>1, <2>2, <2>3, WriteKeepsInService
<1>4. CASE DeleteALB
  <2>1. pc \in DeletionSteps /\ alb' = [alb EXCEPT ![rClass.uid] = Terminate(@)]
    BY <1>4 DEF DeleteALB, DeletionSteps
  <2>2. rClass.uid = u
    BY <1>1, <2>1
  <2> QED
    BY <2>1, <2>2 DEF Lineage
<1>5. CASE \E v \in Uids : EditLogs(v)
  BY <1>1, <1>5 DEF EditLogs, OtherLogs, ALBRecord, InService
<1>6. CASE \E v \in Uids : ALBReady(v) \/ ALBError(v)
  BY <1>1, <1>6 DEF ALBReady, ALBError, Settle, ALBRecord, InService
<1>7. CASE \E v \in Uids : ALBGone(v)
  BY <1>1, <1>7 DEF ALBGone, InService
<1> QED
  BY <1>2, <1>3, <1>4, <1>5, <1>6, <1>7, WhoTouchesALBs

\* Only the deletion of its class takes a load balancer out of service.
LEMMA OutOfService ==
    ASSUME IInv, [Next]_vars, NEW u \in Uids,
           InService(alb[u]), ~InService(alb'[u])
    PROVE  class.uid = u /\ class.phase = "deleting"
<1>1. class.uid = u
  BY DEF IInv, NothingOrphaned, InService
<1> QED
  BY <1>1, TakenDown DEF IInv

\* Only a deletion of the class takes its load balancer out of service: an invalid
\* annotation, a failed call, a restart or a stale cache never does, as Reconcile
\* calls DeleteLoadBalancer for a class with a deletion timestamp only.
THEOREM ALBSurvives == Spec => ALBSurvivesUnlessDeleted
<1> DEFINE Survives == \A u \in Uids :
             /\ alb[u].st \in {"PENDING", "READY", "ERROR"}
             /\ alb'[u].st \in {"none", "TERMINATING"}
             => class.uid = u /\ class.phase = "deleting"
<1>1. IInv /\ [Next]_vars => [Survives]_vars
  BY OutOfService DEF InService
<1> QED
  BY <1>1, Invariant, PTL DEF Spec, ALBSurvivesUnlessDeleted
===============================================================================
