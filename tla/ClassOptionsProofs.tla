-------------------------- MODULE ClassOptionsProofs --------------------------
(* Proofs about ClassOptions, for any values of the lists of ranges and of the *)
(* labels, and any number of edits.                                            *)
(*                                                                             *)
(* The argument: as long as nothing has changed since a reconciliation, what   *)
(* UpdateNeeded compares is in the load balancer as BuildTree makes it now;    *)
(* address and network, which it does not compare, are always what the class   *)
(* asked for at the last write, all three from the same annotations; and every *)
(* certificate carries the UID of the class, whatever labels the configuration *)
(* adds, so the next reconciliation finds it.                                  *)
EXTENDS ClassOptions, ListLemmas

TypeOK ==
    /\ ann \in Annotations
    /\ tls \in Seq(Settings) /\ ws \in Seq(Settings)
    /\ settled \in BOOLEAN

Applied == settled /\ Accepted(ann) => alb # NoALB /\ ~UpdateNeeded(alb, Payload)

\* The fields for address and network come from one write.
AsWritten == alb # NoALB =>
    /\ alb.ext <=> asked.ip # ""
    /\ alb.private <=> asked.internal = "true"
    /\ alb.ephemeral <=> ~alb.ext /\ ~alb.private

OneCert == certs = {} \/ \E c : certs = {c} /\ c.labels.uid = UID

IInv == TypeOK /\ Applied /\ AsWritten /\ OneCert

-------------------------------------------------------------------------------
(* GetAnnotation and MergeExtraLabels *)

\* The object with the annotation before which none has it.
Decides(values, k) ==
    /\ values[k] # "unset"
    /\ \A j \in 1 .. k - 1 : values[j] = "unset"

LEMMA FirstDecides ==
    ASSUME NEW values \in Seq(Settings), NEW v,
           v = GetAnnotation(values, "false")
    PROVE  /\ (\A k \in DOMAIN values : values[k] = "unset") => v = "false"
           /\ ~(\A k \in DOMAIN values : values[k] = "unset") =>
                \E k \in DOMAIN values : Decides(values, k) /\ v = values[k]
           /\ \A k \in DOMAIN values : Decides(values, k) => v = values[k]
<1> DEFINE set == {k \in DOMAIN values : values[k] # "unset"}
           least(k) == k \in set /\ \A j \in set : k <= j
           n == Len(values)
<1>1. v = IF set = {} THEN "false" ELSE values[CHOOSE k \in set : \A j \in set : k <= j]
  BY DEF GetAnnotation
<1>2. \A k : k \in set <=> k \in 1 .. n /\ values[k] # "unset"
  OBVIOUS
<1>0. DOMAIN values = 1 .. n /\ n \in Nat
  OBVIOUS
<1> HIDE DEF set, n
<1>3. set \subseteq Nat /\ \A k \in 1 .. n : k \in Nat
  BY <1>0, <1>2
<1>4. ASSUME set # {} PROVE \E k : least(k)
  <2>1. PICK k \in set : \A j \in set : ~(j < k)
    BY <1>3, <1>4, Least
  <2> QED
    BY <1>3, <2>1
<1>5. ASSUME set # {} PROVE \E k : least(k) /\ v = values[k]
  BY <1>1, <1>4, <1>5
<1>6. ASSUME NEW k, least(k) PROVE k \in 1 .. n /\ Decides(values, k)
  <2>1. k \in 1 .. n /\ values[k] # "unset"
    BY <1>2, <1>6
  <2>2. ASSUME NEW j \in 1 .. k - 1 PROVE values[j] = "unset"
    <3>1. j \in 1 .. n /\ ~(k <= j)
      BY <1>0, <2>1
    <3> QED
      BY <1>2, <1>6, <3>1
  <2> QED
    BY <2>1, <2>2 DEF Decides
<1>7. ASSUME NEW k \in 1 .. n, Decides(values, k) PROVE least(k)
  <2>1. k \in set
    BY <1>2, <1>7 DEF Decides
  <2>2. ASSUME NEW j \in set PROVE k <= j
    <3>1. j \in 1 .. n /\ values[j] # "unset"
      BY <1>2
    <3>2. j \notin 1 .. k - 1
      BY <1>7, <3>1 DEF Decides
    <3> QED
      BY <1>0, <3>1, <3>2
  <2> QED
    BY <2>1, <2>2
<1>8. ASSUME NEW j, NEW k, least(j), least(k) PROVE j = k
  <2>1. j \in Nat /\ k \in Nat /\ j <= k /\ k <= j
    BY <1>3, <1>8
  <2> QED
    BY <2>1
<1>9. (\A k \in 1 .. n : values[k] = "unset") => v = "false"
  BY <1>1, <1>2
<1>10. ~(\A k \in 1 .. n : values[k] = "unset") =>
          \E k \in 1 .. n : Decides(values, k) /\ v = values[k]
  <2> HIDE DEF least
  <2> QED
    BY <1>2, <1>5, <1>6
<1>11. ASSUME NEW k \in 1 .. n, Decides(values, k) PROVE v = values[k]
  <2>1. least(k) /\ set # {}
    BY <1>7, <1>11
  <2> HIDE DEF least
  <2> QED
    BY <1>5, <1>8, <2>1
<1> QED
  BY <1>0, <1>9, <1>10, <1>11

\* No label of the configuration takes the place of the UID.
LEMMA UIDStays == Labels["uid"] = UID /\ Labels["team"] = loaded.extra["team"]
  BY LabelsTyped DEF Labels, MergeExtraLabels, NoLabel

\* What Reconcile writes has a plan and the address settings of the class.
LEMMA Written ==
    ASSUME ann \in Annotations
    PROVE  /\ Payload # NoALB
           /\ Payload.plan = (IF ann.plan = "" THEN "p10" ELSE ann.plan)
           /\ Payload.ext <=> ann.ip # ""
           /\ Payload.private <=> ann.internal = "true"
           /\ Payload.ephemeral <=> ~Payload.ext /\ ~Payload.private
<1>1. Payload.plan = (IF ann.plan = "" THEN "p10" ELSE ann.plan)
  BY DEF Payload
<1>2. ann.plan \in {"", "p10", "bad"}
  BY DEF Annotations
<1>3. Payload.plan # "none" /\ NoALB.plan = "none"
  BY <1>1, <1>2 DEF NoALB
<1>4. Internal <=> ann.internal = "true"
  BY DEF Internal, Parse
<1>5. /\ Payload.ext = HasExternalAddress /\ Payload.private = Internal
      /\ Payload.ephemeral = (~HasExternalAddress /\ ~Internal)
  BY DEF Payload
<1> QED
  BY <1>1, <1>3, <1>4, <1>5 DEF HasExternalAddress

-------------------------------------------------------------------------------
(* The invariant *)

LEMMA InitIInv == Init => IInv
<1> SUFFICES ASSUME Init PROVE IInv
  OBVIOUS
<1>1. DOMAIN Objects = 1 .. 3 /\ DOMAIN Tail(Objects) = 1 .. 2
  BY DEF Objects
<1>2. \A n \in Nat : [k \in 1 .. n |-> "unset"] \in Seq(Settings)
  BY DEF Settings
<1>3. /\ tls = [k \in 1 .. 3 |-> "unset"] /\ ws = [k \in 1 .. 2 |-> "unset"]
      /\ settled = FALSE /\ certs = {} /\ alb = NoALB
  BY <1>1 DEF Init
<1>6. ann \in Annotations
  BY DEF Init, Annotations
<1>4. 2 \in Nat /\ 3 \in Nat
  OBVIOUS
<1>5. tls \in Seq(Settings) /\ ws \in Seq(Settings)
  BY <1>2, <1>3, <1>4
<1> QED
  BY <1>3, <1>5, <1>6 DEF IInv, TypeOK, Applied, AsWritten, OneCert

LEMMA ReconcileStep == IInv /\ Reconcile => IInv'
<1> SUFFICES ASSUME IInv, Reconcile PROVE IInv'
  OBVIOUS
<1> USE DEF IInv
<1>1. settled' = TRUE /\ UNCHANGED <<ann, tls, ca, ws, config, loaded, edits>>
  BY DEF Reconcile
<1>2. TypeOK'
  BY <1>1 DEF TypeOK
<1>3. Payload' = Payload /\ Accepted(ann)' = Accepted(ann)
  BY <1>1 DEF Payload, Served, WebSocket, TLSEnabled, Labels, Accepted,
              HasExternalAddress, Internal
<1>4. Applied'
  <2> SUFFICES ASSUME Accepted(ann)
               PROVE  alb' # NoALB /\ ~UpdateNeeded(alb', Payload)
    BY <1>3 DEF Applied
  <2>1. alb' = IF alb = NoALB \/ UpdateNeeded(alb, Payload) THEN Payload ELSE alb
    BY DEF Reconcile
  <2>2. ~UpdateNeeded(Payload, Payload)
    BY DEF UpdateNeeded
  <2>3. Payload # NoALB
    BY Written DEF TypeOK
  <2> QED
    BY <2>1, <2>2, <2>3
<1>5. AsWritten'
  <2>1. CASE UNCHANGED <<alb, asked>>
    BY <2>1 DEF AsWritten
  <2>2. CASE alb' = Payload /\ asked' = Address
    <3>1. asked'.ip = ann.ip /\ asked'.internal = ann.internal
      BY <2>2 DEF Address
    <3>2. /\ Payload.ext <=> ann.ip # ""
          /\ Payload.private <=> ann.internal = "true"
          /\ Payload.ephemeral <=> ~Payload.ext /\ ~Payload.private
      BY Written DEF TypeOK
    <3> QED
      BY <2>2, <3>1, <3>2 DEF AsWritten
  <2> QED
    BY <2>1, <2>2 DEF Reconcile
<1>6. OneCert'
  <2>1. CASE certs' = certs
    BY <2>1 DEF OneCert
  <2>2. CASE EnsureCert /\ certs' # certs
    <3> DEFINE c == [id |-> Cardinality(certs) + 1, labels |-> Labels]
    <3>1. certs' = certs \union {c} /\ ~\E d \in certs : d.labels.uid = UID
      BY <2>2 DEF EnsureCert
    <3>2. certs = {}
      BY <3>1 DEF OneCert
    <3>3. c.labels.uid = UID
      BY UIDStays
    <3> HIDE DEF c
    <3>4. certs' = {c}
      BY <3>1, <3>2
    <3> QED
      BY <3>3, <3>4 DEF OneCert
  <2> QED
    BY <2>1, <2>2 DEF Reconcile
<1> QED
  BY <1>2, <1>4, <1>5, <1>6

LEMMA OtherSteps ==
    ASSUME IInv, Start \/ EditClass \/ EditShared \/ EditConfig
    PROVE  IInv'
<1> USE DEF IInv
<1>1. UNCHANGED <<alb, certs, asked>>
  BY DEF Start, EditClass, EditShared, EditConfig
<1>2. ann' \in Annotations /\ tls' \in Seq(Settings) /\ ws' \in Seq(Settings)
  BY DEF TypeOK, Start, EditClass, EditShared, EditConfig
<1>3. settled' = FALSE \/ UNCHANGED <<ann, tls, ca, ws, loaded, settled>>
  BY DEF Start, EditClass, EditShared, EditConfig
<1>4. TypeOK'
  BY <1>2, <1>3 DEF TypeOK
<1>5. Applied'
  <2>1. CASE settled' = FALSE
    BY <2>1 DEF Applied
  <2>2. CASE UNCHANGED <<ann, tls, ca, ws, loaded, settled>>
    <3>1. Payload' = Payload /\ Accepted(ann)' = Accepted(ann)
      BY <2>2 DEF Payload, Served, WebSocket, TLSEnabled, Labels, Accepted,
                  HasExternalAddress, Internal
    <3> QED
      BY <1>1, <2>2, <3>1 DEF Applied
  <2> QED
    BY <1>3, <2>1, <2>2
<1>6. AsWritten' /\ OneCert'
  BY <1>1 DEF AsWritten, OneCert
<1> QED
  BY <1>4, <1>5, <1>6

LEMMA NextIInv == IInv /\ [Next]_vars => IInv'
<1> SUFFICES ASSUME IInv, [Next]_vars PROVE IInv'
  OBVIOUS
<1>1. CASE UNCHANGED vars
  <2>1. UNCHANGED <<ann, tls, ca, ws, loaded, alb, certs, settled, asked>>
    BY <1>1 DEF vars
  <2>2. Payload' = Payload /\ Accepted(ann)' = Accepted(ann)
    BY <2>1 DEF Payload, Served, WebSocket, TLSEnabled, Labels, Accepted,
                HasExternalAddress, Internal
  <2> QED
    BY <2>1, <2>2 DEF IInv, TypeOK, Applied, AsWritten, OneCert
<1> QED
  BY <1>1, ReconcileStep, OtherSteps DEF Next

THEOREM Invariance == Spec => []IInv
  BY InitIInv, NextIInv, PTL DEF Spec

-------------------------------------------------------------------------------
(* The properties *)

\* After a reconciliation the load balancer has the plan, access list, labels,
\* firewall, TLS and websocket options that the class, the annotations it shares with
\* Ingress and service, and the configuration ask for, and the address and network
\* that the class asked for at the last write.
THEOREM OptionsTakeEffect == Spec => []OptionsInForce
<1>1. IInv => OptionsInForce
  <2> SUFFICES ASSUME IInv, settled, Accepted(ann)
               PROVE  OptionsInForce
    BY DEF OptionsInForce
  <2> DEFINE Unreadable(values) ==
               \E k \in DOMAIN values : Decides(values, k) /\ values[k] = "bad"
             InForce(values, v) ==
               IF \A k \in DOMAIN values : values[k] = "unset" THEN v = "false"
               ELSE \E k \in DOMAIN values : Decides(values, k) /\ v = values[k]
  <2>1. alb # NoALB /\ ~UpdateNeeded(alb, Payload)
    BY DEF IInv, Applied
  <2>2. /\ alb.waf = Payload.waf /\ alb.ws = Payload.ws /\ alb.tls = Payload.tls
        /\ alb.ca = Payload.ca /\ alb.ranges = Payload.ranges /\ alb.labels = Payload.labels
        /\ alb.plan = Payload.plan
    BY <2>1 DEF UpdateNeeded
  <2>3. /\ Payload.waf = (IF Served THEN ann.waf ELSE "")
        /\ Payload.ws = (IF Served THEN WebSocket ELSE "none")
        /\ Payload.tls = (IF Served THEN TLSEnabled ELSE "none")
        /\ Payload.ca = (IF Served THEN ca ELSE "")
        /\ Payload.ranges = ann.ranges /\ Payload.labels = Labels
    BY DEF Payload, AccessControl
  <2>4. alb.labels["uid"] = UID /\ alb.labels["team"] = loaded.extra["team"]
    BY <2>2, <2>3, UIDStays
  <2>5. InForce(tls, TLSEnabled) /\ (Unreadable(tls) <=> TLSEnabled = "bad")
    <3>1. tls \in Seq(Settings) /\ TLSEnabled = GetAnnotation(tls, "false")
      BY DEF TLSEnabled, IInv, TypeOK
    <3>2. /\ (\A k \in DOMAIN tls : tls[k] = "unset") => TLSEnabled = "false"
          /\ ~(\A k \in DOMAIN tls : tls[k] = "unset") =>
               \E k \in DOMAIN tls : Decides(tls, k) /\ TLSEnabled = tls[k]
          /\ \A k \in DOMAIN tls : Decides(tls, k) => TLSEnabled = tls[k]
      BY <3>1, FirstDecides
    <3> QED
      BY <3>2
  <2>6. InForce(ws, WebSocket) /\ (Unreadable(ws) <=> WebSocket = "bad")
    <3>1. ws \in Seq(Settings) /\ WebSocket = GetAnnotation(ws, "false")
      BY DEF WebSocket, IInv, TypeOK
    <3>2. /\ (\A k \in DOMAIN ws : ws[k] = "unset") => WebSocket = "false"
          /\ ~(\A k \in DOMAIN ws : ws[k] = "unset") =>
               \E k \in DOMAIN ws : Decides(ws, k) /\ WebSocket = ws[k]
          /\ \A k \in DOMAIN ws : Decides(ws, k) => WebSocket = ws[k]
      BY <3>1, FirstDecides
    <3> QED
      BY <3>2
  <2>7. Served <=> ~(Unreadable(tls) \/ Unreadable(ws) \/ ca = "bad")
    BY <2>5, <2>6 DEF Served
  <2>8. IF Unreadable(tls) \/ Unreadable(ws) \/ ca = "bad"
        THEN alb.tls = "none" /\ alb.ws = "none" /\ alb.waf = "" /\ alb.ca = ""
        ELSE /\ InForce(tls, alb.tls) /\ InForce(ws, alb.ws)
             /\ alb.waf = ann.waf /\ alb.ca = ca
    <3> HIDE DEF InForce, Unreadable
    <3> QED
      BY <2>2, <2>3, <2>5, <2>6, <2>7
  <2>9. alb.plan = IF ann.plan = "" THEN "p10" ELSE ann.plan
    BY <2>2, Written DEF IInv, TypeOK
  <2>10. /\ alb.ext <=> asked.ip # ""
         /\ alb.private <=> asked.internal = "true"
         /\ alb.ephemeral <=> ~alb.ext /\ ~alb.private
    BY <2>1 DEF IInv, AsWritten
  <2> QED
    BY <2>2, <2>3, <2>4, <2>8, <2>9, <2>10 DEF OptionsInForce, Decides
<1> QED
  BY <1>1, Invariance, PTL

\* A certificate is created once: the labels of the configuration never hide it.
THEOREM CertificateCreatedOnce == Spec => []CreatedOnce
<1>1. IInv => CreatedOnce
  <2> SUFFICES ASSUME IInv PROVE Cardinality(certs) <= 1
    BY DEF CreatedOnce
  <2>1. CASE certs = {}
    BY <2>1, FS_EmptySet
  <2>2. CASE \E c : certs = {c}
    <3>1. PICK c : certs = {c}
      BY <2>2
    <3>2. Cardinality(certs) = 1
      BY <3>1, FS_Singleton
    <3> QED
      BY <3>2
  <2> QED
    BY <2>1, <2>2 DEF IInv, OneCert
<1> QED
  BY <1>1, Invariance, PTL

\* A list of allowed ranges is dropped only if the class has none.
THEOREM AllowListStays == Spec => AllowListKept
<1> DEFINE A == alb.ranges # <<>> /\ alb'.ranges = <<>> => ann.ranges = <<>>
<1>1. Next => A
  <2> SUFFICES ASSUME Next, alb.ranges # <<>>, alb'.ranges = <<>>
               PROVE  ann.ranges = <<>>
    OBVIOUS
  <2>1. Reconcile /\ alb' # alb
    BY DEF Next, Start, EditClass, EditShared, EditConfig
  <2>2. alb' = Payload
    BY <2>1 DEF Reconcile
  <2> QED
    BY <2>2 DEF Payload, AccessControl
<1>2. [Next]_vars => [A]_vars
  BY <1>1
<1>3. AllowListKept <=> [][A]_vars
  BY DEF AllowListKept
<1> HIDE DEF A
<1> QED
  BY <1>2, <1>3, PTL DEF Spec
===============================================================================
