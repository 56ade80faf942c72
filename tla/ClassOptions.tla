----------------------------- MODULE ClassOptions -----------------------------
(* What does not come from the rules of the Ingresses: the annotations of the  *)
(* class, those that a class, an Ingress and a service share, and the          *)
(* configuration file; how BuildTree reads them, ToCreatePayload sends them,    *)
(* and UpdateNeeded compares them.                                              *)
(*                                                                             *)
(* One class with one Ingress and one path to one service.  A reconciliation    *)
(* is one step; its calls are apart in Reconciler.                              *)
EXTENDS Naturals, Sequences, FiniteSets

CONSTANTS
    RangeLists,   \* values of allowed-source-ranges, split at the commas
    BadRange,     \* an element that is not a CIDR
    ExtraLabels,  \* values of extraLabels in the configuration file
    UID,          \* the UID of the class
    MaxEdits,     \* bound: changes to annotations and to the configuration file
    MaxCerts      \* bound: certificates created for the class

VARIABLES
    ann,       \* the annotations of the class
    tls,       \* target-pool-tls-enabled on the service, the Ingress and the class
    ca,        \* target-pool-tls-custom-ca on the service
    ws,        \* websocket on the Ingress and the class
    config,    \* the configuration file
    loaded,    \* the configuration of the running process, NotRunning if it exited
    alb,       \* the load balancer
    certs,     \* the certificates created for the class
    settled,   \* history: nothing has changed since the last reconciliation
    asked,     \* history: the address settings of the class at the last write of alb
    edits

vars == <<ann, tls, ca, ws, config, loaded, alb, certs, settled, asked, edits>>

-------------------------------------------------------------------------------
(* Data *)

\* "bad" does not parse, or is a plan that is not offered.
Annotations == [mode : {"NodePort", ""}, ip : {"", "good", "bad"},
                internal : {"unset", "true", "false", "bad"}, plan : {"", "p10", "bad"},
                waf : {"", "w1"}, ranges : RangeLists \union {<<>>}]

\* The objects in the order in which GetAnnotation looks at them; websocket is not an
\* annotation of the service.
Objects  == <<"service", "ingress", "class">>
Settings == {"unset", "true", "false", "bad"}
\* "bad" is not the certificate of an authority.
Authorities == {"", "good", "bad"}

LabelSet == [{"uid", "team"} -> STRING]
NoLabel  == ""

\* ok: project, region and network are there, and the labels are well-formed.
Config == [ok : BOOLEAN, extra : ExtraLabels]
NotRunning == [ok |-> FALSE, extra |-> [uid |-> NoLabel, team |-> NoLabel]]
NoALB == [ext |-> FALSE, ephemeral |-> FALSE, private |-> FALSE, plan |-> "none",
          waf |-> "", ranges |-> <<>>, tls |-> "none", ca |-> "", ws |-> "none",
          labels |-> NotRunning.extra]

\* The annotations that decide on the address and the network.
Address == [ip |-> ann.ip, internal |-> ann.internal]

ASSUME LabelsTyped == ExtraLabels \subseteq LabelSet /\ UID \in STRING /\ UID # NoLabel
ASSUME RangesAreLists == \A r \in RangeLists : r \in Seq(STRING) /\ r # <<>>
ASSUME BoundsAreNaturals == MaxEdits \in Nat /\ MaxCerts \in Nat

Init ==
    /\ ann = [mode |-> "NodePort", ip |-> "", internal |-> "unset", plan |-> "",
              waf |-> "", ranges |-> <<>>]
    /\ tls = [k \in DOMAIN Objects |-> "unset"] /\ ca = ""
    /\ ws = [k \in DOMAIN Tail(Objects) |-> "unset"]
    /\ config \in [ok : {TRUE}, extra : ExtraLabels] /\ loaded = NotRunning
    /\ alb = NoALB /\ certs = {} /\ settled = FALSE /\ asked = Address /\ edits = 0

-------------------------------------------------------------------------------
(* BuildTree: the class as a whole *)

Parse(v, default) == IF v = "unset" THEN default ELSE v

\* Mutant of GetAnnotation: what does not parse is looked for in the next object.
GetAnnotationSkipBad(values, default) ==
    LET set == {k \in DOMAIN values : values[k] \notin {"unset", "bad"}}
    IN IF set = {} THEN default ELSE values[CHOOSE k \in set : \A j \in set : k <= j]

\* The first object that has the annotation decides, readable or not.
GetAnnotation(values, default) ==
    LET set == {k \in DOMAIN values : values[k] # "unset"}
    IN IF set = {} THEN default ELSE values[CHOOSE k \in set : \A j \in set : k <= j]

Repeats(s) == \E j, k \in DOMAIN s : j # k /\ s[j] = s[k]

\* Mutant of AccessControl: ranges that do not parse are left out.
AccessControlSkipBad(ranges) ==
    [ok |-> ~Repeats(ranges), ranges |-> SelectSeq(ranges, LAMBDA r : r # BadRange)]

\* addAccessControlToTree: all ranges or an error.
AccessControl(ranges) ==
    [ok |-> ~Repeats(ranges) /\ \A k \in DOMAIN ranges : ranges[k] # BadRange,
     ranges |-> ranges]

\* The class is rejected as a whole unless every annotation of its own is good.
Accepted(a) == /\ a.mode = "NodePort" /\ a.ip # "bad" /\ a.internal # "bad"
               /\ a.plan # "bad" /\ AccessControl(a.ranges).ok

-------------------------------------------------------------------------------
(* ToCreatePayload and UpdateNeeded *)

\* Mutant of MergeExtraLabels: the labels of the configuration win.
MergeExtraFirst(labels, extra) ==
    [l \in DOMAIN labels |-> IF extra[l] # NoLabel THEN extra[l] ELSE labels[l]]

MergeExtraLabels(labels, extra) ==
    [l \in DOMAIN labels |-> IF labels[l] # NoLabel THEN labels[l] ELSE extra[l]]

Labels == MergeExtraLabels([uid |-> UID, team |-> NoLabel], loaded.extra)

TLSEnabled == GetAnnotation(tls, "false")
WebSocket  == GetAnnotation(ws, "false")

\* The Ingress is skipped if its websocket flag does not parse, and the path gets no
\* pool if the TLS settings do not; then the only listener is a dummy without firewall.
Served == WebSocket # "bad" /\ TLSEnabled # "bad" /\ ca # "bad"

\* Mutant of HasExternalAddress: an update keeps the external address that the ALB has.
KeepsExternalAddress == IF alb = NoALB THEN ann.ip # "" ELSE alb.ext

HasExternalAddress == ann.ip # ""
Internal == Parse(ann.internal, "false") = "true"

\* tls and ws are "none" if there is no pool and no rule.
Payload ==
    [ext       |-> HasExternalAddress,
     ephemeral |-> ~HasExternalAddress /\ ~Internal,
     private   |-> Internal,
     plan      |-> IF ann.plan = "" THEN "p10" ELSE ann.plan,
     waf       |-> IF Served THEN ann.waf ELSE "",
     ranges    |-> AccessControl(ann.ranges).ranges,
     tls       |-> IF Served THEN TLSEnabled ELSE "none",
     ca        |-> IF Served THEN ca ELSE "",
     ws        |-> IF Served THEN WebSocket ELSE "none",
     labels    |-> Labels]

\* Mutant of UpdateNeeded: the pools' TLS settings are not compared.
UpdateNeededNoTLS(c, d) ==
    \/ c.waf # d.waf \/ c.ws # d.ws \/ c.ranges # d.ranges
    \/ c.labels # d.labels \/ c.plan # d.plan

\* Neither the addresses nor the private network are compared.
UpdateNeeded(c, d) ==
    \/ c.waf # d.waf \/ c.ws # d.ws \/ c.tls # d.tls \/ c.ca # d.ca
    \/ c.ranges # d.ranges
    \/ c.labels # d.labels \/ c.plan # d.plan

\* A certificate with the UID of the class is found again, or it is created.
EnsureCert ==
    IF Cardinality(certs) = MaxCerts \/ \E c \in certs : c.labels.uid = UID
    THEN certs' = certs
    ELSE certs' = certs \union {[id |-> Cardinality(certs) + 1, labels |-> Labels]}

Reconcile ==
    /\ loaded.ok /\ ~settled /\ settled' = TRUE
    /\ IF Accepted(ann)
       THEN /\ EnsureCert
            /\ IF alb = NoALB \/ UpdateNeeded(alb, Payload)
               THEN alb' = Payload /\ asked' = Address
               ELSE UNCHANGED <<alb, asked>>
       ELSE UNCHANGED <<alb, certs, asked>>
    /\ UNCHANGED <<ann, tls, ca, ws, config, loaded, edits>>

-------------------------------------------------------------------------------
(* The process and its users *)

\* The process reads the configuration, and exits if it is not valid.  At its start
\* every class is reconciled.
Start ==
    /\ loaded' = IF config.ok THEN config ELSE NotRunning
    /\ settled' = FALSE
    /\ UNCHANGED <<ann, tls, ca, ws, config, alb, certs, asked, edits>>

Edit == edits < MaxEdits /\ edits' = edits + 1

\* One annotation of the class changes.
EditClass ==
    /\ Edit /\ settled' = FALSE
    /\ ann' \in Annotations /\ \E f \in DOMAIN ann : ann' = [ann EXCEPT ![f] = ann'[f]]
    /\ UNCHANGED <<tls, ca, ws, config, loaded, alb, certs, asked>>

\* An annotation that the service, the Ingress and the class share changes.
EditShared ==
    /\ Edit /\ settled' = FALSE
    /\ \/ \E k \in DOMAIN tls, v \in Settings :
            tls' = [tls EXCEPT ![k] = v] /\ UNCHANGED <<ca, ws>>
       \/ \E k \in DOMAIN ws, v \in Settings :
            ws' = [ws EXCEPT ![k] = v] /\ UNCHANGED <<tls, ca>>
       \/ ca' \in Authorities /\ UNCHANGED <<tls, ws>>
    /\ UNCHANGED <<ann, config, loaded, alb, certs, asked>>

\* A change of the configuration file shows at the next start.
EditConfig ==
    /\ Edit /\ config' \in Config
    /\ UNCHANGED <<ann, tls, ca, ws, loaded, alb, certs, settled, asked>>

Next == Reconcile \/ Start \/ EditClass \/ EditShared \/ EditConfig

Spec == Init /\ [][Next]_vars

-------------------------------------------------------------------------------
(* Properties *)

\* After a reconciliation that nothing has followed, what UpdateNeeded compares is what
\* the class, the shared annotations and the running configuration ask for, whatever
\* the load balancer had before: plan, access list, labels, firewall, and the options
\* of pool and rule, with the first object that has an annotation deciding.  What it
\* does not compare, the address and the network, may be older: all three fields are
\* what the class asked for when the load balancer was last written, never the
\* address of one edit with the network of another.
OptionsInForce ==
    settled /\ Accepted(ann) =>
        LET Decides(values, k) == /\ values[k] # "unset"
                                  /\ \A j \in 1 .. k - 1 : values[j] = "unset"
            Unreadable(values) == \E k \in DOMAIN values : Decides(values, k) /\ values[k] = "bad"
            InForce(values, v) ==
                IF \A k \in DOMAIN values : values[k] = "unset" THEN v = "false"
                ELSE \E k \in DOMAIN values : Decides(values, k) /\ v = values[k]
        IN /\ alb.plan = IF ann.plan = "" THEN "p10" ELSE ann.plan
           /\ alb.ranges = ann.ranges /\ alb.labels.uid = UID
           /\ alb.labels.team = loaded.extra.team
           /\ IF Unreadable(tls) \/ Unreadable(ws) \/ ca = "bad"
              THEN alb.tls = "none" /\ alb.ws = "none" /\ alb.waf = "" /\ alb.ca = ""
              ELSE /\ InForce(tls, alb.tls) /\ InForce(ws, alb.ws)
                   /\ alb.waf = ann.waf /\ alb.ca = ca
           /\ (alb.ext <=> asked.ip # "") /\ (alb.private <=> asked.internal = "true")
           /\ (alb.ephemeral <=> ~alb.ext /\ ~alb.private)

\* Access stays restricted: once there is a list of allowed ranges, only a class
\* without the annotation makes the load balancer open to all.
AllowListKept ==
    [][alb.ranges # <<>> /\ alb'.ranges = <<>> => ann.ranges = <<>>]_vars

\* The resources of the class are found again whatever labels the configuration
\* adds, so its certificate is created once.
CreatedOnce == Cardinality(certs) <= 1

\* A custom certificate authority enables TLS to the targets: nothing is sent to them
\* in plain text while the load balancer knows the authority of their certificates.
CustomCAEnablesTLS == alb.ca # "" => alb.tls = "true"
===============================================================================
