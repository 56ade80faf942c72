--------------------------- MODULE ResourceLifecycle ---------------------------
(* What the controller promises of the resources that are paid for: a class,   *)
(* once it is held by our finalizer, gets a load balancer and certificates, and *)
(* is let go when nothing of them is left.  Certificates go one by one, never   *)
(* while they are in use; the load balancer goes out of service only for a      *)
(* class that is leaving, and leaves no sooner than it is down.                 *)
(*                                                                             *)
(* Reconciler implements this with its caches, crashes, retries and stale       *)
(* reads: none of them shows here.                                             *)

CONSTANT Owners   \* the incarnations of the IngressClass

VARIABLES
    owner,     \* "free", "held" by our finalizer, or "leaving": held and deleted
    service,   \* the load balancer: "none", "up" or "down" (on its way out)
    owned,     \* the IDs of the certificates that are there
    used       \* those that the load balancer references

vars == <<owner, service, owned, used>>

Init ==
    /\ owner = [u \in Owners |-> "free"]
    /\ service = [u \in Owners |-> "none"]
    /\ owned = [u \in Owners |-> {}]
    /\ used = [u \in Owners |-> {}]

-------------------------------------------------------------------------------

Hold(u) ==
    /\ owner[u] = "free"
    /\ owner' = [owner EXCEPT ![u] = "held"]
    /\ UNCHANGED <<service, owned, used>>

Leave(u) ==
    /\ owner[u] = "held"
    /\ owner' = [owner EXCEPT ![u] = "leaving"]
    /\ UNCHANGED <<service, owned, used>>

\* Nothing is left.
LetGo(u) ==
    /\ owner[u] = "leaving" /\ service[u] = "none" /\ owned[u] = {}
    /\ owner' = [owner EXCEPT ![u] = "free"]
    /\ UNCHANGED <<service, owned, used>>

AddCert(u) ==
    /\ owner[u] # "free"
    /\ \E c \in owned'[u] : owned' = [owned EXCEPT ![u] = @ \union {c}]
    /\ UNCHANGED <<owner, service, used>>

DropCert(u) ==
    /\ \E c \in owned[u] \ used[u] : owned' = [owned EXCEPT ![u] = @ \ {c}]
    /\ UNCHANGED <<owner, service, used>>

\* The load balancer is created, or references other certificates.
Serve(u) ==
    /\ owner[u] # "free"
    /\ service' = [service EXCEPT ![u] = IF @ = "none" THEN "up" ELSE @]
    /\ \E C \in SUBSET owned[u] : used' = [used EXCEPT ![u] = C]
    /\ UNCHANGED <<owner, owned>>

TakeDown(u) ==
    /\ owner[u] = "leaving" /\ service[u] = "up"
    /\ service' = [service EXCEPT ![u] = "down"]
    /\ UNCHANGED <<owner, owned, used>>

Vanish(u) ==
    /\ service[u] = "down"
    /\ service' = [service EXCEPT ![u] = "none"]
    /\ used' = [used EXCEPT ![u] = {}]
    /\ UNCHANGED <<owner, owned>>

Next == \E u \in Owners :
    \/ Hold(u) \/ Leave(u) \/ LetGo(u) \/ AddCert(u) \/ DropCert(u)
    \/ Serve(u) \/ TakeDown(u) \/ Vanish(u)

Spec == Init /\ [][Next]_vars
===============================================================================
