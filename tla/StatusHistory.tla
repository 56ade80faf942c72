----------------------------- MODULE StatusHistory -----------------------------
(* Reconciler with two history variables about the deletion of a class: what   *)
(* the informer cache had not seen when wipeIngressStatus listed the Ingresses. *)
(* They only record; every behaviour of Reconciler is one of HistorySpec.       *)
EXTENDS Reconciler

VARIABLES
    unread,     \* Ingresses with events outstanding when the running wipe listed them
    overlooked  \* the same for the last wipe of each incarnation that went through

historyVars == <<vars, unread, overlooked>>

HistoryInit ==
    /\ Init
    /\ unread = {} /\ overlooked = [u \in Uids |-> {}]

\* wipeIngressStatus lists the Ingresses, then patches them until none is left.
Remember ==
    /\ unread' = IF pc' # "wipePatch" THEN {}
                 ELSE IF pc = "wipeList" THEN unseen ELSE unread
    /\ overlooked' = IF pc = "wipePatch" /\ pc' = "delGetALB"
                     THEN [overlooked EXCEPT ![rClass.uid] = unread]
                     ELSE overlooked

HistorySpec == HistoryInit /\ [][Next /\ Remember]_historyVars

-------------------------------------------------------------------------------
(* Properties *)

GoneOrGoing(u) == alb[u].st \in {"none", "TERMINATING"}

\* The status is wiped before the ALB is told to go.  An Ingress can advertise the
\* address of an ALB that is gone or going only if its latest change had not reached
\* the informer cache when the last complete wipe for that class listed the
\* Ingresses: no interleaving, fault or new incarnation leaves a dead address that
\* an up-to-date cache would have shown, and a retried wipe takes back what it can.
DeadAddressOnlyOverlooked ==
    \A i \in Ingresses :
        ing[i].ip # 0 /\ GoneOrGoing(ing[i].ip) => i \in overlooked[ing[i].ip]
===============================================================================
