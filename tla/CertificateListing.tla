-------------------------- MODULE CertificateListing --------------------------
(* How the reconciler learns which certificates a class has: ListCertificate   *)
(* (src/pkg/stackit/applicationloadbalancercertificates.go) reads the          *)
(* certificates of the project page by page, getCertificatesForIngressClass    *)
(* picks those with the UID of the class, and reconcileALBResources keeps one  *)
(* of each fingerprint and takes the others for duplicates.                    *)
(*                                                                             *)
(* Reconciler has all this in the steps ListCerts and SelectCerts.  Here other *)
(* classes and clusters create and delete certificates between two pages.  A   *)
(* page token is taken to mean "after this certificate".                       *)
EXTENDS Naturals, Sequences, FiniteSets, SequencesExt, FiniteSetsExt

CONSTANTS
    LastId,        \* bound: certificates the project may have at a time
    Fingerprints,
    Undescribed,   \* the fingerprint of a certificate that comes without data
    PageSize,      \* certificates in a page of the API
    MaxPages,      \* pages that ListCertificate reads, 1000 in the code
    MaxChanges     \* bound: certificates of others that come and go, and failures

ASSUME LastIdAssumption == LastId \in Nat
ASSUME UndescribedAssumption == Undescribed \notin Fingerprints
ASSUME SizesPositive == PageSize \in Nat \ {0} /\ MaxPages \in Nat \ {0}
ASSUME BoundAssumption == MaxChanges \in Nat

VARIABLES
    mine,      \* the certificates with the UID of the class, and their fingerprints
    others,    \* the IDs of the other certificates of the project
    nextPage,  \* the certificate after which the next page starts, 0 for none
    pages,
    listed,    \* certs
    pc,
    kept,      \* certIDMap
    doomed,    \* duplicateCerts, by their places in listed
    seen,      \* history: the certificates there were at some time of the listing
    changes

vars == <<mine, others, nextPage, pages, listed, pc, kept, doomed, seen, changes>>

\* A certificate is its place among all the IDs that there may be, in the order of
\* the pages.
Ids == 1 .. LastId
Present == DOMAIN mine \union others

Init ==
    /\ \E M \in SUBSET Ids :
         /\ mine \in [M -> Fingerprints \union {Undescribed}]
         /\ others \in SUBSET (Ids \ M)
    /\ nextPage = 0 /\ pages = 0 /\ listed = <<>> /\ pc = "list"
    /\ kept = {} /\ doomed = <<>>
    /\ seen = Present /\ changes = 0

-------------------------------------------------------------------------------
(* The certificate API *)

After(token) == {c \in Present : c > token}
\* The certificates after a token, as many as fit.
Page(token) == {c \in After(token) : Cardinality({d \in After(token) : d < c}) < PageSize}
\* The token of the page after that one, 0 if there is none.
NextPageId(token) == IF Page(token) = After(token) THEN 0 ELSE Max(Page(token))

Change == changes < MaxChanges /\ changes' = changes + 1

OthersChange ==
    /\ pc = "list" /\ Change
    /\ \/ \E c \in Ids \ Present : others' = others \union {c}
       \/ \E c \in others : others' = others \ {c}
    /\ seen' = seen \union others'
    /\ UNCHANGED <<mine, nextPage, pages, listed, pc, kept, doomed>>

-------------------------------------------------------------------------------
(* ListCertificate *)

\* Mutants of ReadPage: the token is not sent; the last page is not read.
ReadFirstPage ==
    /\ pc = "list"
    /\ \E s \in SetToSeqs(Page(0)) : listed' = listed \o s
    /\ IF NextPageId(0) = 0
       THEN pc' = "select" /\ UNCHANGED <<nextPage, pages>>
       ELSE /\ pages' = pages + 1 /\ nextPage' = 0
            /\ pc' = IF pages' >= MaxPages THEN "tooMany" ELSE "list"
    /\ UNCHANGED <<mine, others, kept, doomed, seen, changes>>

ReadFullPages ==
    /\ pc = "list"
    /\ IF Cardinality(Page(nextPage)) < PageSize
       THEN pc' = "select" /\ UNCHANGED <<nextPage, pages, listed>>
       ELSE /\ \E s \in SetToSeqs(Page(nextPage)) : listed' = listed \o s
            /\ pages' = pages + 1 /\ nextPage' = NextPageId(nextPage)
            /\ pc' = IF nextPage' = 0 THEN "select"
                     ELSE IF pages' >= MaxPages THEN "tooMany" ELSE "list"
    /\ UNCHANGED <<mine, others, kept, doomed, seen, changes>>

\* A page comes in any order.
ReadPage ==
    /\ pc = "list"
    /\ \E s \in SetToSeqs(Page(nextPage)) : listed' = listed \o s
    /\ IF NextPageId(nextPage) = 0
       THEN pc' = "select" /\ UNCHANGED <<nextPage, pages>>
       ELSE /\ pages' = pages + 1 /\ nextPage' = NextPageId(nextPage)
            /\ pc' = IF pages' >= MaxPages THEN "tooMany" ELSE "list"
    /\ UNCHANGED <<mine, others, kept, doomed, seen, changes>>

\* The request fails, and the reconciliation starts over some time later.
RequestFails ==
    /\ pc = "list" /\ Change
    /\ nextPage' = 0 /\ pages' = 0 /\ listed' = <<>>
    /\ seen' = Present
    /\ UNCHANGED <<mine, others, pc, kept, doomed>>

-------------------------------------------------------------------------------
(* getCertificatesForIngressClass, and certIDMap *)

\* The places in the list of the certificates of the class.
Own == {k \in DOMAIN listed : listed[k] \in DOMAIN mine}
Described(k) == mine[listed[k]] # Undescribed
\* An earlier certificate of the class has the fingerprint.
Repeated(k) == \E j \in Own : j < k /\ mine[listed[j]] = mine[listed[k]]

\* Mutant of SelectCerts: what has a duplicate is a duplicate, the first one too.
SelectCertsOnlySingles ==
    /\ pc = "select" /\ pc' = "done"
    /\ kept' = {listed[k] : k \in {o \in Own : Described(o) /\ ~Repeated(o)}}
    /\ LET twin(k) == \E j \in Own \ {k} : mine[listed[j]] = mine[listed[k]]
       IN doomed' = [k \in {o \in Own : Described(o) /\ twin(o)} |-> listed[k]]
    /\ UNCHANGED <<mine, others, nextPage, pages, listed, seen, changes>>

SelectCerts ==
    /\ pc = "select" /\ pc' = "done"
    /\ kept' = {listed[k] : k \in {o \in Own : Described(o) /\ ~Repeated(o)}}
    /\ doomed' = [k \in {o \in Own : Described(o) /\ Repeated(o)} |-> listed[k]]
    /\ UNCHANGED <<mine, others, nextPage, pages, listed, seen, changes>>

Next == OthersChange \/ ReadPage \/ RequestFails \/ SelectCerts

Spec == Init /\ [][Next]_vars

-------------------------------------------------------------------------------
(* Properties *)

\* Whatever others create and delete meanwhile, every certificate of the class is
\* listed, and listed once: none is created again or left behind by a deletion.
ListedOnce ==
    pc \in {"select", "done"} =>
        \A c \in DOMAIN mine : Cardinality({k \in DOMAIN listed : listed[k] = c}) = 1

\* Of the certificates with one fingerprint exactly one is kept for the listeners;
\* the others, and nothing else, are deleted once.
KeptOrDoomed ==
    pc = "done" =>
        LET D == {c \in DOMAIN mine : mine[c] # Undescribed}
        IN /\ D = kept \union Range(doomed) /\ kept \intersect Range(doomed) = {}
           /\ \A c \in D : Cardinality({k \in kept : mine[k] = mine[c]}) = 1
           /\ IsInjective(doomed)

\* The listing gives up only when there are more certificates than it may read.
GivesUpOnlyBeyondLimit == pc = "tooMany" => Cardinality(seen) > MaxPages * PageSize
===============================================================================
