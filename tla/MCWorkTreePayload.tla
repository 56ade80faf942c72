--------------------------- MODULE MCWorkTreePayload ---------------------------
(* Ingresses for model checking the payload of the work tree. *)
EXTENDS WorkTreePayload

MCServices ==
    [web |-> [type |-> "NodePort", ok |-> TRUE, local |-> FALSE,
              ports |-> <<[number |-> 80, name |-> "http", nodePort |-> 30000]>>]]

MCRank    == [i \in Ingresses |-> IF i = "a" THEN 1 ELSE 2]
MCCertIDs == [f1 |-> 1, f2 |-> 2]
MCPathLen == <<1, 4>>

PathOf(h, p, t) == [host |-> h, path |-> p, type |-> t, service |-> "web",
                    number |-> 80, name |-> ""]

\* The path lists differ in hosts, lengths, types and in the order of the same paths.
PathLists == {<<>>,
              <<PathOf(1, 1, "Prefix"), PathOf(1, 2, "Prefix")>>,
              <<PathOf(1, 2, "Prefix"), PathOf(1, 1, "Prefix")>>,
              <<PathOf(2, 1, "Prefix"), PathOf(1, 1, "ImplementationSpecific")>>}

MCSpecs ==
    [ok : {TRUE}, prio : {0}, created : {0}, httpsOnly : {FALSE}, http : {1},
     https : {2, 3}, tls : {{}, {"f1"}, {"f2"}}, paths : PathLists]
===============================================================================
