------------------------------ MODULE MCWorkTree ------------------------------
(* Ingresses, services and limits for model checking the work tree. *)
EXTENDS WorkTree, TLC

\* Port 80 of "mixed" is there for TCP and for UDP; only the latter has a node port.
MCServices ==
    "web"     :> [type |-> "NodePort", ok |-> TRUE, local |-> FALSE,
                  ports |-> <<[number |-> 80, name |-> "http", nodePort |-> 30000],
                              [number |-> 81, name |-> "admin", nodePort |-> 30001]>>] @@
    "mixed"   :> [type |-> "LoadBalancer", ok |-> TRUE, local |-> FALSE,
                  ports |-> <<[number |-> 80, name |-> "quic", nodePort |-> 30002],
                              [number |-> 80, name |-> "http", nodePort |-> 0]>>] @@
    "hidden"  :> [type |-> "ClusterIP", ok |-> TRUE, local |-> FALSE,
                  ports |-> <<[number |-> 80, name |-> "", nodePort |-> 0]>>]

MCRank == [i \in Ingresses |-> IF i = "a" THEN 1 ELSE IF i = "b" THEN 2 ELSE 3]

PathOf(h, p, t, s, n) ==
    [host |-> h, path |-> p, type |-> t, service |-> s, number |-> n,
     name |-> IF n = 0 THEN "http" ELSE ""]

Root  == PathOf(1, 1, "Prefix", "web", 80)
Other == PathOf(1, 1, "Exact", "web", 0)
Mixed == PathOf(1, 1, "Prefix", "mixed", 80)

Plain == [ok |-> TRUE, prio |-> 0, created |-> 0, httpsOnly |-> FALSE, http |-> 1,
          https |-> 2, tls |-> {}, paths |-> <<Root>>]

\* Ingresses of any precedence that share the target pools.
Ordered == {[Plain EXCEPT !.prio = p, !.created = c, !.paths = paths] :
              p \in {0, 1}, c \in {0, 1}, paths \in {<<Root>>, <<Other>>, <<Root, Other>>}}

\* Ingresses that compete for ports, protocols and paths.
Secured == {[Plain EXCEPT !.httpsOnly = o, !.https = h, !.tls = {"f1"}, !.paths = paths] :
              o \in BOOLEAN, h \in {1, 2}, paths \in {<<Root>>, <<Mixed, Other>>}}

\* What an Ingress can get wrong.
Faulty ==
    {[Plain EXCEPT !.ok = FALSE], [Plain EXCEPT !.http = 0], [Plain EXCEPT !.httpsOnly = TRUE],
     [Plain EXCEPT !.https = 3, !.tls = {"f1"}], [Plain EXCEPT !.tls = {"f1", BadSecret}],
     [Plain EXCEPT !.http = 2, !.https = 1, !.tls = {BadSecret}],
     [Plain EXCEPT !.paths = <<PathOf(1, 1, "Prefix", "hidden", 80), Mixed>>],
     [Plain EXCEPT !.paths = <<PathOf(1, 1, "Exact", "mixed", 0),
                               PathOf(1, 1, "Exact", "gone", 80)>>]}

MCSpecs == Ordered \union Secured \union Faulty

\* Priorities over the whole range of an int.
ExtremeSpecs ==
    [ok : {TRUE}, prio : -(MaxInt + 1) .. MaxInt, created : {0, 1}, httpsOnly : {FALSE},
     http : {1}, https : {2}, tls : {{}}, paths : {<<Root>>}]
===============================================================================
