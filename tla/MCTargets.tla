------------------------------- MODULE MCTargets -------------------------------
(* Nodes and their addresses for model checking the targets. *)
EXTENDS Targets

Inside(ip)  == [type |-> "InternalIP", ip |-> ip]
Outside(ip) == [type |-> "ExternalIP", ip |-> ip]

\* One node gets its internal addresses late; the first of them counts, and is that
\* of another node.
MCAddressLists ==
    [a |-> {<<Outside(1)>>, <<Outside(1), Inside(4), Inside(2)>>},
     b |-> {<<Inside(3)>>},
     c |-> {<<Inside(4)>>}]
===============================================================================
