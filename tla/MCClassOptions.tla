---------------------------- MODULE MCClassOptions ----------------------------
(* Values of annotations and labels for model checking the class options. *)
EXTENDS ClassOptions

MCRangeLists == {<<"r1">>, <<"r1", "r2">>, <<"r1", "r1">>, <<"bad">>, <<"r2", "bad">>}

\* The configuration may try to set the label that the controller uses.
MCExtraLabels == {[uid |-> "", team |-> ""], [uid |-> "mine", team |-> "red"]}
===============================================================================
