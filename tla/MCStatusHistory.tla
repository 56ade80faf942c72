---------------------------- MODULE MCStatusHistory ----------------------------
(* TLC instance of StatusHistory: the Ingresses and the fingerprints are       *)
(* interchangeable.                                                            *)
EXTENDS StatusHistory, TLC

Symmetry == Permutations(Ingresses) \union Permutations(Fingerprints)
===============================================================================
