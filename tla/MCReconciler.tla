----------------------------- MODULE MCReconciler -----------------------------
(* TLC instance of Reconciler: model values and their symmetry.                *)
EXTENDS Reconciler, TLC

\* The Ingresses and the fingerprints are interchangeable in the safety runs.
Symmetry == Permutations(Ingresses) \union Permutations(Fingerprints)
===============================================================================
