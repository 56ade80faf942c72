------------------------------ MODULE MCHandover ------------------------------
(* TLC instance of Handover. *)
EXTENDS Handover, TLC
===============================================================================
