------------------------------ MODULE MCTornTail ------------------------------
(***************************************************************************)
(* TornTail on the small sets of MCSimpleRCS.                              *)
(***************************************************************************)
EXTENDS TornTail, MCSimpleRCS
===============================================================================
