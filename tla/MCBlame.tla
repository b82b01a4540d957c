------------------------------- MODULE MCBlame --------------------------------
(***************************************************************************)
(* TextDelta and Blame on texts of a few lines, one of which reads as a    *)
(* command.                                                                *)
(***************************************************************************)
EXTENDS MCTextDelta, Blame
===============================================================================
