----------------------------- MODULE MCTextDelta ------------------------------
(***************************************************************************)
(* TextDelta on texts of a few lines, one of which reads as a command.     *)
(***************************************************************************)
EXTENDS TextDelta

CONSTANT word

MCWords == {Blank, word, [cmd |-> "d", at |-> 1, count |-> 1]}

MCPlainWords == {Blank, word}
===============================================================================
