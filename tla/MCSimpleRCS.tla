----------------------------- MODULE MCSimpleRCS ------------------------------
(***************************************************************************)
(* SimpleRCS on small sets of contents, signers and versions.              *)
(***************************************************************************)
EXTENDS SimpleRCS

CONSTANTS t1, t2, b1, t1_no_newline

\* t1_no_newline is t1 as a caller passes it before the newline rule.
MCInputs == Contents \cup {t1_no_newline}
MCWithNewline == [i \in MCInputs |-> IF i = t1_no_newline THEN t1 ELSE i]

\* Lengths for which rewriting a binary HEAD can leave the size unchanged.
MCContentLen == [c \in Contents |-> IF c \in Binaries THEN 3 ELSE 2]
===============================================================================
