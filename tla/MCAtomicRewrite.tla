--------------------------- MODULE MCAtomicRewrite ----------------------------
(***************************************************************************)
(* AtomicRewrite with rewrites that leave the size of the file unchanged.  *)
(***************************************************************************)
EXTENDS AtomicRewrite

\* The header alone, then files that all have the same size.
MCSizeOf == [n \in Updates |-> IF n = 0 THEN 1 ELSE 2]

MCTorn == -1
===============================================================================
