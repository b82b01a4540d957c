----------------------------- MODULE GreedyMatcher -----------------------------
(***************************************************************************)
(* StreamSequenceMatcher.get_opcodes, the matcher a store falls back to    *)
(* when no compiled one is found: it walks b and takes the first place of  *)
(* a, not before the cursor, where the entry at hand occurs.               *)
(*                                                                         *)
(* a and b hold the keys of the lines (or of the chunks): the checksums,   *)
(* taken to differ where the lines do.                                     *)
(***************************************************************************)
EXTENDS Opcodes

VARIABLES
  a, b,    \* a_hashes, b_hashes
  i, j,    \* a_curr, b_curr
  ops,     \* the opcodes yielded so far
  pc       \* "scan" until the loops are over, then "done"

vars == <<a, b, i, j, ops, pc>>

\* a_hash_map, from the cursor on: b's entry y occurs in a at x.
Occurs(x, y) == x \in i..(Len(a) - 1) /\ a[x + 1] = b[y + 1]

OccursFirst(x, y) == Occurs(x, y) /\ \A w \in i..(x - 1) : ~Occurs(w, y)

Missing(y) == \A x \in i..(Len(a) - 1) : ~Occurs(x, y)

\* Advancing to (x, y) and saying so.
MoveTo(x, y, said) ==
  /\ ops' = ops \o said
  /\ i' = x /\ j' = y
  /\ UNCHANGED <<a, b, pc>>

\* The entry at hand occurs: what was skipped of a is deleted, and the match runs
\* as far as the two agree.
Match ==
  /\ pc = "scan" /\ j < Len(b)
  /\ \E x \in i..(Len(a) - 1), n \in 1..Len(b) :
       /\ OccursFirst(x, j)
       /\ MatchesExactly(a, b, x, j, n)
       /\ MoveTo(x + n, j + n,
            Change(i, x, j, j) \o <<Opcode("equal", x, x + n, j, j + n)>>)

\* It does not: the next entry of b that does is where the two meet again.
Synchronise ==
  /\ pc = "scan" /\ j < Len(b) /\ Missing(j)
  /\ \E y \in (j + 1)..(Len(b) - 1), x \in i..(Len(a) - 1) :
       /\ \A z \in j..(y - 1) : Missing(z)
       /\ OccursFirst(x, y)
       /\ MoveTo(x, y, Change(i, x, j, y))

\* No entry of b that is left does.
GiveUp ==
  /\ pc = "scan" /\ j < Len(b)
  /\ \A y \in j..(Len(b) - 1) : Missing(y)
  /\ MoveTo(Len(a), Len(b), Change(i, Len(a), j, Len(b)))

\* Mutant: what is left of a is forgotten.
FinishWithoutRest ==
  /\ pc = "scan" /\ j = Len(b)
  /\ pc' = "done"
  /\ UNCHANGED <<a, b, i, j, ops>>

\* b is at its end; what is left of a is deleted.
Finish ==
  /\ pc = "scan" /\ j = Len(b)
  /\ ops' = ops \o Change(i, Len(a), j, j)
  /\ pc' = "done"
  /\ UNCHANGED <<a, b, i, j>>

Start == i = 0 /\ j = 0 /\ ops = <<>> /\ pc = "scan"

Next == Match \/ Synchronise \/ GiveUp \/ Finish

===============================================================================
