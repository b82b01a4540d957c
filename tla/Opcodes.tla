-------------------------------- MODULE Opcodes --------------------------------
(***************************************************************************)
(* What a matcher says of two sequences: opcodes over ranges of a and of   *)
(* b, as difflib writes them.  Ranges are half open and count from 0, so   *)
(* the range (i1, i2) of a holds a[i1 + 1], ..., a[i2].                    *)
(***************************************************************************)
EXTENDS Integers, Sequences

Smaller(m, n) == IF m < n THEN m ELSE n
Larger(m, n)  == IF m < n THEN n ELSE m

Opcode(tag, i1, i2, j1, j2) ==
  [tag |-> tag, i1 |-> i1, i2 |-> i2, j1 |-> j1, j2 |-> j2]

\* The opcode that is not "equal" over two ranges: none when both are empty.
Change(i1, i2, j1, j2) ==
  IF i1 < i2 /\ j1 < j2 THEN <<Opcode("replace", i1, i2, j1, j2)>>
  ELSE IF i1 < i2 THEN <<Opcode("delete", i1, i2, j1, j2)>>
  ELSE IF j1 < j2 THEN <<Opcode("insert", i1, i2, j1, j2)>>
  ELSE <<>>

\* What is said of (i, j) up to a matching block and of the block itself.
UpToBlock(i, j, m) ==
  Change(i, m.i, j, m.j)
    \o (IF m.size = 0 THEN <<>>
        ELSE <<Opcode("equal", m.i, m.i + m.size, m.j, m.j + m.size)>>)

\* The n entries of a from x on are those of b from y on.
Matches(a, b, x, y, n) ==
  /\ x + n <= Len(a) /\ y + n <= Len(b)
  /\ \A k \in 1..n : a[x + k] = b[y + k]

\* They are, and the next ones, if there are any, differ.
MatchesExactly(a, b, x, y, n) ==
  /\ Matches(a, b, x, y, n)
  /\ x + n < Len(a) /\ y + n < Len(b) => a[x + n + 1] # b[y + n + 1]

\* How far a loop comes that advances both as long as they agree.
Extent(a, b, x, y) ==
  IF x > Len(a) \/ y > Len(b) THEN 0
  ELSE CHOOSE n \in 0..Smaller(Len(a) - x, Len(b) - y) : MatchesExactly(a, b, x, y, n)

-------------------------------------------------------------------------------
(* What whoever reads opcodes relies on. *)

\* One opcode says what is so of two ranges that exist.
OpcodeTrue(op, a, b) ==
  /\ 0 <= op.i1 /\ op.i1 <= op.i2 /\ op.i2 <= Len(a)
  /\ 0 <= op.j1 /\ op.j1 <= op.j2 /\ op.j2 <= Len(b)
  /\ op.tag \in {"equal", "replace"} => op.i1 < op.i2 /\ op.j1 < op.j2
  /\ op.tag = "delete" => op.i1 < op.i2 /\ op.j1 = op.j2
  /\ op.tag = "insert" => op.i1 = op.i2
  /\ op.tag = "equal" =>
       op.i2 - op.i1 = op.j2 - op.j1 /\ Matches(a, b, op.i1, op.j1, op.i2 - op.i1)

\* They leave no gap and never go back, in either text.
InOrder(ops) ==
  \A k \in 1..Len(ops) :
    /\ ops[k].i1 = IF k = 1 THEN 0 ELSE ops[k - 1].i2
    /\ ops[k].j1 = IF k = 1 THEN 0 ELSE ops[k - 1].j2

\* Where they have come to.
ReachedInA(ops) == IF ops = <<>> THEN 0 ELSE ops[Len(ops)].i2
ReachedInB(ops) == IF ops = <<>> THEN 0 ELSE ops[Len(ops)].j2

Legal(ops, a, b) == InOrder(ops) /\ \A k \in 1..Len(ops) : OpcodeTrue(ops[k], a, b)

Covers(ops, a, b) == ReachedInA(ops) = Len(a) /\ ReachedInB(ops) = Len(b)

\* Each says something.
NoneEmpty(ops) == \A k \in 1..Len(ops) : ops[k].i1 < ops[k].i2 \/ ops[k].j1 < ops[k].j2

\* How many entries are deleted and inserted.
EditsOf(ops) ==
  LET upTo[k \in 0..Len(ops)] ==
        IF k = 0 THEN 0
        ELSE upTo[k - 1] + (IF ops[k].tag = "equal" THEN 0
                            ELSE ops[k].i2 - ops[k].i1 + ops[k].j2 - ops[k].j1)
  IN upTo[Len(ops)]

\* The least number of edits that turn the first of a into the first of b, however many
\* of both are taken, by its recurrence.
EditDistances(a, b) ==
  LET D[taken \in (0..Len(a)) \X (0..Len(b))] ==
        LET i == taken[1]
            j == taken[2]
        IN IF i = 0 THEN j ELSE IF j = 0 THEN i
           ELSE IF a[i] = b[j] THEN D[<<i - 1, j - 1>>]
           ELSE 1 + Smaller(D[<<i - 1, j>>], D[<<i, j - 1>>])
  IN D

LeastEdits(a, b) == EditDistances(a, b)[<<Len(a), Len(b)>>]
===============================================================================
