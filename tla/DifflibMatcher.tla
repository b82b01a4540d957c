----------------------------- MODULE DifflibMatcher -----------------------------
(***************************************************************************)
(* StreamTextSequenceMatcher: the algorithm of Python's difflib over the   *)
(* checksums of lines.  The longest match of a box is taken, then those of *)
(* the boxes before and after it; no caller names junk.                    *)
(***************************************************************************)
EXTENDS Opcodes, SequencesExt

CONSTANTS
  PopularFrom,  \* a b of this length has popular lines: 200
  PopularShare  \* a line is popular if more than this share of b is: 100

VARIABLES
  a, b,
  queue,    \* the boxes [alo, ahi, blo, bhi] to look at, the next one last
  found,    \* the matches: blocks [i, j, size] that are not sorted yet
  blocks,   \* those that are: matching_blocks
  i, j,     \* how far the opcodes come
  ops,
  pc        \* "match", "say", "done"

vars == <<a, b, queue, found, blocks, i, j, ops, pc>>

Region(alo, ahi, blo, bhi) == [alo |-> alo, ahi |-> ahi, blo |-> blo, bhi |-> bhi]
Block(x, y, n) == [i |-> x, j |-> y, size |-> n]

\* __chain_b: the lines that are left out of b2j.
Popular ==
  {y \in 1..Len(b) :
     /\ Len(b) >= PopularFrom
     /\ Cardinality({z \in 1..Len(b) : b[z] = b[y]}) > Len(b) \div PopularShare + 1}

\* The runs of a region that hold no popular line.
Runs(r) ==
  LET popular == Popular IN
  {m \in [i : r.alo..(r.ahi - 1), j : r.blo..(r.bhi - 1), size : 1..(r.bhi - r.blo)] :
     /\ m.i + m.size <= r.ahi /\ m.j + m.size <= r.bhi
     /\ Matches(a, b, m.i, m.j, m.size)
     /\ \A n \in 1..m.size : m.j + n \notin popular}

\* A longer run is better; of runs as long, the first in a, then the first in b.
Better(m, n) ==
  \/ m.size > n.size
  \/ m.size = n.size /\ (m.i < n.i \/ (m.i = n.i /\ m.j < n.j))

\* A run grows at both its ends as long as the lines, popular or not, agree.
Grown(m, r) ==
  LET left == Extent(Reverse(SubSeq(a, r.alo + 1, m.i)), Reverse(SubSeq(b, r.blo + 1, m.j)), 0, 0)
      right == Extent(SubSeq(a, m.i + m.size + 1, r.ahi), SubSeq(b, m.j + m.size + 1, r.bhi), 0, 0)
  IN Block(m.i - left, m.j - left, left + m.size + right)

\* find_longest_match: what the best run grows to, as a set of one.
LongestMatch(r) ==
  LET runs == Runs(r)
      best == IF runs = {} THEN {Block(r.alo, r.blo, 0)}
              ELSE {m \in runs : \A n \in runs \ {m} : Better(m, n)}
  IN {Grown(m, r) : m \in best}

Before(m, r) ==
  IF r.alo < m.i /\ r.blo < m.j THEN <<Region(r.alo, m.i, r.blo, m.j)>> ELSE <<>>

After(m, r) ==
  IF m.i + m.size < r.ahi /\ m.j + m.size < r.bhi
  THEN <<Region(m.i + m.size, r.ahi, m.j + m.size, r.bhi)>> ELSE <<>>

\* get_matching_blocks: one turn of the loop.
LookAt ==
  LET r == Last(queue) IN
  /\ pc = "match" /\ queue # <<>>
  /\ \E m \in LongestMatch(r) :
       \/ m.size = 0 /\ queue' = Front(queue) /\ UNCHANGED found
       \/ /\ m.size > 0
          /\ queue' = Front(queue) \o Before(m, r) \o After(m, r)
          /\ found' = found \cup {m}
  /\ UNCHANGED <<a, b, blocks, i, j, ops, pc>>

Touches(m, n) == m.i + m.size = n.i /\ m.j + m.size = n.j

\* The matches are sorted, and those that touch become one: what becomes of the first
\* of those that are left.
Collapse ==
  /\ pc = "match" /\ queue = <<>>
  /\ \E m \in found :
       /\ \A n \in found : m.i <= n.i
       /\ found' = found \ {m}
       /\ blocks' = IF blocks # <<>> /\ Touches(Last(blocks), m)
                    THEN Append(Front(blocks), Block(Last(blocks).i, Last(blocks).j,
                                                     Last(blocks).size + m.size))
                    ELSE Append(blocks, m)
  /\ UNCHANGED <<a, b, queue, i, j, ops, pc>>

\* A last block, of no line, ends both texts.
AllMatched ==
  /\ pc = "match" /\ queue = <<>> /\ found = {}
  /\ blocks' = Append(blocks, Block(Len(a), Len(b), 0))
  /\ pc' = "say"
  /\ UNCHANGED <<a, b, queue, found, i, j, ops>>

\* get_opcodes: what is before the next block, and the block.
SayBlock ==
  /\ pc = "say" /\ blocks # <<>>
  /\ LET m == Head(blocks) IN
       /\ ops' = ops \o UpToBlock(i, j, m)
       /\ i' = m.i + m.size /\ j' = m.j + m.size
  /\ blocks' = Tail(blocks)
  /\ UNCHANGED <<a, b, queue, found, pc>>

Finish ==
  /\ pc = "say" /\ blocks = <<>>
  /\ pc' = "done"
  /\ UNCHANGED <<a, b, queue, found, blocks, i, j, ops>>

Start ==
  /\ queue = <<Region(0, Len(a), 0, Len(b))>> /\ found = {} /\ blocks = <<>>
  /\ i = 0 /\ j = 0 /\ ops = <<>>
  /\ pc = "match"

Next == LookAt \/ Collapse \/ AllMatched \/ SayBlock \/ Finish

===============================================================================
