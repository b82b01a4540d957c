------------------------------ MODULE ChunkMatcher ------------------------------
(***************************************************************************)
(* StreamSequenceMatcher over chunks of bytes, as the binary delta uses    *)
(* it: the greedy walk compares whole chunks, its opcodes are put in byte  *)
(* offsets, and what it says is replaced is compared again byte by byte    *)
(* (_refine_greedy), by anchors or, for small blocks, by difflib.          *)
(***************************************************************************)
EXTENDS Opcodes

CONSTANTS
  ChunkSize,    \* chunk_size
  BaseMatch,    \* BASE_MIN_MATCH: 24
  LeastMatch,   \* the least minimum match: 12
  LeastAnchor,  \* an anchor below is not reliable: 8
  AnchorShare,  \* the share of what remains that an anchor takes: 64
  LeastWindow, MostWindow  \* the bounds of MAX_SEARCH_DISTANCE: 64 KB and 1 MB

VARIABLES
  a, b,    \* the bytes
  i, j,    \* in the walk, chunks; then the bytes that have been refined
  coarse,  \* opcodes over chunks that are still to be emitted
  block,   \* the replaced ranges at hand, in bytes
  ops,     \* opcodes over bytes
  pc       \* the walk: "scan", "done"; then "anchor" or "fine" within a block; "emitted"

vars == <<a, b, i, j, coarse, block, ops, pc>>

\* What _index_stream reads from a stream.
Chunks(s) ==
  [n \in 1..((Len(s) + ChunkSize - 1) \div ChunkSize) |->
     SubSeq(s, (n - 1) * ChunkSize + 1, Smaller(n * ChunkSize, Len(s)))]

\* Mutant: past the last chunk, where one more would begin.
UnclampedByteOffset(s, index) == index * ChunkSize

\* _get_byte_offset: past the last chunk, the end of the stream.
ByteOffset(s, index) == Smaller(index * ChunkSize, Len(s))

Coarse == INSTANCE GreedyMatcher WITH a <- Chunks(a), b <- Chunks(b), ops <- coarse

Walk == UNCHANGED <<a, b, block, ops>> /\ Coarse!Next

InBytes(op) ==
  Opcode(op.tag, ByteOffset(a, op.i1), ByteOffset(a, op.i2),
                 ByteOffset(b, op.j1), ByteOffset(b, op.j2))

\* _emit_opcodes; a replaced block is small if either side is.
Emit ==
  LET op == InBytes(Head(coarse)) IN
  /\ pc = "done" /\ coarse # <<>>
  /\ coarse' = Tail(coarse)
  /\ IF op.tag = "replace"
     THEN /\ block' = op /\ i' = op.i1 /\ j' = op.j1
          /\ pc' = IF op.i2 - op.i1 <= BaseMatch \/ op.j2 - op.j1 <= BaseMatch
                   THEN "fine" ELSE "anchor"
          /\ UNCHANGED ops
     ELSE ops' = Append(ops, op) /\ UNCHANGED <<i, j, block, pc>>
  /\ UNCHANGED <<a, b>>

-------------------------------------------------------------------------------
(* _refine_greedy.  i and j are where it stands, block.i2 and block.j2 its end. *)

\* Saying so of the ranges up to (x, y), and going on there.
Refined(x, y, said) ==
  /\ ops' = ops \o said
  /\ i' = x /\ j' = y
  /\ UNCHANGED <<a, b, coarse, block, pc>>

\* What was said last of this block.
LastSaid ==
  IF i = block.i1 /\ j = block.j1 THEN "nothing"
  ELSE IF ops[Len(ops)].tag = "equal" THEN "equal" ELSE "change"

\* difflib: opcodes over the block, in order, equal ones and others by turns.
DifflibSays ==
  /\ pc = "fine"
  /\ \E x \in i..block.i2, y \in j..block.j2 :
       \/ /\ LastSaid # "equal"
          /\ x > i /\ x - i = y - j /\ Matches(a, b, i, j, x - i)
          /\ Refined(x, y, <<Opcode("equal", i, x, j, y)>>)
       \/ /\ LastSaid # "change"
          /\ x > i \/ y > j
          /\ \/ x = block.i2 /\ y = block.j2
             \/ x < block.i2 /\ y < block.j2 /\ a[x + 1] = b[y + 1]
          /\ Refined(x, y, Change(i, x, j, y))

LeftInA == block.i2 - i
LeftInB == block.j2 - j
Remaining == Smaller(LeftInA, LeftInB)

MinMatch   == Larger(LeastMatch, Smaller(BaseMatch, Remaining \div AnchorShare))
AnchorInB  == Smaller(MinMatch, LeftInB)
AnchorInA  == Smaller(MinMatch, LeftInA)

SearchDistance ==
  Smaller(MostWindow,
    Larger(LeastWindow, Smaller(block.i2 - block.i1, block.j2 - block.j1)))

\* bytes.find: the first place from..to of s that holds n bytes of t from y on.
Find(s, t, from, to, y, n) ==
  {x \in from..(to - n) :
     Matches(s, t, x, y, n) /\ \A w \in from..(x - 1) : ~Matches(s, t, w, y, n)}

FoundInA == Find(a, b, i, Smaller(block.i2, i + SearchDistance), j, AnchorInB)
FoundInB == IF AnchorInA < MinMatch \div 2 THEN {}
            ELSE Find(b, a, j, Smaller(block.j2, j + SearchDistance), i, AnchorInA)

Anchoring == pc = "anchor" /\ Remaining > 0 /\ AnchorInB >= LeastAnchor

\* How far a match at (x, y) reaches within the block.
Reach(x, y) ==
  Extent(SubSeq(a, 1, block.i2), SubSeq(b, 1, block.j2), x, y)

\* The anchor of b is found in a: the gap of a is deleted.
AnchorBInA ==
  /\ Anchoring
  /\ \E x \in FoundInA :
       LET n == Reach(x, j) IN
       Refined(x + n, j + n, Change(i, x, j, j) \o <<Opcode("equal", x, x + n, j, j + n)>>)

\* It is not, and the anchor of a is found in b: the gap of b, which may be empty,
\* is inserted.
AnchorAInB ==
  /\ Anchoring /\ FoundInA = {}
  /\ \E y \in FoundInB :
       LET n == Reach(i, y) IN
       Refined(i + n, y + n,
         <<Opcode("insert", i, i, j, y), Opcode("equal", i, i + n, y, y + n)>>)

\* Mutant: the step is not bounded from below.
QuarterStep == Remaining \div 4

Step == Smaller(Remaining, Larger(MinMatch, Remaining \div 4))

\* Neither is found: a step of both is replaced.
ReplaceStep ==
  /\ Anchoring /\ FoundInA = {} /\ FoundInB = {}
  /\ Refined(i + Step, j + Step, Change(i, i + Step, j, j + Step))

\* What remains of a block that no anchor can be taken from.
BlockDone ==
  /\ \/ pc = "anchor" /\ ~Anchoring
     \/ pc = "fine" /\ LeftInA = 0 /\ LeftInB = 0
  /\ ops' = ops \o Change(i, block.i2, j, block.j2)
  /\ i' = block.i2 /\ j' = block.j2
  /\ pc' = "done"
  /\ UNCHANGED <<a, b, coarse, block>>

Finish ==
  /\ pc = "done" /\ coarse = <<>>
  /\ pc' = "emitted"
  /\ UNCHANGED <<a, b, i, j, coarse, block, ops>>

Start ==
  /\ i = 0 /\ j = 0 /\ coarse = <<>> /\ ops = <<>>
  /\ block = <<>>
  /\ pc = "scan"

Next ==
  \/ Walk \/ Emit \/ DifflibSays
  \/ AnchorBInA \/ AnchorAInB \/ ReplaceStep \/ BlockDone
  \/ Finish
===============================================================================
