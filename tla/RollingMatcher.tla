----------------------------- MODULE RollingMatcher -----------------------------
(***************************************************************************)
(* RollingHashMatcher: a window of b slides byte by byte, its checksum is  *)
(* rolled along, and where some chunk of a has the same checksum, and the  *)
(* same bytes, that chunk is copied.  Copies may go back in a: then the    *)
(* range of a "delete" runs backwards.                                     *)
(***************************************************************************)
EXTENDS Opcodes, FiniteSets

CONSTANTS
  ChunkSize,      \* chunk_size, also the length of the window
  Base,           \* _BASE: 65521
  MaxCandidates,  \* of the chunks with one checksum, how many are tried: 20
  LongMatch,      \* a match this long ends the search: four windows
  MaxExtend       \* how far a match is extended: 1 MB

VARIABLES
  a, b,       \* the bytes
  pos,        \* i: where the window begins
  win, head,  \* the circular buffer, and where its oldest byte is
  ahead,      \* the next byte to enter it
  sums,       \* s1 and s2 of the window
  pending,    \* pending_insert_start
  oldEnd,     \* last_old_pos
  ops,
  pc          \* "start", "roll", "end"; then "emitted"

window == <<pos, win, head, ahead, sums>>
vars   == <<a, b, pos, win, head, ahead, sums, pending, oldEnd, ops, pc>>

\* zlib.adler32, as its two components.
Adler(s) ==
  LET upTo[n \in 0..Len(s)] ==
        IF n = 0 THEN <<1, 0>>
        ELSE LET s1 == (upTo[n - 1][1] + s[n]) % Base
             IN  <<s1, (upTo[n - 1][2] + s1) % Base>>
  IN upTo[Len(s)]

\* Mutant: s2 counts the 1 that every s1 begins with once more for each byte.
RolledWithOnes(out, new) ==
  LET s1 == ((sums[1] - out) + new) % Base
      s2 == (sums[2] - ((ChunkSize * out) % Base) + s1) % Base
  IN <<s1, s2>>

\* _roll_hash.
Rolled(out, new) ==
  LET s1 == ((sums[1] - out) + new) % Base
      s2 == (sums[2] - ((ChunkSize * out) % Base) + (s1 - 1)) % Base
  IN <<s1, s2>>

\* _index_file: the chunks of a with the checksum of the window, the first few.
WithHash == {n \in 0..(Len(a) \div ChunkSize) :
               /\ n * ChunkSize < Len(a)
               /\ Adler(SubSeq(a, n * ChunkSize + 1,
                               Smaller((n + 1) * ChunkSize, Len(a)))) = sums}
Candidates ==
  {n * ChunkSize : n \in {m \in WithHash :
     Cardinality({l \in WithHash : l < m}) < MaxCandidates}}

\* _verify_and_extend_match_stream.
MatchLen(x) ==
  IF ~Matches(a, b, x, pos, ChunkSize) THEN 0
  ELSE Smaller(Extent(a, b, x, pos), Larger(MaxExtend, ChunkSize))

\* The longest match, the first of the longest, looking no further than one that
\* is long enough.
Tried(x) == x \in Candidates /\ \A y \in Candidates : y < x => MatchLen(y) <= LongMatch

Best(x) ==
  /\ Tried(x) /\ MatchLen(x) > 0
  /\ \A y \in Candidates : Tried(y) =>
       MatchLen(y) < MatchLen(x) \/ (MatchLen(y) = MatchLen(x) /\ x <= y)

\* _reset_window at p; past the last whole window the search is over.
ResetWindow(p) ==
  /\ pos' = p
  /\ IF p + ChunkSize > Len(b)
     THEN pc' = "end" /\ UNCHANGED <<win, head, ahead, sums>>
     ELSE /\ win' = SubSeq(b, p + 1, p + ChunkSize) /\ head' = 1
          /\ ahead' = p + ChunkSize
          /\ sums' = Adler(win')
          /\ pc' = "roll"

Begin ==
  /\ pc = "start"
  /\ ResetWindow(0)
  /\ UNCHANGED <<a, b, pending, oldEnd, ops>>

Insert(from, to) == IF from < to THEN <<Opcode("insert", 0, 0, from, to)>> ELSE <<>>

\* Mutant: only forwards.
SkipForward(x) == IF x > oldEnd THEN <<Opcode("delete", oldEnd, x, pos, pos)>> ELSE <<>>

\* From where the last copy ended to x, in either direction.
Skip(x) == IF x # oldEnd THEN <<Opcode("delete", oldEnd, x, pos, pos)>> ELSE <<>>

\* A chunk of a is copied, from wherever it is.
Copy ==
  /\ pc = "roll"
  /\ \E x \in Candidates :
       LET n == MatchLen(x) IN
       /\ Best(x)
       /\ ops' = ops \o Insert(pending, pos) \o Skip(x)
                   \o <<Opcode("equal", x, x + n, pos, pos + n)>>
       /\ pending' = pos + n /\ oldEnd' = x + n
       /\ ResetWindow(pos + n)
  /\ UNCHANGED <<a, b>>

\* None matches: the window moves by one byte, until there is none.
Roll ==
  /\ pc = "roll" /\ \A x \in Candidates : MatchLen(x) = 0
  /\ IF ahead >= Len(b) THEN pc' = "end" /\ UNCHANGED window
     ELSE LET new == b[ahead + 1] IN
          /\ sums' = Rolled(win[head], new)
          /\ win' = [win EXCEPT ![head] = new]
          /\ head' = (head % ChunkSize) + 1
          /\ ahead' = ahead + 1 /\ pos' = pos + 1
          /\ UNCHANGED pc
  /\ UNCHANGED <<a, b, pending, oldEnd, ops>>

Finish ==
  /\ pc = "end"
  /\ ops' = ops \o Insert(pending, Len(b))
  /\ pc' = "emitted"
  /\ UNCHANGED <<a, b, window, pending, oldEnd>>

Start ==
  /\ pos = 0 /\ win = <<>> /\ head = 1 /\ ahead = 0 /\ sums = <<1, 0>>
  /\ pending = 0 /\ oldEnd = 0 /\ ops = <<>>
  /\ pc = "start"

Next == Begin \/ Copy \/ Roll \/ Finish

-------------------------------------------------------------------------------
(* Properties. *)

\* The checksum and the buffer are those of the bytes the window stands over,
\* however often it was rolled or set anew.
WindowFresh ==
  pc = "roll" =>
    LET here == SubSeq(b, pos + 1, pos + ChunkSize) IN
    /\ [n \in 1..ChunkSize |-> win[((head + n - 2) % ChunkSize) + 1]] = here
    /\ sums = Adler(here)

\* A copy is true, and begins in a where the copies and skips before it have led;
\* and b is covered without a gap.
CopiesLandRight ==
  LET led[k \in 0..Len(ops)] ==
        IF k = 0 THEN 0 ELSE led[k - 1] + ops[k].i2 - ops[k].i1
  IN \A k \in 1..Len(ops) :
       /\ ops[k].j1 = IF k = 1 THEN 0 ELSE ops[k - 1].j2
       /\ ops[k].tag = "equal" =>
            ops[k].i1 = led[k - 1] /\ Matches(a, b, ops[k].i1, ops[k].j1, ops[k].i2 - ops[k].i1)
===============================================================================
