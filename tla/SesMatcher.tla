------------------------------- MODULE SesMatcher -------------------------------
(***************************************************************************)
(* The linear-space algorithm of Myers as libmba has it                    *)
(* (myersdiff_ses.py): two searches, forwards from one corner of a box and *)
(* backwards from the other, meet in a middle snake, and the boxes before  *)
(* and after it are treated alike.  The recursion is a list of work,       *)
(* leftmost first; both searches of every box write to one array.          *)
(***************************************************************************)
EXTENDS Opcodes, SequencesExt

VARIABLES
  a, b,
  work,    \* boxes to be compared and edits to be recorded
  search,  \* the search in the first box: <<>> while there is none
  buf,     \* the array V: buf[k, 0] forwards, buf[k, 1] backwards
  edits,   \* ses_results
  blocks,  \* matching_blocks: [i, j, size]
  i, j,    \* how far the opcodes come
  ops,
  pc       \* "ses", "say", "done"

vars == <<a, b, work, search, buf, edits, blocks, i, j, ops, pc>>

Box(do, aoff, n, boff, m) == [do |-> do, aoff |-> aoff, n |-> n, boff |-> boff, m |-> m]

\* A part of the work that records one edit: of a, or for "insert" of b.
Match(off, len)  == Box("match", off, len, 0, 0)
Delete(off, len) == Box("delete", off, len, 0, 0)
Insert(off, len) == Box("insert", 0, 0, off, len)

\* Wide enough for the diagonals on either side of the one on which a box ends.
Diagonals == -(2 * (Len(a) + Len(b) + 1))..(2 * (Len(a) + Len(b) + 1))

Working(do) == pc = "ses" /\ search = <<>> /\ work # <<>> /\ Head(work).do = do

\* The first piece of work becomes these.
Becomes(pieces) ==
  /\ work' = pieces \o Tail(work)
  /\ UNCHANGED <<a, b, edits, blocks, i, j, ops, pc>>

\* _edit: an edit that goes on where the last one of its kind ends is merged with it.
Recorded(do, off, len) ==
  LET last == Last(edits) IN
  IF len = 0 THEN edits
  ELSE IF edits # <<>> /\ last.do = do /\ last.off + last.len = off
  THEN Append(Front(edits), [last EXCEPT !.len = @ + len])
  ELSE Append(edits, [do |-> do, off |-> off, len |-> len])

Record ==
  /\ \E do \in {"match", "delete", "insert"} : Working(do)
  /\ LET piece == Head(work) IN
     edits' = Recorded(piece.do, piece.aoff + piece.boff, piece.n + piece.m)
  /\ work' = Tail(work)
  /\ UNCHANGED <<a, b, search, buf, blocks, i, j, ops, pc>>

\* _diff: the common prefix and suffix are matched, the rest is a box.
Trim ==
  LET p == Extent(a, b, 0, 0)
      s == Extent(Reverse(SubSeq(a, p + 1, Len(a))), Reverse(SubSeq(b, p + 1, Len(b))), 0, 0)
  IN
  /\ Working("diff")
  /\ Becomes(<<Match(0, p), Box("ses", p, Len(a) - p - s, p, Len(b) - p - s),
               Match(Len(a) - s, s)>>)
  /\ UNCHANGED <<search, buf>>

-------------------------------------------------------------------------------
(* _ses. *)

OneSided ==
  LET box == Head(work) IN
  /\ Working("ses") /\ (box.n = 0 \/ box.m = 0)
  /\ Becomes(IF box.n = 0 THEN <<Insert(box.boff, box.m)>> ELSE <<Delete(box.aoff, box.n)>>)
  /\ UNCHANGED <<search, buf>>

\* The array keeps what the searches of other boxes wrote.
StartSearch ==
  LET box == Head(work) IN
  /\ Working("ses") /\ box.n > 0 /\ box.m > 0
  /\ buf' = [buf EXCEPT ![<<1, 0>>] = 0, ![<<box.n - box.m - 1, 1>>] = box.n]
  /\ search' = [d |-> 0, k |-> 0, forward |-> TRUE]
  /\ UNCHANGED <<a, b, work, edits, blocks, i, j, ops, pc>>

\* Two snakes have met after d edits: what _ses does with the snake from (x, y) to
\* (u, v).  With one edit and no snake, the edit is taken to come first.
SplitBy(box, d, x, y, u, v) ==
  /\ Becomes(
       IF d > 1 \/ (x # u /\ y # v)
       THEN <<Box("ses", box.aoff, x, box.boff, y), Match(box.aoff + x, u - x),
              Box("ses", box.aoff + u, box.n - u, box.boff + v, box.m - v)>>
       ELSE IF box.m > box.n
       THEN <<Insert(box.boff, 1), Match(box.aoff, box.n)>>
       ELSE <<Delete(box.aoff, 1), Match(box.aoff + 1, box.m)>>)
  /\ search' = <<>>

\* The search goes on; without end it gives up, and so does all that waits for it.
NextTurn(box) ==
  LET delta == box.n - box.m
      mid == ((box.n + box.m) \div 2) + (delta % 2)
  IN
  /\ search' = IF search.k > -search.d THEN [search EXCEPT !.k = @ - 2]
               ELSE IF search.forward THEN [search EXCEPT !.forward = FALSE, !.k = search.d]
               ELSE IF search.d < mid
               THEN [d |-> search.d + 1, k |-> search.d + 1, forward |-> TRUE]
               ELSE <<>>
  /\ work' = IF search' = <<>> THEN <<>> ELSE work
  /\ UNCHANGED <<a, b, edits, blocks, i, j, ops, pc>>

\* Both sequences up to (x, y) of the box.
UpToA(box, x) == SubSeq(a, 1, box.aoff + x)
UpToB(box, y) == SubSeq(b, 1, box.boff + y)

\* How far the loops of the two searches come from (x, y), within the box.
RunAfter(box, x, y) ==
  Extent(UpToA(box, box.n), UpToB(box, box.m), box.aoff + x, box.boff + y)
RunBefore(box, x, y) ==
  IF x <= 0 \/ y <= 0 THEN 0
  ELSE Smaller(Smaller(x, y), Extent(Reverse(UpToA(box, x)), Reverse(UpToB(box, y)), 0, 0))

\* _find_middle_snake, one diagonal of the forward search.
Forward ==
  LET box == Head(work)
      d == search.d
      k == search.k
      delta == box.n - box.m
      x == IF k = -d \/ (k # d /\ buf[k - 1, 0] < buf[k + 1, 0])
           THEN buf[k + 1, 0] ELSE buf[k - 1, 0] + 1
      u == x + RunAfter(box, x, x - k)
  IN
  /\ search # <<>> /\ search.forward
  /\ buf' = [buf EXCEPT ![<<k, 0>>] = u]
  /\ IF delta % 2 = 1 /\ k \in (delta - d + 1)..(delta + d - 1) /\ u >= buf[k, 1]
     THEN SplitBy(box, 2 * d - 1, x, x - k, u, u - k)
     ELSE NextTurn(box)

\* One diagonal of the reverse search: from (u, v) back to (x, y).
Backward ==
  LET box == Head(work)
      d == search.d
      kr == box.n - box.m + search.k
      u == IF search.k = d \/ (search.k # -d /\ buf[kr - 1, 1] < buf[kr + 1, 1])
           THEN buf[kr - 1, 1] ELSE buf[kr + 1, 1] - 1
      x == u - RunBefore(box, u, u - kr)
  IN
  /\ search # <<>> /\ ~search.forward
  /\ buf' = [buf EXCEPT ![<<kr, 1>>] = x]
  /\ IF (box.n - box.m) % 2 = 0 /\ kr \in -d..d /\ x <= buf[kr, 0]
     THEN SplitBy(box, 2 * d, x, x - kr, u, u - kr)
     ELSE NextTurn(box)

-------------------------------------------------------------------------------
(* _calculate_opcodes. *)

\* How far the edits before the n-th come in b; a match is where its offset says in a.
PlaceInB(n) ==
  LET upTo[m \in 0..n] ==
        IF m = 0 THEN 0
        ELSE upTo[m - 1] + (IF edits[m].do = "delete" THEN 0 ELSE edits[m].len)
  IN upTo[n - 1]

MatchingBlocks ==
  FlattenSeq([n \in DOMAIN edits |->
    IF edits[n].do = "match"
    THEN <<[i |-> edits[n].off, j |-> PlaceInB(n), size |-> edits[n].len]>> ELSE <<>>])

Matched ==
  /\ pc = "ses" /\ work = <<>>
  /\ blocks' = Append(MatchingBlocks, [i |-> Len(a), j |-> Len(b), size |-> 0])
  /\ pc' = "say"
  /\ UNCHANGED <<a, b, work, search, buf, edits, i, j, ops>>

SayBlock ==
  /\ pc = "say" /\ blocks # <<>>
  /\ LET m == Head(blocks) IN
       /\ ops' = ops \o UpToBlock(i, j, m)
       /\ i' = m.i + m.size /\ j' = m.j + m.size
  /\ blocks' = Tail(blocks)
  /\ UNCHANGED <<a, b, work, search, buf, edits, pc>>

Finish ==
  /\ pc = "say" /\ blocks = <<>>
  /\ pc' = "done"
  /\ UNCHANGED <<a, b, work, search, buf, edits, blocks, i, j, ops>>

Start ==
  /\ work = <<Box("diff", 0, Len(a), 0, Len(b))>> /\ search = <<>>
  /\ buf = [p \in Diagonals \X {0, 1} |-> 0]
  /\ edits = <<>> /\ blocks = <<>> /\ i = 0 /\ j = 0 /\ ops = <<>>
  /\ pc = "ses"

Next ==
  \/ Trim \/ OneSided \/ StartSearch \/ Forward \/ Backward \/ Record
  \/ Matched \/ SayBlock \/ Finish
===============================================================================
