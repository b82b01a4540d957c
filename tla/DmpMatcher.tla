------------------------------- MODULE DmpMatcher -------------------------------
(***************************************************************************)
(* The divide and conquer of diff-match-patch (myersdiff_dmp.py): a box of *)
(* both sequences is trimmed, looked at for the easy cases, or split where *)
(* a search from its two corners meets.  The recursion is a list of work,  *)
(* leftmost first, as _diff_main concatenates what its calls return.       *)
(***************************************************************************)
EXTENDS Opcodes

VARIABLES
  a, b,    \* the two sequences
  work,    \* boxes still to be compared, and what is said between them
  search,  \* the search in the first box: <<>> while there is none
  i, j,    \* how far what has been said comes
  list,    \* opcodes_list
  ops,     \* merged_opcodes
  pc       \* "divide", then "merge", then "done"

vars == <<a, b, work, search, i, j, list, ops, pc>>

Box(do, aoff, alen, boff, blen) ==
  [do |-> do, aoff |-> aoff, alen |-> alen, boff |-> boff, blen |-> blen]

\* What a call returns of a range: the tag and the part of a, or of b.
Say(tag, aoff, alen, boff, blen) ==
  IF alen = 0 /\ blen = 0 THEN <<>> ELSE <<Box(tag, aoff, alen, boff, blen)>>

InA(box) == SubSeq(a, box.aoff + 1, box.aoff + box.alen)
InB(box) == SubSeq(b, box.boff + 1, box.boff + box.blen)

\* A range as the loops that compare from its end read it.
Reverse(s) == [n \in 1..Len(s) |-> s[(Len(s) - n) + 1]]

Deleted(box)  == Say("delete", box.aoff, box.alen, box.boff, 0)
Inserted(box) == Say("insert", box.aoff + box.alen, 0, box.boff, box.blen)

Working(do) == pc = "divide" /\ search = <<>> /\ work # <<>> /\ Head(work).do = do

\* The first piece of work becomes these.
Becomes(pieces) ==
  /\ work' = pieces \o Tail(work)
  /\ UNCHANGED <<a, b, i, j, list, ops, pc>>

-------------------------------------------------------------------------------
(* _diff_main: the easy boxes, and the ends two sequences have in common. *)

Trim ==
  LET box == Head(work)
      p == Extent(InA(box), InB(box), 0, 0)
      s == Extent(Reverse(SubSeq(InA(box), p + 1, box.alen)),
                  Reverse(SubSeq(InB(box), p + 1, box.blen)), 0, 0)
      prefix == Say("equal", box.aoff, p, box.boff, p)
      middle == Box("compute", box.aoff + p, box.alen - p - s,
                               box.boff + p, box.blen - p - s)
      suffix == Say("equal", box.aoff + box.alen - s, s, box.boff + box.blen - s, s)
  IN
  /\ Working("main")
  /\ Becomes(IF box.alen = 0 THEN Inserted(box)
             ELSE IF box.blen = 0 THEN Deleted(box)
             ELSE IF InA(box) = InB(box)
                  THEN Say("equal", box.aoff, box.alen, box.boff, box.blen)
             ELSE prefix \o <<middle>> \o suffix)
  /\ UNCHANGED search

-------------------------------------------------------------------------------
(* _diff_compute. *)

\* Where the shorter one first occurs in the longer one, if it does.
FirstOccurrence(long, short) ==
  {n \in 0..(Len(long) - Len(short)) :
     /\ Matches(long, short, n, 0, Len(short))
     /\ \A m \in 0..(n - 1) : ~Matches(long, short, m, 0, Len(short))}

\* The shorter one within the longer: what stands before and after it is said.
Within(box, n) ==
  LET tag == IF box.alen > box.blen THEN "delete" ELSE "insert"
      da == IF tag = "delete" THEN 1 ELSE 0
      db == 1 - da
      size == Smaller(box.alen, box.blen)
      rest == Larger(box.alen, box.blen) - n - size
  IN Say(tag, box.aoff, n * da, box.boff, n * db)
     \o Say("equal", box.aoff + n * da, size, box.boff + n * db, size)
     \o Say(tag, box.aoff + n * da + size, rest * da, box.boff + n * db + size, rest * db)

Bound(box) == (box.alen + box.blen + 1) \div 2

\* A search that is at diagonal k of the d-th edit, in one of the two directions.
Search(v1, v2, d, k, forward) ==
  [v1 |-> v1, v2 |-> v2, d |-> d, k |-> k, forward |-> forward]

StartSearch(box) ==
  LET v == [n \in 0..(2 * Bound(box) - 1) |-> IF n = Bound(box) + 1 THEN 0 ELSE -1]
  IN Search(v, v, 0, 0, TRUE)

Compute ==
  LET box == Head(work)
      found == IF box.alen > box.blen THEN FirstOccurrence(InA(box), InB(box))
               ELSE FirstOccurrence(InB(box), InA(box))
  IN
  /\ Working("compute")
  /\ \/ /\ box.alen = 0 \/ box.blen = 0
        /\ Becomes(Deleted(box) \o Inserted(box))
        /\ UNCHANGED search
     \/ /\ box.alen > 0 /\ box.blen > 0
        /\ \E n \in found : Becomes(Within(box, n))
        /\ UNCHANGED search
     \/ /\ box.alen > 0 /\ box.blen > 0 /\ found = {}
        /\ Smaller(box.alen, box.blen) = 1
        /\ Becomes(Deleted(box) \o Inserted(box))
        /\ UNCHANGED search
     \/ /\ box.alen > 1 /\ box.blen > 1 /\ found = {}
        /\ search' = StartSearch(box)
        /\ UNCHANGED <<a, b, work, i, j, list, ops, pc>>

-------------------------------------------------------------------------------
(* _diff_bisect. *)

\* Where one more edit leads on diagonal k, and the run of equals after it.
Furthest(v, off, k, d, s, t) ==
  LET x == IF k = -d \/ (k # d /\ v[off + k - 1] < v[off + k + 1])
           THEN v[off + k + 1] ELSE v[off + k - 1] + 1
  IN x + Extent(s, t, x, x - k)

\* The turn after this one: the other direction, then one edit more.
NextTurn(s, v1, v2) ==
  IF s.k < s.d THEN Search(v1, v2, s.d, s.k + 2, s.forward)
  ELSE IF s.forward THEN Search(v1, v2, s.d, -s.d, FALSE)
  ELSE Search(v1, v2, s.d + 1, -(s.d + 1), TRUE)

\* Mutant: the second half begins as far into b as into a.
SplitOnDiagonal(box, x, y) ==
  /\ Becomes(<<Box("main", box.aoff, x, box.boff, y),
               Box("main", box.aoff + x, box.alen - x, box.boff + x, box.blen - y)>>)
  /\ search' = <<>>

\* _diff_bisect_split at (x, y) of the box.
SplitAt(box, x, y) ==
  /\ Becomes(<<Box("main", box.aoff, x, box.boff, y),
               Box("main", box.aoff + x, box.alen - x, box.boff + y, box.blen - y)>>)
  /\ search' = <<>>

Bisect ==
  LET box   == Head(work)
      off   == Bound(box)
      delta == box.alen - box.blen
      odd   == delta % 2 # 0
      other == off + delta - search.k
  IN
  /\ search # <<>> /\ search.d < off
  /\ IF search.forward
     THEN LET x == Furthest(search.v1, off, search.k, search.d, InA(box), InB(box)) IN
          IF odd /\ other \in DOMAIN search.v2 /\ search.v2[other] # -1
                 /\ x >= box.alen - search.v2[other]
          THEN SplitAt(box, x, x - search.k)
          ELSE /\ search' = NextTurn(search, [search.v1 EXCEPT ![off + search.k] = x], search.v2)
               /\ UNCHANGED <<a, b, work, i, j, list, ops, pc>>
     ELSE LET x == Furthest(search.v2, off, search.k, search.d,
                            Reverse(InA(box)), Reverse(InB(box))) IN
          IF ~odd /\ other \in DOMAIN search.v1 /\ search.v1[other] # -1
                  /\ search.v1[other] >= box.alen - x
          THEN SplitAt(box, search.v1[other], off + search.v1[other] - other)
          ELSE /\ search' = NextTurn(search, search.v1, [search.v2 EXCEPT ![off + search.k] = x])
               /\ UNCHANGED <<a, b, work, i, j, list, ops, pc>>

\* The two directions have not met: the box has nothing in common.
NeverMet ==
  /\ search # <<>> /\ search.d = Bound(Head(work))
  /\ Becomes(Deleted(Head(work)) \o Inserted(Head(work)))
  /\ search' = <<>>

-------------------------------------------------------------------------------
(* get_opcodes: the pieces become opcodes, then a deletion and the insertion *)
(* after it become a replacement.                                           *)

Translate ==
  LET piece == Head(work)
      n == IF piece.do = "insert" THEN 0 ELSE piece.alen
      m == IF piece.do = "delete" THEN 0
           ELSE IF piece.do = "equal" THEN piece.alen ELSE piece.blen
  IN
  /\ \E tag \in {"equal", "delete", "insert"} : Working(tag)
  /\ list' = Append(list, Opcode(piece.do, i, i + n, j, j + m))
  /\ i' = i + n /\ j' = j + m
  /\ work' = Tail(work)
  /\ UNCHANGED <<a, b, search, ops, pc>>

Divided ==
  /\ pc = "divide" /\ work = <<>>
  /\ pc' = "merge"
  /\ UNCHANGED <<a, b, work, search, i, j, list, ops>>

Merge ==
  /\ pc = "merge" /\ list # <<>>
  /\ IF Len(list) > 1 /\ list[1].tag = "delete" /\ list[2].tag = "insert"
     THEN /\ ops' = Append(ops, Opcode("replace", list[1].i1, list[1].i2,
                                                  list[2].j1, list[2].j2))
          /\ list' = Tail(Tail(list))
     ELSE ops' = Append(ops, list[1]) /\ list' = Tail(list)
  /\ UNCHANGED <<a, b, work, search, i, j, pc>>

Finish ==
  /\ pc = "merge" /\ list = <<>>
  /\ pc' = "done"
  /\ UNCHANGED <<a, b, work, search, i, j, list, ops>>

Start ==
  /\ work = <<Box("main", 0, Len(a), 0, Len(b))>> /\ search = <<>>
  /\ i = 0 /\ j = 0 /\ list = <<>> /\ ops = <<>>
  /\ pc = "divide"

Next == Trim \/ Compute \/ Bisect \/ NeverMet \/ Translate \/ Divided \/ Merge \/ Finish

-------------------------------------------------------------------------------
(* Properties. *)

\* What is left to do covers what is left of both sequences, piece by piece and
\* in order, wherever a search has cut a box in two.
WorkTiles ==
  pc = "divide" =>
    /\ \A n \in DOMAIN work :
         /\ work[n].alen >= 0 /\ work[n].blen >= 0
         /\ work[n].aoff = IF n = 1 THEN i ELSE work[n - 1].aoff + work[n - 1].alen
         /\ work[n].boff = IF n = 1 THEN j ELSE work[n - 1].boff + work[n - 1].blen
    /\ work # <<>> => LET box == work[Len(work)]
                      IN box.aoff + box.alen = Len(a) /\ box.boff + box.blen = Len(b)
===============================================================================
