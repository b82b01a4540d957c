-------------------------------- MODULE Blame ---------------------------------
(***************************************************************************)
(* blame(): which version each line of HEAD comes from.  The walk goes     *)
(* back over the deltas of TextDelta.tla, but reads their scripts with a   *)
(* reader and an order of its own, and applies them to a list of lines     *)
(* that it follows, not to the text.                                       *)
(*                                                                         *)
(* HEAD is version 0 here and the version n deltas behind it version n.    *)
(* While a delta is made and read, "new" is the version reached, "old" the *)
(* one before it.                                                          *)
(***************************************************************************)
EXTENDS TextDelta

CONSTANTS
  MaxDeltas,  \* bound: the deltas blame walks over
  MaxHistory  \* bound: the lines of the head and the versions before it, together

ASSUME WalkAssumption == MaxDeltas \in Nat \ {0} /\ MaxHistory \in Nat

VARIABLES
  head,     \* head_lines
  tracker,  \* the lines of the version reached: [head_index, blame]
  final,    \* final_blame, one entry for each line of head
  depth,    \* curr_depth: how far from HEAD the version reached is
  sizes     \* auxiliary: the lines of the versions met so far

blameVars == <<head, tracker, final, depth, sizes>>

None == -1

Ghost(version) == [head_index |-> None, blame |-> version]

Line(h, version) == [head_index |-> h, blame |-> version]

\* The lines of head that the walk still follows.
Followed == {tracker[p].head_index : p \in DOMAIN tracker} \ {None}

-------------------------------------------------------------------------------

\* The delta of the previous block is complete: its script is read.
StartBlame ==
  /\ pc = "diff" /\ i = Len(new) /\ j = Len(old)
  /\ script' \in {script, LegacyScript}
  /\ pc' = "blame"
  /\ UNCHANGED <<texts, i, j, reader, blameVars>>

\* A payload is skipped as far as the script goes: a short one is not mended.
BlameHeader ==
  LET header == script[next] IN
  /\ pc = "blame" /\ next <= Len(script)
  /\ \/ /\ header \in Words \ (Malformed \cup Commands)
        /\ next' = next + 1
        /\ UNCHANGED <<commands, pc>>
     \/ /\ header \in Commands
        /\ commands' = commands \cup
             {[cmd |-> header.cmd, at |-> header.at, count |-> header.count,
               order |-> Cardinality(commands)]}
        /\ next' = IF header.cmd = "d" THEN next + 1
                   ELSE Least(next + header.count, Len(script)) + 1
        /\ UNCHANGED pc
     \/ /\ header \in Malformed
        /\ pc' = "raised"
        /\ UNCHANGED <<next, commands>>
  /\ UNCHANGED <<texts, diff, lines, blameVars>>

\* The sort without the tie-break between an insertion and a deletion.
BlamedFirstWritten(c, d) == c.at > d.at \/ (c.at = d.at /\ c.order < d.order)

\* The sort is stable and its key has no third part: two insertions at one line
\* come in the order they were written, which ghosts do not show.
BlamedBefore(c, d) ==
  \/ c.at > d.at
  \/ c.at = d.at /\ c.cmd = "a" /\ d.cmd = "d"
  \/ c.at = d.at /\ c.cmd = d.cmd /\ c.order < d.order

GhostsIn(s, at, count) ==
  LET p == Least(at, Len(s)) IN
  SubSeq(s, 1, p) \o [k \in 1..count |-> Ghost(depth + 1)] \o SubSeq(s, p + 1, Len(s))

\* A line of the version reached that the one before did not have was born here.
Finalised(at, count) ==
  [h \in DOMAIN final |->
     IF \E p \in at..Least(at + count - 1, Len(tracker)) : tracker[p].head_index = h
     THEN (CHOOSE t \in ToSet(tracker) : t.head_index = h).blame
     ELSE final[h]]

BlameApply ==
  /\ pc = "blame" /\ next > Len(script)
  /\ \E c \in commands :
       /\ \A d \in commands \ {c} : ~BlamedBefore(d, c)
       /\ \/ /\ c.cmd = "d"
             /\ final' = Finalised(c.at, c.count)
             /\ tracker' = Deleted(tracker, c.at, c.count)
          \/ /\ c.cmd = "a"
             /\ tracker' = GhostsIn(tracker, c.at, c.count)
             /\ UNCHANGED final
       /\ commands' = commands \ {c}
  /\ UNCHANGED <<texts, diff, next, lines, pc, head, depth, sizes>>

\* What is left of the tracker belongs to the version before as well.
Survive ==
  /\ pc = "blame" /\ next > Len(script) /\ commands = {}
  /\ tracker' = [p \in DOMAIN tracker |-> [tracker[p] EXCEPT !.blame = depth + 1]]
  /\ depth' = depth + 1
  /\ pc' = "walk"
  /\ UNCHANGED <<texts, diff, reader, head, final, sizes>>

\* The version reached has one before it.
StepBack ==
  /\ pc = "walk" /\ depth < MaxDeltas
  /\ \E text \in Texts :
       /\ sizes + Len(text) <= MaxHistory
       /\ old' = text
       /\ sizes' = sizes + Len(text)
  /\ new' = old
  /\ i' = 0 /\ j' = 0 /\ script' = <<>> /\ next' = 1
  /\ pc' = "diff"
  /\ UNCHANGED <<commands, lines, head, tracker, final, depth>>

\* The index of the first line taken for no index.
LeftToTruthy(version) ==
  [h \in DOMAIN final |->
     IF h \in Followed \ {1} /\ final[h] = None THEN version ELSE final[h]]

\* The lines still followed are put down to one version.
LeftTo(version) ==
  [h \in DOMAIN final |->
     IF h \in Followed /\ final[h] = None THEN version ELSE final[h]]

AtBlock == pc = "walk" \/ (pc = "diff" /\ depth = 0 /\ i = 0 /\ j = 0)

\* The first version, or the depth the caller asked for.
Stop ==
  /\ AtBlock
  /\ final' = LeftTo(depth)
  /\ pc' = "blamed"
  /\ UNCHANGED <<texts, diff, reader, head, tracker, depth, sizes>>

\* A block before that is binary, or a text delta that reads as a binary one.
StopAtBinary ==
  /\ AtBlock
  /\ final' = LeftTo(depth + 1)
  /\ pc' = "blamed"
  /\ UNCHANGED <<texts, diff, reader, head, tracker, depth, sizes>>

-------------------------------------------------------------------------------

BlameInit ==
  /\ Init
  /\ head = Pieces(new)
  /\ tracker = [h \in DOMAIN head |-> Line(h, 0)]
  /\ final = [h \in DOMAIN head |-> None]
  /\ depth = 0
  /\ sizes = Len(new) + Len(old)

\* checkout applies the delta of HEAD; blame walks over any number of them.
BlameNext ==
  \/ Next /\ (pc' # "read" \/ depth = 0) /\ UNCHANGED blameVars
  \/ StartBlame \/ BlameHeader \/ BlameApply \/ Survive
  \/ StepBack \/ Stop \/ StopAtBinary

BlameSpec == BlameInit /\ [][BlameNext]_<<vars, blameVars>>

-------------------------------------------------------------------------------
(* Properties. *)

\* After each delta the tracker is the older version line for line: a line of head
\* that is still followed stands where that version has the same line, the lines
\* keep their order, and one that is not followed any more has its answer.
TrackerMirrors ==
  pc = "walk" =>
    /\ Len(tracker) = Len(Pieces(old))
    /\ \A p \in DOMAIN tracker : LET h == tracker[p].head_index IN
         h # None => head[h].word = Pieces(old)[p].word
    /\ \A p, q \in DOMAIN tracker :
         p < q /\ None \notin {tracker[p].head_index, tracker[q].head_index}
           => tracker[p].head_index < tracker[q].head_index
    /\ \A h \in DOMAIN head : (h \in Followed) <=> (final[h] = None)

\* blame() answers for every line of head, with a version it has been to: the
\* fallback for a line without an answer "should not happen".
EveryLineAnswered ==
  pc = "blamed" => \A h \in DOMAIN head : final[h] \in 0..(depth + 1)
===============================================================================
