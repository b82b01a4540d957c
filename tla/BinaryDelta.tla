------------------------------ MODULE BinaryDelta -------------------------------
(***************************************************************************)
(* pybsdiff: diff() turns the opcodes of a matcher into the three blocks   *)
(* of a BSDIFF40 patch, _optimize_patch rewrites them, and patch() reads   *)
(* the patch over the old bytes.  bz2 gives back what it was given.        *)
(***************************************************************************)
EXTENDS Opcodes

CONSTANTS
  Byte,      \* how many values a byte has: 256
  OffWidth,  \* how many bytes an offset takes: 8
  MinMerge   \* an overlap is merged if it is longer: 8

VARIABLES
  a, b,      \* the old and the new bytes
  ops,       \* the opcodes of a matcher
  taken,     \* how many of them have been read
  current,   \* the tuple being gathered: its diff bytes, extra bytes and seek
  ctrl, diff, extra,  \* the blocks being read (by the optimiser, or by patch())
  out,       \* the blocks being written: [ctrl, diff, extra]
  oldPos,    \* old_pos
  made,      \* new_data, up to new_pos
  pc

blocks == <<ctrl, diff, extra>>
vars   == <<a, b, ops, taken, current, ctrl, diff, extra, out, oldPos, made, pc>>

Nothing == [diff |-> <<>>, extra |-> <<>>, seek |-> 0]

Empty == [ctrl |-> <<>>, diff |-> <<>>, extra |-> <<>>]

Tuple(d, e, s) == [diff |-> d, extra |-> e, seek |-> s]

\* The difference of bytes, and what undoes it.
Minus(new, old) == [n \in DOMAIN new |-> (new[n] - old[n]) % Byte]
Plus(old, delta) == [n \in DOMAIN delta |-> (old[n] + delta[n]) % Byte]

Bytes(s, from, to) == SubSeq(s, from + 1, Smaller(to, Len(s)))

-------------------------------------------------------------------------------
(* diff(): the first pass. *)

\* The blocks with the current tuple written to them.
WithTuple(o, c) ==
  [ctrl |-> Append(o.ctrl, Tuple(Len(c.diff), Len(c.extra), c.seek)),
   diff |-> o.diff \o c.diff, extra |-> o.extra \o c.extra]

\* Mutant: a seek that has been gathered is not written before the bytes after it.
FlushForExtra(op, c) == op.tag \in {"equal", "replace"} /\ c.extra # <<>>

\* Within one tuple the order is diff, extra, seek: what comes out of that order
\* begins a new tuple.
MustFlush(op, c) ==
  \/ op.tag \in {"equal", "replace"} /\ (c.extra # <<>> \/ c.seek # 0)
  \/ op.tag = "insert" /\ c.seek # 0

Gathered(op, c) ==
  LET olds == Bytes(a, op.i1, op.i2)
      news == Bytes(b, op.j1, op.j2)
      both == Smaller(op.i2 - op.i1, op.j2 - op.j1)
  IN CASE op.tag = "equal" ->
            [c EXCEPT !.diff = @ \o [n \in 1..(op.i2 - op.i1) |-> 0]]
       [] op.tag = "replace" ->
            [c EXCEPT !.diff = @ \o Minus(SubSeq(news, 1, both), SubSeq(olds, 1, both)),
                      !.extra = @ \o SubSeq(news, both + 1, Len(news)),
                      !.seek = @ + (op.i2 - op.i1 - both)]
       [] op.tag = "insert" -> [c EXCEPT !.extra = @ \o news]
       [] op.tag = "delete" -> [c EXCEPT !.seek = @ + (op.i2 - op.i1)]

ReadOpcode ==
  /\ pc = "emitted" /\ taken < Len(ops)
  /\ taken' = taken + 1
  /\ LET op == ops[taken + 1] IN
       /\ out' = IF MustFlush(op, current) THEN WithTuple(out, current) ELSE out
       /\ current' = Gathered(op, IF MustFlush(op, current) THEN Nothing ELSE current)
  /\ UNCHANGED <<a, b, ops, blocks, oldPos, made, pc>>

\* The final flush; the optimiser reads what was written.
FlushLast ==
  /\ pc = "emitted" /\ taken = Len(ops)
  /\ LET o == IF current = Nothing THEN out ELSE WithTuple(out, current) IN
       ctrl' = o.ctrl /\ diff' = o.diff /\ extra' = o.extra
  /\ current' = Nothing /\ out' = Empty
  /\ oldPos' = 0
  /\ pc' = "optimise"
  /\ UNCHANGED <<a, b, ops, taken, made>>

-------------------------------------------------------------------------------
(* _optimize_patch. *)

\* Mutant: what is merged is written among the diff bytes and inserted as well.
MergedTwice(t, n) == Tuple(t.diff + n, t.extra, t.seek - n)

\* A tuple of which n bytes are written over what it would skip.
MergedTuple(t, n) == Tuple(t.diff + n, t.extra - n, t.seek - n)

\* How much of what a tuple inserts is written over what it then skips.
Merged(t) ==
  LET overlap == Smaller(t.extra, t.seek) IN
  IF t.extra > 0 /\ t.seek > 0 /\ overlap > MinMerge
  THEN Smaller(overlap, Larger(0, Len(a) - (oldPos + t.diff))) ELSE 0

Optimise ==
  /\ pc = "optimise" /\ ctrl # <<>>
  /\ LET t == Head(ctrl)
         n == Merged(t)
         here == oldPos + t.diff
     IN
     /\ out' = [ctrl  |-> Append(out.ctrl, MergedTuple(t, n)),
                diff  |-> out.diff \o SubSeq(diff, 1, t.diff)
                            \o Minus(SubSeq(extra, 1, n), Bytes(a, here, here + n)),
                extra |-> out.extra \o SubSeq(extra, n + 1, t.extra)]
     /\ diff' = SubSeq(diff, t.diff + 1, Len(diff))
     /\ extra' = SubSeq(extra, t.extra + 1, Len(extra))
     /\ oldPos' = here + t.seek
  /\ ctrl' = Tail(ctrl)
  /\ UNCHANGED <<a, b, ops, taken, current, made, pc>>

-------------------------------------------------------------------------------
(* Offsets are written in OffWidth bytes, sign and magnitude. *)

Half == Byte \div 2

\* What is left of a size when n of its bytes have been written.
LeftAfter(size) ==
  LET left[n \in 0..OffWidth] == IF n = 0 THEN size ELSE left[n - 1] \div Byte
  IN left

WriteOff(value) ==
  LET left == LeftAfter(IF value < 0 THEN -value ELSE value)
      digit(n) == left[n - 1] % Byte
  IN [n \in 1..OffWidth |->
        IF n = OffWidth /\ value < 0 /\ digit(n) < Half THEN digit(n) + Half ELSE digit(n)]

ReadOff(data) ==
  LET top == data[OffWidth] % Half
      upTo[n \in 0..(OffWidth - 1)] ==
        IF n = 0 THEN top ELSE upTo[n - 1] * Byte + data[OffWidth - n]
      size == upTo[OffWidth - 1]
  IN IF data[OffWidth] >= Half THEN -size ELSE size

\* The patch is written; patch() reads it from its beginning.
Serialise ==
  /\ pc = "optimise" /\ ctrl = <<>>
  /\ ctrl' = [n \in DOMAIN out.ctrl |->
                <<WriteOff(out.ctrl[n].diff), WriteOff(out.ctrl[n].extra),
                  WriteOff(out.ctrl[n].seek)>>]
  /\ diff' = out.diff /\ extra' = out.extra
  /\ out' = Empty
  /\ oldPos' = 0 /\ made' = <<>>
  /\ pc' = "patch"
  /\ UNCHANGED <<a, b, ops, taken, current>>

-------------------------------------------------------------------------------
(* patch(). *)

\* The header holds the length of the new bytes.
NewSize == ReadOff(WriteOff(Len(b)))

\* The old bytes from where the patch stands; there is a zero wherever there is none.
OldBytes(n) ==
  [k \in 1..n |-> IF oldPos + k \in 1..Len(a) THEN a[oldPos + k] ELSE 0]

Applying == pc = "patch" /\ Len(made) < NewSize /\ ctrl # <<>>

ApplyTuple ==
  /\ Applying
  /\ LET t == Tuple(ReadOff(Head(ctrl)[1]), ReadOff(Head(ctrl)[2]), ReadOff(Head(ctrl)[3]))
     IN
     /\ IF t.diff > Len(diff) \/ t.extra > Len(extra)
        THEN pc' = "raised" /\ UNCHANGED <<diff, extra, oldPos, made>>
        ELSE /\ made' = made \o Plus(OldBytes(t.diff), SubSeq(diff, 1, t.diff))
                             \o SubSeq(extra, 1, t.extra)
             /\ diff' = SubSeq(diff, t.diff + 1, Len(diff))
             /\ extra' = SubSeq(extra, t.extra + 1, Len(extra))
             /\ oldPos' = oldPos + t.diff + t.seek
             /\ UNCHANGED pc
  /\ ctrl' = Tail(ctrl)
  /\ UNCHANGED <<a, b, ops, taken, current, out>>

Return ==
  /\ pc = "patch" /\ ~Applying
  /\ pc' = IF Len(made) = NewSize THEN "patched" ELSE "raised"
  /\ UNCHANGED <<a, b, ops, taken, current, blocks, out, oldPos, made>>

Start ==
  /\ taken = 0 /\ current = Nothing
  /\ ctrl = <<>> /\ diff = <<>> /\ extra = <<>> /\ out = Empty
  /\ oldPos = 0 /\ made = <<>>

Next == ReadOpcode \/ FlushLast \/ Optimise \/ Serialise \/ ApplyTuple \/ Return

-------------------------------------------------------------------------------
(* Properties. *)

\* What patch() makes of a patch of diff() is a beginning of the new bytes at every
\* tuple, and all of them when it returns; it refuses none.
PatchRestores ==
  /\ \E m \in 0..Len(b) : made = SubSeq(b, 1, m)
  /\ pc = "patched" => made = b
  /\ pc # "raised"

Total(sizes) ==
  LET upTo[n \in 0..Len(sizes)] == IF n = 0 THEN 0 ELSE upTo[n - 1] + sizes[n]
  IN upTo[Len(sizes)]

DiffBytes(tuples)  == Total([n \in 1..Len(tuples) |-> tuples[n].diff])
ExtraBytes(tuples) == Total([n \in 1..Len(tuples) |-> tuples[n].extra])

\* The tuples account for the bytes of their blocks and, laid end to end, for the
\* new bytes, before the optimiser and after it.
TuplesAddUp ==
  pc = "optimise" =>
    /\ DiffBytes(ctrl) = Len(diff) /\ ExtraBytes(ctrl) = Len(extra)
    /\ DiffBytes(out.ctrl) = Len(out.diff) /\ ExtraBytes(out.ctrl) = Len(out.extra)
    /\ DiffBytes(ctrl) + ExtraBytes(ctrl) + DiffBytes(out.ctrl) + ExtraBytes(out.ctrl) = Len(b)
===============================================================================
