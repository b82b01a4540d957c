------------------------------ MODULE DiffEngines -------------------------------
(***************************************************************************)
(* Every matcher that compares two sequences, and what reads its opcodes:  *)
(* one engine is chosen and given any two sequences.  The ones for bytes   *)
(* are followed by the binary delta, which is written and applied.         *)
(***************************************************************************)
EXTENDS Opcodes

CONSTANTS
  Engines,   \* the engines that are tried
  Entries,   \* what a sequence is made of: line keys, or bytes
  MaxText,   \* bound: the length of a sequence of lines
  MaxBytes,  \* bound: the length of a sequence of bytes
  ChunkSize, BaseMatch, LeastMatch, LeastAnchor, AnchorShare,
  LeastWindow, MostWindow,                        \* of ChunkMatcher
  PopularFrom, PopularShare,                      \* of DifflibMatcher
  Base, MaxCandidates, LongMatch, MaxExtend,      \* of RollingMatcher
  Byte, OffWidth, MinMerge                        \* of BinaryDelta

TextEngines == {"greedy", "myers", "dmp", "ses", "difflib"}
ByteEngines == {"chunk", "rolling"}

ASSUME EngineAssumption ==
  /\ Engines \subseteq TextEngines \cup ByteEngines
  /\ Byte \in Nat \ {0, 1} /\ OffWidth \in Nat \ {0} /\ Entries \subseteq 0..(Byte - 1)
  /\ ChunkSize \in Nat \ {0} /\ MaxExtend \in Nat \ {0} /\ Base \in Nat \ {0}
  /\ LeastMatch \in Nat \ {0} /\ AnchorShare \in Nat \ {0}
  /\ BaseMatch \in Nat /\ LeastWindow \in Nat /\ MostWindow \in Nat /\ MinMerge \in Nat
  /\ MaxText \in Nat /\ MaxBytes \in Nat

VARIABLES
  engine,
  a, b,         \* the two sequences
  i, j, ops,    \* how far they have been compared, and what has been said
  pc,
  d, k, frontier, history, from,                       \* of MyersMatcher
  work, search, list,                                  \* of DmpMatcher, the first two of SesMatcher
  buf, edits,                                          \* of SesMatcher
  queue, found, blocks,                                \* of DifflibMatcher, the last of SesMatcher
  coarse, block,                                       \* of ChunkMatcher
  pos, win, head, ahead, sums, pending, oldEnd,        \* of RollingMatcher
  taken, current, ctrl, diff, extra, out, oldPos, made \* of BinaryDelta

myersVars   == <<d, k, frontier, history, from>>
dmpVars     == <<work, search, list>>
sesVars     == <<buf, edits>>
difflibVars == <<queue, found, blocks>>
chunkVars   == <<coarse, block>>
rollingVars == <<pos, win, head, ahead, sums, pending, oldEnd>>
deltaVars   == <<taken, current, ctrl, diff, extra, out, oldPos, made>>

vars == <<engine, a, b, i, j, ops, pc,
          myersVars, dmpVars, sesVars, difflibVars, chunkVars, rollingVars, deltaVars>>

Greedy  == INSTANCE GreedyMatcher
Myers   == INSTANCE MyersMatcher
Dmp     == INSTANCE DmpMatcher
Ses     == INSTANCE SesMatcher
Difflib == INSTANCE DifflibMatcher
Chunk   == INSTANCE ChunkMatcher
Rolling == INSTANCE RollingMatcher
Delta   == INSTANCE BinaryDelta

\* No file is so long that its length reaches the sign of an offset.
ASSUME OffsetAssumption ==
  \A n \in 0..MaxBytes : Delta!LeftAfter(n)[OffWidth - 1] < Byte \div 2

\* Sequences of up to n entries.
Upto(n) == UNION {[1..m -> Entries] : m \in 0..n}

\* The variables of an engine that is not chosen hold nothing.
MyersIdle ==
  /\ d = <<>> /\ k = <<>> /\ frontier = <<>> /\ history = <<>> /\ from = <<>>
WorkIdle ==
  /\ work = <<>> /\ search = <<>>
SesIdle ==
  /\ buf = <<>> /\ edits = <<>>
ChunkIdle ==
  /\ coarse = <<>> /\ block = <<>>
RollingIdle ==
  /\ pos = <<>> /\ win = <<>> /\ head = <<>> /\ ahead = <<>> /\ sums = <<>>
  /\ pending = <<>> /\ oldEnd = <<>>
DeltaIdle ==
  /\ taken = <<>> /\ current = <<>> /\ ctrl = <<>> /\ diff = <<>> /\ extra = <<>>
  /\ out = <<>> /\ oldPos = <<>> /\ made = <<>>

Init ==
  /\ engine \in Engines
  /\ IF engine \in TextEngines THEN a \in Upto(MaxText) /\ b \in Upto(MaxText)
                               ELSE a \in Upto(MaxBytes) /\ b \in Upto(MaxBytes)
  /\ IF engine = "greedy" THEN Greedy!Start ELSE TRUE
  /\ IF engine = "myers" THEN Myers!Start ELSE MyersIdle
  /\ IF engine = "dmp" THEN Dmp!Start ELSE list = <<>>
  /\ IF engine = "ses" THEN Ses!Start ELSE SesIdle
  /\ IF engine = "difflib" THEN Difflib!Start ELSE queue = <<>> /\ found = {}
  /\ IF engine \in {"dmp", "ses"} THEN TRUE ELSE WorkIdle
  /\ IF engine \in {"difflib", "ses"} THEN TRUE ELSE blocks = <<>>
  /\ IF engine = "chunk" THEN Chunk!Start ELSE ChunkIdle
  /\ IF engine = "rolling" THEN Rolling!Start /\ i = 0 /\ j = 0 ELSE RollingIdle
  /\ IF engine \in ByteEngines THEN Delta!Start ELSE DeltaIdle

RunGreedy ==
  /\ engine = "greedy" /\ Greedy!Next
  /\ UNCHANGED <<engine, myersVars, dmpVars, sesVars, difflibVars, chunkVars, rollingVars, deltaVars>>

RunMyers ==
  /\ engine = "myers" /\ Myers!Next
  /\ UNCHANGED <<engine, dmpVars, sesVars, difflibVars, chunkVars, rollingVars, deltaVars>>

RunDmp ==
  /\ engine = "dmp" /\ Dmp!Next
  /\ UNCHANGED <<engine, myersVars, sesVars, difflibVars, chunkVars, rollingVars, deltaVars>>

RunSes ==
  /\ engine = "ses" /\ Ses!Next
  /\ UNCHANGED <<engine, myersVars, list, queue, found, chunkVars, rollingVars, deltaVars>>

RunDifflib ==
  /\ engine = "difflib" /\ Difflib!Next
  /\ UNCHANGED <<engine, myersVars, dmpVars, sesVars, chunkVars, rollingVars, deltaVars>>

RunChunk ==
  /\ engine = "chunk" /\ Chunk!Next
  /\ UNCHANGED <<engine, myersVars, dmpVars, sesVars, difflibVars, rollingVars, deltaVars>>

RunRolling ==
  /\ engine = "rolling" /\ Rolling!Next
  /\ UNCHANGED <<engine, i, j, myersVars, dmpVars, sesVars, difflibVars, chunkVars, deltaVars>>

WriteAndApply ==
  /\ engine \in ByteEngines /\ Delta!Next
  /\ UNCHANGED <<engine, i, j, myersVars, dmpVars, sesVars, difflibVars, chunkVars, rollingVars>>

Next ==
  \/ RunGreedy \/ RunMyers \/ RunDmp \/ RunSes \/ RunDifflib \/ RunChunk \/ RunRolling
  \/ WriteAndApply

Spec == Init /\ [][Next]_vars /\ WF_vars(Next)

-------------------------------------------------------------------------------
(* Properties. *)

\* Each engine has compared, or is over for good, in these states.
Compared == pc = (IF engine \in TextEngines THEN "done" ELSE "emitted")
Ended    == pc \in (IF engine \in TextEngines THEN {"done", "raised"} ELSE {"patched", "raised"})

\* The fallback matcher (pydifflib.py, get_opcodes): whatever the two texts are, what it
\* says is so of them, in order and without a gap, each opcode says something, and at
\* its end it has accounted for every line of both.
GreedyExact ==
  engine = "greedy" =>
    /\ Legal(ops, a, b) /\ NoneEmpty(ops)
    /\ pc = "done" => Covers(ops, a, b)

\* So do the other engines that walk both sequences forwards, at every step; only the
\* anchors of the chunk matcher can insert nothing.  The delta writer takes line ranges
\* off these opcodes without looking at them again.
OpcodesLegal ==
  engine \in {"myers", "dmp", "difflib", "chunk"} =>
    Legal(ops, a, b) /\ (engine # "chunk" => NoneEmpty(ops))

\* They end at the end of both sequences, wherever their searches, trims and splits
\* have led: a delta that ends early would lose the rest of a version.
OpcodesCover ==
  Compared /\ engine # "rolling" => Covers(ops, a, b)

\* The Myers engine says as few edits as there can be, as its docstring claims ("minimal
\* diffs"), and so does the bisecting one, whose docstring does not say so.
LeastEditsFound ==
  Compared /\ engine \in {"myers", "dmp"} => EditsOf(ops) = LeastEdits(a, b)

\* "though mathematically safe within logic" (myersdiff.py, get_opcodes): the frontier
\* is read out of range only if b is empty and a is not.
FrontierInRange ==
  engine = "myers" /\ pc = "raised" => b = <<>> /\ a # <<>>

\* DmpMatcher: the boxes tile what is left of both sequences.
BoxesTile == engine = "dmp" => Dmp!WorkTiles

\* RollingMatcher: buffer and checksum are those of the bytes under the window.
WindowFresh == engine = "rolling" => Rolling!WindowFresh

\* RollingMatcher: a copy is true and begins where the copies and skips before it lead.
CopiesLandRight == engine = "rolling" => Rolling!CopiesLandRight

\* BinaryDelta: the patch, optimised, written and read back, gives the new bytes.
PatchRestores == engine \in ByteEngines => Delta!PatchRestores

\* BinaryDelta: the tuples account for the bytes of their blocks and of the new file.
TuplesAddUp == engine \in ByteEngines => Delta!TuplesAddUp

\* matchers.py: a backend only chooses among "several equally valid opcode sequences".
\* The linear-space engine, which the composition treats like the others, does not.
BackendsEquallyValid == engine = "ses" => Legal(ops, a, b)

\* Whatever it is given, every engine comes to an end, and the patch to its return.
EnginesEnd == <>Ended
===============================================================================
