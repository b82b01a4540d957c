------------------------------ MODULE TextDelta -------------------------------
(***************************************************************************)
(* A reverse delta between two texts: _generate_reverse_delta writes it as *)
(* an edit script, and _apply_reverse_delta reads the script and applies   *)
(* it to the newer text.  Blocks.tla takes the outcome for granted.        *)
(*                                                                         *)
(* The matcher is modelled by its contract: opcodes that cover both texts  *)
(* in order, merged or not, whose equal ranges hold lines it calls equal.  *)
(*                                                                         *)
(* Two notions of a line meet here.  The generator splits bytes at "\n";   *)
(* the reader splits a str wherever str.splitlines does, at "\n", "\r\n"   *)
(* and at others ("\x0c", "\x85", ...).  A text is a sequence of the       *)
(* generator's lines, each made of the parts the reader sees.              *)
(***************************************************************************)
EXTENDS Integers, Sequences, FiniteSets, SequencesExt

CONSTANTS
  Words,      \* what stands between two line boundaries
  Blank,      \* the empty word
  Malformed,  \* the words that begin as a command does and are none
  Endings,    \* how a line of the generator ends: "lf", "crlf"
  MaxParts,   \* bound: in how many parts the reader splits one such line
  MaxLines    \* bound: the lines of a text

Commands == [cmd : {"a", "d"}, at : 0..MaxLines, count : 1..MaxLines]

ASSUME WordAssumption ==
  /\ MaxLines \in Nat
  /\ Blank \in Words \ Commands
  /\ Malformed \subseteq Words \ (Commands \cup {Blank})
  /\ Endings \subseteq {"lf", "crlf"}

Lines == [parts : UNION {[1..n -> Words] : n \in 1..MaxParts}, end : Endings]

Texts == UNION {[1..n -> Lines] : n \in 0..MaxLines}

\* What str.splitlines(keepends=True) makes of a line, and of a text.
PiecesOf(line) ==
  [k \in DOMAIN line.parts |->
     [word |-> line.parts[k],
      end |-> IF k = Len(line.parts) THEN line.end ELSE "other"]]

Pieces(text) == FlattenSeq([k \in DOMAIN text |-> PiecesOf(text[k])])

Least(a, b) == IF a < b THEN a ELSE b

VARIABLES
  new, old,  \* the two texts: the delta turns new back into old
  i, j,      \* how far the opcodes have come in new and in old
  script,    \* the edit script
  next,      \* the script line the reader stands at
  commands,  \* the commands it has read and not yet applied
  lines,     \* current_data, as the commands are applied
  pc

texts  == <<new, old>>
diff   == <<i, j, script>>
reader == <<next, commands, lines>>
vars   == <<texts, diff, reader, pc>>

-------------------------------------------------------------------------------
(* _generate_reverse_delta. *)

\* The matchers compare lines without their line ends.
Same(l, m) == l.parts = m.parts

Equal ==
  /\ pc = "diff" /\ i < Len(new) /\ j < Len(old)
  /\ Same(new[i + 1], old[j + 1])
  /\ i' = i + 1 /\ j' = j + 1
  /\ UNCHANGED <<texts, script, reader, pc>>

\* A payload line as splitlines will read it: no ending is left of it.
Payload(line) == line.parts

\* What one opcode that is not "equal" adds to the script.  Both commands name
\* lines of new; the insertion goes after the last one the deletion takes.
Emitted(xlen, ylen) ==
  (IF xlen > 0 THEN <<[cmd |-> "d", at |-> i + 1, count |-> xlen]>> ELSE <<>>)
    \o (IF ylen > 0
        THEN <<[cmd |-> "a", at |-> i + xlen, count |-> ylen]>>
               \o FlattenSeq([k \in 1..ylen |-> Payload(old[j + k])])
        ELSE <<>>)

\* "delete", "insert" or "replace".
Edit(xlen, ylen) ==
  /\ pc = "diff" /\ xlen + ylen > 0
  /\ i + xlen <= Len(new) /\ j + ylen <= Len(old)
  /\ script' = script \o Emitted(xlen, ylen)
  /\ i' = i + xlen /\ j' = j + ylen
  /\ UNCHANGED <<texts, reader, pc>>

\* The encoder before this one ended the script without a newline: a blank last
\* line is then lost to splitlines.
LegacyScript ==
  IF script # <<>> /\ Last(script) = Blank THEN Front(script) ELSE script

-------------------------------------------------------------------------------
(* _apply_reverse_delta. *)

\* A script by either encoder is taken up.
StartReading ==
  /\ pc = "diff" /\ i = Len(new) /\ j = Len(old)
  /\ script' \in {script, LegacyScript}
  /\ lines' = Pieces(new)
  /\ pc' = "read"
  /\ UNCHANGED <<texts, i, j, next, commands>>

\* Taking a short payload as it is.
NotRepaired(count, payload) == payload

\* A payload one line short is one whose blank last line the old encoder lost.
Repaired(count, payload) ==
  IF Len(payload) = count - 1 THEN Append(payload, Blank) ELSE payload

\* One header line: a command and its payload, a line to skip, or an error.
ReadHeader ==
  LET header == script[next]
      rest   == SubSeq(script, next + 1, Least(next + header.count, Len(script)))
      taken  == IF header.cmd = "a" THEN rest ELSE <<>>
      payload == IF header.cmd = "a" THEN Repaired(header.count, rest) ELSE <<>>
  IN
  /\ pc = "read" /\ next <= Len(script)
  /\ \/ /\ header \in Words \ (Malformed \cup Commands)
        /\ next' = next + 1
        /\ UNCHANGED <<commands, pc>>
     \/ /\ header \in Commands
        /\ header.cmd = "a" => Len(payload) = header.count
        /\ commands' = commands \cup
             {[cmd |-> header.cmd, at |-> header.at, count |-> header.count,
               payload |-> payload, order |-> Cardinality(commands)]}
        /\ next' = next + 1 + Len(taken)
        /\ UNCHANGED pc
     \/ /\ \/ header \in Malformed
           \/ header \in Commands /\ header.cmd = "a" /\ Len(payload) # header.count
        /\ pc' = "raised"
        /\ UNCHANGED <<next, commands>>
  /\ UNCHANGED <<texts, diff, lines>>

ScriptRead == pc = "read" /\ next > Len(script)

\* Sorting by the line alone, from the first line to the last.
PrecedesAscending(c, d) == c.at < d.at \/ (c.at = d.at /\ c.order < d.order)

\* The sort without its last key.
PrecedesUnordered(c, d) ==
  \/ c.at > d.at
  \/ c.at = d.at /\ c.cmd = "a" /\ d.cmd = "d"

\* The order of the sort: from the last line to the first; at one line the
\* insertions before the deletion, the one written last first.
Precedes(c, d) ==
  \/ c.at > d.at
  \/ c.at = d.at /\ c.cmd = "a" /\ d.cmd = "d"
  \/ c.at = d.at /\ c.cmd = d.cmd /\ c.order > d.order

\* Python's slices are clipped to the list.
Inserted(s, at, payload) ==
  LET p == Least(at, Len(s)) IN
  SubSeq(s, 1, p) \o [k \in DOMAIN payload |-> [word |-> payload[k], end |-> "lf"]]
    \o SubSeq(s, p + 1, Len(s))

Deleted(s, at, count) ==
  SubSeq(s, 1, Least(at - 1, Len(s))) \o SubSeq(s, at + count, Len(s))

Apply ==
  /\ ScriptRead
  /\ \E c \in commands :
       /\ \A d \in commands \ {c} : ~Precedes(d, c)
       /\ lines' = IF c.cmd = "a" THEN Inserted(lines, c.at, c.payload)
                   ELSE Deleted(lines, c.at, c.count)
       /\ commands' = commands \ {c}
  /\ UNCHANGED <<texts, diff, next, pc>>

\* The text that is returned ends in a newline.
Finish ==
  /\ ScriptRead /\ commands = {}
  /\ lines' = IF lines # <<>> /\ Last(lines).end = "other"
              THEN Append(lines, [word |-> Blank, end |-> "lf"]) ELSE lines
  /\ pc' = "done"
  /\ UNCHANGED <<texts, diff, next, commands>>

-------------------------------------------------------------------------------

Init ==
  /\ new \in Texts /\ old \in Texts
  /\ i = 0 /\ j = 0 /\ script = <<>>
  /\ next = 1 /\ commands = {} /\ lines = <<>>
  /\ pc = "diff"

Next ==
  \/ Equal
  \/ \E xlen, ylen \in 0..MaxLines : Edit(xlen, ylen)
  \/ StartReading \/ ReadHeader \/ Apply \/ Finish

Spec == Init /\ [][Next]_vars

-------------------------------------------------------------------------------
(* Properties. *)

\* The delta, whichever opcodes the matcher chose and whoever wrote it, turns the
\* newer text back into the older one: "instructions to transform Version N+1
\* back to Version N".
RoundTrip == pc = "done" => lines = Pieces(old)

\* While commands are left, the lines they name are still those of the newer text,
\* though the lines behind have moved: line numbers "refer to the original state".
NamedLinesUntouched ==
  ScriptRead => \A c \in commands :
    LET reach == IF c.cmd = "a" THEN c.at ELSE c.at + c.count - 1 IN
    IsPrefix(SubSeq(Pieces(new), 1, reach), lines)

\* No script that either encoder writes is refused as corrupt, not even one that
\* lost its blank last line or whose payload reads as commands.
NeverRefused == pc # "raised"
===============================================================================
