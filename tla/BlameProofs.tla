------------------------------ MODULE BlameProofs ------------------------------
(***************************************************************************)
(* Text deltas and the lines they are followed by.  A delta turns the      *)
(* newer text back into the older one, for any two texts, whichever        *)
(* opcodes the matcher chose and whichever encoder wrote the script.       *)
(* blame() follows every line of HEAD back through any number of such      *)
(* deltas: its tracker is the older version line for line, and every line  *)
(* has its answer in the end.                                              *)
(***************************************************************************)
EXTENDS Blame, Numbers, FiniteSetTheorems, SequenceTheorems

-------------------------------------------------------------------------------
(* Texts whose lines hold no line boundary of str.splitlines but their own. *)

\* Sequences of one element laid end to end are the sequence of the elements.
LEMMA FlattenOnes ==
  ASSUME NEW S, NEW f \in Seq(S)
  PROVE  FlattenSeq([k \in 1..Len(f) |-> <<f[k]>>]) = f
<1> DEFINE n == Len(f)
           ones == [k \in 1..n |-> <<f[k]>>]
           flat[k \in 1..n] == IF k = 1 THEN ones[k] ELSE flat[k - 1] \o ones[k]
           upto == [k \in 1..n |-> SubSeq(f, 1, k)]
<1>1. n \in Nat /\ Len(ones) = n
  BY LenProperties
<1>2. CASE n = 0
  <2>1. f = <<>> /\ ones = <<>>
    BY <1>2, EmptySeq
  <2> QED BY <1>1, <1>2, <2>1 DEF FlattenSeq
<1>3. CASE n # 0
  <2>1. FlattenSeq(ones) = flat[n]
    BY <1>1, <1>3 DEF FlattenSeq
  <2>2. \A k \in 1..n : upto[k] = IF k = 1 THEN ones[k] ELSE upto[k - 1] \o ones[k]
    <3> SUFFICES ASSUME NEW k \in 1..n
                 PROVE  upto[k] = IF k = 1 THEN ones[k] ELSE upto[k - 1] \o ones[k]
      OBVIOUS
    <3>1. SubSeq(f, 1, k) = SubSeq(f, 1, k - 1) \o <<f[k]>>
      BY <1>1, <1>3, SubSeqRecursiveSecond
    <3>2. CASE k = 1
      <4>1. SubSeq(f, 1, 0) = <<>> /\ <<f[1]>> \in Seq(S)
        BY <1>1, <3>2, SubSeqEmpty, ElementOfSeq
      <4>2. SubSeq(f, 1, 1) = <<>> \o <<f[1]>>
        <5>1. k - 1 = 0 /\ k = 1
          BY <3>2
        <5> QED BY <3>1, <4>1, <5>1
      <4>3. SubSeq(f, 1, 1) = <<f[1]>>
        BY <4>1, <4>2, ConcatEmptySeq
      <4> QED BY <3>2, <4>3
    <3>3. CASE k # 1
      BY <3>1, <3>3
    <3> QED BY <3>2, <3>3
  <2>3. flat = [k \in 1..n |-> IF k = 1 THEN ones[k] ELSE flat[k - 1] \o ones[k]]
    <3>1. upto = [k \in 1..n |-> IF k = 1 THEN ones[k] ELSE upto[k - 1] \o ones[k]]
      BY <2>2
    <3> HIDE DEF upto
    <3> QED BY <3>1
  <2> DEFINE T == {k \in 0..n : k > 0 => flat[k] = upto[k]}
  <2> HIDE DEF flat, upto, ones
  <2>4. \A k \in 0..(n - 1) : k \in T => k + 1 \in T
    <3> SUFFICES ASSUME NEW k \in 0..(n - 1), k \in T PROVE flat[k + 1] = upto[k + 1]
      BY <1>1
    <3>1. k + 1 \in 1..n /\ k + 1 - 1 = k /\ (k # 0 => flat[k] = upto[k])
      BY <1>1
    <3>4. \A m \in 1..n : flat[m] = IF m = 1 THEN ones[m] ELSE flat[m - 1] \o ones[m]
      BY <2>3
    <3>2. flat[k + 1] = IF k + 1 = 1 THEN ones[k + 1] ELSE flat[k] \o ones[k + 1]
      BY <3>4, <3>1
    <3>3. upto[k + 1] = IF k + 1 = 1 THEN ones[k + 1] ELSE upto[k] \o ones[k + 1]
      BY <2>2, <3>1
    <3> QED BY <3>1, <3>2, <3>3
  <2>5. 0 \in T
    BY <1>1
  <2>6. \A k \in 0..n : k \in T
    <3> HIDE DEF T, n
    <3> QED BY <1>1, <2>4, <2>5, InductionUpTo
  <2>7. flat[n] = upto[n]
    BY <1>1, <1>3, <2>6
  <2>8. upto[n] = f
    BY <1>1, <1>3, SubSeqFull DEF upto
  <2> QED BY <2>1, <2>7, <2>8 DEF ones
<1> QED BY <1>2, <1>3

\* What a line and its end are to the reader.
Piece(line) == [word |-> line.parts[1], end |-> line.end]

PieceSet == [word : Words, end : Endings \cup {"lf"}]

\* A text is a sequence of lines, and each is one to the reader as well.
LEMMA TextShape ==
  ASSUME NEW t \in Texts, MaxParts = 1
  PROVE  /\ t \in Seq(Lines) /\ Len(t) \in 0..MaxLines /\ Len(t) \in Nat
         /\ DOMAIN t = 1..Len(t)
         /\ \A k \in 1..Len(t) : /\ t[k] \in Lines
                                 /\ t[k].parts = <<t[k].parts[1]>>
                                 /\ t[k].parts[1] \in Words
                                 /\ Piece(t[k]) \in PieceSet
         /\ Pieces(t) \in Seq(PieceSet) /\ Len(Pieces(t)) = Len(t)
         /\ \A k \in 1..Len(t) : Pieces(t)[k] = Piece(t[k])
<1> USE WordAssumption
<1>1. PICK n \in 0..MaxLines : t \in [1..n -> Lines]
  BY DEF Texts
<1>2. n \in Nat /\ t \in Seq(Lines) /\ Len(t) = n /\ DOMAIN t = 1..n
  BY <1>1
<1>3. ASSUME NEW k \in 1..n
      PROVE  /\ t[k] \in Lines
             /\ t[k].parts = <<t[k].parts[1]>>
             /\ t[k].parts[1] \in Words
             /\ t[k].end \in Endings
             /\ DOMAIN t[k].parts = {1} /\ Len(t[k].parts) = 1
  <2>1. t[k] \in Lines
    BY <1>1
  <2>2. PICK m \in 1..MaxParts : t[k].parts \in [1..m -> Words]
    BY <2>1 DEF Lines
  <2>3. m = 1 /\ 1..1 = {1}
    BY <2>2
  <2>4. t[k].parts \in [1..1 -> Words]
    BY <2>2, <2>3
  <2>5. t[k].parts \in Seq(Words) /\ Len(t[k].parts) = 1 /\ DOMAIN t[k].parts = {1}
    <3>1. 1 \in Nat
      OBVIOUS
    <3> QED BY <2>3, <2>4, <3>1, FunctionIsSeq
  <2>6. t[k].end \in Endings
    BY <2>1 DEF Lines
  <2>7. t[k].parts[1] \in Words /\ t[k].parts = <<t[k].parts[1]>>
    BY <2>4, <2>5
  <2> QED BY <2>1, <2>5, <2>6, <2>7
<1>4. \A k \in 1..n : Piece(t[k]) \in PieceSet
  BY <1>3 DEF Piece, PieceSet
<1>5. \A k \in 1..n : PiecesOf(t[k]) = <<Piece(t[k])>>
  <2> SUFFICES ASSUME NEW k \in 1..n PROVE PiecesOf(t[k]) = <<Piece(t[k])>>
    OBVIOUS
  <2>1. PiecesOf(t[k]) = [m \in {1} |-> Piece(t[k])]
    BY <1>3 DEF PiecesOf, Piece
  <2>2. {1} = 1..1
    OBVIOUS
  <2> QED BY <2>1, <2>2
<1> DEFINE f == [k \in 1..n |-> Piece(t[k])]
<1>6. f \in Seq(PieceSet) /\ Len(f) = n /\ \A k \in 1..n : f[k] = Piece(t[k])
  BY <1>2, <1>4
<1>7. Pieces(t) = FlattenSeq([k \in 1..n |-> <<f[k]>>])
  BY <1>2, <1>5, <1>6 DEF Pieces
<1> HIDE DEF f
<1>8. Pieces(t) = f
  BY <1>6, <1>7, FlattenOnes
<1> QED BY <1>2, <1>3, <1>4, <1>6, <1>8

\* The payload of an insertion is one line of the script for each line of the text.
LEMMA PayloadShape ==
  ASSUME NEW t \in Texts, MaxParts = 1, NEW y \in Nat, NEW n \in Nat, y + n <= Len(t)
  PROVE  FlattenSeq([k \in 1..n |-> Payload(t[y + k])]) = [k \in 1..n |-> t[y + k].parts[1]]
<1> DEFINE f == [k \in 1..n |-> t[y + k].parts[1]]
<1>1. \A k \in 1..n : y + k \in 1..Len(t)
  BY TextShape
<1>2. \A k \in 1..n : t[y + k].parts[1] \in Words /\ t[y + k].parts = <<t[y + k].parts[1]>>
  BY <1>1, TextShape
<1>3. f \in Seq(Words) /\ Len(f) = n
  <2>1. f \in [1..n -> Words]
    BY <1>2
  <2> HIDE DEF f
  <2> QED BY <2>1, FunctionIsSeq
<1>4. \A k \in 1..n : Payload(t[y + k]) = <<f[k]>>
  BY <1>2 DEF Payload
<1> HIDE DEF f
<1>5. [k \in 1..n |-> Payload(t[y + k])] = [k \in 1..Len(f) |-> <<f[k]>>]
  BY <1>3, <1>4
<1>6. FlattenSeq([k \in 1..n |-> Payload(t[y + k])]) = f
  BY <1>3, <1>5, FlattenOnes
<1> QED BY <1>6 DEF f

-------------------------------------------------------------------------------
(* How a script came about. *)

\* One command of a script: it takes the matcher from (x, y) on, and stands in the
\* script at s.
Steps == [cmd : {"a", "d"}, x : Nat, y : Nat, count : Nat \ {0}, s : Nat \ {0}]

\* The line it names, and its header.
LineOf(e) == IF e.cmd = "a" THEN e.x ELSE e.x + 1
HeaderOf(e) == [cmd |-> e.cmd, at |-> LineOf(e), count |-> e.count]

\* Where the first n commands lead, in the newer text, in the older and in the script.
EndX(T, n) == IF n = 0 THEN 0 ELSE IF T[n].cmd = "d" THEN T[n].x + T[n].count ELSE T[n].x
EndY(T, n) == IF n = 0 THEN 0 ELSE IF T[n].cmd = "a" THEN T[n].y + T[n].count ELSE T[n].y
EndS(T, n) == IF n = 0 THEN 1 ELSE IF T[n].cmd = "a" THEN T[n].s + 1 + T[n].count ELSE T[n].s + 1

\* From (x, y) to (x1, y1) the two texts have equal lines.
EqualRun(nw, ow, x, y, x1, y1) ==
  /\ x <= x1 /\ y <= y1 /\ x1 - x = y1 - y
  /\ \A k \in 1..(x1 - x) : Same(nw[x + k], ow[y + k])

StepOf(T, n, nw, ow, scr) ==
  /\ T[n].s = EndS(T, n - 1)
  /\ EqualRun(nw, ow, EndX(T, n - 1), EndY(T, n - 1), T[n].x, T[n].y)
  /\ EndX(T, n) <= Len(nw) /\ EndY(T, n) <= Len(ow)
  /\ scr[T[n].s] = HeaderOf(T[n])
  /\ T[n].cmd = "a" =>
       \A k \in 1..T[n].count : scr[T[n].s + k] = ow[T[n].y + k].parts[1]

\* T is how the script scr came about when the matcher has come to (x, y).
Trace(T, nw, ow, x, y, scr) ==
  /\ T \in Seq(Steps) /\ scr \in Seq(Words \cup Commands)
  /\ \A n \in 1..Len(T) : StepOf(T, n, nw, ow, scr)
  /\ EqualRun(nw, ow, EndX(T, Len(T)), EndY(T, Len(T)), x, y)
  /\ Len(scr) = EndS(T, Len(T)) - 1

\* At the start there is no command.
LEMMA NoTrace ==
  ASSUME NEW nw, NEW ow
  PROVE  Trace(<<>>, nw, ow, 0, 0, <<>>)
BY DEF Trace, EqualRun, EndX, EndY, EndS

\* Where commands lead are numbers.
LEMMA EndsAreNumbers ==
  ASSUME NEW T \in Seq(Steps), NEW n \in 0..Len(T)
  PROVE  EndX(T, n) \in Nat /\ EndY(T, n) \in Nat /\ EndS(T, n) \in Nat \ {0}
<1>1. CASE n = 0
  BY <1>1 DEF EndX, EndY, EndS
<1>2. CASE n # 0
  <2>1. T[n] \in Steps
    BY <1>2, ElementOfSeq
  <2>2. /\ T[n].cmd \in {"a", "d"} /\ T[n].x \in Nat /\ T[n].y \in Nat
        /\ T[n].count \in Nat \ {0} /\ T[n].s \in Nat \ {0}
    BY <2>1 DEF Steps
  <2> QED BY <1>2, <2>2, SMTT(20) DEF EndX, EndY, EndS
<1> QED BY <1>1, <1>2

\* One command leads on, and what is written of it comes before the next one.
LEMMA OneStepOn ==
  ASSUME NEW nw, NEW ow, NEW T, NEW x, NEW y, NEW scr,
         Trace(T, nw, ow, x, y, scr), NEW n \in 1..Len(T)
  PROVE  /\ T[n] \in Steps /\ StepOf(T, n, nw, ow, scr)
         /\ EndX(T, n - 1) <= T[n].x /\ EndY(T, n - 1) <= T[n].y
         /\ EndX(T, n) = T[n].x + (IF T[n].cmd = "d" THEN T[n].count ELSE 0)
         /\ EndY(T, n) = T[n].y + (IF T[n].cmd = "a" THEN T[n].count ELSE 0)
         /\ EndS(T, n) = T[n].s + 1 + (IF T[n].cmd = "a" THEN T[n].count ELSE 0)
         /\ T[n].s = EndS(T, n - 1)
<1>1. T \in Seq(Steps) /\ StepOf(T, n, nw, ow, scr)
  BY DEF Trace
<1>2. T[n] \in Steps
  BY <1>1, ElementOfSeq
<1>3. /\ T[n].cmd \in {"a", "d"} /\ T[n].x \in Nat /\ T[n].y \in Nat
      /\ T[n].count \in Nat \ {0} /\ T[n].s \in Nat \ {0} /\ n # 0
  BY <1>2 DEF Steps
<1>4. EndX(T, n - 1) <= T[n].x /\ EndY(T, n - 1) <= T[n].y /\ T[n].s = EndS(T, n - 1)
  BY <1>1 DEF StepOf, EqualRun
<1> QED BY <1>1, <1>2, <1>3, <1>4 DEF EndX, EndY, EndS

\* So do all of them.
LEMMA EndsGrow ==
  ASSUME NEW nw, NEW ow, NEW T, NEW x, NEW y, NEW scr,
         Trace(T, nw, ow, x, y, scr), NEW m \in 0..Len(T)
  PROVE  \A n \in 0..m : /\ EndX(T, n) <= EndX(T, m) /\ EndY(T, n) <= EndY(T, m)
                         /\ EndS(T, n) <= EndS(T, m)
<1> DEFINE S == {k \in 0..Len(T) :
                   \A n \in 0..k : /\ EndX(T, n) <= EndX(T, k) /\ EndY(T, n) <= EndY(T, k)
                                   /\ EndS(T, n) <= EndS(T, k)}
<1>1. T \in Seq(Steps) /\ Len(T) \in Nat
  <2>1. T \in Seq(Steps)
    BY DEF Trace
  <2> QED BY <2>1, LenProperties
<1>2. 0 \in S
  <2>1. EndX(T, 0) <= EndX(T, 0) /\ EndY(T, 0) <= EndY(T, 0) /\ EndS(T, 0) <= EndS(T, 0)
    BY DEF EndX, EndY, EndS
  <2>2. 0..0 = {0}
    OBVIOUS
  <2> QED BY <1>1, <2>1, <2>2
<1>3. \A k \in 0..(Len(T) - 1) : k \in S => k + 1 \in S
  <2> SUFFICES ASSUME NEW k \in 0..(Len(T) - 1), k \in S, NEW n \in 0..(k + 1)
               PROVE  /\ EndX(T, n) <= EndX(T, k + 1) /\ EndY(T, n) <= EndY(T, k + 1)
                      /\ EndS(T, n) <= EndS(T, k + 1)
    BY <1>1
  <2>1. k + 1 \in 1..Len(T) /\ k + 1 - 1 = k /\ k \in 0..Len(T) /\ k + 1 \in 0..Len(T)
        /\ n \in 0..Len(T)
    BY <1>1
  <2>2. /\ EndX(T, k) \in Nat /\ EndY(T, k) \in Nat /\ EndS(T, k) \in Nat
        /\ EndX(T, k + 1) \in Nat /\ EndY(T, k + 1) \in Nat /\ EndS(T, k + 1) \in Nat
        /\ EndX(T, n) \in Nat /\ EndY(T, n) \in Nat /\ EndS(T, n) \in Nat
    BY <1>1, <2>1, EndsAreNumbers
  <2>3. /\ EndX(T, k) <= EndX(T, k + 1) /\ EndY(T, k) <= EndY(T, k + 1)
        /\ EndS(T, k) <= EndS(T, k + 1)
    <3> DEFINE e == T[k + 1]
    <3>1. /\ e \in Steps /\ EndX(T, k) <= e.x /\ EndY(T, k) <= e.y /\ e.s = EndS(T, k)
          /\ EndX(T, k + 1) = e.x + (IF e.cmd = "d" THEN e.count ELSE 0)
          /\ EndY(T, k + 1) = e.y + (IF e.cmd = "a" THEN e.count ELSE 0)
          /\ EndS(T, k + 1) = e.s + 1 + (IF e.cmd = "a" THEN e.count ELSE 0)
      BY <2>1, OneStepOn
    <3>2. e.x \in Nat /\ e.y \in Nat /\ e.count \in Nat /\ e.s \in Nat
      BY <3>1 DEF Steps
    <3> HIDE DEF e
    <3>3. EndX(T, k) <= EndX(T, k + 1)
      BY <2>2, <3>1, <3>2, SMTT(20)
    <3>4. EndY(T, k) <= EndY(T, k + 1)
      BY <2>2, <3>1, <3>2, SMTT(20)
    <3>5. EndS(T, k) <= EndS(T, k + 1)
      BY <2>2, <3>1, <3>2, SMTT(20)
    <3> QED BY <3>3, <3>4, <3>5
  <2>4. CASE n = k + 1
    BY <2>2, <2>4
  <2>5. CASE n # k + 1
    <3>1. n \in 0..k
      BY <2>5
    <3>2. /\ EndX(T, n) <= EndX(T, k) /\ EndY(T, n) <= EndY(T, k)
          /\ EndS(T, n) <= EndS(T, k)
      BY <3>1
    <3> QED BY <2>2, <2>3, <3>2
  <2> QED BY <2>4, <2>5
<1> HIDE DEF S
<1>4. m \in S
  BY <1>1, <1>2, <1>3, InductionUpTo
<1> QED BY <1>4 DEF S

\* What is written of a command is within the script.
LEMMA StepWithin ==
  ASSUME NEW nw, NEW ow, NEW T, NEW x, NEW y, NEW scr,
         Trace(T, nw, ow, x, y, scr), NEW n \in 1..Len(T)
  PROVE  /\ T[n].s \in 1..Len(scr)
         /\ T[n].s + (IF T[n].cmd = "a" THEN T[n].count ELSE 0) <= Len(scr)
<1>1. T \in Seq(Steps) /\ Len(T) \in Nat /\ Len(T) \in 0..Len(T) /\ n \in 0..Len(T)
  <2>1. T \in Seq(Steps)
    BY DEF Trace
  <2> QED BY <2>1, LenProperties
<1>2. EndS(T, n) <= EndS(T, Len(T))
  BY <1>1, EndsGrow
<1>3. Len(scr) = EndS(T, Len(T)) - 1
  BY DEF Trace
<1>4. EndS(T, n) \in Nat /\ EndS(T, Len(T)) \in Nat
  BY <1>1, EndsAreNumbers
<1>5. /\ T[n] \in Steps
      /\ EndS(T, n) = T[n].s + 1 + (IF T[n].cmd = "a" THEN T[n].count ELSE 0)
  BY OneStepOn
<1>6. T[n].s \in Nat \ {0} /\ T[n].count \in Nat
  BY <1>5 DEF Steps
<1> QED BY <1>2, <1>3, <1>4, <1>5, <1>6, SMTT(20)

\* An equal line adds nothing to the script.
LEMMA TraceEqual ==
  ASSUME NEW nw, NEW ow, NEW T, NEW x \in Nat, NEW y \in Nat, NEW scr,
         Trace(T, nw, ow, x, y, scr), Same(nw[x + 1], ow[y + 1])
  PROVE  Trace(T, nw, ow, x + 1, y + 1, scr)
<1> DEFINE ex == EndX(T, Len(T))
           ey == EndY(T, Len(T))
<1>1. ex \in Nat /\ ey \in Nat
  <2>1. T \in Seq(Steps) /\ Len(T) \in 0..Len(T)
    BY DEF Trace
  <2> QED BY <2>1, EndsAreNumbers
<1>2. EqualRun(nw, ow, ex, ey, x, y)
  BY DEF Trace
<1> HIDE DEF ex, ey
<1>3. EqualRun(nw, ow, ex, ey, x + 1, y + 1)
  <2>1. ex <= x + 1 /\ ey <= y + 1 /\ (x + 1) - ex = (y + 1) - ey
    BY <1>1, <1>2 DEF EqualRun
  <2>2. ASSUME NEW k \in 1..((x + 1) - ex) PROVE Same(nw[ex + k], ow[ey + k])
    <3>1. CASE k \in 1..(x - ex)
      BY <1>2, <3>1 DEF EqualRun
    <3>2. CASE k \notin 1..(x - ex)
      <4>1. ex + k = x + 1 /\ ey + k = y + 1
        BY <1>1, <1>2, <3>2 DEF EqualRun
      <4> QED BY <4>1
    <3> QED BY <3>1, <3>2
  <2>3. \A k \in 1..((x + 1) - ex) : Same(nw[ex + k], ow[ey + k])
    BY <2>2
  <2> QED BY <2>1, <2>3 DEF EqualRun
<1> QED BY <1>3 DEF Trace, ex, ey

\* What is written of a command: its header, and the lines it inserts.
WrittenOf(e, more, ow) ==
  /\ more \in Seq(Words \cup Commands)
  /\ Len(more) = 1 + (IF e.cmd = "a" THEN e.count ELSE 0)
  /\ more[1] = HeaderOf(e)
  /\ e.cmd = "a" => \A k \in 1..e.count : more[1 + k] = ow[e.y + k].parts[1]

\* One more command is written to the end of the script.
LEMMA TraceMore ==
  ASSUME NEW nw, NEW ow, NEW T, NEW x \in Nat, NEW y \in Nat, NEW scr,
         Trace(T, nw, ow, x, y, scr),
         NEW e \in Steps, e.x = x, e.y = y, e.s = Len(scr) + 1,
         NEW more, WrittenOf(e, more, ow),
         NEW x1 \in Nat, NEW y1 \in Nat,
         x1 = (IF e.cmd = "d" THEN x + e.count ELSE x),
         y1 = (IF e.cmd = "a" THEN y + e.count ELSE y),
         x1 <= Len(nw), y1 <= Len(ow)
  PROVE  Trace(Append(T, e), nw, ow, x1, y1, scr \o more)
<1> DEFINE N == Len(T)
           U == Append(T, e)
           full == scr \o more
<1>1. /\ T \in Seq(Steps) /\ N \in Nat /\ U \in Seq(Steps) /\ Len(U) = N + 1
      /\ U[N + 1] = e /\ \A n \in 1..N : U[n] = T[n]
  BY AppendProperties DEF Trace
<1>2. /\ scr \in Seq(Words \cup Commands) /\ Len(scr) \in Nat
      /\ full \in Seq(Words \cup Commands) /\ Len(full) = Len(scr) + Len(more)
      /\ Len(scr) = EndS(T, N) - 1 /\ Len(more) \in Nat
      /\ \A k \in 1..(Len(scr) + Len(more)) :
           full[k] = IF k <= Len(scr) THEN scr[k] ELSE more[k - Len(scr)]
  <2>1. /\ scr \in Seq(Words \cup Commands) /\ Len(scr) = EndS(T, N) - 1
        /\ more \in Seq(Words \cup Commands)
    BY DEF Trace, WrittenOf
  <2>2. Len(scr) \in Nat /\ Len(more) \in Nat
    BY <2>1, LenProperties
  <2>3. /\ full \in Seq(Words \cup Commands) /\ Len(full) = Len(scr) + Len(more)
        /\ \A k \in 1..(Len(scr) + Len(more)) :
             full[k] = IF k <= Len(scr) THEN scr[k] ELSE more[k - Len(scr)]
    <3> DEFINE A == Words \cup Commands
    <3>1. scr \in Seq(A) /\ more \in Seq(A)
      BY <2>1
    <3> HIDE DEF A
    <3> QED BY <3>1, ConcatProperties DEF A
  <2> HIDE DEF full
  <2> QED BY <2>1, <2>2, <2>3
<1>3. \A k \in 1..Len(scr) : full[k] = scr[k]
  <2> HIDE DEF full
  <2> QED BY <1>2
<1>4. \A k \in 1..Len(more) : full[Len(scr) + k] = more[k]
  <2> SUFFICES ASSUME NEW k \in 1..Len(more) PROVE full[Len(scr) + k] = more[k]
    OBVIOUS
  <2>1. Len(scr) + k \in 1..(Len(scr) + Len(more)) /\ ~(Len(scr) + k <= Len(scr))
        /\ Len(scr) + k - Len(scr) = k
    <3>1. Len(scr) \in Nat /\ Len(more) \in Nat /\ k \in 1..Len(more)
      BY <1>2
    <3> HIDE DEF full
    <3> QED BY <3>1
  <2> HIDE DEF full
  <2> QED BY <1>2, <2>1, SMTT(20)
<1>5. /\ e.cmd \in {"a", "d"} /\ e.x \in Nat /\ e.y \in Nat
      /\ e.count \in Nat \ {0} /\ e.s \in Nat \ {0}
  BY DEF Steps
<1> HIDE DEF N, U, full
<1>6. ASSUME NEW n \in 0..N
      PROVE EndX(U, n) = EndX(T, n) /\ EndY(U, n) = EndY(T, n) /\ EndS(U, n) = EndS(T, n)
  BY <1>1 DEF EndX, EndY, EndS
<1>7. EndX(U, N + 1) = x1 /\ EndY(U, N + 1) = y1 /\ EndS(U, N + 1) = Len(full) + 1
  <2>1. N + 1 # 0 /\ U[N + 1] = e
    BY <1>1
  <2>2. /\ EndX(U, N + 1) = (IF e.cmd = "d" THEN e.x + e.count ELSE e.x)
        /\ EndY(U, N + 1) = (IF e.cmd = "a" THEN e.y + e.count ELSE e.y)
        /\ EndS(U, N + 1) = (IF e.cmd = "a" THEN e.s + 1 + e.count ELSE e.s + 1)
    BY <2>1 DEF EndX, EndY, EndS
  <2>3. /\ Len(full) = Len(scr) + Len(more) /\ Len(scr) \in Nat
        /\ Len(more) = 1 + (IF e.cmd = "a" THEN e.count ELSE 0)
    BY <1>2 DEF WrittenOf
  <2>4. EndX(U, N + 1) = x1
    BY <1>5, <2>2
  <2>5. EndY(U, N + 1) = y1
    BY <1>5, <2>2
  <2>6. EndS(U, N + 1) = Len(full) + 1
    <3>1. CASE e.cmd = "a"
      <4>1. Len(more) = 1 + e.count /\ EndS(U, N + 1) = e.s + 1 + e.count
        BY <2>2, <2>3, <3>1
      <4>2. e.count \in Nat /\ Len(scr) \in Nat
        BY <1>5, <2>3
      <4>3. Len(full) = Len(scr) + (1 + e.count) /\ EndS(U, N + 1) = (Len(scr) + 1) + 1 + e.count
        BY <2>3, <4>1
      <4> QED BY <4>2, <4>3
    <3>2. CASE e.cmd = "d"
      <4>1. Len(more) = 1 /\ EndS(U, N + 1) = e.s + 1
        BY <2>2, <2>3, <3>2
      <4> QED BY <1>5, <2>3, <4>1
    <3> QED BY <1>5, <3>1, <3>2
  <2> QED BY <2>4, <2>5, <2>6
<1>8. ASSUME NEW n \in 1..N PROVE StepOf(U, n, nw, ow, full)
  <2>0. n \in 1..Len(T) /\ n \in 0..N /\ n - 1 \in 0..N
    BY <1>1 DEF N
  <2>1. StepOf(T, n, nw, ow, scr) /\ U[n] = T[n]
    BY <1>1, <2>0 DEF Trace
  <2>2. T[n] \in Steps /\ T[n].s \in Nat \ {0} /\ T[n].count \in Nat
    <3>1. T[n] \in Steps
      BY <1>1, <2>0, ElementOfSeq
    <3> QED BY <3>1 DEF Steps
  <2>3. T[n].s + (IF T[n].cmd = "a" THEN T[n].count ELSE 0) <= Len(scr)
    BY <2>0, StepWithin
  <2>4. full[T[n].s] = scr[T[n].s]
    BY <1>3, <2>2, <2>3, <1>2, SMTT(20)
  <2>5. ASSUME T[n].cmd = "a", NEW k \in 1..T[n].count
        PROVE  full[T[n].s + k] = scr[T[n].s + k]
    <3>1. T[n].s + k \in 1..Len(scr)
      <4>1. /\ T[n].s \in Nat \ {0} /\ T[n].count \in Nat /\ k \in 1..T[n].count
            /\ Len(scr) \in Nat /\ T[n].s + T[n].count <= Len(scr)
        BY <2>2, <2>3, <2>5, <1>2
      <4> QED BY <4>1, SMTT(20)
    <3> QED BY <1>3, <3>1
  <2> QED BY <1>6, <2>0, <2>1, <2>4, <2>5 DEF StepOf
<1>9. StepOf(U, N + 1, nw, ow, full)
  <2>1. U[N + 1] = e /\ (N + 1) - 1 = N /\ N \in 0..N
    BY <1>1
  <2>2. e.s = EndS(U, N)
    <3>1. EndS(T, N) \in Nat /\ EndS(U, N) = EndS(T, N)
      BY <1>1, <1>6, <2>1, EndsAreNumbers DEF N
    <3> QED BY <1>2, <3>1
  <2>3. EqualRun(nw, ow, EndX(U, N), EndY(U, N), e.x, e.y)
    BY <1>6, <2>1 DEF Trace, N
  <2>4. full[e.s] = HeaderOf(e)
    <3>1. 1 \in 1..Len(more) /\ more[1] = HeaderOf(e)
      BY <1>5 DEF WrittenOf
    <3> QED BY <1>4, <3>1
  <2>5. ASSUME e.cmd = "a", NEW k \in 1..e.count PROVE full[e.s + k] = ow[e.y + k].parts[1]
    <3>1. Len(more) = 1 + e.count /\ more[1 + k] = ow[e.y + k].parts[1]
      BY <2>5 DEF WrittenOf
    <3>3. e.count \in Nat /\ Len(more) = 1 + e.count
      BY <1>5, <3>1
    <3>4. 1 + k \in 1..Len(more)
      BY <3>3
    <3>5. Len(scr) \in Nat
      BY <1>2
    <3>6. e.s + k = Len(scr) + (1 + k)
      BY <3>5
    <3> QED BY <1>4, <3>1, <3>4, <3>6
  <2>6. EndX(U, N + 1) <= Len(nw) /\ EndY(U, N + 1) <= Len(ow)
    BY <1>7
  <2>7. e.cmd = "a" => \A k \in 1..e.count : full[e.s + k] = ow[e.y + k].parts[1]
    BY <2>5
  <2> QED BY <2>1, <2>2, <2>3, <2>4, <2>6, <2>7 DEF StepOf
<1>10. EqualRun(nw, ow, EndX(U, N + 1), EndY(U, N + 1), x1, y1)
  <2>1. x1 - x1 = 0 /\ y1 - y1 = 0 /\ 1..0 = {}
    OBVIOUS
  <2> QED BY <1>7, <2>1 DEF EqualRun
<1>11. \A n \in 1..(N + 1) : StepOf(U, n, nw, ow, full)
  <2>1. \A n \in 1..(N + 1) : n \in 1..N \/ n = N + 1
    BY <1>1
  <2> QED BY <1>8, <1>9, <2>1
<1>12. Len(full) = EndS(U, N + 1) - 1
  BY <1>2, <1>7
<1>13. Trace(U, nw, ow, x1, y1, full)
  BY <1>1, <1>2, <1>10, <1>11, <1>12 DEF Trace
<1> QED BY <1>13 DEF U, full

\* The header of a command within the bounds is a command.
LEMMA HeaderIsCommand ==
  ASSUME NEW e \in Steps, LineOf(e) <= MaxLines, e.count <= MaxLines
  PROVE  HeaderOf(e) \in Commands
<1> USE WordAssumption
<1>1. e.cmd \in {"a", "d"} /\ e.x \in Nat /\ e.count \in Nat \ {0}
  BY DEF Steps
<1>2. LineOf(e) \in 0..MaxLines /\ e.count \in 1..MaxLines
  BY <1>1 DEF LineOf
<1> QED BY <1>1, <1>2 DEF HeaderOf, Commands

\* What one opcode adds to the script is one more command, or two.
LEMMA EditTraced ==
  ASSUME MaxParts = 1, new \in Texts, old \in Texts,
         NEW T, Trace(T, new, old, i, j, script), i \in Nat, j \in Nat,
         NEW xlen \in Nat, NEW ylen \in Nat,
         i + xlen <= Len(new), j + ylen <= Len(old)
  PROVE  \E U : Trace(U, new, old, i + xlen, j + ylen, script \o Emitted(xlen, ylen))
<1> USE WordAssumption
<1>1. /\ Len(new) \in 0..MaxLines /\ Len(old) \in 0..MaxLines
      /\ \A k \in 1..Len(old) : old[k].parts[1] \in Words
  BY TextShape
<1>2. script \in Seq(Words \cup Commands) /\ Len(script) \in Nat
  BY LenProperties DEF Trace
<1> DEFINE del == IF xlen > 0 THEN <<[cmd |-> "d", at |-> i + 1, count |-> xlen]>> ELSE <<>>
           intro == [cmd |-> "a", at |-> i + xlen, count |-> ylen]
           load == FlattenSeq([k \in 1..ylen |-> Payload(old[j + k])])
           ins == IF ylen > 0 THEN <<intro>> \o load ELSE <<>>
<1>3. Emitted(xlen, ylen) = del \o ins
  BY DEF Emitted
<1>4. PICK U : Trace(U, new, old, i + xlen, j, script \o del) /\ del \in Seq(Words \cup Commands)
  <2>1. CASE xlen = 0
    <3>1. del = <<>> /\ script \o del = script /\ i + xlen = i
      BY <1>2, <2>1, ConcatEmptySeq
    <3> HIDE DEF del
    <3> QED BY <3>1
  <2>2. CASE xlen # 0
    <3> DEFINE e == [cmd |-> "d", x |-> i, y |-> j, count |-> xlen, s |-> Len(script) + 1]
    <3>1. /\ e \in Steps /\ e.x = i /\ e.y = j /\ e.s = Len(script) + 1 /\ e.cmd = "d"
          /\ e.count = xlen /\ LineOf(e) = i + 1 /\ HeaderOf(e) = del[1]
          /\ del = <<HeaderOf(e)>>
      BY <1>2, <2>2 DEF Steps, LineOf, HeaderOf
    <3> HIDE DEF e, del
    <3>2. HeaderOf(e) \in Commands
      <4>1. i + 1 <= MaxLines /\ xlen <= MaxLines
        BY <1>1, <2>2
      <4> QED BY <3>1, <4>1, HeaderIsCommand
    <3>3. del \in Seq(Words \cup Commands)
      BY <3>1, <3>2
    <3>4. WrittenOf(e, del, old)
      BY <3>1, <3>3 DEF WrittenOf
    <3>5. i + xlen \in Nat /\ j \in Nat /\ j <= Len(old)
      BY <1>1
    <3>6. Trace(Append(T, e), new, old, i + xlen, j, script \o del)
      BY <3>1, <3>4, <3>5, TraceMore
    <3> QED BY <3>3, <3>6
  <2> QED BY <2>1, <2>2
<1>5. PICK V : /\ Trace(V, new, old, i + xlen, j + ylen, (script \o del) \o ins)
               /\ ins \in Seq(Words \cup Commands)
  <2> DEFINE scr == script \o del
  <2>0. scr \in Seq(Words \cup Commands) /\ Len(scr) \in Nat /\ Trace(U, new, old, i + xlen, j, scr)
    BY <1>4, LenProperties DEF Trace
  <2> HIDE DEF scr, del
  <2>1. CASE ylen = 0
    <3>1. ins = <<>> /\ scr \o ins = scr /\ j + ylen = j
      BY <2>0, <2>1, ConcatEmptySeq
    <3> HIDE DEF ins
    <3> QED BY <2>0, <3>1 DEF scr
  <2>2. CASE ylen # 0
    <3> DEFINE e == [cmd |-> "a", x |-> i + xlen, y |-> j, count |-> ylen, s |-> Len(scr) + 1]
    <3>1. /\ e \in Steps /\ e.x = i + xlen /\ e.y = j /\ e.s = Len(scr) + 1 /\ e.cmd = "a"
          /\ e.count = ylen /\ LineOf(e) = i + xlen /\ HeaderOf(e) = intro
          /\ i + xlen \in Nat
      BY <2>0, <2>2 DEF Steps, LineOf, HeaderOf
    <3> HIDE DEF e
    <3>2. intro \in Commands
      <4>1. i + xlen <= MaxLines /\ ylen <= MaxLines
        BY <1>1, <2>2
      <4> QED BY <3>1, <4>1, HeaderIsCommand
    <3> HIDE DEF intro
    <3>3. load = [k \in 1..ylen |-> old[j + k].parts[1]]
      BY PayloadShape
    <3>4. \A k \in 1..ylen : old[j + k].parts[1] \in Words
      <4>1. \A k \in 1..ylen : j + k \in 1..Len(old)
        BY <1>1
      <4> QED BY <1>1, <4>1
    <3>5. load \in Seq(Words \cup Commands) /\ Len(load) = ylen
      <4>1. load \in [1..ylen -> Words \cup Commands]
        BY <3>3, <3>4
      <4> HIDE DEF load
      <4> QED BY <4>1, FunctionIsSeq
    <3> HIDE DEF load
    <3>6. <<intro>> \in Seq(Words \cup Commands) /\ Len(<<intro>>) = 1 /\ <<intro>>[1] = intro
      BY <3>2
    <3>7. /\ ins = <<intro>> \o load /\ ins \in Seq(Words \cup Commands) /\ Len(ins) = 1 + ylen
          /\ ins[1] = intro /\ \A k \in 1..ylen : ins[1 + k] = load[k]
      <4> DEFINE A == Words \cup Commands
                 one == <<intro>>
      <4>1. ins = one \o load
        BY <2>2
      <4>2. one \in Seq(A) /\ load \in Seq(A) /\ Len(one) = 1 /\ one[1] = intro /\ Len(load) = ylen
        BY <3>5, <3>6
      <4> HIDE DEF A, one, ins
      <4>3. /\ ins \in Seq(A) /\ Len(ins) = 1 + ylen
            /\ \A k \in 1..(1 + ylen) : ins[k] = IF k <= 1 THEN one[k] ELSE load[k - 1]
        <5>1. /\ one \o load \in Seq(A) /\ Len(one \o load) = Len(one) + Len(load)
              /\ \A k \in 1..(Len(one) + Len(load)) :
                   (one \o load)[k] = IF k <= Len(one) THEN one[k] ELSE load[k - Len(one)]
          BY <4>2, ConcatProperties
        <5> QED BY <4>1, <4>2, <5>1
      <4>4. ins[1] = intro
        BY <4>2, <4>3
      <4>5. ASSUME NEW k \in 1..ylen PROVE ins[1 + k] = load[k]
        <5>1. 1 + k \in 1..(1 + ylen) /\ ~(1 + k <= 1) /\ (1 + k) - 1 = k
          OBVIOUS
        <5> QED BY <4>3, <5>1
      <4> QED BY <4>1, <4>3, <4>4, <4>5 DEF A, one
    <3> HIDE DEF ins
    <3>8. WrittenOf(e, ins, old)
      BY <3>1, <3>3, <3>7 DEF WrittenOf
    <3>9. j + ylen \in Nat
      OBVIOUS
    <3>10. Trace(Append(U, e), new, old, i + xlen, j + ylen, scr \o ins)
      BY <2>0, <3>1, <3>8, <3>9, TraceMore
    <3> QED BY <3>7, <3>10 DEF scr
  <2> QED BY <2>1, <2>2
<1> HIDE DEF del, ins
<1>6. (script \o del) \o ins = script \o (del \o ins)
  BY <1>2, <1>4, <1>5, ConcatAssociative, SMTT(60)
<1> QED BY <1>3, <1>5, <1>6

-------------------------------------------------------------------------------
(* What the reader makes of a script. *)

\* The commands that the first n steps are read as.
LoadOf(e, ow) == IF e.cmd = "a" THEN [k \in 1..e.count |-> ow[e.y + k].parts[1]] ELSE <<>>
CommandOf(T, n, ow) ==
  [cmd |-> T[n].cmd, at |-> LineOf(T[n]), count |-> T[n].count,
   payload |-> LoadOf(T[n], ow), order |-> n - 1]
CommandsUpTo(T, n, ow) == {CommandOf(T, m, ow) : m \in 1..n}

\* There are as many as have been read: the next one's number is not taken.
LEMMA CommandsCounted ==
  ASSUME NEW T, NEW ow, NEW n \in Nat
  PROVE  IsFiniteSet(CommandsUpTo(T, n, ow)) /\ Cardinality(CommandsUpTo(T, n, ow)) = n
<1> DEFINE C(m) == CommandsUpTo(T, m, ow)
           S == {m \in 0..n : IsFiniteSet(C(m)) /\ Cardinality(C(m)) = m}
<1>1. 0 \in S
  <2>1. C(0) = {}
    BY DEF CommandsUpTo
  <2> QED BY <2>1, FS_EmptySet
<1>2. ASSUME NEW m \in 0..(n - 1), m \in S PROVE m + 1 \in S
  <2>1. C(m + 1) = C(m) \cup {CommandOf(T, m + 1, ow)}
    <3>1. 1..(m + 1) = 1..m \cup {m + 1}
      OBVIOUS
    <3> QED BY <3>1 DEF CommandsUpTo
  <2>2. CommandOf(T, m + 1, ow) \notin C(m)
    <3>1. \A l \in 1..m : CommandOf(T, l, ow).order # CommandOf(T, m + 1, ow).order
      BY DEF CommandOf
    <3>2. \A l \in 1..m : CommandOf(T, l, ow) # CommandOf(T, m + 1, ow)
      BY <3>1
    <3> QED BY <3>2 DEF CommandsUpTo
  <2>3. IsFiniteSet(C(m)) /\ Cardinality(C(m)) = m
    BY <1>2
  <2> HIDE DEF C
  <2>4. IsFiniteSet(C(m + 1)) /\ Cardinality(C(m + 1)) = m + 1
    BY <2>1, <2>2, <2>3, FS_AddElement
  <2> QED BY <2>4
<1> HIDE DEF S
<1>3. n \in S
  <2>1. \A m \in 0..(n - 1) : m \in S => m + 1 \in S
    BY <1>2
  <2>2. \A m \in 0..n : m \in S
    BY <1>1, <2>1, InductionUpTo
  <2> QED BY <2>2
<1> QED BY <1>3 DEF S

\* A script as one of the encoders leaves it: the one before lost a blank last line.
LeftOf(full, scr) ==
  scr = full \/ (full # <<>> /\ full[Len(full)] = Blank /\ scr = SubSeq(full, 1, Len(full) - 1))

\* A header is never the line that was lost.
LEMMA HeaderLeft ==
  ASSUME NEW nw \in Texts, NEW ow \in Texts, MaxParts = 1,
         NEW T, NEW full, NEW scr,
         Trace(T, nw, ow, Len(nw), Len(ow), full), LeftOf(full, scr),
         NEW n \in 1..Len(T)
  PROVE  /\ scr \in Seq(Words \cup Commands) /\ Len(scr) \in Nat
         /\ T[n].s \in 1..Len(scr)
         /\ scr[T[n].s] = HeaderOf(T[n]) /\ HeaderOf(T[n]) \in Commands
         /\ T[n].cmd = "a" =>
              \/ T[n].s + T[n].count <= Len(scr)
              \/ /\ T[n].s + T[n].count = Len(scr) + 1
                 /\ ow[T[n].y + T[n].count].parts[1] = Blank
         /\ T[n].cmd = "a" =>
              \A k \in 1..T[n].count :
                T[n].s + k <= Len(scr) => scr[T[n].s + k] = ow[T[n].y + k].parts[1]
<1> USE WordAssumption
<1>1. /\ T[n] \in Steps /\ StepOf(T, n, nw, ow, full)
      /\ EndX(T, n) = T[n].x + (IF T[n].cmd = "d" THEN T[n].count ELSE 0)
      /\ EndY(T, n) = T[n].y + (IF T[n].cmd = "a" THEN T[n].count ELSE 0)
  BY OneStepOn
<1>2. /\ T[n].s \in 1..Len(full)
      /\ T[n].s + (IF T[n].cmd = "a" THEN T[n].count ELSE 0) <= Len(full)
  BY StepWithin
<1>3. full \in Seq(Words \cup Commands) /\ Len(full) \in Nat
  BY LenProperties DEF Trace
<1>4. /\ Len(nw) \in 0..MaxLines /\ Len(ow) \in 0..MaxLines
  BY TextShape
<1>5. /\ T[n].cmd \in {"a", "d"} /\ T[n].x \in Nat /\ T[n].y \in Nat
      /\ T[n].count \in Nat /\ T[n].count # 0 /\ T[n].s \in Nat /\ T[n].s # 0
  BY <1>1 DEF Steps
<1>6. HeaderOf(T[n]) \in Commands
  <2>1. EndX(T, n) <= Len(nw) /\ EndY(T, n) <= Len(ow)
    BY <1>1 DEF StepOf
  <2>2. CASE T[n].cmd = "d"
    <3>1. EndX(T, n) = T[n].x + T[n].count
      BY <1>1, <2>2
    <3>2. T[n].x + 1 <= MaxLines /\ T[n].count <= MaxLines
      BY <1>4, <1>5, <2>1, <3>1
    <3> QED BY <1>1, <2>2, <3>2, HeaderIsCommand DEF LineOf
  <2>3. CASE T[n].cmd = "a"
    <3>1. EndX(T, n) = T[n].x /\ EndY(T, n) = T[n].y + T[n].count
      BY <1>1, <1>5, <2>3
    <3>2. T[n].x <= MaxLines /\ T[n].count <= MaxLines
      BY <1>4, <1>5, <2>1, <3>1
    <3> QED BY <1>1, <2>3, <3>2, HeaderIsCommand DEF LineOf
  <2> QED BY <1>5, <2>2, <2>3
<1>7. full[T[n].s] = HeaderOf(T[n])
  BY <1>1 DEF StepOf
<1>8. T[n].cmd = "a" => \A k \in 1..T[n].count : full[T[n].s + k] = ow[T[n].y + k].parts[1]
  BY <1>1 DEF StepOf
<1>9. CASE scr = full
  <2>1. T[n].cmd = "a" => T[n].s + T[n].count <= Len(scr)
    BY <1>2, <1>9
  <2> QED BY <1>2, <1>3, <1>6, <1>7, <1>8, <1>9, <2>1
<1>10. CASE scr # full
  <2> DEFINE L == Len(full) - 1
  <2>1. full # <<>> /\ full[Len(full)] = Blank /\ scr = SubSeq(full, 1, L)
    BY <1>10 DEF LeftOf
  <2>2. L \in Nat /\ L <= Len(full) /\ L + 1 = Len(full)
    <3>1. Len(full) # 0
      BY <1>2, <1>3
    <3> QED BY <1>3, <3>1
  <2>3. scr \in Seq(Words \cup Commands) /\ Len(scr) = L /\ \A k \in 1..L : scr[k] = full[k]
    <3> DEFINE A == Words \cup Commands
    <3>1. full \in Seq(A) /\ \A k \in 1..L : full[k] \in A
      <4>1. \A k \in 1..L : k \in 1..Len(full)
        BY <2>2
      <4> QED BY <1>3, <4>1, ElementOfSeq
    <3> HIDE DEF A, L
    <3>2. /\ SubSeq(full, 1, L) \in Seq(A) /\ Len(SubSeq(full, 1, L)) = IF 1 <= L THEN L - 1 + 1 ELSE 0
          /\ \A k \in 1..(L - 1 + 1) : SubSeq(full, 1, L)[k] = full[1 + k - 1]
      BY <2>2, <3>1, SubSeqProperties
    <3>3. L - 1 + 1 = L /\ \A k \in 1..L : 1 + k - 1 = k
      BY <2>2
    <3> QED BY <2>1, <2>2, <3>2, <3>3 DEF A
  <2> HIDE DEF L
  <2>4. T[n].s # Len(full)
    BY <1>6, <1>7, <2>1
  <2>5. T[n].s \in 1..L
    BY <1>2, <2>2, <2>4
  <2>6. CASE T[n].cmd = "a"
    <3>1. T[n].s + T[n].count <= L + 1
      BY <1>2, <2>2, <2>6
    <3>2. T[n].s + T[n].count <= L \/ T[n].s + T[n].count = L + 1
      BY <1>5, <2>2, <3>1
    <3>3. T[n].count \in 1..T[n].count
      BY <1>5
    <3>4. T[n].s + T[n].count = L + 1 => ow[T[n].y + T[n].count].parts[1] = Blank
      BY <1>8, <2>1, <2>2, <2>6, <3>3
    <3>5. ASSUME NEW k \in 1..T[n].count, T[n].s + k <= L
          PROVE  scr[T[n].s + k] = ow[T[n].y + k].parts[1]
      <4>1. T[n].s + k \in 1..L
        BY <1>5, <2>2, <3>5
      <4> QED BY <1>8, <2>3, <2>6, <4>1
    <3> QED BY <1>6, <1>7, <2>2, <2>3, <2>5, <3>2, <3>4, <3>5
  <2>7. CASE T[n].cmd # "a"
    BY <1>6, <1>7, <2>2, <2>3, <2>5, <2>7
  <2> QED BY <2>6, <2>7
<1> QED BY <1>9, <1>10

-------------------------------------------------------------------------------
(* What becomes of the lines. *)

\* The lines are the newer text's up to x, and from there on the older one's from y on,
\* but for their line ends.
LinesAt(ls, nw, ow, x, y) ==
  /\ ls \in Seq(PieceSet) /\ Len(ls) = x + (Len(ow) - y)
  /\ \A k \in 1..x : ls[k] = Piece(nw[k])
  /\ \A k \in 1..(Len(ow) - y) : ls[x + k].word = ow[y + k].parts[1]

\* Before anything is applied they are those of the newer text.
LEMMA LinesStart ==
  ASSUME NEW nw \in Texts, NEW ow \in Texts, MaxParts = 1
  PROVE  LinesAt(Pieces(nw), nw, ow, Len(nw), Len(ow))
<1>1. /\ Pieces(nw) \in Seq(PieceSet) /\ Len(Pieces(nw)) = Len(nw)
      /\ \A k \in 1..Len(nw) : Pieces(nw)[k] = Piece(nw[k])
      /\ Len(nw) \in Nat /\ Len(ow) \in Nat
  BY TextShape
<1>2. Len(ow) - Len(ow) = 0 /\ 1..0 = {} /\ Len(nw) + 0 = Len(nw)
  BY <1>1
<1> QED BY <1>1, <1>2 DEF LinesAt

\* Equal lines are the same in both.
LEMMA LinesRetreat ==
  ASSUME NEW nw \in Texts, NEW ow \in Texts, MaxParts = 1, NEW ls,
         NEW x \in Nat, NEW y \in Nat, NEW x1 \in Nat, NEW y1 \in Nat,
         x1 <= Len(nw), y1 <= Len(ow),
         LinesAt(ls, nw, ow, x1, y1), EqualRun(nw, ow, x, y, x1, y1)
  PROVE  LinesAt(ls, nw, ow, x, y)
<1>1. Len(ow) \in Nat /\ Len(nw) \in Nat
  BY TextShape
<1>2. x <= x1 /\ y <= y1 /\ x1 - x = y1 - y
  BY DEF EqualRun
<1>3. ls \in Seq(PieceSet) /\ Len(ls) = x + (Len(ow) - y)
  BY <1>1, <1>2, SMTT(20) DEF LinesAt
<1>4. \A k \in 1..x : ls[k] = Piece(nw[k])
  <2>1. \A k \in 1..x : k \in 1..x1
    BY <1>2
  <2> QED BY <2>1 DEF LinesAt
<1>5. ASSUME NEW k \in 1..(Len(ow) - y) PROVE ls[x + k].word = ow[y + k].parts[1]
  <2>1. CASE k <= x1 - x
    <3>1. k \in 1..(x1 - x) /\ x + k \in 1..x1
      BY <1>1, <1>2, <2>1
    <3>2. Same(nw[x + k], ow[y + k]) /\ ls[x + k] = Piece(nw[x + k])
      BY <3>1 DEF EqualRun, LinesAt
    <3> QED BY <3>2 DEF Same, Piece
  <2>2. CASE ~(k <= x1 - x)
    <3> DEFINE m == k - (x1 - x)
    <3>1. m \in 1..(Len(ow) - y1) /\ x1 + m = x + k /\ y1 + m = y + k
      BY <1>1, <1>2, <2>2
    <3> HIDE DEF m
    <3>2. ls[x1 + m].word = ow[y1 + m].parts[1]
      BY <3>1 DEF LinesAt
    <3> QED BY <3>1, <3>2
  <2> QED BY <2>1, <2>2
<1> QED BY <1>3, <1>4, <1>5 DEF LinesAt

\* An insertion puts the older lines where they belong.
LEMMA LinesInserted ==
  ASSUME NEW nw \in Texts, NEW ow \in Texts, MaxParts = 1, NEW ls,
         NEW x \in Nat, NEW y \in Nat, NEW n \in Nat, y + n <= Len(ow),
         LinesAt(ls, nw, ow, x, y + n)
  PROVE  LinesAt(Inserted(ls, x, [k \in 1..n |-> ow[y + k].parts[1]]), nw, ow, x, y)
<1> DEFINE rest == Len(ow) - (y + n)
           load == [k \in 1..n |-> ow[y + k].parts[1]]
           mid  == [k \in DOMAIN load |-> [word |-> load[k], end |-> "lf"]]
           front == SubSeq(ls, 1, x)
           back == SubSeq(ls, x + 1, Len(ls))
           more == Inserted(ls, x, load)
<1>1. /\ Len(ow) \in Nat /\ rest \in Nat /\ ls \in Seq(PieceSet) /\ Len(ls) = x + rest
      /\ x <= Len(ls) /\ Len(ls) \in Nat
  <2>1. Len(ow) \in Nat
    BY TextShape
  <2>2. rest \in Nat
    BY <2>1
  <2> QED BY <2>1, <2>2 DEF LinesAt
<1>2. /\ mid \in Seq(PieceSet) /\ Len(mid) = n
      /\ \A k \in 1..n : mid[k].word = ow[y + k].parts[1]
  <2>1. \A k \in 1..n : load[k] \in Words /\ load[k] = ow[y + k].parts[1]
    <3>1. \A k \in 1..n : y + k \in 1..Len(ow)
      BY <1>1
    <3> QED BY <3>1, TextShape
  <2>2. mid \in [1..n -> PieceSet] /\ \A k \in 1..n : mid[k].word = load[k]
    BY <2>1 DEF PieceSet
  <2> HIDE DEF mid, load
  <2>3. mid \in Seq(PieceSet) /\ Len(mid) = n
    BY <2>2, FunctionIsSeq
  <2> QED BY <2>1, <2>2, <2>3
<1>3. more = front \o mid \o back
  <2>1. Least(x, Len(ls)) = x
    BY <1>1 DEF Least
  <2> HIDE DEF load
  <2> QED BY <2>1 DEF Inserted
<1>4. /\ front \in Seq(PieceSet) /\ Len(front) = x /\ \A k \in 1..x : front[k] = ls[k]
      /\ back \in Seq(PieceSet) /\ Len(back) = rest /\ \A k \in 1..rest : back[k] = ls[x + k]
  <2>1. \A k \in 1..x : ls[k] \in PieceSet
    <3>1. \A k \in 1..x : k \in 1..Len(ls)
      BY <1>1
    <3> QED BY <1>1, <3>1, ElementOfSeq
  <2>2. \A k \in (x + 1)..Len(ls) : ls[k] \in PieceSet
    <3>1. \A k \in (x + 1)..Len(ls) : k \in 1..Len(ls)
      BY <1>1
    <3> QED BY <1>1, <3>1, ElementOfSeq
  <2> HIDE DEF rest
  <2>3. /\ front \in Seq(PieceSet) /\ Len(front) = (IF 1 <= x THEN (x - 1) + 1 ELSE 0)
        /\ \A k \in 1..((x - 1) + 1) : front[k] = ls[(1 + k) - 1]
    BY <2>1, SubSeqProperties
  <2>4. /\ back \in Seq(PieceSet)
        /\ Len(back) = (IF x + 1 <= Len(ls) THEN (Len(ls) - (x + 1)) + 1 ELSE 0)
        /\ \A k \in 1..((Len(ls) - (x + 1)) + 1) : back[k] = ls[((x + 1) + k) - 1]
    BY <1>1, <2>2, SubSeqProperties
  <2> HIDE DEF front, back
  <2>5. Len(front) = x /\ \A k \in 1..x : front[k] = ls[k]
    BY <2>3
  <2>6. Len(back) = rest /\ \A k \in 1..rest : back[k] = ls[x + k]
    BY <1>1, <2>4
  <2> QED BY <2>3, <2>4, <2>5, <2>6
<1> HIDE DEF front, back, mid, load, more
<1>5. /\ front \o mid \in Seq(PieceSet) /\ Len(front \o mid) = x + n
      /\ \A k \in 1..(x + n) : (front \o mid)[k] = IF k <= x THEN front[k] ELSE mid[k - x]
  <2>1. front \in Seq(PieceSet) /\ mid \in Seq(PieceSet) /\ Len(front) = x /\ Len(mid) = n
    BY <1>2, <1>4
  <2> QED BY <2>1, EndToEnd
<1> HIDE DEF rest
<1>6. /\ more \in Seq(PieceSet) /\ Len(more) = (x + n) + rest
      /\ \A k \in 1..((x + n) + rest) :
           more[k] = IF k <= x + n THEN (front \o mid)[k] ELSE back[k - (x + n)]
  <2> DEFINE both == front \o mid
  <2>1. both \in Seq(PieceSet) /\ back \in Seq(PieceSet) /\ Len(both) = x + n /\ Len(back) = rest
        /\ more = both \o back
    BY <1>1, <1>3, <1>4, <1>5 DEF rest
  <2> HIDE DEF both
  <2>2. /\ more \in Seq(PieceSet) /\ Len(more) = (x + n) + rest
        /\ \A k \in 1..((x + n) + rest) :
             more[k] = IF k <= x + n THEN both[k] ELSE back[k - (x + n)]
    BY <2>1, EndToEnd
  <2> QED BY <2>2 DEF both
<1>7. Len(more) = x + (Len(ow) - y)
  BY <1>1, <1>6 DEF rest
<1>8. ASSUME NEW k \in 1..x PROVE more[k] = Piece(nw[k])
  <2>1. k \in 1..(x + n) /\ k <= x /\ k <= x + n /\ k \in 1..((x + n) + rest)
    BY <1>1
  <2>2. more[k] = front[k] /\ front[k] = ls[k]
    BY <1>4, <1>5, <1>6, <2>1
  <2> QED BY <2>2 DEF LinesAt
<1>9. ASSUME NEW k \in 1..(Len(ow) - y) PROVE more[x + k].word = ow[y + k].parts[1]
  <2>1. CASE k <= n
    <3>1. x + k \in 1..(x + n) /\ x + k <= x + n /\ ~(x + k <= x) /\ (x + k) - x = k
          /\ x + k \in 1..((x + n) + rest) /\ k \in 1..n
      BY <1>1, <2>1
    <3>2. more[x + k] = mid[k]
      BY <1>5, <1>6, <3>1
    <3> QED BY <1>2, <3>1, <3>2
  <2>2. CASE ~(k <= n)
    <3> DEFINE m == k - n
    <3>1. m \in 1..rest /\ ~(x + k <= x + n) /\ (x + k) - (x + n) = m /\ y + k = (y + n) + m
          /\ x + k \in 1..((x + n) + rest)
      BY <1>1, <2>2 DEF rest
    <3> HIDE DEF m
    <3>2. more[x + k] = ls[x + m]
      BY <1>4, <1>6, <3>1
    <3>3. ls[x + m].word = ow[(y + n) + m].parts[1]
      BY <3>1 DEF LinesAt, rest
    <3> QED BY <3>1, <3>2, <3>3
  <2> QED BY <2>1, <2>2
<1>10. LinesAt(more, nw, ow, x, y)
  BY <1>6, <1>7, <1>8, <1>9 DEF LinesAt
<1> QED BY <1>10 DEF more, load

\* A deletion takes the newer lines away that are not in the older text.
LEMMA LinesDeleted ==
  ASSUME NEW nw \in Texts, NEW ow \in Texts, MaxParts = 1, NEW ls,
         NEW x \in Nat, NEW y \in Nat, NEW n \in Nat, y <= Len(ow),
         LinesAt(ls, nw, ow, x + n, y)
  PROVE  LinesAt(Deleted(ls, x + 1, n), nw, ow, x, y)
<1> DEFINE rest == Len(ow) - y
           front == SubSeq(ls, 1, x)
           back == SubSeq(ls, (x + 1) + n, Len(ls))
           less == Deleted(ls, x + 1, n)
<1>1. /\ Len(ow) \in Nat /\ rest \in Nat /\ ls \in Seq(PieceSet) /\ Len(ls) = (x + n) + rest
      /\ x <= Len(ls) /\ Len(ls) \in Nat
  <2>1. Len(ow) \in Nat
    BY TextShape
  <2>2. rest \in Nat
    BY <2>1
  <2> QED BY <2>1, <2>2 DEF LinesAt
<1>2. less = front \o back
  <2>1. Least((x + 1) - 1, Len(ls)) = x
    BY <1>1 DEF Least
  <2> QED BY <2>1 DEF Deleted
<1>3. /\ front \in Seq(PieceSet) /\ Len(front) = x /\ \A k \in 1..x : front[k] = ls[k]
      /\ back \in Seq(PieceSet) /\ Len(back) = rest
      /\ \A k \in 1..rest : back[k] = ls[(x + n) + k]
  <2>1. \A k \in 1..x : ls[k] \in PieceSet
    <3>1. \A k \in 1..x : k \in 1..Len(ls)
      BY <1>1
    <3> QED BY <1>1, <3>1, ElementOfSeq
  <2>2. \A k \in ((x + 1) + n)..Len(ls) : ls[k] \in PieceSet
    <3>1. \A k \in ((x + 1) + n)..Len(ls) : k \in 1..Len(ls)
      BY <1>1
    <3> QED BY <1>1, <3>1, ElementOfSeq
  <2> HIDE DEF rest
  <2>3. /\ front \in Seq(PieceSet) /\ Len(front) = (IF 1 <= x THEN (x - 1) + 1 ELSE 0)
        /\ \A k \in 1..((x - 1) + 1) : front[k] = ls[(1 + k) - 1]
    BY <2>1, SubSeqProperties
  <2>4. /\ back \in Seq(PieceSet)
        /\ Len(back) = (IF (x + 1) + n <= Len(ls) THEN (Len(ls) - ((x + 1) + n)) + 1 ELSE 0)
        /\ \A k \in 1..((Len(ls) - ((x + 1) + n)) + 1) : back[k] = ls[(((x + 1) + n) + k) - 1]
    BY <1>1, <2>2, SubSeqProperties
  <2> HIDE DEF front, back
  <2>5. Len(front) = x /\ \A k \in 1..x : front[k] = ls[k]
    BY <2>3
  <2>6. Len(back) = rest /\ \A k \in 1..rest : back[k] = ls[(x + n) + k]
    BY <1>1, <2>4
  <2> QED BY <2>3, <2>4, <2>5, <2>6
<1> HIDE DEF front, back, less, rest
<1>4. /\ less \in Seq(PieceSet) /\ Len(less) = x + rest
      /\ \A k \in 1..(x + rest) : less[k] = IF k <= x THEN front[k] ELSE back[k - x]
  <2>1. front \in Seq(PieceSet) /\ back \in Seq(PieceSet) /\ Len(front) = x /\ Len(back) = rest
    BY <1>3
  <2>2. /\ front \o back \in Seq(PieceSet) /\ Len(front \o back) = x + rest
        /\ \A k \in 1..(x + rest) :
             (front \o back)[k] = IF k <= x THEN front[k] ELSE back[k - x]
    BY <2>1, EndToEnd, SMTT(20)
  <2> QED BY <1>2, <2>2
<1>5. ASSUME NEW k \in 1..x PROVE less[k] = Piece(nw[k])
  <2>1. k <= x /\ k \in 1..(x + rest) /\ k \in 1..(x + n)
    BY <1>1
  <2>2. less[k] = ls[k]
    BY <1>3, <1>4, <2>1
  <2> QED BY <2>1, <2>2 DEF LinesAt
<1>6. ASSUME NEW k \in 1..(Len(ow) - y) PROVE less[x + k].word = ow[y + k].parts[1]
  <2>1. k \in 1..rest
    BY DEF rest
  <2>2. ~(x + k <= x) /\ (x + k) - x = k /\ x + k \in 1..(x + rest)
    BY <1>1, <2>1
  <2>3. less[x + k] = ls[(x + n) + k]
    BY <1>3, <1>4, <2>1, <2>2
  <2>4. ls[(x + n) + k].word = ow[y + k].parts[1]
    BY DEF LinesAt
  <2> QED BY <2>3, <2>4
<1>7. LinesAt(less, nw, ow, x, y)
  BY <1>4, <1>5, <1>6 DEF LinesAt, rest
<1> QED BY <1>7 DEF less

\* What the reader takes for the payload of the command e.
PayloadAt(scr, e) == SubSeq(scr, e.s + 1, Least(e.s + e.count, Len(scr)))

\* The payload of an insertion is read as it was written, the lost blank line mended.
LEMMA PayloadRead ==
  ASSUME NEW nw \in Texts, NEW ow \in Texts, MaxParts = 1,
         NEW T, NEW full, NEW scr,
         Trace(T, nw, ow, Len(nw), Len(ow), full), LeftOf(full, scr),
         NEW n \in 1..Len(T), T[n].cmd = "a"
  PROVE  /\ Repaired(T[n].count, PayloadAt(scr, T[n])) = LoadOf(T[n], ow)
         /\ Len(LoadOf(T[n], ow)) = T[n].count
         /\ \/ Len(PayloadAt(scr, T[n])) = T[n].count /\ T[n].s + T[n].count <= Len(scr)
            \/ Len(PayloadAt(scr, T[n])) = T[n].count - 1 /\ T[n].s + T[n].count = Len(scr) + 1
<1> DEFINE s == T[n].s
           c == T[n].count
           y == T[n].y
           A == Words \cup Commands
           load == LoadOf(T[n], ow)
           rest == PayloadAt(scr, T[n])
<1>1. T[n] \in Steps /\ StepOf(T, n, nw, ow, full)
  BY OneStepOn
<1>2. s \in Nat /\ c \in Nat /\ c # 0 /\ y \in Nat
  BY <1>1 DEF Steps
<1>3. /\ scr \in Seq(A) /\ Len(scr) \in Nat /\ s \in 1..Len(scr)
      /\ \/ s + c <= Len(scr)
         \/ s + c = Len(scr) + 1 /\ ow[y + c].parts[1] = Blank
      /\ \A k \in 1..c : s + k <= Len(scr) => scr[s + k] = ow[y + k].parts[1]
  BY HeaderLeft
<1>4. /\ load \in Seq(Words) /\ Len(load) = c /\ \A k \in 1..c : load[k] = ow[y + k].parts[1]
  <2>1. EndY(T, n) <= Len(ow) /\ EndY(T, n) = y + c
    <3>1. n # 0
      OBVIOUS
    <3> QED BY <1>1, <3>1 DEF StepOf, EndY
  <2>2. \A k \in 1..c : ow[y + k].parts[1] \in Words
    <3>1. \A k \in 1..c : y + k \in 1..Len(ow)
      <4>1. Len(ow) \in Nat
        BY TextShape
      <4> QED BY <1>2, <2>1, <4>1
    <3> QED BY <3>1, TextShape
  <2>3. load = [k \in 1..c |-> ow[y + k].parts[1]]
    BY DEF LoadOf
  <2> HIDE DEF load, c, y
  <2>4. load \in [1..c -> Words] /\ \A k \in 1..c : load[k] = ow[y + k].parts[1]
    BY <2>2, <2>3
  <2> QED BY <1>2, <2>4, FunctionIsSeq
<1>5. rest = SubSeq(scr, s + 1, Least(s + c, Len(scr)))
  BY DEF PayloadAt
<1> HIDE DEF s, c, y, load, rest
<1> HIDE DEF A
<1>6. CASE s + c <= Len(scr)
  <2>1. rest = SubSeq(scr, s + 1, s + c)
    <3>1. Least(s + c, Len(scr)) = s + c
      BY <1>2, <1>3, <1>6 DEF Least
    <3> QED BY <1>5, <3>1
  <2>3. rest \in Seq(A) /\ Len(rest) = c /\ \A k \in 1..c : rest[k] = scr[s + k]
    <3>1. scr \in Seq(A) /\ s \in Nat /\ c \in Nat /\ s + c <= Len(scr)
      BY <1>2, <1>3, <1>6
    <3> DEFINE cut == SubSeq(scr, s + 1, s + c)
    <3>2. cut \in Seq(A) /\ Len(cut) = c /\ \A k \in 1..c : cut[k] = scr[s + k]
      BY <3>1, Slice
    <3> HIDE DEF cut
    <3>3. rest = cut
      BY <2>1 DEF cut
    <3> QED BY <3>2, <3>3
  <2>4. \A k \in 1..c : rest[k] = load[k]
    <3>1. \A k \in 1..c : s + k <= Len(scr)
      BY <1>2, <1>3, <1>6
    <3> QED BY <1>3, <1>4, <2>3, <3>1
  <2>5. load \in Seq(A)
    BY <1>4, SeqMonotonic DEF A
  <2>6. rest = load
    BY <1>4, <2>3, <2>4, <2>5, SeqEqual
  <2>7. c # c - 1
    BY <1>2
  <2>8. Repaired(c, rest) = load
    BY <2>3, <2>6, <2>7 DEF Repaired
  <2> QED BY <1>4, <1>6, <2>3, <2>8 DEF s, c, load, rest
<1>7. CASE s + c = Len(scr) + 1 /\ ow[y + c].parts[1] = Blank
  <2>0. c - 1 \in Nat /\ s + (c - 1) = Len(scr) /\ s + (c - 1) <= Len(scr)
    BY <1>2, <1>3, <1>7
  <2>1. rest = SubSeq(scr, s + 1, s + (c - 1))
    <3>1. Least(s + c, Len(scr)) = s + (c - 1)
      BY <1>2, <1>3, <1>7, <2>0 DEF Least
    <3> QED BY <1>5, <3>1
  <2> DEFINE p == c - 1
  <2>2. p \in Nat /\ s + p <= Len(scr) /\ rest = SubSeq(scr, s + 1, s + p)
    BY <2>0, <2>1
  <2> HIDE DEF p
  <2>3. rest \in Seq(A) /\ Len(rest) = p /\ \A k \in 1..p : rest[k] = scr[s + k]
    <3>1. scr \in Seq(A) /\ s \in Nat
      BY <1>2, <1>3
    <3> DEFINE cut == SubSeq(scr, s + 1, s + p)
    <3>2. cut \in Seq(A) /\ Len(cut) = p /\ \A k \in 1..p : cut[k] = scr[s + k]
      BY <2>2, <3>1, Slice
    <3> HIDE DEF cut
    <3>3. rest = cut
      BY <2>2 DEF cut
    <3> QED BY <3>2, <3>3
  <2> DEFINE more == Append(rest, Blank)
  <2>4. /\ more \in Seq(A) /\ Len(more) = p + 1
        /\ \A k \in 1..p : more[k] = rest[k]
        /\ more[p + 1] = Blank
    <3>1. Blank \in A
      BY WordAssumption DEF A
    <3> QED BY <2>3, <3>1, AppendProperties
  <2> HIDE DEF more
  <2>9. p + 1 = c /\ p = c - 1
    BY <1>2 DEF p
  <2>5. ASSUME NEW k \in 1..c PROVE more[k] = load[k]
    <3>1. CASE k = c
      BY <1>4, <1>7, <2>4, <2>9, <3>1
    <3>2. CASE k # c
      <4>1. k \in 1..p /\ s + k <= Len(scr)
        BY <1>2, <1>3, <1>7, <2>2, <2>9, <3>2
      <4> QED BY <1>3, <1>4, <2>3, <2>4, <4>1
    <3> QED BY <3>1, <3>2
  <2>6. load \in Seq(A)
    BY <1>4, SeqMonotonic DEF A
  <2>7. more = load
    BY <1>4, <2>4, <2>5, <2>6, <2>9, SeqEqual
  <2>8. Repaired(c, rest) = load
    BY <2>3, <2>7, <2>9 DEF Repaired, more
  <2> QED BY <1>4, <1>7, <2>3, <2>8, <2>9 DEF s, c, load, rest
<1> QED BY <1>3, <1>6, <1>7

\* The sort puts the command that was read last first.
LEMMA LastPrecedes ==
  ASSUME NEW nw, NEW ow, NEW T, NEW x, NEW y, NEW scr,
         Trace(T, nw, ow, x, y, scr), NEW m \in 1..Len(T), NEW n \in 1..(m - 1)
  PROVE  Precedes(CommandOf(T, m, ow), CommandOf(T, n, ow))
<1> DEFINE e == T[m]
           f == T[n]
<1>0. Len(T) \in Nat
  BY LenProperties DEF Trace
<1>1. n \in 1..Len(T) /\ n \in 0..(m - 1) /\ m - 1 \in 0..Len(T) /\ n < m /\ n \in 0..Len(T)
  BY <1>0
<1>2. EndX(T, n) <= EndX(T, m - 1)
  BY <1>1, EndsGrow
<1>3. e \in Steps /\ f \in Steps /\ EndX(T, m - 1) <= e.x
      /\ EndX(T, n) = f.x + (IF f.cmd = "d" THEN f.count ELSE 0)
  BY <1>1, OneStepOn
<1>4. EndX(T, n) \in Nat /\ EndX(T, m - 1) \in Nat
  BY <1>1, EndsAreNumbers DEF Trace
<1>5. /\ e.cmd \in {"a", "d"} /\ e.x \in Nat /\ f.cmd \in {"a", "d"} /\ f.x \in Nat
      /\ f.count \in Nat /\ f.count # 0
  BY <1>3 DEF Steps
<1>6. /\ CommandOf(T, m, ow).cmd = e.cmd /\ CommandOf(T, n, ow).cmd = f.cmd
      /\ CommandOf(T, m, ow).at = LineOf(e) /\ CommandOf(T, n, ow).at = LineOf(f)
      /\ CommandOf(T, m, ow).order > CommandOf(T, n, ow).order
  <2>1. m - 1 > n - 1
    BY <1>1
  <2> QED BY <2>1 DEF CommandOf
<1>7. /\ f.cmd = "d" => f.x + f.count <= e.x
      /\ f.x <= e.x
  <2>1. CASE f.cmd = "d"
    <3>1. EndX(T, n) = f.x + f.count
      BY <1>3, <2>1
    <3> QED BY <1>2, <1>3, <1>4, <1>5, <2>1, <3>1
  <2>2. CASE f.cmd = "a"
    <3>1. EndX(T, n) = f.x
      BY <1>3, <1>5, <2>2
    <3> QED BY <1>2, <1>3, <1>4, <1>5, <2>2, <3>1
  <2> QED BY <1>5, <2>1, <2>2
<1> HIDE DEF e, f
<1>8. \/ LineOf(e) > LineOf(f)
      \/ LineOf(e) = LineOf(f) /\ e.cmd = "a" /\ f.cmd = "d"
      \/ LineOf(e) = LineOf(f) /\ e.cmd = f.cmd
  <2>1. CASE f.cmd = "d"
    <3>1. f.x + 1 <= e.x
      BY <1>5, <1>7, <2>1
    <3> QED BY <1>5, <2>1, <3>1 DEF LineOf
  <2>2. CASE f.cmd = "a"
    BY <1>5, <1>7, <2>2 DEF LineOf
  <2> QED BY <1>5, <2>1, <2>2
<1> QED BY <1>6, <1>8 DEF Precedes

-------------------------------------------------------------------------------
(* The invariant: whatever is done next, the two texts lie along a trace. *)

\* The first n commands of the trace have been read and not applied: either the reader
\* stands at the next one, or it is through and the rest has been applied.
ReadFrom(T, full, n) ==
  /\ Trace(T, new, old, Len(new), Len(old), full) /\ LeftOf(full, script)
  /\ commands = CommandsUpTo(T, n, old)
  /\ \/ n < Len(T) /\ next = T[n + 1].s /\ lines = Pieces(new)
     \/ /\ next \in Nat /\ next > Len(script)
        /\ LinesAt(lines, new, old, EndX(T, n), EndY(T, n))

DiffInv ==
  /\ i \in 0..Len(new) /\ j \in 0..Len(old) /\ next = 1 /\ commands = {}
  /\ \E T : Trace(T, new, old, i, j, script)

DeltaInv ==
  /\ new \in Texts /\ old \in Texts
  /\ pc = "diff" => DiffInv
  /\ pc = "read" => \E T, full : \E n \in 0..Len(T) : ReadFrom(T, full, n)
  /\ pc = "done" => LinesAt(lines, new, old, 0, 0)
  /\ pc # "raised"

\* Nothing has been said or read.
LEMMA DeltaInvInit ==
  ASSUME MaxParts = 1
  PROVE  Init => DeltaInv
<1> SUFFICES ASSUME Init PROVE DeltaInv
  OBVIOUS
<1>1. Len(new) \in Nat /\ Len(old) \in Nat
  BY TextShape DEF Init
<1>2. 0 \in 0..Len(new) /\ 0 \in 0..Len(old)
  BY <1>1
<1> QED BY <1>2, NoTrace DEF Init, DeltaInv, DiffInv

\* The matcher goes on: an equal line, or an opcode that is written down.
LEMMA DiffStep ==
  ASSUME MaxParts = 1, new \in Texts, old \in Texts, DiffInv,
         Equal \/ \E xlen, ylen \in 0..MaxLines : Edit(xlen, ylen)
  PROVE  DiffInv'
<1>1. Len(new) \in Nat /\ Len(old) \in Nat /\ i \in Nat /\ j \in Nat
      /\ i <= Len(new) /\ j <= Len(old)
  BY TextShape DEF DiffInv
<1>2. PICK T : Trace(T, new, old, i, j, script)
  BY DEF DiffInv
<1>3. CASE Equal
  <2>1. Trace(T, new, old, i + 1, j + 1, script)
    BY <1>1, <1>2, <1>3, TraceEqual DEF Equal
  <2>2. i + 1 \in 0..Len(new) /\ j + 1 \in 0..Len(old)
    BY <1>1, <1>3 DEF Equal
  <2> QED BY <1>3, <2>1, <2>2 DEF Equal, DiffInv, texts, reader
<1>4. CASE \E xlen, ylen \in 0..MaxLines : Edit(xlen, ylen)
  <2>1. PICK xlen \in 0..MaxLines, ylen \in 0..MaxLines : Edit(xlen, ylen)
    BY <1>4
  <2>2. xlen \in Nat /\ ylen \in Nat /\ i + xlen <= Len(new) /\ j + ylen <= Len(old)
    BY <2>1, WordAssumption DEF Edit
  <2>3. \E U : Trace(U, new, old, i + xlen, j + ylen, script \o Emitted(xlen, ylen))
    BY <1>1, <1>2, <2>2, EditTraced
  <2>4. i + xlen \in 0..Len(new) /\ j + ylen \in 0..Len(old)
    BY <1>1, <2>2
  <2> QED BY <2>1, <2>3, <2>4 DEF Edit, DiffInv, texts, reader
<1> QED BY <1>3, <1>4

\* The reader is through with a script: every command is left, and no line has moved.
LEMMA AllRead ==
  ASSUME MaxParts = 1, NEW nw \in Texts, NEW ow \in Texts,
         NEW T, NEW full, Trace(T, nw, ow, Len(nw), Len(ow), full)
  PROVE  LinesAt(Pieces(nw), nw, ow, EndX(T, Len(T)), EndY(T, Len(T)))
<1>1. T \in Seq(Steps) /\ Len(T) \in 0..Len(T)
  BY LenProperties DEF Trace
<1>2. EndX(T, Len(T)) \in Nat /\ EndY(T, Len(T)) \in Nat
  BY <1>1, EndsAreNumbers
<1>3. Len(nw) \in Nat /\ Len(ow) \in Nat
  BY TextShape
<1>4. EqualRun(nw, ow, EndX(T, Len(T)), EndY(T, Len(T)), Len(nw), Len(ow))
  BY DEF Trace
<1>5. LinesAt(Pieces(nw), nw, ow, Len(nw), Len(ow))
  BY LinesStart
<1> QED BY <1>2, <1>3, <1>4, <1>5, LinesRetreat

\* A script by either encoder is taken up at its first command.
LEMMA StartKeeps ==
  ASSUME MaxParts = 1, new \in Texts, old \in Texts, DiffInv, StartReading
  PROVE  \E T, full : 0 \in 0..Len(T) /\ ReadFrom(T, full, 0)'
<1>1. PICK T : Trace(T, new, old, i, j, script)
  BY DEF DiffInv
<1>2. Trace(T, new, old, Len(new), Len(old), script) /\ next' = 1 /\ commands' = {}
      /\ new' = new /\ old' = old /\ lines' = Pieces(new)
  BY <1>1 DEF StartReading, DiffInv, texts
<1>3. T \in Seq(Steps) /\ Len(T) \in Nat /\ script \in Seq(Words \cup Commands)
      /\ Len(script) = EndS(T, Len(T)) - 1 /\ Len(script) \in Nat
  BY <1>1, LenProperties DEF Trace
<1>4. LeftOf(script, script')
  BY <1>3 DEF StartReading, LegacyScript, LeftOf, Last, Front
<1>5. commands' = CommandsUpTo(T, 0, old')
  BY <1>2 DEF CommandsUpTo
<1>6. CASE Len(T) = 0
  <2>1. Len(script) = 0
    BY <1>3, <1>6 DEF EndS
  <2>2. script = <<>>
    BY <1>3, <2>1, EmptySeq
  <2>3. script' = <<>>
    BY <1>4, <2>2 DEF LeftOf
  <2>4. next' > Len(script') /\ next' \in Nat
    BY <1>2, <2>3
  <2>5. LinesAt(lines', new', old', EndX(T, 0), EndY(T, 0))
    BY <1>2, <1>6, AllRead
  <2> QED BY <1>2, <1>4, <1>5, <1>6, <2>4, <2>5 DEF ReadFrom
<1>7. CASE Len(T) # 0
  <2>1. 1 \in 1..Len(T) /\ 0 < Len(T) /\ 0 \in 0..Len(T)
    BY <1>3, <1>7
  <2>2. T[1].s = EndS(T, 1 - 1) /\ 1 - 1 = 0
    BY <1>1, <2>1, OneStepOn
  <2>3. T[0 + 1].s = 1
    BY <2>2 DEF EndS
  <2> QED BY <1>2, <1>4, <1>5, <2>1, <2>3 DEF ReadFrom
<1> QED BY <1>6, <1>7

\* One header is read, with its payload: the reader refuses none and comes to the next.
LEMMA ReadStep ==
  ASSUME MaxParts = 1, new \in Texts, old \in Texts,
         NEW T, NEW full, NEW n \in 0..Len(T), ReadFrom(T, full, n), ReadHeader
  PROVE  /\ n + 1 \in 0..Len(T) /\ ReadFrom(T, full, n + 1)'
         /\ pc' = "read"
<1> USE WordAssumption
<1>1. /\ Trace(T, new, old, Len(new), Len(old), full) /\ LeftOf(full, script)
      /\ T \in Seq(Steps) /\ Len(T) \in Nat /\ commands = CommandsUpTo(T, n, old)
      /\ pc = "read" /\ next <= Len(script)
      /\ new' = new /\ old' = old /\ script' = script /\ lines' = lines
  BY LenProperties DEF ReadFrom, Trace, ReadHeader, texts, diff
<1>2. n < Len(T) /\ next = T[n + 1].s /\ lines = Pieces(new)
  <2>1. CASE n < Len(T) /\ next = T[n + 1].s /\ lines = Pieces(new)
    BY <2>1
  <2>2. CASE next \in Nat /\ next > Len(script)
    <3>1. Len(script) \in Nat
      <4>1. full \in Seq(Words \cup Commands)
        BY <1>1 DEF Trace
      <4>2. script = full \/ \E m \in Int : script = SubSeq(full, 1, m) /\ m = Len(full) - 1 /\ full # <<>>
        BY <1>1, <4>1, LenProperties DEF LeftOf
      <4>3. \A m \in Int : m = Len(full) - 1 /\ full # <<>> => SubSeq(full, 1, m) \in Seq(Words \cup Commands)
        BY <4>1
      <4> QED BY <4>1, <4>2, <4>3, LenProperties
    <3> QED BY <1>1, <2>2, <3>1
  <2> QED BY <2>1, <2>2 DEF ReadFrom
<1> DEFINE m == n + 1
           e == T[m]
<1>3. m \in 1..Len(T) /\ m \in 0..Len(T) /\ m - 1 = n /\ n \in Nat
  BY <1>1, <1>2
<1>4. /\ script \in Seq(Words \cup Commands) /\ Len(script) \in Nat /\ e.s \in 1..Len(script)
      /\ script[e.s] = HeaderOf(e) /\ HeaderOf(e) \in Commands
  BY <1>1, <1>3, HeaderLeft
<1>5. e \in Steps /\ e.cmd \in {"a", "d"} /\ e.count \in Nat /\ e.s \in Nat
      /\ EndS(T, m) = e.s + 1 + (IF e.cmd = "a" THEN e.count ELSE 0)
  <2>1. e \in Steps /\ EndS(T, m) = e.s + 1 + (IF e.cmd = "a" THEN e.count ELSE 0)
    BY <1>1, <1>3, OneStepOn
  <2> QED BY <2>1 DEF Steps
<1> DEFINE rest == SubSeq(script, e.s + 1, Least(e.s + e.count, Len(script)))
<1>6. e.cmd = "a" =>
        /\ Repaired(e.count, rest) = LoadOf(e, old)
        /\ Len(LoadOf(e, old)) = e.count
        /\ \/ Len(rest) = e.count /\ e.s + e.count <= Len(script)
           \/ Len(rest) = e.count - 1 /\ e.s + e.count = Len(script) + 1
  <2> SUFFICES ASSUME e.cmd = "a"
               PROVE  /\ Repaired(e.count, rest) = LoadOf(e, old)
                      /\ Len(LoadOf(e, old)) = e.count
                      /\ \/ Len(rest) = e.count /\ e.s + e.count <= Len(script)
                         \/ Len(rest) = e.count - 1 /\ e.s + e.count = Len(script) + 1
    OBVIOUS
  <2>1. rest = PayloadAt(script, T[m])
    BY DEF PayloadAt
  <2> HIDE DEF m, rest
  <2>3. T[m].cmd = "a"
    OBVIOUS
  <2>5. m \in 1..Len(T)
    BY <1>3
  <2>4. /\ Repaired(T[m].count, PayloadAt(script, T[m])) = LoadOf(T[m], old)
        /\ Len(LoadOf(T[m], old)) = T[m].count
        /\ \/ Len(PayloadAt(script, T[m])) = T[m].count /\ T[m].s + T[m].count <= Len(script)
           \/ Len(PayloadAt(script, T[m])) = T[m].count - 1
                /\ T[m].s + T[m].count = Len(script) + 1
    BY <1>1, <2>3, <2>5, PayloadRead
  <2> QED BY <2>1, <2>4
<1>7. /\ script[next].cmd = e.cmd /\ script[next].at = LineOf(e) /\ script[next].count = e.count
      /\ script[next] \in Commands /\ script[next] \notin Malformed
  <2>1. script[next] = HeaderOf(e) /\ script[next] \in Commands
    BY <1>2, <1>4
  <2> QED BY <2>1 DEF HeaderOf
<1> DEFINE c == [cmd |-> e.cmd, at |-> LineOf(e), count |-> e.count,
                 payload |-> LoadOf(e, old), order |-> Cardinality(commands)]
           taken == IF e.cmd = "a" THEN Len(rest) ELSE 0
<1>8. commands' = commands \cup {c} /\ next' = next + 1 + taken /\ pc' = pc
  <2> HIDE DEF m
  <2> DEFINE header == script[next]
             more == SubSeq(script, next + 1, Least(next + header.count, Len(script)))
             got == IF header.cmd = "a" THEN more ELSE <<>>
             payload == IF header.cmd = "a" THEN Repaired(header.count, more) ELSE <<>>
  <2>1. \/ header \in Words \ (Malformed \cup Commands)
        \/ /\ header \in Commands
           /\ header.cmd = "a" => Len(payload) = header.count
           /\ commands' = commands \cup
                {[cmd |-> header.cmd, at |-> header.at, count |-> header.count,
                  payload |-> payload, order |-> Cardinality(commands)]}
           /\ next' = next + 1 + Len(got)
           /\ UNCHANGED pc
        \/ \/ header \in Malformed
           \/ header \in Commands /\ header.cmd = "a" /\ Len(payload) # header.count
    BY DEF ReadHeader
  <2>2. more = rest
    <3>1. next = e.s /\ header.count = e.count
      BY <1>2, <1>7 DEF m
    <3> QED BY <3>1
  <2>3. payload = LoadOf(e, old) /\ Len(got) = taken
        /\ (header.cmd = "a" => Len(payload) = header.count)
    <3>1. CASE e.cmd = "a"
      <4>1. payload = Repaired(e.count, rest) /\ got = rest
        BY <1>7, <2>2, <3>1
      <4> HIDE DEF payload, got, rest, header
      <4> QED BY <1>6, <1>7, <3>1, <4>1 DEF header
    <3>2. CASE e.cmd # "a"
      <4>1. payload = <<>> /\ got = <<>> /\ header.cmd # "a"
        BY <1>7, <3>2
      <4> HIDE DEF payload, got, rest, header
      <4> QED BY <3>2, <4>1 DEF LoadOf
    <3> QED BY <3>1, <3>2
  <2>4. header.cmd = e.cmd /\ header.at = LineOf(e) /\ header.count = e.count
        /\ header \in Commands /\ header \notin Malformed
    BY <1>7
  <2> HIDE DEF header, payload, got, more, rest, e, taken
  <2> QED BY <2>1, <2>3, <2>4
<1>9. commands' = CommandsUpTo(T, m, old)
  <2>1. Cardinality(commands) = n
    BY <1>1, <1>3, CommandsCounted
  <2>2. c = CommandOf(T, m, old)
    BY <1>3, <2>1 DEF CommandOf
  <2>3. 1..m = 1..n \cup {m}
    BY <1>3
  <2> HIDE DEF c, m
  <2> QED BY <1>1, <1>8, <2>2, <2>3 DEF CommandsUpTo
<1>10. \/ next' = EndS(T, m)
       \/ next' = Len(script) + 1 /\ EndS(T, m) = Len(script) + 2
  <2>1. CASE e.cmd = "a"
    <3>1. EndS(T, m) = e.s + 1 + e.count /\ next' = e.s + 1 + Len(rest)
      BY <1>2, <1>5, <1>8, <2>1
    <3>2. \/ Len(rest) = e.count
          \/ Len(rest) = e.count - 1 /\ e.s + e.count = Len(script) + 1
      BY <1>6, <2>1
    <3>3. e.count \in Nat /\ e.s \in Nat /\ Len(script) \in Nat
      BY <1>4, <1>5
    <3> HIDE DEF rest, m, e
    <3>4. CASE Len(rest) = e.count
      BY <3>1, <3>4
    <3>5. CASE Len(rest) = e.count - 1 /\ e.s + e.count = Len(script) + 1
      BY <3>1, <3>3, <3>5, SMTT(60)
    <3> QED BY <3>2, <3>4, <3>5
  <2>2. CASE e.cmd # "a"
    <3>1. EndS(T, m) = e.s + 1 /\ next' = e.s + 1
      BY <1>2, <1>5, <1>8, <2>2
    <3> QED BY <3>1
  <2> QED BY <2>1, <2>2
<1> HIDE DEF rest, taken, c
<1>11. \/ m < Len(T) /\ next' = T[m + 1].s /\ lines' = Pieces(new)
       \/ /\ next' \in Nat /\ next' > Len(script)
          /\ LinesAt(lines', new, old, EndX(T, m), EndY(T, m))
  <2>1. CASE m < Len(T)
    <3>1. m + 1 \in 1..Len(T) /\ (m + 1) - 1 = m
      BY <1>3, <2>1
    <3>2. T[m + 1].s = EndS(T, m) /\ T[m + 1].s \in 1..Len(script)
      BY <1>1, <3>1, OneStepOn, HeaderLeft
    <3>3. next' = EndS(T, m)
      BY <1>4, <1>10, <3>2
    <3> QED BY <1>1, <1>2, <2>1, <3>2, <3>3
  <2>2. CASE m = Len(T)
    <3>1. LinesAt(lines', new, old, EndX(T, m), EndY(T, m))
      BY <1>1, <1>2, <2>2, AllRead
    <3>2. EndS(T, m) = Len(full) + 1 /\ Len(full) \in Nat /\ EndS(T, m) \in Nat
      <4>1. full \in Seq(Words \cup Commands) /\ Len(full) = EndS(T, Len(T)) - 1
        BY <1>1 DEF Trace
      <4>2. EndS(T, m) \in Nat
        BY <1>1, <1>3, EndsAreNumbers
      <4> QED BY <2>2, <4>1, <4>2, LenProperties
    <3>3. Len(script) <= Len(full)
      <4>1. CASE script = full
        BY <3>2, <4>1
      <4>2. CASE script = SubSeq(full, 1, Len(full) - 1) /\ full # <<>>
        <5>1. full \in Seq(Words \cup Commands)
          BY <1>1 DEF Trace
        <5>2. Len(full) # 0
          BY <4>2, <5>1, EmptySeq
        <5>3. PICK k \in Nat : k = Len(full) - 1
          BY <3>2, <5>2
        <5>4. 0 \in Nat /\ 0 + k <= Len(full) /\ 0 + 1 = 1 /\ 0 + k = k
          BY <3>2, <5>3
        <5>5. Len(SubSeq(full, 0 + 1, 0 + k)) = k
          BY <5>1, <5>4, Slice
        <5> QED BY <3>2, <4>2, <5>3, <5>4, <5>5
      <4> QED BY <1>1, <4>1, <4>2 DEF LeftOf
    <3>4. next' \in Nat /\ next' > Len(script)
      BY <1>4, <1>10, <3>2, <3>3
    <3> QED BY <3>1, <3>4
  <2> QED BY <1>1, <1>3, <2>1, <2>2
<1> QED BY <1>1, <1>3, <1>8, <1>9, <1>11 DEF ReadFrom

\* The reader that is through stands where the rest of the trace has been applied.
LEMMA ThroughScript ==
  ASSUME MaxParts = 1, new \in Texts, old \in Texts,
         NEW T, NEW full, NEW n \in 0..Len(T), ReadFrom(T, full, n), next > Len(script)
  PROVE  /\ Trace(T, new, old, Len(new), Len(old), full)
         /\ T \in Seq(Steps) /\ Len(T) \in Nat /\ next \in Nat
         /\ LinesAt(lines, new, old, EndX(T, n), EndY(T, n))
         /\ EndX(T, n) <= Len(new) /\ EndY(T, n) <= Len(old)
<1>1. /\ Trace(T, new, old, Len(new), Len(old), full) /\ LeftOf(full, script)
      /\ T \in Seq(Steps) /\ Len(T) \in Nat
  BY LenProperties DEF ReadFrom, Trace
<1>2. next \in Nat /\ LinesAt(lines, new, old, EndX(T, n), EndY(T, n))
  <2>1. CASE n < Len(T) /\ next = T[n + 1].s
    <3>1. n + 1 \in 1..Len(T)
      BY <1>1, <2>1
    <3>2. T[n + 1].s \in 1..Len(script) /\ Len(script) \in Nat
      BY <1>1, <3>1, HeaderLeft
    <3> QED BY <2>1, <3>2
  <2> QED BY <2>1 DEF ReadFrom
<1>3. EndX(T, n) <= Len(new) /\ EndY(T, n) <= Len(old)
  <2>1. CASE n = 0
    <3>1. Len(new) \in Nat /\ Len(old) \in Nat
      BY TextShape
    <3> QED BY <2>1, <3>1 DEF EndX, EndY
  <2>2. CASE n # 0
    <3>1. n \in 1..Len(T)
      BY <1>1, <2>2
    <3>2. StepOf(T, n, new, old, full)
      BY <1>1, <3>1, OneStepOn
    <3> QED BY <3>2 DEF StepOf
  <2> QED BY <2>1, <2>2
<1> QED BY <1>1, <1>2, <1>3

\* The command that was read last is applied, and is the one that belongs there: the lines
\* before it are still those that it names.
LEMMA ApplyStep ==
  ASSUME MaxParts = 1, new \in Texts, old \in Texts,
         NEW T, NEW full, NEW n \in 0..Len(T), ReadFrom(T, full, n), Apply
  PROVE  /\ n - 1 \in 0..Len(T) /\ ReadFrom(T, full, n - 1)'
         /\ pc' = "read"
<1>1. /\ Trace(T, new, old, Len(new), Len(old), full) /\ LeftOf(full, script)
      /\ T \in Seq(Steps) /\ Len(T) \in Nat /\ commands = CommandsUpTo(T, n, old)
      /\ pc = "read" /\ next > Len(script) /\ pc' = pc /\ next' = next
      /\ new' = new /\ old' = old /\ script' = script
  BY LenProperties DEF ReadFrom, Trace, Apply, ScriptRead, texts, diff
<1>2. next \in Nat /\ LinesAt(lines, new, old, EndX(T, n), EndY(T, n))
  BY <1>1, ThroughScript
<1>3. PICK c \in commands :
        /\ \A d \in commands \ {c} : ~Precedes(d, c)
        /\ lines' = IF c.cmd = "a" THEN Inserted(lines, c.at, c.payload)
                    ELSE Deleted(lines, c.at, c.count)
        /\ commands' = commands \ {c}
  BY DEF Apply
<1>4. PICK m \in 1..n : c = CommandOf(T, m, old)
  BY <1>1, <1>3 DEF CommandsUpTo
<1>5. n \in 1..Len(T) /\ n \in 1..n /\ n - 1 \in 0..Len(T) /\ n \in Nat
  BY <1>1, <1>4
<1>6. \A l \in 1..(n - 1) : CommandOf(T, l, old) # CommandOf(T, n, old)
  <2>1. \A l \in 1..(n - 1) : CommandOf(T, l, old).order # CommandOf(T, n, old).order
    BY <1>5 DEF CommandOf
  <2> QED BY <2>1
<1>7. m = n
  <2> SUFFICES ASSUME m # n PROVE FALSE
    OBVIOUS
  <2>1. m \in 1..(n - 1)
    BY <1>5
  <2>2. Precedes(CommandOf(T, n, old), c)
    BY <1>1, <1>4, <1>5, <2>1, LastPrecedes
  <2>3. CommandOf(T, n, old) \in commands \ {c}
    BY <1>1, <1>4, <1>5, <1>6, <2>1 DEF CommandsUpTo
  <2> QED BY <1>3, <2>2, <2>3
<1>8. commands' = CommandsUpTo(T, n - 1, old)
  <2>1. 1..n = 1..(n - 1) \cup {n}
    BY <1>5
  <2> QED BY <1>1, <1>3, <1>4, <1>6, <1>7, <2>1 DEF CommandsUpTo
<1> DEFINE e == T[n]
<1>9. /\ e \in Steps /\ StepOf(T, n, new, old, full)
      /\ EndX(T, n) = e.x + (IF e.cmd = "d" THEN e.count ELSE 0)
      /\ EndY(T, n) = e.y + (IF e.cmd = "a" THEN e.count ELSE 0)
  BY <1>1, <1>5, OneStepOn
<1>10. e.cmd \in {"a", "d"} /\ e.x \in Nat /\ e.y \in Nat /\ e.count \in Nat
  BY <1>9 DEF Steps
<1>11. /\ EndX(T, n) <= Len(new) /\ EndY(T, n) <= Len(old)
       /\ EqualRun(new, old, EndX(T, n - 1), EndY(T, n - 1), e.x, e.y)
  BY <1>9 DEF StepOf
<1>12. /\ c.cmd = e.cmd /\ c.at = LineOf(e) /\ c.count = e.count
       /\ c.payload = LoadOf(e, old)
  BY <1>4, <1>7 DEF CommandOf
<1> HIDE DEF e
<1>13. LinesAt(lines', new, old, e.x, e.y)
  <2>1. CASE e.cmd = "a"
    <3> DEFINE load == [k \in 1..e.count |-> old[e.y + k].parts[1]]
    <3>1. lines' = Inserted(lines, e.x, load)
      BY <1>3, <1>12, <2>1 DEF LineOf, LoadOf
    <3>2. e.y + e.count <= Len(old)
      BY <1>9, <1>10, <1>11, <2>1
    <3>3. LinesAt(lines, new, old, e.x, e.y + e.count)
      <4>1. EndX(T, n) = e.x /\ EndY(T, n) = e.y + e.count
        BY <1>9, <1>10, <2>1
      <4> QED BY <1>2, <4>1
    <3>4. LinesAt(Inserted(lines, e.x, load), new, old, e.x, e.y)
      BY <1>10, <3>2, <3>3, LinesInserted
    <3> QED BY <3>1, <3>4
  <2>2. CASE e.cmd = "d"
    <3>1. lines' = Deleted(lines, e.x + 1, e.count)
      BY <1>3, <1>12, <2>2 DEF LineOf
    <3>2. e.y <= Len(old)
      BY <1>9, <1>10, <1>11, <2>2
    <3>3. LinesAt(lines, new, old, e.x + e.count, e.y)
      <4>1. EndX(T, n) = e.x + e.count /\ EndY(T, n) = e.y
        BY <1>9, <1>10, <2>2
      <4> QED BY <1>2, <4>1
    <3>4. LinesAt(Deleted(lines, e.x + 1, e.count), new, old, e.x, e.y)
      BY <1>10, <3>2, <3>3, LinesDeleted
    <3> QED BY <3>1, <3>4
  <2> QED BY <1>10, <2>1, <2>2
<1>14. LinesAt(lines', new, old, EndX(T, n - 1), EndY(T, n - 1))
  <2>1. EndX(T, n - 1) \in Nat /\ EndY(T, n - 1) \in Nat
    BY <1>1, <1>5, EndsAreNumbers
  <2>2. e.x <= Len(new) /\ e.y <= Len(old)
    <3>1. Len(new) \in Nat /\ Len(old) \in Nat
      BY TextShape
    <3>2. e.x <= EndX(T, n) /\ e.y <= EndY(T, n) /\ EndX(T, n) \in Nat /\ EndY(T, n) \in Nat
      BY <1>9, <1>10
    <3> QED BY <1>10, <1>11, <3>1, <3>2
  <2> QED BY <1>10, <1>11, <1>13, <2>1, <2>2, LinesRetreat
<1> QED BY <1>1, <1>2, <1>5, <1>8, <1>14 DEF ReadFrom

\* When no command is left the lines are those of the older text, and none is added.
LEMMA FinishStep ==
  ASSUME MaxParts = 1, new \in Texts, old \in Texts,
         NEW T, NEW full, NEW n \in 0..Len(T), ReadFrom(T, full, n), Finish
  PROVE  LinesAt(lines, new, old, 0, 0) /\ lines' = lines
<1>1. /\ Trace(T, new, old, Len(new), Len(old), full) /\ LeftOf(full, script)
      /\ T \in Seq(Steps) /\ Len(T) \in Nat /\ CommandsUpTo(T, n, old) = {}
      /\ next > Len(script)
  BY LenProperties DEF ReadFrom, Trace, Finish, ScriptRead
<1>2. n = 0
  <2>1. n \in Nat /\ (n # 0 => 1 \in 1..n)
    BY <1>1
  <2> QED BY <1>1, <2>1 DEF CommandsUpTo
<1>3. LinesAt(lines, new, old, 0, 0)
  <2>1. EndX(T, n) = 0 /\ EndY(T, n) = 0
    BY <1>2 DEF EndX, EndY
  <2>2. LinesAt(lines, new, old, EndX(T, n), EndY(T, n))
    BY <1>1, ThroughScript
  <2> QED BY <2>1, <2>2
<1>4. lines # <<>> => Last(lines).end # "other"
  <2> SUFFICES ASSUME lines # <<>> PROVE Last(lines).end # "other"
    OBVIOUS
  <2>1. lines \in Seq(PieceSet)
    BY <1>3 DEF LinesAt
  <2>2. Len(lines) \in 1..Len(lines)
    BY <2>1, EmptySeq, LenProperties
  <2>3. lines[Len(lines)] \in PieceSet
    BY <2>1, <2>2, ElementOfSeq
  <2> QED BY <2>3, WordAssumption DEF PieceSet, Last
<1> QED BY <1>3, <1>4 DEF Finish

\* Whatever the generator and the reader do, the two texts lie along a trace.
LEMMA DeltaInvNext ==
  ASSUME MaxParts = 1
  PROVE  DeltaInv /\ [Next]_vars => DeltaInv'
<1> SUFFICES ASSUME DeltaInv, [Next]_vars PROVE DeltaInv'
  OBVIOUS
<1>1. new \in Texts /\ old \in Texts
  BY DEF DeltaInv
<1>2. CASE Equal \/ \E xlen, ylen \in 0..MaxLines : Edit(xlen, ylen)
  <2>1. /\ pc = "diff" /\ pc' = "diff" /\ new' = new /\ old' = old
    BY <1>2 DEF Equal, Edit, texts
  <2>2. DiffInv'
    BY <1>1, <1>2, <2>1, DiffStep DEF DeltaInv
  <2> QED BY <1>1, <2>1, <2>2 DEF DeltaInv
<1>3. CASE StartReading
  <2>1. pc = "diff" /\ pc' = "read" /\ new' = new /\ old' = old
    BY <1>3 DEF StartReading, texts
  <2>2. PICK T, full : 0 \in 0..Len(T) /\ ReadFrom(T, full, 0)'
    BY <1>1, <1>3, <2>1, StartKeeps DEF DeltaInv
  <2>3. \E U, all : \E k \in 0..Len(U) : ReadFrom(U, all, k)'
    BY <2>2
  <2> QED BY <1>1, <2>1, <2>3 DEF DeltaInv
<1>4. CASE ReadHeader \/ Apply \/ Finish
  <2>1. pc = "read" /\ new' = new /\ old' = old
    BY <1>4 DEF ReadHeader, Apply, Finish, ScriptRead, texts
  <2>2. PICK T, full : \E n \in 0..Len(T) : ReadFrom(T, full, n)
    BY <2>1 DEF DeltaInv
  <2>3. PICK n \in 0..Len(T) : ReadFrom(T, full, n)
    BY <2>2
  <2>4. CASE ReadHeader
    <3>1. n + 1 \in 0..Len(T) /\ ReadFrom(T, full, n + 1)' /\ pc' = "read"
      BY <1>1, <2>3, <2>4, ReadStep
    <3>2. \E U, all : \E k \in 0..Len(U) : ReadFrom(U, all, k)'
      BY <3>1
    <3> QED BY <1>1, <2>1, <3>1, <3>2 DEF DeltaInv
  <2>5. CASE Apply
    <3>1. n - 1 \in 0..Len(T) /\ ReadFrom(T, full, n - 1)' /\ pc' = "read"
      BY <1>1, <2>3, <2>5, ApplyStep
    <3>2. \E U, all : \E k \in 0..Len(U) : ReadFrom(U, all, k)'
      BY <3>1
    <3> QED BY <1>1, <2>1, <3>1, <3>2 DEF DeltaInv
  <2>6. CASE Finish
    <3>1. LinesAt(lines, new, old, 0, 0) /\ lines' = lines
      BY <1>1, <2>3, <2>6, FinishStep
    <3>2. pc' = "done"
      BY <2>6 DEF Finish
    <3> QED BY <1>1, <2>1, <3>1, <3>2 DEF DeltaInv
  <2> QED BY <1>4, <2>4, <2>5, <2>6
<1>5. CASE UNCHANGED vars
  BY <1>5 DEF DeltaInv, DiffInv, ReadFrom, vars, texts, diff, reader
<1> QED BY <1>2, <1>3, <1>4, <1>5 DEF Next

-------------------------------------------------------------------------------
(* The theorems.  They hold of texts whose lines the generator and the reader *)
(* agree on (MaxParts = 1); for others the run delta_endings shows the delta   *)
(* to fail.                                                                   *)

\* Whatever opcodes the matcher chose and whichever encoder wrote the script, the texts lie
\* along a trace at every step of _generate_reverse_delta and _apply_reverse_delta.
THEOREM DeltaInvariant == MaxParts = 1 => (Spec => []DeltaInv)
<1> SUFFICES ASSUME MaxParts = 1 PROVE Spec => []DeltaInv
  OBVIOUS
<1>1. Init => DeltaInv
  BY DeltaInvInit
<1>2. DeltaInv /\ [Next]_vars => DeltaInv'
  BY DeltaInvNext
<1> QED BY <1>1, <1>2, PTL DEF Spec

\* No script that either encoder writes is refused as corrupt: every header is read with
\* the whole of its payload, the blank line the old encoder lost supplied.
THEOREM NoScriptRefused == MaxParts = 1 => (Spec => []NeverRefused)
<1> SUFFICES ASSUME MaxParts = 1 PROVE Spec => []NeverRefused
  OBVIOUS
<1>1. Spec => []DeltaInv
  BY DeltaInvariant
<1>2. DeltaInv => NeverRefused
  BY DEF DeltaInv, NeverRefused
<1> QED BY <1>1, <1>2, PTL

\* While commands are left, the lines that each names are still those of the newer text:
\* _apply_reverse_delta works from the last line to the first.
THEOREM LinesStayNamed == MaxParts = 1 => (Spec => []NamedLinesUntouched)
<1> SUFFICES ASSUME MaxParts = 1 PROVE Spec => []NamedLinesUntouched
  OBVIOUS
<1>1. Spec => []DeltaInv
  BY DeltaInvariant
<1>2. DeltaInv => NamedLinesUntouched
  <2> SUFFICES ASSUME DeltaInv, ScriptRead, NEW c \in commands,
                      NEW reach, reach = IF c.cmd = "a" THEN c.at ELSE c.at + c.count - 1
               PROVE  IsPrefix(SubSeq(Pieces(new), 1, reach), lines)
    BY DEF NamedLinesUntouched
  <2>1. new \in Texts /\ old \in Texts /\ pc = "read" /\ next > Len(script)
    BY DEF DeltaInv, ScriptRead
  <2>2. PICK T, full : \E n \in 0..Len(T) : ReadFrom(T, full, n)
    BY <2>1 DEF DeltaInv
  <2>3. PICK n \in 0..Len(T) : ReadFrom(T, full, n)
    BY <2>2
  <2>4. /\ Trace(T, new, old, Len(new), Len(old), full)
        /\ LinesAt(lines, new, old, EndX(T, n), EndY(T, n))
        /\ T \in Seq(Steps) /\ Len(T) \in Nat
        /\ EndX(T, n) <= Len(new) /\ EndY(T, n) <= Len(old)
    BY <2>1, <2>3, ThroughScript
  <2>5. PICK m \in 1..n : c = CommandOf(T, m, old)
    BY <2>3 DEF ReadFrom, CommandsUpTo
  <2>6. m \in 1..Len(T) /\ m \in 0..n /\ m \in 0..Len(T)
    BY <2>4
  <2>7. EndX(T, m) \in Nat /\ EndX(T, n) \in Nat /\ EndX(T, m) <= EndX(T, n)
    BY <2>4, <2>6, EndsGrow, EndsAreNumbers
  <2>8. reach = EndX(T, m)
    <3>1. T[m] \in Steps /\ EndX(T, m) = T[m].x + (IF T[m].cmd = "d" THEN T[m].count ELSE 0)
      BY <2>4, <2>6, OneStepOn
    <3>2. T[m].cmd \in {"a", "d"} /\ T[m].x \in Nat /\ T[m].count \in Nat
      BY <3>1 DEF Steps
    <3>3. c.cmd = T[m].cmd /\ c.at = LineOf(T[m]) /\ c.count = T[m].count
      BY <2>5 DEF CommandOf
    <3>4. CASE T[m].cmd = "a"
      BY <3>1, <3>2, <3>3, <3>4 DEF LineOf
    <3>5. CASE T[m].cmd = "d"
      BY <3>1, <3>2, <3>3, <3>5 DEF LineOf
    <3> QED BY <3>2, <3>4, <3>5
  <2>9. /\ Pieces(new) \in Seq(PieceSet) /\ Len(Pieces(new)) = Len(new) /\ Len(new) \in Nat
        /\ Len(old) \in Nat
        /\ \A k \in 1..Len(new) : Pieces(new)[k] = Piece(new[k])
    BY <2>1, TextShape
  <2>10. /\ EndX(T, n) <= Len(new) /\ EndX(T, n) <= Len(lines) /\ lines \in Seq(PieceSet)
         /\ \A k \in 1..EndX(T, n) : lines[k] = Piece(new[k])
    <3>1. EndX(T, n) <= Len(new) /\ EndY(T, n) <= Len(old) /\ EndY(T, n) \in Nat
      BY <2>4, EndsAreNumbers
    <3> QED BY <2>4, <2>7, <2>9, <3>1 DEF LinesAt
  <2>11. PICK r \in Nat : r = reach
    BY <2>7, <2>8
  <2>12. /\ r <= Len(new) /\ r <= Len(lines)
         /\ \A k \in 1..r : Pieces(new)[k] = lines[k]
    <3>1. r <= EndX(T, n)
      BY <2>7, <2>8, <2>11
    <3> QED BY <2>7, <2>9, <2>10, <3>1
  <2> DEFINE pref == SubSeq(Pieces(new), 0 + 1, 0 + r)
             kept == SubSeq(lines, 0 + 1, 0 + r)
  <2>13. pref \in Seq(PieceSet) /\ Len(pref) = r /\ \A k \in 1..r : pref[k] = Pieces(new)[0 + k]
    <3>1. PICK u \in Seq(PieceSet), z \in Nat : u = Pieces(new) /\ z = 0
      BY <2>9
    <3>2. z + r <= Len(u)
      BY <2>9, <2>12, <3>1
    <3>3. /\ SubSeq(u, z + 1, z + r) \in Seq(PieceSet) /\ Len(SubSeq(u, z + 1, z + r)) = r
          /\ \A k \in 1..r : SubSeq(u, z + 1, z + r)[k] = u[z + k]
      BY <3>2, Slice
    <3> QED BY <3>1, <3>3
  <2>14. kept \in Seq(PieceSet) /\ Len(kept) = r /\ \A k \in 1..r : kept[k] = lines[0 + k]
    BY <2>10, <2>12, Slice
  <2>15. 0 + 1 = 1 /\ 0 + r = r
    OBVIOUS
  <2>16. pref = SubSeq(Pieces(new), 1, r) /\ kept = SubSeq(lines, 1, r)
    BY <2>15
  <2> HIDE DEF pref, kept
  <2>17. pref = kept
    BY <2>12, <2>13, <2>14, SeqEqual
  <2>18. SubSeq(pref, 1, r) = pref
    BY <2>13, SubSeqFull
  <2> QED BY <2>11, <2>12, <2>13, <2>16, <2>17, <2>18 DEF IsPrefix
<1> QED BY <1>1, <1>2, PTL

\* Where every line ends in "\n", applying the delta to the newer text gives the older one,
\* line for line and byte for byte: what checkout and every read of a chain rest on.
THEOREM DeltaRoundTrip ==
  MaxParts = 1 /\ Endings = {"lf"} => (Spec => []RoundTrip)
<1> SUFFICES ASSUME MaxParts = 1, Endings = {"lf"} PROVE Spec => []RoundTrip
  OBVIOUS
<1>1. Spec => []DeltaInv
  BY DeltaInvariant
<1>2. DeltaInv => RoundTrip
  <2> SUFFICES ASSUME DeltaInv, pc = "done" PROVE lines = Pieces(old)
    BY DEF RoundTrip
  <2>1. old \in Texts /\ LinesAt(lines, new, old, 0, 0)
    BY DEF DeltaInv
  <2>2. /\ Pieces(old) \in Seq(PieceSet) /\ Len(Pieces(old)) = Len(old) /\ Len(old) \in Nat
        /\ \A k \in 1..Len(old) : Pieces(old)[k] = Piece(old[k])
    BY <2>1, TextShape
  <2>3. /\ lines \in Seq(PieceSet) /\ Len(lines) = Len(old)
        /\ \A k \in 1..Len(old) : lines[k].word = old[k].parts[1]
    <3>1. Len(old) - 0 = Len(old) /\ 0 + Len(old) = Len(old)
      BY <2>2
    <3>2. \A k \in 1..Len(old) : 0 + k = k
      BY <2>2
    <3> QED BY <2>1, <3>1, <3>2 DEF LinesAt
  <2>4. ASSUME NEW k \in 1..Len(old) PROVE lines[k] = Pieces(old)[k]
    <3>1. lines[k] \in PieceSet /\ Pieces(old)[k] \in PieceSet
      BY <2>2, <2>3, ElementOfSeq
    <3>2. lines[k].word = Pieces(old)[k].word
      <4>1. Pieces(old)[k] = Piece(old[k])
        BY <2>2
      <4>2. Piece(old[k]).word = old[k].parts[1]
        BY DEF Piece
      <4> QED BY <2>3, <4>1, <4>2
    <3>3. \A p \in PieceSet : p = [word |-> p.word, end |-> "lf"]
      BY DEF PieceSet
    <3> QED BY <3>1, <3>2, <3>3
  <2> QED BY <2>2, <2>3, <2>4, SeqEqual
<1> QED BY <1>1, <1>2, PTL

-------------------------------------------------------------------------------
(* The tracker. *)

Indices  == 1..Len(head)
EntrySet == [head_index : {None} \cup Indices, blame : Nat]

\* An entry stands where the line it follows stands.
Shows(entry, w) == entry.head_index # None => head[entry.head_index].word = w

\* The lines that are followed keep their order.
Ordered(tr) ==
  \A p, q \in 1..Len(tr) :
    p < q /\ tr[p].head_index # None /\ tr[q].head_index # None
      => tr[p].head_index < tr[q].head_index

\* A line of head is followed as long as it has no answer.
Settled(tr, fin, n) ==
  /\ fin \in [Indices -> {None} \cup 0..n]
  /\ \A h \in Indices : (\E p \in 1..Len(tr) : tr[p].head_index = h) <=> fin[h] = None

\* The tracker is a text, line for line, n deltas behind HEAD.
Mirrors(tr, fin, n, text) ==
  /\ tr \in Seq(EntrySet) /\ Len(tr) = Len(text)
  /\ \A k \in 1..Len(text) : tr[k].blame = n /\ Shows(tr[k], text[k].parts[1])
  /\ Ordered(tr) /\ Settled(tr, fin, n)

\* It is the newer text's up to x, and from there on the older one's from y on.
Track(tr, fin, n, nw, ow, x, y) ==
  /\ tr \in Seq(EntrySet) /\ Len(tr) = x + (Len(ow) - y)
  /\ \A k \in 1..x : tr[k].blame = n /\ Shows(tr[k], nw[k].parts[1])
  /\ \A k \in 1..(Len(ow) - y) : Shows(tr[x + k], ow[y + k].parts[1])
  /\ Ordered(tr) /\ Settled(tr, fin, n)

\* Before anything is applied it is that of the newer text.
LEMMA TrackStart ==
  ASSUME NEW nw \in Texts, NEW ow \in Texts, MaxParts = 1, NEW tr, NEW fin, NEW n,
         Mirrors(tr, fin, n, nw)
  PROVE  Track(tr, fin, n, nw, ow, Len(nw), Len(ow))
<1>1. Len(nw) \in Nat /\ Len(ow) \in Nat
  BY TextShape
<1>2. Len(ow) - Len(ow) = 0 /\ 1..0 = {} /\ Len(nw) + 0 = Len(nw)
  BY <1>1
<1> QED BY <1>1, <1>2 DEF Track, Mirrors

\* Equal lines are the same in both.
LEMMA TrackRetreat ==
  ASSUME NEW nw \in Texts, NEW ow \in Texts, MaxParts = 1, NEW tr, NEW fin, NEW n,
         NEW x \in Nat, NEW y \in Nat, NEW x1 \in Nat, NEW y1 \in Nat,
         x1 <= Len(nw), y1 <= Len(ow),
         Track(tr, fin, n, nw, ow, x1, y1), EqualRun(nw, ow, x, y, x1, y1)
  PROVE  Track(tr, fin, n, nw, ow, x, y)
<1>1. Len(ow) \in Nat /\ Len(nw) \in Nat
  BY TextShape
<1>2. x <= x1 /\ y <= y1 /\ x1 - x = y1 - y
  BY DEF EqualRun
<1>3. tr \in Seq(EntrySet) /\ Len(tr) = x + (Len(ow) - y) /\ Ordered(tr) /\ Settled(tr, fin, n)
  <2>1. tr \in Seq(EntrySet) /\ Len(tr) = x1 + (Len(ow) - y1) /\ Ordered(tr)
        /\ Settled(tr, fin, n)
    BY DEF Track
  <2>2. x1 + (Len(ow) - y1) = x + (Len(ow) - y)
    BY <1>1, <1>2
  <2> QED BY <2>1, <2>2
<1>4. \A k \in 1..x : tr[k].blame = n /\ Shows(tr[k], nw[k].parts[1])
  <2>1. \A k \in 1..x : k \in 1..x1
    BY <1>2
  <2> QED BY <2>1 DEF Track
<1>5. ASSUME NEW k \in 1..(Len(ow) - y) PROVE Shows(tr[x + k], ow[y + k].parts[1])
  <2>1. CASE k <= x1 - x
    <3>1. k \in 1..(x1 - x) /\ x + k \in 1..x1
      BY <1>1, <1>2, <2>1
    <3>2. Same(nw[x + k], ow[y + k]) /\ Shows(tr[x + k], nw[x + k].parts[1])
      BY <3>1 DEF EqualRun, Track
    <3> QED BY <3>2 DEF Same
  <2>2. CASE ~(k <= x1 - x)
    <3> DEFINE m == k - (x1 - x)
    <3>1. m \in 1..(Len(ow) - y1) /\ x1 + m = x + k /\ y1 + m = y + k
      BY <1>1, <1>2, <2>2
    <3> HIDE DEF m
    <3>2. Shows(tr[x1 + m], ow[y1 + m].parts[1])
      BY <3>1 DEF Track
    <3> QED BY <3>1, <3>2
  <2> QED BY <2>1, <2>2
<1> QED BY <1>3, <1>4, <1>5 DEF Track

\* A sequence with something else between its x-th element and the one after the z-th.
Splice(s, x, m, z) == SubSeq(s, 1, x) \o m \o SubSeq(s, z + 1, Len(s))

\* Its elements are those of the three parts.
IsSplice(t, S, s, x, m, z) ==
  /\ t \in Seq(S) /\ Len(t) = (x + Len(m)) + (Len(s) - z)
  /\ \A k \in 1..x : t[k] = s[k]
  /\ \A k \in 1..Len(m) : t[x + k] = m[k]
  /\ \A k \in 1..(Len(s) - z) : t[(x + Len(m)) + k] = s[z + k]

\* So are those of a splice.
LEMMA Spliced ==
  ASSUME NEW S, NEW s \in Seq(S), NEW m \in Seq(S), NEW x \in Nat, NEW z \in Nat,
         x <= z, z <= Len(s)
  PROVE  IsSplice(Splice(s, x, m, z), S, s, x, m, z)
<1> DEFINE front == SubSeq(s, 1, x)
           back == SubSeq(s, z + 1, Len(s))
           t == (front \o m) \o back
<1>1. PICK n \in Nat, r \in Nat : n = Len(m) /\ r = Len(s) - z /\ z + r = Len(s) /\ Len(s) \in Nat
  <2>1. Len(m) \in Nat /\ Len(s) \in Nat /\ Len(s) - z \in Nat /\ z + (Len(s) - z) = Len(s)
    BY LenProperties
  <2> QED BY <2>1
<1>2. front \in Seq(S) /\ Len(front) = x /\ \A k \in 1..x : front[k] = s[k]
  <2>1. 0 \in Nat /\ 0 + x <= Len(s) /\ 0 + 1 = 1 /\ 0 + x = x /\ \A k \in 1..x : 0 + k = k
    BY <1>1
  <2>2. /\ SubSeq(s, 0 + 1, 0 + x) \in Seq(S) /\ Len(SubSeq(s, 0 + 1, 0 + x)) = x
        /\ \A k \in 1..x : SubSeq(s, 0 + 1, 0 + x)[k] = s[0 + k]
    BY <2>1, Slice
  <2> QED BY <2>1, <2>2
<1>3. back \in Seq(S) /\ Len(back) = r /\ \A k \in 1..r : back[k] = s[z + k]
  <2>1. z + r <= Len(s)
    BY <1>1
  <2>2. /\ SubSeq(s, z + 1, z + r) \in Seq(S) /\ Len(SubSeq(s, z + 1, z + r)) = r
        /\ \A k \in 1..r : SubSeq(s, z + 1, z + r)[k] = s[z + k]
    BY <2>1, Slice
  <2> QED BY <1>1, <2>2
<1> HIDE DEF front, back
<1>4. /\ front \o m \in Seq(S) /\ Len(front \o m) = x + n
      /\ \A k \in 1..(x + n) : (front \o m)[k] = IF k <= x THEN front[k] ELSE m[k - x]
  BY <1>1, <1>2, EndToEnd
<1>5. /\ t \in Seq(S) /\ Len(t) = (x + n) + r
      /\ \A k \in 1..((x + n) + r) :
           t[k] = IF k <= x + n THEN (front \o m)[k] ELSE back[k - (x + n)]
  <2> DEFINE u == front \o m
  <2>1. PICK w \in Nat : w = x + n
    OBVIOUS
  <2>2. u \in Seq(S) /\ Len(u) = w
    BY <1>4, <2>1
  <2> HIDE DEF u
  <2>3. /\ u \o back \in Seq(S) /\ Len(u \o back) = w + r
        /\ \A k \in 1..(w + r) : (u \o back)[k] = IF k <= w THEN u[k] ELSE back[k - w]
    BY <1>3, <2>2, ConcatProperties
  <2> QED BY <2>1, <2>3 DEF u
<1> HIDE DEF t
<1>6. \A k \in 1..x : t[k] = s[k]
  <2>1. \A k \in 1..x : k \in 1..((x + n) + r) /\ k \in 1..(x + n) /\ k <= x + n /\ k <= x
    OBVIOUS
  <2> QED BY <1>2, <1>4, <1>5, <2>1
<1>7. \A k \in 1..n : t[x + k] = m[k]
  <2>1. \A k \in 1..n : /\ x + k \in 1..((x + n) + r) /\ x + k \in 1..(x + n) /\ x + k <= x + n
                         /\ ~(x + k <= x) /\ (x + k) - x = k
    OBVIOUS
  <2> QED BY <1>4, <1>5, <2>1
<1>8. \A k \in 1..r : t[(x + n) + k] = s[z + k]
  <2>1. \A k \in 1..r : /\ (x + n) + k \in 1..((x + n) + r) /\ ~((x + n) + k <= x + n)
                         /\ ((x + n) + k) - (x + n) = k
    OBVIOUS
  <2> QED BY <1>3, <1>5, <2>1
<1>9. Splice(s, x, m, z) = t
  BY DEF Splice, t, front, back
<1> QED BY <1>1, <1>5, <1>6, <1>7, <1>8, <1>9 DEF IsSplice

\* Ghosts stand for lines of the older text that HEAD does not have.
LEMMA TrackInserted ==
  ASSUME NEW nw \in Texts, NEW ow \in Texts, MaxParts = 1, NEW tr, NEW fin,
         depth \in Nat, NEW x \in Nat, NEW y \in Nat, NEW n \in Nat, y + n <= Len(ow),
         Track(tr, fin, depth, nw, ow, x, y + n)
  PROVE  Track(GhostsIn(tr, x, n), fin, depth, nw, ow, x, y)
<1> DEFINE mid  == [k \in 1..n |-> Ghost(depth + 1)]
           more == GhostsIn(tr, x, n)
<1>0. Len(ow) \in Nat
  BY TextShape
<1>1. PICK r \in Nat : r = Len(ow) - (y + n)
  <2>1. Len(ow) - (y + n) \in Nat
    BY <1>0
  <2> QED BY <2>1
<1>2. tr \in Seq(EntrySet) /\ Len(tr) = x + r /\ Len(tr) \in Nat /\ Ordered(tr)
      /\ Settled(tr, fin, depth)
  BY <1>1 DEF Track
<1>3. mid \in Seq(EntrySet) /\ Len(mid) = n /\ \A k \in 1..n : mid[k].head_index = None
  <2>1. Ghost(depth + 1) \in EntrySet /\ Ghost(depth + 1).head_index = None
    BY DEF Ghost, EntrySet
  <2>2. mid \in [1..n -> EntrySet] /\ \A k \in 1..n : mid[k].head_index = None
    BY <2>1
  <2> HIDE DEF mid
  <2> QED BY <2>2, FunctionIsSeq
<1> HIDE DEF mid
<1>4. /\ more \in Seq(EntrySet) /\ Len(more) = (x + n) + r
      /\ \A k \in 1..x : more[k] = tr[k]
      /\ \A k \in 1..n : more[x + k] = mid[k]
      /\ \A k \in 1..r : more[(x + n) + k] = tr[x + k]
  <2>1. Least(x, Len(tr)) = x
    BY <1>2 DEF Least
  <2>2. more = Splice(tr, x, mid, x)
    BY <2>1 DEF GhostsIn, mid, Splice
  <2>3. x <= x /\ x <= Len(tr)
    BY <1>2
  <2>4. tr \in Seq(EntrySet)
    BY <1>2
  <2>6. mid \in Seq(EntrySet)
    BY <1>3
  <2>7. Len(tr) - x = r
    BY <1>2
  <2> HIDE DEF more
  <2>5. IsSplice(Splice(tr, x, mid, x), EntrySet, tr, x, mid, x)
    BY <2>3, <2>4, <2>6, Spliced
  <2> QED BY <1>3, <2>2, <2>5, <2>7 DEF IsSplice
<1> HIDE DEF more
<1>5. ASSUME NEW p \in 1..((x + n) + r), more[p].head_index # None
      PROVE  \/ p \in 1..x /\ more[p] = tr[p]
             \/ p > x + n /\ p - n \in (x + 1)..(x + r) /\ more[p] = tr[p - n]
  <2>1. CASE p <= x
    <3>1. p \in 1..x
      BY <2>1
    <3> QED BY <1>4, <3>1
  <2>2. CASE p > x /\ p <= x + n
    <3>1. PICK l \in 1..n : p = x + l
      <4>1. p - x \in 1..n /\ p = x + (p - x)
        BY <2>2
      <4> QED BY <4>1
    <3> QED BY <1>3, <1>4, <1>5, <3>1
  <2>3. CASE p > x + n
    <3>1. PICK l \in 1..r : p = (x + n) + l
      <4>1. p - (x + n) \in 1..r /\ p = (x + n) + (p - (x + n))
        BY <2>3
      <4> QED BY <4>1
    <3>2. p - n = x + l
      BY <3>1
    <3>3. more[(x + n) + l] = tr[x + l]
      BY <1>4
    <3>4. x + l \in (x + 1)..(x + r)
      OBVIOUS
    <3> QED BY <2>3, <3>1, <3>2, <3>3, <3>4
  <2> QED BY <2>1, <2>2, <2>3
<1>6. Ordered(more)
  <2> SUFFICES ASSUME NEW p \in 1..((x + n) + r), NEW q \in 1..((x + n) + r), p < q,
                      more[p].head_index # None, more[q].head_index # None
               PROVE  more[p].head_index < more[q].head_index
    BY <1>4 DEF Ordered
  <2>1. \E p1 \in 1..(x + r), q1 \in 1..(x + r) :
          p1 < q1 /\ more[p] = tr[p1] /\ more[q] = tr[q1]
    <3>1. CASE p \in 1..x /\ more[p] = tr[p]
      <4>1. CASE q \in 1..x /\ more[q] = tr[q]
        <5>1. p \in 1..(x + r) /\ q \in 1..(x + r)
          BY <3>1, <4>1
        <5> QED BY <3>1, <4>1, <5>1
      <4>2. CASE q - n \in (x + 1)..(x + r) /\ more[q] = tr[q - n]
        <5>1. p \in 1..(x + r) /\ q - n \in 1..(x + r) /\ p < q - n
          BY <3>1, <4>2
        <5> QED BY <3>1, <4>2, <5>1
      <4> QED BY <1>5, <4>1, <4>2
    <3>2. CASE p > x + n /\ p - n \in (x + 1)..(x + r) /\ more[p] = tr[p - n]
      <4>1. ~(q \in 1..x)
        BY <3>2
      <4>2. q - n \in (x + 1)..(x + r) /\ more[q] = tr[q - n]
        BY <1>5, <4>1
      <4>3. p - n \in 1..(x + r) /\ q - n \in 1..(x + r) /\ p - n < q - n
        BY <3>2, <4>2
      <4> QED BY <3>2, <4>2, <4>3
    <3> QED BY <1>5, <3>1, <3>2
  <2> QED BY <1>2, <2>1 DEF Ordered
<1>7. Settled(more, fin, depth)
  <2> SUFFICES ASSUME NEW h \in Indices
               PROVE  (\E p \in 1..Len(more) : more[p].head_index = h)
                        <=> (\E p \in 1..Len(tr) : tr[p].head_index = h)
    BY <1>2 DEF Settled
  <2>0. h # None
    BY LenProperties DEF Indices, None
  <2>1. ASSUME NEW p \in 1..Len(more), more[p].head_index = h
        PROVE  \E q \in 1..Len(tr) : tr[q].head_index = h
    <3>1. p \in 1..((x + n) + r)
      BY <1>4
    <3>2. CASE p \in 1..x /\ more[p] = tr[p]
      <4>1. p \in 1..Len(tr)
        BY <1>2, <3>2
      <4> QED BY <2>1, <3>2, <4>1
    <3>3. CASE p - n \in (x + 1)..(x + r) /\ more[p] = tr[p - n]
      <4>1. p - n \in 1..Len(tr)
        BY <1>2, <3>3
      <4> QED BY <2>1, <3>3, <4>1
    <3> QED BY <1>5, <2>0, <2>1, <3>1, <3>2, <3>3
  <2>2. ASSUME NEW p \in 1..Len(tr), tr[p].head_index = h
        PROVE  \E q \in 1..Len(more) : more[q].head_index = h
    <3>1. CASE p <= x
      <4>1. p \in 1..x /\ p \in 1..Len(more)
        BY <1>2, <1>4, <3>1
      <4> QED BY <1>4, <2>2, <4>1
    <3>2. CASE ~(p <= x)
      <4>1. PICK l \in 1..r : p = x + l
        <5>1. p - x \in 1..r /\ p = x + (p - x)
          BY <1>2, <3>2
        <5> QED BY <5>1
      <4>2. more[(x + n) + l] = tr[x + l]
        BY <1>4
      <4>3. (x + n) + l \in 1..Len(more)
        BY <1>4
      <4> QED BY <2>2, <4>1, <4>2, <4>3
    <3> QED BY <3>1, <3>2
  <2> QED BY <2>1, <2>2
<1>8. \A k \in 1..x : more[k].blame = depth /\ Shows(more[k], nw[k].parts[1])
  BY <1>4 DEF Track
<1>9. Len(ow) - y = n + r
  BY <1>0, <1>1
<1>10. ASSUME NEW k \in 1..(n + r) PROVE Shows(more[x + k], ow[y + k].parts[1])
  <2>1. CASE k <= n
    <3>1. k \in 1..n
      BY <2>1
    <3> QED BY <1>3, <1>4, <3>1 DEF Shows
  <2>2. CASE ~(k <= n)
    <3>1. PICK l \in 1..r : k = n + l
      <4>1. k - n \in 1..r /\ k = n + (k - n)
        BY <2>2
      <4> QED BY <4>1
    <3>2. x + k = (x + n) + l /\ y + k = (y + n) + l
      BY <3>1
    <3>3. Shows(tr[x + l], ow[(y + n) + l].parts[1])
      BY <1>1 DEF Track
    <3> QED BY <1>4, <3>2, <3>3
  <2> QED BY <2>1, <2>2
<1>11. Len(more) = x + (n + r)
  BY <1>4
<1>12. Track(more, fin, depth, nw, ow, x, y)
  BY <1>4, <1>6, <1>7, <1>8, <1>9, <1>10, <1>11 DEF Track
<1> QED BY <1>12 DEF more


\* The lines that are deleted were born in the version reached, which is their answer.
LEMMA TrackDeleted ==
  ASSUME NEW nw \in Texts, NEW ow \in Texts, MaxParts = 1,
         depth \in Nat, NEW x \in Nat, NEW y \in Nat, NEW n \in Nat, y <= Len(ow),
         Track(tracker, final, depth, nw, ow, x + n, y)
  PROVE  Track(Deleted(tracker, x + 1, n), Finalised(x + 1, n), depth, nw, ow, x, y)
<1> DEFINE tr   == tracker
           less == Deleted(tr, x + 1, n)
           fin  == Finalised(x + 1, n)
<1>0. Len(ow) \in Nat /\ Len(ow) - y \in Nat
  <2>1. Len(ow) \in Nat
    BY TextShape
  <2> QED BY <2>1
<1>1. PICK r \in Nat : r = Len(ow) - y
  BY <1>0
<1>2. tr \in Seq(EntrySet) /\ Len(tr) = (x + n) + r /\ Len(tr) \in Nat /\ Ordered(tr)
      /\ Settled(tr, final, depth)
  BY <1>1 DEF Track
<1>3. /\ less \in Seq(EntrySet) /\ Len(less) = x + r
      /\ \A k \in 1..x : less[k] = tr[k]
      /\ \A k \in 1..r : less[x + k] = tr[(x + n) + k]
  <2>1. Least((x + 1) - 1, Len(tr)) = x /\ (x + 1) + n = (x + n) + 1
    BY <1>2 DEF Least
  <2>2. less = SubSeq(tr, 1, x) \o SubSeq(tr, (x + n) + 1, Len(tr))
    BY <2>1 DEF Deleted
  <2>3. SubSeq(tr, 1, x) \in Seq(EntrySet)
    <3>1. 0 \in Nat /\ 0 + x <= Len(tr) /\ 0 + 1 = 1 /\ 0 + x = x
      BY <1>2
    <3>2. SubSeq(tr, 0 + 1, 0 + x) \in Seq(EntrySet)
      BY <1>2, <3>1, Slice
    <3> QED BY <3>1, <3>2
  <2>4. SubSeq(tr, 1, x) \o <<>> = SubSeq(tr, 1, x)
    BY <2>3, ConcatEmptySeq
  <2>5. less = Splice(tr, x, <<>>, x + n)
    BY <2>2, <2>4 DEF Splice
  <2>6. x <= x + n /\ x + n <= Len(tr) /\ x + n \in Nat
    BY <1>2
  <2>7. tr \in Seq(EntrySet)
    BY <1>2
  <2>8. <<>> \in Seq(EntrySet) /\ Len(<<>>) = 0
    OBVIOUS
  <2> HIDE DEF less, tr
  <2>9. IsSplice(Splice(tr, x, <<>>, x + n), EntrySet, tr, x, <<>>, x + n)
    BY <2>6, <2>7, <2>8, Spliced
  <2>10. (x + 0) + (Len(tr) - (x + n)) = x + r /\ Len(tr) - (x + n) = r
         /\ \A k \in 1..r : (x + 0) + k = x + k
    BY <1>2
  <2> QED BY <2>5, <2>8, <2>9, <2>10 DEF IsSplice
<1> HIDE DEF less, tr
<1>4. \A p \in 1..(x + r) :
        \/ p \in 1..x /\ less[p] = tr[p]
        \/ p > x /\ p + n \in ((x + n) + 1)..((x + n) + r) /\ less[p] = tr[p + n]
  <2> SUFFICES ASSUME NEW p \in 1..(x + r)
               PROVE  \/ p \in 1..x /\ less[p] = tr[p]
                      \/ p > x /\ p + n \in ((x + n) + 1)..((x + n) + r) /\ less[p] = tr[p + n]
    OBVIOUS
  <2>1. CASE p <= x
    <3>1. p \in 1..x
      BY <2>1
    <3> QED BY <1>3, <3>1
  <2>2. CASE ~(p <= x)
    <3>1. PICK l \in 1..r : p = x + l
      <4>1. p - x \in 1..r /\ p = x + (p - x)
        BY <2>2
      <4> QED BY <4>1
    <3>2. less[x + l] = tr[(x + n) + l]
      BY <1>3
    <3>3. p + n = (x + n) + l /\ (x + n) + l \in ((x + n) + 1)..((x + n) + r)
      BY <3>1
    <3> QED BY <2>2, <3>1, <3>2, <3>3
  <2> QED BY <2>1, <2>2
<1>5. Ordered(less)
  <2> SUFFICES ASSUME NEW p \in 1..(x + r), NEW q \in 1..(x + r), p < q,
                      less[p].head_index # None, less[q].head_index # None
               PROVE  less[p].head_index < less[q].head_index
    BY <1>3 DEF Ordered
  <2>1. \E p1, q1 \in 1..((x + n) + r) : p1 < q1 /\ less[p] = tr[p1] /\ less[q] = tr[q1]
    <3>1. CASE p \in 1..x /\ less[p] = tr[p]
      <4>1. CASE q \in 1..x /\ less[q] = tr[q]
        <5>1. p \in 1..((x + n) + r) /\ q \in 1..((x + n) + r)
          BY <3>1, <4>1
        <5> QED BY <3>1, <4>1, <5>1
      <4>2. CASE q + n \in ((x + n) + 1)..((x + n) + r) /\ less[q] = tr[q + n]
        <5>1. p \in 1..((x + n) + r) /\ q + n \in 1..((x + n) + r) /\ p < q + n
          BY <3>1, <4>2
        <5> QED BY <3>1, <4>2, <5>1
      <4> QED BY <1>4, <4>1, <4>2
    <3>2. CASE p > x /\ p + n \in ((x + n) + 1)..((x + n) + r) /\ less[p] = tr[p + n]
      <4>1. ~(q \in 1..x)
        BY <3>2
      <4>2. q + n \in ((x + n) + 1)..((x + n) + r) /\ less[q] = tr[q + n]
        BY <1>4, <4>1
      <4>3. p + n \in 1..((x + n) + r) /\ q + n \in 1..((x + n) + r) /\ p + n < q + n
        BY <3>2, <4>2
      <4> QED BY <3>2, <4>2, <4>3
    <3> QED BY <1>4, <3>1, <3>2
  <2> QED BY <1>2, <2>1 DEF Ordered
\* A line is followed at one place only.
<1>6. ASSUME NEW p \in 1..Len(tr), NEW q \in 1..Len(tr), NEW h \in Indices,
             tr[p].head_index = h, tr[q].head_index = h
      PROVE  p = q
  <2>1. h # None /\ h \in Nat
    BY LenProperties DEF Indices, None
  <2>2. ~(p < q) /\ ~(q < p)
    BY <1>2, <1>6, <2>1 DEF Ordered
  <2> QED BY <1>2, <2>2
<1> DEFINE gone == (x + 1)..(x + n)
<1>7. /\ gone = (x + 1)..Least((x + 1) + n - 1, Len(tr))
      /\ \A p \in gone : p \in 1..Len(tr) /\ p \in 1..(x + n)
  <2>1. (x + 1) + n - 1 = x + n
    OBVIOUS
  <2>2. Least(x + n, Len(tr)) = x + n
    BY <1>2 DEF Least
  <2> QED BY <1>2, <2>1, <2>2
<1>8. /\ final \in [Indices -> {None} \cup 0..depth] /\ DOMAIN final = Indices
      /\ \A h \in Indices : (\E p \in 1..Len(tr) : tr[p].head_index = h) <=> final[h] = None
  BY <1>2 DEF Settled
<1>9. ASSUME NEW h \in Indices
      PROVE  fin[h] = IF \E p \in gone : tr[p].head_index = h THEN depth ELSE final[h]
  <2>1. fin[h] = IF \E p \in gone : tr[p].head_index = h
                 THEN (CHOOSE e \in ToSet(tr) : e.head_index = h).blame
                 ELSE final[h]
    <3> DEFINE G == (x + 1)..Least((x + 1) + n - 1, Len(tracker))
    <3>1. gone = G
      BY <1>7 DEF tr
    <3> HIDE DEF gone
    <3>2. fin = [h1 \in DOMAIN final |->
                   IF \E p \in G : tr[p].head_index = h1
                   THEN (CHOOSE e \in ToSet(tr) : e.head_index = h1).blame
                   ELSE final[h1]]
      BY DEF Finalised, tr
    <3> HIDE DEF G, fin
    <3> QED BY <1>8, <3>1, <3>2
  <2>2. ASSUME NEW p \in gone, tr[p].head_index = h
        PROVE  (CHOOSE e \in ToSet(tr) : e.head_index = h).blame = depth
    <3>1. p \in 1..Len(tr) /\ p \in 1..(x + n)
      BY <1>7
    <3>2. tr[p].blame = depth
      BY <3>1 DEF Track, tr
    <3>3. ToSet(tr) = {tr[q] : q \in 1..Len(tr)}
      BY <1>2, LenProperties DEF ToSet
    <3>4. \E e \in ToSet(tr) : e.head_index = h
      BY <2>2, <3>1, <3>3
    <3>5. PICK e \in ToSet(tr) : e.head_index = h /\ e = (CHOOSE f \in ToSet(tr) : f.head_index = h)
      BY <3>4
    <3>6. PICK q \in 1..Len(tr) : e = tr[q]
      BY <3>3
    <3>7. q = p
      BY <1>6, <2>2, <3>1, <3>5, <3>6
    <3> QED BY <3>2, <3>5, <3>6, <3>7
  <2> QED BY <2>1, <2>2
<1> HIDE DEF gone
<1>10. Settled(less, fin, depth)
  <2>1. fin \in [Indices -> {None} \cup 0..depth]
    <3>1. DOMAIN fin = Indices /\ fin = [h \in Indices |-> fin[h]]
      BY <1>8 DEF Finalised
    <3>2. \A h \in Indices : fin[h] \in {None} \cup 0..depth
      <4>1. depth \in 0..depth
        OBVIOUS
      <4> HIDE DEF fin
      <4> QED BY <1>8, <1>9, <4>1
    <3> HIDE DEF fin
    <3> QED BY <3>1, <3>2
  <2> HIDE DEF fin
  <2> SUFFICES ASSUME NEW h \in Indices
               PROVE  (\E p \in 1..Len(less) : less[p].head_index = h) <=> fin[h] = None
    BY <2>1 DEF Settled
  <2>2. depth # None
    BY DEF None
  <2>3. CASE \E p \in gone : tr[p].head_index = h
    <3>1. PICK q \in gone : tr[q].head_index = h
      BY <2>3
    <3>2. fin[h] # None
      BY <1>9, <2>2, <2>3
    <3>3. ASSUME NEW p \in 1..Len(less), less[p].head_index = h PROVE FALSE
      <4>1. q \in 1..Len(tr) /\ q > x /\ q <= x + n /\ p \in 1..(x + r)
        BY <1>3, <1>7, <3>1 DEF gone
      <4>2. CASE p \in 1..x /\ less[p] = tr[p]
        <5>1. p \in 1..Len(tr)
          BY <1>2, <4>2
        <5>2. p = q
          BY <1>6, <3>1, <3>3, <4>1, <4>2, <5>1
        <5> QED BY <4>1, <4>2, <5>2
      <4>3. CASE p > x /\ p + n \in ((x + n) + 1)..((x + n) + r) /\ less[p] = tr[p + n]
        <5>1. p + n \in 1..Len(tr) /\ p + n > x + n
          BY <1>2, <4>3
        <5>2. p + n = q
          BY <1>6, <3>1, <3>3, <4>1, <4>3, <5>1
        <5> QED BY <4>1, <5>1, <5>2
      <4> QED BY <1>4, <4>1, <4>2, <4>3
    <3> QED BY <3>2, <3>3
  <2>4. CASE ~ \E p \in gone : tr[p].head_index = h
    <3>1. fin[h] = final[h]
      BY <1>9, <2>4
    <3>2. ASSUME NEW p \in 1..Len(less), less[p].head_index = h
          PROVE  \E q \in 1..Len(tr) : tr[q].head_index = h
      <4>0. p \in 1..(x + r)
        BY <1>3
      <4>1. CASE p \in 1..x /\ less[p] = tr[p]
        <5>1. p \in 1..Len(tr)
          BY <1>2, <4>1
        <5> QED BY <3>2, <4>1, <5>1
      <4>2. CASE p + n \in ((x + n) + 1)..((x + n) + r) /\ less[p] = tr[p + n]
        <5>1. p + n \in 1..Len(tr)
          BY <1>2, <4>2
        <5> QED BY <3>2, <4>2, <5>1
      <4> QED BY <1>4, <4>0, <4>1, <4>2
    <3>3. ASSUME NEW p \in 1..Len(tr), tr[p].head_index = h
          PROVE  \E q \in 1..Len(less) : less[q].head_index = h
      <4>1. CASE p <= x
        <5>1. p \in 1..x /\ p \in 1..Len(less)
          BY <1>2, <1>3, <4>1
        <5> QED BY <1>3, <3>3, <5>1
      <4>2. CASE p > x /\ p <= x + n
        <5>1. p \in gone
          BY <1>2, <4>2 DEF gone
        <5> QED BY <2>4, <3>3, <5>1
      <4>3. CASE p > x + n
        <5>1. PICK l \in 1..r : p = (x + n) + l
          <6>1. p - (x + n) \in 1..r /\ p = (x + n) + (p - (x + n))
            BY <1>2, <4>3
          <6> QED BY <6>1
        <5>2. less[x + l] = tr[(x + n) + l]
          BY <1>3
        <5>3. x + l \in 1..Len(less)
          BY <1>3
        <5> QED BY <3>3, <5>1, <5>2, <5>3
      <4> QED BY <1>2, <4>1, <4>2, <4>3
    <3> QED BY <1>8, <3>1, <3>2, <3>3
  <2> QED BY <2>3, <2>4
<1>11. \A k \in 1..x : less[k].blame = depth /\ Shows(less[k], nw[k].parts[1])
  <2>1. \A k \in 1..x : k \in 1..(x + n)
    OBVIOUS
  <2>2. \A k \in 1..x : tr[k].blame = depth /\ Shows(tr[k], nw[k].parts[1])
    BY <2>1 DEF Track, tr
  <2> QED BY <1>3, <2>2
<1>12. \A k \in 1..(Len(ow) - y) : Shows(less[x + k], ow[y + k].parts[1])
  <2>1. \A k \in 1..r : Shows(tr[(x + n) + k], ow[y + k].parts[1])
    BY <1>1 DEF Track, tr
  <2> QED BY <1>1, <1>3, <2>1
<1> HIDE DEF fin
<1>13. Track(less, fin, depth, nw, ow, x, y)
  BY <1>1, <1>3, <1>5, <1>10, <1>11, <1>12 DEF Track
<1> QED BY <1>13 DEF less, fin, tr

\* What is left when a delta is applied belongs to the older version.
LEMMA TrackSurvives ==
  ASSUME NEW nw \in Texts, NEW ow \in Texts, MaxParts = 1, depth \in Nat,
         Track(tracker, final, depth, nw, ow, 0, 0)
  PROVE  Mirrors([p \in DOMAIN tracker |-> [tracker[p] EXCEPT !.blame = depth + 1]],
                 final, depth + 1, ow)
<1> DEFINE kept == [p \in DOMAIN tracker |-> [tracker[p] EXCEPT !.blame = depth + 1]]
<1>0. PICK n \in Nat : n = Len(ow)
  BY TextShape
<1>1. /\ tracker \in Seq(EntrySet) /\ Len(tracker) = n /\ DOMAIN tracker = 1..n
      /\ Ordered(tracker) /\ Settled(tracker, final, depth)
  <2>1. 0 + (Len(ow) - 0) = n
    BY <1>0
  <2>2. tracker \in Seq(EntrySet) /\ Len(tracker) = n /\ Ordered(tracker)
        /\ Settled(tracker, final, depth)
    BY <2>1 DEF Track
  <2> QED BY <2>2, LenProperties
<1>2. \A k \in 1..n : tracker[k] \in EntrySet
  BY <1>1, ElementOfSeq
<1>3. \A k \in 1..n : /\ kept[k] \in EntrySet /\ kept[k].blame = depth + 1
                      /\ kept[k].head_index = tracker[k].head_index
  BY <1>1, <1>2 DEF EntrySet
<1>4. kept \in Seq(EntrySet) /\ Len(kept) = n
  <2>1. kept \in [1..n -> EntrySet]
    BY <1>1, <1>3
  <2> HIDE DEF kept
  <2> QED BY <2>1, FunctionIsSeq
<1> HIDE DEF kept
<1>5. Ordered(kept)
  BY <1>1, <1>3, <1>4 DEF Ordered
<1>6. Settled(kept, final, depth + 1)
  <2>1. \A v : v \in {None} \cup 0..depth => v \in {None} \cup 0..(depth + 1)
    OBVIOUS
  <2>2. final \in [Indices -> {None} \cup 0..(depth + 1)]
    BY <1>1, <2>1 DEF Settled
  <2> QED BY <1>1, <1>3, <1>4, <2>2 DEF Settled
<1>7. \A k \in 1..n : Shows(kept[k], ow[k].parts[1])
  <2>1. \A k \in 1..n : 0 + k = k
    OBVIOUS
  <2>2. \A k \in 1..n : Shows(tracker[k], ow[k].parts[1])
    <3>1. \A k \in 1..(Len(ow) - 0) : Shows(tracker[0 + k], ow[0 + k].parts[1])
      BY DEF Track
    <3>2. Len(ow) - 0 = n
      BY <1>0
    <3> QED BY <2>1, <3>1, <3>2
  <2> QED BY <1>3, <2>2 DEF Shows
<1>8. Mirrors(kept, final, depth + 1, ow)
  BY <1>0, <1>3, <1>4, <1>5, <1>6, <1>7 DEF Mirrors
<1> QED BY <1>8 DEF kept

-------------------------------------------------------------------------------
(* The commands that blame has read. *)

CommandAt(T, m) ==
  [cmd |-> T[m].cmd, at |-> LineOf(T[m]), count |-> T[m].count, order |-> m - 1]
CommandsIn(T, S) == {CommandAt(T, m) : m \in S}

\* No two are the same.
LEMMA CommandsDiffer ==
  ASSUME NEW T, NEW l \in Int, NEW m \in Int, CommandAt(T, l) = CommandAt(T, m)
  PROVE  l = m
<1>1. l - 1 = m - 1
  BY DEF CommandAt
<1> QED BY <1>1

\* There are as many as have been read.
LEMMA CommandsNumbered ==
  ASSUME NEW T, NEW n \in Nat
  PROVE  IsFiniteSet(CommandsIn(T, 1..n)) /\ Cardinality(CommandsIn(T, 1..n)) = n
<1> DEFINE C(m) == CommandsIn(T, 1..m)
           S == {m \in 0..n : IsFiniteSet(C(m)) /\ Cardinality(C(m)) = m}
<1>1. 0 \in S
  <2>1. C(0) = {}
    BY DEF CommandsIn
  <2> QED BY <2>1, FS_EmptySet
<1>2. ASSUME NEW m \in 0..(n - 1), m \in S PROVE m + 1 \in S
  <2>1. C(m + 1) = C(m) \cup {CommandAt(T, m + 1)}
    <3>1. 1..(m + 1) = 1..m \cup {m + 1}
      OBVIOUS
    <3> QED BY <3>1 DEF CommandsIn
  <2>2. CommandAt(T, m + 1) \notin C(m)
    <3>1. \A l \in 1..m : CommandAt(T, l) # CommandAt(T, m + 1)
      BY CommandsDiffer
    <3> QED BY <3>1 DEF CommandsIn
  <2>3. IsFiniteSet(C(m)) /\ Cardinality(C(m)) = m
    BY <1>2
  <2> HIDE DEF C
  <2>4. IsFiniteSet(C(m + 1)) /\ Cardinality(C(m + 1)) = m + 1
    BY <2>1, <2>2, <2>3, FS_AddElement
  <2> QED BY <2>4
<1> HIDE DEF S
<1>3. n \in S
  <2>1. \A m \in 0..(n - 1) : m \in S => m + 1 \in S
    BY <1>2
  <2>2. \A m \in 0..n : m \in S
    BY <1>1, <2>1, InductionUpTo
  <2> QED BY <2>2
<1> QED BY <1>3 DEF S

\* Insertions at one line are alike: their sort key says nothing of the order.
Alike(T, l, q) ==
  l = q \/ (T[l].cmd = "a" /\ T[q].cmd = "a" /\ T[l].x = T[q].x)

\* A command comes before those written earlier, unless it is like them.
LEMMA LaterFirst ==
  ASSUME NEW nw, NEW ow, NEW T, NEW x, NEW y, NEW scr,
         Trace(T, nw, ow, x, y, scr), NEW m \in 1..Len(T), NEW n \in 1..(m - 1),
         ~Alike(T, n, m)
  PROVE  BlamedBefore(CommandAt(T, m), CommandAt(T, n))
<1>0. Len(T) \in Nat
  BY LenProperties DEF Trace
<1>1. n \in 1..Len(T) /\ n \in 0..(m - 1) /\ m - 1 \in 0..Len(T) /\ n \in 0..Len(T)
  BY <1>0
<1>2. /\ T[m] \in Steps /\ T[n] \in Steps /\ EndX(T, m - 1) <= T[m].x
      /\ EndX(T, n) = T[n].x + (IF T[n].cmd = "d" THEN T[n].count ELSE 0)
  BY <1>1, OneStepOn
<1>3. EndX(T, n) <= EndX(T, m - 1)
  BY <1>1, EndsGrow
<1>4. EndX(T, n) \in Nat /\ EndX(T, m - 1) \in Nat
  BY <1>1, EndsAreNumbers DEF Trace
<1>5. /\ T[m].cmd \in {"a", "d"} /\ T[m].x \in Nat /\ T[n].cmd \in {"a", "d"} /\ T[n].x \in Nat
      /\ T[n].count \in Nat /\ T[n].count # 0
  BY <1>2 DEF Steps
<1>6. Precedes(CommandOf(T, m, ow), CommandOf(T, n, ow))
  BY LastPrecedes
<1>7. \/ LineOf(T[m]) > LineOf(T[n])
      \/ LineOf(T[m]) = LineOf(T[n]) /\ T[m].cmd = "a" /\ T[n].cmd = "d"
      \/ LineOf(T[m]) = LineOf(T[n]) /\ T[m].cmd = T[n].cmd
  BY <1>6 DEF Precedes, CommandOf
<1>8. ~(LineOf(T[m]) = LineOf(T[n]) /\ T[m].cmd = T[n].cmd)
  <2> SUFFICES ASSUME LineOf(T[m]) = LineOf(T[n]), T[m].cmd = T[n].cmd PROVE FALSE
    OBVIOUS
  <2>1. T[m].x = T[n].x
    BY <1>5 DEF LineOf
  <2>2. T[n].cmd = "d"
    BY <1>5, <2>1 DEF Alike
  <2>3. EndX(T, n) = T[n].x + T[n].count
    BY <1>2, <2>2
  <2> QED BY <1>2, <1>3, <1>4, <1>5, <2>1, <2>3
<1> QED BY <1>7, <1>8 DEF BlamedBefore, CommandAt

\* Commands that are alike follow each other, and nothing is between them.
LEMMA AlikeBetween ==
  ASSUME NEW nw, NEW ow, NEW T, NEW x, NEW y, NEW scr, Trace(T, nw, ow, x, y, scr),
         NEW q \in 1..Len(T), NEW g \in 1..q, Alike(T, g, q), NEW l \in g..q
  PROVE  /\ Alike(T, l, q) /\ EndX(T, l) = EndX(T, q) /\ T[l].x = T[g].x
         /\ l < q => T[l + 1].y = EndY(T, l)
<1>0. Len(T) \in Nat /\ T \in Seq(Steps)
  BY LenProperties DEF Trace
<1>1. /\ g \in 1..Len(T) /\ l \in 1..Len(T) /\ l \in 0..q /\ g \in 0..l /\ l \in Nat
      /\ q \in 0..Len(T) /\ l \in 0..Len(T) /\ g \in 0..Len(T)
  BY <1>0
<1>2. /\ EndX(T, g) \in Nat /\ EndX(T, l) \in Nat /\ EndX(T, q) \in Nat
      /\ EndY(T, l) \in Nat
  BY <1>0, <1>1, EndsAreNumbers
<1>3. EndX(T, g) <= EndX(T, l) /\ EndX(T, l) <= EndX(T, q)
  BY <1>1, EndsGrow
<1>4. CASE g = q
  <2>1. l = q
    BY <1>1, <1>4
  <2> QED BY <1>4, <2>1 DEF Alike
<1>5. CASE g # q
  <2>1. T[g].cmd = "a" /\ T[q].cmd = "a" /\ T[g].x = T[q].x
    BY <1>5 DEF Alike
  <2>2. EndX(T, g) = T[g].x /\ EndX(T, q) = T[q].x
    BY <1>1, <2>1 DEF EndX
  <2>3. EndX(T, l) = T[g].x /\ T[g].x \in Nat
    BY <1>2, <1>3, <2>1, <2>2
  <2>4. ASSUME NEW m \in (g + 1)..q
        PROVE  T[m].x = T[g].x /\ T[m].cmd = "a" /\ T[m].y = EndY(T, m - 1)
    <3>1. /\ m \in 1..Len(T) /\ m - 1 \in 0..m /\ m - 1 \in 0..Len(T) /\ m \in 0..q
          /\ g \in 0..(m - 1) /\ m \in 0..Len(T)
      BY <1>0, <1>1
    <3>2. /\ EndX(T, g) <= EndX(T, m - 1) /\ EndX(T, m) <= EndX(T, q)
      BY <1>1, <3>1, EndsGrow
    <3>3. /\ T[m] \in Steps /\ StepOf(T, m, nw, ow, scr)
          /\ EndX(T, m - 1) <= T[m].x
          /\ EndX(T, m) = T[m].x + (IF T[m].cmd = "d" THEN T[m].count ELSE 0)
      BY <3>1, OneStepOn
    <3>4. /\ T[m].cmd \in {"a", "d"} /\ T[m].x \in Nat /\ T[m].y \in Nat
          /\ T[m].count \in Nat /\ T[m].count # 0
      BY <3>3 DEF Steps
    <3>5. EndX(T, m - 1) \in Nat /\ EndX(T, m) \in Nat /\ EndY(T, m - 1) \in Nat
      BY <1>0, <3>1, EndsAreNumbers
    <3>6. T[m].cmd # "d"
      <4> SUFFICES ASSUME T[m].cmd = "d" PROVE FALSE
        OBVIOUS
      <4>1. EndX(T, m) = T[m].x + T[m].count
        BY <3>3
      <4> QED BY <2>1, <2>2, <2>3, <3>2, <3>3, <3>4, <3>5, <4>1, SMTT(20)
    <3>7. EndX(T, m) = T[m].x
      BY <3>3, <3>4, <3>6
    <3>8. T[m].x = T[g].x /\ EndX(T, m - 1) = T[m].x
      BY <2>1, <2>2, <2>3, <3>2, <3>3, <3>4, <3>5, <3>7
    <3>9. T[m].x - EndX(T, m - 1) = T[m].y - EndY(T, m - 1)
      BY <3>3 DEF StepOf, EqualRun
    <3>10. T[m].y = EndY(T, m - 1)
      BY <3>4, <3>5, <3>8, <3>9
    <3> QED BY <3>4, <3>6, <3>8, <3>10
  <2>5. T[l].x = T[g].x /\ T[l].cmd = "a"
    <3>1. CASE l = g
      BY <2>1, <3>1
    <3>2. CASE l # g
      <4>1. l \in (g + 1)..q
        BY <1>1, <3>2
      <4> QED BY <2>4, <4>1
    <3> QED BY <3>1, <3>2
  <2>6. l < q => T[l + 1].y = EndY(T, l)
    <3> SUFFICES ASSUME l < q PROVE T[l + 1].y = EndY(T, l)
      OBVIOUS
    <3>1. l + 1 \in (g + 1)..q /\ (l + 1) - 1 = l
      BY <1>1
    <3>2. T[l + 1].y = EndY(T, (l + 1) - 1)
      BY <2>4, <3>1
    <3> QED BY <3>1, <3>2
  <2> QED BY <2>1, <2>2, <2>3, <2>5, <2>6 DEF Alike
<1> QED BY <1>4, <1>5

-------------------------------------------------------------------------------
(* The commands are applied. *)

\* The commands from g to q are alike; m is the next of them, those after q have been
\* applied.  Ghosts of one version are all the same, whichever insertion brings them.
Grouped(T, cs, tr, fin, n, nw, ow, g, m, q) ==
  /\ q \in 1..Len(T) /\ g \in 1..q /\ m \in g..q
  /\ \A l \in g..q : Alike(T, l, q)
  /\ \A l \in 1..(g - 1) : ~Alike(T, l, q)
  /\ cs = CommandsIn(T, 1..(g - 1) \cup m..q)
  /\ Track(tr, fin, n, nw, ow, EndX(T, q), EndY(T, q) - (T[m].y - T[g].y))

\* No command is left, and the tracker is that of the older text.
Drained(cs, tr, fin, n, nw, ow) == cs = {} /\ Track(tr, fin, n, nw, ow, 0, 0)

Applying(T, cs, tr, fin, n, nw, ow) ==
  \/ Drained(cs, tr, fin, n, nw, ow)
  \/ \E g, m, q \in Nat : Grouped(T, cs, tr, fin, n, nw, ow, g, m, q)

\* When those after the n-th have been applied, a group is next.
LEMMA NextGroup ==
  ASSUME NEW nw, NEW ow, NEW T, NEW full, Trace(T, nw, ow, Len(nw), Len(ow), full),
         NEW n \in 0..Len(T), NEW cs, NEW tr, NEW fin, NEW v,
         cs = CommandsIn(T, 1..n), Track(tr, fin, v, nw, ow, EndX(T, n), EndY(T, n))
  PROVE  Applying(T, cs, tr, fin, v, nw, ow)
<1>0. Len(T) \in Nat /\ T \in Seq(Steps)
  BY LenProperties DEF Trace
<1>1. CASE n = 0
  <2>1. EndX(T, n) = 0 /\ EndY(T, n) = 0 /\ 1..n = {}
    BY <1>1 DEF EndX, EndY
  <2> QED BY <2>1 DEF Applying, Drained, CommandsIn
<1>2. CASE n # 0
  <2> DEFINE G == {l \in 1..n : Alike(T, l, n)}
  <2>1. n \in 1..Len(T) /\ n \in 1..n /\ n \in Nat
    BY <1>0, <1>2
  <2>2. n \in G /\ G \in SUBSET Nat
    BY <2>1 DEF Alike
  <2>3. PICK g \in G : \A l \in G : g <= l
    BY <2>2, LeastNatural
  <2>4. g \in 1..n /\ Alike(T, g, n) /\ g \in g..n /\ g \in Nat
    BY <2>1, <2>3
  <2>5. \A l \in g..n : Alike(T, l, n)
    BY <2>1, <2>4, AlikeBetween
  <2>6. \A l \in 1..(g - 1) : ~Alike(T, l, n)
    <3>1. \A l \in 1..(g - 1) : l \in 1..n /\ ~(g <= l)
      BY <2>1, <2>4
    <3> QED BY <2>3, <3>1
  <2>7. 1..n = 1..(g - 1) \cup g..n
    BY <2>1, <2>4
  <2>8. EndY(T, n) - (T[g].y - T[g].y) = EndY(T, n)
    <3>1. g \in 1..Len(T) /\ n \in 0..Len(T)
      BY <2>1, <2>4
    <3>2. T[g] \in Steps /\ EndY(T, n) \in Nat
      BY <1>0, <3>1, OneStepOn, EndsAreNumbers
    <3>3. T[g].y \in Nat
      BY <3>2 DEF Steps
    <3> QED BY <3>2, <3>3
  <2> HIDE DEF G
  <2>9. Grouped(T, cs, tr, fin, v, nw, ow, g, g, n)
    BY <2>1, <2>4, <2>5, <2>6, <2>7, <2>8 DEF Grouped
  <2> QED BY <2>1, <2>4, <2>9 DEF Applying
<1> QED BY <1>1, <1>2

\* Of the commands that are left the next one of the group is the first to be applied.
LEMMA NextIsFirst ==
  ASSUME NEW T, NEW full, Trace(T, new, old, Len(new), Len(old), full),
         NEW g \in Nat, NEW m \in Nat, NEW q \in Nat, Grouped(T, commands, tracker, final, depth, new, old, g, m, q),
         NEW c \in commands, \A d \in commands \ {c} : ~BlamedBefore(d, c)
  PROVE  c = CommandAt(T, m)
<1>0. Len(T) \in Nat
  BY LenProperties DEF Trace
<1>1. /\ q \in 1..Len(T) /\ g \in 1..q /\ m \in g..q /\ m \in 1..Len(T)
      /\ commands = CommandsIn(T, 1..(g - 1) \cup m..q)
  BY <1>0 DEF Grouped
<1>2. PICK l \in 1..(g - 1) \cup m..q : c = CommandAt(T, l)
  BY <1>1 DEF CommandsIn
<1>3. SUFFICES ASSUME l # m PROVE FALSE
  BY <1>2
<1>4. CommandAt(T, m) \in commands \ {c}
  <2>1. m \in 1..(g - 1) \cup m..q /\ l \in Int /\ m \in Int
    BY <1>1
  <2>2. CommandAt(T, m) # c
    BY <1>2, <1>3, <2>1, CommandsDiffer
  <2> QED BY <1>1, <2>1, <2>2 DEF CommandsIn
<1>5. BlamedBefore(CommandAt(T, m), CommandAt(T, l))
  <2>1. CASE l \in 1..(g - 1)
    <3>1. l \in 1..(m - 1)
      BY <1>1, <2>1
    <3>2. ~Alike(T, l, m)
      <4>1. ~Alike(T, l, q) /\ Alike(T, m, q) /\ l # q
        BY <1>1, <2>1 DEF Grouped
      <4> QED BY <3>1, <4>1 DEF Alike
    <3> QED BY <1>1, <3>1, <3>2, LaterFirst
  <2>2. CASE l \in m..q
    <3>1. l > m /\ l \in g..q /\ l - 1 > m - 1 /\ m # q
      BY <1>1, <1>3, <2>2
    <3>2. Alike(T, l, q) /\ Alike(T, m, q)
      BY <1>1, <3>1 DEF Grouped
    <3>3. T[l].cmd = "a" /\ T[m].cmd = "a" /\ T[l].x = T[m].x
      BY <3>1, <3>2 DEF Alike
    <3> QED BY <3>1, <3>3 DEF BlamedBefore, CommandAt, LineOf
  <2> QED BY <2>1, <2>2
<1> QED BY <1>2, <1>4, <1>5

\* It is applied: ghosts for the lines that it brings back, or a version for those it
\* takes away.
LEMMA BlameApplyStep ==
  ASSUME MaxParts = 1, new \in Texts, old \in Texts, depth \in Nat,
         NEW T, NEW full, Trace(T, new, old, Len(new), Len(old), full),
         Applying(T, commands, tracker, final, depth, new, old), BlameApply
  PROVE  Applying(T, commands', tracker', final', depth', new', old')
<1>1. /\ commands # {} /\ new' = new /\ old' = old /\ depth' = depth
  BY DEF BlameApply, texts
<1>2. PICK g, m, q \in Nat : Grouped(T, commands, tracker, final, depth, new, old, g, m, q)
  BY <1>1 DEF Applying, Drained
<1>3. PICK c \in commands :
        /\ \A d \in commands \ {c} : ~BlamedBefore(d, c)
        /\ \/ /\ c.cmd = "d"
              /\ final' = Finalised(c.at, c.count)
              /\ tracker' = Deleted(tracker, c.at, c.count)
           \/ /\ c.cmd = "a"
              /\ tracker' = GhostsIn(tracker, c.at, c.count)
              /\ final' = final
        /\ commands' = commands \ {c}
  BY DEF BlameApply
<1>4. c = CommandAt(T, m)
  BY <1>2, <1>3, NextIsFirst
<1>5. Len(T) \in Nat /\ T \in Seq(Steps)
  BY LenProperties DEF Trace
<1>6. /\ q \in 1..Len(T) /\ g \in 1..q /\ m \in g..q /\ Alike(T, g, q) /\ Alike(T, m, q)
      /\ commands = CommandsIn(T, 1..(g - 1) \cup m..q)
  <2>1. q \in 1..Len(T) /\ g \in 1..q /\ m \in g..q
    BY <1>2 DEF Grouped
  <2>2. g \in g..q
    BY <2>1
  <2> QED BY <1>2, <2>1, <2>2 DEF Grouped
<1>7. /\ m \in 1..Len(T) /\ g \in 1..Len(T) /\ g - 1 \in 0..Len(T) /\ m \in 0..q
      /\ q \in 0..Len(T) /\ m \in 0..Len(T)
  BY <1>5, <1>6
<1>8. /\ EndX(T, m) = EndX(T, q) /\ T[m].x = T[g].x
      /\ m < q => T[m + 1].y = EndY(T, m)
  BY <1>6, AlikeBetween
<1>9. /\ T[m] \in Steps /\ StepOf(T, m, new, old, full)
      /\ EndX(T, m) = T[m].x + (IF T[m].cmd = "d" THEN T[m].count ELSE 0)
      /\ EndY(T, m) = T[m].y + (IF T[m].cmd = "a" THEN T[m].count ELSE 0)
  BY <1>7, OneStepOn
<1>10. /\ T[g] \in Steps /\ StepOf(T, g, new, old, full) /\ EndY(T, g - 1) <= T[g].y
  BY <1>7, OneStepOn
<1>11. /\ T[m].cmd \in {"a", "d"} /\ T[m].x \in Nat /\ T[m].y \in Nat
       /\ T[m].count \in Nat /\ T[g].y \in Nat /\ T[g].x \in Nat
  BY <1>9, <1>10 DEF Steps
<1>12. EndY(T, m) <= EndY(T, q) /\ EndY(T, q) <= Len(old) /\ EndY(T, q) \in Nat
       /\ EndY(T, m) \in Nat /\ Len(old) \in Nat /\ Len(new) \in Nat
  <2>1. EndY(T, m) <= EndY(T, q)
    BY <1>7, EndsGrow
  <2>2. EndY(T, q) <= Len(old)
    BY <1>6, OneStepOn DEF StepOf
  <2>3. EndY(T, q) \in Nat /\ EndY(T, m) \in Nat
    BY <1>5, <1>7, EndsAreNumbers
  <2> QED BY <2>1, <2>2, <2>3, TextShape
<1>13. c.cmd = T[m].cmd /\ c.at = LineOf(T[m]) /\ c.count = T[m].count
  BY <1>4 DEF CommandAt
<1>14. PICK y \in Nat : /\ y = (EndY(T, q) - (T[m].y - T[g].y)) - (IF T[m].cmd = "a" THEN T[m].count ELSE 0)
                        /\ y <= Len(old)
                        /\ m = q => y = T[g].y
                        /\ T[m].cmd = "a" /\ m < q => y = EndY(T, q) - (T[m + 1].y - T[g].y)
                        /\ T[m].cmd = "a" => y + T[m].count = EndY(T, q) - (T[m].y - T[g].y)
                                             /\ y + T[m].count <= Len(old)
                        /\ T[m].cmd = "d" => y = EndY(T, q) - (T[m].y - T[g].y)
  <2>1. T[g].y <= T[m].y
    <3>1. CASE g = m
      BY <1>11, <3>1
    <3>2. CASE g # m
      <4>1. m - 1 \in 0..Len(T) /\ g \in 0..(m - 1) /\ g \in 0..Len(T)
        BY <1>6, <1>7, <3>2
      <4>2. EndY(T, g) <= EndY(T, m - 1) /\ EndY(T, m - 1) <= T[m].y
        BY <1>7, <4>1, EndsGrow, OneStepOn
      <4>3. EndY(T, g) = T[g].y + (IF T[g].cmd = "a" THEN T[g].count ELSE 0)
        BY <1>7, OneStepOn
      <4>4. T[g].cmd = "a" /\ T[g].count \in Nat
        <5>1. g # q
          BY <1>6, <3>2
        <5> QED BY <1>6, <1>10, <5>1 DEF Alike, Steps
      <4>5. EndY(T, g) = T[g].y + T[g].count
        BY <4>3, <4>4
      <4>6. EndY(T, g) \in Nat /\ EndY(T, m - 1) \in Nat
        BY <1>5, <4>1, EndsAreNumbers
      <4> QED BY <1>11, <4>2, <4>4, <4>5, <4>6, SMTT(20)
    <3> QED BY <3>1, <3>2
  <2>2. CASE T[m].cmd = "a"
    <3> DEFINE z == (EndY(T, q) - (T[m].y - T[g].y)) - T[m].count
    <3>1. EndY(T, m) = T[m].y + T[m].count
      BY <1>9, <2>2
    <3>2. z \in Nat /\ z + T[m].count <= Len(old) /\ z <= Len(old)
          /\ z + T[m].count = EndY(T, q) - (T[m].y - T[g].y)
      <4>1. PICK a, b, k, r, s \in Nat :
              /\ a = EndY(T, q) /\ b = T[m].y /\ k = T[m].count /\ r = T[g].y /\ s = Len(old)
        BY <1>11, <1>12
      <4>2. b + k <= a /\ a <= s /\ r <= b
        BY <1>12, <2>1, <3>1, <4>1
      <4>3. /\ (a - (b - r)) - k \in Nat /\ ((a - (b - r)) - k) + k <= s
            /\ (a - (b - r)) - k <= s /\ ((a - (b - r)) - k) + k = a - (b - r)
        BY <4>2
      <4> QED BY <4>1, <4>3
    <3>3. m = q => z = T[g].y
      BY <1>11, <1>12, <3>1, SMTT(60)
    <3>4. m < q => z = EndY(T, q) - (T[m + 1].y - T[g].y)
      <4> SUFFICES ASSUME m < q PROVE z = EndY(T, q) - (T[m + 1].y - T[g].y)
        OBVIOUS
      <4>1. T[m + 1].y = T[m].y + T[m].count
        BY <1>8, <3>1
      <4>2. PICK a, b, k, r \in Nat :
              a = EndY(T, q) /\ b = T[m].y /\ k = T[m].count /\ r = T[g].y
        BY <1>11, <1>12
      <4>3. (a - (b - r)) - k = a - ((b + k) - r)
        OBVIOUS
      <4> QED BY <4>1, <4>2, <4>3
    <3>5. z = (EndY(T, q) - (T[m].y - T[g].y)) - (IF T[m].cmd = "a" THEN T[m].count ELSE 0)
      BY <2>2
    <3> HIDE DEF z
    <3> QED BY <2>2, <3>2, <3>3, <3>4, <3>5
  <2>3. CASE T[m].cmd = "d"
    <3> DEFINE z == EndY(T, q) - (T[m].y - T[g].y)
    <3>1. m = q /\ g = q
      BY <1>6, <2>3 DEF Alike
    <3>2. z = EndY(T, m) /\ EndY(T, m) = T[m].y
      BY <1>9, <1>11, <1>12, <2>3, <3>1
    <3>3. z = z - (IF T[m].cmd = "a" THEN T[m].count ELSE 0) /\ z \in Nat /\ z <= Len(old)
      BY <1>12, <2>3, <3>2, <3>1
    <3> HIDE DEF z
    <3> QED BY <2>3, <3>1, <3>2, <3>3 DEF z
  <2> QED BY <1>11, <2>2, <2>3
<1>15. Track(tracker, final, depth, new, old, EndX(T, q), EndY(T, q) - (T[m].y - T[g].y))
  BY <1>2 DEF Grouped
<1>16. Track(tracker', final', depth, new, old, T[m].x, y)
  <2>1. CASE T[m].cmd = "a"
    <3>1. tracker' = GhostsIn(tracker, T[m].x, T[m].count) /\ final' = final
      BY <1>3, <1>13, <2>1 DEF LineOf
    <3>2. Track(tracker, final, depth, new, old, T[m].x, y + T[m].count)
      <4>1. EndX(T, q) = T[m].x
        BY <1>8, <1>9, <1>11, <2>1
      <4> QED BY <1>14, <1>15, <2>1, <4>1
    <3>3. Track(GhostsIn(tracker, T[m].x, T[m].count), final, depth, new, old, T[m].x, y)
      BY <1>11, <1>14, <2>1, <3>2, TrackInserted
    <3> QED BY <3>1, <3>3
  <2>2. CASE T[m].cmd = "d"
    <3>1. tracker' = Deleted(tracker, T[m].x + 1, T[m].count)
          /\ final' = Finalised(T[m].x + 1, T[m].count)
      BY <1>3, <1>13, <2>2 DEF LineOf
    <3>2. Track(tracker, final, depth, new, old, T[m].x + T[m].count, y)
      <4>1. EndX(T, q) = T[m].x + T[m].count
        BY <1>8, <1>9, <2>2
      <4> QED BY <1>14, <1>15, <2>2, <4>1
    <3>3. Track(Deleted(tracker, T[m].x + 1, T[m].count), Finalised(T[m].x + 1, T[m].count),
                depth, new, old, T[m].x, y)
      BY <1>11, <1>14, <3>2, TrackDeleted
    <3> QED BY <3>1, <3>3
  <2> QED BY <1>11, <2>1, <2>2
<1>17. commands' = CommandsIn(T, 1..(g - 1) \cup (m + 1)..q)
  <2>1. \A l \in 1..(g - 1) \cup m..q : l # m <=> l \in 1..(g - 1) \cup (m + 1)..q
    BY <1>6
  <2>2. \A l \in 1..(g - 1) \cup (m + 1)..q : l \in 1..(g - 1) \cup m..q
    BY <1>6
  <2>3. \A l \in 1..(g - 1) \cup m..q : l # m => CommandAt(T, l) # CommandAt(T, m)
    BY <1>6, CommandsDiffer
  <2> QED BY <1>3, <1>4, <1>6, <2>1, <2>2, <2>3 DEF CommandsIn
<1>18. CASE m < q
  <2>1. T[m].cmd = "a"
    BY <1>6, <1>18 DEF Alike
  <2>2. m + 1 \in g..q /\ m + 1 \in Nat
    BY <1>6, <1>18
  <2>3. EndX(T, q) = T[m].x
    BY <1>8, <1>9, <1>11, <2>1
  <2>4. Track(tracker', final', depth', new', old', EndX(T, q),
              EndY(T, q) - (T[m + 1].y - T[g].y))
    BY <1>1, <1>14, <1>16, <1>18, <2>1, <2>3
  <2>5. Grouped(T, commands', tracker', final', depth', new', old', g, m + 1, q)
    BY <1>2, <1>6, <1>17, <2>2, <2>4 DEF Grouped
  <2> QED BY <2>2, <2>5 DEF Applying
<1>19. CASE ~(m < q)
  <2>1. m = q /\ (m + 1)..q = {} /\ g - 1 \in Nat
    BY <1>6, <1>19
  <2>2. commands' = CommandsIn(T, 1..(g - 1))
    BY <1>17, <2>1
  <2>3. Track(tracker', final', depth, new, old, T[g].x, T[g].y)
    BY <1>8, <1>14, <1>16, <2>1
  <2>4. EndX(T, g - 1) \in Nat /\ EndY(T, g - 1) \in Nat
    BY <1>5, <1>7, EndsAreNumbers
  <2>5. T[g].x <= Len(new) /\ T[g].y <= Len(old)
    <3>1. T[g].x <= EndX(T, g) /\ EndX(T, g) \in Nat /\ EndX(T, g) <= Len(new)
      <4>1. EndX(T, g) = T[g].x + (IF T[g].cmd = "d" THEN T[g].count ELSE 0)
        BY <1>7, OneStepOn
      <4>2. T[g].count \in Nat
        BY <1>10 DEF Steps
      <4>3. EndX(T, g) <= Len(new)
        BY <1>10 DEF StepOf
      <4> QED BY <1>11, <4>1, <4>2, <4>3
    <3>2. T[g].y <= Len(old)
      BY <1>14, <2>1
    <3> QED BY <1>11, <1>12, <3>1, <3>2
  <2>6. EqualRun(new, old, EndX(T, g - 1), EndY(T, g - 1), T[g].x, T[g].y)
    BY <1>10 DEF StepOf
  <2>7. Track(tracker', final', depth, new, old, EndX(T, g - 1), EndY(T, g - 1))
    BY <1>11, <2>3, <2>4, <2>5, <2>6, TrackRetreat
  <2>8. /\ Trace(T, new', old', Len(new'), Len(old'), full)
        /\ Track(tracker', final', depth', new', old', EndX(T, g - 1), EndY(T, g - 1))
    BY <1>1, <2>7
  <2> QED BY <1>7, <2>2, <2>8, NextGroup
<1> QED BY <1>6, <1>18, <1>19

-------------------------------------------------------------------------------
(* The commands are read. *)

\* An encoder leaves no more of a script than there is.
LEMMA ScriptLeft ==
  ASSUME NEW S, NEW full \in Seq(S), NEW scr, LeftOf(full, scr)
  PROVE  Len(scr) \in Nat /\ Len(full) \in Nat /\ Len(scr) <= Len(full)
<1>1. Len(full) \in Nat
  BY LenProperties
<1>2. CASE scr = full
  BY <1>1, <1>2
<1>3. CASE full # <<>> /\ scr = SubSeq(full, 1, Len(full) - 1)
  <2>1. Len(full) # 0
    BY <1>3, EmptySeq
  <2>2. PICK k \in Nat : k = Len(full) - 1
    BY <1>1, <2>1
  <2>3. 0 \in Nat /\ 0 + k <= Len(full) /\ 0 + 1 = 1 /\ 0 + k = k
    BY <1>1, <2>2
  <2>4. Len(SubSeq(full, 0 + 1, 0 + k)) = k
    BY <2>3, Slice
  <2> QED BY <1>1, <1>3, <2>2, <2>3, <2>4
<1> QED BY <1>2, <1>3 DEF LeftOf

\* The reader stands at a command, and those before it have been read.
Reading(T, n) ==
  /\ n < Len(T) /\ next = T[n + 1].s /\ commands = CommandsIn(T, 1..n)
  /\ Mirrors(tracker, final, depth, new)

\* The reader is through.
Through(T) ==
  /\ next \in Nat /\ Len(script) \in Nat /\ next > Len(script)
  /\ Applying(T, commands, tracker, final, depth, new, old)

Blaming(T, full) ==
  /\ Trace(T, new, old, Len(new), Len(old), full) /\ LeftOf(full, script)
  /\ Through(T) \/ \E n \in 0..Len(T) : Reading(T, n)

\* When all have been read they can be applied.
LEMMA AllBlamed ==
  ASSUME MaxParts = 1, NEW nw \in Texts, NEW ow \in Texts,
         NEW T, NEW full, Trace(T, nw, ow, Len(nw), Len(ow), full),
         NEW tr, NEW fin, NEW v, Mirrors(tr, fin, v, nw)
  PROVE  Applying(T, CommandsIn(T, 1..Len(T)), tr, fin, v, nw, ow)
<1>1. T \in Seq(Steps) /\ Len(T) \in Nat /\ Len(T) \in 0..Len(T)
  BY LenProperties DEF Trace
<1>2. EndX(T, Len(T)) \in Nat /\ EndY(T, Len(T)) \in Nat
  BY <1>1, EndsAreNumbers
<1>3. Len(nw) \in Nat /\ Len(ow) \in Nat /\ Len(nw) <= Len(nw) /\ Len(ow) <= Len(ow)
  BY TextShape
<1>4. EqualRun(nw, ow, EndX(T, Len(T)), EndY(T, Len(T)), Len(nw), Len(ow))
  BY DEF Trace
<1>5. Track(tr, fin, v, nw, ow, Len(nw), Len(ow))
  BY TrackStart
<1>6. Track(tr, fin, v, nw, ow, EndX(T, Len(T)), EndY(T, Len(T)))
  BY <1>2, <1>3, <1>4, <1>5, TrackRetreat
<1> QED BY <1>1, <1>6, NextGroup

\* HEAD does not change, so that what is said of the tracker is said of the next one too.
LEMMA SameHead ==
  ASSUME head' = head
  PROVE  /\ (\A T : Applying(T, commands', tracker', final', depth', new', old')
                      => Applying(T, commands, tracker, final, depth, new, old)')
         /\ Mirrors(tracker', final', depth', new') => Mirrors(tracker, final, depth, new)'
         /\ Mirrors(tracker', final', depth', old') => Mirrors(tracker, final, depth, old)'
<1>1. Indices' = Indices /\ EntrySet' = EntrySet
  BY DEF Indices, EntrySet
<1>2. ASSUME NEW nw, Mirrors(tracker', final', depth', nw)
      PROVE  Mirrors(tracker, final, depth, nw)'
  <2>1. Ordered(tracker)' /\ Settled(tracker, final, depth)'
    BY <1>1, <1>2 DEF Mirrors, Ordered, Settled
  <2>2. \A k \in 1..Len(nw) : (tracker[k].blame = depth /\ Shows(tracker[k], nw[k].parts[1]))'
    BY <1>2 DEF Mirrors, Shows
  <2> QED BY <1>1, <1>2, <2>1, <2>2 DEF Mirrors
<1>3. ASSUME NEW nw, NEW ow, NEW x, NEW y,
             Track(tracker', final', depth', nw, ow, x, y)
      PROVE  Track(tracker, final, depth, nw, ow, x, y)'
  <2>1. Ordered(tracker)' /\ Settled(tracker, final, depth)'
    BY <1>1, <1>3 DEF Track, Ordered, Settled
  <2>2. \A k \in 1..x : (tracker[k].blame = depth /\ Shows(tracker[k], nw[k].parts[1]))'
    BY <1>3 DEF Track, Shows
  <2>3. \A k \in 1..(Len(ow) - y) : Shows(tracker[x + k], ow[y + k].parts[1])'
    BY <1>3 DEF Track, Shows
  <2> QED BY <1>1, <1>3, <2>1, <2>2, <2>3 DEF Track
<1>4. ASSUME NEW T, Applying(T, commands', tracker', final', depth', new', old')
      PROVE  Applying(T, commands, tracker, final, depth, new, old)'
  <2>1. CASE Drained(commands', tracker', final', depth', new', old')
    BY <2>1, <1>3 DEF Applying, Drained
  <2>2. CASE \E g, m, q \in Nat :
               Grouped(T, commands', tracker', final', depth', new', old', g, m, q)
    <3>1. PICK g \in Nat, m \in Nat, q \in Nat :
            Grouped(T, commands', tracker', final', depth', new', old', g, m, q)
      BY <2>2
    <3>2. Grouped(T, commands, tracker, final, depth, new, old, g, m, q)'
      BY <3>1, <1>3 DEF Grouped
    <3> QED BY <3>2 DEF Applying
  <2> QED BY <1>4, <2>1, <2>2 DEF Applying
<1> QED BY <1>2, <1>4

\* A script is taken up at its first command.
LEMMA StartBlameKeeps ==
  ASSUME MaxParts = 1, new \in Texts, old \in Texts, DiffInv,
         Mirrors(tracker, final, depth, new), StartBlame
  PROVE  \E T, full : Blaming(T, full)'
<1>1. PICK T : Trace(T, new, old, i, j, script)
  BY DEF DiffInv
<1>2. /\ Trace(T, new, old, Len(new), Len(old), script) /\ next' = 1 /\ commands' = {}
      /\ new' = new /\ old' = old /\ head' = head /\ tracker' = tracker /\ final' = final
      /\ depth' = depth
  BY <1>1 DEF StartBlame, DiffInv, texts, reader, blameVars
<1>3. T \in Seq(Steps) /\ Len(T) \in Nat /\ script \in Seq(Words \cup Commands)
      /\ Len(script) = EndS(T, Len(T)) - 1 /\ Len(script) \in Nat
  BY <1>1, LenProperties DEF Trace
<1>4. LeftOf(script, script')
  BY <1>3 DEF StartBlame, LegacyScript, LeftOf, Last, Front
<1>5. CASE Len(T) = 0
  <2>1. Len(script) = 0
    BY <1>3, <1>5 DEF EndS
  <2>2. script = <<>>
    BY <1>3, <2>1, EmptySeq
  <2>3. script' = <<>>
    BY <1>4, <2>2 DEF LeftOf
  <2>4. next' > Len(script') /\ next' \in Nat /\ Len(script') \in Nat
    BY <1>2, <2>3
  <2>5. commands' = CommandsIn(T, 1..Len(T))
    BY <1>2, <1>5 DEF CommandsIn
  <2>6. Applying(T, commands', tracker', final', depth', new', old')
    BY <1>2, <2>5, AllBlamed
  <2>7. Applying(T, commands, tracker, final, depth, new, old)'
    BY <1>2, <2>6, SameHead
  <2>8. Through(T)'
    BY <2>4, <2>7 DEF Through
  <2> QED BY <1>2, <1>4, <2>8 DEF Blaming
<1>6. CASE Len(T) # 0
  <2>1. 1 \in 1..Len(T) /\ 0 < Len(T) /\ 0 \in 0..Len(T)
    BY <1>3, <1>6
  <2>2. T[1].s = EndS(T, 1 - 1) /\ 1 - 1 = 0
    BY <1>1, <2>1, OneStepOn
  <2>3. T[0 + 1].s = 1
    BY <2>2 DEF EndS
  <2>4. commands' = CommandsIn(T, 1..0)
    BY <1>2 DEF CommandsIn
  <2>5. Mirrors(tracker, final, depth, new)'
    BY <1>2, SameHead
  <2>6. Reading(T, 0)'
    BY <1>2, <2>1, <2>3, <2>4, <2>5 DEF Reading
  <2> QED BY <1>2, <1>4, <2>1, <2>6 DEF Blaming
<1> QED BY <1>5, <1>6

\* One header is read and its payload skipped: the reader comes to the next one.
LEMMA BlameReadStep ==
  ASSUME MaxParts = 1, new \in Texts, old \in Texts, NEW T, NEW full,
         Trace(T, new, old, Len(new), Len(old), full), LeftOf(full, script),
         NEW n \in 0..Len(T), Reading(T, n), BlameHeader
  PROVE  Blaming(T, full)' /\ pc' = "blame"
<1> USE WordAssumption
<1>1. /\ T \in Seq(Steps) /\ Len(T) \in Nat /\ commands = CommandsIn(T, 1..n)
      /\ n < Len(T) /\ next = T[n + 1].s /\ pc = "blame" /\ next <= Len(script)
      /\ new' = new /\ old' = old /\ script' = script /\ head' = head
      /\ tracker' = tracker /\ final' = final /\ depth' = depth
      /\ Mirrors(tracker, final, depth, new)
  BY LenProperties DEF Reading, Trace, BlameHeader, texts, diff, blameVars
<1> DEFINE m == n + 1
           e == T[m]
<1>2. m \in 1..Len(T) /\ m \in 0..Len(T) /\ m - 1 = n /\ n \in Nat /\ m \in Nat
  BY <1>1
<1>3. /\ Len(script) \in Nat /\ e.s \in 1..Len(script)
      /\ script[e.s] = HeaderOf(e) /\ HeaderOf(e) \in Commands
      /\ e.cmd = "a" => \/ e.s + e.count <= Len(script)
                        \/ e.s + e.count = Len(script) + 1
  BY <1>1, <1>2, HeaderLeft
<1>4. e \in Steps /\ e.cmd \in {"a", "d"} /\ e.count \in Nat /\ e.s \in Nat
      /\ EndS(T, m) = e.s + 1 + (IF e.cmd = "a" THEN e.count ELSE 0)
  <2>1. e \in Steps /\ EndS(T, m) = e.s + 1 + (IF e.cmd = "a" THEN e.count ELSE 0)
    BY <1>1, <1>2, OneStepOn
  <2> QED BY <2>1 DEF Steps
<1>5. /\ script[next].cmd = e.cmd /\ script[next].at = LineOf(e) /\ script[next].count = e.count
      /\ script[next] \in Commands /\ script[next] \notin Malformed
  <2>1. script[next] = HeaderOf(e) /\ script[next] \in Commands
    BY <1>1, <1>3
  <2> QED BY <2>1 DEF HeaderOf
<1> DEFINE c == [cmd |-> e.cmd, at |-> LineOf(e), count |-> e.count,
                 order |-> Cardinality(commands)]
<1>6. /\ commands' = commands \cup {c} /\ pc' = pc
      /\ next' = IF e.cmd = "d" THEN next + 1 ELSE Least(next + e.count, Len(script)) + 1
  <2> DEFINE header == script[next]
  <2>1. \/ header \in Words \ (Malformed \cup Commands)
        \/ /\ header \in Commands
           /\ commands' = commands \cup
                {[cmd |-> header.cmd, at |-> header.at, count |-> header.count,
                  order |-> Cardinality(commands)]}
           /\ next' = IF header.cmd = "d" THEN next + 1
                      ELSE Least(next + header.count, Len(script)) + 1
           /\ UNCHANGED pc
        \/ header \in Malformed
    BY DEF BlameHeader
  <2>2. header.cmd = e.cmd /\ header.at = LineOf(e) /\ header.count = e.count
        /\ header \in Commands /\ header \notin Malformed
    BY <1>5
  <2> HIDE DEF header, e
  <2> QED BY <2>1, <2>2
<1>7. commands' = CommandsIn(T, 1..m)
  <2>1. Cardinality(commands) = n
    BY <1>1, <1>2, CommandsNumbered
  <2>2. c = CommandAt(T, m)
    BY <1>2, <2>1 DEF CommandAt
  <2>3. 1..m = 1..n \cup {m}
    BY <1>2
  <2> HIDE DEF c, m
  <2> QED BY <1>1, <1>6, <2>2, <2>3 DEF CommandsIn
<1>8. \/ next' = EndS(T, m)
      \/ next' = Len(script) + 1 /\ EndS(T, m) = Len(script) + 2
  <2>1. CASE e.cmd = "a"
    <3>1. /\ EndS(T, m) = e.s + 1 + e.count
          /\ next' = Least(e.s + e.count, Len(script)) + 1
      BY <1>1, <1>4, <1>6, <2>1
    <3> HIDE DEF e, m
    <3>2. CASE e.s + e.count <= Len(script)
      <4>1. Least(e.s + e.count, Len(script)) = e.s + e.count
        <5>1. PICK p, r \in Nat : p = e.s + e.count /\ r = Len(script)
          BY <1>3, <1>4
        <5>2. Least(p, r) = p
          BY <3>2, <5>1 DEF Least
        <5> QED BY <5>1, <5>2
      <4> QED BY <1>4, <3>1, <4>1
    <3>3. CASE e.s + e.count = Len(script) + 1
      <4>1. Least(e.s + e.count, Len(script)) = Len(script)
        <5>1. PICK p, r \in Nat : p = e.s + e.count /\ r = Len(script)
          BY <1>3, <1>4
        <5>2. Least(p, r) = r
          BY <3>3, <5>1 DEF Least
        <5> QED BY <5>1, <5>2
      <4> QED BY <1>3, <1>4, <3>1, <3>3, <4>1
    <3> QED BY <1>3, <2>1, <3>2, <3>3
  <2>2. CASE e.cmd = "d"
    <3>1. EndS(T, m) = e.s + 1 /\ next' = e.s + 1
      BY <1>1, <1>4, <1>6, <2>2
    <3> QED BY <3>1
  <2> QED BY <1>4, <2>1, <2>2
<1> HIDE DEF c
<1>9. \/ m < Len(T) /\ next' = T[m + 1].s
      \/ m = Len(T) /\ next' \in Nat /\ next' > Len(script)
  <2>1. CASE m < Len(T)
    <3>1. m + 1 \in 1..Len(T) /\ (m + 1) - 1 = m
      BY <1>2, <2>1
    <3> DEFINE o == m + 1
    <3>4. o \in 1..Len(T) /\ o - 1 = m
      BY <3>1
    <3> HIDE DEF m, o
    <3>5. T[o].s = EndS(T, o - 1)
      BY <3>4, OneStepOn
    <3>6. T[o].s \in 1..Len(script)
      BY <1>1, <3>4, HeaderLeft
    <3>2. T[m + 1].s = EndS(T, m) /\ T[m + 1].s \in 1..Len(script)
      BY <3>4, <3>5, <3>6 DEF o
    <3>3. next' = EndS(T, m)
      BY <1>3, <1>8, <3>2
    <3> QED BY <2>1, <3>2, <3>3
  <2>2. CASE m = Len(T)
    <3>1. full \in Seq(Words \cup Commands) /\ Len(full) = EndS(T, Len(T)) - 1
      BY DEF Trace
    <3>2. EndS(T, m) \in Nat
      BY <1>1, <1>2, EndsAreNumbers
    <3>3. Len(script) <= Len(full) /\ Len(full) \in Nat
      BY <3>1, ScriptLeft
    <3> HIDE DEF m
    <3> QED BY <1>3, <1>8, <2>2, <3>1, <3>2, <3>3
  <2> QED BY <1>1, <1>2, <2>1, <2>2
<1>10. CASE m < Len(T) /\ next' = T[m + 1].s
  <2>1. Mirrors(tracker, final, depth, new)'
    BY <1>1, SameHead
  <2>2. Reading(T, m)'
    BY <1>7, <1>10, <2>1 DEF Reading
  <2> QED BY <1>1, <1>2, <1>6, <2>2 DEF Blaming
<1>11. CASE m = Len(T) /\ next' \in Nat /\ next' > Len(script)
  <2>1. Applying(T, commands', tracker', final', depth', new', old')
    BY <1>1, <1>7, <1>11, AllBlamed
  <2>2. Applying(T, commands, tracker, final, depth, new, old)'
    BY <1>1, <2>1, SameHead
  <2>3. Through(T)'
    BY <1>1, <1>3, <1>11, <2>2 DEF Through
  <2> QED BY <1>1, <1>6, <2>3 DEF Blaming
<1> QED BY <1>9, <1>10, <1>11

-------------------------------------------------------------------------------
(* The invariant. *)

Answered == \A h \in DOMAIN final : final[h] \in 0..(depth + 1)

BlameInv ==
  /\ DeltaInv
  /\ head \in Seq(PieceSet) /\ depth \in Nat /\ DOMAIN final = Indices
  /\ pc = "diff" => Mirrors(tracker, final, depth, new)
  /\ pc = "blame" => \E T, full : Blaming(T, full)
  /\ pc = "walk" => commands = {} /\ Mirrors(tracker, final, depth, old)
  /\ pc = "blamed" => Answered

\* At HEAD every line is followed.
LEMMA BlameInvInit ==
  ASSUME MaxParts = 1
  PROVE  BlameInit => BlameInv
<1> SUFFICES ASSUME BlameInit PROVE BlameInv
  OBVIOUS
<1>1. DeltaInv
  BY DeltaInvInit DEF BlameInit
<1>2. new \in Texts /\ pc = "diff" /\ depth = 0 /\ head = Pieces(new)
  BY <1>1 DEF BlameInit, Init, DeltaInv
<1>3. PICK n \in Nat : n = Len(new)
  BY <1>2, TextShape
<1>4. /\ head \in Seq(PieceSet) /\ Len(head) = n /\ DOMAIN head = 1..n
      /\ \A k \in 1..n : head[k].word = new[k].parts[1]
  <2>1. /\ Pieces(new) \in Seq(PieceSet) /\ Len(Pieces(new)) = n
        /\ \A k \in 1..n : Pieces(new)[k] = Piece(new[k])
    BY <1>2, <1>3, TextShape
  <2>2. \A k \in 1..n : head[k].word = new[k].parts[1]
    BY <1>2, <2>1 DEF Piece
  <2>3. head \in Seq(PieceSet) /\ Len(head) = n
    BY <1>2, <2>1
  <2> QED BY <2>2, <2>3, LenProperties
<1>5. /\ tracker = [h \in 1..n |-> Line(h, 0)] /\ final = [h \in 1..n |-> None]
      /\ Indices = 1..n
  BY <1>4 DEF BlameInit, Indices
<1>6. \A h \in 1..n : /\ tracker[h] \in EntrySet /\ tracker[h].head_index = h
                      /\ tracker[h].blame = 0 /\ h # None
  BY <1>5 DEF Line, EntrySet, None
<1>7. tracker \in Seq(EntrySet) /\ Len(tracker) = n
  <2>1. tracker \in [1..n -> EntrySet]
    BY <1>5, <1>6
  <2> QED BY <2>1, FunctionIsSeq
<1>8. Ordered(tracker)
  BY <1>6, <1>7 DEF Ordered
<1>9. Settled(tracker, final, depth)
  BY <1>2, <1>5, <1>6, <1>7 DEF Settled
<1>10. \A k \in 1..n : tracker[k].blame = depth /\ Shows(tracker[k], new[k].parts[1])
  BY <1>2, <1>4, <1>6 DEF Shows
<1>11. Mirrors(tracker, final, depth, new)
  BY <1>3, <1>7, <1>8, <1>9, <1>10 DEF Mirrors
<1> QED BY <1>1, <1>2, <1>4, <1>5, <1>11 DEF BlameInv

\* A line that is still followed gets its answer when the walk ends.
LEMMA LeftIsAnswered ==
  ASSUME NEW text, Mirrors(tracker, final, depth, text), head \in Seq(PieceSet),
         depth \in Nat, NEW v \in 0..(depth + 1)
  PROVE  /\ DOMAIN LeftTo(v) = Indices
         /\ \A h \in Indices : LeftTo(v)[h] \in 0..(depth + 1)
<1>1. tracker \in Seq(EntrySet) /\ Settled(tracker, final, depth)
  BY DEF Mirrors
<1>2. DOMAIN final = Indices /\ DOMAIN tracker = 1..Len(tracker)
      /\ \A h \in Indices : final[h] \in {None} \cup 0..depth
  BY <1>1, LenProperties DEF Settled
<1>3. \A h \in Indices : final[h] = None => h \in Followed
  <2> SUFFICES ASSUME NEW h \in Indices, final[h] = None PROVE h \in Followed
    OBVIOUS
  <2>1. h # None
    BY LenProperties DEF Indices, None
  <2>2. PICK p \in 1..Len(tracker) : tracker[p].head_index = h
    BY <1>1 DEF Settled
  <2> QED BY <1>2, <2>1, <2>2 DEF Followed
<1>4. \A h \in Indices : LeftTo(v)[h] = IF final[h] = None THEN v ELSE final[h]
  BY <1>2, <1>3 DEF LeftTo
<1>5. DOMAIN LeftTo(v) = Indices
  BY <1>2 DEF LeftTo
<1>6. \A h \in Indices : (IF final[h] = None THEN v ELSE final[h]) \in 0..(depth + 1)
  BY <1>2
<1> QED BY <1>4, <1>5, <1>6

\* The domain of the answers stays that of HEAD.
LEMMA FinalisedDomain ==
  ASSUME NEW at, NEW count, DOMAIN final = Indices
  PROVE  DOMAIN Finalised(at, count) = Indices
BY DEF Finalised

\* Whatever the walk does, the tracker is that of the version it has come to.
LEMMA BlameInvNext ==
  ASSUME MaxParts = 1
  PROVE  BlameInv /\ [BlameNext]_<<vars, blameVars>> => BlameInv'
<1> SUFFICES ASSUME BlameInv, [BlameNext]_<<vars, blameVars>> PROVE BlameInv'
  OBVIOUS
<1>1. /\ DeltaInv /\ new \in Texts /\ old \in Texts /\ pc # "raised"
      /\ head \in Seq(PieceSet) /\ depth \in Nat /\ DOMAIN final = Indices
  BY DEF BlameInv, DeltaInv
<1>2. CASE Next /\ (pc' # "read" \/ depth = 0) /\ UNCHANGED blameVars
  <2>1. DeltaInv'
    BY <1>1, <1>2, DeltaInvNext
  <2>2. /\ head' = head /\ depth' = depth /\ final' = final /\ tracker' = tracker
        /\ Indices' = Indices
    BY <1>2 DEF blameVars, Indices
  <2>3. pc' # "blame" /\ pc' # "walk" /\ pc' # "blamed"
    BY <1>1, <1>2 DEF Next, Equal, Edit, StartReading, ReadHeader, Apply, Finish, ScriptRead
  <2>4. pc' = "diff" => pc = "diff" /\ new' = new
    BY <1>2 DEF Next, Equal, Edit, StartReading, ReadHeader, Apply, Finish, ScriptRead, texts
  <2>5. pc' = "diff" => Mirrors(tracker, final, depth, new)'
    BY <2>2, <2>4, SameHead DEF BlameInv
  <2> QED BY <1>1, <2>1, <2>2, <2>3, <2>5 DEF BlameInv
<1>3. CASE StartBlame
  <2>1. DiffInv /\ Mirrors(tracker, final, depth, new)
    BY <1>3 DEF StartBlame, BlameInv, DeltaInv
  <2>2. \E T, full : Blaming(T, full)'
    BY <1>1, <1>3, <2>1, StartBlameKeeps
  <2>3. /\ pc' = "blame" /\ new' = new /\ old' = old /\ head' = head /\ depth' = depth
        /\ final' = final /\ Indices' = Indices
    BY <1>3 DEF StartBlame, texts, blameVars, Indices
  <2>4. DeltaInv'
    BY <1>1, <2>3 DEF DeltaInv
  <2> QED BY <1>1, <2>2, <2>3, <2>4 DEF BlameInv
<1>4. CASE BlameHeader
  <2>1. /\ pc = "blame" /\ new' = new /\ old' = old /\ head' = head /\ depth' = depth
        /\ final' = final /\ Indices' = Indices
    BY <1>4 DEF BlameHeader, texts, blameVars, Indices
  <2>2. PICK T, full : Blaming(T, full)
    BY <2>1 DEF BlameInv
  <2>3. PICK n \in 0..Len(T) : Reading(T, n)
    <3>1. ~Through(T)
      BY <1>4 DEF Through, BlameHeader
    <3> QED BY <2>2, <3>1 DEF Blaming
  <2>4. Trace(T, new, old, Len(new), Len(old), full) /\ LeftOf(full, script)
    BY <2>2 DEF Blaming
  <2>5. Blaming(T, full)' /\ pc' = "blame"
    BY <1>1, <1>4, <2>3, <2>4, BlameReadStep
  <2>6. DeltaInv'
    BY <1>1, <2>1, <2>5 DEF DeltaInv
  <2> QED BY <1>1, <2>1, <2>5, <2>6 DEF BlameInv
<1>5. CASE BlameApply
  <2>1. /\ pc = "blame" /\ pc' = pc /\ new' = new /\ old' = old /\ head' = head
        /\ depth' = depth /\ next' = next /\ script' = script /\ Indices' = Indices
        /\ next > Len(script)
    BY <1>5 DEF BlameApply, texts, diff, Indices
  <2>2. PICK T, full : Blaming(T, full)
    BY <2>1 DEF BlameInv
  <2>3. Trace(T, new, old, Len(new), Len(old), full) /\ LeftOf(full, script)
    BY <2>2 DEF Blaming
  <2>4. Through(T)
    <3>1. ASSUME NEW n \in 0..Len(T), Reading(T, n) PROVE FALSE
      <4>1. n + 1 \in 1..Len(T)
        <5>1. Len(T) \in Nat
          BY <2>3, LenProperties DEF Trace
        <5> QED BY <3>1, <5>1 DEF Reading
      <4>2. T[n + 1].s \in 1..Len(script) /\ Len(script) \in Nat
        BY <1>1, <2>3, <4>1, HeaderLeft
      <4>3. next = T[n + 1].s
        BY <3>1 DEF Reading
      <4> QED BY <2>1, <4>2, <4>3
    <3> QED BY <2>2, <3>1 DEF Blaming
  <2>5. Applying(T, commands', tracker', final', depth', new', old')
    BY <1>1, <1>5, <2>3, <2>4, BlameApplyStep DEF Through
  <2>6. Applying(T, commands, tracker, final, depth, new, old)'
    BY <2>1, <2>5, SameHead
  <2>7. Blaming(T, full)'
    BY <2>1, <2>3, <2>4, <2>6 DEF Blaming, Through
  <2>8. DOMAIN final' = Indices
    <3>1. final' = final \/ \E at, count : final' = Finalised(at, count)
      BY <1>5 DEF BlameApply
    <3> QED BY <1>1, <3>1, FinalisedDomain
  <2>9. DeltaInv'
    BY <1>1, <2>1 DEF DeltaInv
  <2> QED BY <1>1, <2>1, <2>7, <2>8, <2>9 DEF BlameInv
<1>6. CASE Survive
  <2>1. /\ pc = "blame" /\ pc' = "walk" /\ new' = new /\ old' = old /\ head' = head
        /\ depth' = depth + 1 /\ final' = final /\ Indices' = Indices /\ commands' = commands
        /\ commands = {} /\ next > Len(script)
        /\ tracker' = [p \in DOMAIN tracker |-> [tracker[p] EXCEPT !.blame = depth + 1]]
    BY <1>6 DEF Survive, texts, reader, Indices
  <2>2. PICK T, full : Blaming(T, full)
    BY <2>1 DEF BlameInv
  <2>3. Trace(T, new, old, Len(new), Len(old), full) /\ LeftOf(full, script)
    BY <2>2 DEF Blaming
  <2>4. Through(T)
    <3>1. ASSUME NEW n \in 0..Len(T), Reading(T, n) PROVE FALSE
      <4>1. n + 1 \in 1..Len(T)
        <5>1. Len(T) \in Nat
          BY <2>3, LenProperties DEF Trace
        <5> QED BY <3>1, <5>1 DEF Reading
      <4>2. T[n + 1].s \in 1..Len(script) /\ Len(script) \in Nat
        BY <1>1, <2>3, <4>1, HeaderLeft
      <4>3. next = T[n + 1].s
        BY <3>1 DEF Reading
      <4> QED BY <2>1, <4>2, <4>3
    <3> QED BY <2>2, <3>1 DEF Blaming
  <2>5. Track(tracker, final, depth, new, old, 0, 0)
    <3>1. Applying(T, commands, tracker, final, depth, new, old)
      BY <2>4 DEF Through
    <3>2. ASSUME NEW g \in Nat, NEW m \in Nat, NEW q \in Nat,
                 Grouped(T, commands, tracker, final, depth, new, old, g, m, q)
          PROVE  FALSE
      <4>1. m \in 1..(g - 1) \cup m..q /\ commands = CommandsIn(T, 1..(g - 1) \cup m..q)
        BY <3>2 DEF Grouped
      <4>2. CommandAt(T, m) \in commands
        BY <4>1 DEF CommandsIn
      <4> QED BY <2>1, <4>2
    <3> QED BY <3>1, <3>2 DEF Applying, Drained
  <2>6. Mirrors(tracker', final', depth', old')
    BY <1>1, <2>1, <2>5, TrackSurvives
  <2>7. Mirrors(tracker, final, depth, old)'
    BY <2>1, <2>6, SameHead
  <2>8. DeltaInv'
    BY <1>1, <2>1 DEF DeltaInv
  <2>9. depth' \in Nat
    BY <1>1, <2>1
  <2> QED BY <1>1, <2>1, <2>7, <2>8, <2>9 DEF BlameInv
<1>7. CASE StepBack
  <2>1. /\ pc = "walk" /\ pc' = "diff" /\ new' = old /\ old' \in Texts /\ head' = head
        /\ depth' = depth /\ final' = final /\ tracker' = tracker /\ Indices' = Indices
        /\ commands' = commands /\ i' = 0 /\ j' = 0 /\ script' = <<>> /\ next' = 1
    BY <1>7 DEF StepBack, Indices
  <2>2. commands = {} /\ Mirrors(tracker, final, depth, old)
    BY <2>1 DEF BlameInv
  <2>3. DiffInv'
    <3>1. Len(new') \in Nat /\ Len(old') \in Nat
      BY <1>1, <2>1, TextShape
    <3>2. 0 \in 0..Len(new') /\ 0 \in 0..Len(old')
      BY <3>1
    <3>3. Trace(<<>>, new', old', i', j', script')
      BY <2>1, NoTrace
    <3> QED BY <2>1, <2>2, <3>2, <3>3 DEF DiffInv
  <2>4. DeltaInv'
    BY <1>1, <2>1, <2>3 DEF DeltaInv
  <2>5. Mirrors(tracker, final, depth, new)'
    BY <2>1, <2>2, SameHead
  <2> QED BY <1>1, <2>1, <2>4, <2>5 DEF BlameInv
<1>8. CASE Stop \/ StopAtBinary
  <2>1. PICK v \in 0..(depth + 1) : final' = LeftTo(v)
    <3>1. depth \in 0..(depth + 1) /\ depth + 1 \in 0..(depth + 1)
      BY <1>1
    <3> QED BY <1>8, <3>1 DEF Stop, StopAtBinary
  <2>2. /\ AtBlock /\ pc' = "blamed" /\ new' = new /\ old' = old /\ head' = head
        /\ depth' = depth /\ Indices' = Indices
    BY <1>8 DEF Stop, StopAtBinary, texts, Indices
  <2>3. PICK text : Mirrors(tracker, final, depth, text)
    BY <2>2 DEF AtBlock, BlameInv
  <2>4. /\ DOMAIN LeftTo(v) = Indices
        /\ \A h \in Indices : LeftTo(v)[h] \in 0..(depth + 1)
    BY <1>1, <2>3, LeftIsAnswered
  <2>5. Answered' /\ DOMAIN final' = Indices
    BY <2>1, <2>2, <2>4 DEF Answered
  <2>6. DeltaInv'
    BY <1>1, <2>2 DEF DeltaInv
  <2> QED BY <1>1, <2>2, <2>5, <2>6 DEF BlameInv
<1>9. CASE UNCHANGED <<vars, blameVars>>
  <2>1. /\ new' = new /\ old' = old /\ i' = i /\ j' = j /\ script' = script /\ next' = next
        /\ commands' = commands /\ lines' = lines /\ pc' = pc
        /\ head' = head /\ tracker' = tracker /\ final' = final /\ depth' = depth
    BY <1>9 DEF vars, texts, diff, reader, blameVars
  <2>2. DeltaInv'
    BY <1>1, <2>1, DeltaInvNext DEF vars, texts, diff, reader
  <2>3. /\ Mirrors(tracker, final, depth, new) => Mirrors(tracker, final, depth, new)'
        /\ Mirrors(tracker, final, depth, old) => Mirrors(tracker, final, depth, old)'
    BY <2>1, SameHead
  <2>4. ASSUME NEW T, NEW full, Blaming(T, full) PROVE Blaming(T, full)'
    <3>1. CASE Through(T)
      <4>1. Applying(T, commands, tracker, final, depth, new, old)'
        BY <2>1, <3>1, SameHead DEF Through
      <4> QED BY <2>1, <2>4, <3>1, <4>1 DEF Blaming, Through
    <3>2. CASE \E n \in 0..Len(T) : Reading(T, n)
      BY <2>1, <2>3, <2>4, <3>2 DEF Blaming, Reading
    <3> QED BY <2>4, <3>1, <3>2 DEF Blaming
  <2>5. Indices' = Indices /\ (Answered => Answered')
    BY <2>1 DEF Indices, Answered
  <2> QED BY <1>1, <2>1, <2>2, <2>3, <2>4, <2>5 DEF BlameInv
<1> QED BY <1>2, <1>3, <1>4, <1>5, <1>6, <1>7, <1>8, <1>9 DEF BlameNext

\* Whatever texts the versions have and however many deltas blame walks over, the tracker
\* is that of the version it has come to, and no script it reads is refused.
THEOREM BlameInvariant == MaxParts = 1 => (BlameSpec => []BlameInv)
<1> SUFFICES ASSUME MaxParts = 1 PROVE BlameSpec => []BlameInv
  OBVIOUS
<1>1. BlameInit => BlameInv
  BY BlameInvInit
<1>2. BlameInv /\ [BlameNext]_<<vars, blameVars>> => BlameInv'
  BY BlameInvNext
<1> QED BY <1>1, <1>2, PTL DEF BlameSpec

\* blame() answers for every line of HEAD with a version it has been to: its fallback is
\* never needed.
THEOREM LinesAnswered == MaxParts = 1 => (BlameSpec => []EveryLineAnswered)
<1> SUFFICES ASSUME MaxParts = 1 PROVE BlameSpec => []EveryLineAnswered
  OBVIOUS
<1>1. BlameSpec => []BlameInv
  BY BlameInvariant
<1>2. BlameInv => EveryLineAnswered
  <2> SUFFICES ASSUME BlameInv PROVE EveryLineAnswered
    OBVIOUS
  <2>1. DOMAIN final = Indices /\ DOMAIN head = Indices
    BY LenProperties DEF BlameInv, Indices
  <2> QED BY <2>1 DEF BlameInv, EveryLineAnswered, Answered
<1> QED BY <1>1, <1>2, PTL

\* After each delta the tracker is the older version line for line, its lines in their
\* order, and the lines it has lost have their answer.
THEOREM TrackerIsMirror == MaxParts = 1 => (BlameSpec => []TrackerMirrors)
<1> SUFFICES ASSUME MaxParts = 1 PROVE BlameSpec => []TrackerMirrors
  OBVIOUS
<1>1. BlameSpec => []BlameInv
  BY BlameInvariant
<1>2. BlameInv => TrackerMirrors
  <2> SUFFICES ASSUME BlameInv, pc = "walk"
               PROVE  /\ Len(tracker) = Len(Pieces(old))
                      /\ \A p \in DOMAIN tracker : LET h == tracker[p].head_index IN
                           h # None => head[h].word = Pieces(old)[p].word
                      /\ \A p, q \in DOMAIN tracker :
                           p < q /\ None \notin {tracker[p].head_index, tracker[q].head_index}
                             => tracker[p].head_index < tracker[q].head_index
                      /\ \A h \in DOMAIN head : (h \in Followed) <=> (final[h] = None)
    BY DEF TrackerMirrors
  <2>1. old \in Texts /\ Mirrors(tracker, final, depth, old) /\ head \in Seq(PieceSet)
    BY DEF BlameInv, DeltaInv
  <2>2. /\ Len(Pieces(old)) = Len(old)
        /\ \A k \in 1..Len(old) : Pieces(old)[k].word = old[k].parts[1]
    <3>1. /\ Len(Pieces(old)) = Len(old)
          /\ \A k \in 1..Len(old) : Pieces(old)[k] = Piece(old[k])
      BY <2>1, TextShape
    <3>2. \A k \in 1..Len(old) : Pieces(old)[k].word = old[k].parts[1]
      <4> SUFFICES ASSUME NEW k \in 1..Len(old) PROVE Pieces(old)[k].word = old[k].parts[1]
        OBVIOUS
      <4>1. Pieces(old)[k] = Piece(old[k])
        BY <3>1
      <4> QED BY <4>1 DEF Piece
    <3> QED BY <3>1, <3>2
  <2>3. /\ tracker \in Seq(EntrySet) /\ Len(tracker) = Len(old) /\ Ordered(tracker)
        /\ Settled(tracker, final, depth)
        /\ \A k \in 1..Len(old) : Shows(tracker[k], old[k].parts[1])
    BY <2>1 DEF Mirrors
  <2>4. DOMAIN tracker = 1..Len(old) /\ DOMAIN head = Indices
    BY <2>1, <2>3, LenProperties DEF Indices
  <2>5. \A p \in DOMAIN tracker :
          tracker[p].head_index # None
            => head[tracker[p].head_index].word = Pieces(old)[p].word
    BY <2>2, <2>3, <2>4 DEF Shows
  <2>6. \A p, q \in DOMAIN tracker :
          p < q /\ None \notin {tracker[p].head_index, tracker[q].head_index}
            => tracker[p].head_index < tracker[q].head_index
    BY <2>3, <2>4 DEF Ordered
  <2>7. \A h \in DOMAIN head : (h \in Followed) <=> (final[h] = None)
    <3>1. \A h \in Indices : h # None
      BY LenProperties DEF Indices, None
    <3> QED BY <2>3, <2>4, <3>1 DEF Settled, Followed
  <2> QED BY <2>2, <2>3, <2>5, <2>6, <2>7
<1> QED BY <1>1, <1>2, PTL

===============================================================================
